# TinyVec in TLA+

TinyVec is an embedded vector database. An index is a *vector file* (an 8-byte
header with a count and the dimensions, then records of an id and a normalized
vector), a SQLite database beside it (`<file>.metadata.db`, one row of metadata
per id), and, while a writer works, a copy `<file>.temp`. The C core in
`src/src/core/src` is shared by a Python client and a Node client; the copies of
it under both bindings are byte for byte the same, and line numbers here mean
the first.

This directory models what changes that state, checks it with TLC on small
instances, and proves the properties that matter most with TLAPS for all.

## Inventory

| Component | Source | State | Operations | Hard behaviour | Correct when |
|---|---|---|---|---|---|
| Write path | `db.c` 791-1423, `client.py` 126-391 | vector file, `.temp`, SQLite rows and sequence, open transaction, `connection->vec_file` | insert, delete_by_ids, delete_by_filter, update_by_id, reopening | two stores without a common commit; a crash between them; SQLite refusing a step or a commit; stdio's buffer | header counts the records; ids ascend and never come back; nothing goes that was not deleted; rows and records agree between calls |
| Searches by halves | `utils.c` 6-25, `file.c` 446-484 | none | `binary_search_int`, `find_vector_position` | bounds | the target is found exactly when it is there |
| Top-k search | `db.c` 252-586, `minheap.c` | heap | `get_top_k`, `get_top_k_with_filter` | ties, fewer records than asked for, repairs of the heap | the best records, sorted, none lost |
| Connection, opening | `db.c` 68-227, `core/utils.py` 20-45 | pool of connections | create, look up | another process creating the file; a connection that is older than the dimensions of its file | one connection per path, file and database opened together |
| Vector file header | `file.c` 225-280 | dimensions, count, the FILE's position | read, repair, rewrite | other dimensions given at a later connect; readers that move one FILE | count and dimensions are those of the records |
| Filter conversion | `query_convert.c`, `db.c` 588-644 | none | JSON filter to SQL, collecting the ids | missing fields and NULL under negation; a row SQLite cannot evaluate; a value that cannot be printed | the ids are those of the documents the filter describes |
| Pagination | `paginate.c`, `client.py` 393-439 | none | read a page, attach metadata | last page and last batch | the page asked for, each record with its metadata |
| Metadata of results | `db.c` 646-789 | none | attach metadata | SQLite's variable limit | each result with its metadata |
| Python concurrency | `client.py` | event loop, executor of one thread | calls awaited at the same time | deletions await twice; shared `.temp`, FILE and position | as one call at a time |
| Node client and addon | `index.ts`, `utils.ts`, `addon.cpp` | promises, libuv's threads | the same operations | threads share one SQLite transaction, FILE and `.temp`; a `.temp` a crash has left | as one call at a time |
| Distance arithmetic | `distance.c` | none | dot product, normalization | rounding | out of TLC's reach |
| Bindings' types, vendored SQLite and cJSON, tests, benchmarks | | | | | not part of the model |

The clients call the C core synchronously on a worker thread. Client and core
share the vector file and `.temp` by name: the client writes or copies `.temp`,
the core fills it and closes the connection's FILE, the client renames it over
the vector file, and `update_db_file_connection` opens it again. The Python
client has one worker thread, the Node client those of libuv's pool. The core and
SQLite share one connection, and so at most one transaction.

`PROJECT.json` lists under "hazards" what in this code is hard to test, each at
its line, and which property would catch it.

## Modules

| Module | What it is |
|---|---|
| `VecStore` | the write path of one index: Python client, C core, files, SQLite, crashes |
| `VectorDB` | the abstract index: what the caller of the write path is promised |
| `VecStoreRefinement` | the mapping from the one to the other; `Implements` |
| `MCVecStore` | small arguments for TLC |
| `VecStoreProofs` | theorems about `VecStore`: types, header, numbering; then rows, records and metadata together |
| `VecStoreRefinementProofs` | the proof that `VecStore` implements `VectorDB` |
| `BinarySearch`, `MCBinarySearch`, `BinarySearchProofs` | the search by halves |
| `TopK`, `MCTopK`, `TopKProofs` | the scan and the heap of a search |
| `PyClient`, `MCPyClient`, `PyClientProofs` | calls of one Python client that overlap: event loop, worker thread, shared file names and FILE |
| `NodeClient`, `MCNodeClient`, `NodeClientProofs` | calls of one Node client that overlap: libuv's threads, shared `.temp`, FILE and transaction, crashes |
| `VecFile`, `MCVecFile`, `VecFileProofs` | the vector file word by word: opening, inserting, and the reads of searches and pages with their metadata |
| `QueryConvert`, `MCQueryConvert`, `QueryConvertProofs` | a filter from JSON through SQL to the ids it selects, and its meaning |

They describe one system at different grains. `VecStore` takes from `PyClient`
that calls which do not overlap leave the file and the connection in agreement,
from `VecFile` that the file's records are where the header says, and from
`QueryConvert` what a filter selects; `TopK` takes the records from `VecFile`
(`SearchSeesAll`). None is composed with another in TLC: each would multiply
the other's states without a property that needs both.

### VecStore

An operation is cut where the process may die or SQLite may answer with an
error; `pc` names the place it has reached. `main` is the vector file as
another open of it sees it, `temp` the `.temp` file, `wbuf` what stdio holds
back of an update, `handle` whether `connection->vec_file` is NULL, `db` what
SQLite has committed and `work` what the connection sees in its transaction.
The remaining variables are locals of the functions.

| Operation | Actions, in order |
|---|---|
| insert | `StartInsert`, `FilterItem`*, (`NothingValid`) or `CopyToTemp`, `OpenInsert`, (`InsertRow` or `InsertRowFails`)*, `EndInsert` or `RollbackInsert`, `AppendRecords`, `RenameTemp`, `Reopen`; `InsertNothing` when the C function returned 0 |
| delete | `StartDeleteByIds` or `StartDeleteByFilter` (`DeleteByFilterNoMatch`), `ScanRecord`*, `SealTemp`, `DeleteRows`*, `CommitDelete`, `RenameTemp`, `Reopen` |
| update | `StartUpdate`, (`UpdateMetaOnly`, `UpdateVector`)*, `CommitUpdate`, `FlushUpdate`, `AnswerUpdate`; or `UpdateNotFound`, `UpdateRowFails` and `UndoUpdate` |
| all else | `Read` (searches, pages, statistics: they move the FILE, so stdio writes), `StatsOnClosedFile`, `Crash`, `Connect` |

Assumptions of the model, beyond the abstraction of data:

- One client makes one call at a time. Calls that overlap are the subject of
  `PyClient` and `NodeClient`; `QuietIndexIsSound` there is, on the file, the
  rows and the connection, what `VecStore` takes for granted between two calls.
- A crash is a crash of the process. What was written to a file stays; what
  stdio buffered, and an open transaction, are lost. Loss of power is out.
- `fopen`, `malloc`, writing to disk and preparing a statement succeed.
- SQLite's faults are those the code looks at: a step may be refused without
  ending the transaction ("step"), a COMMIT may fail and leave the transaction
  open or roll it back ("commit"), and BEGIN fails exactly when a transaction
  is open. A fault may come at any time or never.
- An insertion writes the float32 id exactly; the dimensions of an index do not
  change. Both are hazards, and the subject of `VecFile`.
- stdio holds back at most the vector written last: the seeks of the next
  search write it out.
- `Located` is what the search by halves may answer on a file whose ids need
  not ascend. On ascending ids it is exact, which is `SearchIsRight`.
- The bindings never pass NULL vectors or NULL metadata to `insert_data`.
- The ids of a deletion are a set: repetitions in the caller's list change
  neither what is copied nor which rows go.

### VectorDB and the refinement

`VectorDB` is a map from ids to a vector and its metadata, changed only as the
call in progress asks: an insertion adds its items together under consecutive
new ids, a deletion removes what it names together, an update replaces vectors
one at a time and all metadata at once. `VecStoreRefinement` puts an id in the
abstract index when its record is in the vector file *and* its row is
committed. So an insertion takes effect at the rename (its rows came before), a
deletion at the commit of its rows (its records go later), and a crash between
the two leaves an orphan on one side that is no part of the index. An updated
vector takes effect when stdio writes it.

### BinarySearch

`binary_search_int` and the loop of `find_vector_position` are one algorithm.
Indices count from 0. The array is arbitrary but ascending, with repetitions,
as the ids of a caller's deletion may have.

### TopK

One action per comparison and swap of the heap. A record is an id and its
similarity; NaN is not a similarity. The result may list equals in any order,
as qsort leaves it open. The file is what the header counts of it, which
`HeaderStaysWithinFile` justifies: past the end a read would fail and drop its
whole chunk. A filter that matches nothing returns before the scan.

### PyClient

A coroutine runs on the event loop from one await to the next; a job it hands
to `run_in_executor` runs on the client's only worker thread, in the order
handed over. `ready` and `queue` are those two orders, `pc` the place each call
has reached. Loop and worker run at the same time, so a job is cut wherever the
loop could see or change what it uses: the name of the vector file, the name of
`.temp`, and `connection->vec_file`. Files are inodes, because a FILE outlives
the renaming of its name. The position of the connection's FILE is part of the
state (`at`, `skewed`): a deletion reads on from wherever it is.

| Call | Loop | Worker |
|---|---|---|
| insert | `Begin` | `Copy`, `InsertRow`, `AppendRecord`, `Rename`, `Reopen`, `Unlink` |
| delete by ids, by filter | `Begin`; `WriteHeader` or `StopAtStats`; `Replace`, `Relink`, `Clean` | `Stats`; `DeleteNothing` or `OpenTemp`, `ScanChunk`*, `Seal` |
| update | `Begin`; `GoOnWithJob` or `StopAtStats` | `Stats`; `Change` and `Reopen`, or `ChangeNothing` |
| search | `Begin` | `ReadRecords` or `ReadNull` |
| page | `Begin`; `GoOnWithJob` or `StopAtStats` | `Stats`; `ReadRecords` or `ReadNull` |
| statistics | `Begin`, `StopAtStats` | `Stats` |

Assumptions:

- Emptying `.temp` and writing its header, and copying the vector file, are one
  step each. SQLite's transaction is one step: only the worker uses it.
- An insertion has one item, valid; a record is its id, its vector is that of
  its id. An index has two dimensions or more.
- A FILE that is not at the start of a record reads ids that nobody gave
  (written 0); a chunk that is not there in full is dropped, as in the code.
- Closing a FILE another thread is using is undefined behaviour: the process may
  crash (`Relink`), or the user reads on from the new FILE. Using NULL crashes.
- An update that misses an id, or a page, leaves the FILE anywhere.
- A deletion by ids names at least one: of none, `delete_by_ids` returns before
  it does anything (`ClientAssumption`).
- SQLite's errors and crashes of the process in between are left to `VecStore`.

### NodeClient

What a Node call awaits runs on a thread of libuv's pool: copying, creating,
renaming and unlinking `.temp`, and the functions of the core. A thread is cut
at each of these and, inside the core, where another thread can change what it
uses: the FILE, `.temp`, and SQLite's one transaction. `pc` is the place of
each call, `saved` the transaction: whether one is open and what a ROLLBACK
brings back. The JavaScript between two awaits changes nothing shared but for
`nativeUpdateDbFileConnection` (`Reopen`), which closes and opens the FILE while
the pool may be using it.

| Call | Steps |
|---|---|
| insert | `Stats`, `Copy`, `OpenTemp`, `Begin`, `Rows`, `End` (`EndInsert`), `Append`, `Rename`, `Reopen`, `Unlink` |
| deleteByIds, deleteByFilter | `Stats`, `Header`, `Scan`, `Seal`, `Begin`, `Rows`, `End` (`EndDelete`) and `Undo`, `Rename`, `Reopen`, `Unlink` |
| updateById | `Stats`, `Begin`, `Rows`, `End` (`EndUpdate`), `Reopen` |
| search, getPaginated | `Read`; `Stats` first for a page |

BEGIN fails while another call's transaction is open: an insertion or deletion
then gives up, an update works on in the other's transaction and ends it.
`refused` counts the deletions that found a `.temp`, `crashes` the crashes;
both, with `mixed` (a writer has overlapped with another call), are history.

Assumptions:

- An insertion has one item; a file is its count and the set of its ids. What
  two writers of one `.temp` leave in it is not described record by record, and
  no property is about a file's contents once a writer has overlapped.
- Closing a FILE that another thread uses is undefined behaviour: either it goes
  well or the process is gone (`alive`). Using NULL ends the process. When the
  process is gone this way the model stops.
- `Crash` is the death of the process in the middle of calls, after which
  another process opens the index: an open transaction is rolled back, `.temp`
  stays.
- SQLite's statements of one thread are atomic (its own mutex), its errors other
  than a nested BEGIN and a COMMIT without a transaction are in `VecStore`.
- Reading another thread's position of the FILE is in `VecFile`.
- A deletion names finitely many ids, and one that is not by a filter names at
  least one (`NodeAssumption`): the client answers an empty list itself (index.ts
  163).

### VecFile

The file is a sequence of words: the count, the dimensions, then an id and a
vector per record. A word written as one type can be read as another: what is
a float read as an integer is `Huge`, what is a component read as an id is 0.
`conn` has the connection's own dimensions, `client` those of the client, `at`
the position of the connection's one FILE. The history variable `kept` lists the
ids of the records insertions have reported.

| Part | Actions |
|---|---|
| opening | `Init` (a file that was there or a new one), `Connect` on a path new to the pool, `ConnectAgain` on a known one, `Restart` |
| insertion | `Insert`: the dimensions written by the client, the buffer `insert_data` fills, the new header |
| `get_vec_file_header_info` | `Seek`, `Tell`, `ReadCount`, `ReadDims`, `Settle`: one action per call of stdio, with the repairs |
| search | `Search`, the header, `ReadChunk`*, `ReadAll`, `Attach`, `Return` |
| page | `Page`, the header for the statistics, `Resume` (the limit lowered in the caller's config), the header, `ReadPage`, `Attach`, `Return` |

Assumptions:

- A vector's components are all alike and tell whose they are; what
  `insert_data` reads beyond a vector, or never writes in its buffer, is `Junk`.
- Reading a run of records, and skipping to a page and reading it, are one step
  each.
- An insertion is one step and comes when no thread reads; it can come between
  the statistics of a page and the page. The FILE being closed under a reader
  is in `PyClient` and `NodeClient`.
- Deletions are left to `VecStore`; old files with gaps in their ids (`OldIds`)
  stand for what deletions leave.
- `Exact` is 4 where float32 has 2^24; above it every second id is rounded, to
  the even neighbour, as in the first binade above 2^24.
- The Node client drops no vector of another length: it is `client = 0`.
- An older file holds at most `MaxRecords` records, and no count or length is as
  large as `Huge`: the bits of an id stored as a float are, as an int, above 10^9.

### QueryConvert

`Conditions` is the WHERE clause as a set of conditions (a path, an operator, an
argument), empty for a filter that does not parse, `Holds` and `Raises` what
SQLite makes of a condition on a row, and the actions are those of
`get_filtered_ids`: prepare, then one step per row until a step answers anything
but a row. A conjunct that is false may or may not hide one that raises: SQLite
chooses the order. `$in` and `$nin` without a list, or with an empty one, are
the constants 0 and 1 and look at no metadata (`Extracts`): a row without JSON
cannot make them raise. `Unparsed` stands for every filter whose text
`cJSON_Parse` refuses: Python's `json.dumps` writes NaN and Infinity (client.py
73, 308), and cJSON refuses these and text nested deeper than 1000 (cJSON.h
137). `json_query_to_sql` makes `1=1` of it (query_convert.c 371-375), which
selects every row. `process_object` and `process_field` call each other down the
filter's tree; `Fields` is the fields they come to, collected depth by depth
with the path to each. `Matches` is the meaning of a filter, defined on the
trees of filter and document and not on paths and conditions: `Demands` walks
down both at once.

Assumptions: `Json` is a set of JSON values with their parts (`JsonAssumption`),
the filters are objects of it or `Unparsed`, and no filter that parses has a
nested object below depth `Nesting` (`ArgumentsAssumption`). Strings are
numbered 0 to 999, between the texts of arrays and objects. Field names are
plain words, short enough not to be cut off, and a filter that is not a JSON
object is no filter; a number has a few decimals or, to show `%f`, one more than
it prints (`Grain`); words are not JSON themselves. Where field and condition
are of different types no document says what should be selected, and the
property asks nothing (`Fits`).

## Runs

| Run | Faults | Properties | What it shows |
|---|---|---|---|
| `write_path` (`VecStore.cfg`) | none | `TypeOK`, `SoundWhenIdle`, `VectorsKeepTheirMetadata`, `DeletionCountAgrees`, `OperationsReturn` | in normal operation, calls pair every record with its row and its metadata, leave the connection readable, report true counts, and return |
| `crashes` (`VecStoreCrash.cfg`) | crash | `HeaderCountsRecords`, `AscendingIds`, `IdsBelowSequence`, `OnlyDeletedRecordsGo`, `RecordsFollowTheirRows`, `Implements` | the process may die anywhere: the vector file stays well formed and the index keeps its promise |
| `all_faults` (`VecStoreFaults.cfg`) | step, commit, crash | `HeaderWithinFile`, `RowsGoOnlyWhenDeleted`, `NoIdReuse` | what holds whatever SQLite refuses |
| `binary_search` | | `AnswerIsRight`, `ReadsInside`, `Halves` | the search is right, stays inside, and halves what is left |
| `top_k` | | `RootIsLeast`, `KeepsBest`, `ResultsAreBest` | the heap loses no better record |
| `py_client` | | `QuietIndexIsSound`, `ClosedFileIsNotUsed`, `LoneDeletionsTakeNoMore`, `NothingIsLeftBehind`, `RecordsStayUnique`, `EveryCallReturns` | calls of a Python client may overlap as long as a deletion is made alone (the first three); the others hold however calls overlap |
| `node_client` | crash | `QuietIndexIsSound`, `ClosedFileIsNotUsed`, `RefusedOncePerCrash`, `NothingIsLeftBehind`, `NoTransactionStaysOpen`, `EveryCallReturns` | readers of a Node client may overlap as long as every writer is alone (the first three); the others hold however calls overlap, and the `.temp` of a crash costs one deletion and no more |
| `vec_file` | | `HeaderDescribesRecords`, `CountSurvives`, `PagesAreSlices`, `SearchSeesAll`, `ReadersChangeNothing` | one thread: the header says what is in the file as long as lengths agree, and the count even if not; pages and searches return what is there, each record with its own metadata |
| `query` | | `SelectsWhatIsDescribed`, `CutShortByUnreadableRow`, `UnsayableSelectsNothing` | a filter selects what it describes; the two ways a selection comes out smaller are named, and no value that cannot be printed makes it larger: only a filter that does not parse does, and it selects everything |

Three more runs check a property that a comment or a README states and that the
code breaks; TLC shows how.

| Run | What happens |
|---|---|
| `search_in_deletion` | a search comes between a deletion's statistics and its job: the FILE is at its end, every chunk fails, and an empty file replaces the index |
| `vec_file_shared` | two threads read the header at the same time: one finds the FILE at its end, or on a vector, and writes a count of 0 or the connection's dimensions over the header |
| `tags_in` | `$in` with words on a field that is an array: the array's text is compared, and nothing is selected |

Every module with proofs but `QueryConvert`, whose state is two loop variables,
states a `TypeOK`. TLC finds it to hold on the same instances; only `VecStore`'s is among a run's properties. It, `NodeClient`'s and
`PyClient`'s are proved as theorems of their own. In `BinarySearch` and `TopK` it
is part of the invariant that is proved, as is `HeapOrder`; the proofs about
`VecFile` need other parts of it and have a type invariant of their own
(`FileType`).

The models show more that the code does, without a run of its own:

- With Faults {"step"} in `VecStore`, an insertion whose rows are all refused
  returns 0 before the client reopens (client.py 219), and `SoundWhenIdle`
  fails: the connection's FILE stays NULL, and statistics pass it to `fseek`
  (db.c 239). One refused row makes `HeaderCountsRecords` fail: the whole buffer
  is written, though the comment there says "Write only what we filled" (db.c
  926). And `VectorsKeepTheirMetadata` fails: a statement whose step failed is
  not reset (db.c 885), so the next item is stored with the refused item's
  metadata.
- With Faults {"commit"}, `AscendingIds` fails: the records are published though
  their rows were rolled back (db.c 920), and their ids come back.
- An update that meets an unknown id returns 0 and rolls its rows back, but the
  vectors before it stay changed (db.c 1417). An update of one item's vector and
  another's metadata counts as one (`UpdateCount`, db.c 1412).
- With an insertion beside a deletion, `QuietIndexIsSound` of `PyClient` fails
  without its premise in two ways: the deletion empties the `.temp` the
  insertion has just filled (client.py 266), and the insertion renames that over
  the vector file; or its cleanup (client.py 291) unlinks the insertion's
  `.temp`, whose renaming raises with its row committed and the FILE closed.
  Statistics between a deletion's job and its reopening use the NULL FILE.
- Writers that overlap in `NodeClient`: an update's COMMIT publishes the rows of
  an insertion that is not done, its ROLLBACK takes them back while the
  insertion goes on to append the record; a second insertion copies over the
  first's `.temp`. A deletion whose COMMIT fails because another call ended its
  transaction rolls back one statement later (`Undo`); to hit a third call's
  transaction there takes four calls at once, one more than the run has.
- In `VecFile`, the rounding of ids above `Exact` makes `SearchSeesAll` and
  `PagesAreSlices` fail without their premise: two records with one id, of which
  one gets the metadata. A client that passes through a pooled connection older
  than its file's dimensions inserts vectors of another length and makes
  `HeaderDescribesRecords` fail without its premise (`agreed`). More results
  than SQLite takes variables come back without metadata. A page's limit
  stays lowered in the caller's config.
- In `QueryConvert`, a row without metadata (the Python client stores "") ends
  every selection that looks at metadata at that row (`CutShortByUnreadableRow`), since json_extract
  raises and `get_filtered_ids` takes that for the end. `null` is printed as
  NULL and equals nothing. Fields beside an operator in one object are dropped.
  A filter that does not parse selects every row, those without metadata, too: a
  `delete_by_filter` with a NaN in it deletes the whole index.

### Bounds

`MaxId` and `MaxRecords` bound the insertions started, at 4 (3 where everything
may fail): enough for two insertions with a deletion of the highest ids and an
update between them. Batches have one or two items, with an item of wrong
dimensions first and an unknown id after a known one. `BufferSize` is 2 and
`BatchSize` 1 where the code has 1024 and 500, so that copying takes more than
one chunk, the last one short, and a deletion more than one statement. The
code's behaviour depends on these numbers only through where the chunks end.
`BinarySearch` takes all ascending arrays of up to 5 entries over 1..5 and
targets from 0 to 6. `TopK` takes files of 0, 1 and 6 records, all similarities
over 1..4 and `top_k` 1, 2 and 4: a heap of 4 has a repair of two levels and a
node with one child. `PyClient` has three calls, in every combination of eight
requests: two that disturb each other and a third that comes after or between.
The index has three records, and `BufferSize` 2, so that a deletion reads a full
and a short chunk. `NodeClient` has three calls too, on three threads (libuv's
pool has four by default, and one thread more adds calls, not kinds of steps),
an index of two records, and one crash. Its seven requests have a deletion and
an update that hit and one of each that misses. `VecFile` has lengths 2 and 3,
up to four records in two insertions or an older file, pages with skip up to 3
and limit up to 3, so that a skip or limit reaches the end and beyond, chunks of
two records, batches of two ids, three variables to a statement, and ids on both
sides of `Exact`. `VarLimit` below the number of records, and `Batch` below a
page, are the two cases that matter of SQLite's limit and MAX_IDS_PER_BATCH.
`QueryConvert` has each operator with numbers, words, lists of each and of both,
booleans, null and objects, `$in` and `$nin` without a list, on a top-level and
on a nested field, two operators together, conjunctions on two fields, one of
which may hold or fail on all rows, to a depth of 3 (`Nesting`), and operators
where fields should be, and the filter that does not parse, over all tables of
one or two of the seventeen documents: a selection depends on another row only
through being cut short by it.

The calls of the two clients, the two algorithms and the scan of `QueryConvert`
end, so deadlock is not checked there; everywhere else it is.

### Fairness

`OperationsReturn` assumes weak fairness of the steps inside an operation and
of nothing else: the worker thread that runs the C function keeps running. No
call is assumed ever to be made. `EveryCallReturns` of `PyClient` assumes that
the event loop and the worker thread each keep running while they have
something to do; which call they run is fixed by the order of their queues. In
`NodeClient` it assumes weak fairness of each call's next step: libuv has a
thread for each of the calls in progress, and neither they nor the JavaScript
thread stop. The other modules state safety only; that a search by halves ends
follows from `Halves`.

## Proofs

All theorems hold for every value of the constants that satisfies the module's
named assumption, and the theorem's.

| Theorem | Assumption | States |
|---|---|---|
| `VecStoreProofs!TypeCorrect` | | `[]TypeOK` |
| `VecStoreProofs!HeaderStaysWithinFile` | | `[]HeaderWithinFile` |
| `VecStoreProofs!NoIdIsReused` | | `NoIdReuse` |
| `VecStoreProofs!HeaderIsExact` | `NoSqliteErrors` | `[]HeaderCountsRecords` |
| `VecStoreProofs!IdsAscend` | `NoSqliteErrors` | `[]AscendingIds` |
| `VecStoreProofs!RecordsStayBelowSequence` | `NoSqliteErrors` | `[]IdsBelowSequence` |
| `VecStoreProofs!CommittedRowsStay` | | `RowsGoOnlyWhenDeleted` |
| `VecStoreProofs!RecordsGoWithTheirDeletion` | `NoSqliteErrors` | `OnlyDeletedRecordsGo` |
| `VecStoreProofs!RowsComeBeforeRecords` | `NoSqliteErrors` | `RecordsFollowTheirRows` |
| `VecStoreProofs!MetadataStaysWithItsVector` | `NoSqliteErrors` | `[]VectorsKeepTheirMetadata` |
| `VecStoreProofs!SoundBetweenOperations` | `NoFaults` | `[]SoundWhenIdle` |
| `VecStoreProofs!DeletionsCountTheirRows` | `NoFaults` | `DeletionCountAgrees` |
| `VecStoreProofs!OperationsComeToAnEnd` | `FiniteLists` | `OperationsGoOn`: no operation goes on for ever |
| `VecStoreRefinementProofs!WritePathImplementsIndex` | `NoSqliteErrors` | `Implements` |
| `BinarySearchProofs!SearchIsRight` | | `[]AnswerIsRight` |
| `BinarySearchProofs!SearchReadsInside` | | `[]ReadsInside` |
| `BinarySearchProofs!SearchHalves` | | `Halves` |
| `TopKProofs!RootStaysLeast` | | `[]RootIsLeast` |
| `TopKProofs!BestAreKept` | | `[]KeepsBest` |
| `TopKProofs!SearchIsBest` | | `[]ResultsAreBest` |
| `NodeClientProofs!TypeCorrect` | | `[]TypeOK` |
| `NodeClientProofs!TransactionsEnd` | | `[]NoTransactionStaysOpen` |
| `NodeClientProofs!NothingStays` | | `[]NothingIsLeftBehind` |
| `NodeClientProofs!RefusedOnce` | | `[]RefusedOncePerCrash` |
| `NodeClientProofs!ClosedFilesStayUnused` | | `[]ClosedFileIsNotUsed` |
| `NodeClientProofs!QuietIndexStaysSound` | | `[]QuietIndexIsSound` |
| `NodeClientProofs!CallsComeToAnEnd` | | `CallsGoOn`: no call goes back or waits |
| `PyClientProofs!NothingStays` | | `[]NothingIsLeftBehind` |
| `PyClientProofs!ClosedFilesStayUnused` | | `[]ClosedFileIsNotUsed` |
| `PyClientProofs!TypeCorrect` | | `[]TypeOK` |
| `PyClientProofs!RecordsAreUnique` | | `[]RecordsStayUnique` |
| `PyClientProofs!QuietIndexStaysSound` | | `[]QuietIndexIsSound` |
| `PyClientProofs!LoneDeletionsTakeOnlyTheirs` | | `LoneDeletionsTakeNoMore` |
| `PyClientProofs!CallsKeepTheirTurn` | | `[]EveryCallHasItsTurn`: no call is lost in a hand-over |
| `PyClientProofs!CallsComeToAnEnd` | | `CallsGoOn`: no call goes back |
| `VecFileProofs!CountStays` | `OneThread` | `[]CountSurvives` |
| `VecFileProofs!HeaderStaysTrue` | `OneThread` | `[]HeaderDescribesRecords` |
| `VecFileProofs!ReadersOnlyRead` | `OneThread` | `ReadersChangeNothing` |
| `VecFileProofs!SearchesSeeAll` | `OneThread` | `[]SearchSeesAll` |
| `VecFileProofs!PagesStaySlices` | `OneThread` | `[]PagesAreSlices` |
| `QueryConvertProofs!SelectionIsAsDescribed` | | `[]SelectsWhatIsDescribed` |
| `QueryConvertProofs!OnlyUnreadableRowsCutShort` | | `[]CutShortByUnreadableRow` |
| `QueryConvertProofs!UnsayableNeverSelects` | | `[]UnsayableSelectsNothing` |

The first three assumptions say where the code keeps what it promises, and each
has its counterexample:

- `NoSqliteErrors`: Faults holds at most "crash". The list after the runs shows
  what a refused step or commit does. The process may still die anywhere.
- `NoFaults`: Faults is empty. A crash between the two stores leaves rows without
  records or records without rows, and no recovery removes them, so that
  `SoundWhenIdle` says too much of an index that has seen one.
- `OneThread`: one thread reads, as in the Python client (`max_workers=1`). With
  two, `vec_file_shared` shows the header overwritten.
- `FiniteLists`: a caller's list of ids is finite.

*Write path.* `TypeOK` is not inductive. `SealTemp` writes a count of records
that must have been copied, `ScanRecord` needs a copy to append to,
`AppendRecords` needs room below `MaxId`. `TypeInv` adds what each place of an
operation knows: `BatchFits` (which kind of items the batch holds), `Room` (ids
left), `TempReady` (where a copy exists and how much it holds), and
`HeaderWithinFile` itself. `NumberInv` relates the sequence of the table to its
rows, committed and not, which gives `NoIdReuse`. `CopyInv` is the invariant
without SQLite errors: `MainGood` (header exact, ids ascending and at most the
committed sequence), `TempGood` (the same of a copy to be renamed), `BufGood`
(the ids collected ascend above the copy's), and `ScanGood` (what a deletion
has copied so far lies below what it looks at next).

*Rows and records.* A property of a step needs what the step cannot see. That a
committed row goes only with its deletion needs to know whose transaction is
open (`RowInv`: only a deletion's holds fewer rows than are committed, and lacks
none but those asked for). That a rename takes no record away but those, and
brings none without a row, needs to know what the copy holds beside the vector
file at each place (`FollowInv`). A record's metadata stays its own because no
statement is left bound and the j-th record collected is the j-th valid item
(`MetaInv`). Between calls rows and records are the same (`SoundInv`): where the
FILE and the transaction are open (`Orderly`), where rows and records part during
an operation and how far (`Agree`), and how many a deletion has left out so far
(`Counted`).

*Refinement.* `RefineInv` is what the mapping needs beside the invariants above.
`InOrder` says what an operation is for and where its transaction is open.
`Unwritten`: stdio holds back at most the last vector of an update. `Chosen`: the
valid items of an insertion are the accepted ones, in their order. `Prepared`:
the copy is the vector file, and what will be appended is numbered on from the
committed sequence and has its rows. `Deleted`: which rows are gone so far, and
that the copy holds only records of the file. `Updated`: the last item with
metadata for an id decides, and an update is undone only after an unknown id.
With it each step is one of the index or a stutter:

| Steps of `VecStore` | Step of `VectorDB` |
|---|---|
| the first of an operation | `AskInsert`, `AskUpdate`, `AskDelete`, `AskDeleteByFilter` |
| `EndInsert` | `Reserve` |
| `RenameTemp` of an insertion | `Add` |
| `CommitDelete` | `Remove` |
| a flush of stdio in an update | `SetVector`, or a stutter when nothing was held back |
| `CommitUpdate` | `SetMetas` |
| `Reopen`, `NothingValid`, `AnswerUpdate`, `UndoUpdate` | `Return` |
| `Crash`, `StatsOnClosedFile` | `Die` |
| `Connect` | `Connect` |
| the others, the rename of a deletion's copy among them | stutter: the records that go are those whose rows went |

*Node client.* `TypeInv` is `TypeOK` and where a call of its kind can be
(`PlacesFit`). A transaction that is open has a call between its BEGIN and its
end (`Ends`): that call will end it, whoever began it. A `.temp` that no call
in progress is going to unlink was left by a crash, and while one is there the
deletions refused are fewer than the crashes (`StaleByCrash`). Once a writer has
overlapped nothing more is said; until then it is alone (`Alone`), so that the
FILE is closed only by a call that will open it again (`OpenWhenAlone`), which
needs the copy to be neither the vector file nor what is open (`Apart`). What the
one writer has written to `.temp` and to SQLite at each place (`ContentInv`) ends
in records that are those of the rows. The proofs are for any number of calls,
threads, stored records and crashes.

*Python client.* A job of several steps is the one at the head of the worker's
queue (`JobAtHead`), so at most one is under way, and a deletion that has not
overlapped is alone (`Alone`); with what each kind of call can come to
(`KindsFit`) this is `SchedInv`. The job under way, or a deletion back on the
loop, is who renames or unlinks `.temp` (`TempHeld`) and who opens the FILE again
(`FileHeld`, `ClosedByWriter`).

That no record is ever there twice holds even where calls get into each other's
files, and for a reason the code does not state. A FILE whose `.temp` another call
has unlinked or emptied is written on, so single files do come to repeat records;
but such a file is one nobody will rename: it has no name, or the call at the
head of the loop's queue unlinks it next (`Hidden`, `Unique`). An insertion
appends to a copy of the vector file or to an empty one (`CopyUnique`), a
deletion finds its copy empty (`EmptyCopy`), and a copying loop does not read
again what it has copied, because while it runs the FILE only moves forward, or
another call opens it anew, and then at an offset where no record is recognised
(`ScanTidy`). `Numbered` says that what an insertion appends is above all that
any file holds.

While deletions are alone `Content` says what the files hold: at each place of
an insertion what its copy, the vector file and the rows have in common
(`InsertAt`), and that a copying loop that has asked for *k* records is past *k*
records and has copied those of them that stay, ascending (`Scanned`). The
survivors of a chunk are a recursive function (`Survivors`); what it returns is
proved by the least index at which it would not (`SurvivorsAreLeft`).

*Vector file.* The hard part is arithmetic: words lie in blocks of one more than
the length of a vector, and products of two unknowns are beyond the SMT solver.
Four lemmas (`TimesKeepsOrder`, `Division`, `Split`, `Inside`) are all the
arithmetic of blocks the rest uses. `Holds` says of each word of a file which
record's it is, without division, and is shown to be `Blocks`. Three invariants
build on each other. `FileInv` gives the count: nobody moves the FILE between the
seek and the two reads (`Positioned`), so the header is never found missing.
`RecordInv` gives the words: with lengths that agree, what `insert_data` buffers
is the records of the ids it was given, and no reader finds other dimensions
than the connection's. `ReadInv` gives the readers: the count a thread goes by is
the one in the file (`Knows`), a page's limit is what was asked for or the count
seen (`Lowered`), a search has exactly the records before the FILE's position
(`Scanned`), so every chunk is there in full, and an answer is those records with
their metadata (`Answered`): with distinct ids that all have rows the pairing by
batches can go only one way (`PairsAll`).

*Search by halves.* The invariant says that every entry left of `low` is
smaller and every entry right of `high` larger than the target.

*Top-k.* The heap order holds everywhere except between the entry under repair
and its parent or its children, and there the grandparent is no more similar
than the grandchildren. That the root is then a least entry is an induction
over the heap's indices. Induction over data is out of the prover's reach as
such; here it is done with the well-foundedness of `<` on Nat (lemma
`LeastElement`): the least index with a smaller entry has a parent with one.

*Filter conversion.* A path of keys and a walk down two trees are two ways to the
same field. `WalksAgree` says so: the pairs of `Demands` are, path by path, those
of `Fields`, because `At` follows a path by the same step `Field` by which `Sides`
goes one level down. Depths are numbers, and what holds at depth 1 and from each
to the next holds at all (`UpFrom`, by a least depth where it does not).
`ConditionMeans` is the heart: on a field that fits it, a condition as SQLite
evaluates it (`Holds`), NULL and all, is what its operator means (`Means`), and it
does not raise; one lemma for comparisons, one for lists of words, one for lists
of numbers, one for `$exists`. `RowMeans` puts the conditions of a row together.
`ScanInv` says of the rows read that the ones found are those whose conditions all
hold, that none of them raised, and that a statement was prepared.
`UnsayableIsCaught` finds, for a filter that cannot be said, the condition for
which the statement is not prepared or which no row meets. A row without JSON that
was read has failed a condition that looks at no metadata; that condition fails on
every row (`ConstantConditions`), so nothing was found. That a filter may nest
objects to any depth, and documents even deeper, costs the proof nothing:
`Nesting` is any number.

*Ends.* A liveness property says that there always is a step and that steps do not
go on for ever. The second half is an action property and proved. An operation of
`VecStore` goes to a later place (`Stage`) or has less left in its loop (`Left`):
items, records, and for the DELETE statements the ids no batch has named, of which
each batch has the least (`BatchHasAnId`); this is where `BatchSize` must not be 0.
In both clients each step takes one call to a later place and leaves the others
where they are; a copying loop of the Python client stays where it is but has
asked for more of its records. Of the first half this much is a safety property
of the Python client: no call is lost between the loop and the worker
(`EveryCallHasItsTurn`). These four theorems state properties of their own, which
TLC finds to hold on the same instances. They are no property of a run, where
`OperationsReturn` and `EveryCallReturns` say more.

What stays with TLC, and why:

- `OperationsReturn` and `EveryCallReturns`: that a step is enabled whenever an
  operation or a call is under way, and liveness under fairness, are beyond the
  prover. Neither is an induction over data, which `UpFrom` and `LeastElement`
  replace wherever it was needed.
- The three runs that show a violation.

## Plan

Every part of the program with state of its own has a module. Every invariant
and action property that a passing run checks is a theorem, and so is the
refinement of `VectorDB`. What is left are the two liveness properties, and what
is listed below.

## Not modelled

- Distance arithmetic: floating point, no state.
- The bindings' type conversions; memory management and failing allocations, and
  so the cleanup paths that free what was not allocated (db.c 296).
- SQLite and cJSON themselves, nearly all of the repository's lines: three
  copies of each. Their effects are modelled from their use and marked external
  in the map.
- Two processes on one index: nothing in the code handles it, but for the
  exclusive creation of files. Loss of power.
- Arguments of the wrong sign (a negative skip from Python), ids to delete that
  are negative or above 2^31, and with them the overflow of `compare_ints`.
- Numbers in filters that `%f` prints to more than the 64 bytes of its buffer
  (query_convert.c 103): memory. A string buffer that cannot be allocated gives
  the same `1=1` as a filter that does not parse (query_convert.c 379-383).
- Field names in filters with characters of SQL or JSON paths, and their
  truncation.
- The reader of an older metadata format in `file.c` that no operation calls.
