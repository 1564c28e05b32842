------------------------------ MODULE VecStore ------------------------------
(***************************************************************************)
(* The write path of one TinyVec index used by one client, one call at a   *)
(* time: the vector file, the SQLite table of metadata beside it, the      *)
(* ".temp" file a writer prepares, and the C connection that joins them.   *)
(*                                                                         *)
(* An operation of the Python client (client.py) and the C function it     *)
(* calls (db.c) are cut at every point where the process may die or SQLite *)
(* may answer with an error.  "pc" names the point reached.  A record of   *)
(* the vector file is an id and a vector; its bytes, and the dimensions of *)
(* a vector, are abstracted: a vector of the wrong dimensions is BadVec.   *)
(***************************************************************************)
EXTENDS Integers, Sequences, FiniteSets

CONSTANTS
  Vectors,        \* vectors of the index's dimensions, normalized
  Metas,          \* metadata documents
  BadVec,         \* a vector of any other dimensions
  NoVec,          \* an update that leaves the vector alone
  NoMeta,         \* an update that leaves the metadata alone
  NoFile,         \* the ".temp" file does not exist
  MaxId,          \* bound: no insertion that could pass this id is started
  MaxRecords,     \* bound: nor one that could make the file longer than this
  InsertBatches,  \* the arguments insert is called with
  UpdateBatches,  \* the arguments update_by_id is called with
  IdLists,        \* the arguments delete_by_ids is called with, as sets
  Filters,        \* the arguments delete_by_filter is called with: a filter
                  \* is the set of documents that satisfy it
  BufferSize,     \* vectors per chunk of the copying loop (1024 in db.c)
  BatchSize,      \* ids per DELETE statement (500 in db.c)
  Faults          \* what the environment may do: see FaultKinds

FaultKinds == {"step", "commit", "crash"}

Ids     == 1 .. MaxId
Rec     == [id : Nat, vec : Vectors]
Image   == [count : Nat, recs : Seq(Rec)]
Insertion == [vec : Vectors \cup {BadVec}, meta : Metas]
Update  == [id : Nat, vec : Vectors \cup {BadVec, NoVec},
            meta : Metas \cup {NoMeta}]

ASSUME ConstantsAssumption ==
  /\ MaxId \in Nat /\ MaxRecords \in Nat
  /\ InsertBatches \subseteq Seq(Insertion)
  /\ UpdateBatches \subseteq Seq(Update)
  /\ IdLists \subseteq SUBSET Nat
  /\ Filters \subseteq SUBSET Metas
  /\ BufferSize \in Nat \ {0}
  /\ BatchSize \in Nat \ {0}
  /\ Faults \subseteq FaultKinds
  /\ BadVec \notin Vectors /\ NoVec \notin Vectors /\ BadVec # NoVec
  /\ NoMeta \notin Metas
  /\ NoFile \notin Image

VARIABLES
  main,    \* the vector file as other opens of it see it: header count, records
  temp,    \* the ".temp" file, or NoFile
  wbuf,    \* vectors an update has written to the FILE but stdio not yet to main
  handle,  \* connection->vec_file: "open", or "closed" when it is NULL
  db,      \* committed SQLite state: the rows and AUTOINCREMENT's sequence
  work,    \* the same as this connection sees it inside its transaction
  inTxn,   \* the SQLite connection has a transaction open
  pc,      \* where the client is: "idle", "down", or inside an operation
  batch,   \* the items the operation still has to look at, or works through
  valid,   \* insert: the items with the right dimensions
  ids,     \* delete: the ids to delete
  todo,    \* delete: the ids no DELETE statement has named yet
  byFilter,\* delete: called by delete_by_filter
  hdr,     \* vector count read from a header when the operation began
  k,       \* loop counter, from 1
  buf,     \* insert: records collected for the append
  stale,   \* insert: metadata a failed, unreset statement still has bound
  tally,   \* update: metadata_update_count and vector_update_count
  ret      \* the count the last finished operation returned

disk     == <<main, temp>>
sqlite   == <<db, work, inTxn>>
call     == <<batch, valid, ids, todo, byFilter, hdr, k, buf, stale, tally>>
vars     == <<main, temp, wbuf, handle, db, work, inTxn, pc, batch, valid, ids,
              todo, byFilter, hdr, k, buf, stale, tally, ret>>

IdsOf(img) == {img.recs[p].id : p \in 1 .. Len(img.recs)}

-----------------------------------------------------------------------------
(* Pieces of state and how the code changes them                           *)

\* The file as it is once stdio has written out what wbuf holds: fseek,
\* fflush and fclose all do so.
Flushed(img) ==
  [count |-> img.count,
   recs  |-> [p \in 1 .. Len(img.recs) |->
     [id  |-> img.recs[p].id,
      vec |-> IF p \in DOMAIN wbuf THEN wbuf[p] ELSE img.recs[p].vec]]]

Flush == main' = Flushed(main) /\ wbuf' = <<>>

WithRow(rows, id, md) ==
  [i \in DOMAIN rows \cup {id} |-> IF i = id THEN md ELSE rows[i]]

WithoutRows(rows, S) == [i \in DOMAIN rows \ S |-> rows[i]]

\* Mutant: a plain INTEGER PRIMARY KEY counts from the largest row left.
NextRowIdOfRows(t) ==
  CHOOSE n \in 1 .. MaxId + 1 :
    /\ \A i \in DOMAIN t.rows : i < n
    /\ \A m \in 1 .. n - 1 : \E i \in DOMAIN t.rows : m <= i

\* Mutant: an id is left out.
NextRowIdSkips(t) == t.seq + 2

\* AUTOINCREMENT: one more than any id ever committed or used in this
\* transaction, whatever rows are left.
NextRowId(t) == t.seq + 1

Begin    == inTxn' = TRUE /\ UNCHANGED <<db, work>>
Commit   == db' = work /\ inTxn' = FALSE /\ UNCHANGED work
Rollback == work' = db /\ inTxn' = FALSE /\ UNCHANGED db

\* A COMMIT that fails leaves the transaction open or has rolled it back.
CommitFails ==
  /\ "commit" \in Faults
  /\ UNCHANGED sqlite \/ Rollback

Tally(m, v) == [meta |-> m, vec |-> v]

\* Back in the caller, the operation's local variables are gone.
Forget ==
  /\ batch' = <<>> /\ valid' = <<>> /\ ids' = {} /\ todo' = {}
  /\ byFilter' = FALSE /\ hdr' = 0 /\ k' = 0 /\ buf' = <<>>
  /\ stale' = NoMeta /\ tally' = Tally(0, 0)

Init ==
  /\ main = [count |-> 0, recs |-> <<>>] /\ temp = NoFile
  /\ wbuf = <<>> /\ handle = "open"
  /\ db = [rows |-> <<>>, seq |-> 0] /\ work = db /\ inTxn = FALSE
  /\ pc = "idle" /\ ret = 0
  /\ batch = <<>> /\ valid = <<>> /\ ids = {} /\ todo = {}
  /\ byFilter = FALSE /\ hdr = 0 /\ k = 0 /\ buf = <<>>
  /\ stale = NoMeta /\ tally = Tally(0, 0)

-----------------------------------------------------------------------------
(* insert                                                                  *)

StartInsert ==
  /\ pc = "idle"
  /\ \E b \in InsertBatches :
       /\ b # <<>> /\ work.seq + Len(b) <= MaxId
       /\ Len(main.recs) + Len(b) <= MaxRecords
       /\ batch' = b
  /\ k' = 1 /\ pc' = "filter"
  /\ UNCHANGED <<disk, wbuf, handle, sqlite, valid, ids, todo, byFilter, hdr,
                 buf, stale, tally, ret>>

\* The client drops the vectors whose dimensions are not the index's.
FilterItem ==
  /\ pc = "filter" /\ k <= Len(batch)
  /\ valid' = IF batch[k].vec = BadVec THEN valid ELSE Append(valid, batch[k])
  /\ k' = k + 1
  /\ UNCHANGED <<disk, wbuf, handle, sqlite, pc, batch, ids, todo, byFilter,
                 hdr, buf, stale, tally, ret>>

NothingValid ==
  /\ pc = "filter" /\ k > Len(batch) /\ valid = <<>>
  /\ pc' = "idle" /\ ret' = 0 /\ Forget
  /\ UNCHANGED <<disk, wbuf, handle, sqlite>>

\* Mutant: the copy holds a header only, as a deletion's does.
CopyHeaderToTemp ==
  /\ pc = "filter" /\ k > Len(batch) /\ valid # <<>>
  /\ temp' = [count |-> main.count, recs |-> <<>>]
  /\ pc' = "open"
  /\ UNCHANGED <<main, wbuf, handle, sqlite, call, ret>>

CopyToTemp ==
  /\ pc = "filter" /\ k > Len(batch) /\ valid # <<>>
  /\ temp' = main
  /\ pc' = "open"
  /\ UNCHANGED <<main, wbuf, handle, sqlite, call, ret>>

\* insert_data reads the copy's header, closes the connection's FILE and
\* begins a transaction, which fails only inside another transaction.
OpenInsert ==
  /\ pc = "open"
  /\ hdr' = temp.count
  /\ Flush /\ handle' = "closed"
  /\ k' = 1
  /\ IF inTxn THEN pc' = "nothing" /\ UNCHANGED sqlite
              ELSE pc' = "item" /\ Begin
  /\ UNCHANGED <<temp, batch, valid, ids, todo, byFilter, buf, stale, tally,
                 ret>>

\* Mutant: metadata is taken from the caller's list, not from the valid items.
BoundMetaUnfiltered == IF stale = NoMeta THEN batch[k].meta ELSE stale

\* A statement that failed was not reset: the binding of the next item is
\* refused and the step runs again with the old one.
BoundMeta == IF stale = NoMeta THEN valid[k].meta ELSE stale

InsertRow ==
  /\ pc = "item" /\ k <= Len(valid)
  /\ LET id == NextRowId(work) IN
       /\ work' = [rows |-> WithRow(work.rows, id, BoundMeta), seq |-> id]
       /\ buf' = Append(buf, [id |-> id, vec |-> valid[k].vec])
  /\ stale' = NoMeta
  /\ k' = k + 1
  /\ UNCHANGED <<disk, wbuf, handle, db, inTxn, pc, batch, valid, ids, todo,
                 byFilter, hdr, tally, ret>>

InsertRowFails ==
  /\ pc = "item" /\ k <= Len(valid) /\ "step" \in Faults
  /\ stale' = BoundMeta
  /\ k' = k + 1
  /\ UNCHANGED <<disk, wbuf, handle, sqlite, pc, batch, valid, ids, todo,
                 byFilter, hdr, buf, tally, ret>>

\* Mutant: the transaction is left open while the records are published.
EndInsertLater ==
  /\ pc = "item" /\ k > Len(valid) /\ buf # <<>>
  /\ pc' = "append"
  /\ UNCHANGED <<disk, wbuf, handle, sqlite, call, ret>>

\* END TRANSACTION; its failure is printed and ignored.
EndInsert ==
  /\ pc = "item" /\ k > Len(valid) /\ buf # <<>>
  /\ Commit \/ CommitFails
  /\ pc' = "append"
  /\ UNCHANGED <<disk, wbuf, handle, call, ret>>

RollbackInsert ==
  /\ pc = "item" /\ k > Len(valid) /\ buf = <<>>
  /\ Rollback
  /\ pc' = "nothing"
  /\ UNCHANGED <<disk, wbuf, handle, call, ret>>

\* fwrite takes vec_count slots from a malloc'ed buffer, of which only the
\* first Len(buf) were filled: the others hold whatever memory held.
AppendRecords ==
  /\ pc = "append"
  /\ \E junk \in [1 .. Len(valid) - Len(buf) ->
                    [id : 0 .. MaxId, vec : Vectors]] :
       temp' = [count |-> hdr + Len(buf), recs |-> temp.recs \o buf \o junk]
  /\ ret' = Len(buf)
  /\ pc' = "rename"
  /\ UNCHANGED <<main, wbuf, handle, sqlite, call>>

\* insert_data returned 0: the client unlinks the copy and returns without
\* update_db_file_connection.
InsertNothing ==
  /\ pc = "nothing"
  /\ temp' = NoFile
  /\ pc' = "idle" /\ ret' = 0 /\ Forget
  /\ UNCHANGED <<main, wbuf, handle, sqlite>>

-----------------------------------------------------------------------------
(* The end of insert and of the deletions                                  *)

\* os.replace
RenameTemp ==
  /\ pc = "rename"
  /\ main' = temp /\ temp' = NoFile
  /\ pc' = "reopen"
  /\ UNCHANGED <<wbuf, handle, sqlite, call, ret>>

\* update_db_file_connection, then the client's "finally"
Reopen ==
  /\ pc = "reopen"
  /\ Flush /\ handle' = "open"
  /\ temp' = NoFile
  /\ pc' = "idle" /\ Forget
  /\ UNCHANGED <<sqlite, ret>>

-----------------------------------------------------------------------------
(* delete_by_ids and delete_by_filter                                      *)

\* The statistics are read through the connection's FILE, which leaves it
\* just behind the header; then the ".temp" file gets a header and nothing
\* else.
BeginDelete(S, filtered) ==
  /\ Flush
  /\ temp' = [count |-> main.count, recs |-> <<>>]
  /\ ids' = S /\ todo' = S /\ byFilter' = filtered
  /\ hdr' = main.count /\ k' = 1
  /\ pc' = "scan"
  /\ UNCHANGED <<handle, sqlite, batch, valid, buf, stale, tally, ret>>

StartDeleteByIds ==
  /\ pc = "idle" /\ handle = "open" /\ main.count # 0
  /\ \E S \in IdLists : S # {} /\ BeginDelete(S, FALSE)

Matching(f) == {i \in DOMAIN work.rows : work.rows[i] \in f}

StartDeleteByFilter ==
  /\ pc = "idle" /\ handle = "open" /\ main.count # 0
  /\ \E f \in Filters : Matching(f) # {} /\ BeginDelete(Matching(f), TRUE)

\* A filter no row satisfies: nothing is copied, the client reopens the file
\* and unlinks the header it wrote.
DeleteByFilterNoMatch ==
  /\ pc = "idle" /\ handle = "open" /\ main.count # 0
  /\ \E f \in Filters : Matching(f) = {}
  /\ Flush /\ temp' = NoFile /\ ret' = 0
  /\ UNCHANGED <<handle, sqlite, pc, call>>

Smaller(a, b) == IF a < b THEN a ELSE b

\* fread takes a chunk whole or, past the end of the file, not at all.
ChunkRead(p) ==
  LET last == Smaller(((p - 1) \div BufferSize + 1) * BufferSize, hdr)
  IN last <= Len(main.recs)

\* One turn of the copying loop.
ScanRecord ==
  /\ pc = "scan" /\ k <= hdr
  /\ temp' = IF ChunkRead(k) /\ main.recs[k].id \notin ids
             THEN [temp EXCEPT !.recs = Append(@, main.recs[k])]
             ELSE temp
  /\ k' = k + 1
  /\ UNCHANGED <<main, wbuf, handle, sqlite, pc, batch, valid, ids, todo,
                 byFilter, hdr, buf, stale, tally, ret>>

\* Mutant: the header gets new_vector_count, which counts ids not found, too.
SealTempByRequest ==
  /\ pc = "scan" /\ k > hdr
  /\ temp' = [temp EXCEPT !.count = hdr - Cardinality(ids)]
  /\ Flush /\ handle' = "closed"
  /\ pc' = "rows" /\ ret' = hdr - Len(temp.recs)
  /\ Begin
  /\ UNCHANGED call

\* Mutant: the header keeps the count the client wrote.
SealTempUncounted ==
  /\ pc = "scan" /\ k > hdr
  /\ Flush /\ handle' = "closed"
  /\ pc' = "rows" /\ ret' = hdr - Len(temp.recs)
  /\ Begin
  /\ UNCHANGED <<temp, call>>

\* Mutant: the count returned is the count asked for.
SealTempReportsRequest ==
  /\ pc = "scan" /\ k > hdr
  /\ temp' = [temp EXCEPT !.count = Len(temp.recs)]
  /\ Flush /\ handle' = "closed"
  /\ pc' = "rows" /\ ret' = Cardinality(ids)
  /\ Begin
  /\ UNCHANGED call

\* The header gets the count of preserved records, both files are closed,
\* and the transaction of the rows begins.
SealTemp ==
  /\ pc = "scan" /\ k > hdr
  /\ temp' = [temp EXCEPT !.count = Len(temp.recs)]
  /\ Flush /\ handle' = "closed"
  /\ IF inTxn
     THEN /\ pc' = IF byFilter THEN "reopen" ELSE "rename"
          /\ ret' = 0
          /\ UNCHANGED sqlite
     ELSE /\ pc' = "rows"
          /\ ret' = hdr - Len(temp.recs)
          /\ Begin
  /\ UNCHANGED call

\* Mutant: off by one.
NextBatchShort == {i \in todo : Cardinality({j \in todo : j <= i}) < BatchSize}

\* The next BatchSize ids in ascending order.
NextBatch == {i \in todo : Cardinality({j \in todo : j < i}) < BatchSize}

DeleteRows ==
  /\ pc = "rows" /\ todo # {}
  /\ \/ work' = [work EXCEPT !.rows = WithoutRows(@, NextBatch)]
     \/ "step" \in Faults /\ UNCHANGED work
  /\ todo' = todo \ NextBatch
  /\ UNCHANGED <<disk, wbuf, handle, db, inTxn, pc, batch, valid, ids,
                 byFilter, hdr, k, buf, stale, tally, ret>>

\* Mutant: a failed COMMIT leaves the deletions in an open transaction.
CommitDeleteUnchecked ==
  /\ pc = "rows" /\ todo = {}
  /\ Commit \/ CommitFails
  /\ pc' = IF byFilter /\ ret = 0 THEN "reopen" ELSE "rename"
  /\ UNCHANGED <<disk, wbuf, handle, call, ret>>

\* Mutant: the deletions are always rolled back.
CommitDeleteRollsBack ==
  /\ pc = "rows" /\ todo = {}
  /\ Rollback
  /\ pc' = IF byFilter /\ ret = 0 THEN "reopen" ELSE "rename"
  /\ UNCHANGED <<disk, wbuf, handle, call, ret>>

\* A failed COMMIT is followed by a ROLLBACK.  The client renames the copy
\* unless delete_by_filter was told that no vector went.
CommitDelete ==
  /\ pc = "rows" /\ todo = {}
  /\ Commit \/ ("commit" \in Faults /\ Rollback)
  /\ pc' = IF byFilter /\ ret = 0 THEN "reopen" ELSE "rename"
  /\ UNCHANGED <<disk, wbuf, handle, call, ret>>

-----------------------------------------------------------------------------
(* update_by_id                                                            *)

\* The result of BEGIN is not looked at.
StartUpdate ==
  /\ pc = "idle" /\ handle = "open" /\ main.count # 0
  /\ \E b \in UpdateBatches : b # <<>> /\ batch' = b
  /\ Flush /\ Begin
  /\ hdr' = main.count /\ k' = 1
  /\ pc' = "update"
  /\ UNCHANGED <<temp, handle, valid, ids, todo, byFilter, buf, stale, tally,
                 ret>>

Slots == 1 .. Smaller(hdr, Len(main.recs))

AscendingIn(recs, n) ==
  \A p, q \in 1 .. n : p < q => recs[p].id < recs[q].id

\* What find_vector_position may answer (0: not found).  On ascending ids the
\* binary search finds an id that is there, otherwise it may miss it.
Located(id) ==
  LET hits == {p \in Slots : main.recs[p].id = id}
      sure == hits # {} /\ AscendingIn(main.recs, Smaller(hdr, Len(main.recs)))
  IN IF sure THEN hits ELSE hits \cup {0}

Item == batch[k]

HasMeta   == Item.meta # NoMeta
HasVector == Item.vec \in Vectors
RowHit    == HasMeta /\ Item.id \in DOMAIN work.rows

WithMeta ==
  IF RowHit THEN [work EXCEPT !.rows = WithRow(@, Item.id, Item.meta)] ELSE work

MetaTally == tally.meta + (IF RowHit THEN 1 ELSE 0)

\* No vector, or one of other dimensions: only the metadata is updated.
UpdateMetaOnly ==
  /\ pc = "update" /\ k <= Len(batch) /\ ~HasVector
  /\ work' = WithMeta /\ tally' = Tally(MetaTally, tally.vec)
  /\ k' = k + 1
  /\ UNCHANGED <<disk, wbuf, handle, db, inTxn, pc, batch, valid, ids, todo,
                 byFilter, hdr, buf, stale, ret>>

\* The vector is overwritten in place; the seeks of the search flush the one
\* written before it.
UpdateVector ==
  /\ pc = "update" /\ k <= Len(batch) /\ HasVector
  /\ \E p \in Located(Item.id) \ {0} : wbuf' = [q \in {p} |-> Item.vec]
  /\ main' = Flushed(main)
  /\ work' = WithMeta /\ tally' = Tally(MetaTally, tally.vec + 1)
  /\ k' = k + 1
  /\ UNCHANGED <<temp, handle, db, inTxn, pc, batch, valid, ids, todo,
                 byFilter, hdr, buf, stale, ret>>

UpdateNotFound ==
  /\ pc = "update" /\ k <= Len(batch) /\ HasVector
  /\ 0 \in Located(Item.id)
  /\ Flush
  /\ work' = WithMeta /\ tally' = Tally(MetaTally, tally.vec)
  /\ pc' = "undo"
  /\ UNCHANGED <<temp, handle, db, inTxn, batch, valid, ids, todo, byFilter,
                 hdr, k, buf, stale, ret>>

UpdateRowFails ==
  /\ pc = "update" /\ k <= Len(batch) /\ HasMeta /\ "step" \in Faults
  /\ pc' = "undo"
  /\ UNCHANGED <<disk, wbuf, handle, sqlite, call, ret>>

\* The result of COMMIT is not looked at either.
CommitUpdate ==
  /\ pc = "update" /\ k > Len(batch)
  /\ Commit \/ CommitFails
  /\ pc' = "flush"
  /\ UNCHANGED <<disk, wbuf, handle, call, ret>>

UpdateCount == IF tally.meta > tally.vec THEN tally.meta ELSE tally.vec

\* Mutant: fflush is forgotten.
FlushUpdateForgotten ==
  /\ pc = "flush"
  /\ pc' = "answer"
  /\ UNCHANGED <<disk, wbuf, handle, sqlite, call, ret>>

FlushUpdate ==
  /\ pc = "flush"
  /\ Flush
  /\ pc' = "answer"
  /\ UNCHANGED <<temp, handle, sqlite, call, ret>>

\* The client reopens the flushed file when the count is not 0.
AnswerUpdate ==
  /\ pc = "answer"
  /\ pc' = "idle" /\ ret' = UpdateCount /\ Forget
  /\ UNCHANGED <<disk, wbuf, handle, sqlite>>

\* ROLLBACK undoes the rows.  The vectors written stay, and the last of them
\* may still be in stdio's buffer.
UndoUpdate ==
  /\ pc = "undo"
  /\ Rollback
  /\ pc' = "idle" /\ ret' = 0 /\ Forget
  /\ UNCHANGED <<disk, wbuf, handle>>

-----------------------------------------------------------------------------
(* Reads, and the life of the process                                      *)

\* Searches, pagination, statistics, and every operation that stops at the
\* statistics of an empty index: they move the FILE, so stdio writes.
Read ==
  /\ pc = "idle" /\ handle = "open"
  /\ Flush
  /\ UNCHANGED <<temp, handle, sqlite, pc, call, ret>>

Die ==
  /\ pc' = "down" /\ handle' = "closed"
  /\ wbuf' = <<>>
  /\ work' = db /\ inTxn' = FALSE
  /\ ret' = 0 /\ Forget
  /\ UNCHANGED <<main, temp, db>>

\* get_index_stats hands connection->vec_file to fseek without looking.
StatsOnClosedFile ==
  /\ pc = "idle" /\ handle = "closed"
  /\ Die

Crash ==
  /\ "crash" \in Faults /\ pc # "down"
  /\ Die

Connect ==
  /\ pc = "down"
  /\ pc' = "idle" /\ handle' = "open"
  /\ UNCHANGED <<disk, wbuf, sqlite, call, ret>>

Insert == \/ StartInsert \/ FilterItem \/ NothingValid \/ CopyToTemp
          \/ OpenInsert \/ InsertRow \/ InsertRowFails \/ EndInsert
          \/ RollbackInsert \/ AppendRecords \/ InsertNothing

Delete == \/ StartDeleteByIds \/ StartDeleteByFilter \/ DeleteByFilterNoMatch
          \/ ScanRecord \/ SealTemp \/ DeleteRows \/ CommitDelete

UpdateById == \/ StartUpdate \/ UpdateMetaOnly \/ UpdateVector
              \/ UpdateNotFound \/ UpdateRowFails \/ CommitUpdate
              \/ FlushUpdate \/ AnswerUpdate \/ UndoUpdate

Next == \/ Insert \/ Delete \/ UpdateById \/ RenameTemp \/ Reopen
        \/ Read \/ StatsOnClosedFile \/ Crash \/ Connect

Spec == Init /\ [][Next]_vars

-----------------------------------------------------------------------------
(* Properties                                                              *)

\* A state of the SQLite file: rows under ids already numbered.
IsTable(t) ==
  /\ t = [rows |-> t.rows, seq |-> t.seq]
  /\ DOMAIN t.rows \subseteq Ids /\ t.rows \in [DOMAIN t.rows -> Metas]
  /\ t.seq \in 0 .. MaxId

DiskType ==
  /\ main \in Image
  /\ temp \in Image \cup {NoFile}
  /\ DOMAIN wbuf \subseteq 1 .. Len(main.recs) /\ wbuf \in [DOMAIN wbuf -> Vectors]
  /\ handle \in {"open", "closed"}

SqliteType == IsTable(db) /\ IsTable(work) /\ inTxn \in BOOLEAN

CallType ==
  /\ batch \in Seq(Insertion) \cup Seq(Update)
  /\ valid \in Seq([vec : Vectors, meta : Metas])
  /\ ids \in SUBSET Nat /\ todo \in SUBSET Nat
  /\ byFilter \in BOOLEAN
  /\ hdr \in Nat /\ k \in Nat
  /\ buf \in Seq([id : Ids, vec : Vectors])
  /\ stale \in Metas \cup {NoMeta}
  /\ tally \in [meta : Nat, vec : Nat]

PlaceType ==
  /\ pc \in {"idle", "down", "filter", "open", "item", "append", "nothing",
             "rename", "reopen", "scan", "rows", "update", "flush", "answer",
             "undo"}
  /\ ret \in Int

\* Every variable keeps its type.
TypeOK == DiskType /\ SqliteType /\ CallType /\ PlaceType

\* The header of the vector file counts the records behind it: a reader takes
\* count records from the start (db.c:487), a writer appends at the end.
HeaderCountsRecords == main.count = Len(main.recs)

\* The ids in the vector file ascend: find_vector_position searches them by
\* halves, and the filtered search relies on an id naming one record.
AscendingIds == AscendingIn(main.recs, Len(main.recs))

\* No record has an id that AUTOINCREMENT could hand out again, not even after
\* a crash between the commit of the rows and the rename of the records.
IdsBelowSequence == \A i \in IdsOf(main) : i <= db.seq

\* Between two operations every record has its row and every row its record, and
\* the connection can be read from: statistics, pagination and filtered searches
\* use connection->vec_file unchecked, so an operation must not end, on any of
\* its ways out, with the FILE it has closed or with one of its two stores behind.
SoundWhenIdle ==
  pc = "idle" => /\ handle = "open"
                 /\ IdsOf(main) = DOMAIN db.rows

\* What insert is about to append pairs every vector with the metadata it was
\* given with.
VectorsKeepTheirMetadata ==
  pc = "append" =>
    \A j \in 1 .. Len(buf) :
      \E i \in 1 .. Len(valid) :
        /\ buf[j].vec = valid[i].vec
        /\ work.rows[buf[j].id] = valid[i].meta

\* A deletion reports as many vectors as it deletes rows of metadata.
DeletionCountAgrees ==
  [][pc = "rows" /\ pc' \in {"rename", "reopen"} =>
       ret = Cardinality(DOMAIN db.rows \ DOMAIN db.rows')]_vars

\* A record leaves the vector file only when a copy made for a deletion that
\* names it replaces the file; insertions, updates and crashes lose none.
OnlyDeletedRecordsGo ==
  [][\A i \in IdsOf(main) \ IdsOf(main)' : pc = "rename" /\ i \in ids]_vars

\* A record appears in the vector file only after its row is committed, and
\* with an id above all that were there.
RecordsFollowTheirRows ==
  [][\A i \in IdsOf(main)' \ IdsOf(main) :
       i \in DOMAIN db.rows /\ \A j \in IdsOf(main) : j < i]_vars

\* The header never counts more records than there are: a reader that ran past
\* the end would skip the whole last chunk.
HeaderWithinFile == main.count <= Len(main.recs)

\* A committed row goes only with the deletion that names it, whatever SQLite
\* refuses and whichever transaction an earlier failure left open.
RowsGoOnlyWhenDeleted ==
  [][\A i \in DOMAIN db.rows \ DOMAIN db.rows' : pc = "rows" /\ i \in ids]_vars

\* No id is given twice: a row that appears is numbered above every row there
\* has ever been, deleted or lost to a crash included.
NoIdReuse ==
  [][/\ db.seq <= db.seq'
     /\ \A i \in DOMAIN db.rows' \ DOMAIN db.rows : db.seq < i /\ i <= db.seq']_vars

\* The process goes on with an operation it has begun.
Work == (Insert /\ pc # "idle") \/ (Delete /\ pc # "idle")
        \/ (UpdateById /\ pc # "idle") \/ RenameTemp \/ Reopen

FairSpec == Spec /\ WF_vars(Work)

\* Every operation returns to its caller.
OperationsReturn == (pc # "idle") ~> (pc = "idle")
=============================================================================
