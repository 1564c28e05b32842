------------------------------- MODULE VecFile -------------------------------
(* The vector file word by word: the header and what opening, inserting and   *)
(* reading do to it (file.c, db.c), and the reads themselves: searches and    *)
(* pages with their metadata (db.c, paginate.c) through the clients           *)
(* (client.py, index.ts). A connection has one FILE and so one position, which *)
(* every thread that reads moves.                                             *)
EXTENDS Integers, Sequences, FiniteSets

CONSTANTS
  Threads,     \* that run readers: one in Python, the libuv pool in Node
  Lengths,     \* of vectors
  OldIds,      \* ids that records of an earlier process may have
  MaxRecords,  \* bound: records of the file, as insertions are started
  MaxPage,     \* bound: the skip and limit of a page
  Exact,       \* 2^24: integers up to here are exact as float32
  BufferSize,  \* records a search reads at a time
  Batch,       \* MAX_IDS_PER_BATCH
  VarLimit,    \* SQLite's limit on variables of a statement
  Huge         \* what the bits of a float are as an integer, and more

ASSUME VecFileAssumption ==
  /\ Lengths \subseteq Nat \ {0}
  /\ OldIds \subseteq Nat \ {0}
  /\ IsFiniteSet(OldIds) /\ Cardinality(OldIds) <= MaxRecords
  /\ MaxRecords \in Nat /\ MaxPage \in Nat
  /\ Exact \in Nat /\ Exact % 4 = 0
  /\ {BufferSize, Batch, VarLimit} \subseteq Nat \ {0}
  \* so that a count or a length is never taken for the bits of a float
  /\ Huge \in Nat /\ MaxRecords < Huge /\ \A d \in Lengths : d < Huge

VARIABLES
  words,   \* the file: count, dimensions, then an id and a vector per record
  conn,    \* [dims |-> connection->dimensions, file |-> vec_file is not NULL]
  client,  \* TinyVecClient.dimensions
  at,      \* the position of the connection's FILE, in words
  rows,    \* ids that have a row of metadata
  seq,     \* the last id AUTOINCREMENT gave
  page,    \* the caller's PaginationConfig: the clients assign to its limit
  pc, job, \* per thread: where it is, and the locals of its call
  kept,    \* history: the ids of the records, in order
  agreed   \* history: nobody connected or inserted with a length of vectors
           \* other than that in the header

vars == <<words, conn, client, at, rows, seq, page, pc, job, kept, agreed>>
index == <<words, conn, client, rows, seq, kept, agreed>>

-----------------------------------------------------------------------------
(* Words. A word written as one type may be read as another.                  *)

Smaller(a, b) == IF a < b THEN a ELSE b

\* The float nearest to an id: above 2^24 only even numbers are left, and an odd
\* one goes to the neighbour with an even mantissa.
Round(id) == IF id <= Exact \/ id % 2 = 0 THEN id
             ELSE IF (id + 1) % 4 = 0 THEN id + 1 ELSE id - 1

IdWord(id) == Huge + Round(id)
Component(id) == -id      \* any component of the vector inserted under id
Junk == Huge              \* memory nobody wrote
AsInt(w) == IF w \in 0 .. Huge - 1 THEN w ELSE Huge
AsId(w) == IF w > Huge THEN w - Huge ELSE 0   \* components are below 1

Record(id, d) == [i \in 1 .. d + 1 |-> IF i = 1 THEN IdWord(id) ELSE Component(id)]

\* The words of a run of records, end to end.
Blocks(s, d) == [i \in 1 .. Len(s) * (d + 1) |->
                   Record(s[((i - 1) \div (d + 1)) + 1], d)[((i - 1) % (d + 1)) + 1]]

\* fwrite of one word at an offset, which may be the end of the file.
Put(f, offset, w) == [i \in 1 .. IF offset < Len(f) THEN Len(f) ELSE Len(f) + 1 |->
                        IF i = offset + 1 THEN w ELSE f[i]]

Idle == [what |-> "none", base |-> 0, count |-> 0, dims |-> 0, read |-> 0,
         got |-> <<>>, asked |-> 0, seen |-> 0]

Ascending(S) == CHOOSE s \in [1 .. Cardinality(S) -> S] :
                  \A i, j \in DOMAIN s : i < j => s[i] < s[j]

-----------------------------------------------------------------------------
(* A process begins with a file that was there, or one that connect creates.  *)

Init ==
  /\ \E S \in SUBSET OldIds, d \in Lengths \union {0} :
       /\ S # {} => d # 0
       /\ kept = Ascending(S)
       /\ words = <<Len(kept), d>> \o Blocks(kept, d)
       /\ rows = S
       /\ seq \in {n \in {0} \union OldIds : \A id \in S : id <= n}
  /\ conn = [dims |-> 0, file |-> FALSE] /\ client = -1
  /\ at = 0
  /\ page = [skip |-> 0, limit |-> 1]
  /\ pc = [t \in Threads |-> "idle"] /\ job = [t \in Threads |-> Idle]
  /\ agreed = TRUE

Connected == client # -1
Quiet == \A t \in Threads : pc[t] \in {"idle", "resume"}

\* create_tiny_vec_connection on a path that is not in the pool: the header says
\* what the connection's dimensions are, and then becomes what was asked for.
Connect(d) ==
  /\ ~Connected
  /\ conn' = [dims |-> words[2], file |-> TRUE]
  /\ client' = words[2]
  /\ words' = IF d \notin {0, words[2]} THEN Put(words, 1, d) ELSE words
  /\ agreed' = (agreed /\ (d \in {0, words[2]} \/ words[2] = 0))
  /\ at' = 2
  /\ UNCHANGED <<rows, seq, page, pc, job, kept>>

\* A second client of the process: the pool answers, whatever dimensions it
\* asks for, and the client takes over the connection's.
ConnectAgain ==
  /\ Connected /\ client # conn.dims
  /\ client' = conn.dims
  /\ UNCHANGED <<words, conn, at, rows, seq, page, pc, job, kept, agreed>>

\* The process ends and another begins.
Restart ==
  /\ Connected /\ \A t \in Threads : pc[t] = "idle"
  /\ conn' = [dims |-> 0, file |-> FALSE] /\ client' = -1 /\ at' = 0
  /\ UNCHANGED <<words, rows, seq, page, pc, job, kept, agreed>>

-----------------------------------------------------------------------------
(* An insertion of n vectors of length d, the first of which decides about    *)
(* the dimensions of an index that has none. insert_data copies as many       *)
(* components as the header of the .temp file says, into room for as many as  *)
(* the client says. Nothing reads while insert_data has closed the FILE: the  *)
(* calls that do are modelled in PyClient and NodeClient.                     *)

\* Mutant: every record gets the first vector.
BufferFirstVector(first, n, d, h, done) ==
  [i \in 1 .. n * (d + 1) |->
     LET k == (i - 1) \div (h + 1)  j == (i - 1) % (h + 1) IN
     IF j = 0 /\ (k < done \/ (k = done /\ done < n)) THEN IdWord(first + k)
     ELSE IF k < done /\ j \in 1 .. d THEN Component(first) ELSE Junk]

\* insert_data's vec_buffer: records of h components in the room of n records
\* of d, done of them in full; the id of the next is there if it did not fit.
Buffer(first, n, d, h, done) ==
  [i \in 1 .. n * (d + 1) |->
     LET k == (i - 1) \div (h + 1)  j == (i - 1) % (h + 1) IN
     IF j = 0 /\ (k < done \/ (k = done /\ done < n)) THEN IdWord(first + k)
     ELSE IF k < done /\ j \in 1 .. d THEN Component(first + k)
     ELSE Junk]

\* Mutant: the count is of the vectors passed, whether or not they fitted.
NewCountOfAll(n, done) == words[1] + n

NewCount(n, done) == words[1] + done

\* The dimensions in the file once the client and insert_data have seen to them.
HeaderDimensions(d) == IF words[2] = 0 THEN d ELSE words[2]

\* Vectors of another length than the client's are left out before all else, and
\* an insertion of none is none. The Node client leaves out nothing: client = 0.
Insert(d, n) ==
  LET h == HeaderDimensions(d)
      done == Smaller(n, (n * (d + 1)) \div (h + 1))
  IN
  /\ Connected /\ Quiet
  /\ client \in {0, d}
  /\ Len(kept) + n <= MaxRecords
  /\ client' = IF words[2] = 0 THEN d ELSE client
  /\ IF done > 0
     THEN /\ words' = <<NewCount(n, done), IF h # d THEN d ELSE h>> \o
                        SubSeq(words, 3, Len(words)) \o Buffer(seq + 1, n, d, h, done)
          /\ kept' = kept \o [i \in 1 .. done |-> seq + i]
          \* the row of a vector that did not fit is committed, too
          /\ seq' = seq + Smaller(n, done + 1)
          /\ rows' = rows \union (seq + 1 .. seq')
          /\ conn' = [conn EXCEPT !.file = TRUE]
          /\ at' = 0
     ELSE \* rolled back, and the FILE stays closed
          /\ words' = [words EXCEPT ![2] = h]
          /\ conn' = [conn EXCEPT !.file = FALSE]
          /\ UNCHANGED <<kept, seq, rows, at>>
  /\ agreed' = (agreed /\ d = h)
  /\ UNCHANGED <<page, pc, job>>

-----------------------------------------------------------------------------
(* A thread's call: get_vec_file_header_info, then what is read after it.     *)

Go(t, where) == pc' = [pc EXCEPT ![t] = where]
Answer(t, got) == Go(t, "answer") /\ job' = [job EXCEPT ![t].got = got]

\* A search, or the statistics with which a client begins a page: of another
\* config, or of the one it has passed before.
Search(t) ==
  /\ pc[t] = "idle" /\ conn.file
  /\ Go(t, "seek") /\ job' = [job EXCEPT ![t].what = "search"]
  /\ UNCHANGED <<index, at, page>>

Page(t, config) ==
  /\ pc[t] = "idle" /\ conn.file
  /\ \A u \in Threads : job[u].what # "page"
  /\ Go(t, "seek") /\ job' = [job EXCEPT ![t].what = "stats", ![t].asked = config.limit]
  /\ page' = config
  /\ UNCHANGED <<index, at>>

Seek(t) ==
  /\ pc[t] = "seek" /\ Go(t, "tell")
  /\ at' = 0
  /\ UNCHANGED <<index, page, job>>

Tell(t) ==
  /\ pc[t] = "tell" /\ Go(t, "count")
  /\ job' = [job EXCEPT ![t].base = at]
  /\ UNCHANGED <<index, at, page>>

Header == <<conn, client, rows, seq, kept, agreed>>

\* A count that cannot be read is written instead.
ReadCount(t) ==
  /\ pc[t] = "count" /\ Go(t, "dims")
  /\ IF at < Len(words)
     THEN /\ job' = [job EXCEPT ![t].count = AsInt(words[at + 1])]
          /\ at' = at + 1
          /\ UNCHANGED words
     ELSE /\ job' = [job EXCEPT ![t].count = 0]
          /\ words' = Put(words, job[t].base, 0)
          /\ at' = job[t].base + 1
  /\ UNCHANGED <<Header, page>>

\* Mutant: a connection without dimensions clears those of the file.
RewritesAlways(d) == d # conn.dims

\* Dimensions other than the connection's are overwritten, if it has any.
Rewrites(d) == d # conn.dims /\ conn.dims # 0

ReadDims(t) ==
  LET eof == at >= Len(words)
      d == IF eof THEN conn.dims ELSE AsInt(words[at + 1])
  IN
  /\ pc[t] = "dims" /\ Go(t, "settle")
  /\ job' = [job EXCEPT ![t].dims = d]
  /\ IF eof \/ Rewrites(d)
     THEN words' = Put(words, Smaller(job[t].base + 1, Len(words)), conn.dims)
          /\ at' = job[t].base + 2
     ELSE at' = at + 1 /\ UNCHANGED words
  /\ UNCHANGED <<Header, page>>

\* Back to the end of the header; the reader looks at what it has been told.
Settle(t) ==
  LET empty == \/ job[t].dims = 0 \/ job[t].count = 0
               \/ job[t].what = "page" /\ page.skip >= job[t].count
  IN
  /\ pc[t] = "settle"
  /\ at' = job[t].base + 2
  /\ Go(t, IF job[t].what = "stats" THEN "resume" ELSE IF empty THEN "answer" ELSE "read")
  /\ UNCHANGED <<index, page, job>>

Clamped(count) == Smaller(page.limit, count)

\* get_paginated on with the statistics: it assigns to the caller's config.
Resume(t) ==
  LET count == job[t].count IN
  /\ pc[t] = "resume" /\ conn.file
  /\ IF count = 0 \/ page.skip > count
     THEN Go(t, "answer") /\ UNCHANGED <<page, job>>
     ELSE /\ page' = [page EXCEPT !.limit = Clamped(count)]
          /\ Go(t, "seek")
          /\ job' = [job EXCEPT ![t].what = "page", ![t].seen = count]
  /\ UNCHANGED <<index, at>>

-----------------------------------------------------------------------------
(* Reading records: fread takes n of them from an offset, or the file ends.   *)

Reaches(from, n, d) == from + n * (d + 1) <= Len(words)
After(from, n, d) == IF Reaches(from, n, d) THEN from + n * (d + 1) ELSE Len(words)
RecordsAt(from, n, d) ==
  [i \in 1 .. n |-> LET o == from + (i - 1) * (d + 1) IN
     [id |-> AsId(words[o + 1]), vector |-> SubSeq(words, o + 2, o + d + 1), meta |-> 0]]

\* Mutant: every chunk is taken to be full.
FullChunk(left) == BufferSize

Chunk(left) == Smaller(BufferSize, left)

\* A chunk that is not there in full is skipped, and the next one tried.
ReadChunk(t) ==
  LET n == Chunk(job[t].count - job[t].read)  d == job[t].dims IN
  /\ pc[t] = "read" /\ job[t].what = "search" /\ job[t].read < job[t].count
  /\ job' = [job EXCEPT ![t].read = @ + BufferSize,
               ![t].got = IF Reaches(at, n, d) THEN @ \o RecordsAt(at, n, d) ELSE @]
  /\ at' = After(at, n, d)
  /\ UNCHANGED <<index, page, pc>>

ReadAll(t) ==
  /\ pc[t] = "read" /\ job[t].what = "search" /\ job[t].read >= job[t].count
  /\ Go(t, "attach")
  /\ UNCHANGED <<index, at, page, job>>

\* Mutant: the skip forgets the id at the head of each record.
PageStartByVectors(d) == at + page.skip * d

PageStart(d) == at + page.skip * (d + 1)

\* A page that is not there in full is none.
ReadPage(t) ==
  LET d == job[t].dims
      n == Smaller(page.limit, job[t].count - page.skip)
  IN
  /\ pc[t] = "read" /\ job[t].what = "page"
  /\ IF Reaches(PageStart(d), n, d)
     THEN Go(t, "attach") /\ job' = [job EXCEPT ![t].got = RecordsAt(PageStart(d), n, d)]
     ELSE Go(t, "answer") /\ UNCHANGED job
  /\ at' = After(PageStart(d), n, d)
  /\ UNCHANGED <<index, page>>

\* Each row a statement finds goes to one result with its id: the first in the
\* order of similarity (get_metadata_batch), or the one bsearch comes upon
\* (get_metadata_batch_paginate). size is how many results a statement is for.
Pairs(got, size, has) ==
  \A j \in DOMAIN got :
    LET twins == {k \in DOMAIN got : /\ got[k].id = got[j].id
                                     /\ (k - 1) \div size = (j - 1) \div size}
    IN  Cardinality({k \in twins : has[k]}) = IF got[j].id \in rows THEN 1 ELSE 0

\* A search asks for all its results at once, and goes without metadata when
\* they are more than a statement takes.
Attach(t) ==
  LET got == job[t].got
      search == job[t].what = "search"
  IN
  /\ pc[t] = "attach"
  /\ \E has \in [DOMAIN got -> BOOLEAN] :
       /\ IF search /\ Len(got) > VarLimit THEN \A j \in DOMAIN got : ~has[j]
          ELSE Pairs(got, IF search THEN VarLimit ELSE Batch, has)
       /\ Answer(t, [j \in DOMAIN got |->
                       [got[j] EXCEPT !.meta = IF has[j] THEN got[j].id ELSE 0]])
  /\ UNCHANGED <<index, at, page>>

Return(t) ==
  /\ pc[t] = "answer" /\ Go(t, "idle")
  /\ job' = [job EXCEPT ![t] = Idle]
  /\ UNCHANGED <<index, at, page>>

Configs == [skip : 0 .. MaxPage, limit : 1 .. MaxPage]

Reader(t) ==
  \/ Search(t) \/ \E config \in Configs : Page(t, config)
  \/ Seek(t) \/ Tell(t) \/ ReadCount(t) \/ ReadDims(t) \/ Settle(t) \/ Resume(t)
  \/ ReadChunk(t) \/ ReadAll(t) \/ ReadPage(t) \/ Attach(t) \/ Return(t)

Next ==
  \/ \E d \in Lengths \union {0} : Connect(d)
  \/ ConnectAgain \/ Restart
  \/ \E d \in Lengths, n \in 1 .. 2 : Insert(d, n)
  \/ \E t \in Threads : Reader(t)

Spec == Init /\ [][Next]_vars

-----------------------------------------------------------------------------
(* Properties.                                                                *)

TypeOK ==
  /\ words \in Seq(-seq .. Huge + seq + 1)
  /\ conn \in [dims : Lengths \union {0}, file : BOOLEAN]
  /\ client \in Lengths \union {-1, 0}
  /\ at \in 0 .. Len(words) + 1
  /\ rows \subseteq 1 .. seq /\ seq \in Nat
  /\ page \in Configs
  /\ \A t \in Threads :
       /\ pc[t] \in {"idle", "seek", "tell", "count", "dims", "settle", "resume",
                     "read", "attach", "answer"}
       /\ job[t].what \in {"none", "stats", "search", "page"}
       /\ job[t].dims \in 0 .. Huge /\ job[t].count \in 0 .. Huge
  /\ agreed \in BOOLEAN

ExactIds == \A i \in DOMAIN kept : kept[i] <= Exact
Result(id) == [id |-> id, vector |-> SubSeq(Record(id, words[2]), 2, words[2] + 1), meta |-> id]

\* As long as nobody uses another length of vectors, the header and the blocks
\* of the file are those of the records inserted: whoever set the dimensions,
\* in a new file or an old one, across connects, restarts and insertions.
HeaderDescribesRecords ==
  agreed => /\ words[1] = Len(kept)
            /\ kept # <<>> => words = <<Len(kept), words[2]>> \o Blocks(kept, words[2])

\* Even insertions and connects with other lengths leave a count of the records
\* that insertions have reported, neither more nor less.
CountSurvives == words[1] = Len(kept)

\* A page holds consecutive records from its skip on, each with its own vector
\* and metadata, as many as were asked for and there when the client asked for
\* the statistics: across the ends of batches, the end of the file, a limit the
\* client has lowered, and an insertion before the page is read.
PagesAreSlices ==
  \A t \in Threads :
    (pc[t] = "answer" /\ job[t].what = "page" /\ agreed /\ ExactIds) =>
      LET got == job[t].got IN
      /\ got = [i \in 1 .. Len(got) |-> Result(kept[page.skip + i])]
      /\ Len(got) >= Smaller(job[t].asked, job[t].seen - page.skip)
      /\ Len(got) <= job[t].asked

\* A search scans every record, also when the last chunk is short, and gives
\* each its own metadata unless there are more than a statement takes.
SearchSeesAll ==
  \A t \in Threads :
    (pc[t] = "answer" /\ job[t].what = "search" /\ agreed /\ ExactIds
       /\ Len(kept) <= VarLimit) =>
      job[t].got = [i \in 1 .. Len(kept) |-> Result(kept[i])]

\* Statistics, searches and pages leave the vector file as it is. Their header
\* reading can write: a count where it finds none, dimensions where it finds
\* others than the connection's.
ReadersChangeNothing == [][agreed /\ pc' # pc => UNCHANGED words]_vars
=============================================================================
