------------------------------ MODULE PyClient ------------------------------
(***************************************************************************)
(* Calls of one Python client that overlap (client.py).  A coroutine runs  *)
(* on the event loop from one await to the next; what it hands to          *)
(* run_in_executor runs on the client's one worker thread, in the order    *)
(* handed over.  Loop and worker run at the same time and share the names  *)
(* of the vector file and of its ".temp", and connection->vec_file.        *)
(*                                                                         *)
(* Files are inodes, for a FILE outlives the renaming of its name.  A      *)
(* record is its id, 0 for bytes nobody wrote as a record.  SQLite is used *)
(* by the worker alone, so a transaction is one step; its errors, and      *)
(* crashes, are the subject of VecStore.                                   *)
(***************************************************************************)
EXTENDS Integers, Sequences, FiniteSets

CONSTANTS
  Calls,       \* the calls the program makes, in the order of their numbers
  Requests,    \* what a call may ask for
  Stored,      \* records in the index to begin with
  BufferSize   \* records per chunk of the copying loop (1024 in db.c)

Kinds == {"insert", "delete", "update", "search", "page", "stats"}

\* "filtered": a deletion by filter, a search with one; "ids": the ids named,
\* or those whose metadata satisfies the filter.  A deletion of no ids returns at
\* once.
Request == [kind : Kinds, filtered : BOOLEAN, ids : SUBSET Nat]

ASSUME ClientAssumption ==
  /\ IsFiniteSet(Calls) /\ Calls \subseteq Nat
  /\ Requests \subseteq Request
  /\ \A r \in Requests : r.kind = "delete" /\ ~r.filtered => r.ids # {}
  /\ Stored \in Nat
  /\ BufferSize \in Nat \ {0}

None   == 0
Inodes == 1 .. 5
Image  == [count : Nat, recs : Seq(Nat)]

VARIABLES
  store,    \* the contents of the inodes
  main,     \* the inode the vector file's name stands for
  temp,     \* the one of the ".temp" file, or None
  file,     \* the inode of connection->vec_file, None when it is NULL
  at,       \* records the position of that FILE is past
  skewed,   \* the position is not at the start of a record
  rows,     \* ids with a row of metadata
  seq,      \* AUTOINCREMENT's sequence
  ready,    \* calls the loop has to go on with, the running one first
  queue,    \* calls with a job for the worker, the running one first
  asked,    \* what each call asks for
  pc,       \* where each call is
  count,    \* the statistics each call has read
  answer,   \* what each call returns: a count, -1 for an exception or failure
  own,      \* worker: inode of the ".temp" it has opened
  hdr,      \* worker: count in the header it has read there
  k,        \* worker: records it has asked for
  out,      \* worker: record of its own file the next write goes to
  held,     \* worker: records in its write_buffer
  alive,    \* the process has not crashed
  mixed     \* some deletion has been in progress together with another call

disk   == <<store, main, temp>>
conn   == <<file, at, skewed>>
sqlite == <<rows, seq>>
sched  == <<ready, queue>>
given  == <<asked, mixed>>
local  == <<own, hdr, k, out, held>>
vars   == <<disk, conn, sqlite, sched, given, pc, count, answer, local, alive>>

Ids(c) == asked[c].ids
Kind(c) == asked[c].kind

InProgress == {c \in Calls : pc[c] \notin {"new", "done"}}

Init ==
  /\ store = [i \in Inodes |->
       IF i = 1 THEN [count |-> Stored, recs |-> [p \in 1 .. Stored |-> p]]
                ELSE [count |-> 0, recs |-> <<>>]]
  /\ main = 1 /\ temp = None
  /\ file = main /\ at = 0 /\ skewed = TRUE
  /\ rows = 1 .. Stored /\ seq = Stored
  /\ ready = <<>> /\ queue = <<>>
  /\ asked \in [Calls -> Requests]
  /\ pc = [c \in Calls |-> "new"]
  /\ count = [c \in Calls |-> 0] /\ answer = [c \in Calls |-> -1]
  /\ own = None /\ hdr = 0 /\ k = 0 /\ out = 0 /\ held = <<>>
  /\ alive = TRUE /\ mixed = FALSE

-----------------------------------------------------------------------------
(* The loop, the worker, and the hand-over between them                    *)

OnLoop(c, place) ==
  alive /\ ready # <<>> /\ Head(ready) = c /\ pc[c] = place

OnWorker(c, place) ==
  alive /\ queue # <<>> /\ Head(queue) = c /\ pc[c] = place

\* The running thread goes on with the call, at the next place.
GoTo(c, place) == pc' = [pc EXCEPT ![c] = place] /\ UNCHANGED sched

\* await run_in_executor: the loop leaves the call to the worker.
Submit(c, place) ==
  /\ pc' = [pc EXCEPT ![c] = place]
  /\ ready' = Tail(ready) /\ queue' = Append(queue, c)

\* Mutant: the worker does not tell the loop.
HandBackForgotten(c, place) ==
  /\ pc' = [pc EXCEPT ![c] = place]
  /\ queue' = Tail(queue) /\ UNCHANGED ready

\* The job is done, the coroutine goes on when the loop comes to it.
HandBack(c, place) ==
  /\ pc' = [pc EXCEPT ![c] = place]
  /\ queue' = Tail(queue) /\ ready' = Append(ready, c)

\* The job is done and the coroutine has nothing left to do but return.
Complete(c) ==
  /\ pc' = [pc EXCEPT ![c] = "done"]
  /\ queue' = Tail(queue) /\ UNCHANGED ready

Answer(c, n) == answer' = [answer EXCEPT ![c] = n]

\* Using NULL as a FILE
Perish ==
  /\ alive' = FALSE
  /\ UNCHANGED <<disk, conn, sqlite, sched, given, pc, count, answer, local>>

\* The program calls; a task is created and put in the loop's queue.
Call(c) ==
  /\ alive /\ pc[c] = "new" /\ \A d \in Calls : d < c => pc[d] # "new"
  /\ pc' = [pc EXCEPT ![c] = "begin"] /\ ready' = Append(ready, c)
  /\ mixed' = (mixed \/ \E d \in InProgress : "delete" \in {Kind(c), Kind(d)})
  /\ UNCHANGED <<disk, conn, sqlite, queue, asked, count, answer, local, alive>>

\* Up to the first await: all but insert and search ask for statistics.
Begin(c) ==
  /\ OnLoop(c, "begin")
  /\ Submit(c, IF Kind(c) = "insert" THEN "copy"
               ELSE IF Kind(c) = "search" THEN "read" ELSE "stats")
  /\ UNCHANGED <<disk, conn, sqlite, given, count, answer, local, alive>>

\* get_index_stats leaves the FILE behind the header.
Stats(c) ==
  /\ OnWorker(c, "stats")
  /\ \/ file = None /\ Perish
     \/ /\ file # None
        /\ count' = [count EXCEPT ![c] = store[file].count]
        /\ at' = 0 /\ skewed' = FALSE
        /\ HandBack(c, "resume")
        /\ UNCHANGED <<disk, file, sqlite, given, answer, local, alive>>

\* Nothing to do, or nothing asked for but the statistics
StopAtStats(c) ==
  /\ OnLoop(c, "resume")
  /\ count[c] = 0 \/ Kind(c) = "stats"
  /\ IF Kind(c) = "delete" THEN GoTo(c, "clean")
     ELSE /\ pc' = [pc EXCEPT ![c] = "done"]
          /\ ready' = Tail(ready) /\ UNCHANGED queue
  /\ UNCHANGED <<disk, conn, sqlite, given, count, answer, local, alive>>

GoOnWithJob(c) ==
  /\ OnLoop(c, "resume") /\ count[c] # 0 /\ Kind(c) \in {"update", "page"}
  /\ Submit(c, IF Kind(c) = "update" THEN "change" ELSE "read")
  /\ UNCHANGED <<disk, conn, sqlite, given, count, answer, local, alive>>

Fresh == CHOOSE i \in Inodes : i \notin {main, temp, file, own}

\* Opening ".temp" for writing empties the file that has the name, or makes one.
WriteTemp(img) ==
  LET i == IF temp = None THEN Fresh ELSE temp
  IN store' = [store EXCEPT ![i] = img] /\ temp' = i /\ UNCHANGED main

\* The header of a deletion's copy is written by the loop, with the count that
\* the statistics said.
WriteHeader(c) ==
  /\ OnLoop(c, "resume") /\ count[c] # 0 /\ Kind(c) = "delete"
  /\ WriteTemp([count |-> count[c], recs |-> <<>>])
  /\ Submit(c, "open")
  /\ UNCHANGED <<conn, sqlite, given, count, answer, local, alive>>

-----------------------------------------------------------------------------
(* insert, all of it on the worker                                         *)

Copy(c) ==
  /\ OnWorker(c, "copy")
  /\ WriteTemp(store[main])
  /\ GoTo(c, "insert")
  /\ UNCHANGED <<conn, sqlite, given, count, answer, local, alive>>

\* Mutant: the table is declared without AUTOINCREMENT.
NextRowIdOfRows == CHOOSE i \in 1 .. seq + 1 :
  (i = 1 \/ i - 1 \in rows) /\ \A j \in rows : j < i

NextRowId == seq + 1

\* insert_data up to the commit of the row.  Without a ".temp" it returns 0.
InsertRow(c) ==
  /\ OnWorker(c, "insert")
  /\ \/ /\ temp = None
        /\ Answer(c, 0) /\ GoTo(c, "unlink")
        /\ UNCHANGED <<conn, sqlite, local>>
     \/ /\ temp # None
        /\ own' = temp /\ hdr' = store[temp].count
        /\ out' = Len(store[temp].recs) + 1
        /\ file' = None
        /\ seq' = NextRowId /\ rows' = rows \cup {NextRowId}
        /\ GoTo(c, "append")
        /\ UNCHANGED <<at, skewed, answer, k, held>>
  /\ UNCHANGED <<disk, given, count, alive>>

\* What a file is after new records were written from record p on: what was
\* there is overwritten, what was not there is filled up.
Written(recs, p, new) ==
  [q \in 1 .. (IF Len(recs) < p + Len(new) THEN p + Len(new) - 1 ELSE Len(recs)) |->
     IF q \in p .. p + Len(new) - 1 THEN new[q - p + 1]
     ELSE IF q <= Len(recs) THEN recs[q] ELSE 0]

\* Mutant: the count is not written to the header.
AppendUncounted(c) ==
  /\ OnWorker(c, "append")
  /\ store' = [store EXCEPT ![own] =
       [count |-> hdr, recs |-> Written(store[own].recs, out, <<seq>>)]]
  /\ own' = None
  /\ Answer(c, 1) /\ GoTo(c, "rename")
  /\ UNCHANGED <<main, temp, conn, sqlite, given, count, hdr, k, out, held, alive>>

AppendRecord(c) ==
  /\ OnWorker(c, "append")
  /\ store' = [store EXCEPT ![own] =
       [count |-> hdr + 1, recs |-> Written(store[own].recs, out, <<seq>>)]]
  /\ own' = None
  /\ Answer(c, 1) /\ GoTo(c, "rename")
  /\ UNCHANGED <<main, temp, conn, sqlite, given, count, hdr, k, out, held, alive>>

\* os.replace, which raises an exception when there is no ".temp".
Rename(c) ==
  /\ OnWorker(c, "rename")
  /\ \/ /\ temp = None
        /\ Answer(c, -1) /\ GoTo(c, "unlink")
        /\ UNCHANGED disk
     \/ /\ temp # None
        /\ main' = temp /\ temp' = None
        /\ GoTo(c, "reopen")
        /\ UNCHANGED <<store, answer>>
  /\ UNCHANGED <<conn, sqlite, given, count, local, alive>>

\* Mutant: the connection is left as it is.
OpenForgotten == UNCHANGED conn

\* update_db_file_connection: the new FILE is at the start of the file.
OpenMain == file' = main /\ at' = 0 /\ skewed' = TRUE

Reopen(c) ==
  /\ OnWorker(c, "reopen")
  /\ OpenMain
  /\ IF Kind(c) = "insert" THEN GoTo(c, "unlink") ELSE Complete(c)
  /\ UNCHANGED <<disk, sqlite, given, count, answer, local, alive>>

\* The "finally" of insert
Unlink(c) ==
  /\ OnWorker(c, "unlink")
  /\ temp' = None
  /\ Complete(c)
  /\ UNCHANGED <<store, main, conn, sqlite, given, count, answer, local, alive>>

-----------------------------------------------------------------------------
(* update_by_id, searches and pages: their jobs                            *)

InFile(i) == {store[file].recs[p] : p \in 1 .. Len(store[file].recs)} \cap i

Intact == \A p \in 1 .. Len(store[file].recs) : store[file].recs[p] # 0

\* All the ids are found, and the file is opened again.
Change(c) ==
  /\ OnWorker(c, "change") /\ file # None /\ Ids(c) \subseteq InFile(Ids(c))
  /\ Answer(c, Cardinality(Ids(c))) /\ GoTo(c, "reopen")
  /\ UNCHANGED <<disk, conn, sqlite, given, count, local, alive>>

\* There is no FILE, or an id is missed and the search for it has left the FILE
\* behind some id.
ChangeNothing(c) ==
  /\ OnWorker(c, "change")
  /\ \/ file = None /\ UNCHANGED conn
     \/ /\ file # None /\ (Ids(c) \ InFile(Ids(c)) # {} \/ ~Intact)
        /\ at' \in 0 .. Len(store[file].recs) /\ skewed' = TRUE
        /\ UNCHANGED file
  /\ Answer(c, 0) /\ Complete(c)
  /\ UNCHANGED <<disk, sqlite, given, count, local, alive>>

\* Only a search without a filter looks whether there is a FILE.  It reads to
\* the end; a page, or a filter that matches nothing, stops earlier.
ReadRecords(c) ==
  /\ OnWorker(c, "read")
  /\ \/ /\ file = None /\ Kind(c) = "search" /\ ~asked[c].filtered
        /\ Complete(c) /\ UNCHANGED conn
     \/ /\ file # None
        /\ IF Kind(c) = "search" /\ ~asked[c].filtered
           THEN at' = Len(store[file].recs)
           ELSE at' \in 0 .. Len(store[file].recs)
        /\ skewed' = FALSE
        /\ Complete(c) /\ UNCHANGED file
  /\ UNCHANGED <<disk, sqlite, given, count, answer, local, alive>>

ReadNull(c) ==
  /\ OnWorker(c, "read") /\ file = None
  /\ Kind(c) = "page" \/ asked[c].filtered
  /\ Perish

-----------------------------------------------------------------------------
(* delete_by_ids and delete_by_filter: the job, and what the loop does     *)
(* when it is done                                                         *)

\* The loop goes on with a deletion: one by filter that removed nothing is only
\* reopened, all others are renamed.
AfterJob(c, removed) ==
  HandBack(c, IF asked[c].filtered /\ removed = 0 THEN "relink" ELSE "replace")

\* The ids, of a filter those it matches now
Doomed(c) == IF asked[c].filtered THEN Ids(c) \cap rows ELSE Ids(c)

DeleteNothing(c) ==
  /\ OnWorker(c, "open")
  /\ Doomed(c) = {} \/ file = None \/ temp = None
  /\ Answer(c, 0) /\ AfterJob(c, 0)
  /\ UNCHANGED <<disk, conn, sqlite, given, count, local, alive>>

OpenTemp(c) ==
  /\ OnWorker(c, "open")
  /\ Doomed(c) # {} /\ file # None /\ temp # None
  /\ own' = temp /\ hdr' = store[temp].count
  /\ k' = 0 /\ out' = 1 /\ held' = <<>>
  /\ GoTo(c, "scan")
  /\ UNCHANGED <<disk, conn, sqlite, given, count, answer, alive>>

\* Mutant: a chunk is always full.
FirstOf(a, b) == a

Smaller(a, b) == IF a < b THEN a ELSE b

\* The records of a chunk that stay, in their order
Survivors(recs, gone) ==
  LET first[n \in 0 .. Len(recs)] ==
        IF n = 0 THEN <<>>
        ELSE IF recs[n] \in gone THEN first[n - 1]
        ELSE Append(first[n - 1], recs[n])
  IN first[Len(recs)]

\* One chunk, from where the FILE happens to be; a chunk that is not there in
\* full is dropped.  A full write_buffer is written.
ScanChunk(c) ==
  /\ OnWorker(c, "scan") /\ k < hdr
  /\ LET n    == Smaller(BufferSize, hdr - k)
         recs == store[file].recs
         full == at + n <= Len(recs)
         got  == IF ~full THEN <<>>
                 ELSE [j \in 1 .. n |-> IF skewed THEN 0 ELSE recs[at + j]]
         keep == held \o Survivors(got, Doomed(c))
         done == Len(keep) >= BufferSize
     IN /\ at' = IF full THEN at + n ELSE Len(recs)
        /\ k' = k + n
        /\ IF done
           THEN /\ store' = [store EXCEPT ![own].recs =
                     Written(@, out, SubSeq(keep, 1, BufferSize))]
                /\ out' = out + BufferSize
                /\ held' = SubSeq(keep, BufferSize + 1, Len(keep))
           ELSE /\ held' = keep
                /\ UNCHANGED <<store, out>>
  /\ UNCHANGED <<main, temp, file, skewed, sqlite, sched, given, pc, count,
                 answer, own, hdr, alive>>

Preserved == out - 1 + Len(held)

\* The rest is written, the count of what was preserved goes to the header, the
\* FILE is closed, the rows are deleted.
Seal(c) ==
  /\ OnWorker(c, "scan") /\ k >= hdr
  /\ store' = [store EXCEPT ![own] =
       [count |-> Preserved, recs |-> Written(@.recs, out, held)]]
  /\ file' = None /\ own' = None
  /\ rows' = rows \ Doomed(c)
  /\ Answer(c, hdr - Preserved) /\ AfterJob(c, hdr - Preserved)
  /\ UNCHANGED <<main, temp, at, skewed, seq, given, count, hdr, k, out, held,
                 alive>>

\* os.replace on the loop; without a ".temp" the exception becomes a failure.
Replace(c) ==
  /\ OnLoop(c, "replace")
  /\ \/ /\ temp = None
        /\ Answer(c, -1) /\ GoTo(c, "clean")
        /\ UNCHANGED disk
     \/ /\ temp # None
        /\ main' = temp /\ temp' = None
        /\ GoTo(c, "relink")
        /\ UNCHANGED <<store, answer>>
  /\ UNCHANGED <<conn, sqlite, given, count, local, alive>>

\* update_db_file_connection on the loop.  Closing a FILE the worker is using
\* is undefined: the process may crash.
WorkerUsesFile ==
  queue # <<>> /\ pc[Head(queue)] \in {"stats", "insert", "reopen", "change",
                                        "read", "scan"}

Relink(c) ==
  /\ OnLoop(c, "relink")
  /\ \/ /\ OpenMain
        /\ GoTo(c, "clean")
        /\ UNCHANGED <<disk, sqlite, given, count, answer, local, alive>>
     \/ file # None /\ WorkerUsesFile /\ Perish

\* Mutant: the ".temp" file is not unlinked.
CleanForgotten(c) ==
  /\ OnLoop(c, "clean")
  /\ pc' = [pc EXCEPT ![c] = "done"] /\ ready' = Tail(ready)
  /\ UNCHANGED <<disk, conn, sqlite, queue, given, count, answer, local, alive>>

\* The "finally" of a deletion
Clean(c) ==
  /\ OnLoop(c, "clean")
  /\ temp' = None
  /\ pc' = [pc EXCEPT ![c] = "done"] /\ ready' = Tail(ready)
  /\ UNCHANGED <<store, main, conn, sqlite, queue, given, count, answer, local,
                 alive>>

Loop(c) == \/ Begin(c) \/ StopAtStats(c) \/ GoOnWithJob(c) \/ WriteHeader(c)
           \/ Replace(c) \/ Relink(c) \/ Clean(c)

Worker(c) == \/ Stats(c) \/ Copy(c) \/ InsertRow(c) \/ AppendRecord(c)
             \/ Rename(c) \/ Reopen(c) \/ Unlink(c)
             \/ Change(c) \/ ChangeNothing(c) \/ ReadRecords(c) \/ ReadNull(c)
             \/ DeleteNothing(c) \/ OpenTemp(c) \/ ScanChunk(c) \/ Seal(c)

Next == \E c \in Calls : Call(c) \/ Loop(c) \/ Worker(c)

\* Both threads keep running.
Spec == /\ Init /\ [][Next]_vars
        /\ WF_vars(\E c \in Calls : Loop(c))
        /\ WF_vars(\E c \in Calls : Worker(c))

-----------------------------------------------------------------------------
(* Properties                                                              *)

Places == {"new", "begin", "stats", "resume", "copy", "insert", "append",
           "rename", "reopen", "unlink", "change", "read", "open", "scan",
           "replace", "relink", "clean", "done"}

\* Every variable keeps its type, and a copying loop (db.c) asks for no more
\* records than the header of its copy counts.
TypeOK ==
  /\ store \in [Inodes -> Image]
  /\ main \in Inodes /\ {temp, file, own} \subseteq Inodes \cup {None}
  /\ at \in Nat /\ skewed \in BOOLEAN
  /\ rows \subseteq Nat /\ seq \in Nat /\ \A i \in rows : i <= seq
  /\ ready \in Seq(Calls) /\ queue \in Seq(Calls)
  /\ asked \in [Calls -> Requests] /\ pc \in [Calls -> Places]
  /\ count \in [Calls -> Nat] /\ answer \in [Calls -> Int]
  /\ \A c \in Calls : pc[c] = "scan" => k <= hdr
  /\ hdr \in Nat /\ k \in Nat /\ out \in Nat /\ held \in Seq(Nat)
  /\ alive \in BOOLEAN /\ mixed \in BOOLEAN

Quiet == alive /\ InProgress = {}

Records == store[main].recs

IdsIn(recs) == {recs[p] : p \in 1 .. Len(recs)}

\* When no call is in progress, the vector file has the records of the rows, in
\* order, its header counts them, and the connection is open on it: what
\* VecStore takes for granted between two operations.  Calls may overlap, but no
\* deletion with another call.
QuietIndexIsSound ==
  Quiet /\ ~mixed =>
    /\ file = main
    /\ store[main].count = Len(Records) /\ IdsIn(Records) = rows
    /\ \A p, q \in 1 .. Len(Records) : p < q => Records[p] < Records[q]

\* Unless a deletion overlaps with another call, no call uses a FILE that is
\* closed, and the loop closes none that the worker uses.
ClosedFileIsNotUsed == mixed \/ alive

\* When no call is in progress no ".temp" file is left, and the connection is
\* not left on a file that another has replaced, whatever has overlapped.
NothingIsLeftBehind == Quiet => temp = None /\ file \in {main, None}

\* No id is twice in the vector file, and none is there that was never given,
\* whatever overlaps.
RecordsStayUnique ==
  /\ \A p, q \in 1 .. Len(Records) :
       p # q /\ Records[p] = Records[q] => Records[p] = 0
  /\ \A i \in IdsIn(Records) : i <= seq

\* Every call returns, unless the process crashes: no thread waits for the
\* other forever.
EveryCallReturns ==
  \A c \in Calls : pc[c] = "begin" ~> (pc[c] = "done" \/ ~alive)

NamedInDeletion(i) == \E c \in Calls : Kind(c) = "delete" /\ i \in Ids(c)

\* A record leaves the vector file only with a deletion that names it, whatever
\* overlaps: a search in a deletion refutes it.
OnlyNamedRecordsGo ==
  [][\A i \in IdsIn(Records) \ IdsIn(Records)' : NamedInDeletion(i)]_vars

\* Unless a deletion overlaps with another call, a record leaves the vector file
\* only with a deletion that names it, so insertions that overlap lose none.
LoneDeletionsTakeNoMore ==
  [][mixed \/ \A i \in IdsIn(Records) \ IdsIn(Records)' : NamedInDeletion(i)]_vars
=============================================================================
