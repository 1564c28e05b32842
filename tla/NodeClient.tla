----------------------------- MODULE NodeClient -----------------------------
(***************************************************************************)
(* Calls of one Node client that overlap (index.ts, utils.ts, addon.cpp).  *)
(* What a call awaits runs on a thread of libuv's pool: copying, creating, *)
(* renaming and unlinking ".temp", and the functions of the C core.  So    *)
(* two calls use the ".temp" file, connection->vec_file and the one SQLite *)
(* connection with its one transaction at the same time.  The JavaScript   *)
(* between two awaits changes nothing that is shared, but for              *)
(* nativeUpdateDbFileConnection, and is part of the step before it.        *)
(*                                                                         *)
(* A file is the count in its header and the set of its records' ids, in   *)
(* the order of the ids.  What a reader gets when another has moved the    *)
(* FILE is the subject of VecFile and PyClient, and nothing is said here   *)
(* of a file's contents once a writer has overlapped.                      *)
(***************************************************************************)
EXTENDS Integers, FiniteSets

CONSTANTS
  Calls,       \* the calls the program makes, one after the other
  Overlap,     \* bound on those in progress, no more than the pool has threads
  Requests,    \* what a call may ask for
  Stored,      \* records of the index to begin with
  MaxCrashes   \* bound

Kinds == {"insert", "delete", "update", "search", "page"}

\* "filtered": a deletion by filter, a search with one; "ids": the ids named.
Request == [kind : Kinds, filtered : BOOLEAN, ids : SUBSET Nat]

\* A call has an array of ids, and deleteByIds returns at once when it is empty.
ASSUME NodeAssumption ==
  /\ IsFiniteSet(Calls) /\ Calls \subseteq Nat
  /\ Requests \subseteq Request
  /\ \A r \in Requests : /\ IsFiniteSet(r.ids)
                         /\ r.kind = "delete" /\ ~r.filtered => r.ids # {}
  /\ Overlap \in Nat /\ Stored \in Nat /\ MaxCrashes \in Nat

None   == 0
Inodes == 1 .. Cardinality(Calls) + 4

VARIABLES
  store,    \* the contents of the inodes: [n |-> count, ids |-> records]
  main,     \* the inode the vector file's name stands for
  temp,     \* the one of the ".temp" file, or None
  file,     \* the inode of connection->vec_file, None when it is NULL
  rows,     \* ids with a row, as the SQLite connection sees them
  seq,      \* AUTOINCREMENT's sequence
  saved,    \* [open |-> a transaction is open, rows, seq |-> to roll back to]
  asked,    \* what each call asks for, a member of Requests
  pc,       \* where each call is
  own,      \* inode of the ".temp" each call has opened
  count,    \* count of records each call has read in a header
  named,    \* ids that an insertion was given, that a deletion deletes
  answer,   \* what each call is to return: a count, -1 when it throws
  alive,    \* the process has used no FILE that was closed
  crashes,
  mixed,    \* history: an insertion, deletion or update has overlapped
  refused   \* history: deletions that found a ".temp" and gave up

disk   == <<store, main, temp>>
sqlite == <<rows, seq, saved>>
local  == <<own, count, named>>
ghosts == <<crashes, mixed, refused>>
vars   == <<disk, file, sqlite, asked, pc, local, answer, alive, ghosts>>

Nothing == [kind |-> "none"]

Kind(c) == asked[c].kind
Writes(c) == Kind(c) \in {"insert", "delete", "update"}
InProgress == {c \in Calls : pc[c] \notin {"new", "done"}}
File(n, ids) == [n |-> n, ids |-> ids]
Closed == [open |-> FALSE, rows |-> {}, seq |-> 0]

Init ==
  /\ store = [i \in Inodes |-> IF i = 1 THEN File(Stored, 1 .. Stored) ELSE File(0, {})]
  /\ main = 1 /\ temp = None /\ file = 1
  /\ rows = 1 .. Stored /\ seq = Stored /\ saved = Closed
  /\ asked = [c \in Calls |-> Nothing]
  /\ pc = [c \in Calls |-> "new"]
  /\ own = [c \in Calls |-> None] /\ count = [c \in Calls |-> 0]
  /\ named = [c \in Calls |-> {}]
  /\ answer = [c \in Calls |-> 0]
  /\ alive = TRUE /\ crashes = 0 /\ mixed = FALSE /\ refused = 0

-----------------------------------------------------------------------------
(* Steps                                                                   *)

At(c, place) == alive /\ pc[c] = place
\* (What a call that is over asked for is forgotten.)
GoTo(c, place) ==
  /\ pc' = [pc EXCEPT ![c] = place]
  /\ asked' = IF place = "done" THEN [asked EXCEPT ![c] = Nothing] ELSE asked
Answer(c, n) == answer' = [answer EXCEPT ![c] = n]

\* Using NULL, or a FILE that another thread closes meanwhile.
Perish ==
  /\ alive' = FALSE
  /\ UNCHANGED <<disk, file, sqlite, asked, pc, local, answer, ghosts>>

UsesFile(c) ==
  \/ pc[c] \in {"stats", "read", "scan", "seal", "open", "reopen"}
  \/ Kind(c) = "update" /\ pc[c] \in {"begin", "rows", "end"}

\* fclose(connection->vec_file): undefined while another call uses the FILE.
MayPerish(c) == file # None /\ \E d \in Calls \ {c} : UsesFile(d)

Call(c) ==
  /\ At(c, "new") /\ \A d \in Calls : d < c => pc[d] # "new"
  /\ Cardinality(InProgress) < Overlap
  /\ \E request \in Requests : asked' = [asked EXCEPT ![c] = request]
  /\ pc' = [pc EXCEPT ![c] = IF Kind(c)' = "search" THEN "read" ELSE "stats"]
  /\ mixed' = (mixed \/ \E d \in InProgress : Writes(c)' \/ Writes(d))
  /\ UNCHANGED <<disk, file, sqlite, local, answer, alive, crashes, refused>>

\* nativeGetIndexStats; a call on an empty index is over, unless it inserts.
Stats(c) ==
  /\ At(c, "stats")
  /\ \/ file = None /\ Perish
     \/ /\ file # None
        /\ count' = [count EXCEPT ![c] = IF Kind(c) = "delete" THEN store[file].n ELSE 0]
        /\ LET empty == store[file].n = 0 IN
           GoTo(c, CASE Kind(c) = "insert" -> "copy"
                     [] Kind(c) = "delete" -> IF empty THEN "unlink" ELSE "header"
                     [] Kind(c) = "update" -> IF empty THEN "done" ELSE "begin"
                     [] Kind(c) = "page" -> IF empty THEN "done" ELSE "read")
        /\ UNCHANGED <<disk, file, sqlite, own, named, answer, alive, ghosts>>

\* Mutant: a reader reopens the vector file too.
AfterReadReopens(c) == GoTo(c, "reopen")

AfterRead(c) == GoTo(c, "done")

\* Only a search without a filter looks whether there is a FILE.
Read(c) ==
  /\ At(c, "read")
  /\ \/ file = None /\ (Kind(c) = "page" \/ asked[c].filtered) /\ Perish
     \/ /\ file # None \/ ~(Kind(c) = "page" \/ asked[c].filtered)
        /\ AfterRead(c)
        /\ UNCHANGED <<disk, file, sqlite, local, answer, alive, ghosts>>

Fresh == CHOOSE i \in Inodes :
           i \notin {main, temp, file} \union {own[c] : c \in Calls}

\* fsPromises.copyFile writes over a ".temp" that is there.
Copy(c) ==
  /\ At(c, "copy") /\ GoTo(c, "open")
  /\ temp' = IF temp = None THEN Fresh ELSE temp
  /\ store' = [store EXCEPT ![temp'] = store[main]]
  /\ UNCHANGED <<main, file, sqlite, local, answer, alive, ghosts>>

\* Mutant: a deletion waits for a ".temp" to go.
HeaderWaits(c) ==
  /\ At(c, "header") /\ temp = None
  /\ temp' = Fresh /\ store' = [store EXCEPT ![temp'] = File(count[c], {})]
  /\ GoTo(c, "scan")
  /\ UNCHANGED <<main, file, sqlite, local, answer, alive, ghosts>>

\* writeFileHeader creates ".temp" with the flag "wx", and so throws when there
\* is one already.
Header(c) ==
  /\ At(c, "header")
  /\ IF temp = None
     THEN /\ temp' = Fresh /\ store' = [store EXCEPT ![temp'] = File(count[c], {})]
          /\ GoTo(c, "scan")
          /\ UNCHANGED <<answer, refused>>
     ELSE /\ GoTo(c, "unlink") /\ Answer(c, -1)
          /\ refused' = refused + 1
          /\ UNCHANGED <<store, temp>>
  /\ UNCHANGED <<main, file, sqlite, local, alive, crashes, mixed>>

\* insert_data opens ".temp" and closes the connection's FILE.
OpenTemp(c) ==
  /\ At(c, "open")
  /\ \/ /\ temp = None
        /\ GoTo(c, "unlink") /\ UNCHANGED <<file, own, count, alive>>
     \/ /\ temp # None
        /\ file' = None
        /\ own' = [own EXCEPT ![c] = temp]
        /\ count' = [count EXCEPT ![c] = store[temp].n]
        /\ GoTo(c, "begin") /\ UNCHANGED alive
     \/ /\ temp # None /\ MayPerish(c)
        /\ alive' = FALSE /\ UNCHANGED <<file, own, count, pc, asked>>
  /\ UNCHANGED <<disk, sqlite, named, answer, ghosts>>

\* What the filter selects, or the ids themselves
Doomed(c) == IF asked[c].filtered THEN asked[c].ids \intersect rows ELSE asked[c].ids

\* Mutant: the last record is left out.
FirstRecordsButOne(n, ids) ==
  {i \in ids : Cardinality({j \in ids : j < i}) < n - 1}

\* The loop of delete_data_by_ids reads n records, n from the header of ".temp".
\* A short read is passed over.
FirstRecords(n, ids) ==
  IF Cardinality(ids) < n THEN {}
  ELSE {i \in ids : Cardinality({j \in ids : j < i}) < n}

\* Back in index.ts: a deletion by filter that deleted nothing only reopens.
AfterDelete(c, n) ==
  Answer(c, n) /\ GoTo(c, IF asked[c].filtered /\ n = 0 THEN "reopen" ELSE "rename")

\* delete_data_by_ids copies what is to stay; it counts what it passed over.
Scan(c) ==
  /\ At(c, "scan")
  /\ IF Doomed(c) = {} \/ file = None \/ temp = None
     THEN AfterDelete(c, 0) /\ UNCHANGED <<store, own, named>>
     ELSE LET n    == store[temp].n
              kept == FirstRecords(n, store[file].ids) \ Doomed(c)
          IN /\ store' = [store EXCEPT ![temp] = File(Cardinality(kept), kept)]
             /\ own' = [own EXCEPT ![c] = temp]
             /\ named' = [named EXCEPT ![c] = Doomed(c)]
             /\ Answer(c, n - Cardinality(kept)) /\ GoTo(c, "seal")
  /\ UNCHANGED <<main, temp, file, sqlite, count, alive, ghosts>>

Seal(c) ==
  /\ At(c, "seal")
  /\ \/ /\ file' = None
        /\ GoTo(c, "begin") /\ UNCHANGED alive
     \/ /\ MayPerish(c)
        /\ alive' = FALSE /\ UNCHANGED <<file, pc, asked>>
  /\ UNCHANGED <<disk, sqlite, local, answer, ghosts>>

-----------------------------------------------------------------------------
(* The transaction                                                         *)

\* BEGIN fails when a transaction is open, whoever opened it. An insertion or a
\* deletion then gives up, with the FILE closed; an update does not look.
Begin(c) ==
  /\ At(c, "begin")
  /\ IF Kind(c) = "update" /\ file = None
     THEN GoTo(c, "reopen") /\ UNCHANGED <<saved, answer>>
     ELSE IF saved.open /\ Kind(c) # "update"
     THEN /\ IF Kind(c) = "delete" THEN AfterDelete(c, 0)
             ELSE GoTo(c, "unlink") /\ UNCHANGED answer
          /\ UNCHANGED saved
     ELSE /\ saved' = IF saved.open THEN saved
                      ELSE [open |-> TRUE, rows |-> rows, seq |-> seq]
          /\ GoTo(c, "rows") /\ UNCHANGED answer
  /\ UNCHANGED <<disk, file, rows, seq, local, alive, ghosts>>

\* Outside a transaction each statement commits by itself.
Rows(c) ==
  /\ At(c, "rows")
  /\ IF Kind(c) = "update" /\ file = None THEN Perish
     ELSE /\ CASE Kind(c) = "insert" -> /\ rows' = rows \union {seq + 1}
                                        /\ seq' = seq + 1
                                        /\ named' = [named EXCEPT ![c] = {seq + 1}]
               [] Kind(c) = "delete" -> /\ rows' = rows \ named[c]
                                        /\ UNCHANGED <<seq, named>>
               [] Kind(c) = "update" -> UNCHANGED <<rows, seq, named>>
          /\ GoTo(c, "end")
          /\ UNCHANGED <<disk, file, saved, own, count, answer, alive, ghosts>>

Commit == saved' = Closed /\ UNCHANGED <<rows, seq>>

Rollback ==
  IF saved.open THEN rows' = saved.rows /\ seq' = saved.seq /\ saved' = Closed
  ELSE UNCHANGED sqlite

\* An item of an update has an id that is not in the file.
Misses(c) == file # None /\ asked[c].ids \ store[file].ids # {}

\* Mutant: an update that misses an id returns where it finds out.
EndUpdateEarly(c) ==
  /\ Kind(c) = "update"
  /\ IF Misses(c) THEN UNCHANGED sqlite ELSE Commit
  /\ GoTo(c, "reopen") /\ UNCHANGED answer

EndUpdate(c) ==
  /\ Kind(c) = "update"
  /\ IF Misses(c) THEN Rollback ELSE Commit
  /\ GoTo(c, "reopen") /\ UNCHANGED answer

\* END of an insertion: when there is no transaction to end, it goes on.
EndInsert(c) ==
  /\ Kind(c) = "insert"
  /\ Commit
  /\ GoTo(c, "append") /\ UNCHANGED answer

\* COMMIT of a deletion: when that fails, it rolls back, one statement later.
EndDelete(c) ==
  /\ Kind(c) = "delete"
  /\ Commit
  /\ IF saved.open THEN AfterDelete(c, answer[c])
     ELSE GoTo(c, "undo") /\ UNCHANGED answer

End(c) ==
  /\ At(c, "end")
  /\ EndInsert(c) \/ EndDelete(c) \/ EndUpdate(c)
  /\ UNCHANGED <<disk, file, local, alive, ghosts>>

Undo(c) ==
  /\ At(c, "undo")
  /\ Rollback
  /\ AfterDelete(c, answer[c])
  /\ UNCHANGED <<disk, file, local, alive, ghosts>>

-----------------------------------------------------------------------------
(* And after it                                                            *)

Append(c) ==
  /\ At(c, "append") /\ GoTo(c, "rename") /\ Answer(c, 1)
  /\ store' = [store EXCEPT ![own[c]] = File(count[c] + 1, @.ids \union named[c])]
  /\ UNCHANGED <<main, temp, file, sqlite, local, alive, ghosts>>

\* fsPromises.rename rejects when there is no ".temp".
Rename(c) ==
  /\ At(c, "rename")
  /\ IF temp = None THEN GoTo(c, "unlink") /\ Answer(c, -1) /\ UNCHANGED disk
     ELSE /\ main' = temp /\ temp' = None
          /\ GoTo(c, "reopen") /\ UNCHANGED <<store, answer>>
  /\ UNCHANGED <<file, sqlite, local, alive, ghosts>>

\* nativeUpdateDbFileConnection, on the JavaScript thread
Reopen(c) ==
  /\ At(c, "reopen")
  /\ \/ /\ file' = main
        /\ GoTo(c, IF Kind(c) = "update" THEN "done" ELSE "unlink") /\ UNCHANGED alive
     \/ /\ MayPerish(c)
        /\ alive' = FALSE /\ UNCHANGED <<file, pc, asked>>
  /\ UNCHANGED <<disk, sqlite, local, answer, ghosts>>

\* Mutant: only a call that succeeds cleans up.
UnlinkedOnSuccess(c) == IF answer[c] = -1 THEN temp ELSE None
\* Mutant: only a call that fails cleans up.
UnlinkedOnFailure(c) == IF answer[c] = -1 THEN None ELSE temp

\* The "finally" of insertions and deletions: whoever's ".temp" it is
Unlinked(c) == None

Unlink(c) ==
  /\ At(c, "unlink") /\ GoTo(c, "done")
  /\ temp' = Unlinked(c)
  /\ own' = [own EXCEPT ![c] = None] /\ count' = [count EXCEPT ![c] = 0]
  /\ named' = [named EXCEPT ![c] = {}] /\ answer' = [answer EXCEPT ![c] = 0]
  /\ UNCHANGED <<store, main, file, sqlite, alive, ghosts>>

\* The process dies in the middle of a call, and another opens the index.
Crash ==
  /\ alive /\ InProgress # {} /\ crashes < MaxCrashes
  /\ crashes' = crashes + 1
  /\ pc' = [c \in Calls |-> IF c \in InProgress THEN "done" ELSE pc[c]]
  /\ own' = [c \in Calls |-> None] /\ count' = [c \in Calls |-> 0]
  /\ named' = [c \in Calls |-> {}]  /\ answer' = [c \in Calls |-> 0]
  /\ asked' = [c \in Calls |-> Nothing]
  /\ file' = main
  /\ Rollback
  /\ UNCHANGED <<disk, alive, mixed, refused>>

Step(c) == \/ Stats(c) \/ Read(c) \/ Copy(c) \/ Header(c) \/ OpenTemp(c)
           \/ Scan(c) \/ Seal(c) \/ Begin(c) \/ Rows(c) \/ End(c) \/ Undo(c)
           \/ Append(c) \/ Rename(c) \/ Reopen(c) \/ Unlink(c)

Next == Crash \/ \E c \in Calls : Call(c) \/ Step(c)

\* The pool has a thread for each call, and they and the loop keep running.
Spec == Init /\ [][Next]_vars /\ \A c \in Calls : WF_vars(Step(c))

-----------------------------------------------------------------------------
(* Properties                                                              *)

Places == {"new", "stats", "copy", "header", "open", "scan", "seal", "begin",
           "rows", "end", "undo", "append", "rename", "reopen", "unlink", "read",
           "done"}

\* Every variable keeps its type. Ids, counts and the sequence are naturals, and
\* AUTOINCREMENT's sequence is at least the id of each row.
TypeOK ==
  /\ store \in [Inodes -> [n : Nat, ids : SUBSET Nat]]
  /\ \A i \in Inodes : IsFiniteSet(store[i].ids)
  /\ main \in Inodes /\ {temp, file} \subseteq Inodes \union {None}
  /\ rows \subseteq 1 .. seq /\ seq \in Nat
  /\ saved \in [open : BOOLEAN, rows : SUBSET Nat, seq : Nat]
  /\ saved.rows \subseteq 1 .. saved.seq
  /\ asked \in [Calls -> Requests \union {Nothing}]
  /\ pc \in [Calls -> Places]
  /\ own \in [Calls -> Inodes \union {None}]
  /\ count \in [Calls -> Nat] /\ named \in [Calls -> SUBSET Nat]
  /\ \A c \in Calls : IsFiniteSet(named[c])
  /\ answer \in [Calls -> Int]
  /\ alive \in BOOLEAN /\ mixed \in BOOLEAN
  /\ crashes \in 0 .. MaxCrashes /\ refused \in Nat

Quiet == alive /\ InProgress = {}

\* When no call is in progress and no writer has ever overlapped with another
\* call, the connection is open on the vector file, and without a crash the file
\* has the records of the rows: failed and empty deletions included.
QuietIndexIsSound ==
  Quiet /\ ~mixed => /\ file = main
                     /\ crashes = 0 => store[main] = File(Cardinality(rows), rows)

\* Readers may overlap with each other, and no call uses a FILE that is closed,
\* unless a writer has overlapped.
ClosedFileIsNotUsed == alive \/ mixed

\* When no call is in progress there is no ".temp", whatever has overlapped and
\* whichever call's copy another has renamed, refused or unlinked: only a crash
\* leaves one, until the next insertion or deletion.
NothingIsLeftBehind == Quiet /\ crashes = 0 => temp = None

\* When no call is in progress no transaction is open, though calls end each
\* other's: otherwise every later BEGIN would fail and no row be committed.
NoTransactionStaysOpen == InProgress = {} => ~saved.open

\* A ".temp" that a crash has left refuses one deletion and no more.
RefusedOncePerCrash == mixed \/ refused <= crashes

\* Every call settles its promise, whatever the others do to its files and
\* transaction, unless the process dies.
EveryCallReturns ==
  \A c \in Calls : (pc[c] \notin {"new", "done"}) ~> (pc[c] = "done" \/ ~alive)
=============================================================================
