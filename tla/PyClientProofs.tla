--------------------------- MODULE PyClientProofs ---------------------------
(***************************************************************************)
(* Proofs about the overlapping calls of one Python client, for any number *)
(* of calls, any requests, any index and any buffer.                       *)
(***************************************************************************)
EXTENDS PyClient, SequenceTheorems, FiniteSetTheorems, NaturalsInduction,
        WellFoundedInduction, TLAPS

-----------------------------------------------------------------------------
(* Invariants                                                              *)

\* The part of the types that says who runs what.
SchedType ==
  /\ ready \in Seq(Calls) /\ queue \in Seq(Calls)
  /\ pc \in [Calls -> Places]

\* A job of several steps is the one at the head of the worker's queue.
JobPlaces == {"insert", "append", "rename", "reopen", "unlink", "scan"}

JobAtHead ==
  \A c \in Calls : pc[c] \in JobPlaces => queue # <<>> /\ Head(queue) = c

\* The places only an insertion, or only a deletion, comes to.
Fits(kind, place) ==
  /\ place \in {"copy", "insert", "append", "rename", "unlink"} => kind = "insert"
  /\ place \in {"open", "scan", "replace", "relink", "clean"} => kind = "delete"

KindsFit == \A c \in Calls : Fits(Kind(c), pc[c])

\* As long as no deletion has overlapped, one in progress is alone.
Alone == mixed \/ \A c, d \in InProgress : c # d => Kind(c) # "delete"

SchedInv == SchedType /\ JobAtHead /\ KindsFit /\ Alone

\* A call that has come past its ".temp" is going to unlink or rename it.
TempPlaces == {"insert", "append", "rename", "unlink", "open", "scan",
               "replace", "relink", "clean"}

TempHeld == temp # None => \E c \in Calls : pc[c] \in TempPlaces

\* A FILE that has lost its name is about to be replaced.
FileHeld ==
  file \in {main, None} \/ \E c \in Calls : pc[c] \in {"reopen", "relink"}

\* Unless a deletion overlaps, a copy stays until it is renamed, and ...
TempStays ==
  mixed \/ \A c \in Calls :
    pc[c] \in {"insert", "append", "rename", "open", "scan", "replace"} =>
      temp # None

\* ... the one who closed the FILE is going to open it.
ClosedByWriter ==
  mixed \/ file # None \/
    \E c \in Calls : pc[c] \in {"append", "rename", "reopen", "replace", "relink"}

-----------------------------------------------------------------------------
(* What a step does to the queues and to the places                        *)

LEMMA HeadAndTail ==
  ASSUME NEW q \in Seq(Calls), q # <<>>
  PROVE  Head(q) \in Calls /\ Tail(q) \in Seq(Calls)
  BY HeadTailProperties

LEMMA HeadOfAppend ==
  ASSUME NEW q \in Seq(Calls), NEW c \in Calls
  PROVE  /\ Append(q, c) \in Seq(Calls)
         /\ q # <<>> => Append(q, c) # <<>> /\ Head(Append(q, c)) = Head(q)
  <1>1. /\ Append(q, c) \in Seq(Calls) /\ Len(q) \in Nat
        /\ Len(Append(q, c)) = Len(q) + 1
        /\ \A p \in 1 .. Len(q) : Append(q, c)[p] = q[p]
    BY AppendProperties
  <1>2. ASSUME q # <<>>
        PROVE  Append(q, c) # <<>> /\ Head(Append(q, c)) = Head(q)
    <2>1. Len(q) # 0
      BY <1>2, EmptySeq
    <2>2. Append(q, c) # <<>>
      BY <1>1, EmptySeq
    <2>3. Head(Append(q, c)) = Append(q, c)[1] /\ Head(q) = q[1]
      BY <1>1, <1>2, <2>2, HeadTailProperties
    <2>4. 1 \in 1 .. Len(q)
      BY <1>1, <2>1
    <2> QED
      BY <1>1, <2>2, <2>3, <2>4
  <1> QED
    BY <1>1, <1>2

\* The call moves to a place where calls of its kind may be.
Moves(c, place) ==
  /\ pc' = [pc EXCEPT ![c] = place]
  /\ place \in Places /\ Fits(Kind(c), place)
  /\ pc[c] # "done"
  /\ IF pc[c] = "new" THEN Call(c) ELSE mixed' = mixed

QueuesKept(c, place) ==
  /\ queue' = queue
  /\ \/ ready' = ready
     \/ ready' = Append(ready, c)
     \/ ready # <<>> /\ ready' = Tail(ready)
  /\ place \in JobPlaces => queue # <<>> /\ Head(queue) = c

HandedOver(c, place) ==
  /\ queue' = Append(queue, c) /\ ready # <<>> /\ ready' = Tail(ready)
  /\ place \notin JobPlaces

HandedBack(c, place) ==
  /\ queue # <<>> /\ Head(queue) = c /\ queue' = Tail(queue)
  /\ ready' = ready \/ ready' = Append(ready, c)
  /\ place \notin JobPlaces

Shape(c, place) ==
  /\ Moves(c, place)
  /\ QueuesKept(c, place) \/ HandedOver(c, place) \/ HandedBack(c, place)

Kept == UNCHANGED <<pc, queue, ready, mixed>>

LEMMA CallShape ==
  ASSUME NEW c \in Calls, Call(c)
  PROVE  Shape(c, "begin")
  <1>1. Moves(c, "begin")
    BY DEF Call, Moves, Places, Fits
  <1>2. QueuesKept(c, "begin")
    <2>1. queue' = queue /\ ready' = Append(ready, c)
      BY DEF Call
    <2>2. "begin" \notin JobPlaces
      BY DEF JobPlaces
    <2> QED
      BY <2>1, <2>2, Zenon DEF QueuesKept
  <1> QED
    BY <1>1, <1>2 DEF Shape

\* A step of the loop.
LEMMA LoopShape ==
  ASSUME SchedInv, NEW c \in Calls, Loop(c)
  PROVE  Kept \/ \E place \in Places : Shape(c, place)
  <1>0. Fits(Kind(c), pc[c])
    BY DEF SchedInv, KindsFit
  <1>1. ASSUME NEW place \in Places, NEW from \in Places, OnLoop(c, from),
               from \notin {"new", "done"}, mixed' = mixed, place \notin JobPlaces,
               Fits(Kind(c), place),
               \/ GoTo(c, place)
               \/ Submit(c, place)
               \/ /\ pc' = [pc EXCEPT ![c] = place]
                  /\ ready' = Tail(ready) /\ queue' = queue
        PROVE  Shape(c, place)
    <2>1. pc[c] = from /\ ready # <<>>
      BY <1>1 DEF OnLoop
    <2>2. pc' = [pc EXCEPT ![c] = place]
      BY <1>1 DEF GoTo, Submit
    <2>3. Moves(c, place)
      BY <1>1, <2>1, <2>2 DEF Moves
    <2>4. CASE Submit(c, place)
      BY <1>1, <2>1, <2>3, <2>4, Zenon DEF HandedOver, Submit, Shape
    <2>5. CASE ~Submit(c, place)
      <3>1. queue' = queue /\ (ready' = ready \/ ready' = Tail(ready))
        BY <1>1, <2>5, Zenon DEF GoTo, sched
      <3> QED
        BY <1>1, <2>1, <2>3, <3>1, Zenon DEF QueuesKept, Shape
    <2> QED
      BY <2>4, <2>5
  <1>2. CASE Begin(c)
    <2> DEFINE place == IF Kind(c) = "insert" THEN "copy"
                        ELSE IF Kind(c) = "search" THEN "read" ELSE "stats"
    <2>1. /\ place \in Places /\ "begin" \in Places /\ place \notin JobPlaces
          /\ Fits(Kind(c), place)
      BY DEF Places, JobPlaces, Fits
    <2>2. OnLoop(c, "begin") /\ mixed' = mixed /\ Submit(c, place)
      BY <1>2 DEF Begin, given
    <2> HIDE DEF place
    <2> QED
      BY <1>1, <2>1, <2>2
  <1>3. CASE StopAtStats(c)
    <2>1. OnLoop(c, "resume") /\ mixed' = mixed
      BY <1>3 DEF StopAtStats, given
    <2>2. CASE Kind(c) = "delete"
      <3>1. /\ "clean" \in Places /\ "resume" \in Places /\ "clean" \notin JobPlaces
            /\ Fits(Kind(c), "clean") /\ GoTo(c, "clean")
        BY <1>3, <2>2 DEF StopAtStats, Places, JobPlaces, Fits
      <3> QED
        BY <1>1, <2>1, <3>1
    <2>3. CASE Kind(c) # "delete"
      <3>1. /\ "done" \in Places /\ "resume" \in Places /\ "done" \notin JobPlaces
            /\ Fits(Kind(c), "done") /\ pc' = [pc EXCEPT ![c] = "done"]
            /\ ready' = Tail(ready) /\ queue' = queue
        BY <1>3, <2>3 DEF StopAtStats, Places, JobPlaces, Fits
      <3> QED
        BY <1>1, <2>1, <3>1
    <2> QED
      BY <2>2, <2>3
  <1>4. CASE GoOnWithJob(c)
    <2> DEFINE place == IF Kind(c) = "update" THEN "change" ELSE "read"
    <2>1. /\ place \in Places /\ "resume" \in Places /\ place \notin JobPlaces
          /\ Fits(Kind(c), place)
      BY DEF Places, JobPlaces, Fits
    <2>2. OnLoop(c, "resume") /\ mixed' = mixed /\ Submit(c, place)
      BY <1>4 DEF GoOnWithJob, given
    <2> HIDE DEF place
    <2> QED
      BY <1>1, <2>1, <2>2
  <1>5. CASE WriteHeader(c)
    <2>1. /\ "open" \in Places /\ "resume" \in Places /\ "open" \notin JobPlaces
          /\ Fits(Kind(c), "open")
      BY <1>5 DEF WriteHeader, Places, JobPlaces, Fits
    <2>2. OnLoop(c, "resume") /\ mixed' = mixed /\ Submit(c, "open")
      BY <1>5 DEF WriteHeader, given
    <2> QED
      BY <1>1, <2>1, <2>2
  <1>6. CASE Replace(c)
    <2>1. OnLoop(c, "replace") /\ mixed' = mixed /\ (GoTo(c, "clean") \/ GoTo(c, "relink"))
      BY <1>6 DEF Replace, given
    <2>2. /\ {"clean", "relink", "replace"} \subseteq Places
          /\ "clean" \notin JobPlaces /\ "relink" \notin JobPlaces
          /\ Fits(Kind(c), "clean") /\ Fits(Kind(c), "relink")
      BY <1>0, <2>1 DEF OnLoop, Places, JobPlaces, Fits
    <2> QED
      BY <1>1, <2>1, <2>2
  <1>7. CASE Relink(c)
    <2>1. CASE Perish
      BY <2>1 DEF Perish, Kept, sched, given
    <2>2. CASE ~Perish
      <3>1. OnLoop(c, "relink") /\ mixed' = mixed /\ GoTo(c, "clean")
        BY <1>7, <2>2 DEF Relink, given
      <3>2. /\ "clean" \in Places /\ "relink" \in Places /\ "clean" \notin JobPlaces
            /\ Fits(Kind(c), "clean")
        BY <1>0, <3>1 DEF OnLoop, Places, JobPlaces, Fits
      <3> QED
        BY <1>1, <3>1, <3>2
    <2> QED
      BY <2>1, <2>2
  <1>8. CASE Clean(c)
    <2>1. /\ "done" \in Places /\ "clean" \in Places /\ "done" \notin JobPlaces
          /\ Fits(Kind(c), "done") /\ pc' = [pc EXCEPT ![c] = "done"]
          /\ ready' = Tail(ready) /\ queue' = queue /\ mixed' = mixed
          /\ OnLoop(c, "clean")
      BY <1>8 DEF Clean, Places, JobPlaces, Fits, given
    <2> QED
      BY <1>1, <2>1
  <1> QED
    BY <1>2, <1>3, <1>4, <1>5, <1>6, <1>7, <1>8 DEF Loop

\* A step of the worker.
LEMMA WorkerShape ==
  ASSUME SchedInv, NEW c \in Calls, Worker(c)
  PROVE  Kept \/ \E place \in Places : Shape(c, place)
  <1>0. Fits(Kind(c), pc[c])
    BY DEF SchedInv, KindsFit
  <1>1. ASSUME NEW place \in Places, NEW from, OnWorker(c, from),
               from \notin {"new", "done"}, mixed' = mixed, Fits(Kind(c), place), GoTo(c, place)
        PROVE  Shape(c, place)
    <2>1. Moves(c, place)
      BY <1>1 DEF Moves, OnWorker, GoTo
    <2>2. queue' = queue /\ ready' = ready /\ queue # <<>> /\ Head(queue) = c
      BY <1>1, Zenon DEF OnWorker, GoTo, sched
    <2> QED
      BY <2>1, <2>2, Zenon DEF Shape, QueuesKept
  <1>2. ASSUME NEW place \in Places, NEW from, OnWorker(c, from),
               from \notin {"new", "done"}, mixed' = mixed, Fits(Kind(c), place), place \notin JobPlaces,
               HandBack(c, place) \/ (place = "done" /\ Complete(c))
        PROVE  Shape(c, place)
    <2>1. Moves(c, place)
      BY <1>2 DEF Moves, OnWorker, HandBack, Complete
    <2>2. /\ queue' = Tail(queue) /\ queue # <<>> /\ Head(queue) = c
          /\ ready' = ready \/ ready' = Append(ready, c)
      BY <1>2, Zenon DEF OnWorker, HandBack, Complete
    <2> QED
      BY <1>2, <2>1, <2>2, Zenon DEF Shape, HandedBack
  <1>3. /\ Places = {"new", "begin", "stats", "resume", "copy", "insert", "append",
                     "rename", "reopen", "unlink", "change", "read", "open", "scan",
                     "replace", "relink", "clean", "done"}
        /\ "done" \notin JobPlaces /\ "resume" \notin JobPlaces
        /\ "replace" \notin JobPlaces /\ "relink" \notin JobPlaces
        /\ Fits(Kind(c), "done") /\ Fits(Kind(c), "resume") /\ Fits(Kind(c), "reopen")
    BY DEF Places, JobPlaces, Fits
  <1>4. CASE Stats(c)
    <2>1. CASE Perish
      BY <2>1 DEF Perish, Kept, sched, given
    <2>2. CASE ~Perish
      <3>1. OnWorker(c, "stats") /\ mixed' = mixed /\ HandBack(c, "resume")
        BY <1>4, <2>2 DEF Stats, given
      <3> QED
        BY <1>2, <1>3, <3>1
    <2> QED
      BY <2>1, <2>2
  <1>5. CASE Copy(c)
    <2>1. /\ OnWorker(c, "copy") /\ mixed' = mixed /\ GoTo(c, "insert")
          /\ Fits(Kind(c), "insert")
      BY <1>0, <1>5 DEF Copy, OnWorker, given, Fits
    <2> QED
      BY <1>1, <1>3, <2>1
  <1>6. CASE InsertRow(c)
    <2>1. /\ OnWorker(c, "insert") /\ mixed' = mixed
          /\ GoTo(c, "unlink") \/ GoTo(c, "append")
          /\ Fits(Kind(c), "unlink") /\ Fits(Kind(c), "append")
      BY <1>0, <1>6 DEF InsertRow, OnWorker, given, Fits
    <2> QED
      BY <1>1, <1>3, <2>1
  <1>7. CASE AppendRecord(c)
    <2>1. /\ OnWorker(c, "append") /\ mixed' = mixed /\ GoTo(c, "rename")
          /\ Fits(Kind(c), "rename")
      BY <1>0, <1>7 DEF AppendRecord, OnWorker, given, Fits
    <2> QED
      BY <1>1, <1>3, <2>1
  <1>8. CASE Rename(c)
    <2>1. /\ OnWorker(c, "rename") /\ mixed' = mixed
          /\ GoTo(c, "unlink") \/ GoTo(c, "reopen")
          /\ Fits(Kind(c), "unlink")
      BY <1>0, <1>8 DEF Rename, OnWorker, given, Fits
    <2> QED
      BY <1>1, <1>3, <2>1
  <1>9. CASE Reopen(c)
    <2>1. OnWorker(c, "reopen") /\ mixed' = mixed
      BY <1>9 DEF Reopen, given
    <2>2. CASE Kind(c) = "insert"
      <3>1. GoTo(c, "unlink") /\ Fits(Kind(c), "unlink")
        BY <1>9, <2>2 DEF Reopen, Fits
      <3> QED
        BY <1>1, <1>3, <2>1, <3>1
    <2>3. CASE Kind(c) # "insert"
      BY <1>2, <1>3, <1>9, <2>1, <2>3 DEF Reopen
    <2> QED
      BY <2>2, <2>3
  <1>10. CASE Unlink(c)
    <2>1. OnWorker(c, "unlink") /\ mixed' = mixed /\ Complete(c)
      BY <1>10 DEF Unlink, given
    <2> QED
      BY <1>2, <1>3, <2>1
  <1>11. CASE Change(c)
    <2>1. OnWorker(c, "change") /\ mixed' = mixed /\ GoTo(c, "reopen")
      BY <1>11 DEF Change, given
    <2> QED
      BY <1>1, <1>3, <2>1
  <1>12. CASE ChangeNothing(c)
    <2>1. OnWorker(c, "change") /\ mixed' = mixed /\ Complete(c)
      BY <1>12 DEF ChangeNothing, given
    <2> QED
      BY <1>2, <1>3, <2>1
  <1>13. CASE ReadRecords(c)
    <2>1. OnWorker(c, "read") /\ mixed' = mixed /\ Complete(c)
      BY <1>13 DEF ReadRecords, given
    <2> QED
      BY <1>2, <1>3, <2>1
  <1>14. CASE ReadNull(c)
    BY <1>14 DEF ReadNull, Perish, Kept, sched, given
  <1>15. CASE DeleteNothing(c) \/ Seal(c)
    <2>1. /\ OnWorker(c, "open") \/ OnWorker(c, "scan")
          /\ mixed' = mixed
          /\ HandBack(c, "relink") \/ HandBack(c, "replace")
      <3>1. CASE DeleteNothing(c)
        BY <3>1 DEF DeleteNothing, AfterJob, given
      <3>2. CASE Seal(c)
        <4>1. AfterJob(c, hdr - Preserved)
          BY <3>2 DEF Seal
        <4>2. HandBack(c, "relink") \/ HandBack(c, "replace")
          BY <4>1 DEF AfterJob
        <4> QED
          BY <3>2, <4>2 DEF Seal, given
      <3> QED
        BY <1>15, <3>1, <3>2
    <2>2. Fits(Kind(c), "relink") /\ Fits(Kind(c), "replace")
      BY <1>0, <2>1 DEF OnWorker, Fits
    <2> QED
      BY <1>2, <1>3, <2>1, <2>2
  <1>16. CASE OpenTemp(c)
    <2>1. /\ OnWorker(c, "open") /\ mixed' = mixed /\ GoTo(c, "scan")
          /\ Fits(Kind(c), "scan")
      BY <1>0, <1>16 DEF OpenTemp, OnWorker, given, Fits
    <2> QED
      BY <1>1, <1>3, <2>1
  <1>17. CASE ScanChunk(c)
    BY <1>17 DEF ScanChunk, Kept, sched, given
  <1> QED
    BY <1>4, <1>5, <1>6, <1>7, <1>8, <1>9, <1>10, <1>11, <1>12, <1>13, <1>14,
       <1>15, <1>16, <1>17 DEF Worker

LEMMA StepShape ==
  ASSUME SchedInv, [Next]_vars
  PROVE  Kept \/ \E c \in Calls, place \in Places : Shape(c, place)
  <1>1. CASE UNCHANGED vars
    BY <1>1 DEF vars, given, sched, Kept
  <1>2. "begin" \in Places
    BY DEF Places
  <1> QED
    BY <1>1, <1>2, CallShape, LoopShape, WorkerShape DEF Next

LEMMA AskedKept ==
  ASSUME [Next]_vars
  PROVE  asked' = asked
  <1>1. ASSUME NEW c \in Calls, Loop(c)
        PROVE  asked' = asked
    BY <1>1 DEF Loop, Begin, StopAtStats, GoOnWithJob, WriteHeader, Replace,
       Relink, Clean, Perish, given
  <1>2. ASSUME NEW c \in Calls, Worker(c)
        PROVE  asked' = asked
    BY <1>2 DEF Worker, Stats, Copy, InsertRow, AppendRecord, Rename, Reopen,
       Unlink, Change, ChangeNothing, ReadRecords, ReadNull, DeleteNothing,
       OpenTemp, ScanChunk, Seal, Perish, given
  <1> QED
    BY <1>1, <1>2 DEF Next, Call, vars, given

LEMMA PlacesAfter ==
  ASSUME SchedType, NEW c \in Calls, NEW place \in Places, Moves(c, place)
  PROVE  /\ pc' \in [Calls -> Places]
         /\ pc'[c] = place
         /\ \A d \in Calls : d # c => pc'[d] = pc[d]
  BY DEF SchedType, Moves

LEMMA QueuesAfter ==
  ASSUME SchedInv, NEW c \in Calls, NEW place \in Places, Shape(c, place)
  PROVE  /\ ready' \in Seq(Calls) /\ queue' \in Seq(Calls)
         /\ \A d \in Calls : (IF d = c THEN place ELSE pc[d]) \in JobPlaces =>
              queue' # <<>> /\ Head(queue') = d
  <1>1. ready \in Seq(Calls) /\ queue \in Seq(Calls)
    BY DEF SchedInv, SchedType
  <1>2. \A d \in Calls : pc[d] \in JobPlaces => queue # <<>> /\ Head(queue) = d
    BY DEF SchedInv, JobAtHead
  <1>3. CASE QueuesKept(c, place)
    <2>1. ready' \in Seq(Calls) /\ queue' = queue
      BY <1>1, <1>3, HeadAndTail, HeadOfAppend DEF QueuesKept
    <2>2. place \in JobPlaces => queue # <<>> /\ Head(queue) = c
      BY <1>3, Zenon DEF QueuesKept
    <2> QED
      BY <1>1, <1>2, <2>1, <2>2
  <1>4. CASE HandedOver(c, place)
    <2>1. /\ ready' \in Seq(Calls) /\ queue' = Append(queue, c)
          /\ place \notin JobPlaces
      BY <1>1, <1>4, HeadAndTail DEF HandedOver
    <2>2. queue' \in Seq(Calls)
      BY <1>1, <2>1, HeadOfAppend
    <2>3. queue # <<>> => queue' # <<>> /\ Head(queue') = Head(queue)
      BY <1>1, <2>1, HeadOfAppend, Zenon
    <2> QED
      BY <1>2, <2>1, <2>2, <2>3, Zenon
  <1>5. CASE HandedBack(c, place)
    <2>1. /\ queue # <<>> /\ Head(queue) = c /\ queue' = Tail(queue)
          /\ place \notin JobPlaces
          /\ ready' = ready \/ ready' = Append(ready, c)
      BY <1>5, Zenon DEF HandedBack
    <2>2. queue' \in Seq(Calls) /\ ready' \in Seq(Calls)
      BY <1>1, <2>1, HeadAndTail, HeadOfAppend
    <2>3. \A d \in Calls : d # c => pc[d] \notin JobPlaces
      BY <1>2, <2>1, Zenon
    <2> QED
      BY <2>1, <2>2, <2>3, Zenon
  <1> QED
    BY <1>3, <1>4, <1>5 DEF Shape

LEMMA SchedPreserved ==
  ASSUME SchedInv, [Next]_vars
  PROVE  SchedInv'
  <1>1. asked' = asked
    BY AskedKept
  <1>2. CASE Kept
    BY <1>1, <1>2 DEF Kept, SchedInv, SchedType, JobAtHead, KindsFit, Alone,
       Kind, InProgress
  <1>3. ASSUME NEW c \in Calls, NEW place \in Places, Shape(c, place)
        PROVE  SchedInv'
    <2>1. Moves(c, place) /\ Fits(Kind(c), place)
      BY <1>3 DEF Shape, Moves
    <2>2. /\ pc' \in [Calls -> Places] /\ pc'[c] = place
          /\ \A d \in Calls : d # c => pc'[d] = pc[d]
      BY <2>1, PlacesAfter DEF SchedInv
    <2>3. SchedType'
      BY <1>3, <2>2, QueuesAfter DEF SchedType
    <2>4. JobAtHead'
      BY <1>3, <2>2, QueuesAfter DEF JobAtHead
    <2>5. \A d \in Calls : Kind(d)' = Kind(d)
      BY <1>1 DEF Kind
    <2>6. KindsFit'
      <3> SUFFICES ASSUME NEW d \in Calls PROVE Fits(Kind(d)', pc'[d])
        BY DEF KindsFit
      <3>1. Fits(Kind(d), pc[d])
        BY DEF SchedInv, KindsFit
      <3> QED
        BY <2>1, <2>2, <2>5, <3>1
    <2>7. CASE pc[c] = "new"
      <3>1. mixed' = (mixed \/ \E d \in InProgress : "delete" \in {Kind(c), Kind(d)})
        BY <2>1, <2>7 DEF Moves, Call
      <3>2. InProgress' \subseteq InProgress \cup {c}
        BY <2>2 DEF InProgress
      <3>3. Alone
        BY DEF SchedInv
      <3>4. ASSUME ~mixed', NEW d \in InProgress', NEW e \in InProgress', d # e
            PROVE  Kind(d)' # "delete"
        <4>1. ~mixed /\ \A x \in InProgress : Kind(c) # "delete" /\ Kind(x) # "delete"
          BY <3>1, <3>4
        <4>2. d \in InProgress \/ d = c
          BY <3>2
        <4>3. d \in Calls
          BY DEF InProgress
        <4>4. CASE d \in InProgress
          BY <2>5, <4>1, <4>3, <4>4
        <4>5. CASE d = c
          <5>1. e \in InProgress
            BY <3>2, <3>4, <4>5
          <5> QED
            BY <2>5, <4>1, <4>5, <5>1
        <4> QED
          BY <4>2, <4>4, <4>5
      <3>5. Alone'
        BY <3>4 DEF Alone
      <3> QED
        BY <2>3, <2>4, <2>6, <3>5 DEF SchedInv
    <2>8. CASE pc[c] # "new"
      <3>1. mixed' = mixed
        BY <2>1, <2>8 DEF Moves
      <3>2. InProgress' \subseteq InProgress
        <4>1. ASSUME NEW d \in InProgress', d \notin InProgress
              PROVE  FALSE
          <5>1. d \in Calls /\ pc'[d] \notin {"new", "done"}
                /\ pc[d] \in {"new", "done"}
            BY <4>1 DEF InProgress
          <5>2. d = c /\ pc[c] = "done"
            BY <2>2, <2>8, <5>1
          <5> QED
            BY <2>1, <5>2 DEF Moves
        <4> QED
          BY <4>1
      <3>3. \A d, e \in InProgress' : d # e /\ ~mixed => Kind(d)' # "delete"
        BY <2>5, <3>2 DEF SchedInv, Alone, InProgress
      <3>4. Alone'
        BY <3>1, <3>3 DEF Alone
      <3> QED
        BY <2>3, <2>4, <2>6, <3>4 DEF SchedInv
    <2> QED
      BY <2>7, <2>8
  <1> QED
    BY <1>2, <1>3, StepShape

-----------------------------------------------------------------------------
(* The ".temp" file and the FILE that has lost its name                    *)

LEMMA LoopTemp ==
  ASSUME SchedType, NEW c \in Calls, Loop(c), temp' # None
  PROVE  \/ \E d \in Calls : pc'[d] \in TempPlaces
         \/ /\ temp' = temp
            /\ \A d \in Calls : pc[d] \in TempPlaces => pc'[d] \in TempPlaces
  <1>0. pc \in [Calls -> Places]
    BY DEF SchedType
  <1>1. CASE Begin(c) \/ GoOnWithJob(c)
    BY <1>0, <1>1 DEF Begin, GoOnWithJob, OnLoop, Submit, disk, TempPlaces
  <1>2. CASE WriteHeader(c)
    BY <1>0, <1>2 DEF WriteHeader, Submit, TempPlaces
  <1>3. CASE StopAtStats(c)
    BY <1>0, <1>3 DEF StopAtStats, OnLoop, GoTo, disk, TempPlaces
  <1>4. CASE Replace(c) \/ Relink(c)
    BY <1>0, <1>4 DEF Replace, Relink, OnLoop, GoTo, Perish, disk, TempPlaces
  <1>5. CASE Clean(c)
    BY <1>5 DEF Clean
  <1> QED
    BY <1>1, <1>2, <1>3, <1>4, <1>5 DEF Loop

LEMMA WorkerTemp ==
  ASSUME SchedType, NEW c \in Calls, Worker(c), temp' # None
  PROVE  \/ \E d \in Calls : pc'[d] \in TempPlaces
         \/ /\ temp' = temp
            /\ \A d \in Calls : pc[d] \in TempPlaces => pc'[d] \in TempPlaces
  <1>0. pc \in [Calls -> Places]
    BY DEF SchedType
  <1>1. CASE Stats(c) \/ ReadRecords(c) \/ ReadNull(c) \/ Change(c) \/ ChangeNothing(c)
    BY <1>0, <1>1 DEF Stats, ReadRecords, ReadNull, Change, ChangeNothing, OnWorker,
       GoTo, HandBack, Complete, Perish, disk, TempPlaces
  <1>2. CASE Copy(c) \/ InsertRow(c) \/ AppendRecord(c)
    BY <1>0, <1>2 DEF Copy, InsertRow, AppendRecord, GoTo, disk, TempPlaces
  <1>3. CASE Rename(c) \/ Unlink(c)
    BY <1>3 DEF Rename, Unlink, disk
  <1>4. CASE Reopen(c)
    BY <1>0, <1>4 DEF Reopen, OnWorker, GoTo, Complete, disk, TempPlaces
  <1>5. CASE OpenTemp(c) \/ ScanChunk(c)
    BY <1>0, <1>5 DEF OpenTemp, ScanChunk, GoTo, disk, TempPlaces
  <1>6. CASE DeleteNothing(c) \/ Seal(c)
    <2>1. temp' = temp /\ \E n \in {0, hdr - Preserved} : AfterJob(c, n)
      BY <1>6 DEF DeleteNothing, Seal, disk
    <2>2. pc'[c] \in {"relink", "replace"}
      BY <1>0, <2>1 DEF AfterJob, HandBack
    <2> QED
      BY <2>2 DEF TempPlaces
  <1> QED
    BY <1>1, <1>2, <1>3, <1>4, <1>5, <1>6 DEF Worker

LEMMA TempHeldPreserved ==
  ASSUME SchedInv, TempHeld, [Next]_vars
  PROVE  TempHeld'
  <1>0. SchedType
    BY DEF SchedInv
  <1>1. CASE UNCHANGED vars
    BY <1>1 DEF vars, disk, TempHeld
  <1>2. ASSUME NEW c \in Calls, Call(c)
        PROVE  TempHeld'
    <2>1. temp' = temp /\ \A d \in Calls : pc[d] \in TempPlaces => pc'[d] \in TempPlaces
      BY <1>0, <1>2 DEF Call, SchedType, disk, TempPlaces
    <2> QED
      BY <2>1 DEF TempHeld
  <1>3. ASSUME NEW c \in Calls, Loop(c) \/ Worker(c)
        PROVE  TempHeld'
    <2> SUFFICES ASSUME temp' # None
                 PROVE  \E d \in Calls : pc'[d] \in TempPlaces
      BY DEF TempHeld
    <2> QED
      BY <1>0, <1>3, LoopTemp, WorkerTemp DEF TempHeld
  <1> QED
    BY <1>1, <1>2, <1>3 DEF Next

LEMMA LoopFile ==
  ASSUME SchedType, NEW c \in Calls, Loop(c)
  PROVE  \/ \E d \in Calls : pc'[d] \in {"reopen", "relink"}
         \/ file' \in {main', None}
         \/ /\ file' = file /\ main' = main
            /\ \A d \in Calls :
                 pc[d] \in {"reopen", "relink"} => pc'[d] \in {"reopen", "relink"}
  <1>0. pc \in [Calls -> Places]
    BY DEF SchedType
  <1>1. CASE Begin(c) \/ GoOnWithJob(c) \/ WriteHeader(c)
    BY <1>0, <1>1 DEF Begin, GoOnWithJob, WriteHeader, WriteTemp, OnLoop, Submit,
       disk, conn
  <1>2. CASE StopAtStats(c) \/ Clean(c)
    BY <1>0, <1>2 DEF StopAtStats, Clean, OnLoop, GoTo, disk, conn
  <1>3. CASE Replace(c)
    BY <1>0, <1>3 DEF Replace, OnLoop, GoTo, disk, conn
  <1>4. CASE Relink(c)
    BY <1>0, <1>4 DEF Relink, OpenMain, Perish, disk, conn
  <1> QED
    BY <1>1, <1>2, <1>3, <1>4 DEF Loop

LEMMA WorkerFile ==
  ASSUME SchedType, NEW c \in Calls, Worker(c)
  PROVE  \/ \E d \in Calls : pc'[d] \in {"reopen", "relink"}
         \/ file' \in {main', None}
         \/ /\ file' = file /\ main' = main
            /\ \A d \in Calls :
                 pc[d] \in {"reopen", "relink"} => pc'[d] \in {"reopen", "relink"}
  <1>0. pc \in [Calls -> Places]
    BY DEF SchedType
  <1>1. CASE Stats(c) \/ ReadRecords(c) \/ ReadNull(c) \/ ChangeNothing(c)
    BY <1>0, <1>1 DEF Stats, ReadRecords, ReadNull, ChangeNothing, OnWorker,
       HandBack, Complete, Perish, disk, conn
  <1>2. CASE Copy(c) \/ AppendRecord(c) \/ Unlink(c)
    BY <1>0, <1>2 DEF Copy, AppendRecord, Unlink, WriteTemp, OnWorker, GoTo,
       Complete, disk, conn
  <1>3. CASE InsertRow(c)
    BY <1>0, <1>3 DEF InsertRow, OnWorker, GoTo, disk, conn
  <1>4. CASE Rename(c)
    BY <1>0, <1>4 DEF Rename, OnWorker, GoTo, disk, conn
  <1>5. CASE Reopen(c)
    BY <1>5 DEF Reopen, OpenMain, disk
  <1>6. CASE Change(c)
    BY <1>0, <1>6 DEF Change, GoTo
  <1>7. CASE OpenTemp(c) \/ ScanChunk(c)
    BY <1>0, <1>7 DEF OpenTemp, ScanChunk, OnWorker, GoTo, disk, conn
  <1>8. CASE DeleteNothing(c)
    <2>1. /\ file' = file /\ main' = main /\ pc[c] = "open"
          /\ AfterJob(c, 0)
      BY <1>8 DEF DeleteNothing, OnWorker, disk, conn
    <2> QED
      BY <1>0, <2>1 DEF AfterJob, HandBack
  <1>9. CASE Seal(c)
    BY <1>9 DEF Seal
  <1> QED
    BY <1>1, <1>2, <1>3, <1>4, <1>5, <1>6, <1>7, <1>8, <1>9 DEF Worker

LEMMA FileHeldPreserved ==
  ASSUME SchedInv, FileHeld, [Next]_vars
  PROVE  FileHeld'
  <1>0. SchedType
    BY DEF SchedInv
  <1>1. CASE UNCHANGED vars
    BY <1>1 DEF vars, disk, conn, FileHeld
  <1>2. ASSUME NEW c \in Calls, Call(c)
        PROVE  FileHeld'
    <2>1. /\ file' = file /\ main' = main
          /\ \A d \in Calls :
               pc[d] \in {"reopen", "relink"} => pc'[d] \in {"reopen", "relink"}
      BY <1>0, <1>2 DEF Call, SchedType, disk, conn
    <2> QED
      BY <2>1 DEF FileHeld
  <1>3. ASSUME NEW c \in Calls, Loop(c) \/ Worker(c)
        PROVE  FileHeld'
    BY <1>0, <1>3, LoopFile, WorkerFile DEF FileHeld
  <1> QED
    BY <1>1, <1>2, <1>3 DEF Next

LEMMA Initially == Init => SchedInv /\ TempHeld /\ FileHeld
  <1> SUFFICES ASSUME Init PROVE SchedInv /\ TempHeld /\ FileHeld
    OBVIOUS
  <1>1. ready \in Seq(Calls) /\ queue \in Seq(Calls)
    BY EmptySeq DEF Init
  <1>2. pc = [c \in Calls |-> "new"] /\ "new" \in Places
    BY DEF Init, Places
  <1>3. JobAtHead /\ KindsFit /\ Alone
    BY <1>2 DEF JobAtHead, JobPlaces, KindsFit, Fits, Alone, InProgress
  <1> QED
    BY <1>1, <1>2, <1>3 DEF Init, SchedInv, SchedType, TempHeld, FileHeld

LEMMA HoldersInvariant == Spec => [](SchedInv /\ TempHeld /\ FileHeld)
  <1>1. SchedInv /\ TempHeld /\ FileHeld /\ [Next]_vars
          => (SchedInv /\ TempHeld /\ FileHeld)'
    BY SchedPreserved, TempHeldPreserved, FileHeldPreserved
  <1> QED
    BY <1>1, Initially, PTL DEF Spec

\* When no call is in progress no ".temp" file is left and the connection has
\* open what the vector file's name stands for, or nothing: however many calls
\* have overlapped, whichever thread ran first, and although their names, one
\* ".temp" and one FILE, are shared by all of them.
THEOREM NothingStays == Spec => []NothingIsLeftBehind
  <1>1. SchedInv /\ TempHeld /\ FileHeld => NothingIsLeftBehind
    BY DEF TempHeld, FileHeld, NothingIsLeftBehind, Quiet, InProgress, TempPlaces
  <1> QED
    BY <1>1, HoldersInvariant, PTL

-----------------------------------------------------------------------------
(* No call uses a closed FILE, unless a deletion overlaps                  *)

TempUsers  == {"insert", "append", "rename", "open", "scan", "replace"}
FileOwners == {"append", "rename", "reopen", "replace", "relink"}

UseInv ==
  /\ mixed \/ main # None
  /\ TempStays /\ ClosedByWriter /\ ClosedFileIsNotUsed

\* Of two calls in progress none is a deletion, and one at most has a job under
\* way.
LEMMA NoTwo ==
  ASSUME SchedInv, ~mixed, NEW c \in Calls, NEW d \in Calls, c # d,
         pc[c] \notin {"new", "done"}, pc[d] \notin {"new", "done"}
  PROVE  /\ Kind(c) # "delete" /\ Kind(d) # "delete"
         /\ pc[c] \notin {"open", "scan", "replace", "relink", "clean"}
         /\ pc[d] \notin {"open", "scan", "replace", "relink", "clean"}
         /\ pc[c] \in JobPlaces => pc[d] \notin JobPlaces
  <1>1. Kind(c) # "delete" /\ Kind(d) # "delete"
    BY DEF SchedInv, Alone, InProgress
  <1>2. Fits(Kind(c), pc[c]) /\ Fits(Kind(d), pc[d])
    BY DEF SchedInv, KindsFit
  <1>3. pc[c] \in JobPlaces => pc[d] \notin JobPlaces
    BY Zenon DEF SchedInv, JobAtHead
  <1> QED
    BY <1>1, <1>2, <1>3 DEF Fits

LEMMA TempIsMade ==
  ASSUME NEW img, WriteTemp(img)
  PROVE  temp' # None /\ main' = main
  <1>1. \E i \in Inodes : i \notin {main, temp, file, own}
    BY DEF Inodes
  <1>2. Fresh \in Inodes
    BY <1>1 DEF Fresh
  <1> QED
    BY <1>2 DEF WriteTemp, Inodes, None

\* The steps after which there is no ".temp".
LEMMA TempGone ==
  ASSUME SchedInv, UseInv, ~mixed, NEW c \in Calls,
         pc' \in [Calls -> Places], \A d \in Calls : d # c => pc'[d] = pc[d],
         pc[c] \in {"rename", "unlink", "replace", "clean"},
         pc'[c] \notin TempUsers
  PROVE  \A d \in Calls : pc'[d] \notin TempUsers
  <1> SUFFICES ASSUME NEW d \in Calls, d # c, pc[d] \in TempUsers
               PROVE  FALSE
    OBVIOUS
  <1>1. /\ Kind(c) # "delete"
        /\ pc[c] \notin {"open", "scan", "replace", "relink", "clean"}
        /\ pc[d] \notin {"open", "scan", "replace", "relink", "clean"}
        /\ pc[c] \in JobPlaces => pc[d] \notin JobPlaces
    BY NoTwo DEF TempUsers
  <1> QED
    BY <1>1 DEF TempUsers, JobPlaces

\* A step that leaves the ".temp" and the FILE, and whom they belong to.
LEMMA UseKept ==
  ASSUME UseInv, mixed' = mixed, temp' = temp, file' = file, main' = main,
         alive' = alive,
         \A d \in Calls : /\ pc'[d] \in TempUsers => pc[d] \in TempUsers
                          /\ pc[d] \in FileOwners => pc'[d] \in FileOwners
  PROVE  UseInv'
  BY DEF UseInv, TempStays, ClosedByWriter, ClosedFileIsNotUsed, TempUsers, FileOwners

LEMMA LoopUse ==
  ASSUME SchedInv, UseInv, ~mixed, NEW c \in Calls, Loop(c)
  PROVE  UseInv'
  <1>0. pc \in [Calls -> Places] /\ alive
    BY DEF SchedInv, SchedType, UseInv, ClosedFileIsNotUsed
  <1>1. CASE Begin(c) \/ GoOnWithJob(c)
    <2>1. /\ mixed' = mixed /\ temp' = temp /\ file' = file /\ main' = main
          /\ alive' = alive
      BY <1>1 DEF Begin, GoOnWithJob, disk, conn, given
    <2>2. \A d \in Calls : /\ pc'[d] \in TempUsers => pc[d] \in TempUsers
                           /\ pc[d] \in FileOwners => pc'[d] \in FileOwners
      BY <1>0, <1>1 DEF Begin, GoOnWithJob, OnLoop, Submit, TempUsers, FileOwners
    <2> QED
      BY <2>1, <2>2, UseKept
  <1>2. CASE StopAtStats(c)
    <2>1. /\ mixed' = mixed /\ temp' = temp /\ file' = file /\ main' = main
          /\ alive' = alive
      BY <1>2 DEF StopAtStats, disk, conn, given
    <2>2. \A d \in Calls : /\ pc'[d] \in TempUsers => pc[d] \in TempUsers
                           /\ pc[d] \in FileOwners => pc'[d] \in FileOwners
      BY <1>0, <1>2 DEF StopAtStats, OnLoop, GoTo, TempUsers, FileOwners
    <2> QED
      BY <2>1, <2>2, UseKept
  <1>3. CASE WriteHeader(c)
    <2>1. /\ mixed' = mixed /\ temp' # None /\ file' = file /\ main' = main
          /\ alive' = alive
      BY <1>3, TempIsMade DEF WriteHeader, conn, given
    <2>2. \A d \in Calls : pc[d] \in FileOwners => pc'[d] \in FileOwners
      BY <1>0, <1>3 DEF WriteHeader, OnLoop, Submit, FileOwners
    <2> QED
      BY <2>1, <2>2 DEF UseInv, TempStays, ClosedByWriter, ClosedFileIsNotUsed,
         FileOwners
  <1>4. CASE Replace(c)
    <2>1. /\ pc[c] = "replace" /\ temp # None
      BY <1>4 DEF Replace, OnLoop, UseInv, TempStays
    <2>2. /\ main' = temp /\ temp' = None /\ file' = file /\ mixed' = mixed
          /\ alive' = alive /\ pc' = [pc EXCEPT ![c] = "relink"]
      BY <1>4, <2>1 DEF Replace, GoTo, conn, given
    <2>3. /\ pc' \in [Calls -> Places] /\ pc'[c] = "relink"
          /\ \A d \in Calls : d # c => pc'[d] = pc[d]
      BY <1>0, <2>2 DEF Places
    <2>4. \A d \in Calls : pc'[d] \notin TempUsers
      BY <2>1, <2>3, TempGone DEF TempUsers
    <2> QED
      BY <1>0, <2>1, <2>2, <2>3, <2>4 DEF UseInv, TempStays, ClosedByWriter,
         ClosedFileIsNotUsed, TempUsers
  <1>5. CASE Relink(c)
    <2>1. pc[c] = "relink"
      BY <1>5 DEF Relink, OnLoop
    <2>2. ~WorkerUsesFile
      <3> SUFFICES ASSUME WorkerUsesFile PROVE FALSE
        OBVIOUS
      <3>1. /\ queue # <<>>
            /\ pc[Head(queue)] \in {"stats", "insert", "reopen", "change", "read",
                                    "scan"}
        BY DEF WorkerUsesFile
      <3>2. Head(queue) \in Calls
        BY <3>1, HeadAndTail DEF SchedInv, SchedType
      <3> QED
        BY <2>1, <3>1, <3>2, NoTwo
    <2>3. /\ file' = main /\ UNCHANGED <<main, temp, mixed, alive>>
          /\ pc' = [pc EXCEPT ![c] = "clean"]
      BY <1>5, <2>2 DEF Relink, OpenMain, GoTo, disk, given
    <2>4. \A d \in Calls : pc'[d] \in TempUsers => pc[d] \in TempUsers
      BY <1>0, <2>3 DEF TempUsers
    <2> QED
      BY <1>0, <2>3, <2>4 DEF UseInv, TempStays, ClosedByWriter,
         ClosedFileIsNotUsed, TempUsers
  <1>6. CASE Clean(c)
    <2>1. /\ pc[c] = "clean" /\ temp' = None /\ UNCHANGED <<main, file, mixed, alive>>
          /\ pc' = [pc EXCEPT ![c] = "done"]
      BY <1>6 DEF Clean, OnLoop, conn, given
    <2>2. /\ pc' \in [Calls -> Places] /\ pc'[c] = "done"
          /\ \A d \in Calls : d # c => pc'[d] = pc[d]
      BY <1>0, <2>1 DEF Places
    <2>3. \A d \in Calls : pc'[d] \notin TempUsers
      BY <2>1, <2>2, TempGone DEF TempUsers
    <2>4. \A d \in Calls : pc[d] \in FileOwners => pc'[d] \in FileOwners
      BY <2>1, <2>2 DEF FileOwners
    <2> QED
      BY <1>0, <2>1, <2>3, <2>4 DEF UseInv, TempStays, ClosedByWriter,
         ClosedFileIsNotUsed, TempUsers, FileOwners
  <1> QED
    BY <1>1, <1>2, <1>3, <1>4, <1>5, <1>6 DEF Loop

\* A job that reads finds the FILE open.
LEMMA ReadersFindFile ==
  ASSUME SchedInv, UseInv, ~mixed, NEW c \in Calls,
         OnWorker(c, "stats") \/ OnWorker(c, "read")
  PROVE  file # None
  <1> SUFFICES ASSUME file = None PROVE FALSE
    OBVIOUS
  <1>1. PICK d \in Calls : pc[d] \in FileOwners
    BY DEF UseInv, ClosedByWriter, FileOwners
  <1>2. /\ queue # <<>> /\ Head(queue) = c /\ pc[c] \in {"stats", "read"}
    BY DEF OnWorker
  <1>3. d # c
    BY <1>1, <1>2 DEF FileOwners
  <1>4. pc[d] \in JobPlaces
    BY <1>1, <1>2, <1>3, NoTwo DEF FileOwners, JobPlaces
  <1> QED
    BY <1>2, <1>3, <1>4, Zenon DEF SchedInv, JobAtHead

LEMMA WorkerUse ==
  ASSUME SchedInv, UseInv, ~mixed, NEW c \in Calls, Worker(c)
  PROVE  UseInv'
  <1>0. pc \in [Calls -> Places] /\ alive
    BY DEF SchedInv, SchedType, UseInv, ClosedFileIsNotUsed
  <1>1. CASE Stats(c) \/ ReadRecords(c) \/ ReadNull(c)
    <2>1. file # None
      BY <1>1, ReadersFindFile DEF Stats, ReadRecords, ReadNull
    <2>2. /\ mixed' = mixed /\ temp' = temp /\ file' = file /\ main' = main
          /\ alive' = alive
      BY <1>1, <2>1 DEF Stats, ReadRecords, ReadNull, disk, given
    <2>3. \A d \in Calls : /\ pc'[d] \in TempUsers => pc[d] \in TempUsers
                           /\ pc[d] \in FileOwners => pc'[d] \in FileOwners
      BY <1>0, <1>1, <2>1 DEF Stats, ReadRecords, ReadNull, OnWorker, HandBack,
         Complete, TempUsers, FileOwners
    <2> QED
      BY <2>2, <2>3, UseKept
  <1>2. CASE Copy(c)
    <2>1. /\ mixed' = mixed /\ temp' # None /\ file' = file /\ main' = main
          /\ alive' = alive
      BY <1>2, TempIsMade DEF Copy, conn, given
    <2>2. \A d \in Calls : pc[d] \in FileOwners => pc'[d] \in FileOwners
      BY <1>0, <1>2 DEF Copy, OnWorker, GoTo, FileOwners
    <2> QED
      BY <2>1, <2>2 DEF UseInv, TempStays, ClosedByWriter, ClosedFileIsNotUsed,
         FileOwners
  <1>3. CASE InsertRow(c)
    <2>1. pc[c] = "insert" /\ temp # None
      BY <1>3 DEF InsertRow, OnWorker, UseInv, TempStays
    <2>2. /\ UNCHANGED <<mixed, temp, main, alive>>
          /\ pc' = [pc EXCEPT ![c] = "append"]
      BY <1>3, <2>1 DEF InsertRow, GoTo, disk, given
    <2>3. pc'[c] = "append"
      BY <1>0, <2>2
    <2> QED
      BY <1>0, <2>1, <2>2, <2>3 DEF UseInv, TempStays, ClosedByWriter,
         ClosedFileIsNotUsed
  <1>4. CASE AppendRecord(c)
    <2>1. /\ mixed' = mixed /\ temp' = temp /\ file' = file /\ main' = main
          /\ alive' = alive
      BY <1>4 DEF AppendRecord, conn, given
    <2>2. \A d \in Calls : /\ pc'[d] \in TempUsers => pc[d] \in TempUsers
                           /\ pc[d] \in FileOwners => pc'[d] \in FileOwners
      BY <1>0, <1>4 DEF AppendRecord, OnWorker, GoTo, TempUsers, FileOwners
    <2> QED
      BY <2>1, <2>2, UseKept
  <1>5. CASE Rename(c)
    <2>1. pc[c] = "rename" /\ temp # None
      BY <1>5 DEF Rename, OnWorker, UseInv, TempStays
    <2>2. /\ main' = temp /\ temp' = None /\ file' = file /\ mixed' = mixed
          /\ alive' = alive /\ pc' = [pc EXCEPT ![c] = "reopen"]
      BY <1>5, <2>1 DEF Rename, GoTo, conn, given
    <2>3. /\ pc' \in [Calls -> Places] /\ pc'[c] = "reopen"
          /\ \A d \in Calls : d # c => pc'[d] = pc[d]
      BY <1>0, <2>2 DEF Places
    <2>4. \A d \in Calls : pc'[d] \notin TempUsers
      BY <2>1, <2>3, TempGone DEF TempUsers
    <2> QED
      BY <1>0, <2>1, <2>2, <2>3, <2>4 DEF UseInv, TempStays, ClosedByWriter,
         ClosedFileIsNotUsed, TempUsers
  <1>6. CASE Reopen(c)
    <2>1. /\ file' = main /\ UNCHANGED <<main, temp, mixed, alive>>
          /\ pc' = [pc EXCEPT ![c] = "unlink"] \/ pc' = [pc EXCEPT ![c] = "done"]
      BY <1>6 DEF Reopen, OpenMain, GoTo, Complete, disk, given
    <2>2. \A d \in Calls : pc'[d] \in TempUsers => pc[d] \in TempUsers
      BY <1>0, <2>1 DEF TempUsers
    <2> QED
      BY <1>0, <2>1, <2>2 DEF UseInv, TempStays, ClosedByWriter,
         ClosedFileIsNotUsed, TempUsers
  <1>7. CASE Unlink(c)
    <2>1. /\ pc[c] = "unlink" /\ temp' = None /\ UNCHANGED <<main, file, mixed, alive>>
          /\ pc' = [pc EXCEPT ![c] = "done"]
      BY <1>7 DEF Unlink, OnWorker, Complete, conn, given
    <2>2. /\ pc' \in [Calls -> Places] /\ pc'[c] = "done"
          /\ \A d \in Calls : d # c => pc'[d] = pc[d]
      BY <1>0, <2>1 DEF Places
    <2>3. \A d \in Calls : pc'[d] \notin TempUsers
      BY <2>1, <2>2, TempGone DEF TempUsers
    <2>4. \A d \in Calls : pc[d] \in FileOwners => pc'[d] \in FileOwners
      BY <2>1, <2>2 DEF FileOwners
    <2> QED
      BY <1>0, <2>1, <2>3, <2>4 DEF UseInv, TempStays, ClosedByWriter,
         ClosedFileIsNotUsed, TempUsers, FileOwners
  <1>8. CASE Change(c) \/ ChangeNothing(c)
    <2>1. /\ mixed' = mixed /\ temp' = temp /\ file' = file /\ main' = main
          /\ alive' = alive
      BY <1>8 DEF Change, ChangeNothing, disk, conn, given
    <2>2. \A d \in Calls : /\ pc'[d] \in TempUsers => pc[d] \in TempUsers
                           /\ pc[d] \in FileOwners => pc'[d] \in FileOwners
      BY <1>0, <1>8 DEF Change, ChangeNothing, OnWorker, GoTo, Complete,
         TempUsers, FileOwners
    <2> QED
      BY <2>1, <2>2, UseKept
  <1>9. CASE OpenTemp(c) \/ ScanChunk(c)
    <2>1. /\ mixed' = mixed /\ temp' = temp /\ file' = file /\ main' = main
          /\ alive' = alive
      BY <1>9 DEF OpenTemp, ScanChunk, disk, conn, given
    <2>2. \A d \in Calls : /\ pc'[d] \in TempUsers => pc[d] \in TempUsers
                           /\ pc[d] \in FileOwners => pc'[d] \in FileOwners
      BY <1>0, <1>9 DEF OpenTemp, ScanChunk, OnWorker, GoTo, TempUsers, FileOwners
    <2> QED
      BY <2>1, <2>2, UseKept
  <1>10. CASE DeleteNothing(c) \/ Seal(c)
    <2>1. /\ mixed' = mixed /\ temp' = temp /\ main' = main /\ alive' = alive
          /\ pc[c] \in {"open", "scan"}
          /\ \E n \in {0, hdr - Preserved} : AfterJob(c, n)
      BY <1>10 DEF DeleteNothing, Seal, OnWorker, disk, given
    <2>2. \/ pc' = [pc EXCEPT ![c] = "relink"]
          \/ pc' = [pc EXCEPT ![c] = "replace"]
      BY <2>1 DEF AfterJob, HandBack
    <2>3. \A d \in Calls : pc'[d] \in TempUsers => pc[d] \in TempUsers
      BY <1>0, <2>1, <2>2 DEF TempUsers
    <2>4. pc'[c] \in FileOwners
      BY <1>0, <2>2 DEF FileOwners
    <2> QED
      BY <1>0, <2>1, <2>3, <2>4 DEF UseInv, TempStays, ClosedByWriter,
         ClosedFileIsNotUsed, TempUsers, FileOwners
  <1> QED
    BY <1>1, <1>2, <1>3, <1>4, <1>5, <1>6, <1>7, <1>8, <1>9, <1>10 DEF Worker

LEMMA MixedStays ==
  ASSUME SchedInv, [Next]_vars, mixed
  PROVE  mixed'
  <1>1. CASE Kept
    BY <1>1 DEF Kept
  <1>2. ASSUME NEW c \in Calls, NEW place \in Places, Shape(c, place)
        PROVE  mixed'
    BY <1>2 DEF Shape, Moves, Call
  <1> QED
    BY <1>1, <1>2, StepShape

LEMMA UsePreserved ==
  ASSUME SchedInv, UseInv, [Next]_vars
  PROVE  UseInv'
  <1>1. CASE mixed
    BY <1>1, MixedStays DEF UseInv, TempStays, ClosedByWriter, ClosedFileIsNotUsed
  <1>2. CASE ~mixed /\ UNCHANGED vars
    BY <1>2 DEF UseInv, TempStays, ClosedByWriter, ClosedFileIsNotUsed, vars, disk,
       conn, given
  <1>3. ASSUME ~mixed, NEW c \in Calls, Call(c)
        PROVE  UseInv'
    <2>1. /\ UNCHANGED <<temp, file, main, alive>>
          /\ \A d \in Calls : /\ pc'[d] \in TempUsers => pc[d] \in TempUsers
                              /\ pc[d] \in FileOwners => pc'[d] \in FileOwners
      BY <1>3 DEF Call, SchedInv, SchedType, disk, conn, TempUsers, FileOwners
    <2> QED
      BY <1>3, <2>1 DEF UseInv, TempStays, ClosedByWriter, ClosedFileIsNotUsed,
         TempUsers, FileOwners
  <1> QED
    BY <1>1, <1>2, <1>3, LoopUse, WorkerUse DEF Next

LEMMA UseInvariant == Spec => [](SchedInv /\ UseInv)
  <1>1. Init => SchedInv /\ UseInv
    <2>1. Init => main # None /\ file # None /\ alive
      BY DEF Init, None
    <2>2. Init => \A c \in Calls : pc[c] = "new"
      BY DEF Init
    <2> QED
      BY <2>1, <2>2, Initially DEF UseInv, TempStays, ClosedByWriter,
         ClosedFileIsNotUsed
  <1>2. SchedInv /\ UseInv /\ [Next]_vars => (SchedInv /\ UseInv)'
    BY SchedPreserved, UsePreserved
  <1> QED
    BY <1>1, <1>2, PTL DEF Spec

\* As long as no deletion overlaps with another call, no call hands a closed
\* FILE to a function that does not look, and the loop closes none that the
\* worker uses: insertions, updates, searches and pages may overlap freely.
THEOREM ClosedFilesStayUnused == Spec => []ClosedFileIsNotUsed
  <1>1. SchedInv /\ UseInv => ClosedFileIsNotUsed
    BY DEF UseInv
  <1> QED
    BY <1>1, UseInvariant, PTL

-----------------------------------------------------------------------------
(* What the operators of the copying loop return                           *)

LEMMA LeastElement ==
  ASSUME NEW T, T \subseteq Nat, T # {}
  PROVE  \E x \in T : \A y \in T : x <= y
  <1> DEFINE R == OpToRel(<, Nat)
  <1>1. IsWellFoundedOn(R, Nat)
    BY NatLessThanWellFounded
  <1>2. \A x, y \in Nat : x < y => <<x, y>> \in R
    BY DEF OpToRel
  <1> HIDE DEF R
  <1>3. PICK x \in T : \A y \in T : ~(<<y, x>> \in R)
    BY <1>1, WFMin
  <1>4. \A y \in T : ~(y < x)
    BY <1>2, <1>3
  <1>5. x \in Nat /\ \A y \in T : y \in Nat
    OBVIOUS
  <1>6. \A y \in T : x <= y
    BY <1>4, <1>5
  <1> QED
    BY <1>6

\* The recursive function in Survivors, up to n
Surviving(f, recs, gone, n) ==
  f = [i \in 0 .. n |-> IF i = 0 THEN <<>>
                        ELSE IF recs[i] \in gone THEN f[i - 1]
                        ELSE Append(f[i - 1], recs[i])]

\* It exists: were there a least n without one, the one before would extend.
LEMMA SurvivingExists ==
  ASSUME NEW recs \in Seq(Nat), NEW gone, NEW n \in Nat
  PROVE  \E f : Surviving(f, recs, gone, n)
  <1> DEFINE Missing == {m \in Nat : ~ \E f : Surviving(f, recs, gone, m)}
  <1> SUFFICES ASSUME Missing # {} PROVE FALSE
    OBVIOUS
  <1>1. PICK m \in Missing : \A l \in Missing : m <= l
    BY LeastElement
  <1>2. m # 0
    <2> SUFFICES ASSUME m = 0 PROVE \E f : Surviving(f, recs, gone, 0)
      BY <1>1
    <2> DEFINE f == [i \in 0 .. 0 |-> <<>>]
    <2>1. Surviving(f, recs, gone, 0)
      BY DEF Surviving
    <2> QED
      BY <2>1
  <1>3. m - 1 \in Nat /\ m - 1 \notin Missing
    BY <1>1, <1>2
  <1>4. PICK f : Surviving(f, recs, gone, m - 1)
    BY <1>3
  <1> DEFINE g == [i \in 0 .. m |->
                     IF i < m THEN f[i]
                     ELSE IF recs[i] \in gone THEN f[i - 1]
                     ELSE Append(f[i - 1], recs[i])]
  <1>5. \A i \in 0 .. m - 1 :
          f[i] = IF i = 0 THEN <<>>
                 ELSE IF recs[i] \in gone THEN f[i - 1]
                 ELSE Append(f[i - 1], recs[i])
    BY <1>4, Zenon DEF Surviving
  <1>6. \A i \in 0 .. m :
          g[i] = IF i = 0 THEN <<>>
                 ELSE IF recs[i] \in gone THEN g[i - 1]
                 ELSE Append(g[i - 1], recs[i])
    BY <1>1, <1>2, <1>5
  <1>7. Surviving(g, recs, gone, m)
    BY <1>6 DEF Surviving
  <1> QED
    BY <1>1, <1>7

\* s holds, in their order, those of the first n records that are not gone.
Left(s, recs, gone, n) ==
  /\ s \in Seq(Nat) /\ Len(s) <= n
  /\ \A i \in 1 .. Len(s) : \E p \in 1 .. n : s[i] = recs[p] /\ recs[p] \notin gone
  /\ \A p \in 1 .. n : recs[p] \notin gone => \E i \in 1 .. Len(s) : s[i] = recs[p]
  /\ \A i, j \in 1 .. Len(s) : i < j =>
       \E p, r \in 1 .. n : p < r /\ s[i] = recs[p] /\ s[j] = recs[r]
  /\ Len(s) = n => \A p \in 1 .. n : recs[p] \notin gone

LEMMA OneMoreLeft ==
  ASSUME NEW recs \in Seq(Nat), NEW gone, NEW s, NEW n \in 1 .. Len(recs),
         Left(s, recs, gone, n - 1)
  PROVE  Left(IF recs[n] \in gone THEN s ELSE Append(s, recs[n]), recs, gone, n)
  <1>1. /\ n \in Nat /\ n - 1 \in Nat /\ 1 .. n = 1 .. n - 1 \cup {n}
        /\ \A p \in 1 .. n - 1 : p < n
    BY DEF Left
  <1>2. s \in Seq(Nat) /\ Len(s) \in Nat /\ Len(s) <= n - 1
    BY DEF Left
  <1>3. CASE recs[n] \in gone
    <2>1. \A p \in 1 .. n : recs[p] \notin gone => p \in 1 .. n - 1
      BY <1>1, <1>3
    <2>2. s \in Seq(Nat) /\ Len(s) <= n /\ Len(s) # n
      BY <1>1, <1>2
    <2>3. \A i \in 1 .. Len(s) : \E p \in 1 .. n : s[i] = recs[p] /\ recs[p] \notin gone
      BY <1>1, Zenon DEF Left
    <2>4. \A p \in 1 .. n : recs[p] \notin gone => \E i \in 1 .. Len(s) : s[i] = recs[p]
      BY <2>1, Zenon DEF Left
    <2>5. \A i, j \in 1 .. Len(s) : i < j =>
            \E p, r \in 1 .. n : p < r /\ s[i] = recs[p] /\ s[j] = recs[r]
      <3>1. \A i, j \in 1 .. Len(s) : i < j =>
              \E p, r \in 1 .. n - 1 : p < r /\ s[i] = recs[p] /\ s[j] = recs[r]
        BY Zenon DEF Left
      <3>2. \A p \in 1 .. n - 1 : p \in 1 .. n
        BY <1>1, Zenon
      <3> QED
        BY <3>1, <3>2, Zenon
    <2>6. Left(s, recs, gone, n)
      BY <2>2, <2>3, <2>4, <2>5, Zenon DEF Left
    <2> QED
      BY <1>3, <2>6
  <1>4. CASE recs[n] \notin gone
    <2> DEFINE t == Append(s, recs[n])
    <2>1. /\ t \in Seq(Nat) /\ Len(t) = Len(s) + 1
          /\ t[Len(s) + 1] = recs[n] /\ \A i \in 1 .. Len(s) : t[i] = s[i]
      <3>1. recs[n] \in Nat
        BY <1>2
      <3> QED
        BY <1>2, <3>1, AppendProperties
    <2>2. 1 .. Len(t) = 1 .. Len(s) \cup {Len(s) + 1} /\ Len(t) <= n
      BY <1>1, <1>2, <2>1
    <2> HIDE DEF t
    <2>3. \A i \in 1 .. Len(t) : \E p \in 1 .. n : t[i] = recs[p] /\ recs[p] \notin gone
      <3> SUFFICES ASSUME NEW i \in 1 .. Len(t)
                   PROVE  \E p \in 1 .. n : t[i] = recs[p] /\ recs[p] \notin gone
        OBVIOUS
      <3>1. CASE i \in 1 .. Len(s)
        <4>1. t[i] = s[i]
          BY <2>1, <3>1
        <4>2. \E p \in 1 .. n - 1 : s[i] = recs[p] /\ recs[p] \notin gone
          BY <3>1 DEF Left
        <4> QED
          BY <1>1, <4>1, <4>2
      <3>2. CASE i = Len(s) + 1
        BY <1>1, <1>4, <2>1, <3>2
      <3> QED
        BY <2>2, <3>1, <3>2
    <2>4. \A p \in 1 .. n : recs[p] \notin gone => \E i \in 1 .. Len(t) : t[i] = recs[p]
      <3> SUFFICES ASSUME NEW p \in 1 .. n, recs[p] \notin gone
                   PROVE  \E i \in 1 .. Len(t) : t[i] = recs[p]
        OBVIOUS
      <3>1. CASE p \in 1 .. n - 1
        <4>1. PICK i \in 1 .. Len(s) : s[i] = recs[p]
          BY <3>1 DEF Left
        <4> QED
          BY <2>1, <2>2, <4>1
      <3>2. CASE p = n
        BY <1>2, <2>1, <2>2, <3>2
      <3> QED
        BY <1>1, <3>1, <3>2
    <2>5. ASSUME NEW i \in 1 .. Len(t), NEW j \in 1 .. Len(t), i < j
          PROVE  \E p, r \in 1 .. n : p < r /\ t[i] = recs[p] /\ t[j] = recs[r]
      <3>1. i \in 1 .. Len(s) /\ t[i] = s[i]
        <4>1. Len(t) \in Nat /\ i \in Nat /\ j \in Nat /\ j <= Len(s) + 1
          BY <1>2, <2>1
        <4>2. i <= Len(s) /\ 1 <= i
          BY <1>2, <2>5, <4>1
        <4>3. i \in 1 .. Len(s)
          BY <1>2, <4>1, <4>2
        <4>4. \A l \in 1 .. Len(s) : t[l] = s[l]
          BY <2>1
        <4> QED
          BY <4>3, <4>4, Zenon
      <3>2. CASE j \in 1 .. Len(s)
        <4>1. t[j] = s[j]
          BY <2>1, <3>2
        <4>2. \E p, r \in 1 .. n - 1 : p < r /\ s[i] = recs[p] /\ s[j] = recs[r]
          BY <2>5, <3>1, <3>2 DEF Left
        <4> QED
          BY <1>1, <3>1, <4>1, <4>2
      <3>3. CASE j = Len(s) + 1
        <4>1. PICK p \in 1 .. n - 1 : s[i] = recs[p]
          BY <3>1 DEF Left
        <4>2. p \in 1 .. n /\ n \in 1 .. n /\ p < n
          BY <1>1, <4>1
        <4> QED
          BY <2>1, <3>1, <3>3, <4>1, <4>2
      <3> QED
        BY <2>2, <3>2, <3>3
    <2>6. Len(t) = n => \A p \in 1 .. n : recs[p] \notin gone
      <3> SUFFICES ASSUME Len(t) = n, NEW p \in 1 .. n PROVE recs[p] \notin gone
        OBVIOUS
      <3>1. Len(s) = n - 1
        BY <1>1, <1>2, <2>1
      <3>2. \A r \in 1 .. n - 1 : recs[r] \notin gone
        BY <3>1 DEF Left
      <3> QED
        BY <1>1, <1>4, <3>2
    <2>7. Left(t, recs, gone, n)
      BY <2>1, <2>2, <2>3, <2>4, <2>5, <2>6 DEF Left
    <2> QED
      BY <1>4, <2>7 DEF t
  <1> QED
    BY <1>3, <1>4

LEMMA SurvivorsAreLeft ==
  ASSUME NEW recs \in Seq(Nat), NEW gone
  PROVE  Left(Survivors(recs, gone), recs, gone, Len(recs))
  <1> DEFINE f == CHOOSE g : Surviving(g, recs, gone, Len(recs))
  <1>1. Len(recs) \in Nat
    OBVIOUS
  <1>2. Survivors(recs, gone) = f[Len(recs)]
    BY DEF Survivors, Surviving
  <1>3. Surviving(f, recs, gone, Len(recs))
    BY <1>1, SurvivingExists, Zenon
  <1> HIDE DEF f
  <1>4. \A i \in 0 .. Len(recs) :
          f[i] = IF i = 0 THEN <<>>
                 ELSE IF recs[i] \in gone THEN f[i - 1]
                 ELSE Append(f[i - 1], recs[i])
    BY <1>3, Zenon DEF Surviving
  <1> DEFINE Wrong == {m \in 0 .. Len(recs) : ~Left(f[m], recs, gone, m)}
  <1>5. ASSUME Wrong # {} PROVE FALSE
    <2>1. PICK m \in Wrong : \A l \in Wrong : m <= l
      <3>1. Wrong \subseteq Nat
        OBVIOUS
      <3> QED
        BY <1>5, <3>1, LeastElement
    <2>2. m # 0
      <3> SUFFICES ASSUME m = 0 PROVE Left(f[0], recs, gone, 0)
        BY <2>1
      <3>1. f[0] = <<>>
        BY <1>1, <1>4
      <3> QED
        BY <3>1 DEF Left
    <2>3. m \in 1 .. Len(recs) /\ m - 1 \in 0 .. Len(recs) /\ m - 1 \notin Wrong
      BY <1>1, <2>1, <2>2
    <2>4. Left(f[m - 1], recs, gone, m - 1)
      BY <2>3
    <2>5. f[m] = IF recs[m] \in gone THEN f[m - 1] ELSE Append(f[m - 1], recs[m])
      BY <1>4, <2>1, <2>2
    <2>6. Left(f[m], recs, gone, m)
      BY <2>3, <2>4, <2>5, OneMoreLeft
    <2> QED
      BY <2>1, <2>6
  <1> QED
    BY <1>1, <1>2, <1>5

LEMMA SurvivorsAre ==
  ASSUME NEW recs \in Seq(Nat), NEW gone
  PROVE  LET s == Survivors(recs, gone) IN
         /\ s \in Seq(Nat) /\ Len(s) <= Len(recs)
         /\ IdsIn(s) = IdsIn(recs) \ gone
         /\ \A i, j \in 1 .. Len(s) : i < j =>
              \E p, r \in 1 .. Len(recs) : p < r /\ s[i] = recs[p] /\ s[j] = recs[r]
         /\ Len(s) = Len(recs) => IdsIn(recs) \cap gone = {}
  <1> DEFINE s == Survivors(recs, gone)
  <1>1. Left(s, recs, gone, Len(recs))
    BY SurvivorsAreLeft
  <1> HIDE DEF s
  <1>2. IdsIn(s) = IdsIn(recs) \ gone
    <2>1. ASSUME NEW x \in IdsIn(s) PROVE x \in IdsIn(recs) \ gone
      <3>1. PICK i \in 1 .. Len(s) : x = s[i]
        BY <2>1 DEF IdsIn
      <3>2. PICK p \in 1 .. Len(recs) : s[i] = recs[p] /\ recs[p] \notin gone
        BY <1>1, <3>1 DEF Left
      <3> QED
        BY <3>1, <3>2 DEF IdsIn
    <2>2. ASSUME NEW x \in IdsIn(recs) \ gone PROVE x \in IdsIn(s)
      <3>1. PICK p \in 1 .. Len(recs) : x = recs[p]
        BY <2>2 DEF IdsIn
      <3>2. \E i \in 1 .. Len(s) : s[i] = recs[p]
        BY <1>1, <2>2, <3>1 DEF Left
      <3> QED
        BY <3>1, <3>2 DEF IdsIn
    <2> QED
      BY <2>1, <2>2
  <1>3. Len(s) = Len(recs) => IdsIn(recs) \cap gone = {}
    BY <1>1 DEF Left, IdsIn
  <1>4. \A i, j \in 1 .. Len(s) : i < j =>
          \E p, r \in 1 .. Len(recs) : p < r /\ s[i] = recs[p] /\ s[j] = recs[r]
    BY <1>1, Zenon DEF Left
  <1>5. s \in Seq(Nat) /\ Len(s) <= Len(recs)
    BY <1>1, Zenon DEF Left
  <1> QED
    BY <1>2, <1>3, <1>4, <1>5 DEF s

LEMMA WrittenFacts ==
  ASSUME NEW recs \in Seq(Nat), NEW p \in Nat \ {0}, NEW new \in Seq(Nat)
  PROVE  LET w == Written(recs, p, new) IN
         /\ w \in Seq(Nat) /\ Len(w) \in Nat
         /\ Len(w) = IF Len(recs) < p + Len(new) THEN p + Len(new) - 1 ELSE Len(recs)
         /\ \A q \in 1 .. Len(w) :
              w[q] = IF q \in p .. p + Len(new) - 1 THEN new[q - p + 1]
                     ELSE IF q <= Len(recs) THEN recs[q] ELSE 0
  <1> DEFINE n == IF Len(recs) < p + Len(new) THEN p + Len(new) - 1 ELSE Len(recs)
             w == Written(recs, p, new)
             e(q) == IF q \in p .. p + Len(new) - 1 THEN new[q - p + 1]
                     ELSE IF q <= Len(recs) THEN recs[q] ELSE 0
  <1>1. Len(recs) \in Nat /\ Len(new) \in Nat /\ n \in Nat
    OBVIOUS
  <1>2. w = [q \in 1 .. n |-> e(q)]
    BY DEF Written
  <1>3. \A q \in 1 .. n : e(q) \in Nat
    <2> SUFFICES ASSUME NEW q \in 1 .. n PROVE e(q) \in Nat
      OBVIOUS
    <2>1. CASE q \in p .. p + Len(new) - 1
      <3>1. q - p + 1 \in 1 .. Len(new)
        BY <1>1, <2>1
      <3> QED
        BY <2>1, <3>1
    <2>2. CASE q \notin p .. p + Len(new) - 1
      BY <1>1, <2>2
    <2> QED
      BY <2>1, <2>2
  <1> HIDE DEF e, w, n
  <1>4. w \in Seq(Nat) /\ Len(w) = n /\ \A q \in 1 .. n : w[q] = e(q)
    BY <1>1, <1>2, <1>3
  <1> QED
    BY <1>1, <1>4 DEF n, w, e

\* What is written is old, new, or nothing.
LEMMA WrittenComesFrom ==
  ASSUME NEW recs \in Seq(Nat), NEW p \in Nat \ {0}, NEW new \in Seq(Nat),
         NEW q \in 1 .. Len(Written(recs, p, new))
  PROVE  LET w == Written(recs, p, new) IN
         \/ w[q] = 0
         \/ q \in 1 .. Len(recs) /\ w[q] = recs[q] /\ q \notin p .. p + Len(new) - 1
         \/ /\ q \in p .. p + Len(new) - 1
            /\ q - p + 1 \in 1 .. Len(new) /\ w[q] = new[q - p + 1]
  <1> DEFINE w == Written(recs, p, new)
  <1>1. /\ Len(w) \in Nat
        /\ w[q] = IF q \in p .. p + Len(new) - 1 THEN new[q - p + 1]
                  ELSE IF q <= Len(recs) THEN recs[q] ELSE 0
    BY WrittenFacts
  <1> HIDE DEF w
  <1>2. q \in Nat /\ q >= 1 /\ Len(recs) \in Nat /\ Len(new) \in Nat
    BY <1>1 DEF w
  <1>3. CASE q \in p .. p + Len(new) - 1
    <2>1. q - p + 1 \in 1 .. Len(new)
      BY <1>2, <1>3
    <2> QED
      BY <1>1, <1>3, <2>1 DEF w
  <1>4. CASE q \notin p .. p + Len(new) - 1
    BY <1>1, <1>2, <1>4 DEF w
  <1> QED
    BY <1>3, <1>4

\* Writing behind the last record appends.
LEMMA WrittenAtEnd ==
  ASSUME NEW recs \in Seq(Nat), NEW new \in Seq(Nat)
  PROVE  Written(recs, Len(recs) + 1, new) = recs \o new
  <1> DEFINE w == Written(recs, Len(recs) + 1, new)
  <1>1. Len(recs) + 1 \in Nat \ {0} /\ Len(recs) \in Nat /\ Len(new) \in Nat
    OBVIOUS
  <1>2. /\ w \in Seq(Nat)
        /\ Len(w) = IF Len(recs) < Len(recs) + 1 + Len(new)
                    THEN Len(recs) + 1 + Len(new) - 1 ELSE Len(recs)
        /\ \A q \in 1 .. Len(w) :
             w[q] = IF q \in Len(recs) + 1 .. Len(recs) + 1 + Len(new) - 1
                    THEN new[q - (Len(recs) + 1) + 1]
                    ELSE IF q <= Len(recs) THEN recs[q] ELSE 0
    BY <1>1, WrittenFacts
  <1> HIDE DEF w
  <1>3. Len(w) = Len(recs) + Len(new)
    BY <1>1, <1>2
  <1>4. /\ recs \o new \in Seq(Nat) /\ Len(recs \o new) = Len(recs) + Len(new)
        /\ \A q \in 1 .. Len(recs) + Len(new) :
             (recs \o new)[q] = IF q <= Len(recs) THEN recs[q] ELSE new[q - Len(recs)]
    BY <1>1
  <1>5. \A q \in 1 .. Len(w) : w[q] = (recs \o new)[q]
    <2> SUFFICES ASSUME NEW q \in 1 .. Len(w) PROVE w[q] = (recs \o new)[q]
      OBVIOUS
    <2>1. q \in Nat /\ q >= 1 /\ q <= Len(recs) + Len(new)
      BY <1>1, <1>3
    <2>2. CASE q <= Len(recs)
      <3>1. q \notin Len(recs) + 1 .. Len(recs) + 1 + Len(new) - 1
        BY <1>1, <2>1, <2>2
      <3>2. w[q] = recs[q]
        BY <1>2, <2>2, <3>1
      <3>3. (recs \o new)[q] = recs[q]
        BY <1>1, <1>4, <2>1, <2>2
      <3> QED
        BY <3>2, <3>3
    <2>3. CASE q > Len(recs)
      <3>1. /\ q \in Len(recs) + 1 .. Len(recs) + 1 + Len(new) - 1
            /\ q - (Len(recs) + 1) + 1 = q - Len(recs)
        BY <1>1, <2>1, <2>3
      <3>2. w[q] = new[q - Len(recs)]
        BY <1>2, <3>1
      <3> QED
        BY <1>1, <1>4, <2>1, <2>3, <3>2
    <2> QED
      BY <1>1, <2>1, <2>2, <2>3
  <1> QED
    BY <1>2, <1>3, <1>4, <1>5, SeqEqual DEF w

\* No record is there twice, except for what nobody wrote as one.
NoRecordTwice(recs) ==
  \A p, q \in 1 .. Len(recs) : p # q /\ recs[p] = recs[q] => recs[p] = 0

NoneShared(a, b) == IdsIn(a) \cap IdsIn(b) \subseteq {0}

LEMMA WrittenIds ==
  ASSUME NEW recs \in Seq(Nat), NEW p \in Nat \ {0}, NEW new \in Seq(Nat)
  PROVE  IdsIn(Written(recs, p, new)) \subseteq IdsIn(recs) \cup IdsIn(new) \cup {0}
  <1> SUFFICES ASSUME NEW q \in 1 .. Len(Written(recs, p, new))
               PROVE  Written(recs, p, new)[q] \in IdsIn(recs) \cup IdsIn(new) \cup {0}
    BY DEF IdsIn
  <1> QED
    BY WrittenComesFrom DEF IdsIn

LEMMA WrittenOnce ==
  ASSUME NEW recs \in Seq(Nat), NEW p \in Nat \ {0}, NEW new \in Seq(Nat),
         NoRecordTwice(recs), NoRecordTwice(new), NoneShared(recs, new)
  PROVE  NoRecordTwice(Written(recs, p, new))
  <1> DEFINE w == Written(recs, p, new)
  <1> SUFFICES ASSUME NEW q \in 1 .. Len(w), NEW r \in 1 .. Len(w),
                      q # r, w[q] = w[r], w[q] # 0
               PROVE  FALSE
    BY DEF NoRecordTwice
  <1> DEFINE Old(s) == s \in 1 .. Len(recs) /\ w[s] = recs[s]
             New(s) == s - p + 1 \in 1 .. Len(new) /\ w[s] = new[s - p + 1]
  <1>1. q \in Nat /\ r \in Nat
    <2>1. Len(w) \in Nat
      BY WrittenFacts
    <2> QED
      BY <2>1
  <1>2. (Old(q) \/ New(q)) /\ (Old(r) \/ New(r))
    BY WrittenComesFrom
  <1> HIDE DEF w
  <1>3. ~(Old(q) /\ Old(r))
    BY DEF NoRecordTwice
  <1>4. ~(New(q) /\ New(r))
    <2>1. q - p + 1 # r - p + 1
      BY <1>1
    <2> QED
      BY <2>1 DEF NoRecordTwice
  <1>5. ~(Old(q) /\ New(r)) /\ ~(New(q) /\ Old(r))
    BY DEF NoneShared, IdsIn
  <1> QED
    BY <1>2, <1>3, <1>4, <1>5

LEMMA ConcatFacts ==
  ASSUME NEW a \in Seq(Nat), NEW b \in Seq(Nat)
  PROVE  /\ a \o b \in Seq(Nat) /\ Len(a \o b) = Len(a) + Len(b)
         /\ \A q \in 1 .. Len(a) : (a \o b)[q] = a[q]
         /\ \A q \in 1 .. Len(b) : (a \o b)[Len(a) + q] = b[q]
         /\ \A q \in 1 .. Len(a \o b) :
              q \in 1 .. Len(a) \/ q - Len(a) \in 1 .. Len(b)
  OBVIOUS

LEMMA ConcatIds ==
  ASSUME NEW a \in Seq(Nat), NEW b \in Seq(Nat)
  PROVE  IdsIn(a \o b) = IdsIn(a) \cup IdsIn(b)
  <1>0. Len(a) \in Nat /\ Len(b) \in Nat
    OBVIOUS
  <1>1. /\ Len(a \o b) = Len(a) + Len(b)
        /\ \A q \in 1 .. Len(a) : (a \o b)[q] = a[q]
        /\ \A q \in 1 .. Len(b) : (a \o b)[Len(a) + q] = b[q]
        /\ \A q \in 1 .. Len(a \o b) :
             q \in 1 .. Len(a) \/ q - Len(a) \in 1 .. Len(b)
    BY ConcatFacts
  <1>2. ASSUME NEW x \in IdsIn(a \o b) PROVE x \in IdsIn(a) \cup IdsIn(b)
    <2>1. PICK q \in 1 .. Len(a \o b) : x = (a \o b)[q]
      BY <1>2 DEF IdsIn
    <2>2. CASE q \in 1 .. Len(a)
      BY <1>1, <2>1, <2>2 DEF IdsIn
    <2>3. CASE q - Len(a) \in 1 .. Len(b)
      <3>1. q = Len(a) + (q - Len(a))
        BY <1>0, <1>1, <2>1
      <3>2. x = b[q - Len(a)]
        BY <1>1, <2>1, <2>3, <3>1
      <3> QED
        BY <2>3, <3>2 DEF IdsIn
    <2> QED
      BY <1>1, <2>1, <2>2, <2>3
  <1>3. ASSUME NEW x \in IdsIn(a) PROVE x \in IdsIn(a \o b)
    <2>1. PICK q \in 1 .. Len(a) : x = a[q]
      BY <1>3 DEF IdsIn
    <2>2. q \in 1 .. Len(a \o b) /\ x = (a \o b)[q]
      BY <1>0, <1>1, <2>1
    <2> QED
      BY <2>2 DEF IdsIn
  <1>4. ASSUME NEW x \in IdsIn(b) PROVE x \in IdsIn(a \o b)
    <2>1. PICK q \in 1 .. Len(b) : x = b[q]
      BY <1>4 DEF IdsIn
    <2>2. Len(a) + q \in 1 .. Len(a \o b) /\ x = (a \o b)[Len(a) + q]
      BY <1>0, <1>1, <2>1
    <2> QED
      BY <2>2 DEF IdsIn
  <1> QED
    BY <1>2, <1>3, <1>4

LEMMA ConcatOnce ==
  ASSUME NEW a \in Seq(Nat), NEW b \in Seq(Nat),
         NoRecordTwice(a), NoRecordTwice(b), NoneShared(a, b)
  PROVE  NoRecordTwice(a \o b)
  <1>0. Len(a) \in Nat /\ Len(b) \in Nat
    OBVIOUS
  <1>1. a \o b = Written(a, Len(a) + 1, b) /\ Len(a) + 1 \in Nat \ {0}
    BY <1>0, WrittenAtEnd
  <1> QED
    BY <1>1, WrittenOnce

\* A sequence cut in two.
LEMMA CutInTwo ==
  ASSUME NEW s \in Seq(Nat), NEW n \in Nat, n <= Len(s)
  PROVE  LET a == SubSeq(s, 1, n)
             b == SubSeq(s, n + 1, Len(s)) IN
         /\ a \in Seq(Nat) /\ b \in Seq(Nat) /\ a \o b = s
         /\ Len(a) = n /\ Len(b) = Len(s) - n
         /\ \A q \in 1 .. n : a[q] = s[q]
         /\ \A q \in 1 .. Len(s) - n : b[q] = s[n + q]
  <1> DEFINE a == SubSeq(s, 1, n)
             b == SubSeq(s, n + 1, Len(s))
  <1>1. Len(s) \in Nat
    OBVIOUS
  <1>2. a \in Seq(Nat) /\ Len(a) = n /\ \A q \in 1 .. n : a[q] = s[q]
    BY <1>1
  <1>3. /\ b \in Seq(Nat) /\ Len(b) = Len(s) - n
        /\ \A q \in 1 .. Len(s) - n : b[q] = s[n + q]
    BY <1>1
  <1> HIDE DEF a, b
  <1>4. /\ a \o b \in Seq(Nat) /\ Len(a \o b) = Len(s)
        /\ \A q \in 1 .. n : (a \o b)[q] = a[q]
        /\ \A q \in 1 .. Len(b) : (a \o b)[n + q] = b[q]
    <2>1. /\ a \o b \in Seq(Nat) /\ Len(a \o b) = Len(a) + Len(b)
          /\ \A q \in 1 .. Len(a) : (a \o b)[q] = a[q]
          /\ \A q \in 1 .. Len(b) : (a \o b)[Len(a) + q] = b[q]
      BY <1>2, <1>3, ConcatFacts, Zenon
    <2>2. Len(a) = n /\ Len(b) = Len(s) - n
      BY <1>2, <1>3
    <2>3. Len(a) + Len(b) = Len(s)
      BY <1>1, <2>2
    <2> QED
      BY <2>1, <2>2, <2>3, Zenon
  <1>5. \A q \in 1 .. Len(s) : (a \o b)[q] = s[q]
    <2> SUFFICES ASSUME NEW q \in 1 .. Len(s) PROVE (a \o b)[q] = s[q]
      OBVIOUS
    <2>1. CASE q <= n
      <3>1. q \in 1 .. n
        BY <1>1, <2>1
      <3>2. (a \o b)[q] = a[q] /\ a[q] = s[q]
        BY <1>2, <1>4, <3>1, Zenon
      <3> QED
        BY <3>2
    <2>2. CASE q > n
      <3>1. q - n \in 1 .. Len(s) - n /\ n + (q - n) = q
        BY <1>1, <2>2
      <3>2. b[q - n] = s[n + (q - n)] /\ (a \o b)[n + (q - n)] = b[q - n]
        BY <1>3, <1>4, <3>1
      <3> QED
        BY <3>1, <3>2
    <2>3. q <= n \/ q > n
      BY <1>1
    <2> QED
      BY <2>1, <2>2, <2>3, Zenon
  <1>6. a \o b = s
    BY <1>4, <1>5, SeqEqual
  <1> QED
    BY <1>2, <1>3, <1>6 DEF a, b

LEMMA CutOnce ==
  ASSUME NEW s \in Seq(Nat), NEW n \in Nat, n <= Len(s), NoRecordTwice(s)
  PROVE  LET a == SubSeq(s, 1, n)
             b == SubSeq(s, n + 1, Len(s)) IN
         /\ NoRecordTwice(a) /\ NoRecordTwice(b) /\ NoneShared(a, b)
         /\ IdsIn(a) \cup IdsIn(b) = IdsIn(s)
  <1> DEFINE a == SubSeq(s, 1, n)
             b == SubSeq(s, n + 1, Len(s))
  <1>1. Len(s) \in Nat
    OBVIOUS
  <1>2. /\ a \in Seq(Nat) /\ b \in Seq(Nat) /\ a \o b = s
        /\ Len(a) = n /\ Len(b) = Len(s) - n
        /\ \A q \in 1 .. n : a[q] = s[q]
        /\ \A q \in 1 .. Len(s) - n : b[q] = s[n + q]
    BY CutInTwo
  <1> HIDE DEF a, b
  <1>3. NoRecordTwice(a)
    <2> SUFFICES ASSUME NEW p \in 1 .. Len(a), NEW q \in 1 .. Len(a), p # q, a[p] = a[q]
                 PROVE  a[p] = 0
      BY DEF NoRecordTwice
    <2>1. p \in 1 .. Len(s) /\ q \in 1 .. Len(s)
      BY <1>1, <1>2
    <2>2. a[p] = s[p] /\ a[q] = s[q]
      BY <1>2
    <2> QED
      BY <2>1, <2>2 DEF NoRecordTwice
  <1>4. NoRecordTwice(b)
    <2> SUFFICES ASSUME NEW p \in 1 .. Len(b), NEW q \in 1 .. Len(b), p # q, b[p] = b[q]
                 PROVE  b[p] = 0
      BY DEF NoRecordTwice
    <2>1. n + p \in 1 .. Len(s) /\ n + q \in 1 .. Len(s) /\ n + p # n + q
      BY <1>1, <1>2
    <2>2. s[n + p] = s[n + q] /\ b[p] = s[n + p]
      BY <1>2
    <2> QED
      BY <2>1, <2>2 DEF NoRecordTwice
  <1>5. NoneShared(a, b)
    <2> SUFFICES ASSUME NEW p \in 1 .. Len(a), NEW q \in 1 .. Len(b), a[p] = b[q]
                 PROVE  a[p] = 0
      BY DEF NoneShared, IdsIn
    <2>1. p \in 1 .. Len(s) /\ n + q \in 1 .. Len(s) /\ p # n + q
      BY <1>1, <1>2
    <2>2. s[p] = s[n + q] /\ a[p] = s[p]
      BY <1>2
    <2> QED
      BY <2>1, <2>2 DEF NoRecordTwice
  <1>6. IdsIn(a) \cup IdsIn(b) = IdsIn(s)
    BY <1>2, ConcatIds
  <1> QED
    BY <1>3, <1>4, <1>5, <1>6 DEF a, b

LEMMA SurvivorsOnce ==
  ASSUME NEW recs \in Seq(Nat), NEW gone, NoRecordTwice(recs)
  PROVE  NoRecordTwice(Survivors(recs, gone))
  <1> DEFINE s == Survivors(recs, gone)
  <1>1. /\ s \in Seq(Nat)
        /\ \A i, j \in 1 .. Len(s) : i < j =>
             \E p, r \in 1 .. Len(recs) : p < r /\ s[i] = recs[p] /\ s[j] = recs[r]
    BY SurvivorsAre
  <1> HIDE DEF s
  <1>2. ASSUME NEW i \in 1 .. Len(s), NEW j \in 1 .. Len(s), i < j, s[i] = s[j]
        PROVE  s[i] = 0
    <2>1. PICK p, r \in 1 .. Len(recs) : p < r /\ s[i] = recs[p] /\ s[j] = recs[r]
      BY <1>1, <1>2
    <2>2. p # r
      BY <2>1
    <2> QED
      BY <1>2, <2>1, <2>2 DEF NoRecordTwice
  <1>3. \A i, j \in 1 .. Len(s) : i # j => i < j \/ j < i
    BY <1>1
  <1>4. NoRecordTwice(s)
    BY <1>2, <1>3, Zenon DEF NoRecordTwice
  <1> QED
    BY <1>4 DEF s

-----------------------------------------------------------------------------
(* Types                                                                   *)

\* While a job copies or appends it has its ".temp" open, and writes behind the
\* header; the FILE is open while records are copied from it.
TypeInv ==
  /\ TypeOK
  /\ \A c \in Calls :
       /\ pc[c] = "scan" => own # None /\ file # None /\ out # 0
       /\ pc[c] = "append" => own # None /\ out # 0

LEMMA OneJob ==
  ASSUME SchedInv, NEW c \in Calls, NEW from, OnWorker(c, from),
         NEW d \in Calls, pc[d] \in JobPlaces
  PROVE  d = c
  BY Zenon DEF SchedInv, JobAtHead, OnWorker

LEMMA TempWritten ==
  ASSUME TypeInv, NEW img \in Image, WriteTemp(img)
  PROVE  /\ temp' \in Inodes /\ temp' # None /\ main' = main
         /\ store' \in [Inodes -> Image] /\ store'[temp'] = img
         /\ \A i \in Inodes : i # temp' => store'[i] = store[i]
         /\ temp # None => temp' = temp
         /\ temp = None => temp' \notin {main, file, own}
  <1>1. \E i \in Inodes : i \notin {main, temp, file, own}
    BY DEF Inodes
  <1>2. Fresh \in Inodes /\ Fresh \notin {main, temp, file, own}
    BY <1>1 DEF Fresh
  <1>3. store \in [Inodes -> Image] /\ temp \in Inodes \cup {None} /\ \A i \in Inodes : i # None
    BY DEF TypeInv, TypeOK, Inodes, None
  <1> QED
    BY <1>2, <1>3 DEF WriteTemp

LEMMA LoopTyped ==
  ASSUME TypeInv, SchedInv, SchedInv', asked' = asked, NEW c \in Calls, Loop(c)
  PROVE  TypeInv'
  <1>0. /\ pc \in [Calls -> Places] /\ main \in Inodes
        /\ ready' \in Seq(Calls) /\ queue' \in Seq(Calls) /\ pc' \in [Calls -> Places]
        /\ asked' \in [Calls -> Requests]
    BY DEF TypeInv, TypeOK, SchedInv, SchedType
  <1>1. /\ UNCHANGED <<rows, seq, mixed, count, own, hdr, k, out, held>>
        /\ alive' \in BOOLEAN
    BY DEF Loop, Begin, StopAtStats, GoOnWithJob, WriteHeader, Replace, Relink, Clean,
       Perish, sqlite, given, local, TypeInv, TypeOK
  <1>2. \A d \in Calls : pc'[d] \in {"scan", "append"} => pc'[d] = pc[d]
    BY <1>0 DEF Loop, Begin, StopAtStats, GoOnWithJob, WriteHeader, Replace, Relink,
       Clean, Perish, Submit, GoTo
  <1>3. \/ file' = file /\ at' = at /\ skewed' = skewed
        \/ file' = main /\ at' = 0 /\ skewed' = TRUE
    <2>1. CASE Relink(c)
      BY <2>1 DEF Relink, OpenMain, Perish, conn
    <2>2. CASE ~Relink(c)
      BY <2>2 DEF Loop, Begin, StopAtStats, GoOnWithJob, WriteHeader, Replace, Clean,
         conn
    <2> QED
      BY <2>1, <2>2
  <1>4. /\ file' \in Inodes \cup {None} /\ at' \in Nat /\ skewed' \in BOOLEAN
        /\ file # None => file' # None
    <2>1. file \in Inodes \cup {None} /\ at \in Nat /\ skewed \in BOOLEAN
      BY DEF TypeInv, TypeOK
    <2>2. skewed' \in BOOLEAN
      BY <1>3, <2>1, Zenon
    <2>3. (file' = file \/ file' = main) /\ (at' = at \/ at' = 0)
      BY <1>3, Zenon
    <2> QED
      BY <1>0, <2>1, <2>2, <2>3 DEF Inodes, None
  <1>5. /\ store' \in [Inodes -> Image]
        /\ main' \in Inodes /\ temp' \in Inodes \cup {None}
    <2>1. CASE WriteHeader(c)
      <3> DEFINE img == [count |-> count[c], recs |-> <<>>]
      <3>1. img \in Image
        BY DEF TypeInv, TypeOK, Image
      <3>2. WriteTemp(img)
        BY <2>1 DEF WriteHeader
      <3> HIDE DEF img
      <3> QED
        BY <1>0, <3>1, <3>2, TempWritten
    <2>2. CASE ~WriteHeader(c)
      <3>1. /\ store' = store
            /\ \/ main' = main
               \/ main' = temp /\ temp # None
            /\ temp' = temp \/ temp' = None
        BY <2>2 DEF Loop, Begin, StopAtStats, GoOnWithJob, Replace, Relink, Clean,
           Perish, disk
      <3> QED
        BY <1>0, <3>1 DEF TypeInv, TypeOK
    <2> QED
      BY <2>1, <2>2
  <1>6. answer' \in [Calls -> Int]
    BY DEF Loop, Begin, StopAtStats, GoOnWithJob, WriteHeader, Replace, Relink, Clean,
       Perish, Answer, TypeInv, TypeOK
  <1>7. \A d \in Calls : pc'[d] = "scan" => k' <= hdr'
    BY <1>1, <1>2 DEF TypeInv, TypeOK
  <1>8. TypeOK'
    BY <1>0, <1>1, <1>4, <1>5, <1>6, <1>7 DEF TypeInv, TypeOK
  <1> QED
    BY <1>1, <1>2, <1>4, <1>8 DEF TypeInv

\* A step of the worker that moves nothing but the FILE's position, or opens it.
LEMMA WorkerOnFileTyped ==
  ASSUME TypeInv, SchedInv, SchedInv', asked' = asked, NEW c \in Calls,
         \/ Stats(c) \/ Reopen(c) \/ Change(c) \/ ChangeNothing(c)
         \/ ReadRecords(c) \/ ReadNull(c) \/ DeleteNothing(c) \/ Unlink(c) \/ Rename(c)
  PROVE  TypeInv'
  <1>0. /\ pc \in [Calls -> Places] /\ main \in Inodes /\ store \in [Inodes -> Image]
        /\ ready' \in Seq(Calls) /\ queue' \in Seq(Calls) /\ pc' \in [Calls -> Places]
        /\ asked' \in [Calls -> Requests]
    BY DEF TypeInv, TypeOK, SchedInv, SchedType
  <1>1. /\ UNCHANGED <<store, rows, seq, mixed, own, hdr, k, out, held>>
        /\ \/ main' = main
           \/ main' = temp /\ temp # None
        /\ temp' = temp \/ temp' = None
        /\ alive' \in BOOLEAN
    BY DEF Stats, Reopen, Change, ChangeNothing, ReadRecords, ReadNull, DeleteNothing,
       Unlink, Rename, Perish, disk, sqlite, given, local, TypeInv, TypeOK
  <1>2. \A d \in Calls : pc'[d] \in {"scan", "append"} => pc'[d] = pc[d]
    BY <1>0 DEF Stats, Reopen, Change, ChangeNothing, ReadRecords, ReadNull,
       DeleteNothing, Unlink, Rename, Perish, GoTo, HandBack, Complete, AfterJob
  <1>3. file # None => file \in Inodes /\ Len(store[file].recs) \in Nat /\ store[file].count \in Nat
    BY DEF TypeInv, TypeOK, Image
  <1>4. /\ file' = file \/ file' = main
        /\ at' \in Nat /\ skewed' \in BOOLEAN /\ count' \in [Calls -> Nat]
    <2>0. at \in Nat /\ count \in [Calls -> Nat]
      BY DEF TypeInv, TypeOK
    <2>1. file' = file \/ file' = main
      BY DEF Stats, Reopen, Change, ChangeNothing, ReadRecords, ReadNull,
         DeleteNothing, Unlink, Rename, Perish, OpenMain, conn
    <2>2. at' \in Nat
      BY <1>3, <2>0 DEF Stats, Reopen, Change, ChangeNothing, ReadRecords, ReadNull,
         DeleteNothing, Unlink, Rename, Perish, OpenMain, conn
    <2>3. count' \in [Calls -> Nat]
      BY <1>3, <2>0 DEF Stats, Reopen, Change, ChangeNothing, ReadRecords, ReadNull,
         DeleteNothing, Unlink, Rename, Perish
    <2>4. skewed' = skewed \/ skewed' = TRUE \/ skewed' = FALSE
      BY Zenon DEF Stats, Reopen, Change, ChangeNothing, ReadRecords, ReadNull,
         DeleteNothing, Unlink, Rename, Perish, OpenMain, conn
    <2>5. skewed \in BOOLEAN
      BY DEF TypeInv, TypeOK
    <2>6. skewed' \in BOOLEAN
      BY <2>4, <2>5, Zenon
    <2> QED
      BY <2>1, <2>2, <2>3, <2>6
  <1>5. answer' \in [Calls -> Int]
    <2>1. CASE Change(c)
      <3>1. Ids(c) \subseteq InFile(Ids(c)) /\ file # None
        BY <2>1 DEF Change
      <3>2. IsFiniteSet(Ids(c))
        <4> DEFINE n == Len(store[file].recs)
                   f == [p \in 1 .. n |-> store[file].recs[p]]
                   T == {store[file].recs[p] : p \in 1 .. n}
        <4>1. n \in Nat /\ IsFiniteSet(1 .. n)
          BY <1>3, <3>1, FS_Interval
        <4>2. f \in Surjection(1 .. n, T)
          BY DEF Surjection
        <4>3. IsFiniteSet(T)
          BY <4>1, <4>2, FS_Surjection
        <4> QED
          BY <3>1, <4>3, FS_Subset DEF InFile
      <3>3. Cardinality(Ids(c)) \in Int
        BY <3>2, FS_CardinalityType
      <3> QED
        BY <2>1, <3>3 DEF Change, Answer, TypeInv, TypeOK
    <2>2. CASE ~Change(c)
      BY <2>2 DEF Stats, Reopen, ChangeNothing, ReadRecords, ReadNull, DeleteNothing,
         Unlink, Rename, Perish, Answer, TypeInv, TypeOK
    <2> QED
      BY <2>1, <2>2
  <1>6. \A d \in Calls : pc'[d] = "scan" => k' <= hdr'
    BY <1>1, <1>2 DEF TypeInv, TypeOK
  <1>7. TypeOK'
    BY <1>0, <1>1, <1>4, <1>5, <1>6 DEF TypeInv, TypeOK
  <1>8. file # None => file' # None
    BY <1>0, <1>4 DEF Inodes, None
  <1> QED
    BY <1>1, <1>2, <1>7, <1>8 DEF TypeInv

\* One chunk of the copying loop: its length, what is read and what is kept.
ChunkLen == Smaller(BufferSize, hdr - k)
Full == at + ChunkLen <= Len(store[file].recs)
Got == IF ~Full THEN <<>>
       ELSE [j \in 1 .. ChunkLen |-> IF skewed THEN 0 ELSE store[file].recs[at + j]]
Keep(c) == held \o Survivors(Got, Doomed(c))

LEMMA RecsTyped ==
  ASSUME TypeInv, NEW i \in Inodes
  PROVE  /\ store[i] \in Image /\ store[i].recs \in Seq(Nat) /\ store[i].count \in Nat
         /\ store[i] = [count |-> store[i].count, recs |-> store[i].recs]
         /\ Len(store[i].recs) \in Nat
         /\ \A p \in 1 .. Len(store[i].recs) : store[i].recs[p] \in Nat
  <1>1. store[i] \in Image
    BY DEF TypeInv, TypeOK
  <1>2. store[i].recs \in Seq(Nat) /\ store[i].count \in Nat
    BY <1>1 DEF Image
  <1> QED
    BY <1>1, <1>2 DEF Image

\* What a scan has before it: a chunk of the records, or bytes that are none.
LEMMA ChunkRead ==
  ASSUME TypeInv, NEW c \in Calls, ScanChunk(c)
  PROVE  /\ own \in Inodes /\ file \in Inodes /\ out \in Nat \ {0}
         /\ ChunkLen \in Nat \ {0} /\ k + ChunkLen <= hdr
         /\ Got \in Seq(Nat)
         /\ Len(Got) = IF Full THEN ChunkLen ELSE 0
         /\ \A j \in 1 .. Len(Got) :
              Got[j] = IF skewed THEN 0 ELSE store[file].recs[at + j]
         /\ \A j \in 1 .. Len(Got) : at + j \in 1 .. Len(store[file].recs)
         /\ Keep(c) \in Seq(Nat) /\ Survivors(Got, Doomed(c)) \in Seq(Nat)
  <1>1. OnWorker(c, "scan") /\ k < hdr
    BY DEF ScanChunk
  <1>2. own \in Inodes /\ file \in Inodes /\ out \in Nat \ {0}
    BY <1>1 DEF OnWorker, TypeInv, TypeOK
  <1>3. BufferSize \in Nat \ {0} /\ hdr \in Nat /\ k \in Nat /\ at \in Nat /\ held \in Seq(Nat)
    BY ClientAssumption DEF TypeInv, TypeOK
  <1>4. ChunkLen \in Nat \ {0} /\ k + ChunkLen <= hdr
    BY <1>1, <1>3 DEF ChunkLen, Smaller
  <1>5. /\ store[file].recs \in Seq(Nat) /\ Len(store[file].recs) \in Nat
        /\ \A p \in 1 .. Len(store[file].recs) : store[file].recs[p] \in Nat
    BY <1>2, RecsTyped
  <1>6. /\ Got \in Seq(Nat)
        /\ Len(Got) = IF Full THEN ChunkLen ELSE 0
        /\ \A j \in 1 .. Len(Got) :
             Got[j] = IF skewed THEN 0 ELSE store[file].recs[at + j]
        /\ \A j \in 1 .. Len(Got) : at + j \in 1 .. Len(store[file].recs)
    <2>1. CASE Full
      <3>1. \A j \in 1 .. ChunkLen : at + j \in 1 .. Len(store[file].recs)
        BY <1>3, <1>4, <1>5, <2>1 DEF Full
      <3> DEFINE e(j) == IF skewed THEN 0 ELSE store[file].recs[at + j]
      <3>2. \A j \in 1 .. ChunkLen : e(j) \in Nat
        BY <1>5, <3>1
      <3>3. Got = [j \in 1 .. ChunkLen |-> e(j)]
        BY <2>1 DEF Got
      <3> HIDE DEF e
      <3>4. /\ Got \in Seq(Nat) /\ Len(Got) = ChunkLen
            /\ \A j \in 1 .. ChunkLen : Got[j] = e(j)
        BY <1>4, <3>2, <3>3
      <3> QED
        BY <2>1, <3>1, <3>4 DEF e
    <2>2. CASE ~Full
      <3>1. Got = <<>>
        BY <2>2 DEF Got
      <3> QED
        BY <2>2, <3>1
    <2> QED
      BY <2>1, <2>2
  <1>7. Survivors(Got, Doomed(c)) \in Seq(Nat)
    BY <1>6, SurvivorsAre
  <1>8. Keep(c) \in Seq(Nat)
    BY <1>3, <1>7, ConcatFacts DEF Keep
  <1> QED
    BY <1>2, <1>4, <1>6, <1>7, <1>8

\* What becomes of it.
LEMMA ChunkKept ==
  ASSUME TypeInv, NEW c \in Calls, ScanChunk(c)
  PROVE  /\ at' = (IF Full THEN at + ChunkLen ELSE Len(store[file].recs))
         /\ k' = k + ChunkLen
         /\ UNCHANGED <<main, temp, file, skewed, rows, seq, ready, queue, asked, mixed,
                        pc, count, answer, own, hdr, alive>>
         /\ store' \in [Inodes -> Image] /\ held' \in Seq(Nat) /\ out' \in Nat \ {0}
         /\ \A i \in Inodes : i # own => store'[i] = store[i]
         /\ \/ /\ BufferSize \in Nat \ {0} /\ BufferSize <= Len(Keep(c))
               /\ store'[own].recs =
                    Written(store[own].recs, out, SubSeq(Keep(c), 1, BufferSize))
               /\ out' = out + BufferSize
               /\ held' = SubSeq(Keep(c), BufferSize + 1, Len(Keep(c)))
            \/ /\ store'[own] = store[own] /\ out' = out /\ held' = Keep(c)
               /\ Len(Keep(c)) < BufferSize
  <1>1. /\ at' = (IF Full THEN at + ChunkLen ELSE Len(store[file].recs))
        /\ k' = k + ChunkLen
        /\ IF Len(Keep(c)) >= BufferSize
           THEN /\ store' = [store EXCEPT ![own].recs =
                     Written(@, out, SubSeq(Keep(c), 1, BufferSize))]
                /\ out' = out + BufferSize
                /\ held' = SubSeq(Keep(c), BufferSize + 1, Len(Keep(c)))
           ELSE held' = Keep(c) /\ UNCHANGED <<store, out>>
    BY Zenon DEF ScanChunk, ChunkLen, Full, Got, Keep
  <1>2. UNCHANGED <<main, temp, file, skewed, rows, seq, ready, queue, asked, mixed,
                    pc, count, answer, own, hdr, alive>>
    BY Zenon DEF ScanChunk, sqlite, sched, given
  <1>3. /\ own \in Inodes /\ out \in Nat \ {0} /\ Keep(c) \in Seq(Nat)
        /\ BufferSize \in Nat \ {0} /\ store \in [Inodes -> Image]
        /\ Len(Keep(c)) \in Nat
    BY ClientAssumption, ChunkRead DEF TypeInv, TypeOK
  <1>4. store[own].recs \in Seq(Nat) /\ store[own].count \in Nat
    BY <1>3, RecsTyped
  <1>5. CASE Len(Keep(c)) >= BufferSize
    <2> DEFINE w == Written(store[own].recs, out, SubSeq(Keep(c), 1, BufferSize))
    <2>1. /\ SubSeq(Keep(c), 1, BufferSize) \in Seq(Nat)
          /\ SubSeq(Keep(c), BufferSize + 1, Len(Keep(c))) \in Seq(Nat)
      BY <1>3, <1>5, CutInTwo
    <2>2. w \in Seq(Nat)
      BY <1>3, <1>4, <2>1, WrittenFacts
    <2>3. store' = [store EXCEPT ![own] = [@ EXCEPT !.recs = w]]
      BY <1>1, <1>5
    <2> HIDE DEF w
    <2>4. [store[own] EXCEPT !.recs = w] = [count |-> store[own].count, recs |-> w]
      BY <1>3 DEF Image
    <2>5. store' \in [Inodes -> Image] /\ store'[own].recs = w
          /\ \A i \in Inodes : i # own => store'[i] = store[i]
      BY <1>3, <1>4, <2>2, <2>3, <2>4 DEF Image
    <2>6. held' \in Seq(Nat) /\ out' \in Nat \ {0}
      <3>1. /\ held' = SubSeq(Keep(c), BufferSize + 1, Len(Keep(c)))
            /\ out' = out + BufferSize
        BY <1>1, <1>5
      <3>2. out' \in Nat \ {0}
        BY <1>3, <3>1
      <3> QED
        BY <2>1, <3>1, <3>2
    <2>7. /\ BufferSize \in Nat \ {0} /\ BufferSize <= Len(Keep(c))
          /\ store'[own].recs =
               Written(store[own].recs, out, SubSeq(Keep(c), 1, BufferSize))
          /\ out' = out + BufferSize
          /\ held' = SubSeq(Keep(c), BufferSize + 1, Len(Keep(c)))
      BY <1>1, <1>3, <1>5, <2>5 DEF w
    <2> QED
      BY <1>1, <1>2, <2>5, <2>6, <2>7, Zenon
  <1>6. CASE ~(Len(Keep(c)) >= BufferSize)
    BY <1>1, <1>2, <1>3, <1>6
  <1> QED
    BY <1>5, <1>6

LEMMA WorkerOnCopyTyped ==
  ASSUME TypeInv, SchedInv, SchedInv', asked' = asked, NEW c \in Calls,
         \/ Copy(c) \/ InsertRow(c) \/ AppendRecord(c) \/ OpenTemp(c) \/ ScanChunk(c)
         \/ Seal(c)
  PROVE  TypeInv'
  <1>0. /\ pc \in [Calls -> Places] /\ main \in Inodes /\ store \in [Inodes -> Image]
        /\ ready' \in Seq(Calls) /\ queue' \in Seq(Calls) /\ pc' \in [Calls -> Places]
        /\ asked' \in [Calls -> Requests]
    BY DEF TypeInv, TypeOK, SchedInv, SchedType
  <1>1. /\ mixed' \in BOOLEAN /\ alive' \in BOOLEAN /\ count' \in [Calls -> Nat]
        /\ skewed' \in BOOLEAN
    <2>1. /\ mixed' = mixed /\ alive' = alive /\ count' = count /\ skewed' = skewed
      BY Zenon DEF Copy, InsertRow, AppendRecord, OpenTemp, ScanChunk, Seal, given, conn
    <2>2. mixed \in BOOLEAN /\ alive \in BOOLEAN /\ skewed \in BOOLEAN
      BY DEF TypeInv, TypeOK
    <2>3. mixed' \in BOOLEAN /\ alive' \in BOOLEAN /\ skewed' \in BOOLEAN
      BY <2>1, <2>2, Zenon
    <2> QED
      BY <2>1, <2>3 DEF TypeInv, TypeOK
  <1>j. ASSUME NEW from, OnWorker(c, from), NEW d \in Calls, pc[d] \in {"scan", "append"}
        PROVE  d = c
    BY <1>j, OneJob DEF JobPlaces
  <1>2. CASE Copy(c)
    <2>1. store[main] \in Image
      BY <1>0
    <2>2. /\ store' \in [Inodes -> Image] /\ main' \in Inodes /\ temp' \in Inodes
      BY <1>0, <1>2, <2>1, TempWritten DEF Copy
    <2>3. /\ UNCHANGED <<file, at, rows, seq, answer, own, hdr, k, out, held>>
          /\ pc' = [pc EXCEPT ![c] = "insert"]
      BY <1>2 DEF Copy, GoTo, conn, sqlite, local
    <2>4. \A d \in Calls : pc'[d] \in {"scan", "append"} => pc'[d] = pc[d]
      BY <1>0, <2>3
    <2> QED
      BY <1>0, <1>1, <2>2, <2>3, <2>4 DEF TypeInv, TypeOK
  <1>3. CASE InsertRow(c)
    <2>0. OnWorker(c, "insert") /\ pc[c] = "insert"
      BY <1>3 DEF InsertRow, OnWorker
    <2>1. CASE temp = None
      <3>1. /\ UNCHANGED <<store, main, temp, file, at, rows, seq, own, hdr, k, out, held>>
            /\ pc' = [pc EXCEPT ![c] = "unlink"] /\ answer' \in [Calls -> Int]
        BY <1>3, <2>1 DEF InsertRow, GoTo, Answer, disk, conn, sqlite, local, TypeInv, TypeOK
      <3>2. \A d \in Calls : pc'[d] \in {"scan", "append"} => pc'[d] = pc[d]
        BY <1>0, <3>1
      <3> QED
        BY <1>0, <1>1, <3>1, <3>2 DEF TypeInv, TypeOK
    <2>2. CASE temp # None
      <3>1. /\ UNCHANGED <<store, main, temp, at, answer, k, held>>
            /\ own' = temp /\ hdr' = store[temp].count /\ out' = Len(store[temp].recs) + 1
            /\ file' = None /\ seq' = seq + 1 /\ rows' = rows \cup {seq + 1}
            /\ pc' = [pc EXCEPT ![c] = "append"]
        BY <1>3, <2>2 DEF InsertRow, GoTo, NextRowId, disk, conn
      <3>2. temp \in Inodes
        BY <2>2 DEF TypeInv, TypeOK
      <3>3. hdr' \in Nat /\ out' \in Nat /\ out' # 0
        <4>1. store[temp].count \in Nat /\ Len(store[temp].recs) \in Nat
          BY <3>2, RecsTyped
        <4> QED
          BY <3>1, <4>1
      <3>4. /\ rows' \subseteq Nat /\ seq' \in Nat /\ \A i \in rows' : i <= seq'
        BY <3>1 DEF TypeInv, TypeOK
      <3>5. \A d \in Calls : pc'[d] # "scan"
        BY <1>0, <1>j, <2>0, <3>1
      <3> QED
        BY <1>0, <1>1, <2>2, <3>1, <3>2, <3>3, <3>4, <3>5 DEF TypeInv, TypeOK
    <2> QED
      BY <2>1, <2>2
  <1>4. CASE AppendRecord(c)
    <2>0. OnWorker(c, "append") /\ pc[c] = "append"
      BY <1>4 DEF AppendRecord, OnWorker
    <2>1. /\ UNCHANGED <<main, temp, file, at, rows, seq, hdr, k, out, held>>
          /\ store' = [store EXCEPT ![own] =
               [count |-> hdr + 1, recs |-> Written(store[own].recs, out, <<seq>>)]]
          /\ own' = None /\ answer' \in [Calls -> Int]
          /\ pc' = [pc EXCEPT ![c] = "rename"]
      BY <1>4 DEF AppendRecord, GoTo, Answer, conn, sqlite, TypeInv, TypeOK
    <2>2. own \in Inodes /\ out \in Nat \ {0} /\ hdr \in Nat /\ <<seq>> \in Seq(Nat)
      BY <2>0 DEF TypeInv, TypeOK
    <2>3. Written(store[own].recs, out, <<seq>>) \in Seq(Nat)
      BY <2>2, RecsTyped, WrittenFacts
    <2>4. [count |-> hdr + 1, recs |-> Written(store[own].recs, out, <<seq>>)] \in Image
      BY <2>2, <2>3 DEF Image
    <2>5. store' \in [Inodes -> Image]
      BY <1>0, <2>1, <2>4
    <2>6. \A d \in Calls : pc'[d] \notin {"scan", "append"}
      BY <1>0, <1>j, <2>0, <2>1
    <2> QED
      BY <1>0, <1>1, <2>1, <2>5, <2>6 DEF TypeInv, TypeOK
  <1>5. CASE OpenTemp(c)
    <2>0. OnWorker(c, "open") /\ pc[c] = "open" /\ file # None /\ temp # None
      BY <1>5 DEF OpenTemp, OnWorker
    <2>1. /\ UNCHANGED <<store, main, temp, file, at, rows, seq, answer>>
          /\ own' = temp /\ hdr' = store[temp].count /\ k' = 0 /\ out' = 1 /\ held' = <<>>
          /\ pc' = [pc EXCEPT ![c] = "scan"]
      BY <1>5 DEF OpenTemp, GoTo, disk, conn, sqlite
    <2>2. temp \in Inodes /\ hdr' \in Nat
      BY <2>0, <2>1, RecsTyped DEF TypeInv, TypeOK
    <2>3. \A d \in Calls : pc'[d] # "append"
      BY <1>0, <1>j, <2>0, <2>1
    <2>4. held' \in Seq(Nat)
      BY <2>1
    <2> QED
      BY <1>0, <1>1, <2>0, <2>1, <2>2, <2>3, <2>4 DEF TypeInv, TypeOK
  <1>6. CASE ScanChunk(c)
    <2>1. OnWorker(c, "scan") /\ pc[c] = "scan"
      BY <1>6 DEF ScanChunk, OnWorker
    <2>2. /\ UNCHANGED <<main, temp, file, rows, seq, answer, own, hdr, pc>>
          /\ store' \in [Inodes -> Image] /\ held' \in Seq(Nat) /\ out' \in Nat \ {0}
          /\ k' = k + ChunkLen
          /\ at' = (IF Full THEN at + ChunkLen ELSE Len(store[file].recs))
      BY <1>6, ChunkKept
    <2>3. /\ file \in Inodes /\ ChunkLen \in Nat \ {0} /\ k + ChunkLen <= hdr
          /\ Len(store[file].recs) \in Nat
      BY <1>6, ChunkRead, RecsTyped
    <2>4. k' \in Nat /\ at' \in Nat /\ k' <= hdr'
      BY <2>2, <2>3 DEF TypeInv, TypeOK
    <2> QED
      BY <1>0, <1>1, <2>1, <2>2, <2>4 DEF TypeInv, TypeOK
  <1>7. CASE Seal(c)
    <2>0. OnWorker(c, "scan") /\ pc[c] = "scan"
      BY <1>7 DEF Seal, OnWorker
    <2>1. /\ UNCHANGED <<main, temp, at, seq, hdr, k, out, held>>
          /\ store' = [store EXCEPT ![own] =
               [count |-> Preserved, recs |-> Written(@.recs, out, held)]]
          /\ file' = None /\ own' = None /\ rows' \subseteq rows
          /\ answer' = [answer EXCEPT ![c] = hdr - Preserved]
          /\ AfterJob(c, hdr - Preserved)
      BY <1>7 DEF Seal, Answer
    <2>2. /\ own \in Inodes /\ out \in Nat \ {0} /\ hdr \in Nat /\ held \in Seq(Nat)
          /\ Len(held) \in Nat
      BY <2>0 DEF TypeInv, TypeOK
    <2>3. Preserved \in Nat
      BY <2>2 DEF Preserved
    <2>4. Written(store[own].recs, out, held) \in Seq(Nat)
      BY <2>2, RecsTyped, WrittenFacts
    <2>5. [count |-> Preserved, recs |-> Written(store[own].recs, out, held)] \in Image
      BY <2>3, <2>4 DEF Image
    <2>6. store' \in [Inodes -> Image]
      BY <1>0, <2>1, <2>5
    <2>7. \A d \in Calls : pc'[d] \notin {"scan", "append"}
      BY <1>0, <1>j, <2>0, <2>1 DEF AfterJob, HandBack
    <2>8. answer' \in [Calls -> Int]
      BY <2>1, <2>2, <2>3 DEF TypeInv, TypeOK
    <2>9. rows' \subseteq Nat /\ \A i \in rows' : i <= seq'
      BY <2>1 DEF TypeInv, TypeOK
    <2> QED
      BY <1>0, <1>1, <2>1, <2>6, <2>7, <2>8, <2>9 DEF TypeInv, TypeOK
  <1> QED
    BY <1>2, <1>3, <1>4, <1>5, <1>6, <1>7

LEMMA TypePreserved ==
  ASSUME TypeInv, SchedInv, [Next]_vars
  PROVE  TypeInv'
  <1>1. SchedInv' /\ asked' = asked
    BY SchedPreserved, AskedKept
  <1>2. CASE UNCHANGED vars
    BY <1>2 DEF vars, disk, conn, sqlite, sched, given, local, TypeInv, TypeOK
  <1>3. ASSUME NEW c \in Calls, Call(c)
        PROVE  TypeInv'
    <2>1. /\ UNCHANGED <<store, main, temp, file, at, skewed, rows, seq, count, answer,
                         own, hdr, k, out, held, alive>>
      BY <1>3 DEF Call, disk, conn, sqlite, local
    <2>2. mixed' \in BOOLEAN
      BY <1>3 DEF Call
    <2>3. \A d \in Calls : pc'[d] \in {"scan", "append"} => pc'[d] = pc[d]
      BY <1>3 DEF Call, TypeInv, TypeOK
    <2>4. ready' \in Seq(Calls) /\ queue' \in Seq(Calls) /\ pc' \in [Calls -> Places]
      BY <1>1 DEF SchedInv, SchedType
    <2> QED
      BY <1>1, <2>1, <2>2, <2>3, <2>4 DEF TypeInv, TypeOK
  <1> QED
    BY <1>1, <1>2, <1>3, LoopTyped, WorkerOnFileTyped, WorkerOnCopyTyped DEF Next, Worker

LEMMA InitTyped == Init => TypeInv
  <1> SUFFICES ASSUME Init PROVE TypeInv
    OBVIOUS
  <1>1. ready \in Seq(Calls) /\ queue \in Seq(Calls) /\ pc \in [Calls -> Places]
    BY Initially DEF SchedInv, SchedType
  <1>2. Stored \in Nat
    BY ClientAssumption
  <1>3. [p \in 1 .. Stored |-> p] \in Seq(Nat)
    BY <1>2
  <1>4. store \in [Inodes -> Image]
    BY <1>2, <1>3 DEF Init, Image
  <1>5. /\ main \in Inodes /\ {temp, file, own} \subseteq Inodes \cup {None}
        /\ at \in Nat /\ hdr \in Nat /\ k \in Nat /\ out \in Nat /\ held \in Seq(Nat)
    BY DEF Init, Inodes, None
  <1>6. rows \subseteq Nat /\ seq \in Nat /\ \A i \in rows : i <= seq
    BY <1>2 DEF Init
  <1>7. asked \in [Calls -> Requests] /\ count \in [Calls -> Nat] /\ answer \in [Calls -> Int]
    BY DEF Init
  <1>8. skewed \in BOOLEAN /\ alive \in BOOLEAN /\ mixed \in BOOLEAN
    BY DEF Init
  <1>9. \A c \in Calls : pc[c] \notin {"scan", "append"}
    BY DEF Init
  <1> QED
    BY <1>1, <1>4, <1>5, <1>6, <1>7, <1>8, <1>9 DEF TypeInv, TypeOK

-----------------------------------------------------------------------------
(* No record is above the sequence                                         *)

UpTo(recs, n) == \A x \in IdsIn(recs) : x <= n

\* No file holds a record that was not given, and the row of the one about to be
\* appended is above all of them.
Numbered ==
  /\ \A i \in Inodes : UpTo(store[i].recs, seq)
  /\ UpTo(held, seq)
  /\ \A c \in Calls : pc[c] = "append" =>
       \A i \in Inodes : UpTo(store[i].recs, seq - 1)

LEMMA NumberedKept ==
  ASSUME Numbered, seq' = seq, held' = held,
         \A i \in Inodes : store'[i].recs = store[i].recs \/ store'[i].recs = <<>>
                             \/ \E j \in Inodes : store'[i].recs = store[j].recs,
         \A d \in Calls : pc'[d] = "append" => pc[d] = "append"
  PROVE  Numbered'
  <1>1. \A n : UpTo(<<>>, n)
    BY DEF UpTo, IdsIn
  <1>2. \A i \in Inodes : UpTo(store'[i].recs, seq)
    BY <1>1 DEF Numbered
  <1>3. ASSUME NEW c \in Calls, pc'[c] = "append", NEW i \in Inodes
        PROVE  UpTo(store'[i].recs, seq - 1)
    BY <1>1, <1>3 DEF Numbered
  <1> QED
    BY <1>2, <1>3 DEF Numbered

LEMMA NumberedPreserved ==
  ASSUME TypeInv, SchedInv, Numbered, [Next]_vars
  PROVE  Numbered'
  <1>0. /\ pc \in [Calls -> Places] /\ seq \in Nat /\ held \in Seq(Nat)
        /\ main \in Inodes /\ store \in [Inodes -> Image]
    BY DEF TypeInv, TypeOK
  <1>1. CASE UNCHANGED vars
    BY <1>1, NumberedKept DEF vars, disk, sqlite, local
  <1>2. ASSUME NEW c \in Calls, Call(c)
        PROVE  Numbered'
    <2>1. /\ UNCHANGED <<store, seq, held>>
          /\ \A d \in Calls : pc'[d] = "append" => pc[d] = "append"
      BY <1>0, <1>2 DEF Call, disk, sqlite, local
    <2> QED
      BY <2>1, NumberedKept
  <1>3. ASSUME NEW c \in Calls, Loop(c)
        PROVE  Numbered'
    <2>1. /\ UNCHANGED <<seq, held>>
          /\ \A d \in Calls : pc'[d] = "append" => pc[d] = "append"
      BY <1>0, <1>3 DEF Loop, Begin, StopAtStats, GoOnWithJob, WriteHeader, Replace,
         Relink, Clean, Perish, Submit, GoTo, sqlite, local
    <2>2. CASE WriteHeader(c)
      <3> DEFINE img == [count |-> count[c], recs |-> <<>>]
      <3>1. img \in Image /\ img.recs = <<>>
        BY DEF TypeInv, TypeOK, Image
      <3>2. WriteTemp(img)
        BY <2>2 DEF WriteHeader
      <3> HIDE DEF img
      <3>3. \A i \in Inodes : store'[i] = img \/ store'[i] = store[i]
        BY <3>1, <3>2, TempWritten
      <3> QED
        BY <2>1, <3>1, <3>3, NumberedKept
    <2>3. CASE ~WriteHeader(c)
      <3>1. store' = store
        BY <1>3, <2>3 DEF Loop, Begin, StopAtStats, GoOnWithJob, Replace, Relink, Clean,
           Perish, disk
      <3> QED
        BY <2>1, <3>1, NumberedKept
    <2> QED
      BY <2>2, <2>3
  <1>4. ASSUME NEW c \in Calls,
               \/ Stats(c) \/ Rename(c) \/ Reopen(c) \/ Unlink(c) \/ Change(c)
               \/ ChangeNothing(c) \/ ReadRecords(c) \/ ReadNull(c) \/ DeleteNothing(c)
        PROVE  Numbered'
    <2>1. /\ UNCHANGED <<store, seq, held>>
          /\ \A d \in Calls : pc'[d] = "append" => pc[d] = "append"
      BY <1>0, <1>4 DEF Stats, Rename, Reopen, Unlink, Change, ChangeNothing,
         ReadRecords, ReadNull, DeleteNothing, Perish, GoTo, HandBack, Complete,
         AfterJob, disk, sqlite, local
    <2> QED
      BY <2>1, NumberedKept
  <1>5. ASSUME NEW c \in Calls, Copy(c)
        PROVE  Numbered'
    <2>1. \A i \in Inodes : store'[i] = store[main] \/ store'[i] = store[i]
      BY <1>0, <1>5, TempWritten DEF Copy
    <2>2. /\ UNCHANGED <<seq, held>>
          /\ \A d \in Calls : pc'[d] = "append" => pc[d] = "append"
      BY <1>0, <1>5 DEF Copy, GoTo, sqlite, local
    <2> QED
      BY <1>0, <2>1, <2>2, NumberedKept
  <1>6. ASSUME NEW c \in Calls, InsertRow(c)
        PROVE  Numbered'
    <2>1. CASE temp = None
      <3>1. /\ UNCHANGED <<store, seq, held>>
            /\ \A d \in Calls : pc'[d] = "append" => pc[d] = "append"
        BY <1>0, <1>6, <2>1 DEF InsertRow, GoTo, disk, sqlite, local
      <3> QED
        BY <3>1, NumberedKept
    <2>2. CASE temp # None
      <3>1. UNCHANGED <<store, held>> /\ seq' = seq + 1
        BY <1>6, <2>2 DEF InsertRow, NextRowId, disk
      <3>2. \A i \in Inodes : \A x \in IdsIn(store[i].recs) : x \in Nat
        BY RecsTyped DEF IdsIn
      <3>3. \A x \in IdsIn(held) : x \in Nat
        BY <1>0 DEF IdsIn
      <3>4. \A i \in Inodes : UpTo(store[i].recs, seq')
        <4> SUFFICES ASSUME NEW i \in Inodes, NEW x \in IdsIn(store[i].recs)
                     PROVE  x <= seq'
          BY DEF UpTo
        <4>1. x <= seq /\ x \in Nat
          BY <3>2 DEF Numbered, UpTo
        <4> QED
          BY <1>0, <3>1, <4>1
      <3>5. UpTo(held, seq')
        BY <1>0, <3>1, <3>3 DEF Numbered, UpTo
      <3>6. seq' - 1 = seq
        BY <1>0, <3>1
      <3> QED
        BY <3>1, <3>4, <3>5, <3>6 DEF Numbered
    <2> QED
      BY <2>1, <2>2
  <1>7. ASSUME NEW c \in Calls, AppendRecord(c)
        PROVE  Numbered'
    <2>1. pc[c] = "append" /\ OnWorker(c, "append")
      BY <1>7 DEF AppendRecord, OnWorker
    <2>2. own \in Inodes /\ out \in Nat \ {0} /\ <<seq>> \in Seq(Nat)
      BY <2>1 DEF TypeInv, TypeOK
    <2>3. /\ UNCHANGED <<seq, held>>
          /\ store' = [store EXCEPT ![own] =
               [count |-> hdr + 1, recs |-> Written(store[own].recs, out, <<seq>>)]]
          /\ pc' = [pc EXCEPT ![c] = "rename"]
      BY <1>7 DEF AppendRecord, GoTo, sqlite
    <2>4. \A d \in Calls : pc'[d] # "append"
      BY <1>0, <2>1, <2>3, OneJob DEF JobPlaces
    <2>5. IdsIn(<<seq>>) = {seq}
      BY DEF IdsIn
    <2>6. store[own].recs \in Seq(Nat) /\ UpTo(store[own].recs, seq)
      BY <2>2, RecsTyped DEF Numbered
    <2>7. UpTo(Written(store[own].recs, out, <<seq>>), seq)
      <3>1. IdsIn(Written(store[own].recs, out, <<seq>>)) \subseteq
              IdsIn(store[own].recs) \cup {seq} \cup {0}
        BY <2>2, <2>5, <2>6, WrittenIds
      <3> QED
        BY <1>0, <2>6, <3>1 DEF UpTo
    <2>8. \A i \in Inodes : UpTo(store'[i].recs, seq)
      BY <1>0, <2>2, <2>3, <2>7 DEF Numbered
    <2> QED
      BY <2>3, <2>4, <2>8 DEF Numbered
  <1>8. ASSUME NEW c \in Calls, OpenTemp(c)
        PROVE  Numbered'
    <2>1. /\ UNCHANGED <<store, seq>> /\ held' = <<>>
          /\ \A d \in Calls : pc'[d] = "append" => pc[d] = "append"
      BY <1>0, <1>8 DEF OpenTemp, GoTo, disk, sqlite
    <2>2. UpTo(<<>>, seq)
      BY DEF UpTo, IdsIn
    <2> QED
      BY <2>1, <2>2 DEF Numbered
  <1>9. ASSUME NEW c \in Calls, ScanChunk(c)
        PROVE  Numbered'
    <2>1. OnWorker(c, "scan") /\ pc[c] = "scan"
      BY <1>9 DEF ScanChunk, OnWorker
    <2>2. \A d \in Calls : pc[d] # "append"
      BY <2>1, OneJob DEF JobPlaces
    <2>3. /\ own \in Inodes /\ file \in Inodes /\ out \in Nat \ {0} /\ Got \in Seq(Nat)
          /\ Keep(c) \in Seq(Nat) /\ Survivors(Got, Doomed(c)) \in Seq(Nat)
          /\ \A j \in 1 .. Len(Got) :
               Got[j] = IF skewed THEN 0 ELSE store[file].recs[at + j]
          /\ \A j \in 1 .. Len(Got) : at + j \in 1 .. Len(store[file].recs)
      BY <1>9, ChunkRead
    <2>4. UpTo(Got, seq)
      <3> SUFFICES ASSUME NEW j \in 1 .. Len(Got) PROVE Got[j] <= seq
        BY DEF UpTo, IdsIn
      <3>1. UpTo(store[file].recs, seq)
        BY <2>3 DEF Numbered
      <3>2. Got[j] = 0 \/ Got[j] \in IdsIn(store[file].recs)
        BY <2>3 DEF IdsIn
      <3> QED
        BY <1>0, <3>1, <3>2 DEF UpTo
    <2>5. UpTo(Keep(c), seq)
      <3>1. IdsIn(Survivors(Got, Doomed(c))) \subseteq IdsIn(Got)
        BY <2>3, SurvivorsAre
      <3>2. IdsIn(Keep(c)) = IdsIn(held) \cup IdsIn(Survivors(Got, Doomed(c)))
        BY <1>0, <2>3, ConcatIds DEF Keep
      <3> QED
        BY <2>4, <3>1, <3>2 DEF Numbered, UpTo
    <2>6. /\ seq' = seq /\ pc' = pc
          /\ \A i \in Inodes : i # own => store'[i] = store[i]
          /\ \/ /\ BufferSize \in Nat \ {0} /\ BufferSize <= Len(Keep(c))
                /\ store'[own].recs =
                     Written(store[own].recs, out, SubSeq(Keep(c), 1, BufferSize))
                /\ held' = SubSeq(Keep(c), BufferSize + 1, Len(Keep(c)))
             \/ store'[own] = store[own] /\ held' = Keep(c)
      BY <1>9, ChunkKept
    <2>7. UpTo(store'[own].recs, seq) /\ UpTo(held', seq)
      <3>1. store[own].recs \in Seq(Nat) /\ UpTo(store[own].recs, seq)
        BY <2>3, RecsTyped DEF Numbered
      <3>2. CASE store'[own] = store[own] /\ held' = Keep(c)
        BY <2>5, <3>1, <3>2
      <3>3. CASE ~(store'[own] = store[own] /\ held' = Keep(c))
        <4> DEFINE a == SubSeq(Keep(c), 1, BufferSize)
                   b == SubSeq(Keep(c), BufferSize + 1, Len(Keep(c)))
        <4>1. /\ BufferSize \in Nat \ {0} /\ BufferSize <= Len(Keep(c))
              /\ store'[own].recs = Written(store[own].recs, out, a)
              /\ held' = b
          BY <2>6, <3>3
        <4>2. a \in Seq(Nat) /\ b \in Seq(Nat) /\ a \o b = Keep(c)
          BY <2>3, <4>1, CutInTwo
        <4> HIDE DEF a, b
        <4>3. IdsIn(a) \cup IdsIn(b) = IdsIn(Keep(c))
          BY <4>2, ConcatIds
        <4>4. IdsIn(Written(store[own].recs, out, a)) \subseteq
                IdsIn(store[own].recs) \cup IdsIn(a) \cup {0}
          BY <2>3, <3>1, <4>2, WrittenIds
        <4> QED
          BY <1>0, <2>5, <3>1, <4>1, <4>3, <4>4 DEF UpTo
      <3> QED
        BY <3>2, <3>3
    <2>8. \A i \in Inodes : UpTo(store'[i].recs, seq)
      BY <2>6, <2>7 DEF Numbered
    <2> QED
      BY <2>2, <2>6, <2>7, <2>8 DEF Numbered
  <1>10. ASSUME NEW c \in Calls, Seal(c)
         PROVE  Numbered'
    <2>1. OnWorker(c, "scan") /\ pc[c] = "scan"
      BY <1>10 DEF Seal, OnWorker
    <2>2. own \in Inodes /\ out \in Nat \ {0}
      BY <2>1 DEF TypeInv, TypeOK
    <2>3. /\ UNCHANGED <<seq, held>>
          /\ store' = [store EXCEPT ![own] =
               [count |-> Preserved, recs |-> Written(@.recs, out, held)]]
          /\ AfterJob(c, hdr - Preserved)
      BY <1>10 DEF Seal
    <2>4. \A d \in Calls : pc'[d] # "append"
      BY <1>0, <2>1, <2>3, OneJob DEF JobPlaces, AfterJob, HandBack
    <2>5. store[own].recs \in Seq(Nat) /\ UpTo(store[own].recs, seq)
      BY <2>2, RecsTyped DEF Numbered
    <2>6. UpTo(Written(store[own].recs, out, held), seq)
      <3>1. IdsIn(Written(store[own].recs, out, held)) \subseteq
              IdsIn(store[own].recs) \cup IdsIn(held) \cup {0}
        BY <1>0, <2>2, <2>5, WrittenIds
      <3> QED
        BY <1>0, <2>5, <3>1 DEF Numbered, UpTo
    <2>7. \A i \in Inodes : UpTo(store'[i].recs, seq)
      BY <1>0, <2>2, <2>3, <2>6 DEF Numbered
    <2> QED
      BY <2>3, <2>4, <2>7 DEF Numbered
  <1> QED
    BY <1>1, <1>2, <1>3, <1>4, <1>5, <1>6, <1>7, <1>8, <1>9, <1>10 DEF Next, Worker

-----------------------------------------------------------------------------
(* No record twice                                                         *)

\* The ".temp" file is neither the vector file nor what is open as the FILE, and
\* a copying loop that reads records does not read what it writes.
Apart ==
  /\ temp # None => temp \notin {main, file}
  /\ \A c \in Calls : pc[c] = "scan" /\ ~skewed => own # file

\* The loop is about to unlink the ".temp" file.
CleanNext == ready # <<>> /\ pc[Head(ready)] = "clean"

\* A file that will not become the vector file.
Hidden(i) == i \notin {main, file} /\ (i = temp => CleanNext)

Unique == \A i \in Inodes : NoRecordTwice(store[i].recs) \/ Hidden(i)

\* What an insertion renames is a copy of the vector file or an empty one.
CopyUnique ==
  \A c \in Calls : pc[c] \in {"insert", "append", "rename"} =>
    /\ temp # None => NoRecordTwice(store[temp].recs)
    /\ pc[c] = "append" => NoRecordTwice(store[own].recs)

\* A deletion finds ".temp" as its header left it, or does not find the FILE, or
\* writes to a file that is about to be unlinked.
Bare == temp = None \/ store[temp].recs = <<>> \/ CleanNext

CopyPlaces == {"insert", "append", "rename", "scan"}

EmptyCopy ==
  /\ Bare \/ file = None \/ \E c \in Calls : pc[c] \in CopyPlaces
  /\ \A c \in Calls : pc[c] = "reopen" => Bare

\* A record that the FILE's position is past
Before(x) == \E p \in 1 .. Len(store[file].recs) : p <= at /\ store[file].recs[p] = x

\* A copying loop has copied no record twice, and those it has lie before the
\* FILE's position, until someone else moves it.
Tidy ==
  LET mine == store[own].recs IN
  /\ NoRecordTwice(mine) /\ NoRecordTwice(held) /\ NoneShared(mine, held)
  /\ skewed \/ \A x \in (IdsIn(mine) \cup IdsIn(held)) \ {0} : Before(x)

ScanTidy == \A c \in Calls : pc[c] = "scan" => Hidden(own) \/ Tidy

UniqueInv == Apart /\ Unique /\ CopyUnique /\ EmptyCopy /\ ScanTidy

LEMMA EmptyOnce == /\ NoRecordTwice(<<>>) /\ IdsIn(<<>>) = {}
                   /\ \A a : NoneShared(<<>>, a) /\ NoneShared(a, <<>>)
  BY DEF NoRecordTwice, NoneShared, IdsIn

LEMMA HeadNotClean ==
  ASSUME NEW c \in Calls, NEW from, OnLoop(c, from), from # "clean"
  PROVE  ~CleanNext
  BY DEF OnLoop, CleanNext

\* Only the call at the head of the loop's queue can undo CleanNext.
LEMMA CleanStays ==
  ASSUME SchedInv, NEW c \in Calls, pc[c] # "clean",
         \A d \in Calls : d # c => pc'[d] = pc[d],
         ready' = ready \/ ready' = Append(ready, c), CleanNext
  PROVE  CleanNext'
  <1>1. ready \in Seq(Calls) /\ ready # <<>> /\ pc[Head(ready)] = "clean"
    BY DEF SchedInv, SchedType, CleanNext
  <1>2. Head(ready) \in Calls
    BY <1>1, HeadAndTail
  <1>3. ready' # <<>> /\ Head(ready') = Head(ready)
    BY <1>1, HeadOfAppend, Zenon
  <1>4. pc'[Head(ready)] = "clean"
    BY <1>1, <1>2
  <1> QED
    BY <1>3, <1>4 DEF CleanNext

\* A step of the worker, or a new call.
LEMMA WorkerKeepsClean ==
  ASSUME TypeInv, SchedInv, NEW c \in Calls, Worker(c) \/ Call(c), CleanNext
  PROVE  CleanNext'
  <1>0. pc \in [Calls -> Places]
    BY DEF TypeInv, TypeOK
  <1>1. \/ pc[c] = "new"
        \/ \E from \in {"stats", "copy", "insert", "append", "rename", "reopen", "unlink",
                        "change", "read", "open", "scan"} : OnWorker(c, from)
    BY DEF Worker, Call, Stats, Copy, InsertRow, AppendRecord, Rename, Reopen, Unlink,
       Change, ChangeNothing, ReadRecords, ReadNull, DeleteNothing, OpenTemp, ScanChunk,
       Seal
  <1>2. pc[c] # "clean"
    BY <1>1 DEF OnWorker
  <1>3. \A d \in Calls : d # c => pc'[d] = pc[d]
    BY <1>0 DEF Worker, Call, Stats, Copy, InsertRow, AppendRecord, Rename, Reopen,
       Unlink, Change, ChangeNothing, ReadRecords, ReadNull, DeleteNothing, OpenTemp,
       ScanChunk, Seal, Perish, GoTo, HandBack, Complete, AfterJob
  <1>4. ready' = ready \/ ready' = Append(ready, c)
    BY DEF Worker, Call, Stats, Copy, InsertRow, AppendRecord, Rename, Reopen, Unlink,
       Change, ChangeNothing, ReadRecords, ReadNull, DeleteNothing, OpenTemp, ScanChunk,
       Seal, Perish, GoTo, HandBack, Complete, AfterJob, sched
  <1> QED
    BY <1>2, <1>3, <1>4, CleanStays

\* A step that leaves the files, and the job that copies, as they are.
LEMMA UniqueKept ==
  ASSUME UniqueInv, UNCHANGED <<store, main, temp, file, own, held>>,
         CleanNext => CleanNext',
         \A d \in Calls :
           /\ pc'[d] \in CopyPlaces \/ pc[d] \in CopyPlaces => pc'[d] = pc[d]
           /\ pc'[d] = "reopen" => pc[d] = "reopen" \/ Bare
           /\ pc'[d] = "scan" => UNCHANGED <<at, skewed>>
  PROVE  UniqueInv'
  <1>1. \A i \in Inodes : Hidden(i) => Hidden(i)'
    BY DEF Hidden
  <1>2. Bare => Bare'
    BY DEF Bare
  <1>3. Apart'
    <2>1. ASSUME NEW c \in Calls, pc'[c] = "scan", ~skewed'
          PROVE  own' # file'
      <3>1. "scan" \in CopyPlaces
        BY DEF CopyPlaces
      <3>2. pc[c] = "scan" /\ skewed' = skewed
        BY <2>1, <3>1, Zenon
      <3>3. ~skewed
        BY <2>1, <3>2, Zenon
      <3> QED
        BY <3>2, <3>3 DEF UniqueInv, Apart
    <2> QED
      BY <2>1 DEF UniqueInv, Apart
  <1>4. Unique'
    BY <1>1 DEF UniqueInv, Unique
  <1>5. CopyUnique'
    BY DEF UniqueInv, CopyUnique, CopyPlaces
  <1>6. EmptyCopy'
    BY <1>2 DEF UniqueInv, EmptyCopy
  <1>7. ScanTidy'
    <2> SUFFICES ASSUME NEW c \in Calls, pc'[c] = "scan" PROVE Hidden(own)' \/ Tidy'
      BY DEF ScanTidy
    <2>1. pc[c] = "scan" /\ UNCHANGED <<at, skewed>>
      BY DEF CopyPlaces
    <2>2. Hidden(own) \/ Tidy
      BY <2>1 DEF UniqueInv, ScanTidy
    <2>3. Hidden(own) => Hidden(own)'
      BY DEF Hidden
    <2>4. Tidy => Tidy'
      BY <2>1, Zenon DEF Tidy, Before
    <2> QED
      BY <2>2, <2>3, <2>4
  <1> QED
    BY <1>3, <1>4, <1>5, <1>6, <1>7 DEF UniqueInv

LEMMA LoopUnique ==
  ASSUME TypeInv, SchedInv, UniqueInv, NEW c \in Calls, Loop(c)
  PROVE  UniqueInv'
  <1>0. /\ pc \in [Calls -> Places] /\ main \in Inodes /\ store \in [Inodes -> Image]
        /\ ready \in Seq(Calls)
        /\ \A i \in Inodes : i # None
        /\ \A d \in Calls : pc[d] = "scan" => own \in Inodes
    BY DEF TypeInv, TypeOK, Inodes, None
  <1>1. CASE Begin(c) \/ StopAtStats(c) \/ GoOnWithJob(c)
    <2>1. OnLoop(c, "begin") \/ OnLoop(c, "resume")
      BY <1>1 DEF Begin, StopAtStats, GoOnWithJob
    <2>2. ~CleanNext
      BY <2>1, HeadNotClean
    <2>3. UNCHANGED <<store, main, temp, file, own, held, at, skewed>>
      BY <1>1, Zenon DEF Begin, StopAtStats, GoOnWithJob, disk, conn, local
    <2>4. \A d \in Calls :
            /\ pc'[d] \in CopyPlaces \/ pc[d] \in CopyPlaces => pc'[d] = pc[d]
            /\ pc'[d] = "reopen" => pc[d] = "reopen"
      BY <1>0, <1>1, <2>1 DEF Begin, StopAtStats, GoOnWithJob, OnLoop, Submit, GoTo,
         CopyPlaces
    <2> QED
      BY <2>2, <2>3, <2>4, UniqueKept
  <1>2. CASE WriteHeader(c)
    <2>1. OnLoop(c, "resume") /\ ~CleanNext
      BY <1>2, HeadNotClean DEF WriteHeader
    <2> DEFINE img == [count |-> count[c], recs |-> <<>>]
    <2>2. img \in Image /\ img.recs = <<>>
      BY DEF TypeInv, TypeOK, Image
    <2>3. WriteTemp(img)
      BY <1>2 DEF WriteHeader
    <2> HIDE DEF img
    <2>4. /\ temp' \in Inodes /\ main' = main /\ store'[temp'].recs = <<>>
          /\ \A i \in Inodes : i # temp' => store'[i] = store[i]
          /\ temp # None => temp' = temp
          /\ temp = None => temp' \notin {main, file, own}
      BY <2>2, <2>3, TempWritten
    <2>5. /\ UNCHANGED <<file, own, held, at, skewed>>
          /\ \A d \in Calls :
               /\ pc'[d] \in CopyPlaces \/ pc[d] \in CopyPlaces => pc'[d] = pc[d]
               /\ pc'[d] = "reopen" => pc[d] = "reopen"
      BY <1>0, <1>2, <2>1 DEF WriteHeader, OnLoop, Submit, CopyPlaces, conn, local
    <2>6. temp' \notin {main, file}
      BY <2>4 DEF UniqueInv, Apart
    <2>7. \A i \in Inodes : Hidden(i) => i = temp' \/ Hidden(i)'
      BY <2>1, <2>4, <2>5 DEF Hidden
    <2>8. Apart'
      BY <2>4, <2>5, <2>6 DEF UniqueInv, Apart, CopyPlaces
    <2>9. Unique'
      BY <2>4, <2>7, EmptyOnce DEF UniqueInv, Unique
    <2>10. CopyUnique'
      <3> SUFFICES ASSUME NEW d \in Calls, pc'[d] \in {"insert", "append", "rename"}
                   PROVE  /\ NoRecordTwice(store'[temp'].recs)
                          /\ pc'[d] = "append" => NoRecordTwice(store'[own'].recs)
        BY DEF CopyUnique
      <3>1. pc[d] = pc'[d]
        BY <2>5 DEF CopyPlaces
      <3>2. pc[d] = "append" => own \in Inodes /\ NoRecordTwice(store[own].recs)
        BY <3>1 DEF UniqueInv, CopyUnique, TypeInv, TypeOK
      <3> QED
        BY <2>4, <2>5, <3>1, <3>2, EmptyOnce
    <2>11. EmptyCopy'
      BY <2>4 DEF EmptyCopy, Bare
    <2>12. ScanTidy'
      <3> SUFFICES ASSUME NEW d \in Calls, pc'[d] = "scan" PROVE Hidden(own)' \/ Tidy'
        BY DEF ScanTidy
      <3>1. pc[d] = "scan" /\ own \in Inodes /\ file \in Inodes
        BY <1>0, <2>5 DEF CopyPlaces, TypeInv, TypeOK
      <3>2. CASE Hidden(own)
        <4>1. own # temp'
          BY <2>1, <2>4, <3>2 DEF Hidden
        <4> QED
          BY <2>4, <2>5, <3>2, <4>1 DEF Hidden
      <3>3. CASE Tidy
        <4>1. store'[file] = store[file]
          BY <2>4, <2>6, <3>1
        <4>2. \A x : Before(x) => Before(x)'
          BY <2>5, <4>1 DEF Before
        <4>3. store'[own].recs = store[own].recs \/ store'[own].recs = <<>>
          BY <2>4, <3>1
        <4>4. IdsIn(store'[own].recs) \subseteq IdsIn(store[own].recs)
          BY <4>3, EmptyOnce
        <4>5. /\ NoRecordTwice(store'[own].recs) /\ NoneShared(store'[own].recs, held)
          BY <3>3, <4>3, EmptyOnce DEF Tidy
        <4>6. skewed \/ \A x \in (IdsIn(store'[own].recs) \cup IdsIn(held)) \ {0} : Before(x)
          BY <3>3, <4>4, Zenon DEF Tidy
        <4>7. skewed' \/ \A x \in (IdsIn(store'[own].recs) \cup IdsIn(held)) \ {0} : Before(x)'
          BY <2>5, <4>2, <4>6, Zenon
        <4> QED
          BY <2>5, <3>3, <4>5, <4>7 DEF Tidy
      <3> QED
        BY <3>1, <3>2, <3>3 DEF UniqueInv, ScanTidy
    <2> QED
      BY <2>8, <2>9, <2>10, <2>11, <2>12 DEF UniqueInv
  <1>3. CASE Replace(c)
    <2>1. OnLoop(c, "replace") /\ ~CleanNext
      BY <1>3, HeadNotClean DEF Replace
    <2>2. /\ UNCHANGED <<store, file, own, held, at, skewed>>
          /\ \A d \in Calls :
               /\ pc'[d] \in CopyPlaces \/ pc[d] \in CopyPlaces => pc'[d] = pc[d]
               /\ pc'[d] = "reopen" => pc[d] = "reopen"
      BY <1>0, <1>3, <2>1 DEF Replace, OnLoop, GoTo, CopyPlaces, disk, conn, local
    <2>3. CASE temp = None
      <3>1. UNCHANGED <<main, temp>>
        BY <1>3, <2>3 DEF Replace, disk
      <3> QED
        BY <2>1, <2>2, <3>1, UniqueKept
    <2>4. CASE temp # None
      <3>1. main' = temp /\ temp' = None /\ temp \in Inodes
        BY <1>3, <2>4 DEF Replace, TypeInv, TypeOK
      <3>2. \A i \in Inodes : Hidden(i) => Hidden(i)'
        BY <1>0, <2>1, <2>2, <3>1 DEF Hidden
      <3>3. Apart'
        BY <2>2, <3>1 DEF UniqueInv, Apart, CopyPlaces
      <3>4. Unique'
        BY <2>2, <3>2 DEF UniqueInv, Unique
      <3>5. CopyUnique'
        BY <2>2, <3>1 DEF UniqueInv, CopyUnique, CopyPlaces
      <3>6. EmptyCopy'
        BY <3>1 DEF EmptyCopy, Bare
      <3>7. Tidy => Tidy'
        BY <2>2, Zenon DEF Tidy, Before
      <3>8. ScanTidy'
        BY <1>0, <2>2, <3>2, <3>7 DEF UniqueInv, ScanTidy, CopyPlaces
      <3> QED
        BY <3>3, <3>4, <3>5, <3>6, <3>8 DEF UniqueInv
    <2> QED
      BY <2>3, <2>4
  <1>4. CASE Relink(c)
    <2>1. OnLoop(c, "relink") /\ ~CleanNext
      BY <1>4, HeadNotClean DEF Relink
    <2>2. CASE Perish
      <3>1. UNCHANGED <<store, main, temp, file, own, held, at, skewed, pc, ready>>
        BY <2>2, Zenon DEF Perish, disk, conn, local, sched
      <3> QED
        BY <2>1, <3>1, UniqueKept
    <2>3. CASE ~Perish
      <3>1. /\ UNCHANGED <<store, main, temp, own, held>>
            /\ file' = main /\ skewed' = TRUE
            /\ pc' = [pc EXCEPT ![c] = "clean"] /\ ready' = ready
        BY <1>4, <2>3 DEF Relink, OpenMain, GoTo, disk, local, sched
      <3>2. CleanNext'
        BY <1>0, <2>1, <3>1 DEF OnLoop, CleanNext
      <3>3. \A d \in Calls :
              /\ pc'[d] \in CopyPlaces \/ pc[d] \in CopyPlaces => pc'[d] = pc[d]
              /\ pc'[d] = "reopen" => pc[d] = "reopen"
        BY <1>0, <2>1, <3>1 DEF OnLoop, CopyPlaces
      <3>4. \A i \in Inodes : Hidden(i) => Hidden(i)'
        BY <3>1, <3>2 DEF Hidden
      <3>5. Apart'
        <4>1. temp' # None => temp' \notin {main', file'}
          BY <3>1 DEF UniqueInv, Apart
        <4> QED
          BY <3>1, <4>1 DEF Apart
      <3>6. Unique'
        BY <3>1, <3>4 DEF UniqueInv, Unique
      <3>7. CopyUnique'
        BY <3>1, <3>3 DEF UniqueInv, CopyUnique, CopyPlaces
      <3>8. EmptyCopy'
        BY <3>2 DEF EmptyCopy, Bare
      <3>9. Tidy => Tidy'
        BY <3>1 DEF Tidy
      <3>10. ScanTidy'
        BY <1>0, <3>1, <3>3, <3>4, <3>9 DEF UniqueInv, ScanTidy, CopyPlaces
      <3> QED
        BY <3>5, <3>6, <3>7, <3>8, <3>10 DEF UniqueInv
    <2> QED
      BY <2>2, <2>3
  <1>5. CASE Clean(c)
    <2>1. /\ UNCHANGED <<store, main, file, own, held, at, skewed>> /\ temp' = None
          /\ OnLoop(c, "clean") /\ pc' = [pc EXCEPT ![c] = "done"]
      BY <1>5, Zenon DEF Clean, conn, local
    <2>2. \A d \in Calls :
            /\ pc'[d] \in CopyPlaces \/ pc[d] \in CopyPlaces => pc'[d] = pc[d]
      BY <1>0, <2>1 DEF OnLoop, CopyPlaces
    <2>3. \A i \in Inodes : Hidden(i) => Hidden(i)'
      BY <1>0, <2>1 DEF Hidden
    <2>4. Apart'
      BY <2>1, <2>2 DEF UniqueInv, Apart, CopyPlaces
    <2>5. Unique'
      BY <2>1, <2>3 DEF UniqueInv, Unique
    <2>6. CopyUnique'
      BY <2>1, <2>2 DEF UniqueInv, CopyUnique, CopyPlaces
    <2>7. EmptyCopy'
      BY <2>1 DEF EmptyCopy, Bare
    <2>8. Tidy => Tidy'
      BY <2>1, Zenon DEF Tidy, Before
    <2>9. ScanTidy'
      BY <1>0, <2>1, <2>2, <2>3, <2>8 DEF UniqueInv, ScanTidy, CopyPlaces
    <2> QED
      BY <2>4, <2>5, <2>6, <2>7, <2>9 DEF UniqueInv
  <1> QED
    BY <1>1, <1>2, <1>3, <1>4, <1>5 DEF Loop

\* A step after which no job but the call's own is under way.
LEMMA JobUnique ==
  ASSUME NEW c, NEW place, place # "scan",
         \A d \in Calls : pc'[d] \in JobPlaces => pc'[d] = place,
         temp' # None => temp' \notin {main', file'},
         \A i \in Inodes : NoRecordTwice(store'[i].recs) \/ Hidden(i)',
         place \in {"insert", "append", "rename"} =>
           (temp' # None => NoRecordTwice(store'[temp'].recs)),
         place = "append" => NoRecordTwice(store'[own'].recs),
         \/ Bare'
         \/ place # "reopen" /\ file' = None
         \/ place \in CopyPlaces /\ \E d \in Calls : pc'[d] = place
  PROVE  UniqueInv'
  <1>1. \A d \in Calls : pc'[d] # "scan"
    BY DEF JobPlaces
  <1>2. Apart'
    BY <1>1 DEF Apart
  <1>3. Unique'
    BY DEF Unique
  <1>4. CopyUnique'
    BY DEF CopyUnique, JobPlaces
  <1>5. EmptyCopy'
    <2>1. place = "reopen" \/ \A d \in Calls : pc'[d] # "reopen"
      BY DEF JobPlaces
    <2>2. place \in CopyPlaces => place # "reopen"
      BY DEF CopyPlaces
    <2> QED
      BY <2>1, <2>2 DEF EmptyCopy
  <1>6. ScanTidy'
    BY <1>1 DEF ScanTidy
  <1> QED
    BY <1>2, <1>3, <1>4, <1>5, <1>6 DEF UniqueInv

\* A chunk of a file without repetition, read from behind what was copied,
\* repeats nothing.
LEMMA ChunkUnique ==
  ASSUME TypeInv, UniqueInv, NEW c \in Calls, ScanChunk(c), Tidy
  PROVE  /\ NoRecordTwice(Keep(c)) /\ NoneShared(store[own].recs, Keep(c))
         /\ skewed \/ \A x \in IdsIn(Got) :
              \E p \in 1 .. Len(store[file].recs) : p <= at' /\ store[file].recs[p] = x
  <1> DEFINE recs == store[file].recs
             mine == store[own].recs
             s    == Survivors(Got, Doomed(c))
  <1>1. /\ own \in Inodes /\ file \in Inodes /\ Got \in Seq(Nat)
        /\ Len(Got) = IF Full THEN ChunkLen ELSE 0
        /\ \A j \in 1 .. Len(Got) : Got[j] = IF skewed THEN 0 ELSE recs[at + j]
        /\ \A j \in 1 .. Len(Got) : at + j \in 1 .. Len(recs)
        /\ ChunkLen \in Nat \ {0}
        /\ s \in Seq(Nat)
    BY ChunkRead
  <1>2. at \in Nat /\ held \in Seq(Nat) /\ mine \in Seq(Nat) /\ recs \in Seq(Nat)
    BY <1>1, RecsTyped DEF TypeInv, TypeOK
  <1>3. NoRecordTwice(Got)
    <2> SUFFICES ASSUME NEW i \in 1 .. Len(Got), NEW j \in 1 .. Len(Got), i # j,
                        Got[i] = Got[j]
                 PROVE  Got[i] = 0
      BY DEF NoRecordTwice
    <2>1. CASE skewed
      BY <1>1, <2>1
    <2>2. CASE ~skewed
      <3>1. NoRecordTwice(recs)
        BY <1>1 DEF UniqueInv, Unique, Hidden
      <3>2. at + i \in 1 .. Len(recs) /\ at + j \in 1 .. Len(recs)
        BY <1>1
      <3>3. at + i # at + j
        <4>1. i \in Int /\ j \in Int
          OBVIOUS
        <4> QED
          BY <1>2, <4>1
      <3>4. recs[at + i] = recs[at + j] /\ Got[i] = recs[at + i]
        BY <1>1, <2>2
      <3> QED
        BY <3>1, <3>2, <3>3, <3>4 DEF NoRecordTwice
    <2> QED
      BY <2>1, <2>2
  <1>4. ASSUME NEW x \in IdsIn(Got), x \in IdsIn(mine) \cup IdsIn(held)
        PROVE  x = 0
    <2>1. PICK j \in 1 .. Len(Got) : x = Got[j]
      BY <1>4 DEF IdsIn
    <2>2. CASE skewed
      BY <1>1, <2>1, <2>2
    <2>3. CASE ~skewed /\ x # 0
      <3>1. x \in (IdsIn(mine) \cup IdsIn(held)) \ {0}
        BY <1>4, <2>3
      <3>2. Before(x)
        BY <2>3, <3>1, Zenon DEF Tidy
      <3>3. PICK p \in 1 .. Len(recs) : p <= at /\ recs[p] = x
        BY <3>2, Zenon DEF Before
      <3>4. at + j \in 1 .. Len(recs) /\ recs[at + j] = x
        BY <1>1, <2>1, <2>3
      <3>5. p # at + j
        <4>1. j \in Nat \ {0} /\ p \in Int
          OBVIOUS
        <4> QED
          BY <1>2, <3>3, <4>1
      <3>6. NoRecordTwice(recs)
        BY <1>1 DEF UniqueInv, Unique, Hidden
      <3> QED
        BY <3>3, <3>4, <3>5, <3>6 DEF NoRecordTwice
    <2> QED
      BY <2>2, <2>3
  <1>5. IdsIn(s) \subseteq IdsIn(Got) /\ NoRecordTwice(s)
    BY <1>1, <1>3, SurvivorsAre, SurvivorsOnce
  <1> HIDE DEF s, mine
  <1>6. /\ NoRecordTwice(held) /\ NoneShared(mine, held) /\ NoneShared(held, s)
        /\ NoneShared(mine, s)
    BY <1>4, <1>5 DEF NoneShared, Tidy, mine
  <1>7. NoRecordTwice(held \o s) /\ IdsIn(held \o s) = IdsIn(held) \cup IdsIn(s)
    BY <1>1, <1>2, <1>5, <1>6, ConcatOnce, ConcatIds
  <1>8. NoneShared(mine, held \o s)
    BY <1>6, <1>7 DEF NoneShared
  <1>9. ASSUME ~skewed, NEW x \in IdsIn(Got)
        PROVE  \E p \in 1 .. Len(recs) : p <= at' /\ recs[p] = x
    <2>1. PICK j \in 1 .. Len(Got) : x = Got[j]
      BY DEF IdsIn
    <2>2. at + j \in 1 .. Len(recs) /\ recs[at + j] = x
      BY <1>1, <1>9, <2>1
    <2>3. Full /\ Len(Got) = ChunkLen
      BY <1>1
    <2>4. at' = at + ChunkLen
      BY <2>3, ChunkKept
    <2>5. at + j <= at'
      BY <1>1, <1>2, <2>3, <2>4
    <2> QED
      BY <2>2, <2>5
  <1> QED
    BY <1>7, <1>8, <1>9, Zenon DEF s, mine, Keep

LEMMA ScanUnique ==
  ASSUME TypeInv, SchedInv, UniqueInv, NEW c \in Calls, ScanChunk(c)
  PROVE  UniqueInv'
  <1> DEFINE mine == store[own].recs
             recs == store[file].recs
  <1>1. OnWorker(c, "scan") /\ pc[c] = "scan" /\ (CleanNext => CleanNext')
    BY WorkerKeepsClean DEF ScanChunk, OnWorker, Worker
  <1>2. \A d \in Calls : pc[d] \in JobPlaces => pc[d] = "scan"
    BY <1>1, OneJob
  <1>3. UNCHANGED <<main, temp, file, skewed, pc, own>>
    BY ChunkKept
  <1>4. /\ own \in Inodes /\ file \in Inodes /\ out \in Nat \ {0}
        /\ Got \in Seq(Nat) /\ Keep(c) \in Seq(Nat)
        /\ Survivors(Got, Doomed(c)) \in Seq(Nat)
    BY ChunkRead
  <1>5. mine \in Seq(Nat) /\ held \in Seq(Nat) /\ at \in Nat /\ ChunkLen \in Nat
    BY <1>4, RecsTyped, ChunkRead DEF TypeInv, TypeOK
  <1>6. \A i \in Inodes : Hidden(i) => Hidden(i)'
    BY <1>1, <1>3 DEF Hidden
  <1>7. \A i \in Inodes : i # own => store'[i] = store[i]
    BY ChunkKept
  <1>8. ASSUME Tidy PROVE Tidy'
    <2>1. /\ NoRecordTwice(Keep(c)) /\ NoneShared(mine, Keep(c))
          /\ skewed \/ \A x \in IdsIn(Got) :
               \E p \in 1 .. Len(recs) : p <= at' /\ recs[p] = x
      BY <1>8, ChunkUnique
    <2>2. /\ NoRecordTwice(store'[own].recs) /\ NoRecordTwice(held')
          /\ NoneShared(store'[own].recs, held')
          /\ IdsIn(store'[own].recs) \cup IdsIn(held') \subseteq
               IdsIn(mine) \cup IdsIn(Keep(c)) \cup {0}
      <3>1. CASE store'[own] = store[own] /\ held' = Keep(c)
        BY <1>8, <2>1, <3>1 DEF Tidy
      <3>2. CASE ~(store'[own] = store[own] /\ held' = Keep(c))
        <4> DEFINE a == SubSeq(Keep(c), 1, BufferSize)
                   b == SubSeq(Keep(c), BufferSize + 1, Len(Keep(c)))
        <4>1. /\ BufferSize \in Nat \ {0} /\ BufferSize <= Len(Keep(c))
              /\ store'[own].recs = Written(mine, out, a)
              /\ held' = b
          BY <3>2, ChunkKept
        <4>2. a \in Seq(Nat) /\ b \in Seq(Nat)
          BY <1>4, <4>1, CutInTwo
        <4>3. /\ NoRecordTwice(a) /\ NoRecordTwice(b) /\ NoneShared(a, b)
              /\ IdsIn(a) \cup IdsIn(b) = IdsIn(Keep(c))
          BY <1>4, <2>1, <4>1, CutOnce
        <4> HIDE DEF a, b
        <4>4. NoneShared(mine, a) /\ NoneShared(mine, b)
          BY <2>1, <4>3 DEF NoneShared
        <4>5. NoRecordTwice(mine)
          BY <1>8 DEF Tidy
        <4>6. NoRecordTwice(Written(mine, out, a))
          BY <1>4, <1>5, <4>2, <4>3, <4>4, <4>5, WrittenOnce
        <4>7. IdsIn(Written(mine, out, a)) \subseteq IdsIn(mine) \cup IdsIn(a) \cup {0}
          BY <1>4, <1>5, <4>2, WrittenIds
        <4>8. NoneShared(Written(mine, out, a), b)
          BY <4>3, <4>4, <4>7 DEF NoneShared
        <4> HIDE DEF mine
        <4> QED
          BY <4>1, <4>3, <4>6, <4>7, <4>8
      <3> QED
        BY <3>1, <3>2
    <2>3. ASSUME ~skewed, NEW x \in (IdsIn(store'[own].recs) \cup IdsIn(held')) \ {0}
          PROVE  \E p \in 1 .. Len(recs) : p <= at' /\ recs[p] = x
      <3>1. IdsIn(Keep(c)) \subseteq IdsIn(held) \cup IdsIn(Got)
        <4>1. IdsIn(Survivors(Got, Doomed(c))) \subseteq IdsIn(Got)
          BY <1>4, SurvivorsAre
        <4> QED
          BY <1>4, <1>5, <4>1, ConcatIds DEF Keep
      <3>2. x \in IdsIn(Got) \/ x \in (IdsIn(mine) \cup IdsIn(held)) \ {0}
        BY <2>2, <2>3, <3>1
      <3>3. CASE x \in IdsIn(Got)
        BY <2>1, <2>3, <3>3, Zenon
      <3>4. CASE x \in (IdsIn(mine) \cup IdsIn(held)) \ {0}
        <4>1. Before(x)
          BY <1>8, <2>3, <3>4, Zenon DEF Tidy
        <4>2. PICK p \in 1 .. Len(recs) : p <= at /\ recs[p] = x
          BY <4>1, Zenon DEF Before
        <4>3. p <= at'
          <5>1. Len(recs) \in Nat
            BY <1>4, RecsTyped
          <5>2. at' = (IF Full THEN at + ChunkLen ELSE Len(recs))
            BY ChunkKept
          <5> HIDE DEF recs
          <5> QED
            BY <1>5, <4>2, <5>1, <5>2
        <4> QED
          BY <4>2, <4>3
      <3> QED
        BY <3>2, <3>3, <3>4
    <2>4. ~skewed => store'[file] = store[file]
      BY <1>1, <1>4, <1>7 DEF UniqueInv, Apart
    <2>5. ASSUME ~skewed', NEW x \in (IdsIn(store'[own].recs) \cup IdsIn(held')) \ {0}
          PROVE  Before(x)'
      <3>1. ~skewed
        BY <1>3, <2>5, Zenon
      <3>2. store'[file'] = store[file]
        BY <1>3, <2>4, <3>1, Zenon
      <3>3. \E p \in 1 .. Len(recs) : p <= at' /\ recs[p] = x
        BY <2>3, <2>5, <3>1, Zenon
      <3> QED
        BY <3>2, <3>3, Zenon DEF Before
    <2>6. skewed' \/ \A x \in (IdsIn(store'[own].recs) \cup IdsIn(held')) \ {0} : Before(x)'
      BY <2>5, Zenon
    <2> QED
      BY <1>3, <2>2, <2>6, Zenon DEF Tidy
  <1>9. Apart'
    BY <1>3 DEF UniqueInv, Apart
  <1>10. Unique'
    <2>1. ASSUME ~Hidden(own) PROVE NoRecordTwice(store'[own].recs)
      <3>1. Tidy'
        BY <1>1, <1>8, <2>1 DEF UniqueInv, ScanTidy
      <3> QED
        BY <1>3, <3>1 DEF Tidy
    <2> QED
      BY <1>4, <1>6, <1>7, <2>1 DEF UniqueInv, Unique
  <1>11. CopyUnique'
    BY <1>2, <1>3 DEF CopyUnique, JobPlaces
  <1>12. EmptyCopy'
    BY <1>1, <1>2, <1>3 DEF EmptyCopy, CopyPlaces, JobPlaces
  <1>13. ScanTidy'
    BY <1>1, <1>3, <1>4, <1>6, <1>8 DEF UniqueInv, ScanTidy
  <1> QED
    BY <1>9, <1>10, <1>11, <1>12, <1>13 DEF UniqueInv

\* Without a copy under way the FILE and a filled ".temp" do not meet.
LEMMA NoCopyBare ==
  ASSUME SchedInv, UniqueInv, file # None, NEW c \in Calls, NEW from,
         OnWorker(c, from), from \notin CopyPlaces
  PROVE  Bare
  <1>1. CopyPlaces \subseteq JobPlaces
    BY DEF CopyPlaces, JobPlaces
  <1>2. \A d \in Calls : pc[d] \notin CopyPlaces
    <2> SUFFICES ASSUME NEW d \in Calls, pc[d] \in CopyPlaces PROVE FALSE
      OBVIOUS
    <2>1. d = c
      BY <1>1, OneJob
    <2> QED
      BY <2>1 DEF OnWorker
  <1> QED
    BY <1>2 DEF UniqueInv, EmptyCopy

LEMMA WorkerUnique ==
  ASSUME TypeInv, SchedInv, Numbered, UniqueInv, NEW c \in Calls, Worker(c)
  PROVE  UniqueInv'
  <1>0. /\ pc \in [Calls -> Places] /\ main \in Inodes /\ store \in [Inodes -> Image]
        /\ \A i \in Inodes : i # None
        /\ CleanNext => CleanNext'
    BY WorkerKeepsClean DEF TypeInv, TypeOK, Inodes, None
  <1>a. Bare /\ UNCHANGED <<store, temp>> => Bare'
    BY <1>0 DEF Bare
  <1>b. /\ UNCHANGED <<main, file, temp>> => \A i \in Inodes : Hidden(i) => Hidden(i)'
        /\ UNCHANGED <<main, temp>> /\ (file' = None \/ file' = main) =>
             \A i \in Inodes : Hidden(i) => Hidden(i)'
    BY <1>0 DEF Hidden
  <1>1. CASE \/ Stats(c) \/ Change(c) \/ ChangeNothing(c) \/ ReadRecords(c)
             \/ ReadNull(c) \/ DeleteNothing(c)
    <2>1. PICK from \in {"stats", "change", "read", "open"} : OnWorker(c, from)
      BY <1>1 DEF Stats, Change, ChangeNothing, ReadRecords, ReadNull, DeleteNothing
    <2>2. \A d \in Calls : pc[d] # "scan"
      <3> SUFFICES ASSUME NEW d \in Calls, pc[d] = "scan" PROVE FALSE
        OBVIOUS
      <3>1. d = c
        BY <2>1, OneJob DEF JobPlaces
      <3> QED
        BY <2>1, <3>1 DEF OnWorker
    <2>3. UNCHANGED <<store, main, temp, file, own, held>>
      BY <1>1 DEF Stats, Change, ChangeNothing, ReadRecords, ReadNull, DeleteNothing,
         Perish, disk, conn, local
    <2>4. \A d \in Calls :
            /\ pc'[d] \in CopyPlaces \/ pc[d] \in CopyPlaces => pc'[d] = pc[d]
            /\ pc'[d] = "reopen" => pc[d] = "reopen" \/ Change(c)
      BY <1>0, <1>1, <2>1 DEF Stats, ChangeNothing, ReadRecords, ReadNull,
         Change, DeleteNothing, OnWorker, Perish, GoTo, HandBack, Complete, AfterJob, CopyPlaces
    <2>5. Change(c) => Bare
      <3>1. from \notin CopyPlaces
        BY <2>1 DEF CopyPlaces
      <3> QED
        BY <2>1, <3>1, NoCopyBare DEF Change
    <2>6. \A d \in Calls : pc'[d] # "scan"
      BY <2>2, <2>4 DEF CopyPlaces
    <2> QED
      BY <1>0, <2>3, <2>4, <2>5, <2>6, UniqueKept
  <1>2. ASSUME NEW from, OnWorker(c, from), NEW place, pc' = [pc EXCEPT ![c] = place]
        PROVE  \A d \in Calls : pc'[d] \in JobPlaces => pc'[d] = place
    <2> SUFFICES ASSUME NEW d \in Calls, pc'[d] \in JobPlaces PROVE pc'[d] = place
      OBVIOUS
    <2>1. CASE d = c
      BY <1>0, <1>2, <2>1
    <2>2. CASE d # c
      <3>1. pc[d] \in JobPlaces
        BY <1>0, <1>2, <2>2
      <3> QED
        BY <1>2, <2>2, <3>1, OneJob
    <2> QED
      BY <2>1, <2>2
  <1>3. CASE Copy(c)
    <2>1. OnWorker(c, "copy") /\ pc' = [pc EXCEPT ![c] = "insert"] /\ file' = file
      BY <1>3 DEF Copy, GoTo, conn
    <2>2. /\ temp' \in Inodes /\ main' = main
          /\ store'[temp'] = store[main]
          /\ \A i \in Inodes : i # temp' => store'[i] = store[i]
          /\ temp # None => temp' = temp
          /\ temp = None => temp' \notin {main, file, own}
      BY <1>0, <1>3, TempWritten DEF Copy
    <2>3. temp' \notin {main, file}
      BY <2>2 DEF UniqueInv, Apart
    <2>4. NoRecordTwice(store[main].recs)
      BY <1>0 DEF UniqueInv, Unique, Hidden
    <2>5. \A i \in Inodes : NoRecordTwice(store'[i].recs) \/ Hidden(i)'
      <3> SUFFICES ASSUME NEW i \in Inodes PROVE NoRecordTwice(store'[i].recs) \/ Hidden(i)'
        OBVIOUS
      <3>1. CASE i = temp'
        BY <2>2, <2>4, <3>1
      <3>2. CASE i # temp'
        BY <2>1, <2>2, <3>2 DEF UniqueInv, Unique, Hidden
      <3> QED
        BY <3>1, <3>2
    <2>6. \A d \in Calls : pc'[d] \in JobPlaces => pc'[d] = "insert"
      BY <1>2, <2>1
    <2>7. "insert" \in CopyPlaces /\ pc'[c] = "insert"
      BY <1>0, <2>1 DEF CopyPlaces
    <2> QED
      BY <2>1, <2>2, <2>3, <2>4, <2>5, <2>6, <2>7, JobUnique
  <1>4. CASE InsertRow(c)
    <2>1. OnWorker(c, "insert") /\ pc[c] = "insert"
      BY <1>4 DEF InsertRow, OnWorker
    <2>2. UNCHANGED <<store, main, temp>>
      BY <1>4 DEF InsertRow, disk
    <2>3. CASE temp = None
      <3>1. pc' = [pc EXCEPT ![c] = "unlink"] /\ file' = file
        BY <1>4, <2>3 DEF InsertRow, GoTo, conn
      <3>2. \A d \in Calls : pc'[d] \in JobPlaces => pc'[d] = "unlink"
        BY <1>2, <2>1, <3>1
      <3>3. \A i \in Inodes : NoRecordTwice(store'[i].recs) \/ Hidden(i)'
        BY <1>b, <2>2, <3>1 DEF UniqueInv, Unique
      <3>4. Bare'
        BY <2>2, <2>3 DEF Bare
      <3> QED
        BY <2>2, <2>3, <3>2, <3>3, <3>4, JobUnique
    <2>4. CASE temp # None
      <3>1. pc' = [pc EXCEPT ![c] = "append"] /\ file' = None /\ own' = temp
        BY <1>4, <2>4 DEF InsertRow, GoTo
      <3>2. \A d \in Calls : pc'[d] \in JobPlaces => pc'[d] = "append"
        BY <1>2, <2>1, <3>1
      <3>3. \A i \in Inodes : NoRecordTwice(store'[i].recs) \/ Hidden(i)'
        BY <1>b, <2>2, <3>1 DEF UniqueInv, Unique
      <3>4. temp' \notin {main', file'}
        BY <2>2, <2>4, <3>1 DEF UniqueInv, Apart
      <3>5. NoRecordTwice(store[temp].recs)
        BY <2>1, <2>4 DEF UniqueInv, CopyUnique
      <3> QED
        BY <2>2, <3>1, <3>2, <3>3, <3>4, <3>5, JobUnique
    <2> QED
      BY <2>3, <2>4
  <1>5. CASE AppendRecord(c)
    <2>1. OnWorker(c, "append") /\ pc[c] = "append"
      BY <1>5 DEF AppendRecord, OnWorker
    <2>2. own \in Inodes /\ out \in Nat \ {0} /\ seq \in Nat
      BY <2>1 DEF TypeInv, TypeOK
    <2> DEFINE w == Written(store[own].recs, out, <<seq>>)
    <2>3. /\ UNCHANGED <<main, temp, file>> /\ pc' = [pc EXCEPT ![c] = "rename"]
          /\ store' = [store EXCEPT ![own] = [count |-> hdr + 1, recs |-> w]]
      BY <1>5 DEF AppendRecord, GoTo, conn
    <2>4. store[own].recs \in Seq(Nat) /\ NoRecordTwice(store[own].recs)
      BY <2>1, <2>2, RecsTyped DEF UniqueInv, CopyUnique
    <2>5. NoRecordTwice(w)
      <3>1. <<seq>> \in Seq(Nat) /\ NoRecordTwice(<<seq>>) /\ IdsIn(<<seq>>) = {seq}
        BY <2>2 DEF NoRecordTwice, IdsIn
      <3>2. seq \notin IdsIn(store[own].recs)
        <4>1. UpTo(store[own].recs, seq - 1)
          BY <2>1, <2>2 DEF Numbered
        <4> QED
          BY <2>2, <4>1 DEF UpTo
      <3>3. NoneShared(store[own].recs, <<seq>>)
        BY <3>1, <3>2 DEF NoneShared
      <3> QED
        BY <2>2, <2>4, <3>1, <3>3, WrittenOnce
    <2> HIDE DEF w
    <2>6. /\ store'[own].recs = w
          /\ \A i \in Inodes : i # own => store'[i] = store[i]
      BY <1>0, <2>2, <2>3
    <2>7. \A d \in Calls : pc'[d] \in JobPlaces => pc'[d] = "rename"
      BY <1>2, <2>1, <2>3
    <2>8. \A i \in Inodes : NoRecordTwice(store'[i].recs) \/ Hidden(i)'
      BY <1>b, <2>3, <2>5, <2>6 DEF UniqueInv, Unique
    <2>9. temp' # None => NoRecordTwice(store'[temp'].recs)
      <3> SUFFICES ASSUME temp # None PROVE NoRecordTwice(store'[temp].recs)
        BY <2>3
      <3>1. temp \in Inodes /\ NoRecordTwice(store[temp].recs)
        BY <2>1 DEF UniqueInv, CopyUnique, TypeInv, TypeOK
      <3> QED
        BY <2>5, <2>6, <3>1
    <2>10. temp' # None => temp' \notin {main', file'}
      BY <2>3 DEF UniqueInv, Apart
    <2>11. "rename" \in CopyPlaces /\ pc'[c] = "rename"
      BY <1>0, <2>3 DEF CopyPlaces
    <2> QED
      BY <2>7, <2>8, <2>9, <2>10, <2>11, JobUnique
  <1>6. CASE Rename(c)
    <2>1. OnWorker(c, "rename") /\ pc[c] = "rename"
      BY <1>6 DEF Rename, OnWorker
    <2>2. CASE temp = None
      <3>1. pc' = [pc EXCEPT ![c] = "unlink"] /\ UNCHANGED <<store, main, temp, file>>
        BY <1>6, <2>2 DEF Rename, GoTo, conn, disk
      <3>2. \A d \in Calls : pc'[d] \in JobPlaces => pc'[d] = "unlink"
        BY <1>2, <2>1, <3>1
      <3>3. \A i \in Inodes : NoRecordTwice(store'[i].recs) \/ Hidden(i)'
        BY <1>b, <3>1 DEF UniqueInv, Unique
      <3>4. Bare'
        BY <2>2, <3>1 DEF Bare
      <3> QED
        BY <2>2, <3>1, <3>2, <3>3, <3>4, JobUnique
    <2>3. CASE temp # None
      <3>1. /\ pc' = [pc EXCEPT ![c] = "reopen"] /\ store' = store /\ file' = file
            /\ main' = temp /\ temp' = None
        BY <1>6, <2>3 DEF Rename, GoTo, conn
      <3>2. \A d \in Calls : pc'[d] \in JobPlaces => pc'[d] = "reopen"
        BY <1>2, <2>1, <3>1
      <3>3. NoRecordTwice(store[temp].recs)
        BY <2>1, <2>3 DEF UniqueInv, CopyUnique
      <3>4. \A i \in Inodes : NoRecordTwice(store'[i].recs) \/ Hidden(i)'
        BY <1>0, <3>1, <3>3 DEF UniqueInv, Unique, Hidden
      <3>5. Bare'
        BY <3>1 DEF Bare
      <3> QED
        BY <3>1, <3>2, <3>4, <3>5, JobUnique
    <2> QED
      BY <2>2, <2>3
  <1>7. CASE Reopen(c)
    <2>1. OnWorker(c, "reopen") /\ pc[c] = "reopen"
      BY <1>7 DEF Reopen, OnWorker
    <2>2. /\ UNCHANGED <<store, main, temp>> /\ file' = main
          /\ \/ pc' = [pc EXCEPT ![c] = "unlink"]
             \/ pc' = [pc EXCEPT ![c] = "done"]
      BY <1>7 DEF Reopen, OpenMain, GoTo, Complete, disk
    <2>3. \A d \in Calls : pc'[d] \in JobPlaces => pc'[d] = "unlink"
      <3>1. "done" \notin JobPlaces
        BY DEF JobPlaces
      <3>2. CASE pc' = [pc EXCEPT ![c] = "unlink"]
        BY <1>2, <2>1, <3>2
      <3>3. CASE pc' = [pc EXCEPT ![c] = "done"]
        <4>1. \A d \in Calls : pc'[d] \in JobPlaces => pc'[d] = "done"
          BY <1>2, <2>1, <3>3
        <4> QED
          BY <3>1, <4>1
      <3> QED
        BY <2>2, <3>2, <3>3
    <2>4. \A i \in Inodes : NoRecordTwice(store'[i].recs) \/ Hidden(i)'
      BY <1>b, <2>2 DEF UniqueInv, Unique
    <2>5. Bare'
      BY <1>a, <2>1, <2>2 DEF UniqueInv, EmptyCopy
    <2>6. temp' # None => temp' \notin {main', file'}
      BY <2>2 DEF UniqueInv, Apart
    <2> QED
      BY <2>3, <2>4, <2>5, <2>6, JobUnique
  <1>8. CASE Unlink(c)
    <2>1. /\ OnWorker(c, "unlink") /\ UNCHANGED <<store, main, file>> /\ temp' = None
          /\ pc' = [pc EXCEPT ![c] = "done"]
      BY <1>8 DEF Unlink, Complete, conn
    <2>2. \A d \in Calls : pc'[d] \in JobPlaces => pc'[d] = "done"
      BY <1>2, <2>1
    <2>3. \A i \in Inodes : NoRecordTwice(store'[i].recs) \/ Hidden(i)'
      BY <1>0, <2>1 DEF UniqueInv, Unique, Hidden
    <2>4. Bare'
      BY <2>1 DEF Bare
    <2> QED
      BY <2>1, <2>2, <2>3, <2>4, JobUnique
  <1>9. CASE OpenTemp(c)
    <2>1. /\ OnWorker(c, "open") /\ pc' = [pc EXCEPT ![c] = "scan"]
          /\ UNCHANGED <<store, main, temp, file, at, skewed>>
          /\ own' = temp /\ held' = <<>> /\ file # None /\ temp # None
      BY <1>9 DEF OpenTemp, GoTo, disk, conn
    <2>2. \A d \in Calls : pc'[d] \in JobPlaces => pc'[d] = "scan"
      BY <1>2, <2>1
    <2>3. Bare
      BY <2>1, NoCopyBare DEF CopyPlaces
    <2>4. temp \notin {main, file}
      BY <2>1 DEF UniqueInv, Apart
    <2>5. Apart'
      BY <2>1, <2>4 DEF Apart
    <2>6. Unique'
      BY <1>b, <2>1 DEF UniqueInv, Unique
    <2>7. CopyUnique'
      BY <2>2 DEF CopyUnique, JobPlaces
    <2>8. EmptyCopy'
      <3>1. pc'[c] \in CopyPlaces
        BY <1>0, <2>1 DEF CopyPlaces
      <3>2. \A d \in Calls : pc'[d] # "reopen"
        BY <2>2 DEF JobPlaces
      <3> QED
        BY <3>1, <3>2 DEF EmptyCopy
    <2>9. ScanTidy'
      <3>1. CASE store[temp].recs = <<>>
        <4>1. store'[own'].recs = <<>>
          BY <2>1, <3>1
        <4>2. IdsIn(store'[own'].recs) \cup IdsIn(held') = {}
          BY <2>1, <4>1, EmptyOnce
        <4>3. \A x \in (IdsIn(store'[own'].recs) \cup IdsIn(held')) \ {0} : Before(x)'
          BY <4>2
        <4>4. /\ NoRecordTwice(store'[own'].recs) /\ NoRecordTwice(held')
              /\ NoneShared(store'[own'].recs, held')
          BY <2>1, <4>1, EmptyOnce
        <4>5. Tidy'
          BY <4>3, <4>4, Zenon DEF Tidy
        <4> QED
          BY <4>5 DEF ScanTidy
      <3>2. CASE CleanNext
        <4>1. Hidden(own)'
          BY <1>0, <2>1, <2>4, <3>2 DEF Hidden
        <4> QED
          BY <4>1 DEF ScanTidy
      <3> QED
        BY <2>1, <2>3, <3>1, <3>2 DEF Bare
    <2> QED
      BY <2>5, <2>6, <2>7, <2>8, <2>9 DEF UniqueInv
  <1>10. CASE ScanChunk(c)
    BY <1>10, ScanUnique
  <1>11. CASE Seal(c)
    <2>1. OnWorker(c, "scan") /\ pc[c] = "scan"
      BY <1>11 DEF Seal, OnWorker
    <2>2. own \in Inodes /\ out \in Nat \ {0} /\ held \in Seq(Nat)
      BY <2>1 DEF TypeInv, TypeOK
    <2> DEFINE w == Written(store[own].recs, out, held)
    <2>3. /\ UNCHANGED <<main, temp>> /\ file' = None
          /\ AfterJob(c, hdr - Preserved)
          /\ store' = [store EXCEPT ![own] = [count |-> Preserved, recs |-> w]]
      BY <1>11 DEF Seal
    <2>4. PICK place \in {"relink", "replace"} : pc' = [pc EXCEPT ![c] = place]
      BY <2>3 DEF AfterJob, HandBack
    <2>5. store[own].recs \in Seq(Nat)
      BY <2>2, RecsTyped
    <2>6. Hidden(own) \/ NoRecordTwice(w)
      BY <2>1, <2>2, <2>5, WrittenOnce DEF UniqueInv, ScanTidy, Tidy
    <2> HIDE DEF w
    <2>7. /\ store'[own].recs = w
          /\ \A i \in Inodes : i # own => store'[i] = store[i]
      BY <1>0, <2>2, <2>3
    <2>8. \A i \in Inodes : NoRecordTwice(store'[i].recs) \/ Hidden(i)'
      BY <1>b, <2>2, <2>3, <2>6, <2>7 DEF UniqueInv, Unique
    <2>9. \A d \in Calls : pc'[d] \in JobPlaces => pc'[d] = place
      BY <1>2, <2>1, <2>4
    <2>10. temp' # None => temp' \notin {main', file'}
      BY <2>3 DEF UniqueInv, Apart
    <2>11. place \notin {"scan", "insert", "append", "rename", "reopen"}
      BY <2>4
    <2> QED
      BY <2>3, <2>8, <2>9, <2>10, <2>11, JobUnique
  <1> QED
    BY <1>1, <1>3, <1>4, <1>5, <1>6, <1>7, <1>8, <1>9, <1>10, <1>11 DEF Worker

LEMMA UniquePreserved ==
  ASSUME TypeInv, SchedInv, Numbered, UniqueInv, [Next]_vars
  PROVE  UniqueInv'
  <1>1. CASE UNCHANGED vars
    <2>1. UNCHANGED <<store, main, temp, file, own, held, at, skewed, pc, ready>>
      BY <1>1, Zenon DEF vars, disk, conn, local, sched
    <2>2. CleanNext => CleanNext'
      BY <2>1 DEF CleanNext
    <2> QED
      BY <2>1, <2>2, UniqueKept
  <1>2. ASSUME NEW c \in Calls, Call(c)
        PROVE  UniqueInv'
    <2>1. UNCHANGED <<store, main, temp, file, own, held, at, skewed>>
      BY <1>2, Zenon DEF Call, disk, conn, local
    <2>2. \A d \in Calls :
            /\ pc'[d] \in CopyPlaces \/ pc[d] \in CopyPlaces => pc'[d] = pc[d]
            /\ pc'[d] = "reopen" => pc[d] = "reopen"
      BY <1>2 DEF Call, CopyPlaces, TypeInv, TypeOK
    <2>3. CleanNext => CleanNext'
      BY <1>2, WorkerKeepsClean
    <2> QED
      BY <2>1, <2>2, <2>3, UniqueKept
  <1> QED
    BY <1>1, <1>2, LoopUnique, WorkerUnique DEF Next

LEMMA UniqueInitially ==
  ASSUME Init
  PROVE  Numbered /\ UniqueInv
  <1>1. Stored \in Nat
    BY ClientAssumption
  <1>2. /\ store[1].recs = [p \in 1 .. Stored |-> p]
        /\ \A i \in Inodes : i # 1 => store[i].recs = <<>>
    <2> DEFINE full  == [count |-> Stored, recs |-> [p \in 1 .. Stored |-> p]]
               empty == [count |-> 0, recs |-> <<>>]
    <2>1. store = [i \in Inodes |-> IF i = 1 THEN full ELSE empty]
      BY Zenon DEF Init
    <2>2. full.recs = [p \in 1 .. Stored |-> p] /\ empty.recs = <<>>
      OBVIOUS
    <2>3. 1 \in Inodes
      BY DEF Inodes
    <2> HIDE DEF full, empty
    <2> QED
      BY <2>1, <2>2, <2>3
  <1>3. /\ Len(store[1].recs) = Stored
        /\ \A p \in 1 .. Stored : store[1].recs[p] = p
    BY <1>1, <1>2
  <1>4. NoRecordTwice(store[1].recs) /\ UpTo(store[1].recs, Stored)
    BY <1>1, <1>3 DEF NoRecordTwice, UpTo, IdsIn
  <1>5. NoRecordTwice(<<>>) /\ UpTo(<<>>, Stored)
    BY DEF NoRecordTwice, UpTo, IdsIn
  <1>6. \A i \in Inodes : NoRecordTwice(store[i].recs) /\ UpTo(store[i].recs, Stored)
    BY <1>2, <1>4, <1>5
  <1>7. /\ \A c \in Calls : pc[c] = "new"
        /\ temp = None /\ seq = Stored /\ held = <<>>
    BY DEF Init
  <1>8. Numbered
    BY <1>5, <1>6, <1>7 DEF Numbered
  <1>9. UniqueInv
    BY <1>6, <1>7 DEF UniqueInv, Apart, Unique, CopyUnique, EmptyCopy, Bare, ScanTidy
  <1> QED
    BY <1>8, <1>9

LEMMA DataInvariant == Spec => [](SchedInv /\ TypeInv /\ Numbered /\ UniqueInv)
  <1>1. Init => SchedInv /\ TypeInv /\ Numbered /\ UniqueInv
    BY Initially, InitTyped, UniqueInitially
  <1>2. SchedInv /\ TypeInv /\ Numbered /\ UniqueInv /\ [Next]_vars =>
          (SchedInv /\ TypeInv /\ Numbered /\ UniqueInv)'
    BY SchedPreserved, TypePreserved, NumberedPreserved, UniquePreserved
  <1> QED
    BY <1>1, <1>2, PTL DEF Spec

\* Every variable keeps its type, and a copying loop (db.c) asks for no more
\* records than the header of its copy counts.
THEOREM TypeCorrect == Spec => []TypeOK
  <1>1. TypeInv => TypeOK
    BY DEF TypeInv
  <1> QED
    BY <1>1, DataInvariant, PTL

\* Whatever overlaps, deletions too, no id is twice in the vector file and none is
\* there that was never given: calls that get into each other's files may lose
\* records, never repeat one.
THEOREM RecordsAreUnique == Spec => []RecordsStayUnique
  <1>1. TypeInv /\ Numbered /\ UniqueInv => RecordsStayUnique
    <2> SUFFICES ASSUME TypeInv, Numbered, UniqueInv PROVE RecordsStayUnique
      OBVIOUS
    <2>1. main \in Inodes
      BY DEF TypeInv, TypeOK
    <2>2. NoRecordTwice(Records)
      BY <2>1 DEF UniqueInv, Unique, Hidden, Records
    <2>3. \A i \in IdsIn(Records) : i <= seq
      BY <2>1 DEF Numbered, UpTo, Records
    <2> QED
      BY <2>2, <2>3, Zenon DEF NoRecordTwice, RecordsStayUnique
  <1> QED
    BY <1>1, DataInvariant, PTL

-----------------------------------------------------------------------------
(* What the files hold, unless a deletion overlaps with another call       *)

Ascending(recs) == \A p, q \in 1 .. Len(recs) : p < q => recs[p] < recs[q]

Sound(img) == img.count = Len(img.recs) /\ Ascending(img.recs)

\* Rows and records agree, but between a transaction and the renaming.
RowsAgree ==
  \/ \E c \in Calls : pc[c] \in {"append", "rename", "replace"}
  \/ rows = IdsIn(Records)

\* An insertion copies the vector file, and writes the new record behind it.
InsertAt(c) ==
  /\ pc[c] \in {"insert", "append"} => store[temp] = store[main]
  /\ pc[c] = "append" =>
       /\ own = temp /\ hdr = store[main].count /\ out = Len(Records) + 1
       /\ rows = IdsIn(Records) \cup {seq}
  /\ pc[c] = "rename" =>
       /\ Sound(store[temp]) /\ IdsIn(store[temp].recs) = rows
       /\ IdsIn(Records) \subseteq rows

AtStart == file = main /\ at = 0 /\ ~skewed

\* What the copying loop has copied, in the file or not yet.
Copied == store[temp].recs \o held

\* A copying loop that has asked for k records is past k records, and has copied
\* those of them that stay.
Scanned(c) ==
  /\ file = main /\ own = temp /\ ~skewed
  /\ hdr = Len(Records) /\ at = k /\ out = Len(store[temp].recs) + 1
  /\ Ascending(Copied)
  /\ IdsIn(Copied) = {Records[p] : p \in 1 .. k} \ Doomed(c)
  /\ Len(Copied) <= k
  /\ Len(Copied) = k => \A p \in 1 .. k : Records[p] \notin Doomed(c)

\* A deletion finds the FILE where its statistics left it.
DeleteAt(c) ==
  /\ pc[c] = "resume" /\ Kind(c) = "delete" => AtStart /\ count[c] = Len(Records)
  /\ pc[c] = "open" =>
       AtStart /\ store[temp].count = Len(Records) /\ store[temp].recs = <<>>
  /\ pc[c] = "scan" => Scanned(c)
  /\ pc[c] = "replace" =>
       /\ Sound(store[temp]) /\ IdsIn(store[temp].recs) = rows
       /\ IdsIn(Records) \subseteq rows \cup Ids(c)

Content ==
  /\ Sound(store[main]) /\ RowsAgree
  /\ \A c \in Calls : InsertAt(c) /\ DeleteAt(c)

ContentInv == mixed \/ Content

\* All the invariants that Content builds upon.
BaseInv == SchedInv /\ TypeInv /\ Numbered /\ UniqueInv /\ UseInv /\ FileHeld

DeletePlaces == {"open", "scan", "replace", "relink", "clean"}

\* Unless a deletion overlaps, one in progress has no other call beside it.
LEMMA DeletionAlone ==
  ASSUME SchedInv, ~mixed, NEW c \in Calls, pc[c] \notin {"new", "done"},
         Kind(c) = "delete", NEW d \in Calls, d # c
  PROVE  pc[d] \in {"new", "done"}
  BY DEF SchedInv, Alone, InProgress

\* ... nor does another in progress have a deletion beside it.
LEMMA NoDeletionBeside ==
  ASSUME SchedInv, ~mixed, NEW c \in Calls, pc[c] \notin {"new", "done"},
         NEW d \in Calls, d # c
  PROVE  /\ pc[d] \notin DeletePlaces
         /\ ~(pc[d] = "resume" /\ Kind(d) = "delete")
  <1>1. pc[d] \in DeletePlaces => Kind(d) = "delete"
    BY DEF SchedInv, KindsFit, Fits, DeletePlaces
  <1>2. Kind(d) = "delete" => pc[d] \in {"new", "done"}
    BY DEF SchedInv, Alone, InProgress
  <1> QED
    BY <1>1, <1>2 DEF DeletePlaces

\* After a step of a call at work the others have nothing at stake.
LEMMA OneAtWork ==
  ASSUME SchedInv', ~mixed', NEW c \in Calls, pc'[c] \notin {"new", "done"},
         pc'[c] \in JobPlaces \/ Kind(c)' = "delete",
         NEW d \in Calls, d # c
  PROVE  InsertAt(d)' /\ DeleteAt(d)'
  <1>1. pc'[d] \in {"open", "scan", "replace"} => Kind(d)' = "delete"
    BY DEF SchedInv, KindsFit, Fits
  <1>2. Kind(d)' = "delete" => pc'[d] \in {"new", "done"}
    BY DEF SchedInv, Alone, InProgress
  <1>3. pc'[d] \notin {"insert", "append", "rename"}
    <2>1. CASE pc'[c] \in JobPlaces
      <3>1. pc'[d] \in JobPlaces => d = c
        BY <2>1, Zenon DEF SchedInv, JobAtHead
      <3> QED
        BY <3>1 DEF JobPlaces
    <2>2. CASE Kind(c)' = "delete"
      BY <2>2 DEF SchedInv, Alone, InProgress
    <2> QED
      BY <2>1, <2>2
  <1> QED
    BY <1>1, <1>2, <1>3 DEF InsertAt, DeleteAt

\* A step that leaves the vector file and the rows, and what the others in the
\* middle of something rely on.
LEMMA ContentKept ==
  ASSUME Content, UNCHANGED <<rows, seq, main, asked>>,
         store'[main] = store[main],
         \A d \in Calls :
           /\ pc[d] \in {"append", "rename", "replace"} => pc'[d] = pc[d]
           /\ pc'[d] \in {"insert", "append", "rename"} =>
                /\ pc'[d] = pc[d]
                /\ UNCHANGED <<store, temp, own, hdr, out>>
           /\ \/ pc'[d] \in {"open", "scan", "replace"}
              \/ pc'[d] = "resume" /\ Kind(d) = "delete"
              => /\ pc'[d] = pc[d]
                 /\ UNCHANGED <<store, temp, file, at, count>>
                 /\ UNCHANGED <<own, hdr, k, out, held>>
                 /\ skewed <=> skewed'
  PROVE  Content'
  <1>1. Sound(store[main])' /\ Records' = Records
    BY DEF Content, Sound, Records
  <1>2. RowsAgree'
    <2>1. ASSUME NEW c \in Calls, pc[c] \in {"append", "rename", "replace"}
          PROVE  RowsAgree'
      BY <2>1 DEF RowsAgree
    <2> QED
      BY <1>1, <2>1 DEF Content, RowsAgree
  <1>3. ASSUME NEW c \in Calls
        PROVE  InsertAt(c)'
    <2>1. CASE pc'[c] \in {"insert", "append", "rename"}
      BY <1>1, <2>1 DEF Content, InsertAt
    <2> QED
      BY <2>1 DEF InsertAt
  <1>4. ASSUME NEW c \in Calls
        PROVE  DeleteAt(c)'
    <2>0. Kind(c)' = Kind(c) /\ Ids(c)' = Ids(c) /\ Doomed(c)' = Doomed(c)
      BY DEF Kind, Ids, Doomed
    <2>1. CASE pc'[c] = "resume" /\ Kind(c) = "delete"
      <3>1. pc[c] = "resume" /\ UNCHANGED <<file, at, count>> /\ (skewed <=> skewed')
        BY <2>1
      <3>2. AtStart /\ count[c] = Len(Records)
        BY <2>1, <3>1 DEF Content, DeleteAt
      <3>3. AtStart'
        BY <3>1, <3>2, Zenon DEF AtStart
      <3> QED
        BY <1>1, <2>1, <3>1, <3>2, <3>3 DEF DeleteAt
    <2>2. CASE pc'[c] = "open"
      <3>1. pc[c] = "open" /\ UNCHANGED <<store, temp, file, at>> /\ (skewed <=> skewed')
        BY <2>2
      <3>2. AtStart /\ store[temp].count = Len(Records) /\ store[temp].recs = <<>>
        BY <3>1 DEF Content, DeleteAt
      <3>3. AtStart'
        BY <3>1, <3>2, Zenon DEF AtStart
      <3> QED
        BY <1>1, <2>2, <3>1, <3>2, <3>3 DEF DeleteAt
    <2>3. CASE pc'[c] = "scan"
      <3>1. /\ pc[c] = "scan" /\ UNCHANGED <<store, temp, file, at>>
            /\ UNCHANGED <<own, hdr, k, out, held>> /\ (skewed <=> skewed')
        BY <2>3
      <3>2. Scanned(c)
        BY <3>1 DEF Content, DeleteAt
      <3>3. Copied' = Copied
        BY <3>1 DEF Copied
      <3>4. Scanned(c)'
        BY <1>1, <2>0, <3>1, <3>2, <3>3, Zenon DEF Scanned
      <3> QED
        BY <2>3, <3>4 DEF DeleteAt
    <2>4. CASE pc'[c] = "replace"
      BY <1>1, <2>0, <2>4 DEF Content, DeleteAt
    <2> QED
      BY <2>0, <2>1, <2>2, <2>3, <2>4 DEF DeleteAt
  <1> QED
    BY <1>1, <1>2, <1>3, <1>4 DEF Content

LEMMA CallContent ==
  ASSUME BaseInv, ~mixed, Content, NEW c \in Calls, Call(c)
  PROVE  Content'
  <1>0. pc \in [Calls -> Places]
    BY DEF BaseInv, TypeInv, TypeOK
  <1>1. /\ UNCHANGED <<rows, seq, main, asked, store, temp, file, at, skewed, count>>
        /\ UNCHANGED <<own, hdr, k, out, held>>
    BY Zenon DEF Call, disk, conn, sqlite, local
  <1>2. pc[c] = "new" /\ pc' = [pc EXCEPT ![c] = "begin"]
    BY DEF Call
  <1>3. \A d \in Calls : pc'[d] = pc[d] \/ (d = c /\ pc'[d] = "begin")
    BY <1>0, <1>2
  <1> QED
    BY <1>1, <1>2, <1>3, ContentKept

LEMMA LoopContent ==
  ASSUME BaseInv, ~mixed, Content, SchedInv', ~mixed', NEW c \in Calls, Loop(c)
  PROVE  Content'
  <1>0. /\ pc \in [Calls -> Places] /\ main \in Inodes /\ store \in [Inodes -> Image]
        /\ \A i \in Inodes : i # None
        /\ SchedInv
    BY DEF BaseInv, TypeInv, TypeOK, Inodes, None
  <1>1. CASE Begin(c) \/ StopAtStats(c) \/ GoOnWithJob(c)
    <2>1. /\ UNCHANGED <<rows, seq, main, asked, store, temp, file, at, skewed, count>>
          /\ UNCHANGED <<own, hdr, k, out, held>>
      BY <1>1, Zenon DEF Begin, StopAtStats, GoOnWithJob, disk, conn, sqlite, given, local
    <2>2. /\ pc[c] \in {"begin", "resume"}
          /\ \E place \in {"copy", "read", "stats", "clean", "done", "change"} :
               pc' = [pc EXCEPT ![c] = place]
      BY <1>1 DEF Begin, StopAtStats, GoOnWithJob, OnLoop, Submit, GoTo
    <2>3. \A d \in Calls :
            \/ pc'[d] = pc[d]
            \/ /\ pc[d] \in {"begin", "resume"}
               /\ pc'[d] \in {"copy", "read", "stats", "clean", "done", "change"}
      BY <1>0, <2>2
    <2> QED
      BY <2>1, <2>3, ContentKept
  <1>2. CASE WriteHeader(c)
    <2>1. /\ pc[c] = "resume" /\ Kind(c) = "delete" /\ pc' = [pc EXCEPT ![c] = "open"]
          /\ UNCHANGED <<rows, seq, asked, file, at, skewed, count>>
      BY <1>2 DEF WriteHeader, OnLoop, Submit, conn, sqlite, given
    <2> DEFINE img == [count |-> count[c], recs |-> <<>>]
    <2>2. img \in Image /\ img.count = count[c] /\ img.recs = <<>>
      BY DEF BaseInv, TypeInv, TypeOK, Image
    <2>3. WriteTemp(img)
      BY <1>2 DEF WriteHeader
    <2> HIDE DEF img
    <2>4. /\ main' = main /\ store'[temp'] = img /\ temp' \in Inodes
          /\ \A i \in Inodes : i # temp' => store'[i] = store[i]
          /\ temp # None => temp' = temp
          /\ temp = None => temp' \notin {main, file, own}
      BY <2>2, <2>3, TempWritten DEF BaseInv
    <2>5. store'[main'] = store[main]
      BY <1>0, <2>4 DEF BaseInv, UniqueInv, Apart
    <2>6. Sound(store[main])' /\ Records' = Records
      BY <2>5 DEF Content, Sound, Records
    <2>7. /\ pc'[c] = "open" /\ Kind(c)' = "delete"
          /\ \A d \in Calls : d # c => pc'[d] = pc[d]
      BY <1>0, <2>1 DEF Kind
    <2>8. RowsAgree'
      <3>1. \A d \in Calls : pc[d] \in {"append", "rename", "replace"} => pc'[d] = pc[d]
        BY <2>1, <2>7
      <3> QED
        BY <2>1, <2>6, <3>1 DEF Content, RowsAgree
    <2>9. AtStart /\ count[c] = Len(Records)
      BY <2>1 DEF Content, DeleteAt
    <2>10. AtStart'
      BY <2>1, <2>4, <2>9, Zenon DEF AtStart
    <2>11. InsertAt(c)' /\ DeleteAt(c)'
      BY <2>2, <2>4, <2>6, <2>7, <2>9, <2>10 DEF InsertAt, DeleteAt
    <2>12. \A d \in Calls : d # c => InsertAt(d)' /\ DeleteAt(d)'
      BY <2>7, OneAtWork
    <2> QED
      BY <2>6, <2>8, <2>11, <2>12 DEF Content
  <1>3. CASE Replace(c)
    <2>1. pc[c] = "replace" /\ temp # None
      BY <1>3 DEF Replace, OnLoop, BaseInv, UseInv, TempStays
    <2>2. /\ main' = temp /\ UNCHANGED <<store, rows, asked>>
          /\ pc' = [pc EXCEPT ![c] = "relink"]
      BY <1>3, <2>1 DEF Replace, GoTo, sqlite, given
    <2>3. Kind(c) = "delete"
      BY <2>1 DEF BaseInv, SchedInv, KindsFit, Fits
    <2>4. Sound(store[temp]) /\ IdsIn(store[temp].recs) = rows
      BY <2>1 DEF Content, DeleteAt
    <2>5. Sound(store[main])' /\ RowsAgree'
      BY <2>2, <2>4 DEF Sound, RowsAgree, Records
    <2>6. pc'[c] = "relink" /\ Kind(c)' = "delete"
      BY <1>0, <2>2, <2>3 DEF Kind
    <2>7. InsertAt(c)' /\ DeleteAt(c)'
      BY <2>6 DEF InsertAt, DeleteAt
    <2>8. \A d \in Calls : d # c => InsertAt(d)' /\ DeleteAt(d)'
      BY <2>6, OneAtWork
    <2> QED
      BY <2>5, <2>7, <2>8 DEF Content
  <1>4. CASE Relink(c) \/ Clean(c)
    <2>1. /\ UNCHANGED <<rows, seq, main, asked, store>>
          /\ pc[c] \in {"relink", "clean"}
          /\ \/ pc' = [pc EXCEPT ![c] = "clean"]
             \/ pc' = [pc EXCEPT ![c] = "done"]
             \/ pc' = pc
      BY <1>4 DEF Relink, Clean, OnLoop, GoTo, Perish, disk, sqlite, given
    <2>2. Kind(c) = "delete"
      BY <2>1 DEF BaseInv, SchedInv, KindsFit, Fits
    <2>3. \A d \in Calls : d # c => pc[d] \in {"new", "done"}
      BY <1>0, <2>1, <2>2, DeletionAlone
    <2>4. \A d \in Calls : pc'[d] \in {"new", "done", "relink", "clean"}
      BY <1>0, <2>1, <2>3
    <2>5. \A d \in Calls : pc[d] \notin {"append", "rename", "replace"}
      BY <2>1, <2>3
    <2> QED
      BY <2>1, <2>4, <2>5, ContentKept
  <1> QED
    BY <1>1, <1>2, <1>3, <1>4 DEF Loop

LEMMA AscendingConcat ==
  ASSUME NEW a \in Seq(Nat), NEW b \in Seq(Nat), Ascending(a), Ascending(b),
         \A x \in IdsIn(a), y \in IdsIn(b) : x < y
  PROVE  Ascending(a \o b)
  <1>0. Len(a) \in Nat /\ Len(b) \in Nat
    OBVIOUS
  <1>1. /\ Len(a \o b) = Len(a) + Len(b)
        /\ \A q \in 1 .. Len(a) : (a \o b)[q] = a[q]
        /\ \A q \in 1 .. Len(b) : (a \o b)[Len(a) + q] = b[q]
    BY ConcatFacts
  <1> SUFFICES ASSUME NEW p \in 1 .. Len(a \o b), NEW q \in 1 .. Len(a \o b), p < q
               PROVE  (a \o b)[p] < (a \o b)[q]
    BY DEF Ascending
  <1>2. p \in Nat /\ q \in Nat /\ 1 <= p /\ q <= Len(a) + Len(b)
    BY <1>0, <1>1
  <1>3. CASE q <= Len(a)
    <2>1. p \in 1 .. Len(a) /\ q \in 1 .. Len(a)
      BY <1>0, <1>2, <1>3
    <2> QED
      BY <1>1, <2>1 DEF Ascending
  <1>4. CASE q > Len(a)
    <2>1. q - Len(a) \in 1 .. Len(b) /\ q = Len(a) + (q - Len(a))
      BY <1>0, <1>2, <1>4
    <2>2. (a \o b)[q] = b[q - Len(a)]
      BY <1>1, <2>1
    <2>3. CASE p <= Len(a)
      <3>1. p \in 1 .. Len(a)
        BY <1>0, <1>2, <2>3
      <3>2. (a \o b)[p] = a[p] /\ a[p] \in IdsIn(a) /\ b[q - Len(a)] \in IdsIn(b)
        BY <1>1, <2>1, <3>1 DEF IdsIn
      <3> QED
        BY <2>2, <3>2
    <2>4. CASE p > Len(a)
      <3>1. /\ p - Len(a) \in 1 .. Len(b) /\ p = Len(a) + (p - Len(a))
            /\ p - Len(a) < q - Len(a)
        BY <1>0, <1>2, <2>4
      <3>2. (a \o b)[p] = b[p - Len(a)]
        BY <1>1, <3>1
      <3> QED
        BY <2>1, <2>2, <3>1, <3>2 DEF Ascending
    <2> QED
      BY <1>0, <1>2, <2>3, <2>4
  <1> QED
    BY <1>0, <1>2, <1>3, <1>4

LEMMA SurvivorsAscend ==
  ASSUME NEW recs \in Seq(Nat), NEW gone, Ascending(recs)
  PROVE  Ascending(Survivors(recs, gone))
  <1> DEFINE s == Survivors(recs, gone)
  <1>1. \A i, j \in 1 .. Len(s) : i < j =>
          \E p, r \in 1 .. Len(recs) : p < r /\ s[i] = recs[p] /\ s[j] = recs[r]
    BY SurvivorsAre
  <1> HIDE DEF s
  <1>2. Ascending(s)
    BY <1>1 DEF Ascending
  <1> QED
    BY <1>2 DEF s

\* A chunk at its place in the vector file, and the survivors of it.
LEMMA ChunkInPlace ==
  ASSUME BaseInv, Content, NEW c \in Calls, ScanChunk(c), Scanned(c)
  PROVE  LET s == Survivors(Got, Doomed(c)) IN
         /\ at' = k + ChunkLen /\ k + ChunkLen <= Len(Records)
         /\ s \in Seq(Nat) /\ Len(s) \in Nat /\ Len(s) <= ChunkLen /\ Ascending(s)
         /\ IdsIn(s) = {Records[p] : p \in k + 1 .. k + ChunkLen} \ Doomed(c)
         /\ Len(s) = ChunkLen =>
              \A p \in k + 1 .. k + ChunkLen : Records[p] \notin Doomed(c)
  <1> DEFINE s == Survivors(Got, Doomed(c))
  <1>1. /\ hdr = Len(Records) /\ at = k /\ store[file].recs = Records
        /\ skewed = FALSE
    <2>1. file = main /\ ~skewed /\ hdr = Len(Records) /\ at = k
      BY DEF Scanned
    <2>2. skewed \in BOOLEAN
      BY DEF BaseInv, TypeInv, TypeOK
    <2>3. skewed = FALSE
      BY <2>1, <2>2, Zenon
    <2> QED
      BY <2>1, <2>3 DEF Records
  <1>2. /\ k \in Nat /\ main \in Inodes
    BY DEF BaseInv, TypeInv, TypeOK
  <1>3. Records \in Seq(Nat) /\ Len(Records) \in Nat
    BY <1>2, RecsTyped DEF BaseInv, Records
  <1>4. /\ ChunkLen \in Nat \ {0} /\ k + ChunkLen <= hdr /\ Got \in Seq(Nat)
        /\ Len(Got) = IF Full THEN ChunkLen ELSE 0
        /\ \A j \in 1 .. Len(Got) :
             Got[j] = IF skewed THEN 0 ELSE store[file].recs[at + j]
    BY ChunkRead DEF BaseInv
  <1>5. Full
    BY <1>1, <1>4 DEF Full
  <1>6. /\ Len(Got) = ChunkLen
        /\ \A j \in 1 .. ChunkLen : Got[j] = Records[k + j]
    BY <1>1, <1>4, <1>5
  <1>7. at' = k + ChunkLen
    BY <1>1, <1>5, ChunkKept DEF BaseInv
  <1>8. IdsIn(Got) = {Records[p] : p \in k + 1 .. k + ChunkLen}
    <2>1. ASSUME NEW j \in 1 .. ChunkLen
          PROVE  \E p \in k + 1 .. k + ChunkLen : Got[j] = Records[p]
      <3>1. k + j \in k + 1 .. k + ChunkLen
        BY <1>2, <1>4
      <3> QED
        BY <1>6, <3>1
    <2>2. ASSUME NEW p \in k + 1 .. k + ChunkLen
          PROVE  \E j \in 1 .. ChunkLen : Got[j] = Records[p]
      <3>1. p - k \in 1 .. ChunkLen /\ k + (p - k) = p
        BY <1>2, <1>4
      <3> QED
        BY <1>6, <3>1
    <2> QED
      BY <1>6, <2>1, <2>2 DEF IdsIn
  <1>9. Ascending(Got)
    <2> SUFFICES ASSUME NEW i \in 1 .. Len(Got), NEW j \in 1 .. Len(Got), i < j
                 PROVE  Got[i] < Got[j]
      BY DEF Ascending
    <2>1. /\ k + i \in 1 .. Len(Records) /\ k + j \in 1 .. Len(Records)
          /\ k + i < k + j
      BY <1>1, <1>2, <1>3, <1>4, <1>6
    <2>2. Records[k + i] < Records[k + j]
      BY <2>1 DEF Content, Sound, Ascending, Records
    <2>3. Got[i] = Records[k + i] /\ Got[j] = Records[k + j]
      BY <1>6
    <2> QED
      BY <2>2, <2>3
  <1>10. /\ s \in Seq(Nat) /\ Len(s) <= Len(Got)
         /\ IdsIn(s) = IdsIn(Got) \ Doomed(c)
         /\ Len(s) = Len(Got) => IdsIn(Got) \cap Doomed(c) = {}
    BY <1>4, SurvivorsAre
  <1>11. Ascending(s)
    BY <1>4, <1>9, SurvivorsAscend
  <1> HIDE DEF s
  <1>12. Len(s) \in Nat
    BY <1>10
  <1>13. Len(s) = ChunkLen => \A p \in k + 1 .. k + ChunkLen : Records[p] \notin Doomed(c)
    BY <1>6, <1>8, <1>10
  <1> QED
    BY <1>1, <1>4, <1>6, <1>7, <1>8, <1>10, <1>11, <1>12, <1>13, Zenon DEF s

\* However much of the chunk is written, what is copied grows by its survivors.
LEMMA CopiedGrows ==
  ASSUME BaseInv, NEW c \in Calls, ScanChunk(c), Scanned(c)
  PROVE  /\ Copied \in Seq(Nat)
         /\ Copied' = Copied \o Survivors(Got, Doomed(c))
         /\ out' = Len(store'[temp].recs) + 1
  <1> DEFINE mine == store[temp].recs
             s    == Survivors(Got, Doomed(c))
  <1>1. own = temp /\ out = Len(mine) + 1
    BY DEF Scanned
  <1>2. own \in Inodes /\ s \in Seq(Nat) /\ Keep(c) \in Seq(Nat)
    BY ChunkRead DEF BaseInv
  <1>3. held \in Seq(Nat) /\ mine \in Seq(Nat) /\ Len(mine) \in Nat
    BY <1>1, <1>2, RecsTyped DEF BaseInv, TypeInv, TypeOK
  <1>4. /\ temp' = temp /\ Keep(c) = held \o s
        /\ \/ /\ BufferSize \in Nat \ {0} /\ BufferSize <= Len(Keep(c))
              /\ store'[own].recs =
                   Written(store[own].recs, out, SubSeq(Keep(c), 1, BufferSize))
              /\ out' = out + BufferSize
              /\ held' = SubSeq(Keep(c), BufferSize + 1, Len(Keep(c)))
           \/ store'[own] = store[own] /\ out' = out /\ held' = Keep(c)
    BY ChunkKept DEF BaseInv, Keep
  <1> HIDE DEF s, mine
  <1>5. Copied = mine \o held /\ Copied \in Seq(Nat)
    BY <1>3, ConcatFacts DEF Copied, mine
  <1>6. mine \o (held \o s) = (mine \o held) \o s
    BY <1>2, <1>3, ConcatAssociative
  <1>7. CASE store'[own] = store[own] /\ out' = out /\ held' = Keep(c)
    <2>1. Copied' = mine \o Keep(c)
      BY <1>1, <1>4, <1>7 DEF Copied, mine
    <2> QED
      BY <1>1, <1>4, <1>5, <1>6, <1>7, <2>1 DEF s, mine
  <1>8. CASE ~(store'[own] = store[own] /\ out' = out /\ held' = Keep(c))
    <2> DEFINE a == SubSeq(Keep(c), 1, BufferSize)
               b == SubSeq(Keep(c), BufferSize + 1, Len(Keep(c)))
    <2>1. /\ BufferSize \in Nat \ {0} /\ BufferSize <= Len(Keep(c))
          /\ store'[temp].recs = Written(mine, Len(mine) + 1, a)
          /\ out' = Len(mine) + 1 + BufferSize
          /\ held' = b
      BY <1>1, <1>4, <1>8 DEF mine
    <2>2. /\ a \in Seq(Nat) /\ b \in Seq(Nat) /\ a \o b = Keep(c)
          /\ Len(a) = BufferSize
      BY <1>2, <2>1, CutInTwo
    <2> HIDE DEF a, b
    <2>3. store'[temp].recs = mine \o a
      BY <1>3, <2>1, <2>2, WrittenAtEnd
    <2>4. Len(mine \o a) = Len(mine) + BufferSize
      BY <1>3, <2>2, ConcatFacts
    <2>5. (mine \o a) \o b = mine \o (a \o b)
      <3>1. mine \in Seq(Nat) /\ a \in Seq(Nat) /\ b \in Seq(Nat)
        BY <1>3, <2>2
      <3> QED
        BY <3>1, ConcatAssociative
    <2>6. Copied' = mine \o Keep(c)
      BY <1>4, <2>1, <2>2, <2>3, <2>5 DEF Copied
    <2>7. out' = Len(store'[temp].recs) + 1
      <3>1. BufferSize \in Nat /\ out' = Len(mine) + 1 + BufferSize
        BY <2>1
      <3>2. Len(store'[temp].recs) = Len(mine) + BufferSize
        BY <2>3, <2>4, Zenon
      <3>3. Len(mine) \in Nat
        BY <1>3
      <3> QED
        BY <1>4, <3>1, <3>2, <3>3
    <2> QED
      BY <1>4, <1>5, <1>6, <2>6, <2>7 DEF s
  <1> QED
    BY <1>4, <1>7, <1>8

\* After a step of a deletion that keeps the vector file it is enough to look at
\* the deletion.
LEMMA DeletionContent ==
  ASSUME BaseInv, ~mixed, Content, SchedInv', ~mixed', UNCHANGED <<rows, main, asked>>,
         store'[main] = store[main], NEW c \in Calls, NEW place \in Places,
         pc[c] \in {"stats", "open", "scan"}, Kind(c) = "delete",
         pc' = [pc EXCEPT ![c] = place],
         place \in {"resume", "open", "scan"}, DeleteAt(c)'
  PROVE  Content'
  <1>0. pc \in [Calls -> Places]
    BY DEF BaseInv, TypeInv, TypeOK
  <1>1. /\ pc'[c] = place /\ Kind(c)' = "delete"
        /\ \A d \in Calls : d # c => pc'[d] = pc[d]
    BY <1>0 DEF Kind
  <1>2. Sound(store[main])' /\ Records' = Records
    BY DEF Content, Sound, Records
  <1>3. RowsAgree'
    <2>1. \A d \in Calls : pc[d] \in {"append", "rename", "replace"} => pc'[d] = pc[d]
      BY <1>1
    <2> QED
      BY <1>2, <2>1 DEF Content, RowsAgree
  <1>4. InsertAt(c)'
    BY <1>1 DEF InsertAt
  <1>5. \A d \in Calls : d # c => InsertAt(d)' /\ DeleteAt(d)'
    BY <1>1, OneAtWork
  <1> QED
    BY <1>2, <1>3, <1>4, <1>5 DEF Content

LEMMA StatsContent ==
  ASSUME BaseInv, ~mixed, Content, SchedInv', ~mixed', NEW c \in Calls, Stats(c)
  PROVE  Content'
  <1>0. pc \in [Calls -> Places] /\ SchedInv /\ count \in [Calls -> Nat]
    BY DEF BaseInv, TypeInv, TypeOK
  <1>1. OnWorker(c, "stats") /\ pc[c] = "stats"
    BY DEF Stats, OnWorker
  <1>2. UNCHANGED <<rows, seq, main, asked, store, temp, own, hdr, k, out, held, file>>
    BY DEF Stats, Perish, disk, conn, sqlite, given, local
  <1>3. file # None
    BY <1>1, ReadersFindFile DEF BaseInv
  <1>4. /\ count' = [count EXCEPT ![c] = store[file].count]
        /\ at' = 0 /\ skewed' = FALSE /\ pc' = [pc EXCEPT ![c] = "resume"]
    BY <1>3 DEF Stats, HandBack
  <1>5. /\ pc'[c] = "resume" /\ \A d \in Calls : d # c => pc'[d] = pc[d]
        /\ "resume" \in Places
    BY <1>0, <1>4 DEF Places
  <1>6. CASE Kind(c) = "delete"
    <2>1. \A d \in Calls : pc[d] \notin {"reopen", "relink"}
      <3> SUFFICES ASSUME NEW d \in Calls, d # c PROVE pc[d] \in {"new", "done"}
        BY <1>1
      <3> QED
        BY <1>0, <1>1, <1>6, DeletionAlone
    <2>2. file = main
      BY <1>3, <2>1 DEF BaseInv, FileHeld
    <2>3. count'[c] = Len(Records)
      BY <1>0, <1>4, <2>2 DEF Content, Sound, Records
    <2>4. Records' = Records
      BY <1>2 DEF Records
    <2>5. AtStart'
      BY <1>2, <1>4, <2>2, Zenon DEF AtStart
    <2>6. DeleteAt(c)'
      BY <1>5, <2>3, <2>4, <2>5 DEF DeleteAt
    <2> QED
      BY <1>1, <1>2, <1>4, <1>5, <1>6, <2>6, DeletionContent
  <1>7. CASE Kind(c) # "delete"
    <2>1. \A d \in Calls : d # c =>
            /\ pc[d] \notin DeletePlaces
            /\ ~(pc[d] = "resume" /\ Kind(d) = "delete")
      BY <1>0, <1>1, NoDeletionBeside
    <2>2. \A d \in Calls :
            /\ pc[d] \in {"append", "rename", "replace"} => pc'[d] = pc[d]
            /\ pc'[d] \in {"insert", "append", "rename"} => pc'[d] = pc[d]
            /\ pc'[d] \notin {"open", "scan", "replace"}
            /\ ~(pc'[d] = "resume" /\ Kind(d) = "delete")
      BY <1>1, <1>5, <1>7, <2>1 DEF DeletePlaces
    <2> QED
      BY <1>2, <2>2, ContentKept
  <1> QED
    BY <1>6, <1>7

\* A job that leaves the files alone, or the name of a ".temp" that nobody needs.
LEMMA OtherJobsContent ==
  ASSUME BaseInv, ~mixed, Content, NEW c \in Calls,
         \/ Reopen(c) \/ Unlink(c) \/ Change(c) \/ ChangeNothing(c)
         \/ ReadRecords(c) \/ ReadNull(c) \/ DeleteNothing(c)
  PROVE  Content'
  <1>0. pc \in [Calls -> Places] /\ SchedInv
    BY DEF BaseInv, TypeInv, TypeOK
  <1>1. PICK from \in {"reopen", "unlink", "change", "read", "open"} : OnWorker(c, from)
    BY DEF Reopen, Unlink, Change, ChangeNothing, ReadRecords, ReadNull, DeleteNothing
  <1>2. pc[c] = from
    BY <1>1 DEF OnWorker
  <1>3. UNCHANGED <<rows, seq, main, asked, store>>
    BY DEF Reopen, Unlink, Change, ChangeNothing, ReadRecords, ReadNull, DeleteNothing,
       Perish, disk, sqlite, given
  <1>4. DeleteNothing(c) => pc' = [pc EXCEPT ![c] = "relink"]
    <2> SUFFICES ASSUME DeleteNothing(c) PROVE pc' = [pc EXCEPT ![c] = "relink"]
      OBVIOUS
    <2>1. pc[c] = "open" /\ AfterJob(c, 0)
      BY DEF DeleteNothing, OnWorker
    <2>2. file # None /\ temp # None
      <3>1. AtStart
        BY <2>1 DEF Content, DeleteAt
      <3>2. main # None
        BY DEF BaseInv, TypeInv, TypeOK, Inodes, None
      <3> QED
        BY <2>1, <3>1, <3>2 DEF AtStart, BaseInv, UseInv, TempStays
    <2>3. Doomed(c) = {}
      BY <2>2 DEF DeleteNothing
    <2>4. Kind(c) = "delete" /\ asked[c] \in Requests
      BY <2>1 DEF BaseInv, SchedInv, KindsFit, Fits, TypeInv, TypeOK
    <2>5. asked[c].filtered
      BY <2>3, <2>4, ClientAssumption DEF Doomed, Kind, Ids
    <2> QED
      BY <2>1, <2>5 DEF AfterJob, HandBack
  <1>5. \E place \in {"unlink", "done", "reopen", "relink", pc[c]} :
          pc' = [pc EXCEPT ![c] = place]
    BY <1>0, <1>4 DEF Reopen, Unlink, Change, ChangeNothing, ReadRecords, ReadNull,
       GoTo, Complete, Perish
  <1>6. \/ pc'[c] \in {"unlink", "done", "reopen", "relink"}
        \/ pc'[c] = pc[c] /\ ReadNull(c)
    BY <1>0, <1>4 DEF Reopen, Unlink, Change, ChangeNothing, ReadRecords, ReadNull,
       GoTo, Complete, Perish
  <1>7. \A d \in Calls : d # c => pc'[d] = pc[d]
    BY <1>0, <1>5
  <1>8. pc'[c] \in {"unlink", "done", "reopen", "relink", "read"}
    BY <1>6 DEF ReadNull, OnWorker
  <1>9. \A d \in Calls : d # c =>
          /\ pc[d] \notin DeletePlaces
          /\ ~(pc[d] = "resume" /\ Kind(d) = "delete")
    BY <1>0, <1>2, NoDeletionBeside
  <1>10. \A d \in Calls : d # c => pc[d] \notin {"insert", "append", "rename"}
    BY <1>0, <1>1, OneJob DEF JobPlaces
  <1>11. \A d \in Calls :
          /\ pc[d] \in {"append", "rename", "replace"} => pc'[d] = pc[d]
          /\ pc'[d] \notin {"insert", "append", "rename", "open", "scan", "replace"}
          /\ ~(pc'[d] = "resume" /\ Kind(d) = "delete")
    BY <1>1, <1>2, <1>7, <1>8, <1>9, <1>10 DEF DeletePlaces
  <1> QED
    BY <1>3, <1>11, ContentKept

\* The steps of an insertion, from its copy to the renaming.
LEMMA InsertionContent ==
  ASSUME BaseInv, ~mixed, Content, SchedInv', ~mixed', NEW c \in Calls,
         Copy(c) \/ InsertRow(c) \/ AppendRecord(c) \/ Rename(c)
  PROVE  Content'
  <1>0. /\ pc \in [Calls -> Places] /\ SchedInv /\ main \in Inodes
        /\ store \in [Inodes -> Image] /\ store[main].recs \in Seq(Nat)
        /\ seq \in Nat
    BY RecsTyped DEF BaseInv, TypeInv, TypeOK
  <1>1. PICK from \in {"copy", "insert", "append", "rename"} :
          OnWorker(c, from) /\ pc[c] = from
    BY DEF Copy, InsertRow, AppendRecord, Rename, OnWorker
  <1>2. from # "copy" => temp # None /\ temp \in Inodes /\ temp # main
    <2>1. temp # None => temp \in Inodes /\ temp # main
      BY DEF BaseInv, TypeInv, TypeOK, UniqueInv, Apart
    <2> QED
      BY <1>1, <2>1 DEF BaseInv, UseInv, TempStays
  <1>3. ASSUME NEW place \in JobPlaces, pc' = [pc EXCEPT ![c] = place]
        PROVE  /\ pc'[c] = place
               /\ \A d \in Calls : d # c => InsertAt(d)' /\ DeleteAt(d)'
    <2>1. pc'[c] = place
      BY <1>0, <1>3
    <2>2. place \notin {"new", "done"}
      BY DEF JobPlaces
    <2> QED
      BY <2>1, <2>2, OneAtWork
  <1>4. {"insert", "append", "rename", "reopen"} \subseteq JobPlaces
    BY DEF JobPlaces
  <1>5. \A d \in Calls : d # c => pc[d] \notin {"append", "rename", "replace"}
    <2> SUFFICES ASSUME NEW d \in Calls, d # c
                 PROVE  pc[d] \notin {"append", "rename", "replace"}
      OBVIOUS
    <2>1. pc[d] \notin DeletePlaces
      BY <1>0, <1>1, NoDeletionBeside
    <2>2. pc[d] \notin JobPlaces
      BY <1>0, <1>1, OneJob
    <2> QED
      BY <2>1, <2>2 DEF DeletePlaces, JobPlaces
  <1>6. CASE Copy(c)
    <2>1. /\ pc' = [pc EXCEPT ![c] = "insert"] /\ rows' = rows
          /\ WriteTemp(store[main]) /\ pc[c] = "copy"
      BY <1>6 DEF Copy, GoTo, OnWorker, sqlite
    <2>2. /\ main' = main /\ store'[temp'] = store[main] /\ temp' \in Inodes
          /\ \A i \in Inodes : i # temp' => store'[i] = store[i]
          /\ temp # None => temp' = temp
          /\ temp = None => temp' \notin {main, file, own}
      BY <1>0, <2>1, TempWritten DEF BaseInv
    <2>3. store'[main'] = store[main]
      BY <1>0, <2>2
    <2>4. /\ pc'[c] = "insert"
          /\ \A d \in Calls : d # c => InsertAt(d)' /\ DeleteAt(d)'
      BY <1>3, <1>4, <2>1
    <2>5. Sound(store[main])'
      BY <2>3 DEF Content, Sound
    <2>6. RowsAgree'
      <3>1. rows = IdsIn(Records)
        BY <1>5, <2>1 DEF Content, RowsAgree
      <3> QED
        BY <2>1, <2>3, <3>1 DEF RowsAgree, Records
    <2>7. InsertAt(c)' /\ DeleteAt(c)'
      BY <2>2, <2>3, <2>4 DEF InsertAt, DeleteAt
    <2> QED
      BY <2>4, <2>5, <2>6, <2>7 DEF Content
  <1>7. CASE InsertRow(c)
    <2>1. pc[c] = "insert" /\ temp # None /\ store[temp] = store[main]
      BY <1>1, <1>2, <1>7 DEF InsertRow, OnWorker, Content, InsertAt
    <2>2. /\ pc' = [pc EXCEPT ![c] = "append"] /\ UNCHANGED <<store, main, temp>>
          /\ own' = temp /\ hdr' = store[temp].count
          /\ out' = Len(store[temp].recs) + 1
          /\ seq' = NextRowId /\ rows' = rows \cup {NextRowId}
      BY <1>7, <2>1 DEF InsertRow, GoTo, disk
    <2>3. rows = IdsIn(Records)
      BY <1>5, <2>1 DEF Content, RowsAgree
    <2>4. /\ pc'[c] = "append"
          /\ \A d \in Calls : d # c => InsertAt(d)' /\ DeleteAt(d)'
      BY <1>3, <1>4, <2>2
    <2>5. Sound(store[main])' /\ RowsAgree'
      BY <2>2, <2>4 DEF Content, Sound, RowsAgree
    <2>6. InsertAt(c)' /\ DeleteAt(c)'
      BY <2>1, <2>2, <2>3, <2>4 DEF InsertAt, DeleteAt, Records
    <2> QED
      BY <2>4, <2>5, <2>6 DEF Content
  <1>8. CASE AppendRecord(c)
    <2>1. pc[c] = "append"
      BY <1>8 DEF AppendRecord, OnWorker
    <2>2. /\ store[temp] = store[main] /\ own = temp /\ hdr = store[main].count
          /\ out = Len(Records) + 1 /\ rows = IdsIn(Records) \cup {seq}
      BY <2>1 DEF Content, InsertAt
    <2>3. /\ pc' = [pc EXCEPT ![c] = "rename"] /\ UNCHANGED <<main, temp, rows>>
          /\ store' = [store EXCEPT ![own] =
               [count |-> hdr + 1, recs |-> Written(store[own].recs, out, <<seq>>)]]
      BY <1>8 DEF AppendRecord, GoTo, sqlite
    <2>4. Records \in Seq(Nat) /\ <<seq>> \in Seq(Nat) /\ Len(Records) \in Nat
      BY <1>0 DEF Records
    <2>5. Written(store[own].recs, out, <<seq>>) = Records \o <<seq>>
      BY <2>2, <2>4, WrittenAtEnd DEF Records
    <2>6. store'[temp].count = hdr + 1 /\ store'[temp].recs = Records \o <<seq>>
      BY <1>0, <1>1, <1>2, <2>1, <2>2, <2>3, <2>5
    <2>7. store'[main] = store[main]
      BY <1>0, <1>1, <1>2, <2>1, <2>2, <2>3
    <2>8. IdsIn(<<seq>>) = {seq} /\ Ascending(<<seq>>) /\ Len(<<seq>>) = 1
      BY DEF IdsIn, Ascending
    <2>9. IdsIn(Records \o <<seq>>) = rows
      BY <2>2, <2>4, <2>8, ConcatIds
    <2>10. Sound(store'[temp])
      <3>1. Ascending(Records) /\ hdr = Len(Records)
        BY <2>2 DEF Content, Sound, Records
      <3>2. \A x \in IdsIn(Records), y \in IdsIn(<<seq>>) : x < y
        <4>1. UpTo(Records, seq - 1)
          BY <1>0, <2>1 DEF BaseInv, Numbered, Records
        <4>2. \A x \in IdsIn(Records) : x \in Nat
          BY <2>4 DEF IdsIn
        <4> QED
          BY <1>0, <2>8, <4>1, <4>2 DEF UpTo
      <3>3. Ascending(Records \o <<seq>>)
        BY <2>4, <2>8, <3>1, <3>2, AscendingConcat
      <3>4. Len(Records \o <<seq>>) = hdr + 1
        BY <2>4, <2>8, <3>1, ConcatFacts
      <3> QED
        BY <2>6, <3>3, <3>4 DEF Sound
    <2>11. /\ pc'[c] = "rename"
           /\ \A d \in Calls : d # c => InsertAt(d)' /\ DeleteAt(d)'
      BY <1>3, <1>4, <2>3
    <2>12. Sound(store[main])' /\ RowsAgree' /\ Records' = Records
      BY <2>3, <2>7, <2>11 DEF Content, Sound, RowsAgree, Records
    <2>13. Sound(store[temp])' /\ IdsIn(store'[temp'].recs) = rows'
      <3>1. IdsIn(store'[temp'].recs) = rows'
        BY <2>3, <2>6, <2>9
      <3> QED
        BY <2>3, <2>10, <3>1 DEF Sound
    <2>14. IdsIn(Records)' \subseteq rows'
      BY <2>2, <2>3, <2>12
    <2>15. InsertAt(c)' /\ DeleteAt(c)'
      BY <2>11, <2>13, <2>14 DEF InsertAt, DeleteAt
    <2> QED
      BY <2>11, <2>12, <2>15 DEF Content
  <1>9. CASE Rename(c)
    <2>1. pc[c] = "rename" /\ temp # None
      BY <1>1, <1>2, <1>9 DEF Rename, OnWorker
    <2>2. /\ pc' = [pc EXCEPT ![c] = "reopen"] /\ UNCHANGED <<store, rows>>
          /\ main' = temp
      BY <1>9, <2>1 DEF Rename, GoTo, sqlite
    <2>3. Sound(store[temp]) /\ IdsIn(store[temp].recs) = rows
      BY <2>1 DEF Content, InsertAt
    <2>4. /\ pc'[c] = "reopen"
          /\ \A d \in Calls : d # c => InsertAt(d)' /\ DeleteAt(d)'
      BY <1>3, <1>4, <2>2
    <2>5. Sound(store[main])' /\ RowsAgree'
      BY <2>2, <2>3 DEF Sound, RowsAgree, Records
    <2>6. InsertAt(c)' /\ DeleteAt(c)'
      BY <2>4 DEF InsertAt, DeleteAt
    <2> QED
      BY <2>4, <2>5, <2>6 DEF Content
  <1> QED
    BY <1>6, <1>7, <1>8, <1>9

LEMMA OpenTempContent ==
  ASSUME BaseInv, ~mixed, Content, SchedInv', ~mixed', NEW c \in Calls, OpenTemp(c)
  PROVE  Content'
  <1>1. /\ pc[c] = "open" /\ pc' = [pc EXCEPT ![c] = "scan"] /\ temp # None
        /\ UNCHANGED <<store, main, temp, file, at, skewed, rows, asked>>
        /\ own' = temp /\ hdr' = store[temp].count /\ k' = 0 /\ out' = 1 /\ held' = <<>>
    BY DEF OpenTemp, OnWorker, GoTo, disk, conn, sqlite, given
  <1>2. Kind(c) = "delete" /\ pc \in [Calls -> Places] /\ "scan" \in Places
    BY <1>1 DEF BaseInv, SchedInv, KindsFit, Fits, TypeInv, TypeOK, Places
  <1>3. AtStart /\ store[temp].count = Len(Records) /\ store[temp].recs = <<>>
    BY <1>1 DEF Content, DeleteAt
  <1>4. file' = main' /\ ~skewed' /\ at' = 0
    BY <1>1, <1>3, Zenon DEF AtStart
  <1>5. Records' = Records
    BY <1>1 DEF Records
  <1>6. Copied' = <<>>
    <2>1. Copied' = <<>> \o <<>>
      BY <1>1, <1>3 DEF Copied
    <2> QED
      BY <2>1
  <1>7. out' = Len(store'[temp'].recs) + 1
    BY <1>1, <1>3
  <1>8. Scanned(c)'
    <2>1. 1 .. k' = {} /\ Len(<<>>) = 0 /\ IdsIn(<<>>) = {} /\ Ascending(<<>>)
      BY <1>1 DEF IdsIn, Ascending
    <2>2. /\ Ascending(Copied)' /\ IdsIn(Copied)' = {} /\ Len(Copied') = 0
      BY <1>6, <2>1 DEF Ascending, IdsIn
    <2>3. {Records[p] : p \in 1 .. k}' = {}
      BY <2>1
    <2>4. own' = temp' /\ hdr' = Len(Records') /\ at' = k' /\ Len(Copied') <= k'
      BY <1>1, <1>3, <1>4, <1>5, <2>2
    <2> QED
      BY <1>4, <1>7, <2>1, <2>2, <2>3, <2>4, Zenon DEF Scanned
  <1>9. DeleteAt(c)'
    <2>1. pc'[c] = "scan"
      BY <1>1, <1>2
    <2> QED
      BY <1>8, <2>1 DEF DeleteAt
  <1> QED
    BY <1>1, <1>2, <1>9, DeletionContent

LEMMA ScanContent ==
  ASSUME BaseInv, ~mixed, Content, SchedInv', ~mixed', NEW c \in Calls, ScanChunk(c)
  PROVE  Content'
  <1> DEFINE s == Survivors(Got, Doomed(c))
  <1>1. pc[c] = "scan"
    BY DEF ScanChunk, OnWorker
  <1>2. Scanned(c)
    BY <1>1 DEF Content, DeleteAt
  <1>3. /\ at' = k + ChunkLen /\ k + ChunkLen <= Len(Records)
        /\ s \in Seq(Nat) /\ Len(s) \in Nat /\ Len(s) <= ChunkLen /\ Ascending(s)
        /\ IdsIn(s) = {Records[p] : p \in k + 1 .. k + ChunkLen} \ Doomed(c)
        /\ Len(s) = ChunkLen =>
             \A p \in k + 1 .. k + ChunkLen : Records[p] \notin Doomed(c)
    BY <1>2, ChunkInPlace
  <1>4. /\ Copied \in Seq(Nat) /\ Copied' = Copied \o s
        /\ out' = Len(store'[temp].recs) + 1
    BY <1>2, CopiedGrows
  <1> HIDE DEF s
  <1>5. /\ k' = k + ChunkLen
        /\ UNCHANGED <<main, temp, file, skewed, rows, asked, pc, own, hdr>>
        /\ \A i \in Inodes : i # own => store'[i] = store[i]
    BY ChunkKept DEF BaseInv
  <1>6. /\ k \in Nat /\ main \in Inodes /\ ChunkLen \in Nat
        /\ pc \in [Calls -> Places] /\ "scan" \in Places
        /\ Kind(c) = "delete"
    BY <1>1, ChunkRead DEF BaseInv, TypeInv, TypeOK, Places, SchedInv, KindsFit, Fits
  <1>7. Records \in Seq(Nat) /\ Len(Records) \in Nat
    BY <1>6, RecsTyped DEF BaseInv, Records
  <1>8. own # main
    BY <1>2 DEF Scanned, BaseInv, UniqueInv, Apart, TypeInv, TypeOK, Inodes, None
  <1>9. store'[main] = store[main] /\ Records' = Records
    BY <1>5, <1>6, <1>8 DEF Records
  <1>10. Doomed(c)' = Doomed(c)
    BY <1>5 DEF Doomed, Ids
  <1>11. 1 .. k + ChunkLen = 1 .. k \cup k + 1 .. k + ChunkLen
    BY <1>6
  <1>12. /\ IdsIn(Copied \o s) = IdsIn(Copied) \cup IdsIn(s)
         /\ Len(Copied \o s) = Len(Copied) + Len(s) /\ Len(Copied) \in Nat
    BY <1>3, <1>4, ConcatIds, ConcatFacts
  <1>13. IdsIn(Copied \o s) = {Records[p] : p \in 1 .. k + ChunkLen} \ Doomed(c)
    BY <1>2, <1>3, <1>11, <1>12 DEF Scanned
  <1>14. Ascending(Copied \o s)
    <2> SUFFICES ASSUME NEW x \in IdsIn(Copied), NEW y \in IdsIn(s) PROVE x < y
      BY <1>2, <1>3, <1>4, AscendingConcat DEF Scanned
    <2>1. PICK p \in 1 .. k : x = Records[p]
      BY <1>2 DEF Scanned
    <2>2. PICK r \in k + 1 .. k + ChunkLen : y = Records[r]
      BY <1>3
    <2>3. p \in 1 .. Len(Records) /\ r \in 1 .. Len(Records) /\ p < r
      BY <1>3, <1>6, <1>7
    <2>4. Ascending(Records)
      BY DEF Content, Sound, Records
    <2> QED
      BY <2>1, <2>2, <2>3, <2>4 DEF Ascending
  <1>15. Len(Copied \o s) <= k + ChunkLen
    BY <1>2, <1>3, <1>6, <1>12 DEF Scanned
  <1>16. ASSUME Len(Copied \o s) = k + ChunkLen
         PROVE  \A p \in 1 .. k + ChunkLen : Records[p] \notin Doomed(c)
    <2>1. Len(Copied) <= k
      BY <1>2 DEF Scanned
    <2>2. Len(Copied) = k /\ Len(s) = ChunkLen
      BY <1>3, <1>6, <1>12, <1>16, <2>1
    <2>3. \A p \in 1 .. k : Records[p] \notin Doomed(c)
      BY <1>2, <2>2 DEF Scanned
    <2> QED
      BY <1>3, <1>11, <2>2, <2>3
  <1>17. Scanned(c)'
    <2>1. file' = main' /\ own' = temp' /\ hdr' = Len(Records') /\ at' = k'
      BY <1>2, <1>3, <1>5, <1>9 DEF Scanned
    <2>2. ~skewed'
      BY <1>2, <1>5, Zenon DEF Scanned
    <2>3. out' = Len(store'[temp'].recs) + 1
      BY <1>4, <1>5
    <2>4. /\ Ascending(Copied)' /\ Len(Copied') <= k'
      BY <1>4, <1>5, <1>14, <1>15 DEF Ascending
    <2>5. IdsIn(Copied)' = {Records[p] : p \in 1 .. k}' \ Doomed(c)'
      BY <1>4, <1>5, <1>9, <1>10, <1>13 DEF IdsIn
    <2>6. Len(Copied') = k' => \A p \in 1 .. k' : Records'[p] \notin Doomed(c)'
      BY <1>4, <1>5, <1>9, <1>10, <1>16
    <2> QED
      BY <2>1, <2>2, <2>3, <2>4, <2>5, <2>6, Zenon DEF Scanned
  <1>18. DeleteAt(c)'
    BY <1>1, <1>5, <1>17 DEF DeleteAt
  <1>19. pc' = [pc EXCEPT ![c] = "scan"]
    BY <1>1, <1>5, <1>6
  <1> QED
    BY <1>1, <1>5, <1>6, <1>9, <1>18, <1>19, DeletionContent

LEMMA SealContent ==
  ASSUME BaseInv, ~mixed, Content, SchedInv', ~mixed', NEW c \in Calls, Seal(c)
  PROVE  Content'
  <1> DEFINE mine == store[temp].recs
  <1>1. pc[c] = "scan" /\ k >= hdr /\ OnWorker(c, "scan")
    BY DEF Seal, OnWorker
  <1>2. Scanned(c) /\ hdr = Len(Records) /\ out = Len(mine) + 1 /\ own = temp
    BY <1>1 DEF Content, DeleteAt, Scanned
  <1>3. /\ pc \in [Calls -> Places] /\ store \in [Inodes -> Image]
        /\ own \in Inodes /\ main \in Inodes /\ own # main
        /\ held \in Seq(Nat) /\ hdr \in Nat /\ k \in Nat /\ k <= hdr
    BY <1>1, <1>2 DEF BaseInv, TypeInv, TypeOK, UniqueInv, Apart, Inodes, None
  <1>4. mine \in Seq(Nat) /\ Len(mine) \in Nat /\ Len(held) \in Nat
    BY <1>2, <1>3, RecsTyped DEF BaseInv
  <1>5. k = Len(Records)
    BY <1>1, <1>2, <1>3
  <1>6. Kind(c) = "delete"
    BY <1>1 DEF BaseInv, SchedInv, KindsFit, Fits
  <1> HIDE DEF mine
  <1>7. /\ Written(mine, out, held) = Copied /\ Preserved = Len(Copied)
        /\ Len(Copied) \in Nat
    <2>1. Copied = mine \o held
      BY DEF Copied, mine
    <2>2. Len(mine \o held) = Len(mine) + Len(held)
      BY <1>4, <1>3, ConcatFacts
    <2>3. Written(mine, Len(mine) + 1, held) = mine \o held
      BY <1>3, <1>4, WrittenAtEnd
    <2>4. Preserved = Len(mine) + Len(held)
      BY <1>2, <1>4 DEF Preserved
    <2> QED
      BY <1>2, <1>4, <2>1, <2>2, <2>3, <2>4
  <1>8. /\ UNCHANGED <<main, temp, asked>> /\ rows' = rows \ Doomed(c)
        /\ store' = [store EXCEPT ![own] =
             [count |-> Preserved, recs |-> Written(@.recs, out, held)]]
        /\ AfterJob(c, hdr - Preserved)
    BY DEF Seal, given
  <1>9. store'[temp].count = Len(Copied) /\ store'[temp].recs = Copied
    BY <1>2, <1>3, <1>7, <1>8 DEF mine
  <1>10. store'[main] = store[main] /\ Records' = Records
    BY <1>3, <1>8 DEF Records
  <1>11. \A d \in Calls : d # c => pc[d] \in {"new", "done"}
    BY <1>1, <1>6, DeletionAlone DEF BaseInv
  <1>12. rows = IdsIn(Records)
    BY <1>1, <1>11 DEF Content, RowsAgree
  <1>13. IdsIn(Copied) = IdsIn(Records) \ Doomed(c)
    BY <1>2, <1>5 DEF Scanned, IdsIn
  <1>14. Sound(store[main])'
    BY <1>8, <1>10 DEF Content, Sound
  <1>15. CASE asked[c].filtered /\ hdr - Preserved = 0
    <2>1. pc' = [pc EXCEPT ![c] = "relink"]
      BY <1>8, <1>15 DEF AfterJob, HandBack
    <2>2. pc'[c] = "relink" /\ Kind(c)' = "delete"
      BY <1>3, <1>6, <1>8, <2>1 DEF Kind
    <2>3. Len(Copied) = k
      BY <1>1, <1>3, <1>7, <1>15
    <2>4. \A p \in 1 .. Len(Records) : Records[p] \notin Doomed(c)
      BY <1>2, <1>5, <2>3 DEF Scanned
    <2>5. rows' = IdsIn(Records)
      BY <1>8, <1>12, <2>4 DEF IdsIn
    <2>6. RowsAgree'
      BY <1>10, <2>5 DEF RowsAgree
    <2>7. InsertAt(c)' /\ DeleteAt(c)'
      BY <2>2 DEF InsertAt, DeleteAt
    <2>8. \A d \in Calls : d # c => InsertAt(d)' /\ DeleteAt(d)'
      BY <2>2, OneAtWork
    <2> QED
      BY <1>14, <2>6, <2>7, <2>8 DEF Content
  <1>16. CASE ~(asked[c].filtered /\ hdr - Preserved = 0)
    <2>1. pc' = [pc EXCEPT ![c] = "replace"]
      BY <1>8, <1>16 DEF AfterJob, HandBack
    <2>2. pc'[c] = "replace" /\ Kind(c)' = "delete" /\ Ids(c)' = Ids(c)
      BY <1>3, <1>6, <1>8, <2>1 DEF Kind, Ids
    <2>3. RowsAgree'
      BY <2>2 DEF RowsAgree
    <2>4. Sound(store[temp])'
      BY <1>2, <1>8, <1>9 DEF Sound, Scanned
    <2>5. IdsIn(store'[temp'].recs) = rows'
      BY <1>8, <1>9, <1>12, <1>13
    <2>6. Doomed(c) \subseteq Ids(c)
      BY DEF Doomed
    <2>7. IdsIn(Records)' \subseteq rows' \cup Ids(c)
      BY <1>8, <1>10, <1>12, <2>6
    <2>8. InsertAt(c)' /\ DeleteAt(c)'
      BY <2>2, <2>4, <2>5, <2>7 DEF InsertAt, DeleteAt
    <2>9. \A d \in Calls : d # c => InsertAt(d)' /\ DeleteAt(d)'
      BY <2>2, OneAtWork
    <2> QED
      BY <1>14, <2>3, <2>8, <2>9 DEF Content
  <1> QED
    BY <1>15, <1>16

LEMMA ContentPreserved ==
  ASSUME BaseInv, ContentInv, [Next]_vars
  PROVE  ContentInv'
  <1>0. SchedInv /\ SchedInv'
    BY SchedPreserved DEF BaseInv
  <1>1. CASE mixed
    BY <1>0, <1>1, MixedStays DEF ContentInv
  <1>2. CASE mixed'
    BY <1>2 DEF ContentInv
  <1>3. CASE ~mixed /\ ~mixed'
    <2>1. Content
      BY <1>3 DEF ContentInv
    <2>2. CASE UNCHANGED vars
      <3>1. /\ UNCHANGED <<rows, seq, main, asked, store, temp, file, at, skewed, count>>
            /\ UNCHANGED <<own, hdr, k, out, held, pc>>
        BY <2>2, Zenon DEF vars, disk, conn, sqlite, given, local
      <3>2. Content'
        BY <2>1, <3>1, ContentKept
      <3> QED
        BY <3>2 DEF ContentInv
    <2>3. ASSUME NEW c \in Calls, Worker(c)
          PROVE  Content'
      BY <1>0, <1>3, <2>1, <2>3, StatsContent, OtherJobsContent, InsertionContent,
         OpenTempContent, ScanContent, SealContent DEF Worker
    <2>4. ASSUME NEW c \in Calls, Call(c) \/ Loop(c)
          PROVE  Content'
      BY <1>0, <1>3, <2>1, <2>4, CallContent, LoopContent
    <2> QED
      BY <2>2, <2>3, <2>4 DEF Next, ContentInv
  <1> QED
    BY <1>1, <1>2, <1>3

LEMMA ContentInitially ==
  ASSUME Init
  PROVE  Content
  <1>1. Stored \in Nat
    BY ClientAssumption
  <1>2. store[main].count = Stored /\ Records = [p \in 1 .. Stored |-> p]
    <2> DEFINE full  == [count |-> Stored, recs |-> [p \in 1 .. Stored |-> p]]
               empty == [count |-> 0, recs |-> <<>>]
    <2>1. store = [i \in Inodes |-> IF i = 1 THEN full ELSE empty] /\ main = 1
      BY Zenon DEF Init
    <2>2. full.recs = [p \in 1 .. Stored |-> p] /\ full.count = Stored
      OBVIOUS
    <2>3. 1 \in Inodes
      BY DEF Inodes
    <2> HIDE DEF full, empty
    <2> QED
      BY <2>1, <2>2, <2>3 DEF Records
  <1>3. Len(Records) = Stored /\ \A p \in 1 .. Stored : Records[p] = p
    BY <1>1, <1>2
  <1>4. Sound(store[main])
    BY <1>1, <1>2, <1>3 DEF Sound, Ascending, Records
  <1>5. rows = 1 .. Stored
    BY DEF Init
  <1>6. IdsIn(Records) = 1 .. Stored
    BY <1>3 DEF IdsIn
  <1>7. \A c \in Calls : pc[c] = "new"
    BY DEF Init
  <1> QED
    BY <1>4, <1>5, <1>6, <1>7 DEF Content, RowsAgree, InsertAt, DeleteAt

LEMMA ContentInvariant == Spec => [](BaseInv /\ ContentInv)
  <1>1. Init => ContentInv
    BY ContentInitially DEF ContentInv
  <1>2. BaseInv /\ ContentInv /\ [Next]_vars => ContentInv'
    BY ContentPreserved
  <1>3. SchedInv /\ TypeInv /\ Numbered /\ UniqueInv /\ UseInv /\ FileHeld => BaseInv
    BY DEF BaseInv
  <1> QED
    BY <1>1, <1>2, <1>3, DataInvariant, UseInvariant, HoldersInvariant, PTL DEF Spec

\* When no call is in progress, and no deletion ever overlapped with another call,
\* the vector file has the records of the rows, in order, its header counts them,
\* and the connection is open on it, however insertions, updates, searches and
\* pages have overlapped.
THEOREM QuietIndexStaysSound == Spec => []QuietIndexIsSound
  <1>1. BaseInv /\ ContentInv => QuietIndexIsSound
    <2> SUFFICES ASSUME BaseInv, ContentInv, Quiet, ~mixed
                 PROVE  /\ file = main
                        /\ store[main].count = Len(Records) /\ IdsIn(Records) = rows
                        /\ \A p, q \in 1 .. Len(Records) : p < q => Records[p] < Records[q]
      BY DEF QuietIndexIsSound
    <2>1. \A c \in Calls : pc[c] \in {"new", "done"}
      BY DEF Quiet, InProgress
    <2>2. file = main
      <3>1. file # None
        BY <2>1 DEF BaseInv, UseInv, ClosedByWriter
      <3> QED
        BY <2>1, <3>1 DEF BaseInv, FileHeld
    <2>3. Content
      BY DEF ContentInv
    <2>4. rows = IdsIn(Records)
      BY <2>1, <2>3 DEF Content, RowsAgree
    <2>5. store[main].count = Len(Records) /\ Ascending(Records)
      BY <2>3 DEF Content, Sound, Records
    <2> QED
      BY <2>2, <2>4, <2>5 DEF Ascending
  <1> QED
    BY <1>1, ContentInvariant, PTL

\* Only a renaming puts something else in the place of the vector file.
LEMMA RecordsKept ==
  ASSUME BaseInv, ~mixed, Content, [Next]_vars,
         ~ \E c \in Calls : Rename(c) \/ Replace(c)
  PROVE  Records' = Records
  <1>0. main \in Inodes /\ store \in [Inodes -> Image]
    BY DEF BaseInv, TypeInv, TypeOK
  <1>1. ASSUME main' = main, store'[main] = store[main]
        PROVE  Records' = Records
    BY <1>1 DEF Records
  <1>2. CASE UNCHANGED vars
    BY <1>1, <1>2 DEF vars, disk
  <1>3. ASSUME NEW c \in Calls, WriteHeader(c) \/ Copy(c)
        PROVE  Records' = Records
    <2>1. PICK img \in Image : WriteTemp(img)
      <3>1. CASE WriteHeader(c)
        <4>1. [count |-> count[c], recs |-> <<>>] \in Image
          BY DEF BaseInv, TypeInv, TypeOK, Image
        <4> QED
          BY <3>1, <4>1 DEF WriteHeader
      <3>2. CASE Copy(c)
        BY <1>0, <3>2 DEF Copy
      <3> QED
        BY <1>3, <3>1, <3>2
    <2>2. /\ main' = main /\ temp' \in Inodes
          /\ \A i \in Inodes : i # temp' => store'[i] = store[i]
          /\ temp # None => temp' = temp
          /\ temp = None => temp' \notin {main, file, own}
      BY <2>1, TempWritten DEF BaseInv
    <2>3. temp' # main
      BY <2>2 DEF BaseInv, UniqueInv, Apart
    <2> QED
      BY <1>0, <1>1, <2>2, <2>3
  <1>4. ASSUME NEW c \in Calls, AppendRecord(c) \/ ScanChunk(c) \/ Seal(c)
        PROVE  Records' = Records
    <2>1. pc[c] \in {"append", "scan"}
      BY <1>4 DEF AppendRecord, ScanChunk, Seal, OnWorker
    <2>2. own = temp /\ own \in Inodes
      BY <2>1 DEF Content, InsertAt, DeleteAt, Scanned, BaseInv, TypeInv, TypeOK
    <2>3. own # main
      BY <2>2 DEF BaseInv, UniqueInv, Apart, Inodes, None
    <2>4. main' = main /\ \A i \in Inodes : i # own => store'[i] = store[i]
      <3>1. CASE AppendRecord(c)
        BY <1>0, <3>1 DEF AppendRecord
      <3>2. CASE ScanChunk(c)
        BY <3>2, ChunkKept DEF BaseInv
      <3>3. CASE Seal(c)
        BY <1>0, <3>3 DEF Seal
      <3> QED
        BY <1>4, <3>1, <3>2, <3>3
    <2> QED
      BY <1>0, <1>1, <2>3, <2>4
  <1>5. ASSUME NEW c \in Calls,
               \/ Call(c) \/ Begin(c) \/ StopAtStats(c) \/ GoOnWithJob(c) \/ Relink(c)
               \/ Clean(c) \/ Stats(c) \/ InsertRow(c) \/ Reopen(c) \/ Unlink(c)
               \/ Change(c) \/ ChangeNothing(c) \/ ReadRecords(c) \/ ReadNull(c)
               \/ DeleteNothing(c) \/ OpenTemp(c)
        PROVE  Records' = Records
    <2>1. main' = main /\ store' = store
      BY <1>5 DEF Call, Begin, StopAtStats, GoOnWithJob, Relink, Clean, Stats, InsertRow,
         Reopen, Unlink, Change, ChangeNothing, ReadRecords, ReadNull, DeleteNothing,
         OpenTemp, Perish, disk
    <2> QED
      BY <1>1, <2>1
  <1> QED
    BY <1>2, <1>3, <1>4, <1>5 DEF Next, Loop, Worker

\* Unless a deletion overlaps with another call, a record leaves the vector file
\* only with a deletion that names it: insertions that overlap lose none, and an
\* update or a search takes none away.
THEOREM LoneDeletionsTakeOnlyTheirs == Spec => LoneDeletionsTakeNoMore
  <1> DEFINE A == mixed \/ \A i \in IdsIn(Records) \ IdsIn(Records)' : NamedInDeletion(i)
  <1>1. BaseInv /\ ContentInv /\ [Next]_vars => A
    <2> SUFFICES ASSUME BaseInv, ContentInv, [Next]_vars, ~mixed,
                        NEW i \in IdsIn(Records), i \notin IdsIn(Records)'
                 PROVE  NamedInDeletion(i)
      OBVIOUS
    <2>1. Content
      BY DEF ContentInv
    <2>2. PICK c \in Calls : Rename(c) \/ Replace(c)
      <3>1. Records' # Records
        BY DEF IdsIn
      <3> QED
        BY <2>1, <3>1, RecordsKept
    <2>3. /\ pc[c] \in {"rename", "replace"} /\ (pc[c] = "rename" => Rename(c))
      BY <2>2 DEF Rename, Replace, OnWorker, OnLoop
    <2>4. temp # None
      BY <2>3 DEF BaseInv, UseInv, TempStays
    <2>5. Records' = store[temp].recs
      BY <2>2, <2>4 DEF Rename, Replace, Records
    <2>6. IdsIn(Records)' = IdsIn(store[temp].recs)
      BY <2>5 DEF IdsIn
    <2>7. pc[c] = "replace" /\ i \in Ids(c)
      BY <2>1, <2>3, <2>6 DEF Content, InsertAt, DeleteAt
    <2>8. Kind(c) = "delete"
      BY <2>7 DEF BaseInv, SchedInv, KindsFit, Fits
    <2> QED
      BY <2>7, <2>8 DEF NamedInDeletion
  <1>2. LoneDeletionsTakeNoMore <=> [][A]_vars
    BY DEF LoneDeletionsTakeNoMore
  <1> QED
    BY <1>1, <1>2, ContentInvariant, PTL DEF Spec

-----------------------------------------------------------------------------
(* No call is lost between the loop and the worker, and none goes on for    *)
(* ever                                                                     *)

LoopPlaces == {"begin", "resume", "replace", "relink", "clean"}
WorkerPlaces == {"stats", "copy", "insert", "append", "rename", "reopen", "unlink",
                 "change", "read", "open", "scan"}

Members(q) == {q[p] : p \in 1 .. Len(q)}
Once(q) == \A p, r \in 1 .. Len(q) : q[p] = q[r] => p = r

\* A call in progress is in one of the two queues, once, and at a place where
\* the thread of that queue goes on with it; a call that is not is in neither.
EveryCallHasItsTurn ==
  /\ Once(ready) /\ Once(queue)
  /\ \A c \in Calls : c \in Members(ready) <=> pc[c] \in LoopPlaces
  /\ \A c \in Calls : c \in Members(queue) <=> pc[c] \in WorkerPlaces

Stage(place) ==
  CASE place = "new" -> 0
    [] place = "begin" -> 1
    [] place \in {"stats", "copy"} -> 2
    [] place \in {"resume", "insert"} -> 3
    [] place \in {"append", "change", "open"} -> 4
    [] place \in {"scan", "read", "rename"} -> 5
    [] place \in {"reopen", "replace"} -> 6
    [] place \in {"unlink", "relink"} -> 7
    [] place = "clean" -> 8
    [] place = "done" -> 9

\* A step takes one call on, and none of the others back: to a later place, or,
\* in a copying loop, past more of the records that the loop has to ask for.
CallsGoOn ==
  [][\/ alive /\ ~alive'
     \/ \E c \in Calls :
          /\ \A d \in Calls \ {c} :
               pc'[d] = pc[d] /\ (pc[d] = "scan" => UNCHANGED <<k, hdr>>)
          /\ \/ Stage(pc[c]) < Stage(pc'[c])
             \/ /\ pc[c] = "scan" /\ pc'[c] = "scan"
                /\ hdr' = hdr /\ k < k' /\ k' <= hdr]_vars

LEMMA AppendOnce ==
  ASSUME NEW q \in Seq(Calls), NEW c \in Calls
  PROVE  /\ Members(Append(q, c)) = Members(q) \cup {c}
         /\ Once(q) /\ c \notin Members(q) => Once(Append(q, c))
  <1>1. /\ Len(q) \in Nat /\ Len(Append(q, c)) = Len(q) + 1
        /\ \A p \in 1 .. Len(q) : Append(q, c)[p] = q[p]
        /\ Append(q, c)[Len(q) + 1] = c
    BY AppendProperties
  <1>2. 1 .. Len(q) + 1 = (1 .. Len(q)) \cup {Len(q) + 1}
    BY <1>1
  <1>3. Members(Append(q, c)) = Members(q) \cup {c}
    BY <1>1, <1>2 DEF Members
  <1>4. ASSUME Once(q), c \notin Members(q) PROVE Once(Append(q, c))
    <2>1. \A p \in 1 .. Len(q) : q[p] # c
      BY <1>4 DEF Members
    <2> QED
      BY <1>1, <1>2, <1>4, <2>1 DEF Once
  <1> QED
    BY <1>3, <1>4

LEMMA TailOnce ==
  ASSUME NEW q \in Seq(Calls), q # <<>>, Once(q)
  PROVE  /\ Head(q) \in Members(q)
         /\ Members(Tail(q)) = Members(q) \ {Head(q)}
         /\ Once(Tail(q))
  <1>1. /\ Len(q) \in Nat /\ Len(q) >= 1 /\ Head(q) = q[1]
        /\ Len(Tail(q)) = Len(q) - 1
        /\ \A p \in 1 .. Len(q) - 1 : Tail(q)[p] = q[p + 1]
    BY HeadTailProperties, EmptySeq
  <1>2. Head(q) \in Members(q)
    BY <1>1 DEF Members
  <1>3. Members(Tail(q)) = Members(q) \ {Head(q)}
    <2>1. ASSUME NEW x \in Members(Tail(q)) PROVE x \in Members(q) \ {Head(q)}
      <3>1. PICK p \in 1 .. Len(q) - 1 : x = q[p + 1]
        BY <1>1 DEF Members
      <3>2. p + 1 \in 1 .. Len(q) /\ 1 \in 1 .. Len(q) /\ p + 1 # 1
        BY <1>1
      <3> QED
        BY <1>1, <3>1, <3>2 DEF Members, Once
    <2>2. ASSUME NEW x \in Members(q), x # Head(q) PROVE x \in Members(Tail(q))
      <3>1. PICK p \in 1 .. Len(q) : x = q[p]
        BY DEF Members
      <3>2. p # 1 /\ p - 1 \in 1 .. Len(q) - 1 /\ (p - 1) + 1 = p
        BY <1>1, <2>2, <3>1
      <3>3. Tail(q)[p - 1] = x
        BY <1>1, <3>1, <3>2
      <3> QED
        BY <1>1, <3>2, <3>3 DEF Members
    <2> QED
      BY <2>1, <2>2
  <1>4. Once(Tail(q))
    <2> SUFFICES ASSUME NEW p \in 1 .. Len(q) - 1, NEW r \in 1 .. Len(q) - 1,
                        Tail(q)[p] = Tail(q)[r]
                 PROVE  p = r
      BY <1>1 DEF Once
    <2>1. q[p + 1] = q[r + 1] /\ p + 1 \in 1 .. Len(q) /\ r + 1 \in 1 .. Len(q)
      BY <1>1
    <2>2. p + 1 = r + 1
      BY <2>1 DEF Once
    <2> QED
      BY <1>1, <2>2
  <1> QED
    BY <1>2, <1>3, <1>4

\* What a thread does with the call whose turn it is.
LoopTurn(c, place) ==
  /\ pc[c] \in LoopPlaces /\ ready # <<>> /\ Head(ready) = c
  /\ \/ place \in LoopPlaces /\ UNCHANGED sched
     \/ place \in WorkerPlaces /\ ready' = Tail(ready) /\ queue' = Append(queue, c)
     \/ place = "done" /\ ready' = Tail(ready) /\ queue' = queue

WorkerTurn(c, place) ==
  /\ pc[c] \in WorkerPlaces /\ queue # <<>> /\ Head(queue) = c
  /\ \/ place \in WorkerPlaces /\ UNCHANGED sched
     \/ place \in LoopPlaces /\ queue' = Tail(queue) /\ ready' = Append(ready, c)
     \/ place = "done" /\ queue' = Tail(queue) /\ ready' = ready

FirstTurn(c, place) ==
  /\ pc[c] = "new" /\ place = "begin"
  /\ ready' = Append(ready, c) /\ queue' = queue

Advance(c, place) ==
  pc' = [pc EXCEPT ![c] = place] /\ Stage(pc[c]) < Stage(place)

LEMMA LoopGoesOn ==
  ASSUME NEW c \in Calls, Loop(c)
  PROVE  \/ Perish
         \/ /\ UNCHANGED local
            /\ \E place \in Places : Advance(c, place) /\ LoopTurn(c, place)
  <1> USE DEF Advance, LoopTurn, LoopPlaces, WorkerPlaces, OnLoop
  <1>1. CASE Begin(c)
    <2> DEFINE place == IF Kind(c) = "insert" THEN "copy"
                        ELSE IF Kind(c) = "search" THEN "read" ELSE "stats"
    <2>1. pc[c] = "begin" /\ Submit(c, place) /\ UNCHANGED local
      BY <1>1 DEF Begin
    <2>2. place \in Places /\ place \in WorkerPlaces /\ Stage(pc[c]) < Stage(place)
      BY <2>1 DEF Places, Stage
    <2> HIDE DEF place
    <2> QED
      BY <1>1, <2>1, <2>2 DEF Begin, Submit
  <1>2. CASE StopAtStats(c)
    <2>1. Stage("resume") < Stage("clean") /\ Stage("resume") < Stage("done")
      BY DEF Stage
    <2> QED
      BY <1>2, <2>1 DEF StopAtStats, GoTo, Places
  <1>3. CASE GoOnWithJob(c) \/ WriteHeader(c)
    <2>1. /\ Stage("resume") < Stage("change") /\ Stage("resume") < Stage("read")
          /\ Stage("resume") < Stage("open")
      BY DEF Stage
    <2> QED
      BY <1>3, <2>1 DEF GoOnWithJob, WriteHeader, Submit, Places
  <1>4. CASE Replace(c)
    <2>1. Stage("replace") < Stage("clean") /\ Stage("replace") < Stage("relink")
      BY DEF Stage
    <2> QED
      BY <1>4, <2>1 DEF Replace, GoTo, Places
  <1>5. CASE Relink(c)
    <2>1. Stage("relink") < Stage("clean")
      BY DEF Stage
    <2> QED
      BY <1>5, <2>1 DEF Relink, GoTo, Places
  <1>6. CASE Clean(c)
    <2>1. Stage("clean") < Stage("done")
      BY DEF Stage
    <2> QED
      BY <1>6, <2>1 DEF Clean, Places
  <1> QED
    BY <1>1, <1>2, <1>3, <1>4, <1>5, <1>6 DEF Loop

LEMMA WorkerGoesOn ==
  ASSUME NEW c \in Calls, Worker(c)
  PROVE  \/ Perish
         \/ ScanChunk(c)
         \/ \E place \in Places : Advance(c, place) /\ WorkerTurn(c, place)
  <1> USE DEF OnWorker
  <1>1. ASSUME NEW from \in WorkerPlaces, NEW place \in Places, OnWorker(c, from),
               Stage(from) < Stage(place),
               \/ place \in WorkerPlaces /\ GoTo(c, place)
               \/ place \in LoopPlaces /\ HandBack(c, place)
               \/ place = "done" /\ Complete(c)
        PROVE  \E p \in Places : Advance(c, p) /\ WorkerTurn(c, p)
    BY <1>1 DEF Advance, WorkerTurn, GoTo, HandBack, Complete
  <1>2. /\ LoopPlaces \subseteq Places /\ WorkerPlaces \subseteq Places
        /\ "done" \in Places
    BY DEF LoopPlaces, WorkerPlaces, Places
  <1> USE DEF LoopPlaces, WorkerPlaces
  <1>3. CASE Stats(c)
    <2>1. Perish \/ (OnWorker(c, "stats") /\ HandBack(c, "resume"))
      BY <1>3 DEF Stats
    <2>2. Stage("stats") < Stage("resume")
      BY DEF Stage
    <2> QED
      BY <1>1, <1>2, <2>1, <2>2
  <1>4. CASE Copy(c) \/ AppendRecord(c) \/ Change(c) \/ OpenTemp(c)
    <2>1. \/ OnWorker(c, "copy") /\ GoTo(c, "insert")
          \/ OnWorker(c, "append") /\ GoTo(c, "rename")
          \/ OnWorker(c, "change") /\ GoTo(c, "reopen")
          \/ OnWorker(c, "open") /\ GoTo(c, "scan")
      BY <1>4 DEF Copy, AppendRecord, Change, OpenTemp
    <2>2. /\ Stage("copy") < Stage("insert") /\ Stage("append") < Stage("rename")
          /\ Stage("change") < Stage("reopen") /\ Stage("open") < Stage("scan")
      BY DEF Stage
    <2> QED
      BY <1>1, <1>2, <2>1, <2>2
  <1>5. CASE InsertRow(c) \/ Rename(c)
    <2>1. \/ OnWorker(c, "insert") /\ (GoTo(c, "unlink") \/ GoTo(c, "append"))
          \/ OnWorker(c, "rename") /\ (GoTo(c, "unlink") \/ GoTo(c, "reopen"))
      BY <1>5 DEF InsertRow, Rename
    <2>2. /\ Stage("insert") < Stage("unlink") /\ Stage("insert") < Stage("append")
          /\ Stage("rename") < Stage("unlink") /\ Stage("rename") < Stage("reopen")
      BY DEF Stage
    <2> QED
      BY <1>1, <1>2, <2>1, <2>2
  <1>6. CASE Reopen(c) \/ Unlink(c) \/ ChangeNothing(c) \/ ReadRecords(c)
    <2>1. \/ OnWorker(c, "reopen") /\ (GoTo(c, "unlink") \/ Complete(c))
          \/ OnWorker(c, "unlink") /\ Complete(c)
          \/ OnWorker(c, "change") /\ Complete(c)
          \/ OnWorker(c, "read") /\ Complete(c)
      BY <1>6 DEF Reopen, Unlink, ChangeNothing, ReadRecords
    <2>2. /\ Stage("reopen") < Stage("unlink") /\ Stage("reopen") < Stage("done")
          /\ Stage("unlink") < Stage("done") /\ Stage("change") < Stage("done")
          /\ Stage("read") < Stage("done")
      BY DEF Stage
    <2> QED
      BY <1>1, <1>2, <2>1, <2>2
  <1>7. CASE DeleteNothing(c) \/ Seal(c)
    <2>1. OnWorker(c, "open") \/ OnWorker(c, "scan")
      BY <1>7 DEF DeleteNothing, Seal
    <2>2. \E removed : AfterJob(c, removed)
      BY <1>7 DEF DeleteNothing, Seal
    <2>3. HandBack(c, "relink") \/ HandBack(c, "replace")
      BY <2>2 DEF AfterJob
    <2>4. /\ Stage("open") < Stage("relink") /\ Stage("open") < Stage("replace")
          /\ Stage("scan") < Stage("relink") /\ Stage("scan") < Stage("replace")
      BY DEF Stage
    <2> QED
      BY <1>1, <1>2, <2>1, <2>3, <2>4
  <1>8. CASE ReadNull(c)
    BY <1>8 DEF ReadNull
  <1> QED
    BY <1>3, <1>4, <1>5, <1>6, <1>7, <1>8 DEF Worker

LEMMA TurnsPreserved ==
  ASSUME SchedType, EveryCallHasItsTurn, NEW c \in Calls, NEW place \in Places,
         pc' = [pc EXCEPT ![c] = place],
         FirstTurn(c, place) \/ LoopTurn(c, place) \/ WorkerTurn(c, place)
  PROVE  EveryCallHasItsTurn'
  <1>1. /\ ready \in Seq(Calls) /\ queue \in Seq(Calls)
        /\ Once(ready) /\ Once(queue)
        /\ \A d \in Calls : d \in Members(ready) <=> pc[d] \in LoopPlaces
        /\ \A d \in Calls : d \in Members(queue) <=> pc[d] \in WorkerPlaces
    BY DEF SchedType, EveryCallHasItsTurn
  <1>2. /\ pc'[c] = place
        /\ \A d \in Calls : d # c => pc'[d] = pc[d]
    BY DEF SchedType
  <1>3. /\ LoopPlaces \cap WorkerPlaces = {}
        /\ "new" \notin LoopPlaces \cup WorkerPlaces
        /\ "done" \notin LoopPlaces \cup WorkerPlaces /\ "begin" \in LoopPlaces
    BY DEF LoopPlaces, WorkerPlaces
  <1>4. /\ pc[c] \in LoopPlaces => c \notin Members(queue)
        /\ pc[c] \in WorkerPlaces => c \notin Members(ready)
        /\ pc[c] = "new" => c \notin Members(queue) /\ c \notin Members(ready)
    BY <1>1, <1>3
  <1>5. ASSUME /\ Once(ready') /\ Once(queue')
               /\ Members(ready') \ {c} = Members(ready) \ {c}
               /\ Members(queue') \ {c} = Members(queue) \ {c}
               /\ c \in Members(ready') <=> place \in LoopPlaces
               /\ c \in Members(queue') <=> place \in WorkerPlaces
        PROVE  EveryCallHasItsTurn'
    <2>1. \A d \in Calls : d # c => /\ d \in Members(ready') <=> d \in Members(ready)
                                    /\ d \in Members(queue') <=> d \in Members(queue)
      BY <1>5
    <2>2. \A d \in Calls : /\ d \in Members(ready') <=> pc'[d] \in LoopPlaces
                           /\ d \in Members(queue') <=> pc'[d] \in WorkerPlaces
      BY <1>1, <1>2, <1>5, <2>1
    <2> QED
      BY <1>5, <2>2 DEF EveryCallHasItsTurn, Members, Once
  <1>6. CASE FirstTurn(c, place)
    BY <1>1, <1>3, <1>4, <1>5, <1>6, AppendOnce DEF FirstTurn
  <1>7. CASE LoopTurn(c, place)
    <2>1. /\ c \notin Members(queue) /\ c \in Members(ready)
          /\ Members(Tail(ready)) = Members(ready) \ {c} /\ Once(Tail(ready))
      BY <1>1, <1>4, <1>7, TailOnce DEF LoopTurn
    <2>2. Members(Append(queue, c)) = Members(queue) \cup {c} /\ Once(Append(queue, c))
      BY <1>1, <2>1, AppendOnce
    <2>3. \/ place \in LoopPlaces /\ ready' = ready /\ queue' = queue
          \/ place \in WorkerPlaces /\ ready' = Tail(ready) /\ queue' = Append(queue, c)
          \/ place = "done" /\ ready' = Tail(ready) /\ queue' = queue
      BY <1>7 DEF LoopTurn, sched
    <2> QED
      BY <1>1, <1>3, <1>5, <2>1, <2>2, <2>3
  <1>8. CASE WorkerTurn(c, place)
    <2>1. /\ c \notin Members(ready) /\ c \in Members(queue)
          /\ Members(Tail(queue)) = Members(queue) \ {c} /\ Once(Tail(queue))
      BY <1>1, <1>4, <1>8, TailOnce DEF WorkerTurn
    <2>2. Members(Append(ready, c)) = Members(ready) \cup {c} /\ Once(Append(ready, c))
      BY <1>1, <2>1, AppendOnce
    <2>3. \/ place \in WorkerPlaces /\ ready' = ready /\ queue' = queue
          \/ place \in LoopPlaces /\ queue' = Tail(queue) /\ ready' = Append(ready, c)
          \/ place = "done" /\ queue' = Tail(queue) /\ ready' = ready
      BY <1>8 DEF WorkerTurn, sched
    <2> QED
      BY <1>1, <1>3, <1>5, <2>1, <2>2, <2>3
  <1> QED
    BY <1>6, <1>7, <1>8

LEMMA CallStarts ==
  ASSUME NEW c \in Calls, Call(c)
  PROVE  UNCHANGED local /\ Advance(c, "begin") /\ FirstTurn(c, "begin")
  <1>1. Stage("new") < Stage("begin")
    BY DEF Stage
  <1> QED
    BY <1>1 DEF Call, Advance, FirstTurn

\* However calls overlap, none is lost between loop and worker, handed over twice
\* or run by both: when the threads have emptied their queues all calls that were
\* made are done. This is what EveryCallReturns needs of the hand-over.
THEOREM CallsKeepTheirTurn == Spec => []EveryCallHasItsTurn
  <1>1. Init => EveryCallHasItsTurn
    <2> SUFFICES ASSUME Init PROVE EveryCallHasItsTurn
      OBVIOUS
    <2>1. Members(<<>>) = {} /\ Once(<<>>)
      BY DEF Members, Once
    <2>2. ready = <<>> /\ queue = <<>> /\ \A c \in Calls : pc[c] = "new"
      BY DEF Init
    <2> QED
      BY <2>1, <2>2 DEF EveryCallHasItsTurn, LoopPlaces, WorkerPlaces
  <1>2. SchedInv /\ EveryCallHasItsTurn /\ [Next]_vars => EveryCallHasItsTurn'
    <2> SUFFICES ASSUME SchedInv, EveryCallHasItsTurn, [Next]_vars
                 PROVE  EveryCallHasItsTurn'
      OBVIOUS
    <2>1. CASE UNCHANGED <<pc, ready, queue>>
      BY <2>1 DEF EveryCallHasItsTurn
    <2>2. Perish => UNCHANGED <<pc, ready, queue>>
      BY DEF Perish, sched
    <2>3. ASSUME NEW c \in Calls, ScanChunk(c) PROVE UNCHANGED <<pc, ready, queue>>
      BY <2>3 DEF ScanChunk, sched
    <2>4. UNCHANGED vars => UNCHANGED <<pc, ready, queue>>
      BY DEF vars, sched
    <2>5. ASSUME NEW c \in Calls, NEW place \in Places, Advance(c, place),
                 FirstTurn(c, place) \/ LoopTurn(c, place) \/ WorkerTurn(c, place)
          PROVE  EveryCallHasItsTurn'
      BY <2>5, TurnsPreserved DEF Advance, SchedInv
    <2>6. ASSUME NEW c \in Calls, Call(c) PROVE EveryCallHasItsTurn'
      <3>1. "begin" \in Places
        BY DEF Places
      <3> QED
        BY <2>5, <2>6, <3>1, CallStarts
    <2>7. ASSUME NEW c \in Calls, Loop(c) PROVE EveryCallHasItsTurn'
      BY <2>1, <2>2, <2>5, <2>7, LoopGoesOn
    <2>8. ASSUME NEW c \in Calls, Worker(c) PROVE EveryCallHasItsTurn'
      BY <2>1, <2>2, <2>3, <2>5, <2>8, WorkerGoesOn
    <2> QED
      BY <2>1, <2>4, <2>6, <2>7, <2>8 DEF Next
  <1>3. Spec => []SchedInv
    BY HoldersInvariant, PTL
  <1> QED
    BY <1>1, <1>2, <1>3, PTL DEF Spec

\* However calls overlap, every step takes one call on and none back: there is no
\* place a call returns to, and a copying loop asks for each record once at most,
\* whatever another call does to its FILE. What is left of EveryCallReturns is
\* that the call whose turn it is always has a step.
THEOREM CallsComeToAnEnd == Spec => CallsGoOn
  <1>1. SchedInv /\ TypeInv /\ [Next]_vars =>
          [\/ alive /\ ~alive'
           \/ \E c \in Calls :
                /\ \A d \in Calls \ {c} :
                     pc'[d] = pc[d] /\ (pc[d] = "scan" => UNCHANGED <<k, hdr>>)
                /\ \/ Stage(pc[c]) < Stage(pc'[c])
                   \/ /\ pc[c] = "scan" /\ pc'[c] = "scan"
                      /\ hdr' = hdr /\ k < k' /\ k' <= hdr]_vars
    <2> SUFFICES ASSUME SchedInv, TypeInv, NEW c \in Calls,
                        Call(c) \/ Loop(c) \/ Worker(c), ~(alive /\ ~alive')
                 PROVE  /\ \A d \in Calls \ {c} :
                             pc'[d] = pc[d] /\ (pc[d] = "scan" => UNCHANGED <<k, hdr>>)
                        /\ \/ Stage(pc[c]) < Stage(pc'[c])
                           \/ /\ pc[c] = "scan" /\ pc'[c] = "scan"
                              /\ hdr' = hdr /\ k < k' /\ k' <= hdr
      BY DEF Next
    <2>1. alive
      BY DEF Call, Loop, Worker, OnLoop, OnWorker, Begin, StopAtStats, GoOnWithJob,
         WriteHeader, Replace, Relink, Clean, Stats, Copy, InsertRow, AppendRecord,
         Rename, Reopen, Unlink, Change, ChangeNothing, ReadRecords, ReadNull,
         DeleteNothing, OpenTemp, ScanChunk, Seal
    <2>2. ~Perish
      BY <2>1 DEF Perish
    <2>3. ASSUME NEW place \in Places, Advance(c, place)
          PROVE  /\ Stage(pc[c]) < Stage(pc'[c])
                 /\ \A d \in Calls \ {c} : pc'[d] = pc[d]
      BY <2>3 DEF Advance, SchedInv, SchedType
    <2>4. CASE Call(c)
      <3>1. "begin" \in Places
        BY DEF Places
      <3> QED
        BY <2>3, <2>4, <3>1, CallStarts DEF local
    <2>5. CASE Loop(c)
      BY <2>2, <2>3, <2>5, LoopGoesOn DEF local
    <2>6. CASE Worker(c)
      <3>1. \A d \in Calls \ {c} : pc[d] # "scan"
        <4>1. queue # <<>> /\ Head(queue) = c
          BY <2>6 DEF Worker, OnWorker, Stats, Copy, InsertRow, AppendRecord,
             Rename, Reopen, Unlink, Change, ChangeNothing, ReadRecords, ReadNull,
             DeleteNothing, OpenTemp, ScanChunk, Seal
        <4> QED
          BY <4>1 DEF SchedInv, JobAtHead, JobPlaces
      <3>2. CASE ScanChunk(c)
        <4>1. /\ pc[c] = "scan" /\ k < hdr /\ pc' = pc /\ hdr' = hdr
              /\ k' = k + Smaller(BufferSize, hdr - k)
          BY <3>2 DEF ScanChunk, OnWorker
        <4>2. k \in Nat /\ hdr \in Nat /\ BufferSize \in Nat \ {0}
          BY ClientAssumption DEF TypeInv, TypeOK
        <4>3. k < k' /\ k' <= hdr
          BY <4>1, <4>2 DEF Smaller
        <4> QED
          BY <3>1, <4>1, <4>3
      <3>3. CASE ~ScanChunk(c)
        BY <2>2, <2>3, <2>6, <3>1, <3>3, WorkerGoesOn
      <3> QED
        BY <3>2, <3>3
    <2> QED
      BY <2>4, <2>5, <2>6
  <1> QED
    BY <1>1, DataInvariant, PTL DEF Spec, CallsGoOn
=============================================================================
