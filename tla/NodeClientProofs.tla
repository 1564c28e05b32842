-------------------------- MODULE NodeClientProofs --------------------------
(***************************************************************************)
(* Proofs about the calls of one Node client, for any number of calls and  *)
(* threads, any requests, any index and any number of crashes.             *)
(***************************************************************************)
EXTENDS NodeClient, FiniteSetTheorems, TLAPS

-----------------------------------------------------------------------------
(* Invariants                                                              *)

\* Where a call may be, by what it does.
Fits(kind, place) ==
  \/ kind = "none" /\ place \in {"new", "done"}
  \/ kind = "search" /\ place = "read"
  \/ kind = "page" /\ place \in {"stats", "read"}
  \/ kind = "insert" /\ place \in {"stats", "copy", "open", "begin", "rows", "end",
                                  "append", "rename", "reopen", "unlink"}
  \/ kind = "delete" /\ place \in {"stats", "header", "scan", "seal", "begin", "rows",
                                  "end", "undo", "rename", "reopen", "unlink"}
  \/ kind = "update" /\ place \in {"stats", "begin", "rows", "end", "reopen"}

PlacesFit == \A c \in Calls : Fits(Kind(c), pc[c])

TypeInv == TypeOK /\ PlacesFit

\* A call that has come past its ".temp" and is going to unlink it.
Holding(c) ==
  /\ Kind(c) \in {"insert", "delete"}
  /\ pc[c] \in {"open", "scan", "seal", "begin", "rows", "end", "undo", "append",
                "rename", "reopen", "unlink"}

\* A ".temp" that no call in progress is going to unlink.
Stale == temp # None /\ \A c \in Calls : ~Holding(c)

\* Only a crash leaves one, and only while one is there a deletion is refused.
StaleByCrash ==
  /\ crashes = 0 => ~Stale
  /\ ~mixed => IF Stale THEN refused < crashes ELSE refused <= crashes

\* A call that has begun a transaction is going to end it.
Ends == saved.open => \E c \in Calls : pc[c] \in {"rows", "end"}

\* As long as no writer has overlapped, one in progress is alone.
Alone ==
  ~mixed => \A c, d \in InProgress : c # d => ~Writes(c) /\ ~Writes(d)

\* The copy is neither the vector file nor what the connection has open.
Apart == temp # None => temp \notin {main, file}

\* And then the connection is open, but for a writer that is going to open it.
Reopening(c) ==
  /\ Kind(c) \in {"insert", "delete"}
  /\ pc[c] \in {"begin", "rows", "end", "undo", "append", "rename", "reopen"}

OpenWhenAlone ==
  ~mixed =>
    /\ alive
    /\ file = None => \E c \in Calls : Reopening(c)
    /\ file \in {None, main} \/ \E c \in Calls : pc[c] = "reopen"
    /\ \A c \in Calls : pc[c] = "seal" => file # None
    /\ \A c \in Calls : Holding(c) /\ pc[c] \notin {"reopen", "unlink"} =>
         temp # None

ClientInv == TypeInv /\ Ends /\ Alone /\ Apart /\ OpenWhenAlone

\* What a writer that is alone has done so far, and still has to do.
Matches(f) == f = File(Cardinality(rows), rows)

InsertionSoFar(c) ==
  /\ pc[c] \in {"stats", "copy", "unlink", "reopen"} => Matches(store[main])
  /\ pc[c] \in {"open", "begin", "rows"} =>
       Matches(store[main]) /\ Matches(store[temp])
  /\ pc[c] \in {"begin", "rows", "end", "append"} =>
       own[c] = temp /\ count[c] = store[temp].n
  /\ pc[c] \in {"end", "append"} =>
       /\ store[temp] = File(Cardinality(rows) - 1, rows \ named[c])
       /\ named[c] # {} /\ named[c] \subseteq rows
  /\ pc[c] = "rename" => Matches(store[temp])

DeletionSoFar(c) ==
  /\ pc[c] # "undo"
  /\ pc[c] \in {"stats", "header", "scan", "unlink", "reopen"} => Matches(store[main])
  /\ pc[c] = "header" => count[c] = Cardinality(rows)
  /\ pc[c] = "scan" => store[temp].n = Cardinality(rows)
  /\ pc[c] \in {"seal", "begin", "rows"} =>
       /\ Matches(store[main])
       /\ store[temp] = File(Cardinality(rows \ named[c]), rows \ named[c])
       /\ (answer[c] = 0 => rows \ named[c] = rows)
  /\ pc[c] \in {"end", "rename"} => Matches(store[temp])
  /\ pc[c] = "end" /\ answer[c] = 0 => Matches(store[main])

UpdateSoFar(c) ==
  /\ Matches(store[main])
  /\ pc[c] \in {"rows", "end"} => saved.rows = rows

SoFar(c) ==
  /\ Kind(c) = "insert" => InsertionSoFar(c)
  /\ Kind(c) = "delete" => DeletionSoFar(c)
  /\ Kind(c) = "update" => UpdateSoFar(c)
  /\ pc[c] \in {"rows", "end"} => saved.open

ContentInv ==
  ~mixed /\ crashes = 0 =>
    /\ \A c \in InProgress : Writes(c) => SoFar(c)
    /\ (\A c \in InProgress : ~Writes(c)) => Matches(store[main])

-----------------------------------------------------------------------------
(* Lemmas about the operators                                              *)

LEMMA OneMore ==
  ASSUME NEW S, IsFiniteSet(S), NEW n \in Nat, Cardinality(S) <= n, NEW x
  PROVE  IsFiniteSet(S \union {x}) /\ Cardinality(S \union {x}) <= n + 1
  <1>1. IsFiniteSet(S \union {x})
        /\ Cardinality(S \union {x}) = IF x \in S THEN Cardinality(S)
                                        ELSE Cardinality(S) + 1
    BY FS_AddElement
  <1>2. Cardinality(S) \in Nat
    BY FS_CardinalityType
  <1> QED
    BY <1>1, <1>2

\* There is an inode that nothing stands for: one for each call's own, three
\* for the names and the connection, and Inodes has one more.
LEMMA FreshInode ==
  ASSUME TypeOK
  PROVE  /\ Fresh \in Inodes
         /\ Fresh \notin {main, temp, file}
         /\ \A c \in Calls : own[c] # Fresh
  <1> DEFINE held == {own[c] : c \in Calls}
             used == {main, temp, file} \union held
  <1>1. IsFiniteSet(Calls) /\ Cardinality(Calls) \in Nat
    BY NodeAssumption, FS_CardinalityType
  <1>2. own \in Surjection(Calls, held)
    BY DEF TypeOK, Surjection
  <1>3. IsFiniteSet(held) /\ Cardinality(held) <= Cardinality(Calls)
        /\ Cardinality(held) \in Nat
    BY <1>1, <1>2, FS_Surjection, FS_CardinalityType
  <1>4. IsFiniteSet(used) /\ Cardinality(used) <= Cardinality(Calls) + 3
        /\ Cardinality(used) \in Nat
    <2> HIDE DEF held
    <2> DEFINE one == held \union {main}
               two == one \union {temp}
               three == two \union {file}
    <2>1. used = three
      OBVIOUS
    <2>2. IsFiniteSet(one) /\ Cardinality(one) <= Cardinality(Calls) + 1
      BY <1>1, <1>3, OneMore
    <2> HIDE DEF one
    <2>3. IsFiniteSet(two) /\ Cardinality(two) <= Cardinality(Calls) + 1 + 1
      BY <1>1, <2>2, OneMore
    <2> HIDE DEF two
    <2>4. IsFiniteSet(three) /\ Cardinality(three) <= Cardinality(Calls) + 1 + 1 + 1
      BY <1>1, <2>3, OneMore
    <2> HIDE DEF used, three
    <2> QED
      BY <1>1, <2>1, <2>4, FS_CardinalityType
  <1>5. IsFiniteSet(Inodes) /\ Cardinality(Inodes) = Cardinality(Calls) + 4
    BY <1>1, FS_Interval DEF Inodes
  <1>6. \E i \in Inodes : i \notin used
    <2> HIDE DEF used
    <2> QED
      BY <1>1, <1>4, <1>5, FS_Subset
  <1> QED
    BY <1>6 DEF Fresh

\* What a call finds next: its place, and what it asked for until it is over.
LEMMA GoToType ==
  ASSUME TypeInv, NEW c \in Calls, NEW place \in Places, GoTo(c, place),
         place = "done" \/ Fits(Kind(c), place)
  PROVE  /\ pc' \in [Calls -> Places] /\ pc'[c] = place
         /\ asked' \in [Calls -> Requests \union {Nothing}]
         /\ place # "done" => asked' = asked
         /\ \A d \in Calls \ {c} : pc'[d] = pc[d] /\ asked'[d] = asked[d]
         /\ PlacesFit'
  BY DEF TypeInv, TypeOK, GoTo, PlacesFit, Kind, Fits, Nothing, Places

LEMMA AnswerType ==
  ASSUME TypeOK, NEW c \in Calls, NEW n \in Int, Answer(c, n)
  PROVE  /\ answer' \in [Calls -> Int] /\ answer'[c] = n
         /\ \A d \in Calls \ {c} : answer'[d] = answer[d]
  BY DEF TypeOK, Answer

LEMMA KindType ==
  ASSUME TypeInv, NEW c \in Calls, pc[c] \notin {"new", "done"}
  PROVE  asked[c] \in Requests /\ asked[c] \in Request
         /\ Kind(c) \in Kinds /\ Fits(Kind(c), pc[c])
  <1>1. Fits(Kind(c), pc[c]) /\ pc[c] \in Places
    BY DEF TypeInv, TypeOK, PlacesFit
  <1>2. Kind(c) # "none"
    BY <1>1 DEF Fits, Places
  <1>3. asked[c] \in Requests /\ asked[c] \in Request
    BY <1>2, NodeAssumption DEF TypeInv, TypeOK, Kind, Nothing
  <1> QED
    BY <1>1, <1>3 DEF Request, Kind

\* A writer's inode with new contents, a count and a finite set of ids.
LEMMA StoreType ==
  ASSUME TypeOK, NEW i \in Inodes, NEW n \in Nat,
         NEW ids \in SUBSET Nat, IsFiniteSet(ids)
  PROVE  LET new == [store EXCEPT ![i] = File(n, ids)]
         IN  /\ new \in [Inodes -> [n : Nat, ids : SUBSET Nat]]
             /\ \A j \in Inodes : IsFiniteSet(new[j].ids)
  BY DEF TypeOK, File

LEMMA FirstRecordsType ==
  ASSUME NEW n, NEW ids
  PROVE  FirstRecords(n, ids) \subseteq ids
  BY DEF FirstRecords

\* What a deletion names: ids, and no more than finitely many.
LEMMA DoomedType ==
  ASSUME TypeInv, NEW c \in Calls, pc[c] = "scan"
  PROVE  Doomed(c) \in SUBSET Nat /\ IsFiniteSet(Doomed(c))
  <1>1. asked[c] \in Requests /\ asked[c] \in Request
    BY KindType
  <1>2. asked[c].ids \in SUBSET Nat /\ IsFiniteSet(asked[c].ids)
    BY <1>1, NodeAssumption DEF Request
  <1>3. IsFiniteSet(asked[c].ids \intersect rows)
    BY <1>2, FS_Intersection
  <1> QED
    BY <1>2, <1>3 DEF Doomed

-----------------------------------------------------------------------------
(* Every action keeps the types                                            *)

LEMMA CallTypes ==
  ASSUME TypeInv, NEW c \in Calls, Call(c)
  PROVE  TypeInv'
  <1>1. PICK request \in Requests : asked' = [asked EXCEPT ![c] = request]
    BY DEF Call
  <1>2. /\ request.kind \in Kinds /\ Kind(c)' = request.kind
        /\ asked' \in [Calls -> Requests \union {Nothing}]
    BY <1>1, NodeAssumption DEF TypeInv, TypeOK, Request, Kind
  <1>3. pc' = [pc EXCEPT ![c] = IF Kind(c)' = "search" THEN "read" ELSE "stats"]
        /\ UNCHANGED <<disk, file, sqlite, local, answer, alive, crashes, refused>>
    BY DEF Call
  <1>4. mixed' \in BOOLEAN
    BY DEF Call, TypeInv, TypeOK
  <1>5. TypeOK'
    BY <1>2, <1>3, <1>4 DEF TypeInv, TypeOK, disk, sqlite, local, Places
  <1>6. PlacesFit'
    BY <1>1, <1>2, <1>3 DEF TypeInv, TypeOK, PlacesFit, Kind, Fits, Kinds
  <1> QED
    BY <1>5, <1>6 DEF TypeInv

LEMMA PerishTypes ==
  ASSUME TypeInv, Perish
  PROVE  TypeInv'
  BY DEF Perish, TypeInv, TypeOK, PlacesFit, Kind, disk, sqlite, local, ghosts

LEMMA StatsTypes ==
  ASSUME TypeInv, NEW c \in Calls, Stats(c)
  PROVE  TypeInv'
  <1>1. CASE Perish
    BY <1>1, PerishTypes
  <1>2. CASE ~Perish
    <2>1. Fits(Kind(c), "stats")
      BY KindType DEF Stats, At
    <2>2. \E place \in Places :
            GoTo(c, place) /\ (place = "done" \/ Fits(Kind(c), place))
      <3>1. CASE Kind(c) = "insert"
        BY <1>2, <3>1 DEF Stats, Fits, Places
      <3>2. CASE Kind(c) = "delete"
        BY <1>2, <3>2 DEF Stats, Fits, Places
      <3>3. CASE Kind(c) = "update"
        BY <1>2, <3>3 DEF Stats, Fits, Places
      <3>4. CASE Kind(c) = "page"
        BY <1>2, <3>4 DEF Stats, Fits, Places
      <3> QED
        BY <2>1, <3>1, <3>2, <3>3, <3>4 DEF Fits
    <2>3. count' \in [Calls -> Nat]
      BY <1>2 DEF Stats, TypeInv, TypeOK
    <2>4. UNCHANGED <<disk, file, sqlite, own, named, answer, alive, ghosts>>
      BY <1>2 DEF Stats
    <2>5. /\ pc' \in [Calls -> Places] /\ PlacesFit'
          /\ asked' \in [Calls -> Requests \union {Nothing}]
      BY <2>2, GoToType
    <2> QED
      BY <2>3, <2>4, <2>5 DEF TypeInv, TypeOK, disk, sqlite, ghosts
  <1> QED
    BY <1>1, <1>2 DEF Stats

LEMMA ReadTypes ==
  ASSUME TypeInv, NEW c \in Calls, Read(c)
  PROVE  TypeInv'
  <1>1. CASE Perish
    BY <1>1, PerishTypes
  <1>2. CASE GoTo(c, "done")
             /\ UNCHANGED <<disk, file, sqlite, local, answer, alive, ghosts>>
    <2>1. /\ pc' \in [Calls -> Places] /\ PlacesFit'
          /\ asked' \in [Calls -> Requests \union {Nothing}]
      BY <1>2, GoToType DEF Places
    <2> QED
      BY <1>2, <2>1 DEF TypeInv, TypeOK, disk, sqlite, local, ghosts
  <1> QED
    BY <1>1, <1>2 DEF Read, AfterRead

LEMMA CopyTypes ==
  ASSUME TypeInv, NEW c \in Calls, Copy(c)
  PROVE  TypeInv' /\ temp' \in Inodes
         /\ store' = [store EXCEPT ![temp'] = File(store[main].n, store[main].ids)]
  <1>1. /\ pc' \in [Calls -> Places] /\ PlacesFit'
        /\ asked' \in [Calls -> Requests \union {Nothing}]
    BY GoToType, KindType DEF Copy, At, Fits, Places
  <1>2. temp' \in Inodes
    BY FreshInode DEF Copy, TypeInv, TypeOK
  <1>3. store[main] \in [n : Nat, ids : SUBSET Nat] /\ IsFiniteSet(store[main].ids)
    BY DEF TypeInv, TypeOK
  <1>4. store[main] = File(store[main].n, store[main].ids)
    BY <1>3 DEF File
  <1>5. /\ store' \in [Inodes -> [n : Nat, ids : SUBSET Nat]]
        /\ \A i \in Inodes : IsFiniteSet(store'[i].ids)
    BY <1>2, <1>3, <1>4, StoreType DEF Copy, TypeInv
  <1> QED
    BY <1>1, <1>2, <1>4, <1>5
       DEF Copy, TypeInv, TypeOK, sqlite, local, ghosts

LEMMA HeaderTypes ==
  ASSUME TypeInv, NEW c \in Calls, Header(c)
  PROVE  TypeInv'
  <1>1. Fits(Kind(c), "header")
    BY KindType DEF Header, At
  <1>2. CASE temp = None
    <2>1. /\ pc' \in [Calls -> Places] /\ PlacesFit'
          /\ asked' \in [Calls -> Requests \union {Nothing}]
      BY <1>1, <1>2, GoToType DEF Header, Fits, Places
    <2>2. temp' \in Inodes
      BY <1>2, FreshInode DEF Header, TypeInv
    <2>3. IsFiniteSet({}) /\ count[c] \in Nat
      BY FS_EmptySet DEF TypeInv, TypeOK
    <2>4. /\ store' \in [Inodes -> [n : Nat, ids : SUBSET Nat]]
          /\ \A i \in Inodes : IsFiniteSet(store'[i].ids)
      BY <1>2, <2>2, <2>3, StoreType DEF Header, TypeInv
    <2> QED
      BY <1>2, <2>1, <2>2, <2>4 DEF Header, TypeInv, TypeOK, sqlite, local
  <1>3. CASE temp # None
    <2>1. /\ pc' \in [Calls -> Places] /\ PlacesFit'
          /\ asked' \in [Calls -> Requests \union {Nothing}]
      BY <1>1, <1>3, GoToType DEF Header, Fits, Places
    <2>2. answer' \in [Calls -> Int]
      BY <1>3, AnswerType DEF Header, TypeInv
    <2> QED
      BY <1>3, <2>1, <2>2 DEF Header, TypeInv, TypeOK, sqlite, local
  <1> QED
    BY <1>2, <1>3

LEMMA OpenTempTypes ==
  ASSUME TypeInv, NEW c \in Calls, OpenTemp(c)
  PROVE  TypeInv'
  <1>1. Fits(Kind(c), "open")
    BY KindType DEF OpenTemp, At
  <1>2. CASE temp = None
    <2>1. /\ pc' \in [Calls -> Places] /\ PlacesFit'
          /\ asked' \in [Calls -> Requests \union {Nothing}]
      BY <1>1, <1>2, GoToType DEF OpenTemp, Fits, Places
    <2> QED
      BY <1>2, <2>1 DEF OpenTemp, TypeInv, TypeOK, disk, sqlite, ghosts
  <1>3. CASE temp # None /\ GoTo(c, "begin") /\ UNCHANGED alive /\ file' = None
             /\ own' = [own EXCEPT ![c] = temp]
             /\ count' = [count EXCEPT ![c] = store[temp].n]
    <2>1. /\ pc' \in [Calls -> Places] /\ PlacesFit'
          /\ asked' \in [Calls -> Requests \union {Nothing}]
      BY <1>1, <1>3, GoToType DEF Fits, Places
    <2>2. own' \in [Calls -> Inodes \union {None}] /\ count' \in [Calls -> Nat]
      BY <1>3 DEF TypeInv, TypeOK
    <2> QED
      BY <1>3, <2>1, <2>2 DEF OpenTemp, TypeInv, TypeOK, disk, sqlite, ghosts
  <1>4. CASE ~alive' /\ UNCHANGED <<file, own, count, pc, asked>>
    BY <1>4 DEF OpenTemp, TypeInv, TypeOK, PlacesFit, Kind, disk, sqlite, ghosts
  <1> QED
    BY <1>2, <1>3, <1>4 DEF OpenTemp

\* What a deletion goes on with: it has an answer, and renames or reopens.
LEMMA AfterDeleteTypes ==
  ASSUME TypeInv, NEW c \in Calls, NEW n \in Int, Kind(c) = "delete",
         AfterDelete(c, n)
  PROVE  /\ pc' \in [Calls -> Places] /\ PlacesFit'
         /\ asked' = asked
         /\ answer' \in [Calls -> Int] /\ answer'[c] = n
         /\ pc'[c] = IF asked[c].filtered /\ n = 0 THEN "reopen" ELSE "rename"
         /\ \A d \in Calls \ {c} : pc'[d] = pc[d] /\ answer'[d] = answer[d]
  <1>1. CASE asked[c].filtered /\ n = 0
    BY <1>1, GoToType, AnswerType DEF AfterDelete, TypeInv, Fits, Places
  <1>2. CASE ~(asked[c].filtered /\ n = 0)
    BY <1>2, GoToType, AnswerType DEF AfterDelete, TypeInv, Fits, Places
  <1> QED
    BY <1>1, <1>2

\* The records a deletion keeps are records of the file, and no more than it.
LEMMA KeptType ==
  ASSUME TypeInv, NEW c \in Calls, file # None, NEW n
  PROVE  LET kept == FirstRecords(n, store[file].ids) \ Doomed(c)
         IN  /\ kept \in SUBSET Nat /\ IsFiniteSet(kept)
             /\ Cardinality(kept) \in Nat
             /\ kept \subseteq store[file].ids
  <1> DEFINE kept == FirstRecords(n, store[file].ids) \ Doomed(c)
  <1>1. store[file].ids \in SUBSET Nat /\ IsFiniteSet(store[file].ids)
    BY DEF TypeInv, TypeOK
  <1>2. kept \in SUBSET store[file].ids
    BY FirstRecordsType
  <1>3. IsFiniteSet(kept)
    BY <1>1, <1>2, FS_Subset
  <1>4. Cardinality(kept) \in Nat
    BY <1>3, FS_CardinalityType
  <1> QED
    BY <1>1, <1>2, <1>3, <1>4

LEMMA ScanTypes ==
  ASSUME TypeInv, NEW c \in Calls, Scan(c)
  PROVE  TypeInv'
  <1>1. Kind(c) = "delete" /\ Fits(Kind(c), "scan")
    BY KindType DEF Scan, At, Fits
  <1>2. CASE Doomed(c) = {} \/ file = None \/ temp = None
    <2>1. AfterDelete(c, 0)
      BY <1>2 DEF Scan
    <2>2. /\ pc' \in [Calls -> Places] /\ PlacesFit' /\ asked' = asked
          /\ answer' \in [Calls -> Int]
      BY <1>1, <2>1, AfterDeleteTypes
    <2> QED
      BY <1>2, <2>2 DEF Scan, TypeInv, TypeOK, sqlite, ghosts
  <1>3. CASE ~(Doomed(c) = {} \/ file = None \/ temp = None)
    <2> DEFINE n == store[temp].n
               kept == FirstRecords(n, store[file].ids) \ Doomed(c)
    <2>1. /\ kept \in SUBSET Nat /\ IsFiniteSet(kept) /\ Cardinality(kept) \in Nat
          /\ n \in Nat /\ temp \in Inodes
      BY <1>3, KeptType DEF TypeInv, TypeOK
    <2>2. /\ store' = [store EXCEPT ![temp] = File(Cardinality(kept), kept)]
          /\ own' = [own EXCEPT ![c] = temp]
          /\ named' = [named EXCEPT ![c] = Doomed(c)]
          /\ Answer(c, n - Cardinality(kept)) /\ GoTo(c, "seal")
          /\ UNCHANGED <<main, temp, file, sqlite, count, alive, ghosts>>
      BY <1>3 DEF Scan
    <2> HIDE DEF kept, n
    <2>3. /\ store' \in [Inodes -> [n : Nat, ids : SUBSET Nat]]
          /\ \A i \in Inodes : IsFiniteSet(store'[i].ids)
      BY <2>1, <2>2, StoreType DEF TypeInv
    <2>4. /\ pc' \in [Calls -> Places] /\ PlacesFit'
          /\ asked' \in [Calls -> Requests \union {Nothing}]
      BY <1>1, <2>2, GoToType DEF Fits, Places
    <2>5. answer' \in [Calls -> Int]
      BY <2>1, <2>2, AnswerType DEF TypeInv
    <2>6. Doomed(c) \in SUBSET Nat /\ IsFiniteSet(Doomed(c))
      BY DoomedType DEF Scan, At
    <2>7. /\ own' \in [Calls -> Inodes \union {None}]
          /\ named' \in [Calls -> SUBSET Nat]
          /\ \A d \in Calls : IsFiniteSet(named'[d])
      BY <2>1, <2>2, <2>6 DEF TypeInv, TypeOK
    <2> QED
      BY <2>2, <2>3, <2>4, <2>5, <2>7 DEF TypeInv, TypeOK, sqlite, ghosts
  <1> QED
    BY <1>2, <1>3

LEMMA SealTypes ==
  ASSUME TypeInv, NEW c \in Calls, Seal(c)
  PROVE  TypeInv'
  <1>1. CASE GoTo(c, "begin") /\ file' = None /\ UNCHANGED alive
    <2>1. /\ pc' \in [Calls -> Places] /\ PlacesFit'
          /\ asked' \in [Calls -> Requests \union {Nothing}]
      BY <1>1, KindType, GoToType DEF Seal, At, Fits, Places
    <2> QED
      BY <1>1, <2>1 DEF Seal, TypeInv, TypeOK, disk, sqlite, local, ghosts
  <1>2. CASE ~alive' /\ UNCHANGED <<file, pc, asked>>
    BY <1>2 DEF Seal, TypeInv, TypeOK, PlacesFit, Kind, disk, sqlite, local, ghosts
  <1> QED
    BY <1>1, <1>2 DEF Seal

LEMMA BeginTypes ==
  ASSUME TypeInv, NEW c \in Calls, Begin(c)
  PROVE  TypeInv'
  <1>1. Fits(Kind(c), "begin")
    BY KindType DEF Begin, At
  <1>2. CASE Kind(c) = "delete" /\ saved.open
    <2>1. /\ pc' \in [Calls -> Places] /\ PlacesFit' /\ asked' = asked
          /\ answer' \in [Calls -> Int]
      BY <1>2, AfterDeleteTypes DEF Begin
    <2> QED
      BY <1>2, <2>1 DEF Begin, TypeInv, TypeOK, disk, local, ghosts
  <1>3. CASE ~(Kind(c) = "delete" /\ saved.open)
    <2>1. \E place \in {"reopen", "unlink", "rows"} :
            GoTo(c, place) /\ Fits(Kind(c), place)
      BY <1>1, <1>3 DEF Begin, Fits
    <2>2. /\ pc' \in [Calls -> Places] /\ PlacesFit'
          /\ asked' \in [Calls -> Requests \union {Nothing}]
      BY <2>1, GoToType DEF Places
    <2>3. /\ UNCHANGED answer
          /\ UNCHANGED saved \/ saved' = [open |-> TRUE, rows |-> rows, seq |-> seq]
      BY <1>3 DEF Begin
    <2>4. /\ saved' \in [open : BOOLEAN, rows : SUBSET Nat, seq : Nat]
          /\ saved'.rows \subseteq 1 .. saved'.seq
      <3> DEFINE new == [open |-> TRUE, rows |-> rows, seq |-> seq]
      <3>1. rows \subseteq 1 .. seq /\ seq \in Nat
        BY DEF TypeInv, TypeOK
      <3>2. new \in [open : BOOLEAN, rows : SUBSET Nat, seq : Nat]
        BY <3>1
      <3>3. new.rows \subseteq 1 .. new.seq
        BY <3>1
      <3>4. /\ saved \in [open : BOOLEAN, rows : SUBSET Nat, seq : Nat]
            /\ saved.rows \subseteq 1 .. saved.seq
        BY DEF TypeInv, TypeOK
      <3> HIDE DEF new
      <3>5. saved' = saved \/ saved' = new
        BY <2>3 DEF new
      <3> QED
        BY <3>2, <3>3, <3>4, <3>5
    <2> QED
      BY <2>2, <2>3, <2>4 DEF Begin, TypeInv, TypeOK, disk, local, ghosts
  <1> QED
    BY <1>2, <1>3

LEMMA RowsTypes ==
  ASSUME TypeInv, NEW c \in Calls, Rows(c)
  PROVE  TypeInv'
  <1>1. Fits(Kind(c), "rows")
    BY KindType DEF Rows, At
  <1>2. CASE Kind(c) = "update" /\ file = None
    BY <1>2, PerishTypes DEF Rows
  <1>3. CASE ~(Kind(c) = "update" /\ file = None)
    <2>1. /\ pc' \in [Calls -> Places] /\ PlacesFit'
          /\ asked' \in [Calls -> Requests \union {Nothing}]
      BY <1>1, <1>3, GoToType DEF Rows, Fits, Places
    <2>2. UNCHANGED <<disk, file, saved, own, count, answer, alive, ghosts>>
      BY <1>3 DEF Rows
    <2>3. /\ rows' \subseteq 1 .. seq' /\ seq' \in Nat
          /\ named' \in [Calls -> SUBSET Nat]
          /\ \A d \in Calls : IsFiniteSet(named'[d])
      <3>1. CASE Kind(c) = "insert"
        <4>1. rows' = rows \union {seq + 1} /\ seq' = seq + 1
              /\ named' = [named EXCEPT ![c] = {seq + 1}]
          BY <1>3, <3>1 DEF Rows
        <4>2. IsFiniteSet({seq + 1})
          BY FS_Singleton
        <4> QED
          BY <4>1, <4>2 DEF TypeInv, TypeOK
      <3>2. CASE Kind(c) = "delete"
        <4>1. rows' = rows \ named[c] /\ UNCHANGED <<seq, named>>
          BY <1>3, <3>2 DEF Rows
        <4> QED
          BY <4>1 DEF TypeInv, TypeOK
      <3>3. CASE Kind(c) = "update"
        <4>1. UNCHANGED <<rows, seq, named>>
          BY <1>3, <3>3 DEF Rows
        <4> QED
          BY <4>1 DEF TypeInv, TypeOK
      <3> QED
        BY <1>1, <3>1, <3>2, <3>3 DEF Fits
    <2> QED
      BY <2>1, <2>2, <2>3 DEF TypeInv, TypeOK, disk, ghosts
  <1> QED
    BY <1>2, <1>3

LEMMA TransactionTypes ==
  ASSUME TypeOK, Commit \/ Rollback \/ UNCHANGED sqlite
  PROVE  /\ rows' \subseteq 1 .. seq' /\ seq' \in Nat
         /\ saved' \in [open : BOOLEAN, rows : SUBSET Nat, seq : Nat]
         /\ saved'.rows \subseteq 1 .. saved'.seq
  <1>1. /\ rows \subseteq 1 .. seq /\ seq \in Nat
        /\ saved \in [open : BOOLEAN, rows : SUBSET Nat, seq : Nat]
        /\ saved.rows \subseteq 1 .. saved.seq /\ saved.seq \in Nat
    BY DEF TypeOK
  <1>2. /\ Closed \in [open : BOOLEAN, rows : SUBSET Nat, seq : Nat]
        /\ Closed.rows \subseteq 1 .. Closed.seq
    BY DEF Closed
  <1>3. CASE Commit
    BY <1>1, <1>2, <1>3 DEF Commit
  <1>4. CASE Rollback
    BY <1>1, <1>2, <1>4 DEF Rollback, sqlite
  <1>5. CASE UNCHANGED sqlite
    BY <1>1, <1>5 DEF sqlite
  <1> QED
    BY <1>3, <1>4, <1>5

LEMMA EndTypes ==
  ASSUME TypeInv, NEW c \in Calls, End(c)
  PROVE  TypeInv'
  <1>1. UNCHANGED <<disk, file, local, alive, ghosts>>
    BY DEF End
  <1>2. /\ rows' \subseteq 1 .. seq' /\ seq' \in Nat
        /\ saved' \in [open : BOOLEAN, rows : SUBSET Nat, seq : Nat]
        /\ saved'.rows \subseteq 1 .. saved'.seq
    <2>1. Commit \/ Rollback
      BY DEF End, EndInsert, EndDelete, EndUpdate
    <2> QED
      BY <2>1, TransactionTypes DEF TypeInv
  <1>3. /\ pc' \in [Calls -> Places] /\ PlacesFit'
        /\ asked' \in [Calls -> Requests \union {Nothing}]
        /\ answer' \in [Calls -> Int]
    <2>1. CASE AfterDelete(c, answer[c]) /\ Kind(c) = "delete"
      <3>1. answer[c] \in Int
        BY DEF TypeInv, TypeOK
      <3> QED
        BY <2>1, <3>1, AfterDeleteTypes DEF TypeInv, TypeOK
    <2>2. CASE /\ UNCHANGED answer
               /\ \E place \in {"append", "undo", "reopen"} :
                    GoTo(c, place) /\ Fits(Kind(c), place)
      BY <2>2, GoToType DEF Places, TypeInv, TypeOK
    <2> QED
      BY <2>1, <2>2 DEF End, EndInsert, EndDelete, EndUpdate, Fits
  <1> QED
    BY <1>1, <1>2, <1>3 DEF TypeInv, TypeOK, disk, local, ghosts

LEMMA UndoTypes ==
  ASSUME TypeInv, NEW c \in Calls, Undo(c)
  PROVE  TypeInv'
  <1>1. /\ rows' \subseteq 1 .. seq' /\ seq' \in Nat
        /\ saved' \in [open : BOOLEAN, rows : SUBSET Nat, seq : Nat]
        /\ saved'.rows \subseteq 1 .. saved'.seq
    BY TransactionTypes DEF TypeInv, Undo
  <1>2. Kind(c) = "delete" /\ answer[c] \in Int
    BY KindType DEF Undo, At, Fits, TypeInv, TypeOK
  <1>3. /\ pc' \in [Calls -> Places] /\ PlacesFit' /\ asked' = asked
        /\ answer' \in [Calls -> Int]
    BY <1>2, AfterDeleteTypes DEF Undo
  <1> QED
    BY <1>1, <1>3 DEF Undo, TypeInv, TypeOK, disk, local, ghosts

LEMMA AppendTypes ==
  ASSUME TypeInv, NEW c \in Calls, Append(c)
  PROVE  TypeInv'
  <1>1. Fits(Kind(c), "append")
    BY KindType DEF Append, At
  <1>2. /\ pc' \in [Calls -> Places] /\ PlacesFit'
        /\ asked' \in [Calls -> Requests \union {Nothing}]
    BY <1>1, GoToType DEF Append, Fits, Places
  <1>3. answer' \in [Calls -> Int]
    BY AnswerType DEF Append, TypeInv
  <1>4. /\ store' \in [Inodes -> [n : Nat, ids : SUBSET Nat]]
        /\ \A i \in Inodes : IsFiniteSet(store'[i].ids)
    <2> DEFINE ids == store[own[c]].ids \union named[c]
    <2>1. CASE own[c] \in Inodes
      <3>1. ids \in SUBSET Nat /\ count[c] + 1 \in Nat
        BY <2>1 DEF TypeInv, TypeOK
      <3>2. IsFiniteSet(ids)
        BY <2>1, FS_Union DEF TypeInv, TypeOK
      <3>3. store' = [store EXCEPT ![own[c]] = File(count[c] + 1, ids)]
        BY <2>1 DEF Append
      <3> HIDE DEF ids
      <3> QED
        BY <2>1, <3>1, <3>2, <3>3, StoreType DEF TypeInv
    <2>2. CASE own[c] \notin Inodes
      <3>1. store' = store
        BY <2>2 DEF Append, TypeInv, TypeOK
      <3> QED
        BY <3>1 DEF TypeInv, TypeOK
    <2> QED
      BY <2>1, <2>2
  <1> QED
    BY <1>2, <1>3, <1>4 DEF Append, TypeInv, TypeOK, sqlite, local, ghosts

LEMMA RenameTypes ==
  ASSUME TypeInv, NEW c \in Calls, Rename(c)
  PROVE  TypeInv'
  <1>1. Fits(Kind(c), "rename")
    BY KindType DEF Rename, At
  <1>2. \E place \in {"unlink", "reopen"} : GoTo(c, place) /\ Fits(Kind(c), place)
    BY <1>1 DEF Rename, Fits
  <1>3. /\ pc' \in [Calls -> Places] /\ PlacesFit'
        /\ asked' \in [Calls -> Requests \union {Nothing}]
    BY <1>2, GoToType DEF Places
  <1>4. CASE temp = None
    <2>1. answer' \in [Calls -> Int] /\ UNCHANGED disk
      BY <1>4, AnswerType DEF Rename, TypeInv
    <2> QED
      BY <1>3, <2>1 DEF Rename, TypeInv, TypeOK, disk, sqlite, local, ghosts
  <1>5. CASE temp # None
    BY <1>3, <1>5 DEF Rename, TypeInv, TypeOK, sqlite, local, ghosts
  <1> QED
    BY <1>4, <1>5

LEMMA ReopenTypes ==
  ASSUME TypeInv, NEW c \in Calls, Reopen(c)
  PROVE  TypeInv'
  <1>1. CASE /\ file' = main /\ UNCHANGED alive
             /\ GoTo(c, IF Kind(c) = "update" THEN "done" ELSE "unlink")
    <2>1. Fits(Kind(c), "reopen")
      BY KindType DEF Reopen, At
    <2>2. \E place \in {"done", "unlink"} :
            GoTo(c, place) /\ (place = "done" \/ Fits(Kind(c), place))
      BY <1>1, <2>1 DEF Fits
    <2>3. /\ pc' \in [Calls -> Places] /\ PlacesFit'
          /\ asked' \in [Calls -> Requests \union {Nothing}]
      BY <2>2, GoToType DEF Places
    <2> QED
      BY <1>1, <2>3 DEF Reopen, TypeInv, TypeOK, disk, sqlite, local, ghosts
  <1>2. CASE ~alive' /\ UNCHANGED <<file, pc, asked>>
    BY <1>2 DEF Reopen, TypeInv, TypeOK, PlacesFit, Kind, disk, sqlite, local, ghosts
  <1> QED
    BY <1>1, <1>2 DEF Reopen

LEMMA UnlinkTypes ==
  ASSUME TypeInv, NEW c \in Calls, Unlink(c)
  PROVE  TypeInv'
  <1>1. /\ pc' \in [Calls -> Places] /\ PlacesFit'
        /\ asked' \in [Calls -> Requests \union {Nothing}]
    BY GoToType DEF Unlink, Places
  <1>2. /\ own' \in [Calls -> Inodes \union {None}] /\ count' \in [Calls -> Nat]
        /\ answer' \in [Calls -> Int]
        /\ {temp', file'} \subseteq Inodes \union {None}
    BY DEF Unlink, Unlinked, TypeInv, TypeOK
  <1>3. /\ named' \in [Calls -> SUBSET Nat]
        /\ \A d \in Calls : IsFiniteSet(named'[d])
    BY FS_EmptySet DEF Unlink, TypeInv, TypeOK
  <1> QED
    BY <1>1, <1>2, <1>3 DEF Unlink, TypeInv, TypeOK, sqlite, ghosts

LEMMA CrashTypes ==
  ASSUME TypeInv, Crash
  PROVE  TypeInv'
  <1>1. /\ rows' \subseteq 1 .. seq' /\ seq' \in Nat
        /\ saved' \in [open : BOOLEAN, rows : SUBSET Nat, seq : Nat]
        /\ saved'.rows \subseteq 1 .. saved'.seq
    BY TransactionTypes DEF TypeInv, Crash
  <1>2. /\ pc' \in [Calls -> Places]
        /\ asked' \in [Calls -> Requests \union {Nothing}]
        /\ PlacesFit'
    BY DEF Crash, TypeInv, TypeOK, PlacesFit, InProgress, Kind, Fits, Nothing, Places
  <1>3. /\ named' \in [Calls -> SUBSET Nat]
        /\ \A d \in Calls : IsFiniteSet(named'[d])
    BY FS_EmptySet DEF Crash
  <1>4. /\ own' \in [Calls -> Inodes \union {None}] /\ count' \in [Calls -> Nat]
        /\ answer' \in [Calls -> Int]
    BY DEF Crash
  <1>5. crashes' \in 0 .. MaxCrashes
    BY NodeAssumption DEF Crash, TypeInv, TypeOK
  <1> QED
    BY <1>1, <1>2, <1>3, <1>4, <1>5 DEF Crash, TypeInv, TypeOK, disk

LEMMA InitTypes == Init => TypeInv
  <1> SUFFICES ASSUME Init PROVE TypeInv
    OBVIOUS
  <1>1. IsFiniteSet({}) /\ IsFiniteSet(1 .. Stored)
    <2>1. 1 \in Int /\ Stored \in Int
      BY NodeAssumption
    <2> QED
      BY <2>1, FS_EmptySet, FS_Interval
  <1>2. {1} \subseteq Inodes
    <2>1. Cardinality(Calls) \in Nat
      BY NodeAssumption, FS_CardinalityType
    <2> QED
      BY <2>1 DEF Inodes
  <1>3. /\ store \in [Inodes -> [n : Nat, ids : SUBSET Nat]]
        /\ \A i \in Inodes : IsFiniteSet(store[i].ids)
    <2>1. /\ File(Stored, 1 .. Stored) \in [n : Nat, ids : SUBSET Nat]
          /\ IsFiniteSet(File(Stored, 1 .. Stored).ids)
      BY <1>1, NodeAssumption DEF File
    <2>2. /\ File(0, {}) \in [n : Nat, ids : SUBSET Nat]
          /\ IsFiniteSet(File(0, {}).ids)
      BY <1>1 DEF File
    <2>3. store = [i \in Inodes |-> IF i = 1 THEN File(Stored, 1 .. Stored)
                                             ELSE File(0, {})]
      BY DEF Init
    <2> QED
      BY <2>1, <2>2, <2>3
  <1>4. /\ saved \in [open : BOOLEAN, rows : SUBSET Nat, seq : Nat]
        /\ saved.rows \subseteq 1 .. saved.seq
    BY DEF Init, Closed
  <1>5. PlacesFit
    BY DEF Init, PlacesFit, Kind, Nothing, Fits
  <1>6. /\ asked \in [Calls -> Requests \union {Nothing}] /\ pc \in [Calls -> Places]
        /\ own \in [Calls -> Inodes \union {None}]
        /\ count \in [Calls -> Nat] /\ answer \in [Calls -> Int]
        /\ named \in [Calls -> SUBSET Nat]
        /\ \A c \in Calls : IsFiniteSet(named[c])
    BY <1>1 DEF Init, Places
  <1>7. /\ main \in Inodes /\ {temp, file} \subseteq Inodes \union {None}
        /\ rows \subseteq 1 .. seq /\ seq \in Nat
        /\ crashes \in 0 .. MaxCrashes /\ refused \in Nat
    BY <1>2, NodeAssumption DEF Init
  <1>8. alive \in BOOLEAN /\ mixed \in BOOLEAN
    BY DEF Init
  <1>9. TypeOK
    BY <1>3, <1>4, <1>6, <1>7, <1>8 DEF TypeOK
  <1> QED
    BY <1>5, <1>9 DEF TypeInv

LEMMA NextTypes ==
  ASSUME TypeInv, [Next]_vars
  PROVE  TypeInv'
  <1>1. CASE UNCHANGED vars
    <2>1. TypeOK'
      BY <1>1 DEF vars, disk, sqlite, local, ghosts, TypeInv, TypeOK
    <2>2. PlacesFit'
      BY <1>1 DEF vars, TypeInv, PlacesFit, Kind
    <2> QED
      BY <2>1, <2>2 DEF TypeInv
  <1>2. CASE Crash
    BY <1>2, CrashTypes
  <1>3. ASSUME NEW c \in Calls, Call(c) PROVE TypeInv'
    BY <1>3, CallTypes
  <1>4. ASSUME NEW c \in Calls, Step(c) PROVE TypeInv'
    BY <1>4, StatsTypes, ReadTypes, CopyTypes, HeaderTypes, OpenTempTypes,
       ScanTypes, SealTypes, BeginTypes, RowsTypes, EndTypes, UndoTypes,
       AppendTypes, RenameTypes, ReopenTypes, UnlinkTypes DEF Step
  <1> QED
    BY <1>1, <1>2, <1>3, <1>4 DEF Next

\* Every variable keeps its type, whatever calls overlap and wherever the
\* process dies; each call is at a place that what it asked for comes to.
THEOREM TypesStay == Spec => []TypeInv
  <1>1. TypeInv /\ [Next]_vars => TypeInv'
    BY NextTypes
  <1> QED
    BY InitTypes, <1>1, PTL DEF Spec

THEOREM TypeCorrect == Spec => []TypeOK
  <1>1. TypeInv => TypeOK
    BY DEF TypeInv
  <1> QED
    BY TypesStay, <1>1, PTL

-----------------------------------------------------------------------------
(* What a step leaves alone                                                *)

\* A call moves itself only, and nothing but a new call adds to what overlaps.
LEMMA OthersStay ==
  ASSUME TypeInv, NEW c \in Calls, Call(c) \/ Step(c)
  PROVE  \A d \in Calls \ {c} : pc'[d] = pc[d] /\ asked'[d] = asked[d]
  <1>1. ASSUME NEW place, GoTo(c, place)
        PROVE  \A d \in Calls \ {c} : pc'[d] = pc[d] /\ asked'[d] = asked[d]
    BY <1>1 DEF TypeInv, TypeOK, GoTo
  <1>2. CASE UNCHANGED <<pc, asked>>
    BY <1>2
  <1>3. Perish => UNCHANGED <<pc, asked>>
    BY DEF Perish
  <1>4. CASE Call(c)
    BY <1>4 DEF Call, TypeInv, TypeOK
  <1>5. CASE Stats(c) \/ Read(c) \/ Rows(c)
    BY <1>1, <1>2, <1>3, <1>5 DEF Stats, Read, AfterRead, Rows
  <1>6. CASE Copy(c) \/ Header(c) \/ Append(c) \/ Rename(c) \/ Unlink(c)
    BY <1>1, <1>6 DEF Copy, Header, Append, Rename, Unlink
  <1>7. CASE OpenTemp(c) \/ Seal(c) \/ Reopen(c)
    BY <1>1, <1>2, <1>7 DEF OpenTemp, Seal, Reopen
  <1>8. CASE Scan(c) \/ Begin(c) \/ Undo(c)
    BY <1>1, <1>8 DEF Scan, Begin, Undo, AfterDelete
  <1>9. CASE End(c)
    BY <1>1, <1>9 DEF End, EndInsert, EndDelete, EndUpdate, AfterDelete
  <1> QED
    BY <1>4, <1>5, <1>6, <1>7, <1>8, <1>9 DEF Step

\* A step is of a call in progress, which stays what it is as long as it lasts.
LEMMA StepOfOne ==
  ASSUME TypeInv, NEW c \in Calls, Step(c)
  PROVE  /\ c \in InProgress
         /\ pc'[c] = "done" \/ Kind(c)' = Kind(c)
         /\ pc'[c] # "new"
         /\ UNCHANGED <<crashes, mixed>>
  <1>1. pc[c] \notin {"new", "done"}
    BY DEF Step, At, Stats, Read, Copy, Header, OpenTemp, Scan, Seal, Begin, Rows,
           End, Undo, Append, Rename, Reopen, Unlink
  <1>2. UNCHANGED <<crashes, mixed>>
    BY DEF Step, Perish, ghosts, Stats, Read, Copy, Header, OpenTemp, Scan, Seal,
           Begin, Rows, End, Undo, Append, Rename, Reopen, Unlink
  <1>3. ASSUME NEW place \in Places \ {"new"}, GoTo(c, place)
        PROVE  (pc'[c] = "done" \/ Kind(c)' = Kind(c)) /\ pc'[c] # "new"
    BY <1>3 DEF TypeInv, TypeOK, GoTo, Kind
  <1>4. UNCHANGED <<pc, asked>> => Kind(c)' = Kind(c) /\ pc'[c] # "new"
    BY <1>1 DEF Kind
  <1>5. (\E place \in Places \ {"new"} : GoTo(c, place)) \/ UNCHANGED <<pc, asked>>
    <2>1. Perish => UNCHANGED <<pc, asked>>
      BY DEF Perish
    <2>2. CASE Stats(c)
      <3>1. Fits(Kind(c), "stats")
        BY <2>2, KindType DEF Stats, At
      <3>2. CASE Perish
        BY <2>1, <3>2
      <3>3. CASE ~Perish
        <4>1. CASE Kind(c) = "insert"
          BY <2>2, <3>3, <4>1 DEF Stats, Places
        <4>2. CASE Kind(c) = "delete"
          BY <2>2, <3>3, <4>2 DEF Stats, Places
        <4>3. CASE Kind(c) = "update"
          BY <2>2, <3>3, <4>3 DEF Stats, Places
        <4>4. CASE Kind(c) = "page"
          BY <2>2, <3>3, <4>4 DEF Stats, Places
        <4> QED
          BY <3>1, <4>1, <4>2, <4>3, <4>4 DEF Fits
      <3> QED
        BY <3>2, <3>3
    <2>3. CASE Read(c) \/ Rows(c)
      BY <2>1, <2>3 DEF Read, AfterRead, Rows, Places
    <2>4. CASE Copy(c) \/ Header(c) \/ Append(c) \/ Rename(c) \/ Unlink(c)
      BY <2>4 DEF Copy, Header, Append, Rename, Unlink, Places
    <2>5. CASE OpenTemp(c) \/ Seal(c) \/ Reopen(c)
      BY <2>5 DEF OpenTemp, Seal, Reopen, Places
    <2>6. CASE Scan(c) \/ Begin(c) \/ Undo(c)
      BY <2>6 DEF Scan, Begin, Undo, AfterDelete, Places
    <2>7. CASE End(c)
      BY <2>7 DEF End, EndInsert, EndDelete, EndUpdate, AfterDelete, Places
    <2> QED
      BY <2>2, <2>3, <2>4, <2>5, <2>6, <2>7 DEF Step
  <1> QED
    BY <1>1, <1>2, <1>3, <1>4, <1>5 DEF InProgress

-----------------------------------------------------------------------------
(* The transaction                                                         *)

LEMMA NextEnds ==
  ASSUME TypeInv, Ends, [Next]_vars
  PROVE  Ends'
  <1>1. CASE UNCHANGED vars
    BY <1>1 DEF vars, sqlite, Ends
  <1>2. CASE Crash
    BY <1>2 DEF Crash, Rollback, sqlite, Closed, Ends
  <1>3. ASSUME NEW c \in Calls, Call(c) \/ Step(c), UNCHANGED saved,
               pc[c] \notin {"rows", "end"} \/ pc'[c] \in {"rows", "end"}
        PROVE  Ends'
    BY <1>3, OthersStay DEF Ends
  <1>4. ASSUME NEW c \in Calls, Call(c) PROVE Ends'
    BY <1>3, <1>4 DEF Call, At, sqlite
  <1>5. ASSUME NEW c \in Calls, Step(c) PROVE Ends'
    <2>1. CASE Stats(c) \/ Read(c) \/ Copy(c) \/ Header(c) \/ OpenTemp(c) \/ Scan(c)
               \/ Seal(c) \/ Append(c) \/ Rename(c) \/ Reopen(c) \/ Unlink(c)
      <3>1. UNCHANGED saved /\ pc[c] \notin {"rows", "end"}
        BY <2>1 DEF Perish, At, sqlite, Stats, Read, Copy, Header, OpenTemp, Scan,
                    Seal, Append, Rename, Reopen, Unlink
      <3> QED
        BY <1>3, <1>5, <3>1
    <2>2. CASE Begin(c)
      <3>1. pc[c] = "begin"
        BY <2>2 DEF Begin, At
      <3>2. CASE UNCHANGED saved
        BY <1>3, <1>5, <3>1, <3>2
      <3>3. CASE GoTo(c, "rows")
        BY <3>3 DEF GoTo, TypeInv, TypeOK, Ends
      <3> QED
        BY <2>2, <3>2, <3>3 DEF Begin
    <2>3. CASE Rows(c)
      <3>1. CASE Perish
        BY <3>1 DEF Perish, sqlite, Ends
      <3>2. CASE GoTo(c, "end")
        BY <3>2 DEF GoTo, TypeInv, TypeOK, Ends
      <3> QED
        BY <2>3, <3>1, <3>2 DEF Rows
    <2>4. CASE End(c) \/ Undo(c)
      <3>1. Commit \/ Rollback
        BY <2>4 DEF End, EndInsert, EndDelete, EndUpdate, Undo
      <3>2. ~saved'.open
        BY <3>1 DEF Commit, Rollback, Closed, sqlite
      <3> QED
        BY <3>2 DEF Ends
    <2> QED
      BY <1>5, <2>1, <2>2, <2>3, <2>4 DEF Step
  <1> QED
    BY <1>1, <1>2, <1>4, <1>5 DEF Next

\* Whatever calls overlap, fail and die, no transaction is open when none is in
\* progress: the call that began it, or one that ended it meanwhile, has.
THEOREM TransactionsEnd == Spec => []NoTransactionStaysOpen
  <1>1. Init => Ends
    BY DEF Init, Closed, Ends
  <1>2. TypeInv /\ Ends /\ [Next]_vars => Ends'
    BY NextEnds
  <1>3. Ends => NoTransactionStaysOpen
    BY DEF Ends, NoTransactionStaysOpen, InProgress
  <1> QED
    BY TypesStay, <1>1, <1>2, <1>3, PTL DEF Spec

-----------------------------------------------------------------------------
(* A writer that has not overlapped is alone                               *)

LEMMA NextAlone ==
  ASSUME TypeInv, Alone, [Next]_vars
  PROVE  Alone'
  <1>1. CASE UNCHANGED vars
    BY <1>1 DEF vars, ghosts, Alone, InProgress, Writes, Kind
  <1>2. CASE Crash
    <2>1. \A c \in Calls : pc'[c] \in {"new", "done"}
      BY <1>2 DEF Crash, InProgress, TypeInv, TypeOK
    <2> QED
      BY <2>1 DEF Alone, InProgress
  <1>3. ASSUME NEW c \in Calls, Call(c) PROVE Alone'
    <2>1. \A d \in Calls \ {c} : pc'[d] = pc[d] /\ asked'[d] = asked[d]
      BY <1>3, OthersStay
    <2>2. pc[c] = "new"
          /\ mixed' = (mixed \/ \E d \in InProgress : Writes(c)' \/ Writes(d))
      BY <1>3 DEF Call, At
    <2> QED
      BY <2>1, <2>2 DEF Alone, InProgress, Writes, Kind
  <1>4. ASSUME NEW c \in Calls, Step(c) PROVE Alone'
    <2>1. \A d \in Calls \ {c} : pc'[d] = pc[d] /\ asked'[d] = asked[d]
      BY <1>4, OthersStay
    <2>2. /\ pc[c] \notin {"new", "done"}
          /\ pc'[c] = "done" \/ Kind(c)' = Kind(c)
          /\ mixed' = mixed
      BY <1>4, StepOfOne DEF InProgress
    <2> QED
      BY <2>1, <2>2 DEF Alone, InProgress, Writes, Kind
  <1> QED
    BY <1>1, <1>2, <1>3, <1>4 DEF Next

\* What a writer in progress knows of the others: they have not begun or are
\* over, and hold nothing.
LEMMA AloneFacts ==
  ASSUME TypeInv, Alone, ~mixed, NEW c \in Calls, pc[c] \notin {"new", "done"},
         Writes(c)
  PROVE  \A d \in Calls \ {c} :
           pc[d] \in {"new", "done"} /\ ~Holding(d) /\ ~Reopening(d) /\ ~UsesFile(d)
  BY DEF Alone, InProgress, Holding, Reopening, UsesFile

\* Nothing that uses the FILE is in progress when a reader finds it closed.
LEMMA ReaderAlone ==
  ASSUME TypeInv, Alone, ~mixed, NEW c \in Calls, pc[c] \notin {"new", "done"},
         NEW d \in Calls, d # c
  PROVE  ~Reopening(d) /\ (pc[d] # "reopen") /\ (pc[d] # "seal")
         /\ (Writes(c) => ~UsesFile(d))
  BY KindType DEF Alone, InProgress, Reopening, UsesFile, Writes, Fits

-----------------------------------------------------------------------------
(* The ".temp" file that is left                                           *)

LEMMA NextStale ==
  ASSUME TypeInv, Alone, StaleByCrash, [Next]_vars
  PROVE  StaleByCrash'
  <1>1. crashes \in Nat /\ refused \in Nat
    BY NodeAssumption DEF TypeInv, TypeOK
  <1>2. CASE UNCHANGED vars
    BY <1>2 DEF vars, ghosts, disk, StaleByCrash, Stale, Holding, Kind
  <1>3. CASE Crash
    <2>1. crashes' = crashes + 1 /\ UNCHANGED <<mixed, refused>>
      BY <1>3 DEF Crash
    <2> QED
      BY <1>1, <2>1 DEF StaleByCrash
  <1>4. ASSUME NEW c \in Calls, Call(c) \/ Step(c), Stale' => Stale,
               UNCHANGED <<crashes, refused>>, mixed => mixed'
        PROVE  StaleByCrash'
    BY <1>1, <1>4 DEF StaleByCrash
  <1>5. ASSUME NEW c \in Calls, Call(c) PROVE StaleByCrash'
    <2>1. \A d \in Calls \ {c} : pc'[d] = pc[d] /\ asked'[d] = asked[d]
      BY <1>5, OthersStay
    <2>2. /\ pc[c] = "new" /\ UNCHANGED <<temp, crashes, refused>>
          /\ mixed => mixed'
      BY <1>5 DEF Call, At, disk
    <2>3. Stale' => Stale
      BY <2>1, <2>2 DEF Stale, Holding, Kind
    <2> QED
      BY <1>4, <1>5, <2>2, <2>3
  <1>6. ASSUME NEW c \in Calls, Step(c) PROVE StaleByCrash'
    <2>1. \A d \in Calls \ {c} : pc'[d] = pc[d] /\ asked'[d] = asked[d]
      BY <1>6, OthersStay
    <2>2. /\ UNCHANGED <<crashes, mixed>>
          /\ pc'[c] = "done" \/ Kind(c)' = Kind(c)
      BY <1>6, StepOfOne
    <2>3. ASSUME refused' = refused, temp' = temp, Holding(c) => Holding(c)'
          PROVE  StaleByCrash'
      <3>1. Stale' => Stale
        BY <2>1, <2>3 DEF Stale, Holding, Kind
      <3> QED
        BY <1>4, <1>6, <2>2, <2>3, <3>1
    <2>4. ASSUME refused' = refused, temp' = None
          PROVE  StaleByCrash'
      BY <1>4, <1>6, <2>2, <2>4 DEF Stale
    <2>5. ASSUME NEW place, GoTo(c, place)
          PROVE  pc'[c] = place
      BY <2>5 DEF GoTo, TypeInv, TypeOK
    <2>6. Fits(Kind(c), pc[c])
      BY <1>6, StepOfOne, KindType DEF InProgress
    <2>7. Perish => refused' = refused /\ temp' = temp /\ pc' = pc
      BY DEF Perish, disk, ghosts
    <2>8. CASE Stats(c) \/ Read(c)
      <3>1. refused' = refused /\ temp' = temp /\ ~Holding(c)
        BY <2>8, <2>7 DEF Stats, Read, At, Holding, disk, ghosts
      <3> QED
        BY <2>3, <3>1
    <2>9. CASE Copy(c)
      <3>1. pc'[c] = "open" /\ Kind(c) = "insert" /\ refused' = refused
        BY <2>5, <2>6, <2>9 DEF Copy, At, Fits, ghosts
      <3>2. Holding(c)'
        BY <2>2, <3>1 DEF Holding
      <3>3. ~Stale'
        BY <3>2 DEF Stale
      <3> QED
        BY <1>4, <1>6, <2>2, <3>1, <3>3
    <2>10. CASE Header(c)
      <3>1. pc[c] = "header" /\ Kind(c) = "delete"
        BY <2>6, <2>10 DEF Header, At, Fits
      <3>2. pc'[c] \in {"scan", "unlink"}
        BY <2>5, <2>10 DEF Header
      <3>3. ~Stale'
        BY <2>2, <3>1, <3>2 DEF Stale, Holding
      <3>4. CASE temp = None
        <4>1. refused' = refused
          BY <2>10, <3>4 DEF Header
        <4> QED
          BY <1>4, <1>6, <2>2, <3>3, <4>1
      <3>5. CASE temp # None
        <4>1. refused' = refused + 1
          BY <2>10, <3>5 DEF Header
        <4>2. ~mixed => Stale
          BY <3>1, <3>5, AloneFacts DEF Stale, Holding, Writes
        <4> QED
          BY <1>1, <2>2, <3>3, <4>1, <4>2 DEF StaleByCrash
      <3> QED
        BY <3>4, <3>5
    <2>11. CASE OpenTemp(c) \/ Scan(c) \/ Seal(c) \/ Begin(c) \/ Rows(c) \/ End(c)
                \/ Undo(c) \/ Append(c)
      <3>1. refused' = refused /\ temp' = temp
        BY <2>7, <2>11
           DEF OpenTemp, Scan, Seal, Begin, Rows, End, Undo, Append, disk, ghosts
      <3>2. pc[c] \in {"open", "scan", "seal", "begin", "rows", "end", "undo", "append"}
        BY <2>11 DEF OpenTemp, Scan, Seal, Begin, Rows, End, Undo, Append, At
      <3>3. pc' = pc \/ pc'[c] \in {"unlink", "begin", "reopen", "rename", "seal",
                                    "rows", "end", "append", "undo"}
        <4>1. CASE OpenTemp(c) \/ Seal(c)
          BY <2>5, <4>1 DEF OpenTemp, Seal
        <4>2. CASE Scan(c) \/ Begin(c) \/ Undo(c)
          BY <2>5, <4>2 DEF Scan, Begin, Undo, AfterDelete
        <4>3. CASE Rows(c) \/ Append(c)
          BY <2>5, <2>7, <4>3 DEF Rows, Append
        <4>4. CASE End(c)
          BY <2>5, <4>4 DEF End, EndInsert, EndDelete, EndUpdate, AfterDelete
        <4> QED
          BY <2>11, <4>1, <4>2, <4>3, <4>4
      <3>4. Holding(c) => Holding(c)'
        BY <2>2, <3>2, <3>3 DEF Holding
      <3> QED
        BY <2>3, <3>1, <3>4
    <2>12. CASE Rename(c)
      <3>1. refused' = refused
        BY <2>12 DEF Rename, ghosts
      <3>2. temp' = None
        BY <2>12 DEF Rename, disk
      <3> QED
        BY <2>4, <3>1, <3>2
    <2>13. CASE Reopen(c)
      <3>1. refused' = refused /\ temp' = temp
        BY <2>13 DEF Reopen, disk, ghosts
      <3>2. pc' = pc \/ pc'[c] = IF Kind(c) = "update" THEN "done" ELSE "unlink"
        BY <2>5, <2>13 DEF Reopen
      <3>3. pc[c] = "reopen"
        BY <2>13 DEF Reopen, At
      <3>4. Holding(c) => Holding(c)'
        BY <2>2, <3>2, <3>3 DEF Holding
      <3> QED
        BY <2>3, <3>1, <3>4
    <2>14. CASE Unlink(c)
      <3>1. refused' = refused /\ temp' = None
        BY <2>14 DEF Unlink, Unlinked, ghosts
      <3> QED
        BY <2>4, <3>1
    <2> QED
      BY <1>6, <2>8, <2>9, <2>10, <2>11, <2>12, <2>13, <2>14 DEF Step
  <1> QED
    BY <1>2, <1>3, <1>5, <1>6 DEF Next

LEMMA InitAlone == Init => Alone /\ StaleByCrash
  BY DEF Init, Alone, InProgress, StaleByCrash, Stale

LEMMA AloneAndStale == Spec => [](Alone /\ StaleByCrash)
  <1>1. TypeInv /\ (Alone /\ StaleByCrash) /\ [Next]_vars => (Alone /\ StaleByCrash)'
    BY NextAlone, NextStale
  <1> QED
    BY TypesStay, InitAlone, <1>1, PTL DEF Spec

\* Without a crash there is no ".temp" when no call is in progress, whichever
\* call's copy another has renamed, refused or unlinked.
THEOREM NothingStays == Spec => []NothingIsLeftBehind
  <1>1. StaleByCrash => NothingIsLeftBehind
    BY DEF StaleByCrash, Stale, Holding, NothingIsLeftBehind, Quiet, InProgress
  <1> QED
    BY AloneAndStale, <1>1, PTL

\* Unless a writer has overlapped, no more deletions are refused than there were
\* crashes, for any number of either.
THEOREM RefusedOnce == Spec => []RefusedOncePerCrash
  <1>1. TypeInv /\ StaleByCrash => RefusedOncePerCrash
    BY NodeAssumption DEF TypeInv, TypeOK, StaleByCrash, RefusedOncePerCrash
  <1> QED
    BY TypesStay, AloneAndStale, <1>1, PTL

-----------------------------------------------------------------------------
(* The connection of a writer that is alone                                *)

LEMMA NextApart ==
  ASSUME TypeInv, Apart, [Next]_vars
  PROVE  Apart'
  <1>1. CASE UNCHANGED vars \/ \E c \in Calls : Call(c)
    BY <1>1 DEF vars, disk, Call, Apart
  <1>2. CASE Crash
    BY <1>2 DEF Crash, disk, Apart
  <1>3. ASSUME NEW c \in Calls, Step(c) PROVE Apart'
    <2>1. CASE temp' = None
      BY <2>1 DEF Apart
    <2>2. CASE UNCHANGED <<disk, file>>
      BY <2>2 DEF disk, Apart
    <2>3. CASE Stats(c) \/ Read(c) \/ Rows(c)
      BY <2>2, <2>3 DEF Perish, Stats, Read, Rows
    <2>4. CASE Copy(c) \/ Header(c)
      BY <2>4, FreshInode DEF Copy, Header, Apart, TypeInv
    <2>5. CASE OpenTemp(c) \/ Seal(c)
      BY <2>2, <2>5 DEF OpenTemp, Seal, disk, Apart
    <2>6. CASE Scan(c) \/ Begin(c) \/ End(c) \/ Undo(c) \/ Append(c)
      BY <2>6 DEF Scan, Begin, End, Undo, Append, disk, Apart
    <2>7. CASE Rename(c) \/ Unlink(c)
      BY <2>1, <2>7 DEF Rename, Unlink, Unlinked, disk
    <2>8. CASE Reopen(c)
      BY <2>8 DEF Reopen, disk, Apart
    <2> QED
      BY <1>3, <2>3, <2>4, <2>5, <2>6, <2>7, <2>8 DEF Step
  <1> QED
    BY <1>1, <1>2, <1>3 DEF Next

\* The step of a call is not one on a FILE that is closed or in use, and BEGIN
\* does not fail.
LEMMA SafeWhenAlone ==
  ASSUME ClientInv, ~mixed, NEW c \in Calls, pc[c] \notin {"new", "done"}
  PROVE  /\ file = None => Reopening(c) /\ Writes(c)
         /\ Writes(c) => ~MayPerish(c)
         /\ pc[c] = "begin" => ~saved.open
  <1>1. Fits(Kind(c), pc[c])
    BY KindType DEF ClientInv
  <1>2. file = None => Reopening(c) /\ Writes(c)
    BY ReaderAlone DEF ClientInv, OpenWhenAlone, Reopening, Writes
  <1>3. Writes(c) => ~MayPerish(c)
    BY ReaderAlone DEF ClientInv, MayPerish
  <1>4. ASSUME pc[c] = "begin", saved.open PROVE FALSE
    <2>1. PICK d \in Calls : pc[d] \in {"rows", "end"}
      BY <1>4 DEF ClientInv, Ends
    <2>2. Writes(c) /\ d # c
      BY <1>1, <1>4, <2>1 DEF Fits, Writes
    <2> QED
      BY <1>4, <2>1, <2>2, AloneFacts DEF ClientInv
  <1> QED
    BY <1>2, <1>3, <1>4

LEMMA NextOpen ==
  ASSUME ClientInv, [Next]_vars
  PROVE  OpenWhenAlone'
  <1>1. CASE UNCHANGED vars
    BY <1>1 DEF vars, disk, ghosts, ClientInv, OpenWhenAlone, Reopening, Holding, Kind
  <1>2. CASE Crash
    <2>1. main # None
      BY DEF ClientInv, TypeInv, TypeOK, Inodes, None
    <2>2. \A c \in Calls : pc'[c] \in {"new", "done"}
      BY <1>2 DEF Crash, InProgress, ClientInv, TypeInv, TypeOK
    <2>3. alive' /\ file' = main /\ main' = main
      BY <1>2 DEF Crash, disk
    <2> QED
      BY <2>1, <2>2, <2>3 DEF OpenWhenAlone, Holding
  <1>3. ASSUME NEW c \in Calls, Call(c) PROVE OpenWhenAlone'
    <2>1. \A d \in Calls \ {c} : pc'[d] = pc[d] /\ asked'[d] = asked[d]
      BY <1>3, OthersStay DEF ClientInv
    <2>2. /\ pc[c] = "new" /\ pc'[c] \in {"stats", "read"}
          /\ UNCHANGED <<disk, file, alive>> /\ (mixed => mixed')
      BY <1>3 DEF Call, At, ClientInv, TypeInv, TypeOK
    <2> QED
      BY <2>1, <2>2 DEF ClientInv, OpenWhenAlone, Reopening, Holding, disk, Kind
  <1>4. ASSUME NEW c \in Calls, Step(c) PROVE OpenWhenAlone'
    <2> SUFFICES ASSUME ~mixed PROVE OpenWhenAlone'
      BY <1>4, StepOfOne DEF ClientInv, OpenWhenAlone
    <2>1. \A d \in Calls \ {c} : pc'[d] = pc[d] /\ asked'[d] = asked[d]
      BY <1>4, OthersStay DEF ClientInv
    <2>2. /\ pc[c] \notin {"new", "done"}
          /\ pc'[c] = "done" \/ Kind(c)' = Kind(c)
          /\ mixed' = mixed
          /\ Fits(Kind(c), pc[c])
      BY <1>4, StepOfOne, KindType DEF ClientInv, InProgress
    <2>3. ASSUME NEW place, GoTo(c, place)
          PROVE  pc'[c] = place
      BY <2>3 DEF GoTo, ClientInv, TypeInv, TypeOK
    <2>4. /\ alive /\ (pc[c] = "seal" => file # None)
          /\ file \in {None, main} \/ \E d \in Calls : pc[d] = "reopen"
          /\ Holding(c) /\ pc[c] \notin {"reopen", "unlink"} => temp # None
      BY DEF ClientInv, OpenWhenAlone
    <2>5. /\ file = None => Reopening(c) /\ Writes(c)
          /\ Writes(c) => ~MayPerish(c)
          /\ pc[c] = "begin" => ~saved.open
      BY <2>2, SafeWhenAlone
    <2>6. \A d \in Calls \ {c} : Writes(c) =>
            pc'[d] \in {"new", "done"} /\ ~Holding(d)' /\ ~Reopening(d)'
      BY <2>1, <2>2, AloneFacts DEF ClientInv, Holding, Reopening, Kind
    <2>7. \A d \in Calls \ {c} : Holding(d)' = Holding(d) /\ Reopening(d)' = Reopening(d)
      BY <2>1 DEF Holding, Reopening, Kind
    <2>8. main # None
      BY DEF ClientInv, TypeInv, TypeOK, Inodes, None
    \* What a call does first changes no name and not the connection.
    <2>9. ASSUME UNCHANGED <<main, temp, file, alive>>,
                 pc[c] \in {"stats", "read"}, pc'[c] # "seal",
                 Holding(c)' => pc'[c] \in {"reopen", "unlink"}
          PROVE  OpenWhenAlone'
      <3>1. ~Reopening(c)
        BY <2>9 DEF Reopening
      <3> QED
        BY <2>1, <2>2, <2>7, <2>9, <3>1 DEF ClientInv, OpenWhenAlone
    <2>10. CASE Stats(c) \/ Read(c)
      <3>1. pc[c] \in {"stats", "read"}
        BY <2>10 DEF Stats, Read, At
      <3>2. file # None
        BY <2>5, <3>1 DEF Reopening
      <3>3. UNCHANGED <<main, temp, file, alive>>
        BY <2>10, <3>2 DEF Stats, Read, disk
      <3>4. CASE Read(c)
        <4>1. pc'[c] = "done"
          BY <2>3, <3>2, <3>4 DEF Read, AfterRead
        <4> QED
          BY <2>9, <3>1, <3>3, <4>1 DEF Reopening, Holding
      <3>5. CASE Stats(c)
        <4>1. pc[c] = "stats" /\ ~Reopening(c)
          BY <3>5 DEF Stats, At, Reopening
        <4>2. CASE Kind(c) = "insert"
          <5>1. pc'[c] = "copy"
            BY <2>3, <3>2, <3>5, <4>2 DEF Stats
          <5> QED
            BY <2>9, <3>3, <4>1, <5>1 DEF Holding
        <4>3. CASE Kind(c) = "delete"
          <5>1. pc'[c] \in {"unlink", "header"}
            BY <2>3, <3>2, <3>5, <4>3 DEF Stats
          <5> QED
            BY <2>9, <3>3, <4>1, <5>1 DEF Holding
        <4>4. CASE Kind(c) = "update"
          <5>1. pc'[c] \in {"done", "begin"}
            BY <2>3, <3>2, <3>5, <4>4 DEF Stats
          <5>2. ~Holding(c)'
            BY <2>2, <4>4, <5>1 DEF Holding
          <5> QED
            BY <2>9, <3>3, <4>1, <5>1, <5>2
        <4>5. CASE Kind(c) = "page"
          <5>1. pc'[c] \in {"done", "read"}
            BY <2>3, <3>2, <3>5, <4>5 DEF Stats
          <5> QED
            BY <2>9, <3>3, <4>1, <5>1 DEF Holding
        <4> QED
          BY <2>2, <4>1, <4>2, <4>3, <4>4, <4>5 DEF Fits
      <3> QED
        BY <2>10, <3>4, <3>5
    \* The others do not matter to a writer, which is alone.
    <2>11. ASSUME Writes(c), alive',
                  file' # None \/ Reopening(c)',
                  file' \in {None, main'} \/ pc'[c] = "reopen",
                  pc'[c] = "seal" => file' # None,
                  Holding(c)' => pc'[c] \in {"reopen", "unlink"} \/ temp' # None
           PROVE  OpenWhenAlone'
      BY <2>6, <2>11 DEF OpenWhenAlone
    <2>12. Writes(c) => file \in {None, main} \/ pc[c] = "reopen"
      BY <2>2, <2>4, AloneFacts DEF ClientInv
    <2>13. CASE Copy(c)
      <3>1. /\ pc[c] = "copy" /\ pc'[c] = "open"
            /\ UNCHANGED <<main, file, alive>>
        BY <2>3, <2>13 DEF Copy, At
      <3>2. temp' # None
        BY <2>13, CopyTypes DEF ClientInv, Inodes, None
      <3>3. Writes(c) /\ file # None
        BY <2>2, <2>5, <3>1 DEF Reopening, Fits, Writes
      <3> QED
        BY <2>4, <2>11, <2>12, <3>1, <3>2, <3>3
    <2>14. CASE Header(c)
      <3>1. /\ pc[c] = "header" /\ pc'[c] \in {"scan", "unlink"}
            /\ UNCHANGED <<main, file, alive>>
        BY <2>3, <2>14 DEF Header, At
      <3>2. temp' # None
        BY <2>14, FreshInode DEF Header, ClientInv, TypeInv, Inodes, None
      <3>3. Writes(c) /\ file # None
        BY <2>2, <2>5, <3>1 DEF Reopening, Fits, Writes
      <3> QED
        BY <2>4, <2>11, <2>12, <3>1, <3>2, <3>3
    <2>15. CASE OpenTemp(c)
      <3>1. pc[c] = "open" /\ UNCHANGED <<main, temp>>
        BY <2>15 DEF OpenTemp, At, disk
      <3>2. Kind(c) = "insert" /\ Writes(c) /\ temp # None
        BY <2>2, <2>4, <3>1 DEF Fits, Writes, Holding
      <3>3. file' = None /\ pc'[c] = "begin" /\ alive' = alive
        BY <2>3, <2>5, <2>15, <3>2 DEF OpenTemp
      <3>4. Reopening(c)'
        BY <2>2, <3>2, <3>3 DEF Reopening
      <3> QED
        BY <2>4, <2>11, <3>1, <3>2, <3>3, <3>4
    <2>16. CASE Scan(c)
      <3>1. pc[c] = "scan" /\ UNCHANGED <<main, temp, file, alive>>
        BY <2>16 DEF Scan, At
      <3>2. Kind(c) = "delete" /\ Writes(c) /\ temp # None /\ file # None
        BY <2>2, <2>4, <2>5, <3>1 DEF Fits, Writes, Holding, Reopening
      <3> QED
        BY <2>4, <2>11, <2>12, <3>1, <3>2
    <2>17. CASE Seal(c)
      <3>1. pc[c] = "seal" /\ UNCHANGED <<main, temp>>
        BY <2>17 DEF Seal, At, disk
      <3>2. Kind(c) = "delete" /\ Writes(c) /\ temp # None
        BY <2>2, <2>4, <3>1 DEF Fits, Writes, Holding
      <3>3. file' = None /\ pc'[c] = "begin" /\ alive' = alive
        BY <2>3, <2>5, <2>17, <3>2 DEF Seal
      <3>4. Reopening(c)'
        BY <2>2, <3>2, <3>3 DEF Reopening
      <3> QED
        BY <2>4, <2>11, <3>1, <3>2, <3>3, <3>4
    \* In the transaction and after it only its place changes.
    <2>18. ASSUME Writes(c), UNCHANGED <<main, temp, file, alive>>,
                  pc[c] \in {"begin", "rows", "end", "undo", "append"},
                  pc'[c] \in {"rows", "end", "undo", "append", "rename", "reopen"}
           PROVE  OpenWhenAlone'
      <3>1. Reopening(c) => Reopening(c)'
        BY <2>2, <2>18 DEF Reopening
      <3>2. Holding(c)' => Holding(c)
        BY <2>2, <2>18 DEF Holding
      <3> QED
        BY <2>4, <2>5, <2>11, <2>12, <2>18, <3>1, <3>2
    <2>19. CASE Begin(c)
      <3>1. pc[c] = "begin" /\ UNCHANGED <<main, temp, file, alive>>
        BY <2>19 DEF Begin, At, disk
      <3>2. Writes(c) /\ ~saved.open
        BY <2>2, <2>5, <3>1 DEF Fits, Writes
      <3>3. pc'[c] \in {"rows", "reopen"}
        BY <2>3, <2>19, <3>2 DEF Begin
      <3> QED
        BY <2>18, <3>1, <3>2, <3>3
    <2>20. CASE Rows(c)
      <3>1. pc[c] = "rows" /\ Writes(c)
        BY <2>2, <2>20 DEF Rows, At, Fits, Writes
      <3>2. ~(Kind(c) = "update" /\ file = None)
        BY <2>5 DEF Reopening
      <3>3. UNCHANGED <<main, temp, file, alive>> /\ pc'[c] = "end"
        BY <2>3, <2>20, <3>2 DEF Rows, disk
      <3> QED
        BY <2>18, <3>1, <3>3
    <2>21. CASE End(c) \/ Undo(c)
      <3>1. pc[c] \in {"end", "undo"} /\ UNCHANGED <<main, temp, file, alive>>
        BY <2>21 DEF End, Undo, At, disk
      <3>2. Writes(c)
        BY <2>2, <3>1 DEF Fits, Writes
      <3>3. pc'[c] \in {"undo", "append", "rename", "reopen"}
        BY <2>3, <2>21 DEF End, EndInsert, EndDelete, EndUpdate, Undo, AfterDelete
      <3> QED
        BY <2>18, <3>1, <3>2, <3>3
    <2>22. CASE Append(c)
      <3>1. /\ pc[c] = "append" /\ pc'[c] = "rename"
            /\ UNCHANGED <<main, temp, file, alive>>
        BY <2>3, <2>22 DEF Append, At
      <3>2. Writes(c)
        BY <2>2, <3>1 DEF Fits, Writes
      <3> QED
        BY <2>18, <3>1, <3>2
    <2>23. CASE Rename(c)
      <3>1. pc[c] = "rename" /\ UNCHANGED <<file, alive>>
        BY <2>23 DEF Rename, At
      <3>2. Kind(c) \in {"insert", "delete"} /\ Writes(c) /\ temp # None
        BY <2>2, <2>4, <3>1 DEF Fits, Writes, Holding
      <3>3. pc'[c] = "reopen" /\ main' = temp /\ temp' = None
        BY <2>3, <2>23, <3>2 DEF Rename
      <3>4. Reopening(c)'
        BY <2>2, <3>2, <3>3 DEF Reopening
      <3> QED
        BY <2>4, <2>11, <3>1, <3>2, <3>3, <3>4
    <2>24. CASE Reopen(c)
      <3>1. pc[c] = "reopen" /\ UNCHANGED disk
        BY <2>24 DEF Reopen, At
      <3>2. Writes(c)
        BY <2>2, <3>1 DEF Fits, Writes
      <3>3. /\ file' = main /\ alive' = alive
            /\ pc'[c] = IF Kind(c) = "update" THEN "done" ELSE "unlink"
        BY <2>3, <2>5, <2>24, <3>2 DEF Reopen
      <3> QED
        BY <2>4, <2>8, <2>11, <3>1, <3>2, <3>3 DEF disk, Holding
    <2>25. CASE Unlink(c)
      <3>1. pc[c] = "unlink" /\ pc'[c] = "done" /\ UNCHANGED <<main, file, alive>>
        BY <2>3, <2>25 DEF Unlink, At
      <3>2. Writes(c) /\ file # None
        BY <2>2, <2>5, <3>1 DEF Fits, Writes, Reopening
      <3> QED
        BY <2>4, <2>11, <2>12, <3>1, <3>2 DEF Holding
    <2> QED
      BY <1>4, <2>10, <2>13, <2>14, <2>15, <2>16, <2>17, <2>19, <2>20, <2>21,
         <2>22, <2>23, <2>24, <2>25 DEF Step
  <1> QED
    BY <1>1, <1>2, <1>3, <1>4 DEF Next

LEMMA ClientInvStays == Spec => []ClientInv
  <1>1. Init => ClientInv
    <2>1. Init => Ends /\ Apart /\ OpenWhenAlone
      BY DEF Init, Closed, Ends, Apart, OpenWhenAlone, Holding, None
    <2> QED
      BY <2>1, InitTypes, InitAlone DEF ClientInv
  <1>2. ClientInv /\ [Next]_vars => ClientInv'
    BY NextTypes, NextEnds, NextAlone, NextApart, NextOpen DEF ClientInv
  <1> QED
    BY <1>1, <1>2, PTL DEF Spec

\* As long as no writer has overlapped with another call no FILE is used that is
\* closed, however many readers overlap and wherever the process dies.
THEOREM ClosedFilesStayUnused == Spec => []ClosedFileIsNotUsed
  <1>1. ClientInv => ClosedFileIsNotUsed
    BY DEF ClientInv, OpenWhenAlone, ClosedFileIsNotUsed
  <1> QED
    BY ClientInvStays, <1>1, PTL

-----------------------------------------------------------------------------
(* What a writer that is alone leaves in the file                          *)

LEMMA RowsAreFinite ==
  ASSUME TypeOK
  PROVE  IsFiniteSet(rows) /\ Cardinality(rows) \in Nat
  <1>1. seq \in Int /\ 1 \in Int /\ rows \in SUBSET (1 .. seq)
    BY DEF TypeOK
  <1>2. IsFiniteSet(1 .. seq)
    BY <1>1, FS_Interval
  <1> QED
    BY <1>1, <1>2, FS_Subset, FS_CardinalityType

\* A scan that reads as many records as there are reads them all.
LEMMA AllRecords ==
  ASSUME NEW ids, IsFiniteSet(ids), ids \subseteq Nat
  PROVE  FirstRecords(Cardinality(ids), ids) = ids
  <1>1. ASSUME NEW i \in ids
        PROVE  Cardinality({j \in ids : j < i}) < Cardinality(ids)
    <2> DEFINE below == {j \in ids : j < i}
    <2>1. below \in SUBSET ids /\ below # ids
      <3>1. i \in Nat /\ i \notin below
        BY <1>1
      <3> QED
        BY <1>1, <3>1
    <2> HIDE DEF below
    <2>2. IsFiniteSet(below) /\ Cardinality(below) <= Cardinality(ids)
          /\ Cardinality(below) # Cardinality(ids)
      BY <2>1, FS_Subset
    <2>3. Cardinality(below) \in Nat /\ Cardinality(ids) \in Nat
      BY <2>2, FS_CardinalityType
    <2> QED
      BY <2>2, <2>3 DEF below
  <1>2. Cardinality(ids) \in Nat /\ ~(Cardinality(ids) < Cardinality(ids))
    <2>1. Cardinality(ids) \in Nat
      BY FS_CardinalityType
    <2> QED
      BY <2>1
  <1> QED
    BY <1>1, <1>2, Zenon DEF FirstRecords

\* Where a step of a writer that is alone leaves it: as far as it should be, or
\* over with the file matching the rows.
Proceeds(c) ==
  IF pc[c] = "done" THEN Matches(store[main]) ELSE SoFar(c)

\* The step a call takes is the one of its place.
LEMMA StepAtPlace ==
  ASSUME NEW c \in Calls, Step(c)
  PROVE  /\ pc[c] = "stats" => Stats(c)
         /\ pc[c] = "copy" => Copy(c)
         /\ pc[c] = "header" => Header(c)
         /\ pc[c] = "open" => OpenTemp(c)
         /\ pc[c] = "scan" => Scan(c)
         /\ pc[c] = "seal" => Seal(c)
         /\ pc[c] = "begin" => Begin(c)
         /\ pc[c] = "rows" => Rows(c)
         /\ pc[c] = "end" => End(c)
         /\ pc[c] = "undo" => Undo(c)
         /\ pc[c] = "append" => Append(c)
         /\ pc[c] = "rename" => Rename(c)
         /\ pc[c] = "reopen" => Reopen(c)
         /\ pc[c] = "unlink" => Unlink(c)
  BY DEF Step, At, Stats, Read, Copy, Header, OpenTemp, Scan, Seal, Begin, Rows,
         End, Undo, Append, Rename, Reopen, Unlink

\* What a writer that is alone finds before its step.
LEMMA WriterFinds ==
  ASSUME ClientInv, ~mixed, NEW c \in Calls, Writes(c), Step(c)
  PROVE  /\ pc[c] \notin {"new", "done"}
         /\ pc'[c] = "done" \/ Kind(c)' = Kind(c)
         /\ Fits(Kind(c), pc[c])
         /\ file = None => Reopening(c)
         /\ ~MayPerish(c)
         /\ pc[c] = "begin" => ~saved.open
         /\ file \in {None, main} \/ pc[c] = "reopen"
         /\ Holding(c) /\ pc[c] \notin {"reopen", "unlink"} => temp # None
         /\ pc[c] = "seal" => file # None
         /\ temp # None => temp \in Inodes /\ temp \notin {main, file}
         /\ main \in Inodes /\ None \notin Inodes
  <1>1. /\ pc[c] \notin {"new", "done"}
        /\ pc'[c] = "done" \/ Kind(c)' = Kind(c)
        /\ Fits(Kind(c), pc[c])
    BY StepOfOne, KindType DEF ClientInv, InProgress
  <1>2. /\ file = None => Reopening(c)
        /\ ~MayPerish(c)
        /\ pc[c] = "begin" => ~saved.open
    BY <1>1, SafeWhenAlone
  <1>3. /\ file \in {None, main} \/ pc[c] = "reopen"
        /\ Holding(c) /\ pc[c] \notin {"reopen", "unlink"} => temp # None
        /\ pc[c] = "seal" => file # None
        /\ temp # None => temp \notin {main, file}
    BY <1>1, AloneFacts DEF ClientInv, OpenWhenAlone, Apart
  <1>4. /\ temp # None => temp \in Inodes
        /\ main \in Inodes /\ None \notin Inodes
    BY DEF ClientInv, TypeInv, TypeOK, None, Inodes
  <1> QED
    BY <1>1, <1>2, <1>3, <1>4

LEMMA GoesTo ==
  ASSUME ClientInv, NEW c \in Calls, NEW place, GoTo(c, place)
  PROVE  pc'[c] = place
  BY DEF GoTo, ClientInv, TypeInv, TypeOK

LEMMA UpdateProceeds ==
  ASSUME ClientInv, ~mixed, NEW c \in Calls, Kind(c) = "update", SoFar(c), Step(c)
  PROVE  Proceeds(c)'
  <1>1. /\ Matches(store[main]) 
        /\ pc[c] \in {"rows", "end"} => saved.rows = rows /\ saved.open
    BY DEF SoFar, UpdateSoFar
  <1>2. /\ pc'[c] = "done" \/ Kind(c)' = "update"
        /\ Fits("update", pc[c])
        /\ file # None
        /\ pc[c] = "begin" => ~saved.open
        /\ ~MayPerish(c)
    BY WriterFinds DEF Writes, Reopening
  <1>3. ASSUME UNCHANGED <<disk, rows>>,
               pc'[c] \in {"rows", "end"} => saved'.rows = rows /\ saved'.open
        PROVE  Proceeds(c)'
    <2>1. Matches(store[main])'
      BY <1>1, <1>3 DEF Matches, disk
    <2> QED
      BY <1>2, <1>3, <2>1 DEF Proceeds, SoFar, UpdateSoFar
  <1>4. CASE pc[c] = "stats"
    <2>1. Stats(c)
      BY <1>4, StepAtPlace
    <2>2. pc'[c] \in {"done", "begin"} /\ UNCHANGED <<disk, sqlite>>
      BY <1>2, <2>1, GoesTo DEF Stats
    <2> QED
      BY <1>3, <2>2 DEF sqlite
  <1>5. CASE pc[c] = "begin"
    <2>1. Begin(c)
      BY <1>5, StepAtPlace
    <2>2. saved' = [open |-> TRUE, rows |-> rows, seq |-> seq]
          /\ UNCHANGED <<disk, rows>>
      BY <1>2, <1>5, <2>1 DEF Begin
    <2> QED
      BY <1>3, <2>2
  <1>6. CASE pc[c] = "rows"
    <2>1. Rows(c)
      BY <1>6, StepAtPlace
    <2>2. UNCHANGED <<disk, rows, saved>>
      BY <1>2, <2>1 DEF Rows
    <2> QED
      BY <1>1, <1>3, <1>6, <2>2
  <1>7. CASE pc[c] = "end"
    <2>1. End(c)
      BY <1>7, StepAtPlace
    <2>2. EndUpdate(c) /\ UNCHANGED disk
      BY <2>1 DEF End, EndInsert, EndDelete
    <2>3. UNCHANGED rows /\ pc'[c] = "reopen"
      BY <1>1, <1>7, <2>2, GoesTo DEF EndUpdate, Commit, Rollback
    <2> QED
      BY <1>3, <2>2, <2>3
  <1>8. CASE pc[c] = "reopen"
    <2>1. Reopen(c)
      BY <1>8, StepAtPlace
    <2>2. UNCHANGED <<disk, sqlite>> /\ pc'[c] = "done"
      BY <1>2, <2>1, GoesTo DEF Reopen
    <2> QED
      BY <1>3, <2>2 DEF sqlite
  <1> QED
    BY <1>2, <1>4, <1>5, <1>6, <1>7, <1>8 DEF Fits

LEMMA InsertionProceeds ==
  ASSUME ClientInv, ~mixed, NEW c \in Calls, Kind(c) = "insert", SoFar(c), Step(c)
  PROVE  Proceeds(c)'
  <1>1. InsertionSoFar(c) /\ (pc[c] \in {"rows", "end"} => saved.open)
    BY DEF SoFar
  <1>2. /\ pc'[c] = "done" \/ Kind(c)' = "insert"
        /\ Fits("insert", pc[c])
        /\ file = None => Reopening(c)
        /\ pc[c] = "begin" => ~saved.open
        /\ ~MayPerish(c)
        /\ pc[c] \in {"open", "begin", "rows", "end", "append", "rename"} => temp # None
        /\ temp # None => temp \in Inodes /\ temp # main
        /\ main \in Inodes
    BY WriterFinds DEF Writes, Holding
  <1>3. ASSUME pc'[c] # "done", InsertionSoFar(c)',
               pc'[c] \in {"rows", "end"} => saved'.open
        PROVE  Proceeds(c)'
    BY <1>2, <1>3 DEF Proceeds, SoFar
  <1>4. ASSUME UNCHANGED <<disk, sqlite>>, Matches(store[main]),
               pc'[c] \in {"copy", "unlink", "done"}
        PROVE  Proceeds(c)'
    <2>1. Matches(store[main])'
      BY <1>4 DEF Matches, disk, sqlite
    <2> QED
      BY <1>2, <1>4, <2>1 DEF Proceeds, SoFar, InsertionSoFar
  <1>5. CASE pc[c] = "stats"
    <2>1. Stats(c) /\ file # None
      BY <1>2, <1>5, StepAtPlace DEF Reopening
    <2>2. pc'[c] = "copy" /\ UNCHANGED <<disk, sqlite>>
      BY <1>2, <2>1, GoesTo DEF Stats
    <2> QED
      BY <1>1, <1>4, <1>5, <2>2 DEF InsertionSoFar
  <1>6. CASE pc[c] = "copy"
    <2>1. Copy(c)
      BY <1>6, StepAtPlace
    <2>2. temp' \in Inodes /\ temp' # main
      BY <1>2, <2>1, FreshInode DEF Copy, ClientInv, TypeInv
    <2>3. /\ store' = [store EXCEPT ![temp'] = store[main]]
          /\ pc'[c] = "open" /\ UNCHANGED <<main, rows>>
      BY <2>1, GoesTo DEF Copy, sqlite
    <2>4. store'[main] = store[main] /\ store'[temp'] = store[main]
      BY <1>2, <2>2, <2>3 DEF ClientInv, TypeInv, TypeOK
    <2>5. Matches(store[main])' /\ Matches(store[temp])'
      BY <1>1, <1>6, <2>3, <2>4 DEF InsertionSoFar, Matches
    <2> QED
      BY <1>3, <2>3, <2>5 DEF InsertionSoFar
  <1>7. CASE pc[c] = "open"
    <2>1. OpenTemp(c)
      BY <1>7, StepAtPlace
    <2>2. /\ own' = [own EXCEPT ![c] = temp]
          /\ count' = [count EXCEPT ![c] = store[temp].n]
          /\ pc'[c] = "begin" /\ UNCHANGED <<disk, sqlite>>
      BY <1>2, <1>7, <2>1, GoesTo DEF OpenTemp
    <2>3. own'[c] = temp /\ count'[c] = store[temp].n
      BY <2>2 DEF ClientInv, TypeInv, TypeOK
    <2>4. Matches(store[main])' /\ Matches(store[temp])'
      BY <1>1, <1>7, <2>2 DEF InsertionSoFar, Matches, disk, sqlite
    <2> QED
      BY <1>3, <2>2, <2>3, <2>4 DEF InsertionSoFar, disk
  <1>8. CASE pc[c] = "begin"
    <2>1. Begin(c)
      BY <1>8, StepAtPlace
    <2>2. /\ saved' = [open |-> TRUE, rows |-> rows, seq |-> seq]
          /\ pc'[c] = "rows" /\ UNCHANGED <<disk, rows, own, count>>
      BY <1>2, <1>8, <2>1, GoesTo DEF Begin, local
    <2>3. Matches(store[main])' /\ Matches(store[temp])'
      BY <1>1, <1>8, <2>2 DEF InsertionSoFar, Matches, disk
    <2>4. saved'.open
      BY <2>2
    <2> QED
      BY <1>1, <1>3, <1>8, <2>2, <2>3, <2>4 DEF InsertionSoFar, disk
  <1>9. CASE pc[c] = "rows"
    <2>1. Rows(c)
      BY <1>9, StepAtPlace
    <2>2. /\ rows' = rows \union {seq + 1}
          /\ named' = [named EXCEPT ![c] = {seq + 1}]
          /\ pc'[c] = "end" /\ UNCHANGED <<disk, saved, own, count>>
      BY <2>1, GoesTo DEF Rows
    <2>3. /\ named'[c] = {seq + 1} /\ seq + 1 \notin rows
          /\ IsFiniteSet(rows) /\ Cardinality(rows) \in Nat
      BY <2>2, RowsAreFinite DEF ClientInv, TypeInv, TypeOK
    <2>4. Cardinality(rows') = Cardinality(rows) + 1
      BY <2>2, <2>3, FS_AddElement
    <2>5. rows' \ named'[c] = rows /\ named'[c] \subseteq rows' /\ named'[c] # {}
      BY <2>2, <2>3
    <2>6. store[temp] = File(Cardinality(rows') - 1, rows' \ named'[c])
      <3>1. Cardinality(rows') - 1 = Cardinality(rows)
        BY <2>3, <2>4
      <3>2. store[temp] = File(Cardinality(rows), rows)
        BY <1>1, <1>9 DEF InsertionSoFar, Matches
      <3> QED
        BY <2>5, <3>1, <3>2
    <2> QED
      BY <1>1, <1>3, <1>9, <2>2, <2>5, <2>6 DEF InsertionSoFar, disk
  <1>10. CASE pc[c] = "end"
    <2>1. End(c)
      BY <1>10, StepAtPlace
    <2>2. UNCHANGED <<disk, own, count, named, rows>> /\ pc'[c] = "append"
      BY <2>1, GoesTo DEF End, EndInsert, EndDelete, EndUpdate, Commit, local
    <2> QED
      BY <1>1, <1>3, <1>10, <2>2 DEF InsertionSoFar, disk
  <1>11. CASE pc[c] = "append"
    <2>1. Append(c) /\ own[c] = temp /\ temp \in Inodes
      BY <1>1, <1>2, <1>11, StepAtPlace DEF InsertionSoFar
    <2>2. /\ store' = [store EXCEPT ![temp] = File(count[c] + 1, @.ids \union named[c])]
          /\ pc'[c] = "rename" /\ UNCHANGED <<temp, rows>>
      BY <2>1, GoesTo DEF Append, sqlite
    <2>3. store[temp] = File(Cardinality(rows) - 1, rows \ named[c])
          /\ named[c] \subseteq rows /\ count[c] = store[temp].n
      BY <1>1, <1>11 DEF InsertionSoFar
    <2>4. Cardinality(rows) \in Nat
      BY RowsAreFinite DEF ClientInv, TypeInv
    <2>5. count[c] + 1 = Cardinality(rows) /\ store[temp].ids \union named[c] = rows
      BY <2>3, <2>4 DEF File
    <2>6. Matches(store[temp])'
      BY <2>1, <2>2, <2>5 DEF Matches, ClientInv, TypeInv, TypeOK
    <2> QED
      BY <1>3, <2>2, <2>6 DEF InsertionSoFar
  <1>12. CASE pc[c] = "rename"
    <2>1. Rename(c)
      BY <1>12, StepAtPlace
    <2>2. main' = temp /\ pc'[c] = "reopen" /\ UNCHANGED <<store, rows>>
      BY <1>2, <1>12, <2>1, GoesTo DEF Rename, sqlite
    <2>3. Matches(store[main])'
      BY <1>1, <1>12, <2>2 DEF InsertionSoFar, Matches
    <2> QED
      BY <1>3, <2>2, <2>3 DEF InsertionSoFar
  <1>13. CASE pc[c] = "reopen"
    <2>1. Reopen(c)
      BY <1>13, StepAtPlace
    <2>2. pc'[c] = "unlink" /\ UNCHANGED <<disk, sqlite>>
      BY <1>2, <2>1, GoesTo DEF Reopen
    <2> QED
      BY <1>1, <1>4, <1>13, <2>2 DEF InsertionSoFar
  <1>14. CASE pc[c] = "unlink"
    <2>1. Unlink(c)
      BY <1>14, StepAtPlace
    <2>2. pc'[c] = "done" /\ UNCHANGED <<store, main, sqlite>>
      BY <2>1, GoesTo DEF Unlink
    <2>3. Matches(store[main])'
      BY <1>1, <1>14, <2>2 DEF InsertionSoFar, Matches, sqlite
    <2> QED
      BY <2>2, <2>3 DEF Proceeds
  <1> QED
    BY <1>2, <1>5, <1>6, <1>7, <1>8, <1>9, <1>10, <1>11, <1>12, <1>13, <1>14 DEF Fits

LEMMA DeletionProceeds ==
  ASSUME ClientInv, ~mixed, NEW c \in Calls, Kind(c) = "delete", SoFar(c), Step(c)
  PROVE  Proceeds(c)'
  <1>1. DeletionSoFar(c) /\ (pc[c] \in {"rows", "end"} => saved.open)
    BY DEF SoFar
  <1>2. /\ pc'[c] = "done" \/ Kind(c)' = "delete"
        /\ Fits("delete", pc[c])
        /\ file = None => Reopening(c)
        /\ file \in {None, main} \/ pc[c] = "reopen"
        /\ pc[c] = "begin" => ~saved.open
        /\ ~MayPerish(c)
        /\ pc[c] \in {"scan", "seal", "begin", "rows", "end", "undo", "rename"} =>
             temp # None
        /\ temp # None => temp \in Inodes /\ temp # main
        /\ main \in Inodes
    BY WriterFinds DEF Writes, Holding
  <1>3. ASSUME pc'[c] # "done", DeletionSoFar(c)',
               pc'[c] \in {"rows", "end"} => saved'.open
        PROVE  Proceeds(c)'
    BY <1>2, <1>3 DEF Proceeds, SoFar
  <1>4. ASSUME UNCHANGED <<store, main, rows>>, Matches(store[main]),
               pc'[c] \in {"unlink", "done", "reopen"}
        PROVE  Proceeds(c)'
    <2>1. Matches(store[main])'
      BY <1>4 DEF Matches
    <2> QED
      BY <1>2, <1>4, <2>1 DEF Proceeds, SoFar, DeletionSoFar
  <1>5. IsFiniteSet(rows) /\ Cardinality(rows) \in Nat
    BY RowsAreFinite DEF ClientInv, TypeInv
  <1>6. CASE pc[c] = "stats"
    <2>1. Stats(c) /\ file = main
      BY <1>2, <1>6, StepAtPlace DEF Reopening
    <2>2. /\ pc'[c] \in {"unlink", "header"} /\ UNCHANGED <<disk, sqlite>>
          /\ count' = [count EXCEPT ![c] = store[main].n]
      BY <1>2, <2>1, GoesTo DEF Stats, ClientInv, TypeInv, TypeOK, None, Inodes
    <2>3. Matches(store[main]) /\ Matches(store[main])'
      BY <1>1, <1>6, <2>2 DEF DeletionSoFar, Matches, disk, sqlite
    <2>4. count'[c] = Cardinality(rows)
      BY <2>2, <2>3 DEF Matches, File, ClientInv, TypeInv, TypeOK
    <2> QED
      BY <1>3, <2>2, <2>3, <2>4 DEF DeletionSoFar, sqlite
  <1>7. CASE pc[c] = "header"
    <2>1. Header(c) /\ Matches(store[main]) /\ count[c] = Cardinality(rows)
      BY <1>1, <1>7, StepAtPlace DEF DeletionSoFar
    <2>2. CASE temp # None
      <3>1. pc'[c] = "unlink" /\ UNCHANGED <<store, main, rows>>
        BY <2>1, <2>2, GoesTo DEF Header, sqlite
      <3> QED
        BY <1>4, <2>1, <3>1
    <2>3. CASE temp = None
      <3>1. temp' \in Inodes /\ temp' # main
        BY <2>1, <2>3, FreshInode DEF Header, ClientInv, TypeInv
      <3>2. /\ store' = [store EXCEPT ![temp'] = File(count[c], {})]
            /\ pc'[c] = "scan" /\ UNCHANGED <<main, rows>>
        BY <2>1, <2>3, GoesTo DEF Header, sqlite
      <3>3. store'[main] = store[main] /\ store'[temp'] = File(Cardinality(rows), {})
        BY <1>2, <2>1, <3>1, <3>2 DEF ClientInv, TypeInv, TypeOK
      <3>4. Matches(store[main])' /\ store'[temp'].n = Cardinality(rows)
        BY <2>1, <3>2, <3>3 DEF Matches, File
      <3> QED
        BY <1>3, <3>2, <3>4 DEF DeletionSoFar
    <2> QED
      BY <2>2, <2>3
  <1>8. CASE pc[c] = "scan"
    <2>1. /\ Scan(c) /\ temp # None /\ temp \in Inodes /\ file = main /\ file # None
          /\ Matches(store[main]) /\ store[temp].n = Cardinality(rows)
      BY <1>1, <1>2, <1>8, StepAtPlace DEF DeletionSoFar, Reopening
    <2>2. CASE Doomed(c) = {}
      <3>1. asked[c].filtered
        <4>1. asked[c] \in Requests /\ asked[c].kind = "delete"
          BY <1>8, KindType DEF ClientInv, Kind
        <4> QED
          BY <2>2, <4>1, NodeAssumption DEF Doomed
      <3>2. pc'[c] = "reopen" /\ UNCHANGED <<store, main, rows>>
        BY <2>1, <2>2, <3>1, GoesTo DEF Scan, AfterDelete, sqlite
      <3> QED
        BY <1>4, <2>1, <3>2
    <2>3. CASE Doomed(c) # {}
      <3> DEFINE kept == rows \ Doomed(c)
      <3>1. FirstRecords(store[temp].n, store[file].ids) \ Doomed(c) = kept
        <4>1. store[file].ids = rows
          BY <2>1 DEF Matches, File
        <4>2. FirstRecords(Cardinality(rows), rows) = rows
          <5>1. rows \subseteq Nat
            BY DEF ClientInv, TypeInv, TypeOK
          <5> QED
            BY <1>5, <5>1, AllRecords
        <4> QED
          BY <2>1, <4>1, <4>2
      <3>2. /\ store' = [store EXCEPT ![temp] = File(Cardinality(kept), kept)]
            /\ named' = [named EXCEPT ![c] = Doomed(c)]
            /\ Answer(c, Cardinality(rows) - Cardinality(kept))
            /\ pc'[c] = "seal"
            /\ UNCHANGED <<main, temp, rows>>
        BY <2>1, <2>3, <3>1, GoesTo DEF Scan, sqlite
      <3>3. /\ IsFiniteSet(kept) /\ Cardinality(kept) \in Nat
            /\ Cardinality(kept) = Cardinality(rows) => kept = rows
        BY <1>5, FS_Subset, FS_CardinalityType
      <3>4. named'[c] = Doomed(c) /\ rows' \ named'[c] = kept
        BY <3>2 DEF ClientInv, TypeInv, TypeOK
      <3> HIDE DEF kept
      <3>5. answer'[c] = Cardinality(rows) - Cardinality(kept)
        BY <1>5, <3>2, <3>3, AnswerType DEF ClientInv, TypeInv
      <3>6. answer'[c] = 0 => kept = rows'
        BY <1>5, <3>2, <3>3, <3>5
      <3>7. store'[main] = store[main] /\ store'[temp'] = File(Cardinality(kept), kept)
        BY <1>2, <2>1, <3>2 DEF ClientInv, TypeInv, TypeOK
      <3>8. Matches(store[main])'
        BY <2>1, <3>2, <3>7 DEF Matches
      <3> QED
        BY <1>3, <3>2, <3>4, <3>6, <3>7, <3>8 DEF DeletionSoFar
    <2> QED
      BY <2>2, <2>3
  <1>9. CASE pc[c] = "seal"
    <2>1. Seal(c)
      BY <1>9, StepAtPlace
    <2>2. pc'[c] = "begin" /\ UNCHANGED <<disk, sqlite, named, answer>>
      BY <1>2, <2>1, GoesTo DEF Seal, local
    <2>3. Matches(store[main])'
      BY <1>1, <1>9, <2>2 DEF DeletionSoFar, Matches, disk, sqlite
    <2> QED
      BY <1>1, <1>3, <1>9, <2>2, <2>3 DEF DeletionSoFar, disk, sqlite
  <1>10. CASE pc[c] = "begin"
    <2>1. Begin(c)
      BY <1>10, StepAtPlace
    <2>2. /\ saved' = [open |-> TRUE, rows |-> rows, seq |-> seq]
          /\ pc'[c] = "rows" /\ UNCHANGED <<disk, rows, named, answer>>
      BY <1>2, <1>10, <2>1, GoesTo DEF Begin, local
    <2>3. Matches(store[main])' /\ saved'.open
      BY <1>1, <1>10, <2>2 DEF DeletionSoFar, Matches, disk
    <2> QED
      BY <1>1, <1>3, <1>10, <2>2, <2>3 DEF DeletionSoFar, disk
  <1>11. CASE pc[c] = "rows"
    <2>1. Rows(c)
      BY <1>11, StepAtPlace
    <2>2. /\ rows' = rows \ named[c]
          /\ pc'[c] = "end" /\ UNCHANGED <<disk, saved, named, answer>>
      BY <2>1, GoesTo DEF Rows
    <2>3. Matches(store[temp])' /\ (answer'[c] = 0 => Matches(store[main])')
      BY <1>1, <1>11, <2>2 DEF DeletionSoFar, Matches, disk
    <2> QED
      BY <1>1, <1>3, <1>11, <2>2, <2>3 DEF DeletionSoFar
  <1>12. CASE pc[c] = "end"
    <2>1. End(c)
      BY <1>12, StepAtPlace
    <2>2. AfterDelete(c, answer[c]) /\ UNCHANGED <<disk, rows>>
      BY <1>1, <1>12, <2>1 DEF End, EndInsert, EndDelete, EndUpdate, Commit
    <2>3. answer[c] \in Int
      BY DEF ClientInv, TypeInv, TypeOK
    <2>4. pc'[c] = IF asked[c].filtered /\ answer[c] = 0 THEN "reopen" ELSE "rename"
      BY <2>2, <2>3, AfterDeleteTypes DEF ClientInv
    <2>5. CASE pc'[c] = "reopen"
      BY <1>1, <1>4, <1>12, <2>2, <2>4, <2>5 DEF DeletionSoFar, disk
    <2>6. CASE pc'[c] = "rename"
      <3>1. Matches(store[temp])'
        BY <1>1, <1>12, <2>2 DEF DeletionSoFar, Matches, disk
      <3> QED
        BY <1>3, <2>6, <3>1 DEF DeletionSoFar
    <2> QED
      BY <2>4, <2>5, <2>6
  <1>13. CASE pc[c] = "rename"
    <2>1. Rename(c)
      BY <1>13, StepAtPlace
    <2>2. main' = temp /\ pc'[c] = "reopen" /\ UNCHANGED <<store, rows>>
      BY <1>2, <1>13, <2>1, GoesTo DEF Rename, sqlite
    <2>3. Matches(store[main])'
      BY <1>1, <1>13, <2>2 DEF DeletionSoFar, Matches
    <2> QED
      BY <1>3, <2>2, <2>3 DEF DeletionSoFar
  <1>14. CASE pc[c] = "reopen"
    <2>1. Reopen(c)
      BY <1>14, StepAtPlace
    <2>2. pc'[c] = "unlink" /\ UNCHANGED <<disk, sqlite>>
      BY <1>2, <2>1, GoesTo DEF Reopen
    <2> QED
      BY <1>1, <1>4, <1>14, <2>2 DEF DeletionSoFar, disk, sqlite
  <1>15. CASE pc[c] = "unlink"
    <2>1. Unlink(c)
      BY <1>15, StepAtPlace
    <2>2. pc'[c] = "done" /\ UNCHANGED <<store, main, sqlite>>
      BY <2>1, GoesTo DEF Unlink
    <2> QED
      BY <1>1, <1>4, <1>15, <2>2 DEF DeletionSoFar, sqlite
  <1> QED
    BY <1>1, <1>2, <1>6, <1>7, <1>8, <1>9, <1>10, <1>11, <1>12, <1>13, <1>14, <1>15
       DEF DeletionSoFar, Fits

LEMMA NextContent ==
  ASSUME ClientInv, ContentInv, [Next]_vars
  PROVE  ContentInv'
  <1>1. CASE UNCHANGED vars
    BY <1>1 DEF vars, disk, sqlite, local, ghosts, ContentInv, InProgress, Writes,
                Kind, SoFar, InsertionSoFar, DeletionSoFar, UpdateSoFar, Matches
  <1>2. CASE Crash
    BY <1>2, NodeAssumption DEF Crash, ContentInv, ClientInv, TypeInv, TypeOK
  <1>3. ASSUME NEW c \in Calls, Call(c) PROVE ContentInv'
    <2> SUFFICES ASSUME ~mixed', crashes' = 0 PROVE ContentInv'
      BY DEF ContentInv
    <2>1. \A d \in Calls \ {c} : pc'[d] = pc[d] /\ asked'[d] = asked[d]
      BY <1>3, OthersStay DEF ClientInv
    <2>2. /\ pc[c] = "new" /\ pc'[c] \in {"stats", "read"}
          /\ UNCHANGED <<disk, sqlite, crashes>>
          /\ mixed' = (mixed \/ \E d \in InProgress : Writes(c)' \/ Writes(d))
      BY <1>3 DEF Call, At, ClientInv, TypeInv, TypeOK
    <2>3. ~mixed /\ crashes = 0
          /\ (\A d \in InProgress : ~Writes(c)' /\ ~Writes(d))
      BY <2>2
    <2>4. Matches(store[main])'
      BY <2>2, <2>3 DEF ContentInv, Matches, disk, sqlite
    <2>5. \A d \in InProgress' : Writes(d)' => d = c
      BY <2>1, <2>3 DEF InProgress, Writes, Kind
    <2>6. Writes(c)' => SoFar(c)'
      <3>1. Fits(Kind(c), pc[c])'
        BY <1>3, CallTypes DEF ClientInv, TypeInv, PlacesFit
      <3>2. Writes(c)' => pc'[c] = "stats"
        BY <2>2, <3>1 DEF Fits, Writes
      <3> QED
        BY <2>4, <3>2 DEF SoFar, InsertionSoFar, DeletionSoFar, UpdateSoFar
    <2> QED
      BY <2>4, <2>5, <2>6 DEF ContentInv
  <1>4. ASSUME NEW c \in Calls, Step(c) PROVE ContentInv'
    <2> SUFFICES ASSUME ~mixed, crashes = 0 PROVE ContentInv'
      BY <1>4, StepOfOne DEF ContentInv, ClientInv
    <2>1. \A d \in Calls \ {c} : pc'[d] = pc[d] /\ asked'[d] = asked[d]
      BY <1>4, OthersStay DEF ClientInv
    <2>2. /\ pc[c] \notin {"new", "done"} /\ c \in InProgress /\ pc'[c] # "new"
          /\ pc'[c] = "done" \/ Kind(c)' = Kind(c)
          /\ Fits(Kind(c), pc[c])
      BY <1>4, StepOfOne, KindType DEF ClientInv, InProgress
    <2>3. CASE Writes(c)
      <3>1. SoFar(c)
        BY <2>2, <2>3 DEF ContentInv
      <3>2. Proceeds(c)'
        BY <1>4, <2>3, <3>1, UpdateProceeds, InsertionProceeds, DeletionProceeds
           DEF Writes
      <3>3. \A d \in InProgress' : d = c
        BY <2>1, <2>2, <2>3, AloneFacts DEF ClientInv, InProgress
      <3>4. CASE pc'[c] = "done"
        BY <3>2, <3>3, <3>4 DEF Proceeds, ContentInv, InProgress
      <3>5. CASE pc'[c] # "done"
        <4>1. c \in InProgress' /\ Writes(c)'
          BY <2>2, <2>3, <3>5 DEF InProgress, Writes
        <4> QED
          BY <3>2, <3>3, <3>5, <4>1 DEF Proceeds, ContentInv
      <3> QED
        BY <3>4, <3>5
    <2>4. CASE ~Writes(c)
      <3>1. \A d \in InProgress : ~Writes(d)
        BY <2>2, <2>4, AloneFacts DEF ClientInv, InProgress
      <3>2. file # None
        BY <2>2, <2>4, SafeWhenAlone DEF ClientInv
      <3>3. Stats(c) \/ Read(c)
        <4>1. pc[c] \in {"stats", "read"}
          BY <2>2, <2>4 DEF Fits, Writes
        <4> QED
          BY <1>4, <4>1
             DEF Step, At, Copy, Header, OpenTemp, Scan, Seal, Begin, Rows, End, Undo,
                 Append, Rename, Reopen, Unlink
      <3>4. UNCHANGED <<store, main, rows>>
        BY <3>3, <3>2 DEF Stats, Read, Perish, disk, sqlite
      <3>5. Matches(store[main])'
        BY <3>1, <3>4 DEF ContentInv, Matches
      <3>6. \A d \in InProgress' : ~Writes(d)'
        BY <2>1, <2>2, <2>4, <3>1 DEF InProgress, Writes, Kind
      <3> QED
        BY <3>5, <3>6 DEF ContentInv
    <2> QED
      BY <2>3, <2>4
  <1> QED
    BY <1>1, <1>2, <1>3, <1>4 DEF Next

\* As long as no writer has overlapped, whatever the calls were and asked for,
\* the connection is open on the vector file when none is in progress, and
\* without a crash its records are those of the rows.
THEOREM QuietIndexStaysSound == Spec => []QuietIndexIsSound
  <1>1. Init => ContentInv
    <2>1. ASSUME Init PROVE Matches(store[main])
      <3>1. Stored \in Int /\ 1 \in Int /\ Stored \in Nat
        BY NodeAssumption
      <3>2. Cardinality(1 .. Stored) = Stored
        BY <3>1, FS_Interval
      <3>3. store[main] = File(Stored, 1 .. Stored) /\ rows = 1 .. Stored
        <4>1. 1 \in Inodes
          BY <2>1, InitTypes DEF TypeInv, TypeOK, Init
        <4> QED
          BY <2>1, <4>1 DEF Init
      <3> QED
        BY <3>2, <3>3 DEF Matches
    <2> QED
      BY <2>1 DEF Init, ContentInv, InProgress
  <1>2. ClientInv /\ ContentInv /\ [Next]_vars => ContentInv'
    BY NextContent
  <1>3. ClientInv /\ ContentInv => QuietIndexIsSound
    <2> SUFFICES ASSUME ClientInv, ContentInv, Quiet, ~mixed
                 PROVE  file = main /\ (crashes = 0 => Matches(store[main]))
      BY DEF QuietIndexIsSound, Matches
    <2>1. \A c \in Calls : pc[c] \in {"new", "done"}
      BY DEF Quiet, InProgress
    <2>2. file # None /\ file \in {None, main}
      BY <2>1 DEF ClientInv, OpenWhenAlone, Reopening
    <2> QED
      BY <2>1, <2>2 DEF ContentInv, Quiet
  <1> QED
    BY ClientInvStays, <1>1, <1>2, <1>3, PTL DEF Spec

-----------------------------------------------------------------------------
(* No call goes on for ever: none comes back to a place it has left, and no *)
(* call waits for another by looking again.                                 *)

Stage(place) ==
  CASE place = "new" -> 0
    [] place = "stats" -> 1
    [] place \in {"copy", "header", "read"} -> 2
    [] place \in {"open", "scan"} -> 3
    [] place = "seal" -> 4
    [] place = "begin" -> 5
    [] place = "rows" -> 6
    [] place = "end" -> 7
    [] place \in {"undo", "append"} -> 8
    [] place = "rename" -> 9
    [] place = "reopen" -> 10
    [] place = "unlink" -> 11
    [] place = "done" -> 12

CallsGoOn ==
  [][\/ alive /\ ~alive'
     \/ /\ \A c \in Calls : pc'[c] = pc[c] \/ Stage(pc[c]) < Stage(pc'[c])
        /\ \E c \in Calls : pc'[c] # pc[c]]_vars

LEMMA StepGoesOn ==
  ASSUME TypeInv, NEW c \in Calls, Step(c)
  PROVE  (alive /\ ~alive') \/ Stage(pc[c]) < Stage(pc'[c])
  <1>1. alive
    BY DEF Step, At, Stats, Read, Copy, Header, OpenTemp, Scan, Seal, Begin, Rows,
           End, Undo, Append, Rename, Reopen, Unlink
  <1> SUFFICES ASSUME alive' PROVE Stage(pc[c]) < Stage(pc'[c])
    BY <1>1
  <1>2. ~Perish
    BY DEF Perish
  <1>3. ASSUME NEW place, GoTo(c, place) PROVE pc'[c] = place
    BY <1>3 DEF TypeInv, TypeOK, GoTo
  <1>4. ASSUME NEW n, AfterDelete(c, n) PROVE pc'[c] \in {"reopen", "rename"}
    BY <1>3, <1>4 DEF AfterDelete
  <1>5. CASE Stats(c)
    <2>1. pc[c] = "stats" /\ Kind(c) \in {"insert", "delete", "update", "page"}
      BY <1>5, KindType DEF Stats, At, Fits
    <2> DEFINE place == CASE Kind(c) = "insert" -> "copy"
                     [] Kind(c) = "delete" -> IF store[file].n = 0 THEN "unlink" ELSE "header"
                     [] Kind(c) = "update" -> IF store[file].n = 0 THEN "done" ELSE "begin"
                     [] Kind(c) = "page" -> IF store[file].n = 0 THEN "done" ELSE "read"
    <2>2. GoTo(c, place)
      BY <1>2, <1>5 DEF Stats
    <2>3. pc'[c] = place
      BY <1>3, <2>2
    <2>4. place \in {"copy", "unlink", "header", "done", "begin", "read"}
      BY <2>1
    <2> QED
      BY <2>1, <2>3, <2>4 DEF Stage
  <1>6. CASE Read(c) \/ Rows(c)
    <2>1. \/ pc[c] = "read" /\ GoTo(c, "done")
          \/ pc[c] = "rows" /\ GoTo(c, "end")
      BY <1>2, <1>6 DEF Read, Rows, AfterRead, At
    <2> QED
      BY <1>3, <2>1 DEF Stage
  <1>7. CASE Copy(c) \/ Header(c)
    <2>1. \/ pc[c] = "copy" /\ GoTo(c, "open")
          \/ pc[c] = "header" /\ (GoTo(c, "scan") \/ GoTo(c, "unlink"))
      BY <1>7 DEF Copy, Header, At
    <2> QED
      BY <1>3, <2>1 DEF Stage
  <1>8. CASE OpenTemp(c) \/ Seal(c) \/ Reopen(c)
    <2>1. \/ pc[c] = "open" /\ (GoTo(c, "unlink") \/ GoTo(c, "begin"))
          \/ pc[c] = "seal" /\ GoTo(c, "begin")
          \/ pc[c] = "reopen" /\ (GoTo(c, "unlink") \/ GoTo(c, "done"))
      BY <1>8 DEF OpenTemp, Seal, Reopen, At
    <2> QED
      BY <1>3, <2>1 DEF Stage
  <1>9. CASE Scan(c)
    <2>1. pc[c] = "scan" /\ pc'[c] \in {"reopen", "rename", "seal"}
      BY <1>3, <1>4, <1>9 DEF Scan, At
    <2> QED
      BY <2>1 DEF Stage
  <1>10. CASE Begin(c)
    <2>1. pc[c] = "begin" /\ pc'[c] \in {"reopen", "rename", "unlink", "rows"}
      BY <1>3, <1>4, <1>10 DEF Begin, At
    <2> QED
      BY <2>1 DEF Stage
  <1>11. CASE End(c)
    <2>1. pc[c] = "end" /\ pc'[c] \in {"reopen", "rename", "append", "undo"}
      BY <1>3, <1>4, <1>11 DEF End, EndInsert, EndDelete, EndUpdate, At
    <2> QED
      BY <2>1 DEF Stage
  <1>12. CASE Undo(c)
    <2>1. pc[c] = "undo" /\ pc'[c] \in {"reopen", "rename"}
      BY <1>4, <1>12 DEF Undo, At
    <2> QED
      BY <2>1 DEF Stage
  <1>13. CASE Append(c) \/ Rename(c) \/ Unlink(c)
    <2>1. \/ pc[c] = "append" /\ GoTo(c, "rename")
          \/ pc[c] = "rename" /\ (GoTo(c, "unlink") \/ GoTo(c, "reopen"))
          \/ pc[c] = "unlink" /\ GoTo(c, "done")
      BY <1>13 DEF Append, Rename, Unlink, At
    <2> QED
      BY <1>3, <2>1 DEF Stage
  <1> QED
    BY <1>5, <1>6, <1>7, <1>8, <1>9, <1>10, <1>11, <1>12, <1>13 DEF Step

\* Whatever calls overlap, every step takes a call to a later place, or a crash
\* takes all to their end, or the process perishes: a client that has made n
\* calls is done after at most 12 steps of each. What is left of EveryCallReturns
\* is that a call in progress always has a step.
THEOREM CallsComeToAnEnd == Spec => CallsGoOn
  <1>1. TypeInv /\ [Next]_vars =>
          [\/ alive /\ ~alive'
           \/ /\ \A c \in Calls : pc'[c] = pc[c] \/ Stage(pc[c]) < Stage(pc'[c])
              /\ \E c \in Calls : pc'[c] # pc[c]]_vars
    <2> SUFFICES ASSUME TypeInv, Next, ~(alive /\ ~alive')
                 PROVE  /\ \A c \in Calls : pc'[c] = pc[c] \/ Stage(pc[c]) < Stage(pc'[c])
                        /\ \E c \in Calls : pc'[c] # pc[c]
      OBVIOUS
    <2>1. CASE Crash
      <3>1. \A c \in Calls : pc'[c] = IF c \in InProgress THEN "done" ELSE pc[c]
        BY <2>1 DEF Crash
      <3>2. \A c \in InProgress : /\ c \in Calls /\ pc[c] # "done"
                                  /\ Stage(pc[c]) < Stage("done")
        <4> SUFFICES ASSUME NEW c \in InProgress
                     PROVE  Stage(pc[c]) < 12
          BY DEF InProgress, Stage
        <4>1. pc[c] \in Places \ {"done"}
          BY DEF InProgress, TypeInv, TypeOK
        <4> QED
          BY <4>1 DEF Places, Stage
      <3>3. InProgress # {}
        BY <2>1 DEF Crash
      <3> QED
        BY <3>1, <3>2, <3>3
    <2>2. ASSUME NEW c \in Calls, Call(c) \/ Step(c),
                 Stage(pc[c]) < Stage(pc'[c])
          PROVE  /\ \A d \in Calls : pc'[d] = pc[d] \/ Stage(pc[d]) < Stage(pc'[d])
                 /\ \E d \in Calls : pc'[d] # pc[d]
      <3>1. Stage(pc[c]) \in 0 .. 12
        <4>1. pc[c] \in Places
          BY DEF TypeInv, TypeOK
        <4> QED
          BY <4>1 DEF Places, Stage
      <3>2. pc'[c] # pc[c]
        BY <2>2, <3>1
      <3> QED
        BY <2>2, <3>2, OthersStay
    <2>3. ASSUME NEW c \in Calls, Call(c) PROVE Stage(pc[c]) < Stage(pc'[c])
      <3>1. pc[c] = "new" /\ pc'[c] \in {"read", "stats"}
        BY <2>3 DEF Call, At, TypeInv, TypeOK
      <3> QED
        BY <3>1 DEF Stage
    <2>4. ASSUME NEW c \in Calls, Step(c) PROVE Stage(pc[c]) < Stage(pc'[c])
      BY <2>4, StepGoesOn
    <2> QED
      BY <2>1, <2>2, <2>3, <2>4 DEF Next
  <1> QED
    BY <1>1, TypesStay, PTL DEF Spec, CallsGoOn
=============================================================================
