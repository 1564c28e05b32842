----------------------------- MODULE TopKProofs -----------------------------
(***************************************************************************)
(* The search returns the most similar records for every file, filter and  *)
(* number of results: the heap property holds after every repair, so the   *)
(* root is a least similar entry, so what is given up is never missed.     *)
(***************************************************************************)
EXTENDS TopK, SequenceTheorems, WellFoundedInduction, TLAPS

InFile ==
  /\ file \in Seq(Record)
  /\ \A p, q \in 1 .. Len(file) : p # q => file[p].id # file[q].id

\* While a repair climbs, only the entry it has come to may be out of order
\* with its parent; while it sinks, only with its children.
Repairing ==
  /\ pc = "up" => \A i \in 2 .. Size : i # cur => ~Sinks(Parent(i), i)
  /\ pc = "down" => \A i \in 2 .. Size : Parent(i) # cur => ~Sinks(Parent(i), i)
  /\ pc \in {"up", "down"} =>
       \A i \in 2 .. Size : Parent(i) = cur /\ cur > 1 => ~Sinks(Parent(cur), i)

HeapInv == TypeOK /\ InFile /\ HeapOrder /\ Repairing

SearchInv == HeapInv /\ KeepsBest /\ ResultsAreBest

-----------------------------------------------------------------------------
(* The least element of a set of numbers, and the root of a heap           *)

LEMMA LeastElement ==
  ASSUME NEW T, T \subseteq Nat, T # {}
  PROVE  \E x \in T : \A y \in T : x <= y
  <1> DEFINE R == OpToRel(<, Nat)
  <1>1. IsWellFoundedOn(R, Nat)
    BY NatLessThanWellFounded
  <1>2. \A x, y \in Nat : x < y => <<x, y>> \in R
    BY DEF OpToRel
  <1> HIDE DEF R
  <1>3. PICK x \in T : \A y \in T : ~(<<y, x>> \in R)
    BY <1>1, WFMin
  <1>4. \A y \in T : ~(y < x)
    BY <1>2, <1>3
  <1>5. x \in Nat /\ \A y \in T : y \in Nat
    OBVIOUS
  <1>6. \A y \in T : x <= y
    BY <1>4, <1>5
  <1> QED
    BY <1>6

LEMMA HeapFacts ==
  ASSUME TypeOK
  PROVE  /\ heap \in Seq(Record) /\ Size \in Nat
         /\ \A i \in 1 .. Size : heap[i] \in Record /\ heap[i].sim \in Int
         /\ \A i \in 2 .. Size : /\ Parent(i) \in 1 .. Size
                                 /\ Parent(i) < i
         /\ file \in Seq(Record) /\ Len(file) \in Nat
         /\ \A p \in 1 .. Len(file) : file[p] \in Record /\ file[p].sim \in Int
  <1>1. heap \in Seq(Record) /\ Size \in Nat /\ file \in Seq(Record)
        /\ Len(file) \in Nat
    BY DEF TypeOK, Size
  <1>2. \A i \in 1 .. Size : heap[i] \in Record
    BY <1>1, ElementOfSeq DEF Size
  <1>3. \A p \in 1 .. Len(file) : file[p] \in Record
    BY <1>1, ElementOfSeq
  <1>4. \A i \in 2 .. Size : Parent(i) \in 1 .. Size /\ Parent(i) < i
    BY <1>1 DEF Parent
  <1> QED
    BY <1>1, <1>2, <1>3, <1>4 DEF Record

\* An entry less similar than the root would have a first one in the order of
\* the heap, but the parent of that one would be less similar, too.
LEMMA RootOfOrder ==
  ASSUME TypeOK, \A i \in 2 .. Size : ~Sinks(Parent(i), i)
  PROVE  \A i \in 1 .. Size : heap[1].sim <= heap[i].sim
  <1> DEFINE T == {i \in 1 .. Size : ~(heap[1].sim <= heap[i].sim)}
  <1> SUFFICES ASSUME T # {} PROVE FALSE
    OBVIOUS
  <1>1. T \subseteq Nat
    OBVIOUS
  <1>2. PICK i \in T : \A j \in T : i <= j
    BY <1>1, LeastElement
  <1>3. i \in 1 .. Size /\ i # 1
    BY <1>2, HeapFacts
  <1>4. i \in 2 .. Size /\ Parent(i) \in 1 .. Size /\ Parent(i) < i
    BY <1>3, HeapFacts
  <1>5. Parent(i) \notin T
    <2>1. i \in Nat /\ Parent(i) \in Nat /\ ~(i <= Parent(i))
      BY <1>3, <1>4, HeapFacts
    <2> HIDE DEF T
    <2> QED
      BY <1>2, <2>1
  <1>6. heap[1].sim <= heap[Parent(i)].sim /\ ~(heap[Parent(i)].sim > heap[i].sim)
    BY <1>4, <1>5 DEF Sinks
  <1>7. /\ 1 \in 1 .. Size /\ heap[1].sim \in Int /\ heap[i].sim \in Int
        /\ heap[Parent(i)].sim \in Int
    BY <1>3, <1>4, HeapFacts
  <1>8. ~(heap[1].sim <= heap[i].sim)
    BY <1>2
  <1> QED
    BY <1>6, <1>7, <1>8

-----------------------------------------------------------------------------
(* What a swap and a replacement do to the entries                         *)

LEMMA SwapFacts ==
  ASSUME TypeOK, NEW i \in 1 .. Size, NEW j \in 1 .. Size, heap' = Swapped(i, j)
  PROVE  /\ heap' \in Seq(Record) /\ Len(heap') = Size
         /\ heap'[i] = heap[j] /\ heap'[j] = heap[i]
         /\ \A p \in 1 .. Size : p # i /\ p # j => heap'[p] = heap[p]
  <1>1. heap \in Seq(Record) /\ heap[i] \in Record /\ heap[j] \in Record
        /\ DOMAIN heap = 1 .. Size
    BY HeapFacts DEF Size
  <1>2. /\ [heap EXCEPT ![i] = heap[j]] \in Seq(Record)
        /\ Len([heap EXCEPT ![i] = heap[j]]) = Size
    BY <1>1, ExceptSeq DEF Size
  <1>3. heap' \in Seq(Record) /\ Len(heap') = Size
    BY <1>1, <1>2, ExceptSeq DEF Swapped, Size
  <1> QED
    BY <1>1, <1>3 DEF Swapped

LEMMA SameEntries ==
  ASSUME NEW s, NEW t, Len(s) = Len(t),
         \A p \in 1 .. Len(s) : \E q \in 1 .. Len(s) : s[p] = t[q],
         \A p \in 1 .. Len(s) : \E q \in 1 .. Len(s) : t[p] = s[q]
  PROVE  EntriesOf(s) = EntriesOf(t)
  <1>1. \A e \in EntriesOf(s) : e \in EntriesOf(t)
    BY DEF EntriesOf
  <1>2. \A e \in EntriesOf(t) : e \in EntriesOf(s)
    BY DEF EntriesOf
  <1> QED
    BY <1>1, <1>2

LEMMA SwapKeepsEntries ==
  ASSUME TypeOK, KeepsBest, NEW i \in 1 .. Size, NEW j \in 1 .. Size, i # j,
         heap' = Swapped(i, j), UNCHANGED <<file, wanted, top_k, pos>>
  PROVE  KeepsBest'
  <1>1. /\ Len(heap') = Size /\ heap'[i] = heap[j] /\ heap'[j] = heap[i]
        /\ \A p \in 1 .. Size : p # i /\ p # j => heap'[p] = heap[p]
    BY SwapFacts
  <1>2. EntriesOf(heap') = EntriesOf(heap)
    <2>1. \A p \in 1 .. Size : \E q \in 1 .. Size : heap'[p] = heap[q]
      BY <1>1
    <2>2. \A p \in 1 .. Size : \E q \in 1 .. Size : heap[p] = heap'[q]
      BY <1>1
    <2> QED
      BY <1>1, <2>1, <2>2, SameEntries DEF Size
  <1>3. \A p, q \in 1 .. Size : p # q => heap'[p] # heap'[q]
    BY <1>1 DEF KeepsBest
  <1>4. Seen' = Seen
    BY DEF Seen
  <1>5. \A r : (\A p \in 1 .. Size : r <= heap[p].sim) =>
               (\A p \in 1 .. Size : r <= heap'[p].sim)
    BY <1>1
  <1>6. Size' = Size /\ top_k' = top_k
    BY <1>1 DEF Size
  <1> QED
    BY <1>2, <1>3, <1>4, <1>5, <1>6 DEF KeepsBest

-----------------------------------------------------------------------------
(* The heap property                                                       *)

LEMMA HeapPushed ==
  ASSUME HeapInv, Push
  PROVE  HeapInv'
  <1>1. /\ heap \in Seq(Record) /\ Size \in Nat /\ file \in Seq(Record)
        /\ Len(file) \in Nat /\ pos \in 1 .. Len(file) /\ file[pos] \in Record
        /\ top_k \in Nat
    BY HeapFacts DEF HeapInv, TypeOK, Push, Scanning
  <1>2. /\ heap' \in Seq(Record) /\ Size' = Size + 1
        /\ \A i \in 1 .. Size : heap'[i] = heap[i]
    BY <1>1, AppendProperties DEF Push, Size
  <1>3. TypeOK'
    BY <1>1, <1>2 DEF HeapInv, TypeOK, Push
  <1>4. Repairing'
    <2>1. cur' = Size + 1 /\ pc' = "up"
      BY DEF Push
    <2>2. \A i \in 2 .. Size : ~(heap'[Parent(i)].sim > heap'[i].sim)
      <3>1. \A i \in 2 .. Size : ~(heap[Parent(i)].sim > heap[i].sim)
        BY DEF HeapInv, HeapOrder, Sinks, Push, Scanning
      <3>2. \A i \in 2 .. Size : i \in 1 .. Size /\ Parent(i) \in 1 .. Size
        BY <1>1, HeapFacts DEF HeapInv
      <3> QED
        BY <1>2, <3>1, <3>2
    <2>3. \A i \in 2 .. Size + 1 : Parent(i) # Size + 1
      BY <1>1 DEF Parent
    <2> QED
      BY <1>1, <1>2, <2>1, <2>2, <2>3 DEF Repairing, Sinks
  <1> QED
    BY <1>3, <1>4 DEF HeapInv, InFile, HeapOrder, Push

LEMMA HeapReplaced ==
  ASSUME HeapInv, ReplaceRoot
  PROVE  HeapInv'
  <1>1. /\ heap \in Seq(Record) /\ Size \in Nat /\ file \in Seq(Record)
        /\ Len(file) \in Nat /\ pos \in 1 .. Len(file) /\ file[pos] \in Record
        /\ top_k \in Nat \ {0} /\ Size = top_k /\ 1 \in 1 .. Size
    BY HeapFacts DEF HeapInv, TypeOK, ReplaceRoot, Scanning
  <1>2. heap' \in Seq(Record) /\ Size' = Size
    BY <1>1, ExceptSeq DEF ReplaceRoot, Size
  <1>3. \A i \in 2 .. Size : heap'[i] = heap[i]
    BY <1>1 DEF ReplaceRoot, Size
  <1>4. TypeOK'
    BY <1>1, <1>2 DEF HeapInv, TypeOK, ReplaceRoot
  <1>5. Repairing'
    <2>1. cur' = 1 /\ pc' = "down"
      BY DEF ReplaceRoot
    <2>2. \A i \in 2 .. Size : Parent(i) # 1 => Parent(i) \in 2 .. Size
      BY <1>1, HeapFacts DEF HeapInv
    <2>3. \A i \in 2 .. Size : Parent(i) # 1 =>
            ~(heap'[Parent(i)].sim > heap'[i].sim)
      BY <1>3, <2>2 DEF HeapInv, HeapOrder, Sinks, ReplaceRoot, Scanning
    <2> QED
      BY <1>2, <2>1, <2>3 DEF Repairing, Sinks
  <1> QED
    BY <1>4, <1>5 DEF HeapInv, InFile, HeapOrder, ReplaceRoot

LEMMA HeapSiftedUp ==
  ASSUME HeapInv, SiftUp
  PROVE  HeapInv'
  <1> DEFINE par == Parent(cur)
  <1>1. /\ Size \in Nat /\ cur \in 2 .. Size /\ par \in 1 .. Size /\ par < cur
        /\ heap[par].sim > heap[cur].sim
    BY HeapFacts DEF HeapInv, TypeOK, SiftUp, Sinks
  <1>2. /\ heap' \in Seq(Record) /\ Size' = Size
        /\ heap'[par] = heap[cur] /\ heap'[cur] = heap[par]
        /\ \A p \in 1 .. Size : p # par /\ p # cur => heap'[p] = heap[p]
    BY <1>1, SwapFacts DEF HeapInv, SiftUp, Size
  <1>3. cur' = par /\ pc' = "up" /\ pc = "up"
    BY DEF SiftUp
  <1>4. TypeOK'
    BY <1>1, <1>2, <1>3 DEF HeapInv, TypeOK, SiftUp
  <1>5. /\ \A i \in 1 .. Size : heap[i].sim \in Int
        /\ \A i \in 2 .. Size : Parent(i) \in 1 .. Size /\ Parent(i) < i
    BY HeapFacts DEF HeapInv
  <1>6. \A i \in 2 .. Size : i # cur => ~(heap[Parent(i)].sim > heap[i].sim)
    BY <1>3 DEF HeapInv, Repairing, Sinks
  <1>7. \A i \in 2 .. Size : Parent(i) = cur => ~(heap[par].sim > heap[i].sim)
    BY <1>1, <1>3 DEF HeapInv, Repairing, Sinks
  <1> HIDE DEF par
  <1>8. ASSUME NEW i \in 2 .. Size, i # par
        PROVE  ~(heap'[Parent(i)].sim > heap'[i].sim)
    <2>1. CASE i = cur
      BY <1>1, <1>2, <1>5, <2>1 DEF par
    <2>2. CASE i # cur /\ Parent(i) = cur
      BY <1>1, <1>2, <1>5, <1>7, <1>8, <2>2
    <2>3. CASE i # cur /\ Parent(i) = par
      <3>1. heap'[i] = heap[i] /\ heap'[Parent(i)] = heap[cur]
        BY <1>2, <1>8, <2>3
      <3>2. ~(heap[par].sim > heap[i].sim)
        BY <1>6, <2>3
      <3>3. heap[i].sim \in Int /\ heap[par].sim \in Int /\ heap[cur].sim \in Int
        BY <1>1, <1>5
      <3> QED
        BY <1>1, <3>1, <3>2, <3>3
    <2>4. CASE i # cur /\ Parent(i) # cur /\ Parent(i) # par
      BY <1>1, <1>2, <1>5, <1>6, <1>8, <2>4
    <2> QED
      BY <2>1, <2>2, <2>3, <2>4
  <1>9. ASSUME NEW i \in 2 .. Size, Parent(i) = par, par > 1
        PROVE  ~(heap'[Parent(par)].sim > heap'[i].sim)
    <2>1. /\ par \in 2 .. Size /\ par # cur /\ Parent(par) \in 1 .. Size
          /\ Parent(par) # par /\ Parent(par) # cur
      BY <1>1, <1>5, <1>9
    <2>2. ~(heap[Parent(par)].sim > heap[par].sim)
      BY <1>6, <2>1
    <2>3. heap'[Parent(par)] = heap[Parent(par)]
      BY <1>2, <2>1
    <2>4. CASE i = cur
      BY <1>2, <2>2, <2>3, <2>4
    <2>5. CASE i # cur
      <3>1. i # par /\ ~(heap[par].sim > heap[i].sim)
        BY <1>5, <1>6, <1>9, <2>5
      <3>2. heap'[i] = heap[i]
        BY <1>2, <2>5, <3>1
      <3> QED
        BY <1>5, <2>1, <2>2, <2>3, <3>1, <3>2
    <2> QED
      BY <2>4, <2>5
  <1>10. Repairing'
    BY <1>2, <1>3, <1>8, <1>9 DEF Repairing, Sinks
  <1> QED
    BY <1>3, <1>4, <1>10 DEF HeapInv, InFile, HeapOrder, SiftUp

LEMMA HeapUpDone ==
  ASSUME HeapInv, UpDone
  PROVE  HeapInv'
  <1>1. TypeOK' /\ Repairing'
    BY DEF HeapInv, TypeOK, Size, Repairing, UpDone
  <1>2. \A i \in 2 .. Size : ~Sinks(Parent(i), i)
    <2>1. \A i \in 2 .. Size : i = cur => cur > 1
      OBVIOUS
    <2> QED
      BY <2>1 DEF HeapInv, Repairing, UpDone
  <1>3. HeapOrder'
    BY <1>2 DEF HeapOrder, Size, Sinks, UpDone
  <1> QED
    BY <1>1, <1>3 DEF HeapInv, InFile, UpDone

LEMMA SmallestFacts ==
  ASSUME TypeOK, pc = "down"
  PROVE  /\ Smallest \in 1 .. Size
         /\ Smallest # cur =>
              /\ Smallest \in 2 .. Size /\ Parent(Smallest) = cur
              /\ heap[cur].sim > heap[Smallest].sim
         /\ \A i \in 2 .. Size : Parent(i) = cur =>
              ~(heap[Smallest].sim > heap[i].sim)
  <1>1. Size \in Nat /\ cur \in 1 .. Size
    BY HeapFacts DEF TypeOK
  <1>2. \A i \in 1 .. Size : heap[i].sim \in Int
    BY HeapFacts
  <1>3. \A i \in 2 .. Size : Parent(i) = cur <=> i = 2 * cur \/ i = 2 * cur + 1
    BY <1>1 DEF Parent
  <1>4. CASE 2 * cur > Size
    BY <1>1, <1>3, <1>4 DEF Smallest
  <1>5. CASE 2 * cur = Size
    BY <1>1, <1>2, <1>3, <1>5 DEF Smallest, Sinks
  <1>6. CASE 2 * cur + 1 <= Size
    <2>1. 2 * cur \in 2 .. Size /\ 2 * cur + 1 \in 2 .. Size /\ 2 * cur <= Size
          /\ 2 * cur # cur /\ 2 * cur + 1 # cur
      BY <1>1, <1>6
    <2> QED
      BY <1>1, <1>2, <1>3, <1>6, <2>1 DEF Smallest, Sinks
  <1> QED
    BY <1>1, <1>4, <1>5, <1>6

LEMMA HeapSiftedDown ==
  ASSUME HeapInv, SiftDown
  PROVE  HeapInv'
  <1> DEFINE s == Smallest
  <1>1. /\ Size \in Nat /\ cur \in 1 .. Size /\ s \in 2 .. Size
        /\ Parent(s) = cur /\ cur < s /\ heap[cur].sim > heap[s].sim
        /\ \A i \in 2 .. Size : Parent(i) = cur => ~(heap[s].sim > heap[i].sim)
    BY HeapFacts, SmallestFacts DEF HeapInv, TypeOK, SiftDown
  <1>2. /\ heap' \in Seq(Record) /\ Size' = Size
        /\ heap'[cur] = heap[s] /\ heap'[s] = heap[cur]
        /\ \A p \in 1 .. Size : p # cur /\ p # s => heap'[p] = heap[p]
    <2>1. heap' = Swapped(cur, s) /\ s \in 1 .. Size /\ cur \in 1 .. Size
      BY <1>1 DEF SiftDown
    <2> HIDE DEF s
    <2> QED
      BY <2>1, SwapFacts DEF HeapInv, Size
  <1>3. cur' = s /\ pc' = "down" /\ pc = "down"
    BY DEF SiftDown
  <1> HIDE DEF s
  <1>4. TypeOK'
    BY <1>1, <1>2, <1>3 DEF HeapInv, TypeOK, SiftDown
  <1>5. /\ \A i \in 1 .. Size : heap[i].sim \in Int
        /\ \A i \in 2 .. Size : Parent(i) \in 1 .. Size /\ Parent(i) < i
    BY HeapFacts DEF HeapInv
  <1>6. \A i \in 2 .. Size : Parent(i) # cur => ~(heap[Parent(i)].sim > heap[i].sim)
    BY <1>3 DEF HeapInv, Repairing, Sinks
  <1>7. \A i \in 2 .. Size : Parent(i) = cur /\ cur > 1 =>
          ~(heap[Parent(cur)].sim > heap[i].sim)
    BY <1>3 DEF HeapInv, Repairing, Sinks
  <1>8. ASSUME NEW i \in 2 .. Size, Parent(i) # s
        PROVE  ~(heap'[Parent(i)].sim > heap'[i].sim)
    <2>1. CASE i = cur
      <3>1. Parent(cur) # cur /\ Parent(cur) # s /\ cur > 1
        BY <1>1, <1>5, <1>8, <2>1
      <3>2. heap'[Parent(cur)] = heap[Parent(cur)]
        BY <1>2, <1>5, <2>1, <3>1
      <3> QED
        BY <1>1, <1>2, <1>7, <2>1, <3>1, <3>2
    <2>2. CASE i = s
      BY <1>1, <1>2, <1>5, <2>2
    <2>3. CASE i # cur /\ i # s /\ Parent(i) = cur
      BY <1>1, <1>2, <2>3
    <2>4. CASE i # cur /\ i # s /\ Parent(i) # cur
      BY <1>2, <1>5, <1>6, <1>8, <2>4
    <2> QED
      BY <2>1, <2>2, <2>3, <2>4
  <1>9. ASSUME NEW i \in 2 .. Size, Parent(i) = s
        PROVE  ~(heap'[Parent(s)].sim > heap'[i].sim)
    <2>1. i # s /\ i # cur /\ Parent(i) # cur
      BY <1>1, <1>5, <1>9
    <2>2. heap'[i] = heap[i] /\ ~(heap[s].sim > heap[i].sim)
      BY <1>2, <1>6, <1>9, <2>1
    <2> QED
      BY <1>1, <1>2, <2>2
  <1>10. Repairing'
    BY <1>2, <1>3, <1>8, <1>9 DEF Repairing, Sinks
  <1> QED
    BY <1>3, <1>4, <1>10 DEF HeapInv, InFile, HeapOrder, SiftDown

LEMMA HeapDownDone ==
  ASSUME HeapInv, DownDone
  PROVE  HeapInv'
  <1>1. TypeOK' /\ Repairing'
    BY DEF HeapInv, TypeOK, Size, Repairing, DownDone
  <1>2. \A i \in 2 .. Size : ~Sinks(Parent(i), i)
    BY SmallestFacts DEF HeapInv, Repairing, Sinks, DownDone
  <1>3. HeapOrder'
    BY <1>2 DEF HeapOrder, Size, Sinks, DownDone
  <1> QED
    BY <1>1, <1>3 DEF HeapInv, InFile, DownDone

LEMMA HeapSkipped ==
  ASSUME HeapInv, Skip \/ Finish \/ UNCHANGED vars
  PROVE  HeapInv'
  <1>1. heap \in Seq(Record) /\ Size \in Nat /\ Len(file) \in Nat
    BY HeapFacts DEF HeapInv
  <1>2. CASE Skip
    BY <1>1, <1>2 DEF HeapInv, TypeOK, InFile, HeapOrder, Repairing, Size, Sinks,
       Skip, Scanning
  <1>3. CASE Finish
    <2>1. PICK o \in Orders : results' = [p \in 1 .. Size |-> heap[o[p]]]
      BY <1>3 DEF Finish
    <2>2. \A p \in 1 .. Size : o[p] \in 1 .. Size /\ heap[o[p]] \in Record
      BY HeapFacts DEF Orders, HeapInv
    <2>3. results' \in Seq(Record)
      BY <1>1, <2>1, <2>2
    <2> QED
      BY <1>3, <2>3 DEF HeapInv, TypeOK, InFile, HeapOrder, Repairing, Size, Sinks,
         Finish
  <1>4. CASE UNCHANGED vars
    BY <1>4 DEF HeapInv, TypeOK, InFile, HeapOrder, Repairing, Size, Sinks, vars
  <1> QED
    BY <1>2, <1>3, <1>4

LEMMA HeapPreserved ==
  ASSUME HeapInv, [Next]_vars
  PROVE  HeapInv'
  BY HeapPushed, HeapReplaced, HeapSiftedUp, HeapUpDone, HeapSiftedDown,
     HeapDownDone, HeapSkipped DEF Next

-----------------------------------------------------------------------------
(* What the heap keeps and what the search returns                         *)

\* The record the scan looks at has not been seen, ids being distinct.
LEMMA NextIsNew ==
  ASSUME HeapInv, Scanning
  PROVE  /\ file[pos] \notin Seen
         /\ \A f : pos' = pos + 1 /\ UNCHANGED <<file, wanted>> =>
              Seen' = IF file[pos].id \in wanted THEN Seen \cup {file[pos]} ELSE Seen
  <1>1. Len(file) \in Nat /\ pos \in 1 .. Len(file)
    BY HeapFacts DEF HeapInv, TypeOK, Scanning
  <1>2. \A p \in 1 .. pos - 1 : file[p].id # file[pos].id
    BY <1>1 DEF HeapInv, InFile
  <1>3. 1 .. (pos + 1) - 1 = (1 .. pos - 1) \cup {pos}
    BY <1>1
  <1> QED
    BY <1>1, <1>2, <1>3 DEF Seen

LEMMA KeptPushed ==
  ASSUME HeapInv, KeepsBest, Push
  PROVE  KeepsBest'
  <1>1. /\ heap \in Seq(Record) /\ Size \in Nat /\ file[pos] \in Record
        /\ top_k \in Nat
    BY HeapFacts DEF HeapInv, TypeOK, Push, Scanning
  <1>2. /\ Size' = Size + 1 /\ heap'[Size + 1] = file[pos]
        /\ \A i \in 1 .. Size : heap'[i] = heap[i]
    BY <1>1, AppendProperties DEF Push, Size
  <1>3. EntriesOf(heap') = EntriesOf(heap) \cup {file[pos]}
    <2>1. 1 .. Size + 1 = (1 .. Size) \cup {Size + 1}
      BY <1>1
    <2>2. EntriesOf(heap') = {heap'[p] : p \in (1 .. Size) \cup {Size + 1}}
      BY <1>2, <2>1 DEF EntriesOf, Size
    <2> QED
      BY <1>2, <2>2 DEF EntriesOf, Size
  <1>4. file[pos] \notin Seen /\ Seen' = Seen \cup {file[pos]}
    BY NextIsNew DEF Push
  <1>5. Seen \ EntriesOf(heap) = {}
    BY <1>1 DEF KeepsBest, Push
  <1>6. Seen' \ EntriesOf(heap') = {} /\ EntriesOf(heap') \subseteq Seen'
    BY <1>3, <1>4, <1>5 DEF KeepsBest
  <1>7. \A p \in 1 .. Size : heap[p] # file[pos]
    BY <1>4 DEF KeepsBest, EntriesOf, Size
  <1>8. \A p, q \in 1 .. Size' : p # q => heap'[p] # heap'[q]
    BY <1>1, <1>2, <1>7 DEF KeepsBest
  <1> QED
    BY <1>6, <1>8 DEF KeepsBest

LEMMA KeptReplaced ==
  ASSUME HeapInv, KeepsBest, ReplaceRoot
  PROVE  KeepsBest'
  <1>1. /\ heap \in Seq(Record) /\ Size \in Nat /\ file[pos].sim \in Int
        /\ file[pos] \in Record /\ 1 \in 1 .. Size /\ Size = top_k
        /\ \A i \in 1 .. Size : heap[i].sim \in Int
    BY HeapFacts DEF HeapInv, TypeOK, ReplaceRoot, Scanning
  <1>2. /\ Size' = Size /\ heap'[1] = file[pos] /\ top_k' = top_k
        /\ \A i \in 2 .. Size : heap'[i] = heap[i]
    BY <1>1, ExceptSeq DEF ReplaceRoot, Size
  <1>3. 1 .. Size = {1} \cup (2 .. Size)
    BY <1>1
  <1>4. file[pos] \notin Seen /\ Seen' = Seen \cup {file[pos]}
    BY NextIsNew DEF ReplaceRoot
  <1>5. EntriesOf(heap') = {file[pos]} \cup {heap[p] : p \in 2 .. Size}
    <2>1. EntriesOf(heap') = {heap'[p] : p \in {1} \cup (2 .. Size)}
      BY <1>2, <1>3 DEF EntriesOf, Size
    <2> QED
      BY <1>2, <2>1
  <1>6. EntriesOf(heap) = {heap[1]} \cup {heap[p] : p \in 2 .. Size}
    <2>1. EntriesOf(heap) = {heap[p] : p \in {1} \cup (2 .. Size)}
      BY <1>3 DEF EntriesOf, Size
    <2> QED
      BY <2>1
  <1>7. \A i \in 1 .. Size : heap[1].sim <= heap[i].sim
    BY RootOfOrder DEF HeapInv, HeapOrder, ReplaceRoot, Scanning
  <1>8. heap[1].sim < file[pos].sim
    BY <1>1 DEF ReplaceRoot
  <1>9. EntriesOf(heap') \subseteq Seen'
    BY <1>4, <1>5, <1>6 DEF KeepsBest
  <1>10. \A p, q \in 1 .. Size : p # q => heap'[p] # heap'[q]
    <2>1. \A p \in 1 .. Size : heap[p] # file[pos]
      BY <1>4 DEF KeepsBest, EntriesOf, Size
    <2>2. \A p \in 1 .. Size : p = 1 \/ p \in 2 .. Size
      BY <1>3
    <2> QED
      BY <1>2, <2>1, <2>2 DEF KeepsBest
  <1>11. ASSUME NEW r \in Seen' \ EntriesOf(heap'), NEW i \in 1 .. Size
         PROVE  r.sim <= heap'[i].sim
    <2>1. r = heap[1] \/ r \in Seen \ EntriesOf(heap)
      BY <1>4, <1>5, <1>6, <1>11
    <2>2. r.sim <= heap[1].sim /\ r.sim <= heap[i].sim /\ r.sim \in Int
      <3>1. CASE r = heap[1]
        BY <1>1, <1>7, <3>1
      <3>2. CASE r \in Seen \ EntriesOf(heap)
        <4>1. r.sim \in Int
          BY <3>2, HeapFacts DEF Seen, HeapInv, TypeOK
        <4> QED
          BY <1>1, <3>2, <4>1 DEF KeepsBest
      <3> QED
        BY <2>1, <3>1, <3>2
    <2>3. CASE i = 1
      BY <1>1, <1>2, <1>8, <2>2, <2>3
    <2>4. CASE i # 1
      BY <1>2, <1>3, <2>2, <2>4
    <2> QED
      BY <2>3, <2>4
  <1> QED
    BY <1>1, <1>2, <1>9, <1>10, <1>11 DEF KeepsBest

LEMMA KeptSkipped ==
  ASSUME HeapInv, KeepsBest, Skip
  PROVE  KeepsBest'
  <1>1. /\ UNCHANGED <<heap, top_k>> /\ Size' = Size /\ EntriesOf(heap') = EntriesOf(heap)
        /\ Seen' = IF file[pos].id \in wanted THEN Seen \cup {file[pos]} ELSE Seen
    BY NextIsNew DEF Skip, Size, EntriesOf
  <1>2. CASE file[pos].id \notin wanted
    BY <1>1, <1>2 DEF KeepsBest
  <1>3. CASE file[pos].id \in wanted
    <2>1. Size = top_k /\ file[pos].sim <= heap[1].sim
      BY <1>3 DEF Skip
    <2>2. \A i \in 1 .. Size : heap[1].sim <= heap[i].sim
      BY RootOfOrder DEF HeapInv, HeapOrder, Skip, Scanning
    <2>3. /\ file[pos].sim \in Int /\ 1 \in 1 .. Size
          /\ \A i \in 1 .. Size : heap[i].sim \in Int
      BY <2>1, HeapFacts DEF HeapInv, TypeOK, Skip, Scanning
    <2>4. \A i \in 1 .. Size : file[pos].sim <= heap[i].sim
      BY <2>1, <2>2, <2>3
    <2> QED
      BY <1>1, <1>3, <2>1, <2>4 DEF KeepsBest
  <1> QED
    BY <1>2, <1>3

LEMMA BestPreserved ==
  ASSUME HeapInv, KeepsBest, [Next]_vars
  PROVE  KeepsBest'
  <1>1. CASE SiftUp
    <2>1. Parent(cur) \in 1 .. Size /\ cur \in 1 .. Size /\ Parent(cur) # cur
      BY <1>1, HeapFacts DEF HeapInv, TypeOK, SiftUp
    <2> QED
      BY <1>1, <2>1, SwapKeepsEntries DEF HeapInv, SiftUp
  <1>2. CASE SiftDown
    <2>1. Smallest \in 1 .. Size /\ cur \in 1 .. Size /\ Smallest # cur
      BY <1>2, SmallestFacts DEF HeapInv, TypeOK, SiftDown
    <2> QED
      BY <1>2, <2>1, SwapKeepsEntries DEF HeapInv, SiftDown
  <1>3. CASE UpDone \/ DownDone \/ Finish \/ UNCHANGED vars
    BY <1>3 DEF UpDone, DownDone, Finish, vars, KeepsBest, Seen, EntriesOf, Size
  <1> QED
    BY <1>1, <1>2, <1>3, KeptPushed, KeptReplaced, KeptSkipped DEF Next

LEMMA FinishedBest ==
  ASSUME HeapInv, KeepsBest, Finish
  PROVE  ResultsAreBest'
  <1>1. PICK o \in Orders : results' = [p \in 1 .. Size |-> heap[o[p]]]
    BY DEF Finish
  <1>o. /\ \A p, q \in 1 .. Size : p # q => o[p] # o[q]
        /\ \A i \in 1 .. Size : \E p \in 1 .. Size : o[p] = i
    BY <1>1 DEF Orders
  <1>2. /\ Size \in Nat /\ Len(results') = Size
        /\ \A p \in 1 .. Size : o[p] \in 1 .. Size /\ results'[p] = heap[o[p]]
    <2>1. Size \in Nat
      BY HeapFacts DEF HeapInv
    <2> QED
      BY <1>1, <2>1 DEF Orders
  <1>3. EntriesOf(results') = EntriesOf(heap)
    <2>1. \A p \in 1 .. Size : \E q \in 1 .. Size : results'[p] = heap[q]
      BY <1>2
    <2>2. \A i \in 1 .. Size : \E p \in 1 .. Size : heap[i] = results'[p]
      <3> TAKE i \in 1 .. Size
      <3>1. PICK p \in 1 .. Size : o[p] = i
        BY <1>o
      <3>2. results'[p] = heap[o[p]]
        BY <1>2
      <3>3. results'[p] = heap[i]
        BY <3>1, <3>2
      <3> QED
        BY <3>3
    <2>3. Len(results') = Len(heap)
      BY <1>2 DEF Size
    <2> QED
      BY <1>2, <2>1, <2>2, <2>3, SameEntries
  <1>4. \A p, q \in 1 .. Len(results') : p # q => results'[p] # results'[q]
    <2>1. \A i, j \in 1 .. Size : i # j => heap[i] # heap[j]
      BY DEF KeepsBest
    <2> SUFFICES ASSUME NEW p \in 1 .. Size, NEW q \in 1 .. Size, p # q
                 PROVE  results'[p] # results'[q]
      BY <1>2
    <2>2. /\ o[p] # o[q] /\ o[p] \in 1 .. Size /\ o[q] \in 1 .. Size
          /\ results'[p] = heap[o[p]] /\ results'[q] = heap[o[q]]
      BY <1>o, <1>2
    <2> QED
      BY <2>1, <2>2
  <1>5. Seen = Wanted /\ Wanted' = Wanted
    <2>1. pos = Len(file) + 1 /\ Len(file) \in Nat
      BY HeapFacts DEF HeapInv, TypeOK, Finish
    <2>2. 1 .. pos - 1 = 1 .. Len(file)
      BY <2>1
    <2> QED
      BY <2>2 DEF Seen, Wanted, EntriesOf, Finish
  <1>6. Size <= top_k /\ top_k' = top_k
    BY DEF HeapInv, TypeOK, Finish
  <1>7. \A r \in Wanted \ EntriesOf(results') :
          /\ Len(results') = top_k
          /\ \A p \in 1 .. Len(results') : r.sim <= results'[p].sim
    BY <1>2, <1>3, <1>5 DEF KeepsBest
  <1>8. Sorted(results')
    BY DEF Finish
  <1>9. EntriesOf(results') \subseteq Wanted
    BY <1>3, <1>5 DEF KeepsBest
  <1> QED
    BY <1>2, <1>4, <1>5, <1>6, <1>7, <1>8, <1>9 DEF ResultsAreBest

LEMMA InitBest == Init => SearchInv
  <1> SUFFICES ASSUME Init PROVE SearchInv
    OBVIOUS
  <1>1. /\ file \in Seq(Record) /\ Len(file) \in Nat /\ top_k \in Nat \ {0}
        /\ InFile /\ <<>> \in Seq(Record) /\ Len(<<>>) = 0
    BY TopKAssumption, EmptySeq DEF Init, InFile
  <1>2. HeapInv
    BY <1>1 DEF Init, HeapInv, TypeOK, HeapOrder, Repairing, Size
  <1>3. EntriesOf(heap) = {} /\ Seen = {}
    BY <1>1 DEF Init, EntriesOf, Seen
  <1>4. KeepsBest
    BY <1>1, <1>3 DEF Init, KeepsBest, Size
  <1> QED
    BY <1>2, <1>4 DEF Init, SearchInv, ResultsAreBest

LEMMA SearchInvariant == Spec => []SearchInv
  <1>1. ASSUME SearchInv, [Next]_vars
        PROVE  SearchInv'
    <2>1. HeapInv' /\ KeepsBest'
      BY <1>1, HeapPreserved, BestPreserved DEF SearchInv
    <2>2. CASE Finish
      BY <1>1, <2>1, <2>2, FinishedBest DEF SearchInv
    <2>3. CASE UNCHANGED vars
      BY <1>1, <2>1, <2>3 DEF SearchInv, ResultsAreBest, Wanted, EntriesOf, Sorted,
         vars
    <2>4. CASE Next /\ ~Finish
      <3>1. pc' # "done"
        BY <2>4 DEF Next, Skip, Push, ReplaceRoot, SiftUp, UpDone, SiftDown, DownDone,
           Scanning
      <3> QED
        BY <2>1, <3>1 DEF SearchInv, ResultsAreBest
    <2> QED
      BY <1>1, <2>2, <2>3, <2>4
  <1> QED
    BY <1>1, InitBest, PTL DEF Spec

\* Whatever the file, the filter and the number of results, the root of the heap
\* is a least similar entry whenever a record is compared with it.
THEOREM RootStaysLeast == Spec => []RootIsLeast
  <1>1. SearchInv => RootIsLeast
    BY RootOfOrder DEF SearchInv, HeapInv, HeapOrder, RootIsLeast
  <1> QED
    BY <1>1, SearchInvariant, PTL

\* A record the heap has given up is never missed: at every step of the scan it
\* is no more similar than any the heap holds, and the heap is full.
THEOREM BestAreKept == Spec => []KeepsBest
  BY SearchInvariant, PTL DEF SearchInv

\* The search returns the top_k most similar of the wanted records, in order,
\* each once, and all of them when there are no more than top_k.
THEOREM SearchIsBest == Spec => []ResultsAreBest
  BY SearchInvariant, PTL DEF SearchInv
=============================================================================
