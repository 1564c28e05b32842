------------------------- MODULE BinarySearchProofs -------------------------
(***************************************************************************)
(* The search by halves is right for every ascending array and target.     *)
(***************************************************************************)
EXTENDS BinarySearch, SequenceTheorems, TLAPS

\* What has been cut off does not hold the target.
SearchInv ==
  /\ TypeOK
  /\ low <= Len(array) /\ low <= high + 1
  /\ pc = "search" => /\ answer = -1
                      /\ \A i \in Holders : low <= i /\ i <= high
  /\ AnswerIsRight

LEMMA MidInside ==
  ASSUME SearchInv, Looking
  PROVE  /\ Mid \in Int /\ low <= Mid /\ Mid <= high
         /\ 2 * (Mid - low) <= high - low /\ high - low <= 2 * (Mid - low) + 1
         /\ Mid \in 0 .. Len(array) - 1 /\ At(Mid) \in Int
  <1>1. low \in Nat /\ high \in Int /\ low <= high /\ Len(array) \in Nat
        /\ high <= Len(array) - 1 /\ array \in Seq(Int)
    BY DEF SearchInv, TypeOK, Looking
  <1>2. /\ Mid \in Int /\ low <= Mid /\ Mid <= high
        /\ 2 * (Mid - low) <= high - low /\ high - low <= 2 * (Mid - low) + 1
    BY <1>1 DEF Mid
  <1>3. Mid + 1 \in 1 .. Len(array)
    BY <1>1, <1>2
  <1> QED
    BY <1>1, <1>2, <1>3, ElementOfSeq DEF At

LEMMA InitSearch == Init => SearchInv
  <1> SUFFICES ASSUME Init PROVE SearchInv
    OBVIOUS
  <1>1. array \in Seq(Int) /\ Ascending(array) /\ target \in Int
        /\ Len(array) \in Nat
    BY SearchAssumption DEF Init
  <1> QED
    BY <1>1 DEF Init, SearchInv, TypeOK, AnswerIsRight, Holders

LEMMA NextSearch ==
  ASSUME SearchInv, [Next]_vars
  PROVE  SearchInv'
  <1>0. /\ array \in Seq(Int) /\ Ascending(array) /\ target \in Int
        /\ Len(array) \in Nat /\ low \in Nat /\ high \in -1 .. Len(array) - 1
    BY DEF SearchInv, TypeOK
  <1>1. CASE Hit
    <2>1. Mid \in 0 .. Len(array) - 1 /\ At(Mid) = target
      BY <1>1, MidInside DEF Hit
    <2>2. /\ answer' = Mid /\ pc' = "done" /\ Holders' = Holders
          /\ UNCHANGED <<array, target, low, high>>
      BY <1>1 DEF Hit, Return, Holders, At
    <2>3. Mid \in Holders /\ Mid # -1
      BY <2>1 DEF Holders
    <2>4. AnswerIsRight'
      BY <2>2, <2>3 DEF AnswerIsRight
    <2> QED
      BY <1>0, <2>1, <2>2, <2>4 DEF SearchInv, TypeOK
  <1>2. CASE GoRight
    <2>1. /\ low' = Mid + 1 /\ pc' = "search" /\ Holders' = Holders
          /\ UNCHANGED <<array, target, high, answer, pc>>
      BY <1>2 DEF GoRight, Looking, Holders, At
    <2>2. /\ Mid \in Int /\ low <= Mid /\ Mid <= high
          /\ Mid \in 0 .. Len(array) - 1 /\ At(Mid) < target /\ At(Mid) \in Int
      BY <1>2, MidInside DEF GoRight
    <2>3. ASSUME NEW i \in Holders PROVE low' <= i /\ i <= high'
      <3>1. i \in 0 .. Len(array) - 1 /\ At(i) = target /\ low <= i /\ i <= high
        BY <1>2 DEF Holders, SearchInv, GoRight, Looking
      <3>2. ~ (i <= Mid)
        <4> SUFFICES ASSUME i <= Mid PROVE FALSE
          OBVIOUS
        <4>1. i # Mid
          BY <1>0, <2>2, <3>1
        <4>2. i + 1 < Mid + 1 /\ i + 1 \in 1 .. Len(array)
              /\ Mid + 1 \in 1 .. Len(array)
          BY <1>0, <2>2, <3>1, <4>1
        <4>3. At(i) <= At(Mid)
          BY <1>0, <4>2 DEF Ascending, At
        <4> QED
          BY <1>0, <2>2, <3>1, <4>3
      <3> QED
        BY <2>1, <2>2, <3>1, <3>2
    <2> QED
      BY <1>0, <1>2, <2>1, <2>2, <2>3
         DEF SearchInv, TypeOK, AnswerIsRight, GoRight, Looking
  <1>3. CASE GoLeft
    <2>1. /\ high' = Mid - 1 /\ pc' = "search" /\ Holders' = Holders
          /\ UNCHANGED <<array, target, low, answer, pc>>
      BY <1>3 DEF GoLeft, Looking, Holders, At
    <2>2. /\ Mid \in Int /\ low <= Mid /\ Mid <= high
          /\ Mid \in 0 .. Len(array) - 1 /\ At(Mid) > target /\ At(Mid) \in Int
      BY <1>3, MidInside DEF GoLeft
    <2>3. ASSUME NEW i \in Holders PROVE low' <= i /\ i <= high'
      <3>1. i \in 0 .. Len(array) - 1 /\ At(i) = target /\ low <= i /\ i <= high
        BY <1>3 DEF Holders, SearchInv, GoLeft, Looking
      <3>2. ~ (Mid <= i)
        <4> SUFFICES ASSUME Mid <= i PROVE FALSE
          OBVIOUS
        <4>1. i # Mid
          BY <1>0, <2>2, <3>1
        <4>2. Mid + 1 < i + 1 /\ i + 1 \in 1 .. Len(array)
              /\ Mid + 1 \in 1 .. Len(array)
          BY <1>0, <2>2, <3>1, <4>1
        <4>3. At(Mid) <= At(i)
          BY <1>0, <4>2 DEF Ascending, At
        <4> QED
          BY <1>0, <2>2, <3>1, <4>3
      <3> QED
        BY <2>1, <2>2, <3>1, <3>2
    <2> QED
      BY <1>0, <1>3, <2>1, <2>2, <2>3
         DEF SearchInv, TypeOK, AnswerIsRight, GoLeft, Looking
  <1>4. CASE GiveUp
    <2>1. /\ answer' = -1 /\ pc' = "done" /\ Holders' = Holders
          /\ UNCHANGED <<array, target, low, high>>
      BY <1>4 DEF GiveUp, Return, Holders, At
    <2>2. \A i \in Holders : low <= i /\ i <= high /\ i \in Int
      BY <1>4 DEF SearchInv, GiveUp, Holders
    <2>3. Holders = {}
      BY <1>0, <1>4, <2>2 DEF GiveUp
    <2> QED
      BY <1>0, <2>1, <2>3 DEF SearchInv, TypeOK, AnswerIsRight
  <1>5. CASE UNCHANGED vars
    BY <1>5 DEF vars, SearchInv, TypeOK, AnswerIsRight, Holders, At
  <1> QED
    BY <1>1, <1>2, <1>3, <1>4, <1>5 DEF Next

LEMMA SearchInvariant == Spec => []SearchInv
  BY InitSearch, NextSearch, PTL DEF Spec

\* For every ascending array, repetitions included, and every target the index
\* answered holds the target, and "not found" means that no entry does: the
\* position an update overwrites is that of the record it names.
THEOREM SearchIsRight == Spec => []AnswerIsRight
  BY SearchInvariant, PTL DEF SearchInv

\* The search looks at entries of the array only, whatever its length.
THEOREM SearchReadsInside == Spec => []ReadsInside
  <1>1. SearchInv => ReadsInside
    BY MidInside DEF ReadsInside
  <1> QED
    BY <1>1, SearchInvariant, PTL

\* Every entry looked at leaves at most half of the interval to search.
THEOREM SearchHalves == Spec => Halves
  <1>1. ASSUME SearchInv, [Next]_vars
        PROVE  [pc' = "search" => 2 * (high' - low' + 1) <= high - low + 1]_vars
    <2>0. low \in Int /\ high \in Int /\ Len(array) \in Nat
      BY <1>1 DEF SearchInv, TypeOK
    <2>1. CASE Hit \/ GiveUp
      BY <2>1 DEF Hit, GiveUp, Return
    <2>2. CASE GoRight
      BY <1>1, <2>0, <2>2, MidInside DEF GoRight
    <2>3. CASE GoLeft
      BY <1>1, <2>0, <2>3, MidInside DEF GoLeft
    <2> QED
      BY <1>1, <2>1, <2>2, <2>3 DEF Next
  <1> QED
    BY <1>1, SearchInvariant, PTL DEF Spec, Halves
=============================================================================
