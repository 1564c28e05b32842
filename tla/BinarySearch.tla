---------------------------- MODULE BinarySearch ----------------------------
(***************************************************************************)
(* The search by halves that TinyVec writes out twice:                     *)
(* find_vector_position, over the ids the vector file has at fixed         *)
(* offsets, and binary_search_int, over the sorted ids of a deletion or of *)
(* a filter.  Both know the number of entries beforehand, from the file's  *)
(* header or from the caller.  Indices count from 0, as in the code.       *)
(***************************************************************************)
EXTENDS Integers, Sequences

CONSTANTS
  Arrays,   \* the arrays searched, sequences of integers
  Targets   \* the ids searched for

\* An id may be there twice: callers pass lists with repetitions.
Ascending(a) == \A p, q \in 1 .. Len(a) : p < q => a[p] <= a[q]

ASSUME SearchAssumption ==
  /\ \A a \in Arrays : a \in Seq(Int) /\ Ascending(a)
  /\ Targets \subseteq Int

VARIABLES
  array,    \* the entries
  target,   \* the id searched for
  low,      \* first index the target may have
  high,     \* last index it may have
  answer,   \* the index returned, -1 for "not found"
  pc        \* "search" or "done"

vars == <<array, target, low, high, answer, pc>>

At(i) == array[i + 1]

\* Mutant: the last index is taken for the number of entries.
InitPastEnd ==
  /\ array \in Arrays /\ target \in Targets
  /\ low = 0 /\ high = Len(array)
  /\ answer = -1 /\ pc = "search"

Init ==
  /\ array \in Arrays /\ target \in Targets
  /\ low = 0 /\ high = Len(array) - 1
  /\ answer = -1 /\ pc = "search"

\* Written so that the sum cannot overflow
Mid == low + (high - low) \div 2

Looking == pc = "search" /\ low <= high

Return(i) ==
  /\ answer' = i /\ pc' = "done"
  /\ UNCHANGED <<array, target, low, high>>

\* Mutant: an entry not below the target is taken for it.
HitNotBelow == Looking /\ At(Mid) >= target /\ Return(Mid)

Hit == Looking /\ At(Mid) = target /\ Return(Mid)

\* Mutant: the middle is looked at again.
GoRightFromMid ==
  /\ Looking /\ At(Mid) < target
  /\ low' = Mid
  /\ UNCHANGED <<array, target, high, answer, pc>>

GoRight ==
  /\ Looking /\ At(Mid) < target
  /\ low' = Mid + 1
  /\ UNCHANGED <<array, target, high, answer, pc>>

GoLeft ==
  /\ Looking /\ At(Mid) > target
  /\ high' = Mid - 1
  /\ UNCHANGED <<array, target, low, answer, pc>>

GiveUp == pc = "search" /\ low > high /\ Return(-1)

Next == Hit \/ GoRight \/ GoLeft \/ GiveUp

Spec == Init /\ [][Next]_vars

-----------------------------------------------------------------------------
(* Properties                                                              *)

TypeOK ==
  /\ array \in Seq(Int) /\ Ascending(array) /\ target \in Int
  /\ low \in Nat /\ high \in -1 .. Len(array) - 1
  /\ answer \in -1 .. Len(array) - 1
  /\ pc \in {"search", "done"}

Holders == {i \in 0 .. Len(array) - 1 : At(i) = target}

\* The answer is the index of an entry equal to the target, and "not found" is
\* answered only when there is none: an id left out would keep a deleted vector
\* or roll a whole update back.
AnswerIsRight ==
  pc = "done" => IF answer = -1 THEN Holders = {} ELSE answer \in Holders

\* No entry outside the array is ever looked at.
ReadsInside == Looking => Mid \in 0 .. Len(array) - 1

\* What is left to search at least halves with every entry looked at, and so
\* the search ends.
Halves ==
  [][pc' = "search" => 2 * (high' - low' + 1) <= high - low + 1]_vars
=============================================================================
