-------------------------------- MODULE TopK --------------------------------
(***************************************************************************)
(* A nearest-neighbour search: get_top_k and get_top_k_with_filter scan    *)
(* the vector file once and keep the top_k most similar records in a       *)
(* binary min-heap (minheap.c), whose root is the one to give up next.     *)
(*                                                                         *)
(* A record is an id and the similarity of its vector to the query; the    *)
(* arithmetic of the dot product is abstracted.  The file is what the      *)
(* header counts of it.  Heap indices count from 1, so that the parent of  *)
(* i is i \div 2.                                                          *)
(***************************************************************************)
EXTENDS Integers, Sequences

CONSTANTS
  Files,    \* the files searched: sequences of records with distinct ids
  IdSets,   \* the ids a filter lets through; a superset of all: no filter
  TopKs     \* the numbers of results asked for

Record == [id : Nat, sim : Int]

ASSUME TopKAssumption ==
  /\ \A f \in Files :
       /\ f \in Seq(Record)
       /\ \A p, q \in 1 .. Len(f) : p # q => f[p].id # f[q].id
  /\ TopKs \subseteq Nat \ {0}

VARIABLES
  file,     \* the records of the vector file
  wanted,   \* filtered_ids
  top_k,    \* results asked for, the capacity of the heap
  heap,     \* data and indices of the heap, as one sequence of records
  pos,      \* the record the scan looks at next
  cur,      \* the heap index a repair of the heap has come to
  pc,       \* "scan", "up", "down" (repairing), "done"
  results   \* the sorted results

vars == <<file, wanted, top_k, heap, pos, cur, pc, results>>

Size == Len(heap)

Init ==
  /\ file \in Files /\ wanted \in IdSets /\ top_k \in TopKs
  /\ heap = <<>> /\ pos = 1 /\ cur = 0 /\ pc = "scan" /\ results = <<>>

Scanning == pc = "scan" /\ pos <= Len(file)

Skip ==
  /\ Scanning
  /\ \/ file[pos].id \notin wanted
     \/ Size = top_k /\ file[pos].sim <= heap[1].sim
  /\ pos' = pos + 1
  /\ UNCHANGED <<file, wanted, top_k, heap, cur, pc, results>>

\* A heap with room takes any record.  (On an empty heap the code compares with
\* an uninitialized root first, but the other half of its condition holds.)
Push ==
  /\ Scanning /\ file[pos].id \in wanted /\ Size < top_k
  /\ heap' = Append(heap, file[pos])
  /\ cur' = Size + 1 /\ pc' = "up" /\ pos' = pos + 1
  /\ UNCHANGED <<file, wanted, top_k, results>>

\* Mutant: the last entry is replaced in place of the root.
ReplaceLast ==
  /\ Scanning /\ file[pos].id \in wanted /\ Size = top_k
  /\ file[pos].sim > heap[1].sim
  /\ heap' = [heap EXCEPT ![Size] = file[pos]]
  /\ cur' = 1 /\ pc' = "down" /\ pos' = pos + 1
  /\ UNCHANGED <<file, wanted, top_k, results>>

\* A full heap gives up its root for a more similar record.
ReplaceRoot ==
  /\ Scanning /\ file[pos].id \in wanted /\ Size = top_k
  /\ file[pos].sim > heap[1].sim
  /\ heap' = [heap EXCEPT ![1] = file[pos]]
  /\ cur' = 1 /\ pc' = "down" /\ pos' = pos + 1
  /\ UNCHANGED <<file, wanted, top_k, results>>

Parent(i) == i \div 2
Swapped(i, j) == [heap EXCEPT ![i] = heap[j], ![j] = heap[i]]
Sinks(i, j)   == heap[i].sim > heap[j].sim

SiftUp ==
  /\ pc = "up" /\ cur > 1 /\ Sinks(Parent(cur), cur)
  /\ heap' = Swapped(Parent(cur), cur) /\ cur' = Parent(cur)
  /\ UNCHANGED <<file, wanted, top_k, pos, pc, results>>

UpDone ==
  /\ pc = "up" /\ (cur > 1 => ~Sinks(Parent(cur), cur))
  /\ pc' = "scan"
  /\ UNCHANGED <<file, wanted, top_k, heap, pos, cur, results>>

\* Mutant: the right child is not compared with the left.
SmallestOfLeft ==
  IF 2 * cur <= Size /\ Sinks(cur, 2 * cur) THEN 2 * cur
  ELSE IF 2 * cur + 1 <= Size /\ Sinks(cur, 2 * cur + 1) THEN 2 * cur + 1
  ELSE cur

\* The least similar of an entry and its children
Smallest ==
  LET l == IF 2 * cur <= Size /\ Sinks(cur, 2 * cur) THEN 2 * cur ELSE cur
  IN IF 2 * cur + 1 <= Size /\ Sinks(l, 2 * cur + 1) THEN 2 * cur + 1 ELSE l

SiftDown ==
  /\ pc = "down" /\ Smallest # cur
  /\ heap' = Swapped(cur, Smallest) /\ cur' = Smallest
  /\ UNCHANGED <<file, wanted, top_k, pos, pc, results>>

DownDone ==
  /\ pc = "down" /\ Smallest = cur
  /\ pc' = "scan"
  /\ UNCHANGED <<file, wanted, top_k, heap, pos, cur, results>>

Sorted(s) == \A p, q \in 1 .. Len(s) : p < q => s[p].sim >= s[q].sim

EntriesOf(s) == {s[p] : p \in 1 .. Len(s)}

\* The orders in which the entries of the heap may be listed
Orders ==
  {o \in [1 .. Size -> 1 .. Size] :
     /\ \A p, q \in 1 .. Size : p # q => o[p] # o[q]
     /\ \A i \in 1 .. Size : \E p \in 1 .. Size : o[p] = i}

\* Mutant: the results are listed as the heap has them.
FinishUnsorted ==
  /\ pc = "scan" /\ pos > Len(file)
  /\ results' = heap /\ pc' = "done"
  /\ UNCHANGED <<file, wanted, top_k, heap, pos, cur>>

\* qsort by descending similarity, which leaves the order of equals open.
Finish ==
  /\ pc = "scan" /\ pos > Len(file)
  /\ \E o \in Orders : results' = [p \in 1 .. Size |-> heap[o[p]]]
  /\ Sorted(results') /\ pc' = "done"
  /\ UNCHANGED <<file, wanted, top_k, heap, pos, cur>>

Next == \/ Skip \/ Push \/ ReplaceRoot \/ SiftUp \/ UpDone
        \/ SiftDown \/ DownDone \/ Finish

Spec == Init /\ [][Next]_vars

-----------------------------------------------------------------------------
(* Properties                                                              *)

TypeOK ==
  /\ file \in Seq(Record) /\ top_k \in Nat \ {0}
  /\ heap \in Seq(Record) /\ Size <= top_k
  /\ pos \in 1 .. Len(file) + 1
  /\ pc \in {"scan", "up", "down", "done"}
  /\ cur \in 0 .. Size /\ (pc \in {"up", "down"} => cur >= 1)
  /\ results \in Seq(Record)

\* Between two records no entry is less similar than its parent.
HeapOrder ==
  pc = "scan" => \A i \in 2 .. Size : ~Sinks(Parent(i), i)

\* The root, the entry given up next, is a least similar one.
RootIsLeast ==
  pc = "scan" => \A i \in 1 .. Size : heap[1].sim <= heap[i].sim

\* What the scan has looked at and a filter lets through
Seen == {file[p] : p \in {q \in 1 .. pos - 1 : file[q].id \in wanted}}

\* The heap holds records seen, each once; one it does not hold was given up
\* when the heap was full, and is no more similar than any it holds.
KeepsBest ==
  /\ EntriesOf(heap) \subseteq Seen
  /\ \A p, q \in 1 .. Size : p # q => heap[p] # heap[q]
  /\ \A r \in Seen \ EntriesOf(heap) :
       Size = top_k /\ \A i \in 1 .. Size : r.sim <= heap[i].sim

Wanted == {r \in EntriesOf(file) : r.id \in wanted}

\* The search returns top_k of the wanted records, or all when there are fewer,
\* the most similar first, and none left out is more similar than one returned.
ResultsAreBest ==
  pc = "done" =>
    /\ Sorted(results) /\ EntriesOf(results) \subseteq Wanted
    /\ \A p, q \in 1 .. Len(results) : p # q => results[p] # results[q]
    /\ Len(results) <= top_k
    /\ \A r \in Wanted \ EntriesOf(results) :
         /\ Len(results) = top_k
         /\ \A p \in 1 .. Len(results) : r.sim <= results[p].sim
=============================================================================
