--------------------------- MODULE MCBinarySearch ---------------------------
(* All ascending arrays over a few integers, with repetitions and gaps,      *)
(* searched for every integer from below the smallest to above the largest.  *)
EXTENDS BinarySearch, FiniteSets

CONSTANT MaxLen

MCTargets == 0 .. 6

MCArrays ==
  UNION {{a \in [1 .. n -> 1 .. 5] : \A p \in 1 .. n - 1 : a[p] <= a[p + 1]} :
           n \in 0 .. MaxLen}
=============================================================================
