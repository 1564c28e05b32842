------------------------------ MODULE MCVecFile ------------------------------
(* Small numbers for the sizes of VecFile. Exact is 4 where the code has 2^24. *)
EXTENDS VecFile

MCLengths == {2, 3}
OneLength == {2}
MCOldIds == {1, 2, 5}
=============================================================================
