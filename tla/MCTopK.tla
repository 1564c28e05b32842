------------------------------- MODULE MCTopK -------------------------------
(* Every order of similarities, ties included, over files of up to MaxLen    *)
(* records, deep enough for a repair to climb or sink two levels.            *)
EXTENDS TopK

CONSTANTS MaxLen, MaxSim

MCFiles ==
  {[p \in 1 .. n |-> [id |-> p, sim |-> s[p]]] :
     n \in {0, 1, MaxLen}, s \in [1 .. MaxLen -> 1 .. MaxSim]}

MCIdSets == {1 .. MaxLen, {p \in 1 .. MaxLen : p % 2 = 0}}
=============================================================================
