------------------------------- MODULE MCQueue -------------------------------
(* A small instance of Queue for TLC.                                       *)
EXTENDS Queue, TLC

Symmetry == Permutations(Cells) \cup Permutations(Values)
==============================================================================
