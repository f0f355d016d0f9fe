-------------------------------- MODULE MCDb ---------------------------------
(* A small instance of SolutionsDb for TLC.                                 *)
EXTENDS SolutionsDb, TLC

TwoFailures ==
  [kind \in FaultKinds |-> IF kind = "statement" THEN 2 ELSE 1]
==============================================================================
