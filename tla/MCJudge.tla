------------------------------- MODULE MCJudge -------------------------------
(* Small instances of JudgeServer for TLC.                                  *)
EXTENDS JudgeServer, TLC

OneCompiler == [s \in Solutions |-> 7]
EveryoneHasIt == [k \in Conns |-> <<7>>]
Symmetry == Permutations(Conns) \cup Permutations(Solutions) \cup Permutations(Blocks)

Faults(lost, close, stray, db_failures, stops) ==
  [kind \in FaultKinds |-> CASE kind = "lost"  -> lost
                             [] kind = "close" -> close
                             [] kind = "stray" -> stray
                             [] kind = "db"    -> db_failures
                             [] kind = "stop"  -> stops]
NoFaults == Faults(0, 0, 0, 0, 0)
OneLost == Faults(1, 0, 0, 0, 0)
TwoLost == Faults(2, 0, 0, 0, 0)
OneClose == Faults(0, 1, 0, 0, 0)
LostOrStray == Faults(2, 0, 1, 0, 0)
LostStrayDb == Faults(1, 0, 1, 1, 0)
LostCloseStop == Faults(2, 1, 0, 0, 1)
==============================================================================
