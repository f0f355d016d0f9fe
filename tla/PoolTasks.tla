----------------------------- MODULE PoolTasks -------------------------------
(* The threads of a pool and the tasks it is given.                         *)
EXTENDS Integers, FiniteSets

CONSTANTS
  Workers,            (* the threads; there are threads_num of them         *)
  Tasks,              (* what the owner of the pool hands in, each once     *)
  NoTask

ASSUME WorkersAssumption == IsFiniteSet(Workers)
ASSUME TasksAssumption == NoTask \notin Tasks
==============================================================================
