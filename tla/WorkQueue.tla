------------------------------ MODULE WorkQueue ------------------------------
(* What thread_pool.h promises: tasks start in the order they were handed   *)
(* in, each of them once, as soon as one of the Capacity threads is free,   *)
(* until the pool is closed.                                                *)
EXTENDS Naturals, Sequences, FiniteSets

CONSTANTS Tasks, Capacity

VARIABLES
  accepted,           (* the tasks handed in so far, in that order          *)
  started,            (* how many of them have been started                 *)
  running,            (* the tasks that are being executed                  *)
  open

vars == <<accepted, started, running, open>>

Init == accepted = <<>> /\ started = 0 /\ running = {} /\ open = TRUE

Accept(x) ==
  /\ open
  /\ accepted' = Append(accepted, x)
  /\ UNCHANGED <<started, running, open>>

Start ==
  /\ open
  /\ started < Len(accepted)
  /\ Cardinality(running) < Capacity
  /\ started' = started + 1
  /\ running' = running \cup {accepted[started + 1]}
  /\ UNCHANGED <<accepted, open>>

End(x) ==
  /\ x \in running
  /\ running' = running \ {x}
  /\ UNCHANGED <<accepted, started, open>>

Close ==
  /\ open' = FALSE
  /\ UNCHANGED <<accepted, started, running>>

Next == Start \/ Close \/ \E x \in Tasks : Accept(x) \/ End(x)

Spec == Init /\ [][Next]_vars
FairSpec == Spec /\ WF_vars(Start)
==============================================================================
