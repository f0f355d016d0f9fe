-------------------------------- MODULE Fifo ---------------------------------
(* What the queue of utils.h promises: values come out in the order they    *)
(* went in, and NULL when there are none.                                   *)
EXTENDS Sequences

CONSTANTS Values, Null

VARIABLES items, returned

vars == <<items, returned>>

Init == items = <<>> /\ returned = Null

Push(v) == items' = Append(items, v) /\ UNCHANGED returned

Pop ==
  \/ items # <<>> /\ returned' = Head(items) /\ items' = Tail(items)
  \/ items = <<>> /\ returned' = Null /\ UNCHANGED items

Next == Pop \/ \E v \in Values : Push(v)

Spec == Init /\ [][Next]_vars
==============================================================================
