----------------------------- MODULE OrderedMap ------------------------------
(* What the users of a uthash table count on: elements are kept in the      *)
(* order they were added in, until they are deleted.                        *)
EXTENDS Integers, Sequences

CONSTANT Elems

VARIABLE order

Add(o) == \E e \in Elems \ {o[i] : i \in DOMAIN o} : order' = Append(o, e)

(* o without its i-th element.                                              *)
Without(o, i) == [j \in 1..(Len(o) - 1) |-> IF j < i THEN o[j] ELSE o[j + 1]]

Delete(o) == \E i \in DOMAIN o : order' = Without(o, i)

Init == order = <<>>
Next == LET o == order IN Add(o) \/ Delete(o)
Spec == Init /\ [][Next]_order
==============================================================================
