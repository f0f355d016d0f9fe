------------------------------- MODULE MCHash --------------------------------
(* A small instance of UtHash for TLC: two elements with one key, and one   *)
(* or two more whose keys share its bucket until a later doubling.          *)
EXTENDS UtHash, TLC

CONSTANTS e1, e2, e3, e4

KeyOf == [e \in Elems |-> CASE e \in {e1, e2} -> 1 [] e = e3 -> 2 [] e = e4 -> 3]
Symmetry == Permutations({e1, e2})
HashOf == [k \in {KeyOf[e] : e \in Elems} |-> CASE k = 1 -> 0 [] k = 2 -> 2 [] k = 3 -> 4]
==============================================================================
