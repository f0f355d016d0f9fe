------------------------------ MODULE MCSession ------------------------------
(* A small instance of Session for TLC: the length field counts to 3.       *)
EXTENDS Session, TLC

CONSTANTS Short, Full, Long

(* Full just fits its field; Long is announced as one byte.                 *)
SmallLengths ==
  [m \in Messages |-> CASE m = Welcome -> 1 [] m = Short -> 2 [] m = Full -> 3 [] m = Long -> 5]
==============================================================================
