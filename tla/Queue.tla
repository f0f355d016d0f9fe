-------------------------------- MODULE Queue --------------------------------
(***************************************************************************)
(* The linked queue of utils.c, which holds the solutions of a client and  *)
(* the tasks of the pool.  Its callers hold a mutex, so an operation is    *)
(* one step.  A cell that was freed may be handed out by malloc again.     *)
(***************************************************************************)
EXTENDS Integers, Sequences, FiniteSets

CONSTANTS
  Cells,              (* addresses malloc can return for a queue_elem       *)
  Values, Null

ASSUME CellsAssumption == IsFiniteSet(Cells) /\ Null \notin Cells
ASSUME ValuesAssumption == Null \notin Values

VARIABLES
  head, tail, elems_count,
  value, next,        (* the fields of each queue_elem                      *)
  allocated,          (* the cells that are not freed                       *)
  returned,           (* what queue_pop returned last                       *)
  order               (* history: the cells of the queue, oldest first      *)

vars == <<head, tail, elems_count, value, next, allocated, returned, order>>

(* Seeded bug: head and tail are mixed up in queue_push.                    *)
HungOnHead(e) ==
  CASE elems_count = 0 -> [next EXCEPT ![e] = Null]
    [] elems_count = 1 -> [next EXCEPT ![e] = Null, ![tail] = e]
    [] OTHER           -> [next EXCEPT ![e] = Null, ![head] = e]

(* Which next field the new element is hung on.                             *)
Linked(e) ==
  CASE elems_count = 0 -> [next EXCEPT ![e] = Null]
    [] elems_count = 1 -> [next EXCEPT ![e] = Null, ![head] = e]
    [] OTHER           -> [next EXCEPT ![e] = Null, ![tail] = e]

queue_push(v) ==
  \E e \in Cells \ allocated :
    /\ allocated' = allocated \cup {e}
    /\ value' = [value EXCEPT ![e] = v]
    /\ next' = Linked(e)
    /\ head' = IF elems_count = 0 THEN e ELSE head
    /\ tail' = e
    /\ elems_count' = elems_count + 1
    /\ order' = Append(order, e)
    /\ UNCHANGED returned

(* tail is left alone: after the last pop it points to a freed cell.        *)
queue_pop ==
  \/ /\ head = Null
     /\ returned' = Null
     /\ UNCHANGED <<head, tail, elems_count, value, next, allocated, order>>
  \/ /\ head # Null
     /\ returned' = value[head]
     /\ head' = next[head]
     /\ elems_count' = elems_count - 1
     /\ allocated' = allocated \ {head}
     /\ order' = Tail(order)
     /\ UNCHANGED <<tail, value, next>>

(* cur_elem in the n-th round of a loop from head along the next fields.    *)
cur_elem[n \in 1..(Cardinality(Cells) + 1)] ==
  IF n = 1 THEN head
  ELSE IF cur_elem[n - 1] = Null THEN Null ELSE next[cur_elem[n - 1]]

(* Seeded bug: the loop stops at the element with no next one.              *)
RoundsWithNext ==
  {n \in DOMAIN cur_elem : cur_elem[n] # Null /\ next[cur_elem[n]] # Null}

Rounds == {n \in DOMAIN cur_elem : cur_elem[n] # Null}

(* The values queue_iterate gives to its callback, round by round.          *)
queue_iterate ==
  IF elems_count = 0 THEN <<>> ELSE [n \in Rounds |-> value[cur_elem[n]]]

(* The cells that queue_struct_free frees.                                  *)
queue_struct_free == {cur_elem[n] : n \in Rounds}

(* What malloc leaves in the fields of a new cell is anything.              *)
Init ==
  /\ head = Null /\ tail = Null /\ elems_count = 0
  /\ value = [e \in Cells |-> Null]
  /\ next \in [Cells -> Cells \cup {Null}]
  /\ allocated = {} /\ returned = Null /\ order = <<>>

Next == queue_pop \/ \E v \in Values : queue_push(v)

Spec == Init /\ [][Next]_vars
-----------------------------------------------------------------------------
TypeOK ==
  /\ head \in Cells \cup {Null} /\ tail \in Cells \cup {Null}
  /\ elems_count \in Nat
  /\ value \in [Cells -> Values \cup {Null}]
  /\ next \in [Cells -> Cells \cup {Null}]
  /\ allocated \subseteq Cells
  /\ returned \in Values \cup {Null}
  /\ order \in Seq(Cells)

(* head, the next fields and the final NULL run through the cells of the    *)
(* queue and no freed one; tail is the last of them unless there is none,   *)
(* which is why queue_push may ignore it then (utils.c:94-103).             *)
Chain ==
  /\ elems_count = Len(order)
  /\ allocated = {order[i] : i \in DOMAIN order}
  /\ \A i, j \in DOMAIN order : order[i] = order[j] => i = j
  /\ head = IF order = <<>> THEN Null ELSE order[1]
  /\ order # <<>> => tail = order[Len(order)]
  /\ \A i \in DOMAIN order : next[order[i]] =
       IF i = Len(order) THEN Null ELSE order[i + 1]

(* The queue is a FIFO, although queue_push hangs the new element on head   *)
(* or on tail depending on elems_count and freed cells are reused.          *)
Abstract == INSTANCE Fifo WITH items <- [i \in DOMAIN order |-> value[order[i]]]
IsFifo == Abstract!Spec

(* Freeing a queue, as client_free and destroy_thread_pool do, reaches      *)
(* every value once, in order, and every cell (utils.c:107-130).            *)
FreesAll ==
  /\ queue_iterate = [i \in DOMAIN order |-> value[order[i]]]
  /\ queue_struct_free = allocated
==============================================================================
