----------------------------- MODULE QueueProofs -----------------------------
(* The linked queue is a FIFO and is freed as a whole, for every number of *)
(* cells and values.  Chain is inductive with the types; the refinement and *)
(* what the loops over the queue see rest on it.                            *)
EXTENDS Queue, FiniteSetTheorems, NaturalsInduction, SequenceTheorems,
        WellFoundedInduction, TLAPS

QInv == TypeOK /\ Chain

(* queue_push hangs the new element on the last one, by whichever pointer.  *)
LEMMA LinkedOnLast ==
  ASSUME QInv, NEW e \in Cells \ allocated
  PROVE  /\ Linked(e) \in [Cells -> Cells \cup {Null}]
         /\ Linked(e)[e] = Null
         /\ \A d \in Cells \ {e} : Linked(e)[d] =
              IF order # <<>> /\ d = order[Len(order)] THEN e ELSE next[d]
<1>1. elems_count = Len(order) /\ Len(order) \in Nat
  BY DEF QInv, TypeOK, Chain
<1>2. CASE elems_count = 0
  <2>1. order = <<>>
    BY <1>1, <1>2, EmptySeq DEF QInv, TypeOK
  <2> QED BY <1>2, <2>1 DEF Linked, QInv, TypeOK
<1>3. CASE elems_count # 0
  <2>1. order # <<>> /\ Len(order) \in DOMAIN order
    BY <1>1, <1>3, SMT DEF QInv, TypeOK
  <2>2. /\ order[Len(order)] \in allocated
        /\ tail = order[Len(order)]
        /\ elems_count = 1 => head = order[Len(order)]
    BY <1>1, <2>1 DEF QInv, Chain
  <2>3. order[Len(order)] \in Cells \ {e}
    BY <2>2 DEF QInv, TypeOK
  <2>4. Linked(e) = [[next EXCEPT ![e] = Null] EXCEPT ![order[Len(order)]] = e]
    BY <1>1, <1>3, <2>2 DEF Linked
  <2> QED BY <2>1, <2>3, <2>4 DEF QInv, TypeOK
<1> QED BY <1>2, <1>3

(* A push keeps the chain.                                                  *)
LEMMA PushKeeps ==
  ASSUME QInv, NEW v \in Values, queue_push(v)
  PROVE  QInv'
<1>1. PICK e \in Cells \ allocated :
        /\ allocated' = allocated \cup {e}
        /\ value' = [value EXCEPT ![e] = v]
        /\ next' = Linked(e)
        /\ head' = IF elems_count = 0 THEN e ELSE head
        /\ tail' = e
        /\ elems_count' = elems_count + 1
        /\ order' = Append(order, e)
        /\ UNCHANGED returned
  BY DEF queue_push
<1>2. /\ order \in Seq(Cells) /\ order' \in Seq(Cells) /\ Len(order) \in Nat
      /\ Len(order') = Len(order) + 1 /\ order'[Len(order) + 1] = e
      /\ \A i \in 1..Len(order) : order'[i] = order[i]
      /\ DOMAIN order = 1..Len(order) /\ DOMAIN order' = 1..(Len(order) + 1)
  BY <1>1, SMT DEF QInv, TypeOK
<1>3. TypeOK'
  BY <1>1, <1>2, LinkedOnLast DEF QInv, TypeOK
<1>4. \A i \in 1..Len(order) : order[i] \in allocated /\ order[i] # e
  BY <1>1, <1>2 DEF QInv, Chain
<1>5. elems_count' = Len(order')
  BY <1>1, <1>2 DEF QInv, Chain
<1>6. allocated' = {order'[i] : i \in DOMAIN order'}
  <2>1. allocated = {order[i] : i \in 1..Len(order)}
    BY <1>2 DEF QInv, Chain
  <2>2. \A x : x \in allocated' => \E i \in DOMAIN order' : x = order'[i]
    BY <1>1, <1>2, <2>1, SMT
  <2>3. \A i \in DOMAIN order' : order'[i] \in allocated'
    <3> TAKE i \in DOMAIN order'
    <3>1. CASE i \in 1..Len(order)
      BY <1>1, <1>2, <1>4, <3>1
    <3>2. CASE i = Len(order) + 1
      BY <1>1, <1>2, <3>2
    <3> QED BY <1>2, <3>1, <3>2, SMT
  <2> QED BY <2>2, <2>3
<1>7. \A i, j \in DOMAIN order' : order'[i] = order'[j] => i = j
  <2> TAKE i, j \in DOMAIN order'
  <2>1. CASE i \in 1..Len(order) /\ j \in 1..Len(order)
    BY <1>2, <2>1 DEF QInv, Chain
  <2>2. CASE i = Len(order) + 1 \/ j = Len(order) + 1
    BY <1>2, <1>4, <2>2, SMT
  <2> QED BY <1>2, <2>1, <2>2, SMT
<1>8. head' = IF order' = <<>> THEN Null ELSE order'[1]
  <2>1. order' # <<>>
    BY <1>2, SMT
  <2>2. CASE elems_count = 0
    BY <1>1, <1>2, <2>1, <2>2, SMT DEF QInv, Chain
  <2>3. CASE elems_count # 0
    <3>1. order # <<>> /\ 1 \in 1..Len(order)
      BY <1>2, <2>3, SMT DEF QInv, Chain
    <3> QED BY <1>1, <1>2, <2>1, <2>3, <3>1 DEF QInv, Chain
  <2> QED BY <2>2, <2>3
<1>9. tail' = order'[Len(order')]
  BY <1>1, <1>2
<1>10. \A i \in DOMAIN order' : next'[order'[i]] =
         IF i = Len(order') THEN Null ELSE order'[i + 1]
  <2> TAKE i \in DOMAIN order'
  <2>1. CASE i = Len(order) + 1
    BY <1>1, <1>2, <2>1, LinkedOnLast
  <2>2. CASE i \in 1..Len(order)
    <3>1. /\ order'[i] = order[i] /\ order[i] \in Cells \ {e} /\ order # <<>>
          /\ i # Len(order') /\ i + 1 \in 1..Len(order') /\ Len(order) \in 1..Len(order)
      BY <1>2, <1>4, <2>2, SMT DEF QInv, TypeOK
    <3>2. next'[order[i]] = IF order[i] = order[Len(order)] THEN e ELSE next[order[i]]
      BY <1>1, <3>1, LinkedOnLast
    <3>3. CASE i = Len(order)
      BY <1>2, <3>1, <3>2, <3>3
    <3>4. CASE i # Len(order)
      <4>1. order[i] # order[Len(order)]
        BY <1>2, <2>2, <3>1, <3>4 DEF QInv, Chain
      <4>2. next[order[i]] = order[i + 1]
        BY <1>2, <2>2, <3>4 DEF QInv, Chain
      <4>3. i + 1 \in 1..Len(order)
        BY <1>2, <2>2, <3>4, SMT
      <4> QED BY <1>2, <3>1, <3>2, <4>1, <4>2, <4>3
    <3> QED BY <3>3, <3>4
  <2> QED BY <1>2, <2>1, <2>2, SMT
<1> QED BY <1>3, <1>5, <1>6, <1>7, <1>8, <1>9, <1>10 DEF QInv, Chain

(* A pop keeps the chain, although it leaves tail alone.                    *)
LEMMA PopKeeps ==
  ASSUME QInv, queue_pop
  PROVE  QInv'
<1>1. CASE head = Null
  BY <1>1 DEF queue_pop, QInv, TypeOK, Chain
<1>2. CASE head # Null
  <2>1. /\ returned' = value[head] /\ head' = next[head]
        /\ elems_count' = elems_count - 1 /\ allocated' = allocated \ {head}
        /\ order' = Tail(order) /\ UNCHANGED <<tail, value, next>>
    BY <1>2 DEF queue_pop
  <2>2. order # <<>> /\ head = order[1]
    BY <1>2 DEF QInv, Chain
  <2>3. /\ order \in Seq(Cells) /\ order' \in Seq(Cells) /\ Len(order) \in Nat
        /\ Len(order') = Len(order) - 1 /\ Len(order) >= 1
        /\ \A i \in 1..(Len(order) - 1) : order'[i] = order[i + 1]
        /\ DOMAIN order = 1..Len(order) /\ DOMAIN order' = 1..(Len(order) - 1)
    BY <2>1, <2>2, SMT DEF QInv, TypeOK
  <2>4. head \in Cells /\ next[head] = IF Len(order) = 1 THEN Null ELSE order[2]
    BY <2>2, <2>3, SMT DEF QInv, TypeOK, Chain
  <2>5. TypeOK'
    <3>1. elems_count' \in Nat
      BY <2>1, <2>3, SMT DEF QInv, Chain
    <3> QED BY <2>1, <2>3, <2>4, <3>1 DEF QInv, TypeOK
  <2>6. elems_count' = Len(order')
    BY <2>1, <2>3 DEF QInv, Chain
  <2>7. \A i, j \in DOMAIN order' : order'[i] = order'[j] => i = j
    <3> TAKE i, j \in DOMAIN order'
    <3>1. order'[i] = order[i + 1] /\ order'[j] = order[j + 1]
          /\ i + 1 \in DOMAIN order /\ j + 1 \in DOMAIN order
      BY <2>3, SMT
    <3>2. order[i + 1] = order[j + 1] => i + 1 = j + 1
      BY <3>1 DEF QInv, Chain
    <3> QED BY <2>3, <3>1, <3>2, SMT
  <2>8. allocated' = {order'[i] : i \in DOMAIN order'}
    <3>1. allocated = {order[i] : i \in 1..Len(order)}
      BY <2>3 DEF QInv, Chain
    <3>2. ASSUME NEW x \in allocated' PROVE \E i \in DOMAIN order' : x = order'[i]
      <4>1. PICK i \in 1..Len(order) : x = order[i]
        BY <2>1, <3>1, <3>2
      <4>2. i # 1
        BY <2>1, <2>2, <3>2, <4>1
      <4>3. i - 1 \in DOMAIN order' /\ order'[i - 1] = order[i]
        BY <2>3, <4>1, <4>2, SMT
      <4> QED BY <4>1, <4>3
    <3>3. ASSUME NEW i \in DOMAIN order' PROVE order'[i] \in allocated'
      <4>1. /\ i + 1 \in DOMAIN order /\ i + 1 # 1 /\ 1 \in DOMAIN order
            /\ order'[i] = order[i + 1]
        BY <2>3, <3>3, SMT
      <4>2. order[i + 1] # order[1]
        BY <4>1 DEF QInv, Chain
      <4>3. order[i + 1] \in allocated
        BY <4>1 DEF QInv, Chain
      <4> QED BY <2>1, <2>2, <4>1, <4>2, <4>3
    <3> QED BY <3>2, <3>3
  <2>9. head' = IF order' = <<>> THEN Null ELSE order'[1]
    <3>1. CASE Len(order) = 1
      <4>1. order' = <<>>
        BY <2>3, <3>1, EmptySeq, SMT
      <4> QED BY <2>1, <2>4, <3>1, <4>1
    <3>2. CASE Len(order) # 1
      <4>1. Len(order') # 0 /\ order'[1] = order[2]
        BY <2>3, <3>2, SMT
      <4>2. order' # <<>>
        BY <4>1, EmptySeq
      <4> QED BY <2>1, <2>4, <3>2, <4>1, <4>2
    <3> QED BY <3>1, <3>2
  <2>10. order' # <<>> => tail' = order'[Len(order')]
    <3> SUFFICES ASSUME order' # <<>> PROVE tail' = order'[Len(order')]
      OBVIOUS
    <3>1. Len(order') # 0
      BY <2>3, EmptySeq, SMT
    <3>2. order'[Len(order')] = order[Len(order)]
      BY <2>3, <3>1, SMT
    <3> QED BY <2>1, <2>2, <3>2 DEF QInv, Chain
  <2>11. \A i \in DOMAIN order' : next'[order'[i]] =
           IF i = Len(order') THEN Null ELSE order'[i + 1]
    <3> TAKE i \in DOMAIN order'
    <3>1. i + 1 \in DOMAIN order /\ order'[i] = order[i + 1]
      BY <2>3, SMT
    <3>2. next[order[i + 1]] = IF i + 1 = Len(order) THEN Null ELSE order[i + 1 + 1]
      BY <3>1 DEF QInv, Chain
    <3> QED BY <2>1, <2>3, <3>1, <3>2, SMT
  <2> QED BY <2>5, <2>6, <2>7, <2>8, <2>9, <2>10, <2>11 DEF QInv, Chain
<1> QED BY <1>1, <1>2

(* The pointers of the queue always run through its elements, the freed and *)
(* reused cells notwithstanding.                                            *)
THEOREM QueueCorrect == Spec => [](TypeOK /\ Chain)
<1>1. Init => QInv
  BY EmptySeq DEF Init, QInv, TypeOK, Chain
<1>2. QInv /\ [Next]_vars => QInv'
  <2> SUFFICES ASSUME QInv, [Next]_vars PROVE QInv'
    OBVIOUS
  <2>1. CASE queue_pop
    BY <2>1, PopKeeps
  <2>2. CASE \E v \in Values : queue_push(v)
    BY <2>2, PushKeeps
  <2>3. CASE UNCHANGED vars
    BY <2>3 DEF vars, QInv, TypeOK, Chain
  <2> QED BY <2>1, <2>2, <2>3 DEF Next
<1> QED BY <1>1, <1>2, PTL DEF Spec, QInv

(* The values in the queue.                                                 *)
Items == [i \in DOMAIN order |-> value[order[i]]]

(* A push is a push, and a pop a pop, of the abstract queue.                *)
LEMMA StepRefines ==
  ASSUME QInv, QInv', [Next]_vars
  PROVE  [Abstract!Next]_(Abstract!vars)
<1>1. /\ order \in Seq(Cells) /\ DOMAIN order = 1..Len(order) /\ Len(order) \in Nat
      /\ \A i \in 1..Len(order) : order[i] \in allocated /\ order[i] \in Cells
      /\ Items \in Seq(Values \cup {Null}) /\ Len(Items) = Len(order)
      /\ order = <<>> <=> Items = <<>>
  <2>1. order \in Seq(Cells) /\ DOMAIN order = 1..Len(order) /\ Len(order) \in Nat
    BY SMT DEF QInv, TypeOK
  <2>2. \A i \in 1..Len(order) : order[i] \in allocated /\ order[i] \in Cells
    BY <2>1 DEF QInv, TypeOK, Chain
  <2>3. Items \in [1..Len(order) -> Values \cup {Null}]
    BY <2>1, <2>2 DEF Items, QInv, TypeOK
  <2>4. Items \in Seq(Values \cup {Null}) /\ Len(Items) = Len(order)
    BY <2>1, <2>3, SMT
  <2> QED BY <2>1, <2>2, <2>4, EmptySeq
<1>2. Items' \in Seq(Values \cup {Null}) /\ Len(Items') = Len(order')
  <2>1. order' \in Seq(Cells) /\ DOMAIN order' = 1..Len(order') /\ Len(order') \in Nat
    BY SMT DEF QInv, TypeOK
  <2>2. \A i \in 1..Len(order') : order'[i] \in Cells
    BY <2>1 DEF QInv, TypeOK
  <2>3. Items' \in [1..Len(order') -> Values \cup {Null}]
    BY <2>1, <2>2 DEF Items, QInv, TypeOK
  <2> QED BY <2>1, <2>3, SMT
<1>3. ASSUME NEW v \in Values, queue_push(v) PROVE Abstract!Push(v)
  <2>1. PICK e \in Cells \ allocated : /\ value' = [value EXCEPT ![e] = v]
                                      /\ order' = Append(order, e)
                                      /\ UNCHANGED returned
    BY <1>3 DEF queue_push
  <2>2. /\ Len(order') = Len(order) + 1 /\ DOMAIN order' = 1..(Len(order) + 1)
        /\ order'[Len(order) + 1] = e
        /\ \A i \in 1..Len(order) : order'[i] = order[i]
    BY <1>1, <2>1, SMT
  <2>3. /\ Append(Items, v) \in Seq(Values \cup {Null})
        /\ Len(Append(Items, v)) = Len(order) + 1
        /\ \A i \in 1..Len(order) : Append(Items, v)[i] = Items[i]
        /\ Append(Items, v)[Len(order) + 1] = v
    BY <1>1, AppendProperties
  <2>4. \A i \in 1..(Len(order) + 1) : Items'[i] = Append(Items, v)[i]
    <3> TAKE i \in 1..(Len(order) + 1)
    <3>1. Items'[i] = value'[order'[i]]
      BY <2>2 DEF Items
    <3>2. CASE i = Len(order) + 1
      BY <2>1, <2>2, <2>3, <3>1, <3>2 DEF QInv, TypeOK
    <3>3. CASE i \in 1..Len(order)
      <4>1. order'[i] = order[i] /\ order[i] # e /\ order[i] \in Cells
        BY <1>1, <2>1, <2>2, <3>3
      <4>2. Items[i] = value[order[i]]
        BY <1>1, <3>3 DEF Items
      <4> QED BY <2>1, <2>3, <3>1, <3>3, <4>1, <4>2 DEF QInv, TypeOK
    <3> QED BY <1>1, <3>2, <3>3, SMT
  <2>5. Items' = Append(Items, v)
    BY <1>2, <2>2, <2>3, <2>4, SeqEqual
  <2> QED BY <2>1, <2>5 DEF Abstract!Push, Items
<1>4. ASSUME queue_pop PROVE Abstract!Pop
  <2>1. CASE head = Null
    <3>1. order = <<>>
      <4> SUFFICES ASSUME order # <<>> PROVE FALSE
        OBVIOUS
      <4>1. 1 \in 1..Len(order)
        BY <1>1, EmptySeq, SMT
      <4> QED BY <1>1, <2>1, <4>1, CellsAssumption DEF QInv, Chain
    <3>2. returned' = Null /\ UNCHANGED <<order, value>>
      BY <1>4, <2>1 DEF queue_pop
    <3> QED BY <1>1, <3>1, <3>2 DEF Abstract!Pop, Items
  <2>2. CASE head # Null
    <3>1. returned' = value[head] /\ order' = Tail(order) /\ UNCHANGED value
      BY <1>4, <2>2 DEF queue_pop
    <3>2. order # <<>> /\ head = order[1] /\ Items # <<>>
      BY <1>1, <2>2 DEF QInv, Chain
    <3>3. /\ Len(order) >= 1 /\ DOMAIN order' = 1..(Len(order) - 1)
          /\ \A i \in 1..(Len(order) - 1) : order'[i] = order[i + 1]
      BY <1>1, <3>1, <3>2, SMT
    <3>4. Head(Items) = value[head]
      BY <1>1, <3>2, <3>3, SMT DEF Items
    <3>5. /\ Tail(Items) \in Seq(Values \cup {Null}) /\ Len(Tail(Items)) = Len(order) - 1
          /\ \A i \in 1..(Len(order) - 1) : Tail(Items)[i] = Items[i + 1]
      BY <1>1, <3>2, HeadTailProperties
    <3>6. \A i \in 1..(Len(order) - 1) : Items'[i] = Items[i + 1]
      BY <1>1, <3>1, <3>3, SMT DEF Items
    <3>7. Items' = Tail(Items)
      <4>1. Len(order') = Len(order) - 1
        BY <1>1, <3>1, <3>2, HeadTailProperties
      <4> QED BY <1>2, <3>5, <3>6, <4>1, SeqEqual
    <3> QED BY <3>1, <3>2, <3>4, <3>7 DEF Abstract!Pop, Items
  <2> QED BY <2>1, <2>2
<1>5. CASE UNCHANGED vars
  BY <1>5 DEF vars, Abstract!vars
<1> QED BY <1>3, <1>4, <1>5 DEF Next, Abstract!Next

(* The linked queue implements Fifo: what solutions_queue and tasks_queue   *)
(* rely on when JudgeServer and ThreadPool treat them as sequences.         *)
THEOREM QueueIsFifo == Spec => IsFifo
<1>1. Init => Abstract!Init
  BY DEF Init, Abstract!Init
<1>2. QInv /\ QInv' /\ [Next]_vars => [Abstract!Next]_(Abstract!vars)
  BY StepRefines
<1>3. Spec => []QInv
  BY QueueCorrect DEF QInv
<1> QED BY <1>1, <1>2, <1>3, PTL DEF Spec, IsFifo, Abstract!Spec
-----------------------------------------------------------------------------
(* The loops over the queue.                                                *)

(* A set of natural numbers that is not empty has a least element.          *)
LEMMA Least ==
  ASSUME NEW S \in SUBSET Nat, S # {}
  PROVE  \E m \in S : \A n \in S : m <= n
<1>1. PICK m \in S : \A n \in S : ~(<<n, m>> \in OpToRel(<, Nat))
  BY NatLessThanWellFounded, WFMin
<1>2. \A n \in S : m <= n
  <2> SUFFICES ASSUME NEW n \in S, n < m PROVE FALSE
    BY SMT
  <2>1. <<n, m>> \in OpToRel(<, Nat)
    BY Zenon DEF OpToRel
  <2> QED BY <1>1, <2>1
<1> QED BY <1>2

(* There are no more elements than cells, so the bound on the rounds is     *)
(* never met before the final NULL is.                                      *)
LEMMA FitsCells ==
  ASSUME QInv
  PROVE  Cardinality(Cells) \in Nat /\ Len(order) \in Nat /\ Len(order) <= Cardinality(Cells)
<1>1. /\ order \in [1..Len(order) -> Cells] /\ Len(order) \in Nat
      /\ \A i, j \in 1..Len(order) : order[i] = order[j] => i = j
  BY SMT DEF QInv, TypeOK, Chain
<1>2. order \in Injection(1..Len(order), Cells)
  BY <1>1 DEF Injection, IsInjective
<1>3. Cardinality(1..Len(order)) = Len(order)
  <2>1. 1 \in Int /\ Len(order) \in Int
    BY <1>1
  <2>2. Cardinality(1..Len(order)) = IF 1 > Len(order) THEN 0 ELSE Len(order) - 1 + 1
    BY <2>1, FS_Interval
  <2> QED BY <1>1, <2>2, SMT
<1>4. Cardinality(1..Len(order)) <= Cardinality(Cells)
  BY <1>2, CellsAssumption, FS_Injection
<1>5. Cardinality(Cells) \in Nat
  BY CellsAssumption, FS_CardinalityType
<1> QED BY <1>1, <1>3, <1>4, <1>5

(* The loop from head passes the elements in order and then sees NULL.      *)
LEMMA RoundsAreOrder ==
  ASSUME QInv
  PROVE  /\ DOMAIN cur_elem = 1..(Cardinality(Cells) + 1)
         /\ \A n \in DOMAIN cur_elem :
              cur_elem[n] = IF n <= Len(order) THEN order[n] ELSE Null
<1> DEFINE S == 1..(Cardinality(Cells) + 1)
           Round(f) == [n \in S |-> IF n = 1 THEN head
                                    ELSE IF f[n - 1] = Null THEN Null ELSE next[f[n - 1]]]
           Steps == [n \in S |-> IF n <= Len(order) THEN order[n] ELSE Null]
<1>1. /\ Cardinality(Cells) \in Nat /\ Len(order) \in Nat
      /\ DOMAIN order = 1..Len(order)
      /\ \A i \in 1..Len(order) : order[i] \in Cells /\ order[i] # Null
  <2>1. DOMAIN order = 1..Len(order) /\ \A i \in 1..Len(order) : order[i] \in Cells
    BY SMT DEF QInv, TypeOK
  <2> QED BY <2>1, FitsCells, CellsAssumption
<1>2. head = IF Len(order) = 0 THEN Null ELSE order[1]
  BY <1>1, EmptySeq, SMT DEF QInv, TypeOK, Chain
<1>3. \A i \in 1..Len(order) : next[order[i]] = IF i = Len(order) THEN Null ELSE order[i + 1]
  BY <1>1 DEF QInv, Chain
<1>4. Steps = Round(Steps)
  <2> SUFFICES ASSUME NEW n \in S PROVE Steps[n] = Round(Steps)[n]
    OBVIOUS
  <2>1. CASE n = 1
    BY <1>1, <1>2, <2>1, SMT
  <2>2. CASE n # 1
    <3>1. n - 1 \in S /\ n - 1 >= 1
      BY <1>1, <2>2, SMT
    <3>2. CASE n - 1 <= Len(order)
      <4>1. Steps[n - 1] = order[n - 1] /\ n - 1 \in 1..Len(order)
        BY <1>1, <3>1, <3>2, SMT
      <4>2. Round(Steps)[n] = next[order[n - 1]]
        BY <1>1, <2>2, <4>1
      <4>3. next[order[n - 1]] = IF n - 1 = Len(order) THEN Null ELSE order[n]
        <5>1. n - 1 + 1 = n
          BY <1>1
        <5>2. next[order[n - 1]] = IF n - 1 = Len(order) THEN Null ELSE order[n - 1 + 1]
          BY <1>3, <4>1
        <5> QED BY <5>1, <5>2
      <4>4. Steps[n] = IF n <= Len(order) THEN order[n] ELSE Null
        OBVIOUS
      <4>5. n <= Len(order) <=> n - 1 # Len(order)
        BY <1>1, <3>1, <3>2, SMT
      <4> QED BY <4>2, <4>3, <4>4, <4>5
    <3>3. CASE ~(n - 1 <= Len(order))
      BY <1>1, <2>2, <3>1, <3>3, SMT
    <3> QED BY <3>2, <3>3
  <2> QED BY <2>1, <2>2
<1>5. cur_elem = Round(cur_elem)
  <2>1. cur_elem = CHOOSE f : f = Round(f)
    BY DEF cur_elem
  <2> HIDE DEF Round, Steps
  <2> QED BY <1>4, <2>1
<1>6. DOMAIN cur_elem = S
  BY <1>5
<1>7. \A n \in S : cur_elem[n] = Steps[n]
  <2> DEFINE D == {n \in S : cur_elem[n] # Steps[n]}
  <2> SUFFICES ASSUME D # {} PROVE FALSE
    OBVIOUS
  <2>1. PICK m \in D : \A n \in D : m <= n
    <3>1. D \subseteq Nat
      BY <1>1, SMT
    <3> HIDE DEF D
    <3> QED BY <3>1, Least
  <2>2. m # 1
    BY <1>4, <1>5
  <2>3. m - 1 \in S /\ m - 1 \notin D
    BY <1>1, <2>1, <2>2, SMT
  <2>4. cur_elem[m - 1] = Steps[m - 1]
    BY <2>3
  <2>5. /\ cur_elem[m] = Round(cur_elem)[m] /\ Steps[m] = Round(Steps)[m]
        /\ Round(cur_elem)[m] = Round(Steps)[m]
    <3>1. m \in S
      OBVIOUS
    <3>2. Round(cur_elem)[m] = Round(Steps)[m]
      BY <2>2, <2>4, <3>1
    <3>3. cur_elem[m] = Round(cur_elem)[m] /\ Steps[m] = Round(Steps)[m]
      <4> HIDE DEF Round, Steps
      <4> QED BY <1>4, <1>5
    <3> QED BY <3>2, <3>3
  <2> QED BY <2>5
<1> QED BY <1>6, <1>7

(* queue_iterate calls its callback for every value, in order, and          *)
(* queue_struct_free frees every cell, however the cells were reused        *)
(* (utils.c:107-130).                                                       *)
THEOREM AllIsFreed == Spec => []FreesAll
<1>1. QInv => FreesAll
  <2> SUFFICES ASSUME QInv PROVE FreesAll
    OBVIOUS
  <2>1. /\ order \in Seq(Cells) /\ DOMAIN order = 1..Len(order)
        /\ \A i \in 1..Len(order) : order[i] # Null
    BY CellsAssumption, SMT DEF QInv, TypeOK
  <2>2. Rounds = DOMAIN order /\ \A n \in Rounds : cur_elem[n] = order[n]
    <3>1. \A n \in 1..Len(order) : n \in Rounds /\ cur_elem[n] = order[n]
      BY <2>1, RoundsAreOrder, FitsCells, SMT DEF Rounds
    <3>2. \A n \in Rounds : n \in 1..Len(order)
      BY <2>1, RoundsAreOrder, FitsCells, SMT DEF Rounds
    <3> QED BY <2>1, <3>1, <3>2
  <2>3. queue_struct_free = allocated
    BY <2>2 DEF queue_struct_free, QInv, Chain
  <2>4. queue_iterate = [i \in DOMAIN order |-> value[order[i]]]
    <3>1. [n \in Rounds |-> value[cur_elem[n]]] = [i \in DOMAIN order |-> value[order[i]]]
      BY <2>2
    <3>2. CASE elems_count = 0
      <4>1. DOMAIN order = {}
        BY <2>1, <3>2, SMT DEF QInv, Chain
      <4>2. [i \in DOMAIN order |-> value[order[i]]] = <<>>
        BY <4>1
      <4> QED BY <3>2, <4>2 DEF queue_iterate
    <3>3. CASE elems_count # 0
      BY <3>1, <3>3 DEF queue_iterate
    <3> QED BY <3>2, <3>3
  <2> QED BY <2>3, <2>4 DEF FreesAll
<1> QED BY <1>1, QueueCorrect, PTL DEF QInv
=============================================================================
