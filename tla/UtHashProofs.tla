---------------------------- MODULE UtHashProofs -----------------------------
(***************************************************************************)
(* The hash tables, for every finite set of elements, every assignment of  *)
(* keys to elements and of hashes to keys, and every initial number of     *)
(* buckets: they are always sound, lookups and loops without a mutex find  *)
(* what they must, loops that delete leave nothing behind, and all of this *)
(* implements an ordered map.                                              *)
(*                                                                         *)
(* The properties say nothing about the states in the midst of an          *)
(* operation, so none of them is inductive.                                *)
(*                                                                         *)
(* The list.  ListInv holds at every step: next leads from head to tail    *)
(* through different elements and prev leads back, the element that is     *)
(* being added is the last, and a loop with HASH_ITER is at an element of  *)
(* the list with everything it has yet to delete ahead.  ScanOK is the     *)
(* same for a loop that only reads: what it has seen and what was there    *)
(* when it began are both prefixes of the list.                            *)
(*                                                                         *)
(* The buckets.  TableInv says for each step of an addition and of an      *)
(* expansion which chains are whole: all of them, all but the head of the  *)
(* bucket of the element that is added, or, while elements are moved, the  *)
(* old ones that have not been reached, what is left of the one that is    *)
(* being emptied, and the new ones with what was moved so far.             *)
(*                                                                         *)
(* Lookups.  LookupInv says that the rest of the chain, from where a       *)
(* lookup is, has every element with its key that was there when it began, *)
(* unless a deletion or an expansion has interfered.                       *)
(***************************************************************************)
EXTENDS UtHash, FiniteSetTheorems, NaturalsInduction, SequenceTheorems,
        WellFoundedInduction, TLAPS

(* No element twice.                                                        *)
Distinct(s) == \A i, j \in 1..Len(s) : s[i] = s[j] => i = j

(* e and the fields f lead through the elements of s and to NULL.           *)
Chained(f, e, s) ==
  /\ s \in Seq(Elems) /\ Distinct(s)
  /\ e = IF Len(s) = 0 THEN Null ELSE s[1]
  /\ \A i \in 1..Len(s) : f[s[i]] = IF i = Len(s) THEN Null ELSE s[i + 1]

(* A chain that ends.                                                       *)
IsChain(f, e) == Chained(f, e, Along(f, e))

(* s with x in front, behind and without the first or the i-th element.     *)
Before(x, s) == [i \in 1..(Len(s) + 1) |-> IF i = 1 THEN x ELSE s[i - 1]]
Rest(s) == [i \in 1..(Len(s) - 1) |-> s[i + 1]]
Minus(s, i) == [j \in 1..(Len(s) - 1) |-> IF j < i THEN s[j] ELSE s[j + 1]]
-----------------------------------------------------------------------------
(* A set of natural numbers that is not empty has a least element.          *)
LEMMA Least ==
  ASSUME NEW S \in SUBSET Nat, S # {}
  PROVE  \E m \in S : \A n \in S : m <= n
<1>1. PICK m \in S : \A n \in S : ~(<<n, m>> \in OpToRel(<, Nat))
  BY NatLessThanWellFounded, WFMin
<1>2. \A n \in S : m <= n
  <2> SUFFICES ASSUME NEW n \in S, n < m PROVE FALSE
    BY SMT
  <2>1. <<n, m>> \in OpToRel(<, Nat)
    BY Zenon DEF OpToRel
  <2> QED BY <1>1, <2>1
<1> QED BY <1>2

(* What is used of a sequence of elements.                                  *)
LEMMA SeqFacts ==
  ASSUME NEW s \in Seq(Elems)
  PROVE  /\ Len(s) \in Nat /\ DOMAIN s = 1..Len(s) /\ s \in [1..Len(s) -> Elems]
         /\ \A i \in 1..Len(s) : s[i] \in Elems /\ s[i] # Null
         /\ Len(s) = 0 <=> s = <<>>
         /\ Members(s) = {s[i] : i \in 1..Len(s)} /\ Members(s) \subseteq Elems
<1>1. Len(s) \in Nat /\ DOMAIN s = 1..Len(s) /\ s \in [1..Len(s) -> Elems]
  BY SMT
<1>2. \A i \in 1..Len(s) : s[i] \in Elems /\ s[i] # Null
  BY <1>1, ElemsAssumption
<1>3. Len(s) = 0 <=> s = <<>>
  BY EmptySeq
<1> QED BY <1>1, <1>2, <1>3 DEF Members

(* Neighbours in an interval.                                               *)
LEMMA Within ==
  \A m \in Nat : /\ m # 0 => 1 \in 1..m
                 /\ m # 0 /\ m # 1 => 1 \in 1..(m - 1)
                 /\ \A n \in 1..m : /\ m # 0 /\ n \in Nat /\ 1 \in 1..m
                                    /\ n # 1 => n - 1 \in 1..m /\ n - 1 # n
                                    /\ n # m => n + 1 \in 1..m /\ n + 1 # n
  OBVIOUS

(* There are no more different elements than there are elements.            *)
LEMMA FitsElems ==
  ASSUME NEW s \in Seq(Elems), Distinct(s)
  PROVE  Cardinality(Elems) \in Nat /\ Len(s) \in Nat /\ Len(s) <= Cardinality(Elems)
<1>1. s \in [1..Len(s) -> Elems] /\ Len(s) \in Nat
  BY SeqFacts
<1>2. s \in Injection(1..Len(s), Elems)
  BY <1>1 DEF Injection, IsInjective, Distinct
<1>3. Cardinality(1..Len(s)) = Len(s)
  <2>1. 1 \in Int /\ Len(s) \in Int
    BY <1>1
  <2>2. Cardinality(1..Len(s)) = IF 1 > Len(s) THEN 0 ELSE Len(s) - 1 + 1
    BY <2>1, FS_Interval
  <2> QED BY <1>1, <2>2, SMT
<1>4. Cardinality(1..Len(s)) <= Cardinality(Elems)
  BY <1>2, ElemsAssumption, FS_Injection
<1>5. Cardinality(Elems) \in Nat
  BY ElemsAssumption, FS_CardinalityType
<1> QED BY <1>1, <1>3, <1>4, <1>5

(* A chain is what Along finds.                                             *)
LEMMA AlongIs ==
  ASSUME NEW f, NEW e, NEW s, Chained(f, e, s)
  PROVE  Along(f, e) = s
<1> DEFINE N == Cardinality(Elems)
           Round(w) == [n \in 1..N |-> IF n = 1 THEN e
                                       ELSE IF w[n - 1] = Null THEN Null ELSE f[w[n - 1]]]
           walk == CHOOSE w : w = Round(w)
           Steps == [n \in 1..N |-> IF n <= Len(s) THEN s[n] ELSE Null]
<1>1. s \in Seq(Elems) /\ Distinct(s)
  BY DEF Chained
<1>2. N \in Nat /\ Len(s) \in Nat /\ Len(s) <= N
  BY <1>1, FitsElems
<1>3. DOMAIN s = 1..Len(s) /\ \A i \in 1..Len(s) : s[i] # Null
  BY <1>1, SeqFacts
<1>4. Along(f, e) = [n \in {n \in 1..N : walk[n] # Null} |-> walk[n]]
  BY DEF Along
<1>5. Steps = Round(Steps)
  <2> SUFFICES ASSUME NEW n \in 1..N PROVE Steps[n] = Round(Steps)[n]
    OBVIOUS
  <2>1. CASE n = 1
    BY <1>2, <2>1 DEF Chained
  <2>2. CASE n # 1
    <3>1. n - 1 \in 1..N /\ n - 1 + 1 = n
      BY <1>2, <2>2, SMT
    <3>2. CASE n - 1 <= Len(s)
      <4>1. Steps[n - 1] = s[n - 1] /\ n - 1 \in 1..Len(s)
        BY <1>2, <3>1, <3>2, SMT
      <4>2. Round(Steps)[n] = f[s[n - 1]]
        BY <1>3, <2>2, <4>1
      <4>3. f[s[n - 1]] = IF n - 1 = Len(s) THEN Null ELSE s[n]
        <5>1. f[s[n - 1]] = IF n - 1 = Len(s) THEN Null ELSE s[n - 1 + 1]
          BY <4>1 DEF Chained
        <5> QED BY <3>1, <5>1
      <4>4. Steps[n] = IF n <= Len(s) THEN s[n] ELSE Null
        OBVIOUS
      <4>5. n <= Len(s) <=> n - 1 # Len(s)
        BY <1>2, <3>1, <3>2, SMT
      <4> QED BY <4>2, <4>3, <4>4, <4>5
    <3>3. CASE ~(n - 1 <= Len(s))
      BY <1>2, <2>2, <3>1, <3>3, SMT
    <3> QED BY <3>2, <3>3
  <2> QED BY <2>1, <2>2
<1>6. walk = Round(walk)
  <2> HIDE DEF Round, Steps
  <2> QED BY <1>5
<1> HIDE DEF walk
<1>7. \A n \in 1..N : walk[n] = Steps[n]
  <2> DEFINE D == {n \in 1..N : walk[n] # Steps[n]}
  <2> SUFFICES ASSUME D # {} PROVE FALSE
    OBVIOUS
  <2>1. PICK m \in D : \A n \in D : m <= n
    <3>1. D \subseteq Nat
      BY <1>2, SMT
    <3> HIDE DEF D
    <3> QED BY <3>1, Least
  <2>2. m # 1
    BY <1>5, <1>6
  <2>3. m - 1 \in 1..N /\ m - 1 \notin D
    BY <1>2, <2>1, <2>2, SMT
  <2>4. walk[m - 1] = Steps[m - 1]
    BY <2>3
  <2>5. m \in 1..N
    OBVIOUS
  <2>6. Round(walk)[m] = Round(Steps)[m]
    BY <2>2, <2>4, <2>5
  <2>7. walk[m] = Round(walk)[m] /\ Steps[m] = Round(Steps)[m]
    <3> HIDE DEF Round, Steps
    <3> QED BY <1>5, <1>6
  <2> QED BY <2>6, <2>7
<1>8. {n \in 1..N : walk[n] # Null} = 1..Len(s)
  BY <1>2, <1>3, <1>7, SMT
<1>9. \A n \in 1..Len(s) : walk[n] = s[n]
  BY <1>2, <1>7, SMT
<1>10. s = [n \in 1..Len(s) |-> s[n]]
  BY <1>1, <1>3
<1> QED BY <1>4, <1>8, <1>9, <1>10

(* There is one sequence that f leads through from e.                       *)
LEMMA ChainIs ==
  ASSUME NEW f, NEW e, NEW s, Chained(f, e, s)
  PROVE  IsChain(f, e) /\ Along(f, e) = s
BY AlongIs DEF IsChain
-----------------------------------------------------------------------------
(* The operations on sequences.                                             *)

(* An element in front.                                                     *)
LEMMA BeforeIs ==
  ASSUME NEW s \in Seq(Elems), NEW x \in Elems
  PROVE  /\ Before(x, s) \in Seq(Elems) /\ Len(Before(x, s)) = Len(s) + 1
         /\ Before(x, s)[1] = x
         /\ \A i \in 1..Len(s) : Before(x, s)[i + 1] = s[i]
         /\ \A i \in 2..(Len(s) + 1) : Before(x, s)[i] = s[i - 1] /\ i - 1 \in 1..Len(s)
         /\ Members(Before(x, s)) = Members(s) \cup {x}
<1>1. Len(s) \in Nat /\ s \in [1..Len(s) -> Elems]
  BY SeqFacts
<1>2. Before(x, s) \in [1..(Len(s) + 1) -> Elems]
  <2>1. \A i \in 1..(Len(s) + 1) : i = 1 \/ i - 1 \in 1..Len(s)
    BY <1>1, SMT
  <2> QED BY <1>1, <2>1 DEF Before
<1>3. Before(x, s) \in Seq(Elems) /\ Len(Before(x, s)) = Len(s) + 1
  BY <1>1, <1>2, SMT
<1>4. Before(x, s)[1] = x
  BY <1>1, SMT DEF Before
<1>5. \A i \in 1..Len(s) : Before(x, s)[i + 1] = s[i]
  BY <1>1, SMT DEF Before
<1>6. \A i \in 2..(Len(s) + 1) : Before(x, s)[i] = s[i - 1] /\ i - 1 \in 1..Len(s)
  BY <1>1, SMT DEF Before
<1>7. Members(Before(x, s)) = Members(s) \cup {x}
  <2>1. Members(Before(x, s)) = {Before(x, s)[i] : i \in 1..(Len(s) + 1)}
        /\ Members(s) = {s[i] : i \in 1..Len(s)}
    BY <1>3, SeqFacts
  <2>2. \A i \in 1..(Len(s) + 1) : i = 1 \/ i \in 2..(Len(s) + 1)
    BY <1>1, SMT
  <2>3. \A i \in 1..Len(s) : i + 1 \in 1..(Len(s) + 1)
    BY <1>1, SMT
  <2>4. 1 \in 1..(Len(s) + 1)
    BY <1>1, SMT
  <2>5. \A i \in 1..(Len(s) + 1) : Before(x, s)[i] \in Members(s) \cup {x}
    BY <1>4, <1>6, <2>1, <2>2
  <2>6. \A i \in 1..Len(s) : s[i] \in Members(Before(x, s))
    <3> TAKE i \in 1..Len(s)
    <3>1. i + 1 \in 1..(Len(s) + 1) /\ Before(x, s)[i + 1] = s[i]
      BY <1>5, <2>3
    <3> QED BY <2>1, <3>1
  <2>7. x \in Members(Before(x, s))
    BY <1>4, <2>1, <2>4
  <2> QED BY <2>1, <2>5, <2>6, <2>7
<1> QED BY <1>3, <1>4, <1>5, <1>6, <1>7

(* Without the first element.                                               *)
LEMMA RestIs ==
  ASSUME NEW s \in Seq(Elems), Distinct(s), Len(s) # 0
  PROVE  /\ Rest(s) \in Seq(Elems) /\ Len(Rest(s)) = Len(s) - 1
         /\ \A i \in 1..(Len(s) - 1) : Rest(s)[i] = s[i + 1] /\ i + 1 \in 1..Len(s)
         /\ Members(Rest(s)) = Members(s) \ {s[1]} /\ s[1] \in Members(s)
<1>1. Len(s) \in Nat /\ s \in [1..Len(s) -> Elems]
  BY SeqFacts
<1>2. \A i \in 1..(Len(s) - 1) : i + 1 \in 1..Len(s)
  BY <1>1, SMT
<1>3. Rest(s) \in [1..(Len(s) - 1) -> Elems]
  BY <1>1, <1>2 DEF Rest
<1>4. Rest(s) \in Seq(Elems) /\ Len(Rest(s)) = Len(s) - 1
  <2>1. PICK m \in Nat : m = Len(s) - 1
    <3>1. Len(s) - 1 \in Nat
      BY <1>1, SMT
    <3> QED BY <3>1
  <2>2. Rest(s) \in [1..m -> Elems]
    BY <1>3, <2>1
  <2>3. Rest(s) \in Seq(Elems) /\ Len(Rest(s)) = m
    BY <2>2, SMT
  <2> QED BY <2>1, <2>3
<1>5. \A i \in 1..(Len(s) - 1) : Rest(s)[i] = s[i + 1]
  BY DEF Rest
<1>6. Members(Rest(s)) = Members(s) \ {s[1]} /\ s[1] \in Members(s)
  <2>1. Members(Rest(s)) = {Rest(s)[i] : i \in 1..(Len(s) - 1)}
        /\ Members(s) = {s[i] : i \in 1..Len(s)}
    BY <1>4, SeqFacts
  <2>2. \A i \in 1..Len(s) : i = 1 \/ i - 1 \in 1..(Len(s) - 1)
    BY <1>1, SMT
  <2>3. \A i \in 1..(Len(s) - 1) : s[i + 1] # s[1]
    <3>1. \A i \in 1..(Len(s) - 1) : i + 1 # 1 /\ 1 \in 1..Len(s)
      BY <1>1, SMT
    <3> QED BY <1>2, <3>1 DEF Distinct
  <2>4. \A i \in 1..Len(s) : i = 1 \/ (i - 1 \in 1..(Len(s) - 1) /\ Rest(s)[i - 1] = s[i])
    <3> TAKE i \in 1..Len(s)
    <3>1. i - 1 + 1 = i
      BY <1>1, SMT
    <3> QED BY <1>5, <2>2, <3>1
  <2>5. 1 \in 1..Len(s)
    BY <1>1, SMT
  <2> QED BY <1>2, <1>5, <2>1, <2>3, <2>4, <2>5
<1> QED BY <1>2, <1>4, <1>5, <1>6

(* Without the i-th element.                                                *)
LEMMA MinusIs ==
  ASSUME NEW s \in Seq(Elems), Distinct(s), NEW n \in 1..Len(s)
  PROVE  /\ Minus(s, n) \in Seq(Elems) /\ Len(Minus(s, n)) = Len(s) - 1 /\ Len(s) \in Nat
         /\ \A i \in 1..(Len(s) - 1) :
              /\ i < n => i \in 1..Len(s) /\ Minus(s, n)[i] = s[i] /\ s[i] # s[n]
              /\ i >= n => i + 1 \in 1..Len(s) /\ Minus(s, n)[i] = s[i + 1] /\ s[i + 1] # s[n]
         /\ Members(Minus(s, n)) = Members(s) \ {s[n]}
<1>1. Len(s) \in Nat /\ s \in [1..Len(s) -> Elems]
  BY SeqFacts
<1>2. \A i \in 1..(Len(s) - 1) : i \in 1..Len(s) /\ i + 1 \in 1..Len(s) /\ i \in Int
  BY <1>1, SMT
<1>3. Minus(s, n) \in [1..(Len(s) - 1) -> Elems]
  BY <1>1, <1>2 DEF Minus
<1>4. Minus(s, n) \in Seq(Elems) /\ Len(Minus(s, n)) = Len(s) - 1
  <2>1. PICK m \in Nat : m = Len(s) - 1
    <3>1. Len(s) - 1 \in Nat
      BY <1>1, SMT
    <3> QED BY <3>1
  <2>2. Minus(s, n) \in [1..m -> Elems]
    BY <1>3, <2>1
  <2>3. Minus(s, n) \in Seq(Elems) /\ Len(Minus(s, n)) = m
    BY <2>2, SMT
  <2> QED BY <2>1, <2>3
<1>5. ASSUME NEW i \in 1..(Len(s) - 1)
      PROVE  /\ i < n => i \in 1..Len(s) /\ Minus(s, n)[i] = s[i] /\ s[i] # s[n]
             /\ i >= n => i + 1 \in 1..Len(s) /\ Minus(s, n)[i] = s[i + 1] /\ s[i + 1] # s[n]
  <2>1. Minus(s, n)[i] = IF i < n THEN s[i] ELSE s[i + 1]
    BY DEF Minus
  <2>2. CASE i < n
    <3>1. i # n /\ ~(i >= n)
      BY <1>1, <2>2, SMT
    <3> QED BY <1>2, <2>1, <2>2, <3>1 DEF Distinct
  <2>3. CASE i >= n
    <3>1. i + 1 # n /\ ~(i < n)
      BY <1>1, <2>3, SMT
    <3> QED BY <1>2, <2>1, <3>1 DEF Distinct
  <2> QED BY <2>2, <2>3
<1>6. Members(Minus(s, n)) = Members(s) \ {s[n]}
  <2>1. Members(Minus(s, n)) = {Minus(s, n)[i] : i \in 1..(Len(s) - 1)}
        /\ Members(s) = {s[i] : i \in 1..Len(s)}
    BY <1>4, SeqFacts
  <2>2. \A i \in 1..(Len(s) - 1) : Minus(s, n)[i] \in Members(s) \ {s[n]}
    <3> TAKE i \in 1..(Len(s) - 1)
    <3>1. i < n \/ i >= n
      BY <1>1, SMT
    <3> QED BY <1>5, <2>1, <3>1
  <2>3. ASSUME NEW i \in 1..Len(s), s[i] # s[n]
        PROVE  \E j \in 1..(Len(s) - 1) : Minus(s, n)[j] = s[i]
    <3>1. CASE i < n
      <4>1. i \in 1..(Len(s) - 1)
        BY <1>1, <3>1, SMT
      <4> QED BY <1>5, <3>1, <4>1
    <3>2. CASE i > n
      <4>1. i - 1 \in 1..(Len(s) - 1) /\ i - 1 >= n /\ i - 1 + 1 = i
        BY <1>1, <3>2, SMT
      <4> QED BY <1>5, <4>1
    <3>3. i # n
      BY <2>3
    <3> QED BY <1>1, <3>1, <3>2, <3>3, SMT
  <2> QED BY <2>1, <2>2, <2>3
<1> QED BY <1>1, <1>4, <1>5, <1>6
-----------------------------------------------------------------------------
(* The operations on chains: fields that do not lead through s may change.  *)
Same(g, f, S) == \A x \in S : g[x] = f[x]

(* The fields of other elements do not matter to a chain.                   *)
LEMMA ChainFrame ==
  ASSUME NEW f, NEW g, NEW e, NEW s, Chained(f, e, s), Same(g, f, Members(s))
  PROVE  Chained(g, e, s)
<1>1. \A i \in 1..Len(s) : s[i] \in Members(s)
  BY SeqFacts DEF Chained
<1> QED BY <1>1 DEF Chained, Same

(* Nor do their back pointers.                                              *)
LEMMA BackFrame ==
  ASSUME NEW s \in Seq(Elems), NEW back, NEW b2, DoublyLinked(s, back),
         Same(b2, back, Members(s))
  PROVE  DoublyLinked(s, b2)
<1>1. \A i \in DOMAIN s : s[i] \in Members(s)
  BY DEF Members
<1> QED BY <1>1 DEF DoublyLinked, Same

(* e is the first element, or there is none.                                *)
LEMMA FirstIs ==
  ASSUME NEW f, NEW e, NEW s, Chained(f, e, s)
  PROVE  /\ e = Null => s = <<>> /\ Members(s) = {}
         /\ e # Null => Len(s) # 0 /\ 1 \in 1..Len(s) /\ s[1] = e /\ e \in Members(s) /\ e \in Elems
<1>1. /\ s \in Seq(Elems) /\ Len(s) \in Nat /\ DOMAIN s = 1..Len(s)
      /\ \A i \in 1..Len(s) : s[i] \in Elems /\ s[i] # Null
      /\ Len(s) = 0 <=> s = <<>>
      /\ Members(s) = {s[i] : i \in 1..Len(s)}
  BY SeqFacts DEF Chained
<1>2. CASE Len(s) = 0
  <2>1. 1..Len(s) = {}
    BY <1>2, SMT
  <2> QED BY <1>1, <1>2, <2>1 DEF Chained
<1>3. CASE Len(s) # 0
  <2>1. 1 \in 1..Len(s)
    BY <1>1, <1>3, SMT
  <2> QED BY <1>1, <1>3, <2>1 DEF Chained
<1> QED BY <1>2, <1>3

(* HASH_ADD links x behind the last element.                                *)
LEMMA ChainBehind ==
  ASSUME NEW f \in [Elems -> Pointers], NEW e, NEW s, Chained(f, e, s), Len(s) # 0,
         NEW x \in Elems, x \notin Members(s),
         NEW g, g = [f EXCEPT ![x] = Null, ![s[Len(s)]] = x]
  PROVE  Chained(g, e, Append(s, x)) /\ Members(Append(s, x)) = Members(s) \cup {x}
<1>1. /\ s \in Seq(Elems) /\ Len(s) \in Nat /\ Distinct(s) /\ Len(s) \in 1..Len(s)
      /\ Members(s) = {s[i] : i \in 1..Len(s)} /\ e = s[1] /\ 1 \in 1..Len(s)
      /\ \A i \in 1..Len(s) : s[i] \in Elems /\ s[i] # x
  <2>1. /\ s \in Seq(Elems) /\ Len(s) \in Nat /\ Distinct(s)
        /\ Members(s) = {s[i] : i \in 1..Len(s)} /\ e = s[1]
        /\ \A i \in 1..Len(s) : s[i] \in Elems /\ s[i] # x
    BY SeqFacts DEF Chained
  <2>2. Len(s) \in 1..Len(s) /\ 1 \in 1..Len(s)
    BY <2>1, SMT
  <2> QED BY <2>1, <2>2
<1> DEFINE t == Append(s, x)
<1>2. /\ t \in Seq(Elems) /\ Len(t) = Len(s) + 1 /\ t[Len(s) + 1] = x
      /\ \A i \in 1..Len(s) : t[i] = s[i]
  BY <1>1, AppendProperties
<1>3. \A i \in 1..(Len(s) + 1) : i = Len(s) + 1 \/ i \in 1..Len(s)
  BY <1>1, SMT
<1> HIDE DEF t
<1>4. Distinct(t)
  BY <1>1, <1>2, <1>3 DEF Distinct
<1>5. e = t[1] /\ Len(t) # 0
  BY <1>1, <1>2, SMT
<1>6. g[x] = Null /\ g[s[Len(s)]] = x /\ \A y \in Elems : y # x /\ y # s[Len(s)] => g[y] = f[y]
  BY <1>1 DEF Pointers
<1>7. ASSUME NEW i \in 1..Len(t) PROVE g[t[i]] = IF i = Len(t) THEN Null ELSE t[i + 1]
  <2>1. CASE i = Len(s) + 1
    BY <1>2, <1>6, <2>1
  <2>2. CASE i = Len(s)
    <3>1. Len(s) # Len(s) + 1
      BY <1>1, SMT
    <3> QED BY <1>1, <1>2, <1>6, <2>2, <3>1
  <2>3. CASE i \in 1..Len(s) /\ i # Len(s)
    <3>1. i # Len(t) /\ i + 1 \in 1..Len(s)
      BY <1>1, <1>2, <2>3, SMT
    <3>2. s[i] # s[Len(s)]
      BY <1>1, <2>3 DEF Distinct
    <3>3. g[t[i]] = f[s[i]]
      BY <1>1, <1>2, <1>6, <2>3, <3>2
    <3>4. f[s[i]] = s[i + 1]
      BY <2>3 DEF Chained
    <3> QED BY <1>2, <3>1, <3>3, <3>4
  <2> QED BY <1>2, <1>3, <2>1, <2>2, <2>3
<1>8. Members(t) = Members(s) \cup {x}
  <2>1. Members(t) = {t[i] : i \in 1..(Len(s) + 1)}
    BY <1>2, SeqFacts
  <2>2. Len(s) + 1 \in 1..(Len(s) + 1) /\ \A i \in 1..Len(s) : i \in 1..(Len(s) + 1)
    BY <1>1, SMT
  <2> QED BY <1>1, <1>2, <1>3, <2>1, <2>2
<1>9. Chained(g, e, t)
  BY <1>2, <1>4, <1>5, <1>7 DEF Chained
<1> QED BY <1>8, <1>9 DEF t

(* The back pointers when x is linked behind the last element.              *)
LEMMA BackBehind ==
  ASSUME NEW back \in [Elems -> Pointers], NEW s \in Seq(Elems), Len(s) # 0,
         NEW x \in Elems, x \notin Members(s), DoublyLinked(s, back),
         NEW b2, b2 = [back EXCEPT ![x] = s[Len(s)]]
  PROVE  DoublyLinked(Append(s, x), b2)
<1>1. /\ Len(s) \in Nat /\ DOMAIN s = 1..Len(s) /\ Members(s) = {s[i] : i \in 1..Len(s)}
      /\ \A i \in 1..Len(s) : s[i] \in Elems /\ s[i] # x
  BY SeqFacts
<1> DEFINE t == Append(s, x)
<1>2. /\ t \in Seq(Elems) /\ Len(t) = Len(s) + 1 /\ t[Len(s) + 1] = x
      /\ \A i \in 1..Len(s) : t[i] = s[i]
  BY AppendProperties
<1> HIDE DEF t
<1>3. \A i \in 1..(Len(s) + 1) : i = Len(s) + 1 \/ i \in 1..Len(s)
  BY <1>1, SMT
<1>4. ASSUME NEW i \in 1..(Len(s) + 1) PROVE b2[t[i]] = IF i = 1 THEN Null ELSE t[i - 1]
  <2>1. CASE i = Len(s) + 1
    <3>1. i # 1 /\ i - 1 = Len(s) /\ Len(s) \in 1..Len(s)
      BY <1>1, <2>1, SMT
    <3> QED BY <1>2, <2>1, <3>1
  <2>2. CASE i \in 1..Len(s)
    <3>1. b2[t[i]] = back[s[i]]
      BY <1>1, <1>2, <2>2
    <3>2. i = 1 \/ i - 1 \in 1..Len(s)
      BY <1>1, <2>2, SMT
    <3>3. back[s[i]] = IF i = 1 THEN Null ELSE s[i - 1]
      BY <1>1, <2>2 DEF DoublyLinked
    <3> QED BY <1>2, <3>1, <3>2, <3>3
  <2> QED BY <1>3, <2>1, <2>2
<1>5. DOMAIN t = 1..(Len(s) + 1)
  BY <1>2, SeqFacts
<1> QED BY <1>4, <1>5 DEF DoublyLinked, t

(* HASH_ADD_TO_BKT links x in front of a chain.                             *)
LEMMA ChainBefore ==
  ASSUME NEW f, NEW e, NEW s, Chained(f, e, s),
         NEW x \in Elems, x \notin Members(s),
         NEW g, g[x] = e, Same(g, f, Members(s))
  PROVE  Chained(g, x, Before(x, s))
<1>1. /\ s \in Seq(Elems) /\ Len(s) \in Nat /\ Distinct(s)
      /\ \A i \in 1..Len(s) : s[i] \in Members(s) /\ s[i] # x
  BY SeqFacts DEF Chained
<1>2. /\ Before(x, s) \in Seq(Elems) /\ Len(Before(x, s)) = Len(s) + 1 /\ Before(x, s)[1] = x
      /\ \A i \in 2..(Len(s) + 1) : Before(x, s)[i] = s[i - 1] /\ i - 1 \in 1..Len(s)
  BY <1>1, BeforeIs
<1>3. \A i \in 1..(Len(s) + 1) : i = 1 \/ i \in 2..(Len(s) + 1)
  BY <1>1, SMT
<1>4. Distinct(Before(x, s))
  <2> SUFFICES ASSUME NEW i \in 1..(Len(s) + 1), NEW j \in 1..(Len(s) + 1),
                      Before(x, s)[i] = Before(x, s)[j]
               PROVE  i = j
    BY <1>2 DEF Distinct
  <2>1. CASE i = 1 \/ j = 1
    <3>1. \A k \in 2..(Len(s) + 1) : Before(x, s)[k] # x
      BY <1>1, <1>2
    <3> QED BY <1>2, <1>3, <2>1, <3>1
  <2>2. CASE i \in 2..(Len(s) + 1) /\ j \in 2..(Len(s) + 1)
    <3>1. i - 1 = j - 1
      BY <1>1, <1>2, <2>2 DEF Distinct
    <3> QED BY <1>1, <3>1, SMT
  <2> QED BY <1>3, <2>1, <2>2
<1>5. ASSUME NEW i \in 1..(Len(s) + 1)
      PROVE  g[Before(x, s)[i]] = IF i = Len(s) + 1 THEN Null ELSE Before(x, s)[i + 1]
  <2>1. CASE i = 1
    <3>1. CASE Len(s) = 0
      BY <1>2, <2>1, <3>1 DEF Chained
    <3>2. CASE Len(s) # 0
      <4>1. i # Len(s) + 1 /\ 2 \in 2..(Len(s) + 1) /\ i + 1 = 2 /\ 2 - 1 = 1
        BY <1>1, <2>1, <3>2, SMT
      <4>2. Before(x, s)[2] = s[1]
        BY <1>2, <4>1
      <4> QED BY <1>2, <2>1, <3>2, <4>1, <4>2 DEF Chained
    <3> QED BY <3>1, <3>2
  <2>2. CASE i \in 2..(Len(s) + 1)
    <3>1. g[Before(x, s)[i]] = f[s[i - 1]] /\ i - 1 \in 1..Len(s)
      BY <1>1, <1>2, <2>2 DEF Same
    <3>2. f[s[i - 1]] = IF i - 1 = Len(s) THEN Null ELSE s[i - 1 + 1]
      BY <3>1 DEF Chained
    <3>3. (i - 1 = Len(s) <=> i = Len(s) + 1) /\ i - 1 + 1 = i /\ i + 1 - 1 = i
      BY <1>1, SMT
    <3>4. i # Len(s) + 1 => i + 1 \in 2..(Len(s) + 1)
      BY <1>1, SMT
    <3>5. i # Len(s) + 1 => Before(x, s)[i + 1] = s[i]
      BY <1>2, <3>3, <3>4
    <3> QED BY <3>1, <3>2, <3>3, <3>5
  <2> QED BY <1>3, <2>1, <2>2
<1>6. Len(s) + 1 # 0
  BY <1>1, SMT
<1> QED BY <1>2, <1>4, <1>5, <1>6 DEF Chained

(* The back pointers when x is linked in front of a chain.                  *)
LEMMA BackBefore ==
  ASSUME NEW back \in [Elems -> Pointers], NEW f, NEW e, NEW s, Chained(f, e, s),
         DoublyLinked(s, back), NEW x \in Elems, x \notin Members(s),
         NEW b2, b2 = Set([back EXCEPT ![x] = Null], e, x)
  PROVE  DoublyLinked(Before(x, s), b2)
<1>1. /\ s \in Seq(Elems) /\ Len(s) \in Nat /\ Distinct(s) /\ DOMAIN s = 1..Len(s)
      /\ \A i \in 1..Len(s) : s[i] \in Members(s) /\ s[i] # x /\ s[i] \in Elems
  BY SeqFacts DEF Chained
<1>2. /\ Before(x, s) \in Seq(Elems) /\ Len(Before(x, s)) = Len(s) + 1 /\ Before(x, s)[1] = x
      /\ \A i \in 2..(Len(s) + 1) : Before(x, s)[i] = s[i - 1] /\ i - 1 \in 1..Len(s)
  BY <1>1, BeforeIs
<1>3. \A i \in 1..(Len(s) + 1) : i = 1 \/ i \in 2..(Len(s) + 1)
  BY <1>1, SMT
<1>4. /\ b2[x] = Null
      /\ Len(s) # 0 => b2[s[1]] = x
      /\ \A i \in 1..Len(s) : i # 1 => b2[s[i]] = back[s[i]]
  <2>1. CASE e = Null
    <3>1. 1..Len(s) = {}
      BY <2>1, FirstIs, <1>1, SMT
    <3>2. b2 = [back EXCEPT ![x] = Null]
      BY <2>1 DEF Set
    <3> QED BY <2>1, <3>1, <3>2, FirstIs
  <2>2. CASE e # Null
    <3>1. Len(s) # 0 /\ 1 \in 1..Len(s) /\ s[1] = e /\ e \in Elems /\ e # x
      BY <1>1, <2>2, FirstIs
    <3>2. b2 = [[back EXCEPT ![x] = Null] EXCEPT ![e] = x]
      BY <2>2 DEF Set
    <3>3. \A i \in 1..Len(s) : i # 1 => s[i] # e
      BY <1>1, <3>1 DEF Distinct
    <3> QED BY <1>1, <3>1, <3>2, <3>3
  <2> QED BY <2>1, <2>2
<1>5. ASSUME NEW i \in 1..(Len(s) + 1)
      PROVE  b2[Before(x, s)[i]] = IF i = 1 THEN Null ELSE Before(x, s)[i - 1]
  <2>1. CASE i = 1
    BY <1>2, <1>4, <2>1
  <2>2. CASE i = 2 /\ i \in 2..(Len(s) + 1)
    <3>1. Before(x, s)[2] = s[1] /\ Len(s) # 0
      <4>1. 2 - 1 = 1 /\ Len(s) # 0
        BY <1>1, <2>2, SMT
      <4> QED BY <1>2, <2>2, <4>1
    <3>2. i - 1 = 1 /\ i # 1
      BY <2>2
    <3> QED BY <1>2, <1>4, <2>2, <3>1, <3>2
  <2>3. CASE i # 2 /\ i \in 2..(Len(s) + 1)
    <3>1. i - 1 \in 2..(Len(s) + 1) /\ i - 1 # 1 /\ i # 1 /\ i - 1 \in 1..Len(s)
      BY <1>1, <2>3, SMT
    <3>2. b2[Before(x, s)[i]] = back[s[i - 1]]
      BY <1>2, <1>4, <2>3, <3>1
    <3>3. back[s[i - 1]] = s[i - 1 - 1]
      BY <1>1, <3>1 DEF DoublyLinked
    <3> QED BY <1>2, <3>1, <3>2, <3>3
  <2> QED BY <1>3, <2>1, <2>2, <2>3
<1>6. DOMAIN Before(x, s) = 1..(Len(s) + 1)
  BY <1>2, SeqFacts
<1> QED BY <1>5, <1>6 DEF DoublyLinked

(* From the second element on a chain is one, too.                          *)
LEMMA ChainRest ==
  ASSUME NEW f, NEW e, NEW s, Chained(f, e, s), e # Null
  PROVE  /\ Chained(f, f[e], Rest(s))
         /\ Members(Rest(s)) = Members(s) \ {e} /\ e \in Members(s) /\ e \in Elems
<1>1. /\ s \in Seq(Elems) /\ Len(s) \in Nat /\ Distinct(s)
  BY SeqFacts DEF Chained
<1>2. Len(s) # 0 /\ 1 \in 1..Len(s) /\ s[1] = e /\ e \in Elems
  BY FirstIs
<1>3. /\ Rest(s) \in Seq(Elems) /\ Len(Rest(s)) = Len(s) - 1
      /\ \A i \in 1..(Len(s) - 1) : Rest(s)[i] = s[i + 1] /\ i + 1 \in 1..Len(s)
      /\ Members(Rest(s)) = Members(s) \ {s[1]} /\ s[1] \in Members(s)
  BY <1>1, <1>2, RestIs
<1>4. Distinct(Rest(s))
  <2> SUFFICES ASSUME NEW i \in 1..(Len(s) - 1), NEW j \in 1..(Len(s) - 1),
                      Rest(s)[i] = Rest(s)[j]
               PROVE  i = j
    BY <1>3 DEF Distinct
  <2>1. i + 1 = j + 1
    BY <1>1, <1>3 DEF Distinct
  <2> QED BY <1>1, <2>1, SMT
<1>5. f[e] = IF Len(s) - 1 = 0 THEN Null ELSE Rest(s)[1]
  <2>1. f[e] = IF 1 = Len(s) THEN Null ELSE s[1 + 1]
    BY <1>2 DEF Chained
  <2>2. Len(s) - 1 = 0 <=> 1 = Len(s)
    BY <1>1, SMT
  <2>3. Len(s) # 1 => 1 \in 1..(Len(s) - 1)
    BY <1>1, <1>2, Within
  <2> QED BY <1>3, <2>1, <2>2, <2>3
<1>6. ASSUME NEW i \in 1..(Len(s) - 1)
      PROVE  f[Rest(s)[i]] = IF i = Len(s) - 1 THEN Null ELSE Rest(s)[i + 1]
  <2>1. f[s[i + 1]] = IF i + 1 = Len(s) THEN Null ELSE s[i + 1 + 1]
    BY <1>3 DEF Chained
  <2>2. /\ i = Len(s) - 1 <=> i + 1 = Len(s)
        /\ i # Len(s) - 1 => i + 1 \in 1..(Len(s) - 1)
    BY <1>1, SMT
  <2> QED BY <1>3, <2>1, <2>2
<1>7. Chained(f, f[e], Rest(s))
  BY <1>3, <1>4, <1>5, <1>6 DEF Chained
<1> QED BY <1>2, <1>3, <1>7

(* HASH_DELETE takes x out of the links f, whose links back are back.       *)
Unlinked(f, back, x) == [Set(f, back[x], f[x]) EXCEPT ![x] = Null]

(* What the fields are when x is unlinked.                                  *)
LEMMA UnlinkedIs ==
  ASSUME NEW f \in [Elems -> Pointers], NEW back \in [Elems -> Pointers], NEW x \in Elems,
         back[x] # x
  PROVE  /\ Unlinked(f, back, x) \in [Elems -> Pointers]
         /\ \A y \in Elems : y # x => Unlinked(f, back, x)[y] = IF y = back[x] THEN f[x] ELSE f[y]
<1>1. CASE back[x] = Null
  <2>1. Unlinked(f, back, x) = [f EXCEPT ![x] = Null]
    BY <1>1 DEF Unlinked, Set
  <2> QED BY <1>1, <2>1, ElemsAssumption DEF Pointers
<1>2. CASE back[x] # Null
  <2>1. Unlinked(f, back, x) = [[f EXCEPT ![back[x]] = f[x]] EXCEPT ![x] = Null]
    BY <1>2 DEF Unlinked, Set
  <2>2. back[x] \in Elems /\ f[x] \in Pointers
    BY <1>2 DEF Pointers
  <2> QED BY <2>1, <2>2, ElemsAssumption DEF Pointers
<1> QED BY <1>1, <1>2

(* The neighbours of an element.                                            *)
LEMMA Neighbours ==
  ASSUME NEW f, NEW e, NEW back, NEW s, Chained(f, e, s), DoublyLinked(s, back),
         NEW n \in 1..Len(s)
  PROVE  /\ s[n] \in Elems /\ s[n] # Null /\ e \in Elems /\ Len(s) # 0 /\ 1 \in 1..Len(s)
         /\ n \in Nat /\ Len(s) \in Nat
         /\ back[s[n]] = IF n = 1 THEN Null ELSE s[n - 1]
         /\ f[s[n]] = IF n = Len(s) THEN Null ELSE s[n + 1]
         /\ back[s[n]] # s[n] /\ f[s[n]] # s[n]
         /\ n = 1 <=> e = s[n]
         /\ n = 1 <=> back[s[n]] = Null
         /\ n = Len(s) <=> f[s[n]] = Null
         /\ n # 1 => n - 1 \in 1..Len(s) /\ n - 1 # n
         /\ n # Len(s) => n + 1 \in 1..Len(s) /\ n + 1 # n
<1>1. /\ s \in Seq(Elems) /\ Len(s) \in Nat /\ Distinct(s) /\ DOMAIN s = 1..Len(s)
      /\ \A i \in 1..Len(s) : s[i] \in Elems /\ s[i] # Null
  BY SeqFacts DEF Chained
<1>2. /\ Len(s) # 0 /\ n \in Nat
      /\ n # 1 => n - 1 \in 1..Len(s) /\ n - 1 # n
      /\ n # Len(s) => n + 1 \in 1..Len(s) /\ n + 1 # n
      /\ 1 \in 1..Len(s)
  BY <1>1, Within
<1>3. e = s[1]
  BY <1>2 DEF Chained
<1>4. back[s[n]] = IF n = 1 THEN Null ELSE s[n - 1]
  BY <1>1 DEF DoublyLinked
<1>5. f[s[n]] = IF n = Len(s) THEN Null ELSE s[n + 1]
  BY DEF Chained
<1>6. n # 1 => s[n - 1] # s[n] /\ s[1] # s[n]
  BY <1>1, <1>2 DEF Distinct
<1>7. n # Len(s) => s[n + 1] # s[n]
  BY <1>1, <1>2 DEF Distinct
<1> QED BY <1>1, <1>2, <1>3, <1>4, <1>5, <1>6, <1>7

(* Indices with one left out.                                               *)
Skip(i, n) == IF i < n THEN i ELSE i + 1

(* Where the elements are that remain when the n-th is taken out.           *)
LEMMA SkipIs ==
  \A m \in Nat : \A n \in 1..m :
    /\ m - 1 \in Nat
    /\ \A i \in 1..(m - 1) : Skip(i, n) \in 1..m /\ Skip(i, n) # n
    /\ \A i, j \in 1..(m - 1) : Skip(i, n) = Skip(j, n) => i = j
    /\ n = 1 => Skip(1, n) = 2
    /\ n # 1 => Skip(1, n) = 1
  BY DEF Skip

(* The element after the i-th of those that remain.                         *)
LEMMA SkipUp ==
  ASSUME NEW m \in Nat, NEW n \in 1..m, NEW i \in 1..(m - 1), NEW k, k = Skip(i, n)
  PROVE  /\ i = m - 1 <=> (k = m \/ (k + 1 = n /\ n = m))
         /\ i # m - 1 => /\ i + 1 \in 1..(m - 1)
                         /\ k + 1 # n => Skip(i + 1, n) = k + 1
                         /\ k + 1 = n => Skip(i + 1, n) = n + 1 /\ n # m
BY DEF Skip

(* The element before the i-th of those that remain.                        *)
LEMMA SkipDown ==
  ASSUME NEW m \in Nat, NEW n \in 1..m, NEW i \in 1..(m - 1), NEW k, k = Skip(i, n)
  PROVE  /\ i = 1 <=> (k = 1 \/ (k - 1 = n /\ n = 1))
         /\ i # 1 => /\ i - 1 \in 1..(m - 1)
                     /\ k - 1 # n => Skip(i - 1, n) = k - 1
                     /\ k - 1 = n => Skip(i - 1, n) = n - 1 /\ n # 1
BY DEF Skip

(* The i-th of the elements that remain.                                    *)
LEMMA MinusSkips ==
  ASSUME NEW s \in Seq(Elems), Distinct(s), NEW n \in 1..Len(s)
  PROVE  \A i \in 1..(Len(s) - 1) : Minus(s, n)[i] = s[Skip(i, n)]
BY DEF Minus, Skip

(* HASH_DELETE and HASH_DEL_IN_BKT unlink the n-th element.                 *)
LEMMA ChainMinus ==
  ASSUME NEW f, NEW e, NEW back, NEW s, Chained(f, e, s), DoublyLinked(s, back),
         NEW n \in 1..Len(s), NEW x, x = s[n],
         NEW g, \A y \in Elems : y # x => g[y] = IF y = back[x] THEN f[x] ELSE f[y]
  PROVE  Chained(g, IF e = x THEN f[x] ELSE e, Minus(s, n))
<1>1. s \in Seq(Elems) /\ Distinct(s) /\ \A i \in 1..Len(s) : s[i] \in Elems /\ s[i] # Null
  BY SeqFacts DEF Chained
<1>2. PICK m \in Nat : m = Len(s)
  BY <1>1, SeqFacts
<1>3. n \in 1..m /\ Minus(s, n) \in Seq(Elems) /\ Len(Minus(s, n)) = m - 1
  BY <1>1, <1>2, MinusIs
<1>4. \A i \in 1..(m - 1) : Minus(s, n)[i] = s[Skip(i, n)]
  BY <1>1, <1>2, MinusSkips
<1>5. \A i \in 1..(m - 1) : Skip(i, n) \in 1..m /\ Skip(i, n) # n
  BY <1>3, SkipIs
<1>6. \A i, j \in 1..m : s[i] = s[j] => i = j
  BY <1>1, <1>2 DEF Distinct
<1>7. Distinct(Minus(s, n))
  <2>1. \A i, j \in 1..(m - 1) : Skip(i, n) = Skip(j, n) => i = j
    BY <1>3, SkipIs
  <2> QED BY <1>3, <1>4, <1>5, <1>6, <2>1 DEF Distinct
<1>8. /\ back[x] = IF n = 1 THEN Null ELSE s[n - 1]
      /\ f[x] = IF n = m THEN Null ELSE s[n + 1]
      /\ n = 1 <=> e = x
      /\ n # 1 => n - 1 \in 1..m
      /\ e = s[1] /\ m # 0 /\ 1 \in 1..m
  <2>1. m # 0
    BY <1>3, Within
  <2> QED BY <1>2, <2>1, Neighbours DEF Chained
<1>9. (IF e = x THEN f[x] ELSE e) = IF m - 1 = 0 THEN Null ELSE Minus(s, n)[1]
  <2>1. CASE m = 1
    <3>1. n = 1 /\ n = m /\ m - 1 = 0
      BY <1>3, <2>1, SMT
    <3> QED BY <1>8, <3>1
  <2>2. CASE m # 1
    <3>1. m - 1 # 0 /\ 1 \in 1..(m - 1)
      BY <1>8, <2>2, Within, SMT
    <3>2. (n = 1 => Skip(1, n) = 2) /\ (n # 1 => Skip(1, n) = 1)
      BY <1>3, <3>1, SkipIs
    <3>3. n = 1 => n # m /\ n + 1 = 2
      BY <2>2
    <3> QED BY <1>4, <1>8, <3>1, <3>2, <3>3
  <2> QED BY <2>1, <2>2
<1>10. ASSUME NEW i \in 1..(m - 1)
       PROVE  g[Minus(s, n)[i]] = IF i = m - 1 THEN Null ELSE Minus(s, n)[i + 1]
  <2>1. PICK k \in 1..m : k = Skip(i, n) /\ k # n
    BY <1>5
  <2>2. /\ i = m - 1 <=> (k = m \/ (k + 1 = n /\ n = m))
        /\ i # m - 1 => /\ i + 1 \in 1..(m - 1)
                        /\ k + 1 # n => Skip(i + 1, n) = k + 1
                        /\ k + 1 = n => Skip(i + 1, n) = n + 1 /\ n # m
    BY <1>3, <2>1, SkipUp
  <2>3. Minus(s, n)[i] = s[k] /\ s[k] # x /\ s[k] \in Elems
    BY <1>1, <1>2, <1>3, <1>4, <1>6, <2>1
  <2>4. i # m - 1 => Minus(s, n)[i + 1] = s[Skip(i + 1, n)]
    BY <1>4, <2>2
  <2>5. f[s[k]] = IF k = m THEN Null ELSE s[k + 1]
    BY <1>2 DEF Chained
  <2>6. k + 1 = n <=> (n # 1 /\ k = n - 1)
    BY <1>3, <2>1, SMT
  <2>7. s[k] = back[x] <=> k + 1 = n
    BY <1>1, <1>2, <1>6, <1>8, <2>6
  <2>8. k + 1 = n => k # m
    BY <1>3, <2>1, SMT
  <2>9. g[s[k]] = IF k + 1 = n THEN f[x] ELSE f[s[k]]
    BY <2>3, <2>7
  <2>10. CASE k + 1 = n
    BY <1>8, <2>2, <2>3, <2>4, <2>8, <2>9, <2>10
  <2>11. CASE k + 1 # n
    BY <2>2, <2>3, <2>4, <2>5, <2>9, <2>11
  <2> QED BY <2>10, <2>11
<1> QED BY <1>3, <1>7, <1>9, <1>10 DEF Chained

(* The back pointers when the n-th element is unlinked.                     *)
LEMMA BackMinus ==
  ASSUME NEW f, NEW e, NEW back, NEW s, Chained(f, e, s), DoublyLinked(s, back),
         NEW n \in 1..Len(s), NEW x, x = s[n],
         NEW b2, \A y \in Elems : y # x => b2[y] = IF y = f[x] THEN back[x] ELSE back[y]
  PROVE  DoublyLinked(Minus(s, n), b2)
<1>1. /\ s \in Seq(Elems) /\ Distinct(s) /\ DOMAIN s = 1..Len(s)
      /\ \A i \in 1..Len(s) : s[i] \in Elems /\ s[i] # Null
  BY SeqFacts DEF Chained
<1>2. PICK m \in Nat : m = Len(s)
  BY <1>1, SeqFacts
<1>3. n \in 1..m /\ Minus(s, n) \in Seq(Elems) /\ Len(Minus(s, n)) = m - 1
  BY <1>1, <1>2, MinusIs
<1>4. \A i \in 1..(m - 1) : Minus(s, n)[i] = s[Skip(i, n)]
  BY <1>1, <1>2, MinusSkips
<1>5. \A i \in 1..(m - 1) : Skip(i, n) \in 1..m /\ Skip(i, n) # n
  BY <1>3, SkipIs
<1>6. \A i, j \in 1..m : s[i] = s[j] => i = j
  BY <1>1, <1>2 DEF Distinct
<1>8. /\ back[x] = IF n = 1 THEN Null ELSE s[n - 1]
      /\ f[x] = IF n = m THEN Null ELSE s[n + 1]
      /\ n # m => n + 1 \in 1..m
  BY <1>2, Neighbours
<1>10. ASSUME NEW i \in 1..(m - 1)
       PROVE  b2[Minus(s, n)[i]] = IF i = 1 THEN Null ELSE Minus(s, n)[i - 1]
  <2>1. PICK k \in 1..m : k = Skip(i, n) /\ k # n
    BY <1>5
  <2>2. /\ i = 1 <=> (k = 1 \/ (k - 1 = n /\ n = 1))
        /\ i # 1 => /\ i - 1 \in 1..(m - 1)
                    /\ k - 1 # n => Skip(i - 1, n) = k - 1
                    /\ k - 1 = n => Skip(i - 1, n) = n - 1 /\ n # 1
    BY <1>3, <2>1, SkipDown
  <2>3. Minus(s, n)[i] = s[k] /\ s[k] # x /\ s[k] \in Elems
    BY <1>1, <1>2, <1>3, <1>4, <1>6, <2>1
  <2>4. i # 1 => Minus(s, n)[i - 1] = s[Skip(i - 1, n)]
    BY <1>4, <2>2
  <2>5. back[s[k]] = IF k = 1 THEN Null ELSE s[k - 1]
    BY <1>1, <1>2 DEF DoublyLinked
  <2>6. k - 1 = n <=> (n # m /\ k = n + 1)
    BY <1>3, <2>1, SMT
  <2>7. s[k] = f[x] <=> k - 1 = n
    BY <1>1, <1>2, <1>6, <1>8, <2>6
  <2>8. k - 1 = n => k # 1
    BY <1>3, <2>1, SMT
  <2>9. b2[s[k]] = IF k - 1 = n THEN back[x] ELSE back[s[k]]
    BY <2>3, <2>7
  <2>10. CASE k - 1 = n
    BY <1>8, <2>2, <2>3, <2>4, <2>8, <2>9, <2>10
  <2>11. CASE k - 1 # n
    BY <2>2, <2>3, <2>4, <2>5, <2>9, <2>11
  <2> QED BY <2>10, <2>11
<1>11. DOMAIN Minus(s, n) = 1..(m - 1)
  BY <1>3, SeqFacts
<1> QED BY <1>10, <1>11 DEF DoublyLinked

(* The links without s[n].                                                  *)
LEMMA LinksMinus ==
  ASSUME NEW f \in [Elems -> Pointers], NEW back \in [Elems -> Pointers], NEW e, NEW s,
         Chained(f, e, s), DoublyLinked(s, back), NEW n \in 1..Len(s), NEW x, x = s[n]
  PROVE  /\ Unlinked(f, back, x) \in [Elems -> Pointers]
         /\ Unlinked(back, f, x) \in [Elems -> Pointers]
         /\ Chained(Unlinked(f, back, x), IF e = x THEN f[x] ELSE e, Minus(s, n))
         /\ DoublyLinked(Minus(s, n), Unlinked(back, f, x))
         /\ \A y \in Elems : y # x => Unlinked(f, back, x)[y] = IF y = back[x] THEN f[x] ELSE f[y]
         /\ \A y \in Elems : y # x => Unlinked(back, f, x)[y] = IF y = f[x] THEN back[x] ELSE back[y]
<1>1. x \in Elems /\ back[x] # x /\ f[x] # x
  BY Neighbours
<1>2. /\ Unlinked(f, back, x) \in [Elems -> Pointers]
      /\ \A y \in Elems : y # x => Unlinked(f, back, x)[y] = IF y = back[x] THEN f[x] ELSE f[y]
  BY <1>1, UnlinkedIs
<1>3. /\ Unlinked(back, f, x) \in [Elems -> Pointers]
      /\ \A y \in Elems : y # x => Unlinked(back, f, x)[y] = IF y = f[x] THEN back[x] ELSE back[y]
  BY <1>1, UnlinkedIs
<1>4. Chained(Unlinked(f, back, x), IF e = x THEN f[x] ELSE e, Minus(s, n))
  BY <1>2, ChainMinus
<1>5. DoublyLinked(Minus(s, n), Unlinked(back, f, x))
  BY <1>3, BackMinus
<1> QED BY <1>2, <1>3, <1>4, <1>5

(* The last element, when one is taken away.                                *)
LEMMA LastMinus ==
  ASSUME NEW s \in Seq(Elems), Distinct(s), NEW n \in 1..Len(s), Len(s) # 1
  PROVE  /\ Len(Minus(s, n)) # 0
         /\ Minus(s, n)[Len(Minus(s, n))] = IF n = Len(s) THEN s[n - 1] ELSE s[Len(s)]
<1>1. PICK m \in Nat : m = Len(s)
  BY SeqFacts
<1>2. Len(Minus(s, n)) = m - 1 /\ n \in 1..m
  BY <1>1, MinusIs
<1>3. m - 1 # 0 /\ m - 1 \in 1..(m - 1) /\ (n = m <=> m - 1 < n) /\ m - 1 + 1 = m
  BY <1>1, <1>2, SMT
<1>4. Minus(s, n)[m - 1] = IF m - 1 < n THEN s[m - 1] ELSE s[m - 1 + 1]
  BY <1>1, <1>3 DEF Minus
<1> QED BY <1>1, <1>2, <1>3, <1>4
-----------------------------------------------------------------------------
(* The list.                                                                *)

Where == {"idle", "make", "chain", "publish", "expand", "move", "swap", "iter"}

LinkTypes ==
  /\ head \in Pointers /\ tail \in Pointers /\ add \in Pointers
  /\ next \in [Elems -> Pointers] /\ prev \in [Elems -> Pointers]
  /\ writer \in Where

Adding == writer \in {"make", "chain", "publish"}

(* next and prev are a list from head to tail, and an element that is being *)
(* added is its last one.                                                   *)
ListOK ==
  /\ IsChain(next, head) /\ DoublyLinked(Order, prev)
  /\ writer # "make" /\ head # Null => tail = Order[Len(Order)]
  /\ writer = "make" => Len(Order) = 1
  /\ Adding => head # Null /\ add = Order[Len(Order)]

(* HASH_DELETE takes the element it is given out of the list.               *)
LEMMA DeleteList ==
  ASSUME LinkTypes, IsChain(next, head), DoublyLinked(Order, prev),
         tail = Order[Len(Order)], NEW n \in 1..Len(Order), HASH_DELETE(Order[n])
  PROVE  /\ Chained(next, head, Order) /\ Chained(next, head, Order)'
         /\ IsChain(next, head)' /\ Order' = Minus(Order, n) /\ DoublyLinked(Order, prev)'
         /\ head' # Null => tail' = Order'[Len(Order')]
         /\ head' \in Pointers /\ tail' \in Pointers
         /\ next' \in [Elems -> Pointers] /\ prev' \in [Elems -> Pointers]
         /\ next' = Unlinked(next, prev, Order[n])
         /\ Sole(Order[n]) <=> Len(Order) = 1
         /\ Sole(Order[n]) <=> head' = Null
<1>1. PICK s : s = Order /\ Chained(next, head, s)
  BY DEF IsChain, Order
<1>2. s \in Seq(Elems) /\ Distinct(s) /\ Len(s) \in Nat /\ DoublyLinked(s, prev) /\ n \in 1..Len(s)
  BY <1>1, SeqFacts DEF Chained
<1>3. PICK x : x = s[n]
  OBVIOUS
<1>4. HASH_DELETE(x)
  BY <1>1, <1>3
<1>5. next' = Unlinked(next, prev, x) /\ prev' = Unlinked(prev, next, x)
  BY <1>4 DEF HASH_DELETE, Unlinked
<1>6. PICK f, b : f = next /\ b = prev
  OBVIOUS
<1>7. f \in [Elems -> Pointers] /\ b \in [Elems -> Pointers]
  BY <1>6 DEF LinkTypes
<1>8. /\ Unlinked(f, b, x) \in [Elems -> Pointers] /\ Unlinked(b, f, x) \in [Elems -> Pointers]
      /\ Chained(Unlinked(f, b, x), IF head = x THEN f[x] ELSE head, Minus(s, n))
      /\ DoublyLinked(Minus(s, n), Unlinked(b, f, x))
  BY <1>1, <1>2, <1>3, <1>6, <1>7, LinksMinus
<1>9. /\ x \in Elems /\ 1 \in 1..Len(s)
      /\ b[x] = IF n = 1 THEN Null ELSE s[n - 1]
      /\ f[x] = IF n = Len(s) THEN Null ELSE s[n + 1]
      /\ n = 1 <=> head = x
      /\ n = 1 <=> b[x] = Null
      /\ n = Len(s) <=> f[x] = Null
  BY <1>1, <1>2, <1>3, <1>6, Neighbours
<1>10. Sole(x) <=> Len(s) = 1
  <2>1. Sole(x) <=> n = 1 /\ n = Len(s)
    BY <1>6, <1>9 DEF Sole
  <2>2. Len(s) = 1 => n = 1
    BY <1>2, SMT
  <2> QED BY <2>1, <2>2
<1>11. head' = IF head = x THEN f[x] ELSE head
  <2>1. CASE Sole(x)
    BY <1>4, <1>6, <1>9, <2>1 DEF HASH_DELETE, Sole
  <2>2. CASE ~Sole(x)
    BY <1>4, <1>6, <1>9, <2>2 DEF HASH_DELETE, HeadWithout
  <2> QED BY <2>1, <2>2
<1>12. Chained(next', head', Minus(s, n))
  BY <1>5, <1>6, <1>8, <1>11
<1>13. Along(next', head') = Minus(s, n)
  BY <1>12, AlongIs
<1>14. Order' = Minus(s, n) /\ Chained(next, head, Order)' /\ IsChain(next, head)'
  <2>1. Order' = Minus(s, n)
    BY <1>13 DEF Order
  <2>2. Chained(next', head', Order') /\ Chained(next', head', Along(next', head'))
    BY <1>12, <1>13, <2>1
  <2> QED BY <2>1, <2>2 DEF IsChain, Chained, Distinct
<1>15. DoublyLinked(Order, prev)'
  <2>1. DoublyLinked(Order', prev')
    BY <1>5, <1>6, <1>8, <1>14
  <2> QED BY <2>1 DEF DoublyLinked
<1>16. CASE Sole(x)
  <2>1. head' = Null /\ tail' = Null
    BY <1>4, <1>16 DEF HASH_DELETE
  <2> QED BY <1>1, <1>3, <1>5, <1>6, <1>8, <1>10, <1>14, <1>15, <1>16, <2>1 DEF Pointers
<1>17. CASE ~Sole(x)
  <2>1. tail' = IF x = tail THEN b[x] ELSE tail
    BY <1>4, <1>6, <1>17 DEF HASH_DELETE
  <2>2. Len(s) # 1
    BY <1>10, <1>17
  <2>3. /\ Len(Minus(s, n)) # 0
        /\ Minus(s, n)[Len(Minus(s, n))] = IF n = Len(s) THEN s[n - 1] ELSE s[Len(s)]
    BY <1>2, <2>2, LastMinus
  <2>4. tail = s[Len(s)] /\ Len(s) \in 1..Len(s)
    <3>1. Len(s) \in 1..Len(s)
      BY <1>2, <1>9, SMT
    <3> QED BY <1>1, <3>1
  <2>5. x = tail <=> n = Len(s)
    BY <1>2, <1>3, <2>4 DEF Distinct
  <2>6. n = Len(s) => n # 1
    BY <2>2
  <2>7. tail' = Order'[Len(Order')]
    BY <1>9, <1>14, <2>1, <2>3, <2>4, <2>5, <2>6
  <2>8. tail' \in Pointers /\ head' \in Pointers
    BY <1>6, <1>7, <1>9, <1>11, <2>1 DEF LinkTypes
  <2>10. head' # Null
    <3>1. Minus(s, n) \in Seq(Elems)
      BY <1>12 DEF Chained
    <3>2. head' = Minus(s, n)[1] /\ 1 \in 1..Len(Minus(s, n))
      BY <1>12, <2>3, <3>1, SeqFacts, Within DEF Chained
    <3> QED BY <3>1, <3>2, SeqFacts
  <2> QED BY <1>1, <1>3, <1>5, <1>6, <1>8, <1>10, <1>14, <1>15, <1>17, <2>7, <2>8, <2>10
<1> QED BY <1>16, <1>17

(* A chain of one element.                                                  *)
LEMMA SingleIs ==
  ASSUME NEW x \in Elems, NEW g, NEW b, g[x] = Null, b[x] = Null
  PROVE  Chained(g, x, <<x>>) /\ DoublyLinked(<<x>>, b) /\ Members(<<x>>) = {x}
<1>1. <<x>> \in Seq(Elems) /\ Len(<<x>>) = 1 /\ <<x>>[1] = x /\ DOMAIN <<x>> = 1..1
  OBVIOUS
<1>2. 1..1 = {1}
  BY SMT
<1>3. Distinct(<<x>>)
  BY <1>1, <1>2 DEF Distinct
<1> QED BY <1>1, <1>2, <1>3 DEF Chained, DoublyLinked, Members

(* The first element of a list.                                             *)
LEMMA AppendNone == \A x \in Elems : Append(<<>>, x) = <<x>> /\ Len(<<x>>) = 1
  OBVIOUS

(* HASH_ADD links the new element at the end of the list.                   *)
LEMMA AddList ==
  ASSUME LinkTypes, ListOK, NEW e \in Elems, AddLink(e)
  PROVE  /\ Order \in Seq(Elems) /\ e \notin Members(Order)
         /\ IsChain(next, head)' /\ Order' = Append(Order, e) /\ DoublyLinked(Order, prev)'
         /\ LinkTypes' /\ ListOK'
<1>1. PICK s : s = Order /\ Chained(next, head, s)
  BY DEF IsChain, Order, ListOK
<1>2. s \in Seq(Elems) /\ Distinct(s) /\ Len(s) \in Nat /\ DoublyLinked(s, prev)
  BY <1>1, SeqFacts DEF Chained, ListOK
<1>3. e \notin Members(s) /\ writer = "idle" /\ add' = e /\ e \in Pointers /\ e # Null
  BY <1>1, ElemsAssumption DEF AddLink, Listed, Pointers
<1>4. PICK f, b : f = next /\ b = prev /\ f \in [Elems -> Pointers] /\ b \in [Elems -> Pointers]
  BY DEF LinkTypes
<1>5. /\ Append(s, e) \in Seq(Elems) /\ Len(Append(s, e)) = Len(s) + 1
      /\ Append(s, e)[Len(s) + 1] = e
  BY <1>2, AppendProperties
<1>6. CASE head = Null
  <2>1. /\ head' = e /\ next' = [f EXCEPT ![e] = Null] /\ prev' = [b EXCEPT ![e] = Null]
        /\ writer' = "make" /\ tail' = tail
    BY <1>4, <1>6 DEF AddLink
  <2>2. s = <<>> /\ Append(s, e) = <<e>> /\ Len(<<e>>) = 1
    BY <1>1, <1>6, FirstIs, AppendNone
  <2>3. next'[e] = Null /\ prev'[e] = Null
    BY <1>4, <2>1
  <2>4. Chained(next', e, <<e>>) /\ DoublyLinked(<<e>>, prev')
    BY <2>3, SingleIs
  <2>5. Order' = <<e>> /\ IsChain(next, head)'
    <3>1. Along(next', head') = <<e>>
      BY <2>1, <2>4, AlongIs
    <3>2. Chained(next', head', Along(next', head'))
      BY <2>1, <2>4, <3>1
    <3>3. IsChain(next, head)'
      BY <3>2 DEF IsChain, Chained, Distinct
    <3> QED BY <3>1, <3>3 DEF Order
  <2>6. DoublyLinked(Order, prev)'
    <3>1. DoublyLinked(Order', prev')
      BY <2>4, <2>5
    <3> QED BY <3>1 DEF DoublyLinked
  <2>7. LinkTypes'
    BY <1>3, <1>4, <2>1 DEF LinkTypes, Pointers, Where
  <2>8. ListOK'
    <3>1. writer' = "make" /\ head' # Null /\ Len(Order') = 1 /\ add' = Order'[Len(Order')]
      BY <1>3, <2>1, <2>2, <2>5
    <3> QED BY <2>5, <2>6, <3>1 DEF ListOK
  <2> QED BY <1>1, <1>2, <1>3, <2>2, <2>5, <2>6, <2>7, <2>8
<1>7. CASE head # Null
  <2>1. /\ head' = head /\ prev' = [b EXCEPT ![e] = tail] /\ tail = s[Len(s)]
        /\ next' = [f EXCEPT ![e] = Null, ![s[Len(s)]] = e]
        /\ writer' = "chain" /\ tail' = e
    <3>1. tail = s[Len(s)]
      BY <1>1, <1>3, <1>7 DEF ListOK
    <3> QED BY <1>4, <1>7, <3>1 DEF AddLink
  <2>2. Len(s) # 0
    BY <1>1, <1>7, FirstIs
  <2>3. Chained(next', head', Append(s, e))
    BY <1>1, <1>3, <1>4, <2>1, <2>2, ChainBehind
  <2>4. DoublyLinked(Append(s, e), prev')
    BY <1>2, <1>3, <1>4, <2>1, <2>2, BackBehind
  <2>5. Order' = Append(s, e) /\ IsChain(next, head)'
    <3>1. Along(next', head') = Append(s, e)
      BY <2>3, AlongIs
    <3> QED BY <2>3, <3>1 DEF Order, IsChain, Chained, Distinct
  <2>6. DoublyLinked(Order, prev)'
    <3>1. DoublyLinked(Order', prev')
      BY <2>4, <2>5
    <3> QED BY <3>1 DEF DoublyLinked
  <2>7. LinkTypes'
    <3>1. tail \in Pointers /\ head \in Pointers
      BY DEF LinkTypes
    <3>2. prev' \in [Elems -> Pointers]
      BY <1>4, <2>1, <3>1
    <3>3. next' \in [Elems -> Pointers]
      BY <1>3, <1>4, <2>1 DEF Pointers
    <3> QED BY <1>3, <2>1, <3>1, <3>2, <3>3 DEF LinkTypes, Where
  <2>8. ListOK'
    <3>1. writer' = "chain" /\ head' # Null /\ add' = Order'[Len(Order')]
          /\ tail' = Order'[Len(Order')]
      BY <1>3, <1>5, <1>7, <2>1, <2>5
    <3> QED BY <2>5, <2>6, <3>1 DEF ListOK
  <2> QED BY <1>1, <1>2, <1>3, <2>5, <2>6, <2>7, <2>8
<1> QED BY <1>6, <1>7

(* Steps that do not write the list.                                        *)
LEMMA KeepList ==
  ASSUME ListOK, UNCHANGED list
  PROVE  Order' = Order /\ IsChain(next, head)' /\ DoublyLinked(Order, prev)'
<1>1. next' = next /\ head' = head /\ prev' = prev
  BY DEF list
<1>2. Order' = Order
  BY <1>1 DEF Order
<1>3. Chained(next, head, Along(next, head)) /\ DoublyLinked(Order, prev)
  BY DEF ListOK, IsChain
<1>4. Chained(next', head', Along(next', head')) /\ DoublyLinked(Order', prev')
  BY <1>1, <1>2, <1>3
<1>5. IsChain(next, head)'
  BY <1>4 DEF IsChain, Chained, Distinct
<1>6. DoublyLinked(Order, prev)'
  BY <1>4 DEF DoublyLinked
<1> QED BY <1>2, <1>5, <1>6

(* A loop it is at the p-th element of o, or over: it has left behind no    *)
(* element with one of its keys.                                            *)
IsIter(it) == it = [keys |-> it.keys, el |-> it.el, tmp |-> it.tmp]
IterAt(o, f, it, p) ==
  it.el = o[p] /\ it.tmp = f[o[p]] /\ \A i \in 1..(p - 1) : Key[o[i]] \notin it.keys
IterOn(it, f) ==
  [it EXCEPT !.el = it.tmp, !.tmp = IF it.tmp = Null THEN Null ELSE f[it.tmp]]
IterOver(o, it) == it.el = Null /\ \A i \in 1..Len(o) : Key[o[i]] \notin it.keys

IterOK ==
  writer = "iter" =>
    IsIter(iter) /\ (IterOver(Order, iter) \/ \E p \in 1..Len(Order) : IterAt(Order, next, iter, p))

(* The loop goes on from its p-th element, which it does not delete.        *)
LEMMA LoopKeeps ==
  ASSUME NEW f, NEW e, NEW s, Chained(f, e, s), NEW it, IsIter(it), NEW p \in 1..Len(s),
         IterAt(s, f, it, p), Key[s[p]] \notin it.keys,
         NEW it2, it2 = IterOn(it, f)
  PROVE  IsIter(it2) /\ (IterOver(s, it2) \/ \E q \in 1..Len(s) : IterAt(s, f, it2, q))
<1>1. PICK m \in Nat : m = Len(s)
  BY SeqFacts DEF Chained
<1>2. it2 = [keys |-> it.keys, el |-> it.tmp, tmp |-> IF it.tmp = Null THEN Null ELSE f[it.tmp]]
  BY DEF IsIter, IterOn
<1>3. IsIter(it2) /\ it2.keys = it.keys /\ it2.el = it.tmp
      /\ it2.tmp = IF it.tmp = Null THEN Null ELSE f[it.tmp]
  BY <1>2 DEF IsIter
<1>4. it.tmp = IF p = m THEN Null ELSE s[p + 1]
  BY <1>1 DEF Chained, IterAt
<1>5. \A i \in 1..p : Key[s[i]] \notin it.keys
  <2>1. \A i \in 1..p : i = p \/ i \in 1..(p - 1)
    BY <1>1, SMT
  <2> QED BY <2>1 DEF IterAt
<1>6. CASE p = m
  BY <1>1, <1>3, <1>4, <1>5, <1>6 DEF IterOver
<1>7. CASE p # m
  <2>1. p + 1 \in 1..m /\ p + 1 - 1 = p
    BY <1>1, <1>7, SMT
  <2>2. s[p + 1] # Null
    BY <1>1, <2>1, SeqFacts DEF Chained
  <2>3. IterAt(s, f, it2, p + 1)
    BY <1>3, <1>4, <1>5, <1>7, <2>1, <2>2 DEF IterAt
  <2> QED BY <1>1, <1>3, <2>1, <2>3
<1> QED BY <1>6, <1>7

(* The links g are the links f, back without x.                             *)
Dropped(g, f, back, x) ==
  \A y \in Elems : y # x => g[y] = IF y = back[x] THEN f[x] ELSE f[y]

(* A loop with HASH_ITER that deletes the element it is at.                 *)
LEMMA LoopDrops ==
  ASSUME NEW f, NEW e, NEW b, NEW s, Chained(f, e, s), DoublyLinked(s, b),
         NEW it, IsIter(it), NEW p \in 1..Len(s), IterAt(s, f, it, p),
         NEW it2, it2 = IterOn(it, f),
         NEW g, Dropped(g, f, b, s[p])
  PROVE  /\ IsIter(it2)
         /\ IterOver(Minus(s, p), it2) \/ \E q \in 1..Len(Minus(s, p)) : IterAt(Minus(s, p), g, it2, q)
<1>1. PICK m \in Nat : m = Len(s)
  BY SeqFacts DEF Chained
<1>2. it2 = [keys |-> it.keys, el |-> it.tmp, tmp |-> IF it.tmp = Null THEN Null ELSE f[it.tmp]]
  BY DEF IsIter, IterOn
<1>3. IsIter(it2) /\ it2.keys = it.keys /\ it2.el = it.tmp
      /\ it2.tmp = IF it.tmp = Null THEN Null ELSE f[it.tmp]
  BY <1>2 DEF IsIter
<1>4. it.tmp = IF p = m THEN Null ELSE s[p + 1]
  BY <1>1 DEF Chained, IterAt
<1>5. s \in Seq(Elems) /\ Distinct(s) /\ p \in 1..m
  BY <1>1 DEF Chained
<1>6. /\ Len(Minus(s, p)) = m - 1
      /\ \A i \in 1..(m - 1) : /\ i < p => Minus(s, p)[i] = s[i]
                               /\ i >= p => Minus(s, p)[i] = s[i + 1]
  BY <1>1, <1>5, MinusIs
<1>7. \A i \in 1..(p - 1) : i \in 1..(m - 1) /\ i < p
  BY <1>5, SMT
<1>8. \A i \in 1..(p - 1) : Key[Minus(s, p)[i]] \notin it.keys
  BY <1>6, <1>7 DEF IterAt
<1>9. CASE p = m
  BY <1>3, <1>4, <1>6, <1>8, <1>9 DEF IterOver
<1>10. CASE p # m
  <2>1. p \in 1..(m - 1) /\ p >= p /\ p + 1 \in 1..m /\ p + 1 # p
    BY <1>5, <1>10, SMT
  <2>2. Minus(s, p)[p] = s[p + 1] /\ s[p + 1] \in Elems /\ s[p + 1] # Null /\ s[p + 1] # s[p]
    BY <1>1, <1>5, <1>6, <2>1, SeqFacts DEF Distinct
  <2>3. s[p + 1] # b[s[p]]
    <3>1. b[s[p]] = IF p = 1 THEN Null ELSE s[p - 1]
      BY <1>1, <1>5, Neighbours
    <3>2. p # 1 => p - 1 \in 1..m /\ p - 1 # p + 1
      BY <1>5, SMT
    <3> QED BY <1>1, <1>5, <2>1, <2>2, <3>1, <3>2 DEF Distinct
  <2>4. g[s[p + 1]] = f[s[p + 1]]
    BY <2>2, <2>3 DEF Dropped
  <2>5. IterAt(Minus(s, p), g, it2, p)
    BY <1>3, <1>4, <1>8, <1>10, <2>2, <2>4 DEF IterAt
  <2> QED BY <1>3, <1>6, <2>1, <2>5
<1> QED BY <1>9, <1>10

ListInv == LinkTypes /\ ListOK /\ IterOK

(* What a step does to the list.                                            *)
Appends == \E e \in Elems : e \notin Members(Order) /\ Order' = Append(Order, e)
Removes == \E n \in 1..Len(Order) : Order' = Minus(Order, n) /\ (ListFree \/ writer = "iter")

(* Each step keeps the list, and adds or removes one element if any.        *)
LEMMA ListStep ==
  ASSUME ListInv, [Next]_vars
  PROVE  ListInv' /\ (Order' = Order \/ Appends \/ Removes)
<1> USE DEF ListInv
<1>1. Chained(next, head, Order) /\ Order \in Seq(Elems) /\ DoublyLinked(Order, prev)
      /\ IsChain(next, head)
  BY DEF ListOK, IsChain, Order, Chained
<1>2. ASSUME UNCHANGED <<list, tail>>, writer' \in Where, add' \in Pointers,
             writer # "make", writer' # "make",
             writer' \in {"chain", "publish"} => Adding /\ add' = add,
             writer' # "iter" \/ UNCHANGED <<writer, iter>>
      PROVE  ListInv' /\ Order' = Order
  <2>1. Order' = Order /\ IsChain(next, head)' /\ DoublyLinked(Order, prev)'
    BY <1>2, KeepList
  <2>2. head' = head /\ next' = next /\ prev' = prev /\ tail' = tail
    BY <1>2 DEF list
  <2>3. LinkTypes'
    BY <1>2, <2>2 DEF LinkTypes
  <2>4. ListOK'
    BY <1>2, <2>1, <2>2 DEF ListOK, Adding
  <2>5. IterOK'
    BY <1>2, <2>1, <2>2 DEF IterOK
  <2> QED BY <2>1, <2>3, <2>4, <2>5
<1>3. ASSUME NEW n \in 1..Len(Order), HASH_DELETE(Order[n]), writer \in {"idle", "iter"},
             UNCHANGED <<writer, add>>
      PROVE  /\ LinkTypes' /\ ListOK' /\ Order' = Minus(Order, n)
             /\ next' = Unlinked(next, prev, Order[n])
  <2>1. tail = Order[Len(Order)]
    <3>1. head # Null
      BY <1>1, Neighbours, ElemsAssumption
    <3> QED BY <1>3, <3>1 DEF ListOK
  <2>2. /\ IsChain(next, head)' /\ Order' = Minus(Order, n) /\ DoublyLinked(Order, prev)'
        /\ head' # Null => tail' = Order'[Len(Order')]
        /\ head' \in Pointers /\ tail' \in Pointers
        /\ next' \in [Elems -> Pointers] /\ prev' \in [Elems -> Pointers]
        /\ next' = Unlinked(next, prev, Order[n])
    BY <1>1, <1>3, <2>1, DeleteList
  <2>3. LinkTypes'
    BY <1>3, <2>2 DEF LinkTypes
  <2>4. ListOK'
    BY <1>3, <2>2 DEF ListOK, Adding
  <2> QED BY <2>2, <2>3, <2>4
<1>4. ASSUME NEW e \in Elems, AddLink(e) PROVE ListInv' /\ Appends
  <2>1. e \notin Members(Order) /\ Order' = Append(Order, e) /\ LinkTypes' /\ ListOK'
    BY <1>4, AddList
  <2>2. IterOK'
    BY <1>4 DEF AddLink, IterOK
  <2> QED BY <2>1, <2>2 DEF Appends
<1>5. ASSUME NEW e \in Elems, DeleteOne(e) PROVE ListInv' /\ Removes
  <2>1. PICK n \in 1..Len(Order) : e = Order[n]
    BY <1>1, <1>5, SeqFacts DEF DeleteOne, Listed
  <2>2. HASH_DELETE(Order[n]) /\ writer = "idle" /\ UNCHANGED <<writer, add>> /\ ListFree
    BY <1>5, <2>1 DEF DeleteOne
  <2>3. LinkTypes' /\ ListOK' /\ Order' = Minus(Order, n)
    BY <1>3, <2>2
  <2>4. IterOK'
    BY <2>2 DEF IterOK
  <2> QED BY <2>2, <2>3, <2>4 DEF Removes
<1>6. CASE HASH_MAKE_TABLE
  <2>1. /\ UNCHANGED list /\ tail' = head /\ writer' = "chain" /\ add' = add /\ writer = "make"
    BY <1>6 DEF HASH_MAKE_TABLE
  <2>2. Order' = Order /\ IsChain(next, head)' /\ DoublyLinked(Order, prev)'
    BY <2>1, KeepList
  <2>3. head' = head /\ next' = next /\ prev' = prev
    BY <2>1 DEF list
  <2>4. LinkTypes'
    BY <2>1, <2>3 DEF LinkTypes, Where
  <2>5. head # Null /\ Len(Order) = 1 /\ add = Order[Len(Order)] /\ head = Order[1]
    <3>1. head # Null /\ Len(Order) = 1 /\ add = Order[Len(Order)]
      BY <2>1 DEF ListOK, Adding
    <3> QED BY <1>1, <3>1, FirstIs
  <2>6. ListOK'
    BY <2>1, <2>2, <2>3, <2>5 DEF ListOK, Adding
  <2>7. IterOK'
    BY <2>1 DEF IterOK
  <2> QED BY <2>2, <2>4, <2>6, <2>7
<1>7. CASE AddChain
  BY <1>2, <1>7 DEF AddChain, Adding, Where, LinkTypes
<1>8. CASE AddPublish
  BY <1>2, <1>8 DEF AddPublish, Adding, Where, LinkTypes, Pointers
<1>9. CASE ExpandBegin
  BY <1>2, <1>9 DEF ExpandBegin, Where, LinkTypes, table
<1>10. CASE ExpandMove
  BY <1>2, <1>10 DEF ExpandMove, Where, LinkTypes, table
<1>11. CASE ExpandNextBucket
  BY <1>2, <1>11 DEF ExpandNextBucket, Where, LinkTypes
<1>12. CASE ExpandSwap
  BY <1>2, <1>12 DEF ExpandSwap, Where, LinkTypes, Pointers
<1>13. ASSUME NEW K, IterBegin(K) PROVE ListInv' /\ Order' = Order
  <2>1. /\ UNCHANGED <<list, tail, add>> /\ writer = "idle" /\ writer' = "iter" /\ head # Null
        /\ iter' = [keys |-> K, el |-> head, tmp |-> next[head]]
    BY <1>13 DEF IterBegin, table, NextOf
  <2>2. Order' = Order /\ IsChain(next, head)' /\ DoublyLinked(Order, prev)'
    BY <2>1, KeepList
  <2>3. head' = head /\ next' = next /\ prev' = prev /\ tail' = tail
    BY <2>1 DEF list
  <2>4. LinkTypes'
    BY <2>1, <2>3 DEF LinkTypes, Where
  <2>5. ListOK'
    BY <2>1, <2>2, <2>3 DEF ListOK, Adding
  <2>6. IsIter(iter')
    BY <2>1 DEF IsIter
  <2>7. 1 \in 1..Len(Order) /\ Order[1] = head
    BY <1>1, <2>1, FirstIs
  <2>8. IterAt(Order, next, iter', 1)
    <3>1. \A i \in 1..(1 - 1) : FALSE
      BY SMT
    <3> QED BY <2>1, <2>7, <3>1 DEF IterAt
  <2>9. IterOK'
    BY <2>2, <2>3, <2>6, <2>7, <2>8 DEF IterOK
  <2> QED BY <2>2, <2>4, <2>5, <2>9
<1>14. CASE IterStep
  <2>1. writer = "iter" /\ iter.el # Null /\ iter' = AfterStep /\ UNCHANGED <<writer, add>>
    BY <1>14 DEF IterStep
  <2>2. PICK p \in 1..Len(Order) : IsIter(iter) /\ IterAt(Order, next, iter, p)
    BY <2>1 DEF IterOK, IterOver
  <2>3. iter' = IterOn(iter, next)
    BY <2>1 DEF AfterStep, NextOf, IterOn
  <2>4. iter.el = Order[p]
    BY <2>2 DEF IterAt
  <2>5. CASE Key[iter.el] \in iter.keys
    <3>1. HASH_DELETE(Order[p])
      BY <1>14, <2>4, <2>5 DEF IterStep
    <3>2. /\ LinkTypes' /\ ListOK' /\ Order' = Minus(Order, p)
          /\ next' = Unlinked(next, prev, Order[p])
      BY <1>3, <2>1, <3>1
    <3>3. Dropped(next', next, prev, Order[p])
      <4>1. next \in [Elems -> Pointers] /\ prev \in [Elems -> Pointers]
        BY DEF LinkTypes
      <4> QED BY <1>1, <3>2, <4>1, LinksMinus DEF Dropped
    <3>4. /\ IsIter(iter')
          /\ IterOver(Minus(Order, p), iter')
             \/ \E q \in 1..Len(Minus(Order, p)) : IterAt(Minus(Order, p), next', iter', q)
      BY <1>1, <2>2, <2>3, <3>3, LoopDrops
    <3>5. IterOK'
      BY <3>2, <3>4 DEF IterOK
    <3> QED BY <2>1, <3>2, <3>5 DEF Removes
  <2>6. CASE Key[iter.el] \notin iter.keys
    <3>1. UNCHANGED <<list, tail>>
      BY <1>14, <2>6 DEF IterStep, table
    <3>2. Order' = Order /\ IsChain(next, head)' /\ DoublyLinked(Order, prev)'
      BY <3>1, KeepList
    <3>3. head' = head /\ next' = next /\ prev' = prev /\ tail' = tail
      BY <3>1 DEF list
    <3>4. LinkTypes'
      BY <2>1, <3>3 DEF LinkTypes
    <3>5. ListOK'
      BY <2>1, <3>2, <3>3 DEF ListOK, Adding
    <3>6. /\ IsIter(iter')
          /\ IterOver(Order, iter') \/ \E q \in 1..Len(Order) : IterAt(Order, next, iter', q)
      BY <1>1, <2>2, <2>3, <2>4, <2>6, LoopKeeps
    <3>7. IterOK'
      BY <3>2, <3>3, <3>6 DEF IterOK
    <3> QED BY <3>2, <3>4, <3>5, <3>7
  <2> QED BY <2>5, <2>6
<1>15. CASE IterEnd
  BY <1>2, <1>15 DEF IterEnd, Where, LinkTypes, table
<1>16. ASSUME UNCHANGED <<list, table, writer, add, iter>>
       PROVE  ListInv' /\ Order' = Order
  <2>1. Order' = Order /\ IsChain(next, head)' /\ DoublyLinked(Order, prev)'
    BY <1>16, KeepList
  <2>2. head' = head /\ next' = next /\ prev' = prev /\ tail' = tail
    BY <1>16 DEF list, table
  <2>3. LinkTypes' /\ ListOK' /\ IterOK'
    BY <1>16, <2>1, <2>2 DEF LinkTypes, ListOK, IterOK, Adding
  <2> QED BY <2>1, <2>3
<1>17. ASSUME NEW k, FindBegin(k) PROVE ListInv' /\ Order' = Order
  BY <1>16, <1>17 DEF FindBegin
<1>18. CASE FindBucket \/ FindStep \/ FindEnd \/ ScanBegin \/ ScanStep \/ ScanEnd
  BY <1>16, <1>18 DEF FindBucket, FindStep, FindEnd, ScanBegin, ScanStep, ScanEnd
<1>19. CASE UNCHANGED vars
  BY <1>16, <1>19 DEF vars
<1> QED BY <1>4, <1>5, <1>6, <1>7, <1>8, <1>9, <1>10, <1>11, <1>12, <1>13, <1>14, <1>15,
           <1>17, <1>18, <1>19 DEF Next
-----------------------------------------------------------------------------
(* A reader r that goes through the list o, which was bf when it began.     *)
Prefix(t, o) == t \in Seq(Elems) /\ Len(t) <= Len(o) /\ \A i \in 1..Len(t) : t[i] = o[i]
IsReader(r) ==
  r = [op |-> r.op, key |-> r.key, bkt |-> r.bkt, out |-> r.out, seen |-> r.seen]
ScanAt(o, r, bf) ==
  /\ IsReader(r) /\ Prefix(r.seen, o) /\ Prefix(bf, o)
  /\ r.out = Null => Len(bf) <= Len(r.seen)
  /\ r.out # Null => Len(r.seen) # Len(o) /\ r.out = o[Len(r.seen) + 1]

ScanOK == reader.op = "iterate" => writer # "iter" /\ ScanAt(Order, reader, before)

(* A prefix stays one when the list grows.                                  *)
LEMMA PrefixAppend ==
  ASSUME NEW o \in Seq(Elems), NEW t, Prefix(t, o), NEW e \in Elems
  PROVE  Prefix(t, Append(o, e))
<1>1. /\ Len(Append(o, e)) = Len(o) + 1 /\ Len(o) \in Nat /\ t \in Seq(Elems) /\ Len(t) \in Nat
      /\ \A i \in 1..Len(o) : Append(o, e)[i] = o[i]
  BY AppendProperties, SeqFacts DEF Prefix
<1>2. Len(t) <= Len(o) /\ \A i \in 1..Len(t) : t[i] = o[i]
  BY DEF Prefix
<1>3. Len(t) <= Len(o) + 1 /\ \A i \in 1..Len(t) : i \in 1..Len(o)
  BY <1>1, <1>2, SMT
<1> QED BY <1>1, <1>2, <1>3 DEF Prefix

(* A loop over the list stays where it is when the list grows.              *)
LEMMA ScanAppend ==
  ASSUME NEW o \in Seq(Elems), NEW r, NEW bf, ScanAt(o, r, bf), NEW e \in Elems
  PROVE  ScanAt(Append(o, e), r, bf)
<1>1. Prefix(r.seen, Append(o, e)) /\ Prefix(bf, Append(o, e))
  BY PrefixAppend DEF ScanAt
<1>2. PICK m \in Nat, k \in Nat : m = Len(o) /\ k = Len(r.seen) /\ k <= m
  BY SeqFacts DEF ScanAt, Prefix
<1>3. Len(Append(o, e)) = m + 1 /\ \A i \in 1..m : Append(o, e)[i] = o[i]
  BY <1>2, AppendProperties
<1>4. k # m + 1 /\ (k # m => k + 1 \in 1..m)
  BY <1>2, SMT
<1> QED BY <1>1, <1>2, <1>3, <1>4 DEF ScanAt

(* A step of a loop over the list.                                          *)
LEMMA ScanGoesOn ==
  ASSUME NEW f, NEW e, NEW o, Chained(f, e, o), NEW r, NEW bf, ScanAt(o, r, bf), r.out # Null,
         NEW r2, r2 = [r EXCEPT !.seen = Append(@, r.out), !.out = f[r.out]]
  PROVE  ScanAt(o, r2, bf) /\ r2.op = r.op
<1>1. o \in Seq(Elems) /\ r.seen \in Seq(Elems) /\ bf \in Seq(Elems)
  BY DEF ScanAt, Prefix, Chained
<1>2. PICK m \in Nat, k \in Nat, l \in Nat :
        m = Len(o) /\ k = Len(r.seen) /\ k <= m /\ l = Len(bf) /\ l <= m
  BY <1>1, SeqFacts DEF ScanAt, Prefix
<1>3. k # m /\ r.out = o[k + 1]
  BY <1>2 DEF ScanAt
<1>4. k + 1 \in 1..m /\ k + 1 <= m /\ \A i \in 1..(k + 1) : i = k + 1 \/ i \in 1..k
  BY <1>2, <1>3, SMT
<1>5. r.out \in Elems
  BY <1>1, <1>2, <1>3, <1>4, SeqFacts
<1>6. r2 = [op |-> r.op, key |-> r.key, bkt |-> r.bkt, out |-> f[r.out], seen |-> Append(r.seen, r.out)]
  BY DEF ScanAt, IsReader
<1>7. /\ IsReader(r2) /\ r2.op = r.op /\ r2.out = f[r.out] /\ r2.seen = Append(r.seen, r.out)
  BY <1>6 DEF IsReader
<1>8. /\ r2.seen \in Seq(Elems) /\ Len(r2.seen) = k + 1 /\ r2.seen[k + 1] = r.out
      /\ \A i \in 1..k : r2.seen[i] = r.seen[i]
  BY <1>1, <1>2, <1>5, <1>7, AppendProperties
<1>9. Prefix(r2.seen, o)
  <2>1. \A i \in 1..k : r.seen[i] = o[i]
    BY <1>2 DEF ScanAt, Prefix
  <2> QED BY <1>2, <1>3, <1>4, <1>8, <2>1 DEF Prefix
<1>10. r2.out = IF k + 1 = m THEN Null ELSE o[k + 1 + 1]
  BY <1>2, <1>3, <1>4, <1>7 DEF Chained
<1>11. k + 1 = m => l <= k + 1
  BY <1>2, SMT
<1>12. k + 1 # m => o[k + 1 + 1] # Null
  <2>1. k + 1 # m => k + 1 + 1 \in 1..m
    BY <1>4, SMT
  <2> QED BY <1>1, <1>2, <2>1, SeqFacts
<1> QED BY <1>2, <1>7, <1>8, <1>9, <1>10, <1>11, <1>12 DEF ScanAt

(* A loop over the list begins at its head.                                 *)
LEMMA ScanStarts ==
  ASSUME NEW f, NEW e, NEW o, Chained(f, e, o),
         NEW r, r = [op |-> "iterate", key |-> 0, bkt |-> 0, out |-> e, seen |-> <<>>]
  PROVE  ScanAt(o, r, o)
<1>1. o \in Seq(Elems) /\ <<>> \in Seq(Elems) /\ Len(<<>>) = 0 /\ Len(o) \in Nat
  BY SeqFacts DEF Chained
<1>2. \A i \in 1..0 : FALSE
  BY SMT
<1>3. Prefix(<<>>, o) /\ Prefix(o, o)
  BY <1>1, <1>2, SMT DEF Prefix
<1>4. e = Null => Len(o) = 0
  BY <1>1, FirstIs
<1>5. e # Null => Len(o) # 0 /\ e = o[0 + 1]
  BY FirstIs
<1>6. IsReader(r) /\ r.seen = <<>> /\ r.out = e
  BY DEF IsReader
<1>7. Len(o) = 0 => Len(o) <= 0
  BY <1>1, SMT
<1> QED BY <1>1, <1>3, <1>4, <1>5, <1>6, <1>7 DEF ScanAt

(* The fields of the reader.                                                *)
LEMMA ReaderStep ==
  ASSUME IsReader(reader), [Next]_vars
  PROVE  IsReader(reader)'
<1> SUFFICES IsReader(reader')
  BY DEF IsReader
<1>1. CASE reader' = reader
  BY <1>1
<1>2. CASE reader' = NotReading
  BY <1>2 DEF NotReading, IsReader
<1>3. ASSUME NEW k, FindBegin(k) PROVE IsReader(reader')
  BY <1>3 DEF FindBegin, NotReading, IsReader
<1>4. CASE FindBucket
  BY <1>4 DEF FindBucket, IsReader
<1>5. CASE FindStep
  BY <1>5 DEF FindStep, IsReader
<1>6. CASE ScanBegin
  BY <1>6 DEF ScanBegin, NotReading, IsReader
<1>7. CASE ScanStep
  BY <1>7 DEF ScanStep, IsReader
<1>8. CASE FindEnd \/ ScanEnd
  BY <1>2, <1>8 DEF FindEnd, ScanEnd
<1>9. ASSUME NEW e \in Elems, AddLink(e) \/ DeleteOne(e) PROVE reader' = reader
  BY <1>9 DEF AddLink, DeleteOne, reading
<1>10. ASSUME NEW K, IterBegin(K) PROVE reader' = reader
  BY <1>10 DEF IterBegin, reading
<1>11. CASE HASH_MAKE_TABLE \/ AddChain \/ AddPublish \/ ExpandBegin \/ ExpandMove
  BY <1>1, <1>11 DEF HASH_MAKE_TABLE, AddChain, AddPublish, ExpandBegin, ExpandMove, reading
<1>12. CASE ExpandNextBucket \/ ExpandSwap \/ IterStep \/ IterEnd \/ UNCHANGED vars
  BY <1>1, <1>12 DEF ExpandNextBucket, ExpandSwap, IterStep, IterEnd, vars, reading
<1> QED BY <1>1, <1>3, <1>4, <1>5, <1>6, <1>7, <1>8, <1>9, <1>10, <1>11, <1>12 DEF Next

(* Each step keeps what a loop over the list has seen and has ahead.        *)
LEMMA ScanStepKeeps ==
  ASSUME ListInv, IsReader(reader), ScanOK, [Next]_vars
  PROVE  ScanOK'
<1>1. Order' = Order \/ Appends \/ Removes
  BY ListStep
<1>2. Chained(next, head, Order) /\ Order \in Seq(Elems)
  BY DEF ListInv, ListOK, IsChain, Order, Chained
<1>3. ASSUME reader' = reader, before' = before,
             writer' # "iter" \/ writer = "iter" \/ reader.op # "iterate"
      PROVE  ScanOK'
  <2> SUFFICES ASSUME reader.op = "iterate" PROVE writer' # "iter" /\ ScanAt(Order', reader, before)
    BY <1>3 DEF ScanOK
  <2>1. writer # "iter" /\ ScanAt(Order, reader, before)
    BY DEF ScanOK
  <2>2. ~Removes
    BY <2>1 DEF Removes, ListFree
  <2>3. CASE Appends
    BY <1>2, <1>3, <2>1, <2>3, ScanAppend DEF Appends
  <2>4. CASE Order' = Order
    BY <1>3, <2>1, <2>4
  <2> QED BY <1>1, <2>2, <2>3, <2>4
<1>4. ASSUME NEW e \in Elems, AddLink(e) \/ DeleteOne(e) PROVE ScanOK'
  BY <1>3, <1>4 DEF AddLink, DeleteOne, reading
<1>5. CASE HASH_MAKE_TABLE \/ AddChain \/ AddPublish \/ ExpandBegin
  BY <1>3, <1>5 DEF HASH_MAKE_TABLE, AddChain, AddPublish, ExpandBegin, reading
<1>6. CASE ExpandMove \/ ExpandNextBucket \/ ExpandSwap
  BY <1>3, <1>6 DEF ExpandMove, ExpandNextBucket, ExpandSwap, reading
<1>7. ASSUME NEW K, IterBegin(K) PROVE ScanOK'
  BY <1>3, <1>7 DEF IterBegin, ListFree, reading
<1>8. CASE IterStep \/ IterEnd
  BY <1>3, <1>8 DEF IterStep, IterEnd, reading
<1>9. ASSUME NEW k, FindBegin(k) PROVE ScanOK'
  <2>1. reader'.op # "iterate"
    BY <1>9 DEF FindBegin, NotReading
  <2> QED BY <2>1 DEF ScanOK
<1>10. CASE FindBucket \/ FindStep \/ FindEnd \/ ScanEnd
  <2>1. CASE FindEnd \/ ScanEnd
    BY <2>1 DEF FindEnd, ScanEnd, NotReading, ScanOK
  <2>2. CASE FindStep \/ FindBucket
    <3>1. \E v : reader' = [reader EXCEPT !.out = v] \/ reader' = [reader EXCEPT !.op = "chain", !.out = v]
      BY <2>2 DEF FindStep, FindBucket
    <3>2. reader.op # "iterate"
      BY <2>2 DEF FindStep, FindBucket
    <3>3. reader'.op # "iterate"
      BY <3>1, <3>2 DEF IsReader
    <3> QED BY <3>3 DEF ScanOK
  <2> QED BY <1>10, <2>1, <2>2
<1>11. CASE ScanBegin
  <2>1. /\ reader' = [op |-> "iterate", key |-> 0, bkt |-> 0, out |-> head, seen |-> <<>>]
        /\ before' = Order /\ writer # "iter" /\ writer' = writer /\ UNCHANGED list
    BY <1>11 DEF ScanBegin, NotReading
  <2>2. Order' = Order
    BY <2>1 DEF list, Order
  <2>3. ScanAt(Order', reader', before')
    BY <1>2, <2>1, <2>2, ScanStarts
  <2> QED BY <2>1, <2>3 DEF ScanOK
<1>12. CASE ScanStep
  <2>1. /\ reader.op = "iterate" /\ reader.out # Null /\ writer' = writer /\ UNCHANGED list
        /\ reader' = [reader EXCEPT !.seen = Append(@, reader.out), !.out = next[reader.out]]
        /\ before' = before
    BY <1>12 DEF ScanStep
  <2>2. Order' = Order
    BY <2>1 DEF list, Order
  <2>3. writer # "iter" /\ ScanAt(Order, reader, before)
    BY <2>1 DEF ScanOK
  <2>4. ScanAt(Order, reader', before)
    BY <1>2, <2>1, <2>3, ScanGoesOn
  <2> QED BY <2>1, <2>2, <2>3, <2>4 DEF ScanOK
<1>13. CASE UNCHANGED vars
  BY <1>3, <1>13 DEF vars, reading
<1> QED BY <1>4, <1>5, <1>6, <1>7, <1>8, <1>9, <1>10, <1>11, <1>12, <1>13 DEF Next

(* An empty chain.                                                          *)
LEMMA NothingIs ==
  ASSUME NEW f, NEW back
  PROVE  Chained(f, Null, <<>>) /\ Along(f, Null) = <<>> /\ DoublyLinked(<<>>, back)
<1>1. <<>> \in Seq(Elems) /\ Len(<<>>) = 0 /\ DOMAIN <<>> = {}
  OBVIOUS
<1>2. \A i \in 1..0 : FALSE
  BY SMT
<1>3. Chained(f, Null, <<>>)
  BY <1>1, <1>2 DEF Chained, Distinct
<1> QED BY <1>1, <1>3, AlongIs DEF DoublyLinked

(* The hash is empty and nobody reads it.                                   *)
LEMMA ListInit ==
  ASSUME Init
  PROVE  ListInv /\ IsReader(reader) /\ ScanOK /\ Order = <<>>
<1>1. head = Null /\ tail = Null /\ add = Null /\ writer = "idle" /\ next = Nowhere /\ prev = Nowhere
      /\ reader = NotReading
  BY DEF Init
<1>2. Chained(next, head, <<>>) /\ Along(next, head) = <<>> /\ DoublyLinked(<<>>, prev)
  BY <1>1, NothingIs
<1>3. Order = <<>> /\ IsChain(next, head) /\ DoublyLinked(Order, prev)
  BY <1>2 DEF Order, IsChain
<1>4. LinkTypes
  BY <1>1 DEF LinkTypes, Nowhere, Pointers, Where
<1>5. ListOK /\ IterOK
  BY <1>1, <1>3 DEF ListOK, IterOK, Adding
<1>6. IsReader(reader) /\ reader.op = "none"
  BY <1>1 DEF IsReader, NotReading
<1> QED BY <1>3, <1>4, <1>5, <1>6 DEF ListInv, ScanOK

(* next, prev, head and tail are one list in every state of an addition, a  *)
(* deletion and an expansion, and a loop with HASH_ITER is at one of its    *)
(* elements although it deletes the ones it meets.                          *)
THEOREM ListHolds == Spec => [](ListInv /\ IsReader(reader) /\ ScanOK)
<1>1. Init => ListInv /\ IsReader(reader) /\ ScanOK
  BY ListInit
<1>2. ListInv /\ IsReader(reader) /\ ScanOK /\ [Next]_vars
        => (ListInv /\ IsReader(reader) /\ ScanOK)'
  BY ListStep, ReaderStep, ScanStepKeeps
<1> QED BY <1>1, <1>2, PTL DEF Spec

(* The loops of remove_client, compiler_free and cleanup leave no element   *)
(* with a key they were to delete (server.c:428-433, 563-572), whatever the *)
(* number of elements and the keys they share.                              *)
THEOREM LoopsDelete == Spec => []LoopDeletes
<1>1. ListInv => LoopDeletes
  <2> SUFFICES ASSUME ListInv, writer = "iter", iter.el = Null, NEW e \in Listed
               PROVE  Key[e] \notin iter.keys
    BY DEF LoopDeletes
  <2>1. Order \in Seq(Elems)
    BY DEF ListInv, ListOK, IsChain, Order, Chained
  <2>2. \A i \in 1..Len(Order) : Order[i] # Null
    BY <2>1, SeqFacts
  <2>3. IterOver(Order, iter)
    BY <2>2 DEF ListInv, IterOK, IterAt
  <2>4. PICK i \in 1..Len(Order) : e = Order[i]
    BY <2>1, SeqFacts DEF Listed
  <2> QED BY <2>3, <2>4 DEF IterOver
<1> QED BY <1>1, ListHolds, PTL

(* push_solution, going through clients_list without the mutex additions    *)
(* take (server.c:375, 162), meets every client that was there at the start,*)
(* in the order of the list.                                                *)
THEOREM ScansAreComplete == Spec => []ScanComplete
<1>1. ScanOK => ScanComplete
  <2> SUFFICES ASSUME ScanOK, reader.op = "iterate", reader.out = Null
               PROVE  /\ Len(before) <= Len(reader.seen)
                      /\ SubSeq(reader.seen, 1, Len(before)) = before
    BY DEF ScanComplete
  <2>1. PICK o, t, bf : /\ o = Order /\ t = reader.seen /\ bf = before
                        /\ Prefix(t, o) /\ Prefix(bf, o) /\ Len(bf) <= Len(t)
    BY DEF ScanOK, ScanAt
  <2>2. PICK k \in Nat, l \in Nat : k = Len(t) /\ l = Len(bf) /\ l <= k
    BY <2>1, SeqFacts DEF Prefix
  <2>3. bf \in Seq(Elems) /\ t \in Seq(Elems) /\ DOMAIN bf = 1..l
    BY <2>1, <2>2, SeqFacts DEF Prefix
  <2>4. \A i \in 1..l : i \in 1..k
    BY <2>2, SMT
  <2>5. \A i \in 1..l : t[i] = bf[i]
    BY <2>1, <2>2, <2>4 DEF Prefix
  <2>6. SubSeq(t, 1, l) = [i \in 1..l |-> t[i]]
    BY <2>2, <2>3, SMT
  <2>7. bf = [i \in 1..l |-> bf[i]]
    BY <2>3
  <2>8. SubSeq(t, 1, l) = bf
    BY <2>5, <2>6, <2>7
  <2> QED BY <2>1, <2>2, <2>8
<1> QED BY <1>1, ListHolds, PTL

(* The list is the abstract ordered map through every step of additions,    *)
(* expansions, deletions and loops.                                         *)
THEOREM ImplementsOrderedMap == Spec => IsOrderedMap
<1>1. Init => Map!Init
  BY ListInit DEF Map!Init
<1>2. ListInv /\ [Next]_vars => [Map!Next]_Order
  <2> SUFFICES ASSUME ListInv, [Next]_vars, Order' # Order PROVE Map!Next
    OBVIOUS
  <2>1. Appends \/ Removes
    BY ListStep
  <2>2. CASE Appends
    BY <2>2 DEF Appends, Map!Next, Map!Add, Members
  <2>3. CASE Removes
    <3>1. PICK n \in 1..Len(Order) : Order' = Minus(Order, n)
      BY <2>3 DEF Removes
    <3>2. DOMAIN Order = 1..Len(Order)
      BY SeqFacts DEF ListInv, ListOK, IsChain, Order, Chained
    <3>3. Order' = Map!Without(Order, n)
      BY <3>1 DEF Minus, Map!Without
    <3> QED BY <3>2, <3>3 DEF Map!Next, Map!Delete
  <2> QED BY <2>1, <2>2, <2>3
<1>3. Init /\ []ListInv /\ [][Next]_vars => Map!Init /\ [][Map!Next]_Order
  BY <1>1, <1>2, PTL
<1>4. Spec => []ListInv
  BY ListHolds, PTL
<1> QED BY <1>3, <1>4, PTL DEF Spec, IsOrderedMap, Map!Spec
-----------------------------------------------------------------------------
(* The buckets.                                                             *)

In(S, n, b) == {e \in S : Bucket(Key[e], n) = b}

IsBucket(r) == r = [hh_head |-> r.hh_head, count |-> r.count, expand_mult |-> r.expand_mult]

(* The chain of bucket r, along f, has the elements S.                      *)
Leads(f, h, S) == \E c : Chained(f, h, c) /\ Members(c) = S
BucketOK(f, back, r, S) ==
  /\ IsBucket(r)
  /\ \E c : /\ Chained(f, r.hh_head, c) /\ Members(c) = S
            /\ DoublyLinked(c, back) /\ r.count = Len(c)

IsTable(B, n) == n \in Nat /\ B = [b \in 0..(n - 1) |-> B[b]]

(* The n buckets B hold the elements S, each in the bucket of its hash.     *)
TableOK(f, back, B, n, S) ==
  IsTable(B, n) /\ \A b \in 0..(n - 1) : BucketOK(f, back, B[b], In(S, n, b))
Forward(f, B, n, S) == \A b \in 0..(n - 1) : Leads(f, B[b].hh_head, In(S, n, b))

(* HASH_TO_BKT gives one of the buckets.                                    *)
LEMMA BucketRange ==
  ASSUME NEW e \in Elems, NEW n \in Nat \ {0}
  PROVE  Bucket(Key[e], n) \in 0..(n - 1)
<1>1. Hash[Key[e]] \in Nat
  BY HashAssumption DEF Keys
<1>2. \A h \in Nat : h % n \in 0..(n - 1)
  BY SMT
<1> QED BY <1>1, <1>2 DEF Bucket

(* The fields of other elements do not matter to a bucket.                  *)
LEMMA BucketFrame ==
  ASSUME NEW f, NEW back, NEW r, NEW S, BucketOK(f, back, r, S),
         NEW f2, NEW b2, Same(f2, f, S), Same(b2, back, S)
  PROVE  BucketOK(f2, b2, r, S)
<1>1. PICK c : /\ Chained(f, r.hh_head, c) /\ Members(c) = S
               /\ DoublyLinked(c, back) /\ r.count = Len(c)
  BY DEF BucketOK
<1>2. Chained(f2, r.hh_head, c)
  BY <1>1, ChainFrame
<1>3. DoublyLinked(c, b2)
  <2>1. c \in Seq(Elems)
    BY <1>1 DEF Chained
  <2> QED BY <1>1, <2>1, BackFrame
<1> QED BY <1>1, <1>2, <1>3 DEF BucketOK

(* Nor to where a pointer leads.                                            *)
LEMMA LeadsFrame ==
  ASSUME NEW f, NEW h, NEW S, Leads(f, h, S), NEW f2, Same(f2, f, S)
  PROVE  Leads(f2, h, S)
BY ChainFrame DEF Leads

(* The head of a bucket leads to its elements.                              *)
LEMMA BucketLeads ==
  ASSUME NEW f, NEW back, NEW r, NEW S, BucketOK(f, back, r, S)
  PROVE  Leads(f, r.hh_head, S) /\ r.hh_head \in Pointers /\ IsBucket(r)
         /\ (r.hh_head # Null => r.hh_head \in S)
BY FirstIs DEF BucketOK, Leads, Pointers

(* Cleared buckets.                                                         *)
LEMMA EmptyTable ==
  ASSUME NEW f, NEW back, NEW n \in Nat
  PROVE  TableOK(f, back, EmptyBuckets(n), n, {})
<1>1. IsTable(EmptyBuckets(n), n)
  BY DEF EmptyBuckets, IsTable
<1>2. ASSUME NEW b \in 0..(n - 1) PROVE BucketOK(f, back, EmptyBuckets(n)[b], In({}, n, b))
  <2>1. EmptyBuckets(n)[b] = EmptyBucket
    BY DEF EmptyBuckets
  <2>2. In({}, n, b) = {}
    BY DEF In
  <2>3. IsBucket(EmptyBucket) /\ EmptyBucket.hh_head = Null /\ EmptyBucket.count = 0
    BY DEF IsBucket, EmptyBucket
  <2>4. Members(<<>>) = {} /\ Len(<<>>) = 0
    BY DEF Members
  <2>5. Chained(f, Null, <<>>) /\ DoublyLinked(<<>>, back)
    BY NothingIs
  <2> QED BY <2>1, <2>2, <2>3, <2>4, <2>5 DEF BucketOK
<1> QED BY <1>1, <1>2 DEF TableOK

(* x is put in front of bucket r.                                           *)
LEMMA BucketInsert ==
  ASSUME NEW f \in [Elems -> Pointers], NEW back \in [Elems -> Pointers],
         NEW r, NEW S, BucketOK(f, back, r, S), NEW x \in Elems, x \notin S,
         NEW q, IsBucket(q), q.hh_head = x, q.count = r.count + 1
  PROVE  BucketOK([f EXCEPT ![x] = r.hh_head], Set([back EXCEPT ![x] = Null], r.hh_head, x),
                  q, S \cup {x})
<1>1. PICK c : /\ Chained(f, r.hh_head, c) /\ Members(c) = S
               /\ DoublyLinked(c, back) /\ r.count = Len(c)
  BY DEF BucketOK
<1>2. PICK h, f2, b2 : /\ h = r.hh_head /\ f2 = [f EXCEPT ![x] = h]
                       /\ b2 = Set([back EXCEPT ![x] = Null], h, x)
  OBVIOUS
<1>3. f2[x] = h /\ Same(f2, f, Members(c))
  <2>1. Members(c) \subseteq Elems
    BY <1>1, SeqFacts DEF Chained
  <2> QED BY <1>1, <1>2, <2>1 DEF Same
<1>4. x \notin Members(c) /\ Chained(f, h, c)
  BY <1>1, <1>2
<1>5. Chained(f2, x, Before(x, c))
  BY <1>3, <1>4, ChainBefore
<1>6. DoublyLinked(Before(x, c), b2)
  BY <1>1, <1>2, <1>4, BackBefore
<1>7. Len(Before(x, c)) = Len(c) + 1 /\ Members(Before(x, c)) = Members(c) \cup {x}
  BY <1>1, BeforeIs DEF Chained
<1>8. BucketOK(f2, b2, q, S \cup {x})
  BY <1>1, <1>5, <1>6, <1>7 DEF BucketOK
<1> QED BY <1>2, <1>8

Forth(f, x, h) == [f EXCEPT ![x] = h]
Back(back, x, h) == Set([back EXCEPT ![x] = Null], h, x)

(* HASH_ADD_TO_BKT puts x into the bucket of its hash.                      *)
LEMMA TableInsert ==
  ASSUME NEW f \in [Elems -> Pointers], NEW back \in [Elems -> Pointers],
         NEW B, NEW n \in Nat \ {0}, NEW S \in SUBSET Elems, TableOK(f, back, B, n, S),
         NEW x \in Elems, x \notin S, NEW k, k = Bucket(Key[x], n),
         NEW q, IsBucket(q), q.hh_head = x, q.count = B[k].count + 1
  PROVE  /\ TableOK(Forth(f, x, B[k].hh_head), Back(back, x, B[k].hh_head),
                    [B EXCEPT ![k] = q], n, S \cup {x})
         /\ Forth(f, x, B[k].hh_head) \in [Elems -> Pointers]
         /\ Back(back, x, B[k].hh_head) \in [Elems -> Pointers]
         /\ Same(Forth(f, x, B[k].hh_head), f, Elems \ {x})
<1>0. PICK f2, b2 : /\ f2 = [f EXCEPT ![x] = B[k].hh_head]
                    /\ b2 = Set([back EXCEPT ![x] = Null], B[k].hh_head, x)
  OBVIOUS
<1>1. k \in 0..(n - 1) /\ IsTable(B, n)
  BY BucketRange DEF TableOK
<1>2. BucketOK(f, back, B[k], In(S, n, k)) /\ x \notin In(S, n, k)
  BY <1>1 DEF TableOK, In
<1>3. PICK h : h = B[k].hh_head /\ h \in Pointers /\ h # x /\ (h # Null => h \in In(S, n, k))
  <2>1. B[k].hh_head \in Pointers /\ (B[k].hh_head # Null => B[k].hh_head \in In(S, n, k))
    BY <1>2, BucketLeads
  <2> QED BY <1>2, <2>1, ElemsAssumption
<1>4. /\ f2 \in [Elems -> Pointers] /\ b2 \in [Elems -> Pointers]
      /\ \A y \in Elems : y # x => f2[y] = f[y]
      /\ \A y \in Elems : y # x /\ y # h => b2[y] = back[y]
  <2>1. /\ f2 \in [Elems -> Pointers] /\ \A y \in Elems : y # x => f2[y] = f[y]
    BY <1>0, <1>3
  <2>2. CASE h = Null
    BY <1>0, <1>3, <2>1, <2>2 DEF Set, Pointers
  <2>3. CASE h # Null
    BY <1>0, <1>3, <2>1, <2>3 DEF Set, Pointers
  <2> QED BY <2>2, <2>3
<1>5. IsTable([B EXCEPT ![k] = q], n)
  BY <1>1 DEF IsTable
<1>6. ASSUME NEW b \in 0..(n - 1)
      PROVE  BucketOK(f2, b2, [B EXCEPT ![k] = q][b], In(S \cup {x}, n, b))
  <2>1. CASE b = k
    <3>1. [B EXCEPT ![k] = q][b] = q
      BY <1>1, <2>1 DEF IsTable
    <3>2. In(S \cup {x}, n, b) = In(S, n, k) \cup {x}
      BY <2>1 DEF In
    <3>3. BucketOK(f2, b2, q, In(S, n, k) \cup {x})
      BY <1>0, <1>2, BucketInsert
    <3> QED BY <3>1, <3>2, <3>3
  <2>2. CASE b # k
    <3>1. [B EXCEPT ![k] = q][b] = B[b]
      BY <1>1, <2>2 DEF IsTable
    <3>2. In(S \cup {x}, n, b) = In(S, n, b)
      BY <2>2 DEF In
    <3>3. BucketOK(f, back, B[b], In(S, n, b))
      BY DEF TableOK
    <3>4. \A y \in In(S, n, b) : y \in Elems /\ y # x /\ y # h
      BY <1>3, <2>2, ElemsAssumption DEF In
    <3>5. BucketOK(f2, b2, B[b], In(S, n, b))
      <4>1. Same(f2, f, In(S, n, b)) /\ Same(b2, back, In(S, n, b))
        BY <1>4, <3>4 DEF Same
      <4> QED BY <3>3, <4>1, BucketFrame
    <3> QED BY <3>1, <3>2, <3>5
  <2> QED BY <2>1, <2>2
<1>7. TableOK(f2, b2, [B EXCEPT ![k] = q], n, S \cup {x}) /\ Same(f2, f, Elems \ {x})
  BY <1>4, <1>5, <1>6 DEF TableOK, Same
<1>8. f2 = Forth(f, x, B[k].hh_head) /\ b2 = Back(back, x, B[k].hh_head)
  BY <1>0 DEF Forth, Back
<1> QED BY <1>4, <1>7, <1>8

(* Bucket q is r without x, which was followed by v.                        *)
Shrunk(r, q, x, v) ==
  /\ IsBucket(q) /\ q.hh_head = (IF r.hh_head = x THEN v ELSE r.hh_head)
  /\ q.count = r.count - 1

(* x is taken out of its bucket.                                            *)
LEMMA TableDelete ==
  ASSUME NEW f \in [Elems -> Pointers], NEW back \in [Elems -> Pointers],
         NEW B, NEW n \in Nat \ {0}, NEW S \in SUBSET Elems, TableOK(f, back, B, n, S),
         NEW x \in S, NEW k, k = Bucket(Key[x], n), NEW q,
         Shrunk(B[k], q, x, f[x])
  PROVE  /\ TableOK(Unlinked(f, back, x), Unlinked(back, f, x), [B EXCEPT ![k] = q], n, S \ {x})
         /\ Unlinked(f, back, x) \in [Elems -> Pointers]
         /\ Unlinked(back, f, x) \in [Elems -> Pointers]
<1>1. k \in 0..(n - 1) /\ IsTable(B, n)
  BY BucketRange DEF TableOK
<1>2. BucketOK(f, back, B[k], In(S, n, k)) /\ x \in In(S, n, k)
  BY <1>1 DEF TableOK, In
<1>3. PICK h, c : /\ h = B[k].hh_head /\ Chained(f, h, c) /\ Members(c) = In(S, n, k)
                  /\ DoublyLinked(c, back) /\ B[k].count = Len(c)
  BY <1>2 DEF BucketOK
<1>4. c \in Seq(Elems) /\ Distinct(c) /\ Members(c) = {c[i] : i \in 1..Len(c)} /\ Len(c) \in Nat
  BY <1>3, SeqFacts DEF Chained
<1>5. PICK i \in 1..Len(c) : x = c[i]
  BY <1>2, <1>3, <1>4
<1>6. PICK f2, b2 : f2 = Unlinked(f, back, x) /\ b2 = Unlinked(back, f, x)
  OBVIOUS
<1>7. /\ f2 \in [Elems -> Pointers] /\ b2 \in [Elems -> Pointers]
      /\ Chained(f2, IF h = x THEN f[x] ELSE h, Minus(c, i)) /\ DoublyLinked(Minus(c, i), b2)
      /\ \A y \in Elems : y # x => f2[y] = IF y = back[x] THEN f[x] ELSE f[y]
      /\ \A y \in Elems : y # x => b2[y] = IF y = f[x] THEN back[x] ELSE back[y]
  BY <1>3, <1>5, <1>6, LinksMinus
<1>8. Len(Minus(c, i)) = Len(c) - 1 /\ Members(Minus(c, i)) = Members(c) \ {x}
  <2>1. Len(Minus(c, i)) = Len(c) - 1 /\ Members(Minus(c, i)) = Members(c) \ {c[i]}
    BY <1>4, MinusIs
  <2> QED BY <1>5, <2>1
<1>9. BucketOK(f2, b2, q, In(S, n, k) \ {x})
  <2>1. Chained(f2, q.hh_head, Minus(c, i))
    BY <1>3, <1>7 DEF Shrunk
  <2> QED BY <1>3, <1>7, <1>8, <2>1 DEF BucketOK, Shrunk
<1>10. (back[x] # Null => back[x] \in In(S, n, k)) /\ (f[x] # Null => f[x] \in In(S, n, k))
  <2>1. /\ back[x] = IF i = 1 THEN Null ELSE c[i - 1]
        /\ f[x] = IF i = Len(c) THEN Null ELSE c[i + 1]
        /\ i # 1 => i - 1 \in 1..Len(c)
        /\ i # Len(c) => i + 1 \in 1..Len(c)
    BY <1>3, <1>5, Neighbours
  <2> QED BY <1>3, <1>4, <2>1
<1>11. IsTable([B EXCEPT ![k] = q], n)
  BY <1>1 DEF IsTable
<1>12. ASSUME NEW b \in 0..(n - 1)
       PROVE  BucketOK(f2, b2, [B EXCEPT ![k] = q][b], In(S \ {x}, n, b))
  <2>1. CASE b = k
    <3>1. [B EXCEPT ![k] = q][b] = q
      BY <1>1, <2>1 DEF IsTable
    <3>2. In(S \ {x}, n, b) = In(S, n, k) \ {x}
      BY <2>1 DEF In
    <3> QED BY <1>9, <3>1, <3>2
  <2>2. CASE b # k
    <3>1. [B EXCEPT ![k] = q][b] = B[b]
      BY <1>1, <2>2 DEF IsTable
    <3>2. In(S \ {x}, n, b) = In(S, n, b)
      BY <2>2 DEF In
    <3>3. BucketOK(f, back, B[b], In(S, n, b))
      BY DEF TableOK
    <3>4. \A y \in In(S, n, b) : y \in Elems /\ y # x /\ y # back[x] /\ y # f[x]
      BY <1>10, <2>2, ElemsAssumption DEF In
    <3>5. Same(f2, f, In(S, n, b)) /\ Same(b2, back, In(S, n, b))
      BY <1>7, <3>4 DEF Same
    <3>6. BucketOK(f2, b2, B[b], In(S, n, b))
      BY <3>3, <3>5, BucketFrame
    <3> QED BY <3>1, <3>2, <3>6
  <2> QED BY <2>1, <2>2
<1>13. TableOK(f2, b2, [B EXCEPT ![k] = q], n, S \ {x})
  BY <1>11, <1>12 DEF TableOK
<1> QED BY <1>6, <1>7, <1>13
-----------------------------------------------------------------------------
(* An expansion under way: of n buckets B, those below mv.from are done, L  *)
(* is left of that one, and the elements that were moved are in mv.to.      *)
IsMove(mv) == mv = [from |-> mv.from, thh |-> mv.thh, to |-> mv.to,
                    ideal |-> mv.ideal, nonideal |-> mv.nonideal]
Moved(S, n, a, L) ==
  {e \in S : Bucket(Key[e], n) < a \/ (Bucket(Key[e], n) = a /\ e \notin L)}
MoveAt(f, back, B, n, mv, S, L) ==
  /\ IsMove(mv) /\ mv.from \in 0..(n - 1)
  /\ Leads(f, mv.thh, L) /\ L \subseteq In(S, n, mv.from)
  /\ \A b \in 0..(n - 1) : b > mv.from => Leads(f, B[b].hh_head, In(S, n, b))
  /\ TableOK(f, back, mv.to, 2 * n, Moved(S, n, mv.from, L))
MoveOK(f, back, B, n, mv, S) == \E L : MoveAt(f, back, B, n, mv, S, L)

(* The number of buckets is doubled, and the first one has number 0.        *)
LEMMA Doubles == \A n \in Nat \ {0} : 2 * n \in Nat \ {0} /\ 0 \in 0..(n - 1)
  BY SMT

(* A pointer is NULL just when it leads to nothing.                         *)
LEMMA LeadsNowhere ==
  ASSUME NEW f, NEW h, NEW S, Leads(f, h, S)
  PROVE  /\ h = Null <=> S = {}
         /\ h \in Pointers /\ S \subseteq Elems
         /\ h # Null => h \in S /\ Leads(f, f[h], S \ {h})
<1>1. PICK c : Chained(f, h, c) /\ Members(c) = S
  BY DEF Leads
<1>2. S \subseteq Elems
  BY <1>1, SeqFacts DEF Chained
<1>3. CASE h = Null
  BY <1>1, <1>2, <1>3, FirstIs DEF Pointers
<1>4. CASE h # Null
  <2>1. h \in S /\ h \in Elems
    BY <1>1, <1>4, FirstIs
  <2>2. Leads(f, f[h], S \ {h})
    BY <1>1, <1>4, ChainRest DEF Leads
  <2> QED BY <1>2, <1>4, <2>1, <2>2 DEF Pointers
<1> QED BY <1>3, <1>4

(* HASH_EXPAND_BUCKETS begins with the first bucket.                        *)
LEMMA MoveBegins ==
  ASSUME NEW f, NEW back, NEW B, NEW n \in Nat \ {0}, NEW S \in SUBSET Elems,
         TableOK(f, back, B, n, S),
         NEW mv, IsMove(mv), mv.from = 0, mv.thh = B[0].hh_head, mv.to = EmptyBuckets(2 * n)
  PROVE  MoveOK(f, back, B, n, mv, S)
<1>1. \A b \in 0..(n - 1) : Leads(f, B[b].hh_head, In(S, n, b))
  BY BucketLeads DEF TableOK
<1>2. 2 * n \in Nat /\ 0 \in 0..(n - 1)
  BY Doubles
<1>3. Moved(S, n, 0, In(S, n, 0)) = {}
  <2>1. \A e \in S : Bucket(Key[e], n) \in 0..(n - 1)
    BY BucketRange
  <2>2. \A i \in 0..(n - 1) : ~(i < 0)
    BY SMT
  <2> QED BY <2>1, <2>2 DEF Moved, In
<1>4. TableOK(f, back, EmptyBuckets(2 * n), 2 * n, {})
  BY <1>2, EmptyTable
<1>5. MoveAt(f, back, B, n, mv, S, In(S, n, 0))
  BY <1>1, <1>2, <1>3, <1>4 DEF MoveAt
<1> QED BY <1>5 DEF MoveOK

(* It goes on to the next bucket when one is empty.                         *)
LEMMA MoveGoesOn ==
  ASSUME NEW f, NEW back, NEW B, NEW n \in Nat \ {0}, NEW S \in SUBSET Elems,
         NEW mv, MoveOK(f, back, B, n, mv, S), mv.thh = Null, mv.from + 1 < n,
         NEW mv2, IsMove(mv2), mv2.from = mv.from + 1,
         mv2.thh = B[mv.from + 1].hh_head, mv2.to = mv.to
  PROVE  MoveOK(f, back, B, n, mv2, S)
<1>1. PICK L : MoveAt(f, back, B, n, mv, S, L)
  BY DEF MoveOK
<1>2. PICK a \in 0..(n - 1) : a = mv.from /\ a + 1 < n
  BY <1>1 DEF MoveAt
<1>3. a + 1 \in 0..(n - 1) /\ a + 1 > a /\ \A b \in 0..(n - 1) : b > a + 1 => b > a
  BY <1>2, SMT
<1>4. L = {}
  BY <1>1, LeadsNowhere DEF MoveAt
<1>5. Moved(S, n, a + 1, In(S, n, a + 1)) = Moved(S, n, a, L)
  <2>1. \A e \in S : Bucket(Key[e], n) \in 0..(n - 1)
    BY BucketRange
  <2>2. \A i \in 0..(n - 1) : i < a + 1 <=> i < a \/ i = a
    BY SMT
  <2>3. \A e \in S : Bucket(Key[e], n) < a + 1 <=> Bucket(Key[e], n) < a \/ Bucket(Key[e], n) = a
    BY <2>1, <2>2
  <2> QED BY <1>4, <2>3 DEF Moved, In
<1>6. \A b \in 0..(n - 1) : b > a => Leads(f, B[b].hh_head, In(S, n, b))
  BY <1>1, <1>2 DEF MoveAt
<1>7. TableOK(f, back, mv.to, 2 * n, Moved(S, n, a, L))
  BY <1>1, <1>2 DEF MoveAt
<1>8. MoveAt(f, back, B, n, mv2, S, In(S, n, a + 1))
  BY <1>2, <1>3, <1>5, <1>6, <1>7 DEF MoveAt
<1> QED BY <1>8 DEF MoveOK

(* After the last bucket the new buckets have all elements.                 *)
LEMMA MoveEnds ==
  ASSUME NEW f, NEW back, NEW B, NEW n \in Nat \ {0}, NEW S \in SUBSET Elems,
         NEW mv, MoveOK(f, back, B, n, mv, S), mv.thh = Null, mv.from + 1 = n
  PROVE  TableOK(f, back, mv.to, 2 * n, S)
<1>1. PICK L : MoveAt(f, back, B, n, mv, S, L)
  BY DEF MoveOK
<1>2. PICK a \in 0..(n - 1) : a = mv.from /\ a + 1 = n
  BY <1>1 DEF MoveAt
<1>3. L = {}
  BY <1>1, LeadsNowhere DEF MoveAt
<1>4. Moved(S, n, a, L) = S
  <2>1. \A e \in S : Bucket(Key[e], n) \in 0..(n - 1)
    BY BucketRange
  <2>2. \A i \in 0..(n - 1) : i < a \/ i = a
    BY <1>2, SMT
  <2> QED BY <1>3, <2>1, <2>2 DEF Moved
<1> QED BY <1>1, <1>2, <1>4 DEF MoveAt

(* The move mv2 is mv after q became the k-th bucket.                       *)
Advanced(mv, mv2, thh, k, q) ==
  IsMove(mv2) /\ mv2.from = mv.from /\ mv2.thh = thh /\ mv2.to = [mv.to EXCEPT ![k] = q]

(* It moves one element to the new bucket of its hash.                      *)
LEMMA MoveOne ==
  ASSUME NEW f \in [Elems -> Pointers], NEW back \in [Elems -> Pointers],
         NEW B, NEW n \in Nat \ {0}, NEW S \in SUBSET Elems,
         NEW mv, MoveOK(f, back, B, n, mv, S), mv.thh # Null,
         NEW x, x = mv.thh, NEW k, k = Bucket(Key[x], 2 * n),
         NEW q, IsBucket(q), q.hh_head = x, q.count = mv.to[k].count + 1,
         NEW mv2, Advanced(mv, mv2, f[x], k, q)
  PROVE  /\ MoveOK(Forth(f, x, mv.to[k].hh_head), Back(back, x, mv.to[k].hh_head), B, n, mv2, S)
         /\ Forth(f, x, mv.to[k].hh_head) \in [Elems -> Pointers]
         /\ Back(back, x, mv.to[k].hh_head) \in [Elems -> Pointers]
<1>1. PICK L : MoveAt(f, back, B, n, mv, S, L)
  BY DEF MoveOK
<1>2. PICK a \in 0..(n - 1) : a = mv.from
  BY <1>1 DEF MoveAt
<1>3. Leads(f, x, L) /\ L \subseteq In(S, n, a)
  BY <1>1, <1>2 DEF MoveAt
<1>4. x \in L /\ Leads(f, f[x], L \ {x}) /\ L \subseteq Elems /\ x \in Elems
  BY <1>3, LeadsNowhere
<1>5. x \in S /\ Bucket(Key[x], n) = a
  BY <1>3, <1>4 DEF In
<1>6. PICK T : T = Moved(S, n, a, L) /\ T \in SUBSET Elems /\ x \notin T
  <2>1. ~(a < a)
    BY SMT
  <2>2. x \notin Moved(S, n, a, L)
    BY <1>4, <1>5, <2>1 DEF Moved
  <2>3. Moved(S, n, a, L) \subseteq Elems
    BY DEF Moved
  <2> QED BY <2>2, <2>3
<1>7. TableOK(f, back, mv.to, 2 * n, T) /\ 2 * n \in Nat \ {0}
  BY <1>1, <1>2, <1>6, Doubles DEF MoveAt
<1>8. PICK f2, b2 : f2 = Forth(f, x, mv.to[k].hh_head) /\ b2 = Back(back, x, mv.to[k].hh_head)
  OBVIOUS
<1>9. /\ TableOK(f2, b2, mv2.to, 2 * n, T \cup {x}) /\ Same(f2, f, Elems \ {x})
      /\ f2 \in [Elems -> Pointers] /\ b2 \in [Elems -> Pointers]
  <2>1. PICK N \in Nat \ {0} : N = 2 * n
    BY <1>7
  <2>2. PICK C : C = mv.to
    OBVIOUS
  <2>3. TableOK(f, back, C, N, T) /\ k = Bucket(Key[x], N) /\ q.count = C[k].count + 1
    BY <1>7, <2>1, <2>2
  <2>4. /\ TableOK(Forth(f, x, C[k].hh_head), Back(back, x, C[k].hh_head),
                    [C EXCEPT ![k] = q], N, T \cup {x})
        /\ Forth(f, x, C[k].hh_head) \in [Elems -> Pointers]
        /\ Back(back, x, C[k].hh_head) \in [Elems -> Pointers]
        /\ Same(Forth(f, x, C[k].hh_head), f, Elems \ {x})
    <3>1. x \in Elems /\ x \notin T /\ T \in SUBSET Elems /\ IsBucket(q) /\ q.hh_head = x
      BY <1>4, <1>6
    <3> QED BY <3>1, <2>3, TableInsert, Zenon
  <2> QED BY <1>8, <2>1, <2>2, <2>4 DEF Advanced
<1>10. Moved(S, n, a, L \ {x}) = T \cup {x}
  BY <1>5, <1>6 DEF Moved
<1>11. Leads(f2, f[x], L \ {x})
  <2>1. Same(f2, f, L \ {x})
    BY <1>4, <1>9 DEF Same
  <2> QED BY <1>4, <2>1, LeadsFrame
<1>12. ASSUME NEW b \in 0..(n - 1), b > a PROVE Leads(f2, B[b].hh_head, In(S, n, b))
  <2>1. Leads(f, B[b].hh_head, In(S, n, b))
    BY <1>1, <1>2, <1>12 DEF MoveAt
  <2>2. b # a
    BY <1>12, SMT
  <2>3. Same(f2, f, In(S, n, b))
    BY <1>5, <1>9, <2>2 DEF Same, In
  <2> QED BY <2>1, <2>3, LeadsFrame
<1>13. L \ {x} \subseteq In(S, n, a)
  BY <1>3
<1>14. MoveAt(f2, b2, B, n, mv2, S, L \ {x})
  BY <1>2, <1>9, <1>10, <1>11, <1>12, <1>13 DEF MoveAt, Advanced
<1> QED BY <1>8, <1>9, <1>14 DEF MoveOK

(* Without a table there are no elements.                                   *)
LEMMA NoTable ==
  ASSUME NEW f, NEW back
  PROVE  TableOK(f, back, <<>>, 0, {})
<1>1. 0..(0 - 1) = {} /\ 0 \in Nat
  BY SMT
<1>2. IsTable(<<>>, 0)
  BY <1>1 DEF IsTable
<1> QED BY <1>1, <1>2 DEF TableOK

(* The elements of a sequence that has grown by one.                        *)
LEMMA AppendMembers ==
  ASSUME NEW s \in Seq(Elems), NEW x \in Elems
  PROVE  /\ Members(Append(s, x)) = Members(s) \cup {x}
         /\ Len(Append(s, x)) = Len(s) + 1 /\ Len(s) \in Nat /\ Len(s) + 1 - 1 = Len(s)
<1> DEFINE t == Append(s, x)
<1>1. Len(s) \in Nat /\ Members(s) = {s[i] : i \in 1..Len(s)}
  BY SeqFacts
<1>2. /\ t \in Seq(Elems) /\ Len(t) = Len(s) + 1 /\ t[Len(s) + 1] = x
      /\ \A i \in 1..Len(s) : t[i] = s[i]
  BY AppendProperties
<1> HIDE DEF t
<1>3. Members(t) = {t[i] : i \in 1..(Len(s) + 1)}
  BY <1>2, SeqFacts
<1>4. /\ \A i \in 1..(Len(s) + 1) : i = Len(s) + 1 \/ i \in 1..Len(s)
      /\ Len(s) + 1 \in 1..(Len(s) + 1) /\ \A i \in 1..Len(s) : i \in 1..(Len(s) + 1)
      /\ Len(s) + 1 - 1 = Len(s)
  BY <1>1, SMT
<1>5. Members(t) = Members(s) \cup {x}
  BY <1>1, <1>2, <1>3, <1>4
<1> QED BY <1>1, <1>2, <1>4, <1>5 DEF t

(* What the buckets hold at each step of the writing thread: an element     *)
(* that is added is in no chain, then only its bucket's head is missing,    *)
(* and an expansion moves the elements one by one.                          *)
Announced == [buckets EXCEPT ![AddBucket].hh_head = add]

ChainTypes ==
  hh_next \in [Elems -> Pointers] /\ hh_prev \in [Elems -> Pointers] /\ num_buckets \in Nat

Counts ==
  /\ num_items = IF writer \in {"make", "chain"} THEN Len(Order) - 1 ELSE Len(Order)
  /\ writer = "make" => num_buckets = 0
  /\ writer # "make" => (head = Null <=> num_buckets = 0)
  /\ writer \in {"expand", "move", "swap"} => head # Null

Buckets ==
  /\ writer \in {"idle", "iter", "expand"} =>
       TableOK(hh_next, hh_prev, buckets, num_buckets, Listed)
  /\ writer = "chain" =>
       TableOK(hh_next, hh_prev, buckets, num_buckets, Listed \ {add})
  /\ writer = "publish" =>
       /\ TableOK(hh_next, hh_prev, Announced, num_buckets, Listed)
       /\ Forward(hh_next, buckets, num_buckets, Listed \ {add})
  /\ writer = "move" => MoveOK(hh_next, hh_prev, buckets, num_buckets, move, Listed)
  /\ writer = "swap" => TableOK(hh_next, hh_prev, move.to, num_buckets, Listed)

TableInv == ChainTypes /\ Counts /\ Buckets

(* What the lemmas below use of the list.                                   *)
LEMMA ListFacts ==
  ASSUME ListInv
  PROVE  /\ Chained(next, head, Order) /\ Order \in Seq(Elems) /\ Distinct(Order)
         /\ Len(Order) \in Nat /\ Listed \in SUBSET Elems
         /\ Listed = {Order[i] : i \in 1..Len(Order)}
         /\ DoublyLinked(Order, prev) /\ IsChain(next, head)
         /\ Adding => head # Null /\ add \in Listed /\ add = Order[Len(Order)]
         /\ head = Null <=> Listed = {}
<1>1. /\ Chained(next, head, Order) /\ Order \in Seq(Elems) /\ Distinct(Order)
      /\ DoublyLinked(Order, prev) /\ IsChain(next, head)
  BY DEF ListInv, ListOK, IsChain, Order, Chained
<1>2. Len(Order) \in Nat /\ Listed \in SUBSET Elems /\ Listed = {Order[i] : i \in 1..Len(Order)}
  BY <1>1, SeqFacts DEF Listed
<1>3. head = Null <=> Listed = {}
  BY <1>1, FirstIs DEF Listed
<1>4. Adding => head # Null /\ add = Order[Len(Order)]
  BY DEF ListInv, ListOK
<1>5. head # Null => Len(Order) \in 1..Len(Order)
  <2>1. head # Null => Len(Order) # 0
    BY <1>1, FirstIs
  <2> QED BY <1>2, <2>1, SMT
<1> QED BY <1>1, <1>2, <1>3, <1>4, <1>5

(* Steps that write neither a chain nor the table.                          *)
LEMMA TableKeeps ==
  ASSUME ListInv, TableInv, UNCHANGED <<list, chains, table, add, move>>,
         writer' = writer \/ {writer, writer'} \subseteq {"idle", "iter"}
  PROVE  TableInv'
<1>1. /\ head' = head /\ next' = next /\ hh_next' = hh_next /\ hh_prev' = hh_prev
      /\ num_items' = num_items /\ num_buckets' = num_buckets /\ buckets' = buckets
      /\ add' = add /\ move' = move
  BY DEF list, chains, table
<1>2. Order' = Order /\ Listed' = Listed
  BY <1>1 DEF Order, Listed
<1>3. ChainTypes'
  BY <1>1 DEF TableInv, ChainTypes
<1>4. Counts'
  BY <1>1, <1>2 DEF TableInv, Counts
<1>5. Announced' = Announced
  BY <1>1 DEF Announced, AddBucket
<1>6. Buckets'
  <2>1. CASE writer' = writer
    BY <1>1, <1>2, <1>5, <2>1 DEF TableInv, Buckets
  <2>2. CASE {writer, writer'} \subseteq {"idle", "iter"}
    BY <1>1, <1>2, <2>2 DEF TableInv, Buckets
  <2> QED BY <2>1, <2>2
<1> QED BY <1>3, <1>4, <1>6 DEF TableInv

(* HASH_ADD links the element, and it is in no bucket yet.                  *)
LEMMA TableLink ==
  ASSUME ListInv, TableInv, NEW e \in Elems, AddLink(e)
  PROVE  TableInv'
<1>1. /\ hh_next' = hh_next /\ hh_prev' = hh_prev /\ num_items' = num_items /\ writer = "idle"
      /\ num_buckets' = num_buckets /\ buckets' = buckets /\ add' = e /\ e \notin Listed
      /\ (head = Null /\ writer' = "make") \/ (head # Null /\ writer' = "chain")
      /\ head' # Null
  BY ElemsAssumption DEF AddLink, chains
<1>2. Order' = Append(Order, e)
  BY AddList DEF ListInv
<1>3. Listed' = Listed \cup {e} /\ Len(Order') = Len(Order) + 1 /\ Len(Order) + 1 - 1 = Len(Order)
  BY <1>2, ListFacts, AppendMembers DEF Listed
<1>4. ChainTypes'
  BY <1>1 DEF TableInv, ChainTypes
<1>5. num_items = Len(Order) /\ (head = Null <=> num_buckets = 0)
      /\ TableOK(hh_next, hh_prev, buckets, num_buckets, Listed)
  BY <1>1 DEF TableInv, Counts, Buckets
<1>6. Counts'
  BY <1>1, <1>3, <1>5 DEF Counts
<1>7. Listed' \ {add'} = Listed
  BY <1>1, <1>3
<1>8. Buckets'
  BY <1>1, <1>5, <1>7 DEF Buckets
<1> QED BY <1>4, <1>6, <1>8 DEF TableInv

(* HASH_MAKE_TABLE.                                                         *)
LEMMA TableMake ==
  ASSUME ListInv, TableInv, HASH_MAKE_TABLE
  PROVE  TableInv'
<1>1. /\ hh_next' = hh_next /\ hh_prev' = hh_prev /\ num_items' = 0 /\ writer = "make"
      /\ num_buckets' = HASH_INITIAL_NUM_BUCKETS /\ writer' = "chain" /\ add' = add
      /\ buckets' = EmptyBuckets(HASH_INITIAL_NUM_BUCKETS) /\ head' = head /\ next' = next
  BY DEF HASH_MAKE_TABLE, chains, list
<1>2. Order' = Order /\ Listed' = Listed
  BY <1>1 DEF Order, Listed
<1>3. Len(Order) = 1 /\ head # Null /\ Listed = {add}
  <2>1. Len(Order) = 1 /\ head # Null /\ add = Order[Len(Order)]
    BY <1>1 DEF ListInv, ListOK, Adding
  <2>2. 1..1 = {1}
    BY SMT
  <2> QED BY <2>1, <2>2, ListFacts
<1>4. HASH_INITIAL_NUM_BUCKETS \in Nat /\ HASH_INITIAL_NUM_BUCKETS # 0
  BY SizesAssumption
<1>5. TableOK(hh_next, hh_prev, buckets', num_buckets', {})
  BY <1>1, <1>4, EmptyTable
<1>6. ChainTypes'
  BY <1>1, <1>4 DEF TableInv, ChainTypes
<1>7. Counts'
  BY <1>1, <1>2, <1>3, <1>4 DEF Counts
<1>8. Listed' \ {add'} = {}
  BY <1>1, <1>2, <1>3
<1>9. Buckets'
  BY <1>1, <1>5, <1>8 DEF Buckets
<1> QED BY <1>6, <1>7, <1>9 DEF TableInv

(* HASH_ADD_TO_BKT, up to the head of the bucket.                           *)
LEMMA TableChain ==
  ASSUME ListInv, TableInv, AddChain
  PROVE  TableInv'
<1>1. /\ num_items' = num_items + 1 /\ writer = "chain" /\ writer' = "publish" /\ add' = add
      /\ num_buckets' = num_buckets /\ head' = head /\ next' = next
      /\ buckets' = [buckets EXCEPT ![AddBucket].count = @ + 1]
      /\ hh_next' = [hh_next EXCEPT ![add] = buckets[AddBucket].hh_head]
      /\ hh_prev' = Set([hh_prev EXCEPT ![add] = Null], buckets[AddBucket].hh_head, add)
  BY DEF AddChain, list
<1>2. Order' = Order /\ Listed' = Listed
  BY <1>1 DEF Order, Listed
<1>3. head # Null /\ add \in Listed /\ Listed \in SUBSET Elems /\ add \in Elems /\ Len(Order) \in Nat
  BY <1>1, ListFacts DEF Adding
<1>4. /\ num_items = Len(Order) - 1 /\ num_buckets \in Nat \ {0}
      /\ hh_next \in [Elems -> Pointers] /\ hh_prev \in [Elems -> Pointers]
      /\ TableOK(hh_next, hh_prev, buckets, num_buckets, Listed \ {add})
  BY <1>1, <1>3 DEF TableInv, Counts, Buckets, ChainTypes
<1>5. PICK f, g, B, n, k, r, x, S :
        /\ f = hh_next /\ g = hh_prev /\ B = buckets /\ n = num_buckets /\ k = AddBucket
        /\ r = buckets[AddBucket] /\ x = add /\ S = Listed \ {add}
  OBVIOUS
<1>6. /\ f \in [Elems -> Pointers] /\ g \in [Elems -> Pointers] /\ n \in Nat \ {0}
      /\ S \in SUBSET Elems /\ TableOK(f, g, B, n, S) /\ x \in Elems /\ x \notin S
      /\ k = Bucket(Key[x], n) /\ r = B[k] /\ S \cup {x} = Listed
  BY <1>3, <1>4, <1>5 DEF AddBucket
<1>7. k \in 0..(n - 1) /\ IsTable(B, n) /\ IsBucket(r)
  BY <1>6, BucketRange DEF TableOK, BucketOK
<1>8. PICK q : q = [hh_head |-> x, count |-> r.count + 1, expand_mult |-> r.expand_mult]
  OBVIOUS
<1>9. IsBucket(q) /\ q.hh_head = x /\ q.count = B[k].count + 1
  BY <1>6, <1>8 DEF IsBucket
<1>10. /\ TableOK(Forth(f, x, B[k].hh_head), Back(g, x, B[k].hh_head),
                  [B EXCEPT ![k] = q], n, S \cup {x})
       /\ Forth(f, x, B[k].hh_head) \in [Elems -> Pointers]
       /\ Back(g, x, B[k].hh_head) \in [Elems -> Pointers]
       /\ Same(Forth(f, x, B[k].hh_head), f, Elems \ {x})
  BY <1>6, <1>9, TableInsert, Zenon
<1>11. hh_next' = Forth(f, x, B[k].hh_head) /\ hh_prev' = Back(g, x, B[k].hh_head)
  BY <1>1, <1>5 DEF Forth, Back
<1>12. PICK B2 : B2 = buckets' /\ B2 = [B EXCEPT ![k] = [r EXCEPT !.count = r.count + 1]]
  BY <1>1, <1>5, <1>6, <1>7 DEF IsTable
<1>13. /\ B2[k] = [r EXCEPT !.count = r.count + 1] /\ B2[k].hh_head = r.hh_head
       /\ [B2[k] EXCEPT !.hh_head = x] = q
  <2>1. B2[k] = [r EXCEPT !.count = r.count + 1]
    BY <1>7, <1>12 DEF IsTable
  <2>2. B2[k] = [hh_head |-> r.hh_head, count |-> r.count + 1, expand_mult |-> r.expand_mult]
    BY <1>7, <2>1 DEF IsBucket
  <2>3. B2[k].hh_head = r.hh_head
    BY <2>2
  <2>4. [B2[k] EXCEPT !.hh_head = x]
          = [hh_head |-> x, count |-> r.count + 1, expand_mult |-> r.expand_mult]
    BY <2>2
  <2> QED BY <1>8, <2>1, <2>3, <2>4
<1>14. \A b \in 0..(n - 1) : B2[b].hh_head = B[b].hh_head
  BY <1>6, <1>7, <1>12, <1>13 DEF IsTable
<1>15. Announced' = [B EXCEPT ![k] = q]
  <2>1. AddBucket' = k
    BY <1>1, <1>5 DEF AddBucket
  <2>2. Announced' = [B2 EXCEPT ![k].hh_head = x]
    BY <1>1, <1>5, <1>12, <2>1 DEF Announced
  <2>3. [B2 EXCEPT ![k].hh_head = x] = [B2 EXCEPT ![k] = q]
    BY <1>7, <1>12, <1>13 DEF IsTable
  <2>4. [B2 EXCEPT ![k] = q] = [B EXCEPT ![k] = q]
    BY <1>7, <1>12 DEF IsTable
  <2> QED BY <2>2, <2>3, <2>4
<1>16. Forward(hh_next', B2, n, S)
  <2> SUFFICES ASSUME NEW b \in 0..(n - 1) PROVE Leads(hh_next', B2[b].hh_head, In(S, n, b))
    BY DEF Forward
  <2>1. Leads(f, B[b].hh_head, In(S, n, b))
    BY <1>6, BucketLeads DEF TableOK
  <2>2. Same(hh_next', f, In(S, n, b))
    BY <1>6, <1>10, <1>11 DEF Same, In
  <2>3. Leads(hh_next', B[b].hh_head, In(S, n, b))
    BY <2>1, <2>2, LeadsFrame
  <2> QED BY <1>14, <2>3
<1>17. Listed' \ {add'} = S /\ num_buckets' = n /\ S \cup {x} = Listed'
  BY <1>1, <1>2, <1>5, <1>6
<1>18. Buckets'
  <2>1. TableOK(hh_next', hh_prev', Announced', num_buckets', Listed')
    BY <1>10, <1>11, <1>15, <1>17
  <2>2. Forward(hh_next', buckets', num_buckets', Listed' \ {add'})
    BY <1>12, <1>16, <1>17
  <2> QED BY <1>1, <2>1, <2>2 DEF Buckets
<1>19. ChainTypes'
  BY <1>1, <1>4, <1>10, <1>11 DEF ChainTypes
<1>20. Counts'
  <2>1. num_items' = Len(Order')
    BY <1>1, <1>2, <1>3, <1>4, SMT
  <2> QED BY <1>1, <1>3, <1>4, <2>1 DEF Counts
<1> QED BY <1>18, <1>19, <1>20 DEF TableInv

(* HASH_ADD_TO_BKT sets the head of the bucket.                             *)
LEMMA TablePublish ==
  ASSUME ListInv, TableInv, AddPublish
  PROVE  TableInv'
<1>1. /\ num_items' = num_items /\ writer = "publish" /\ writer' \in {"expand", "idle"}
      /\ num_buckets' = num_buckets /\ head' = head /\ next' = next
      /\ buckets' = Announced /\ hh_next' = hh_next /\ hh_prev' = hh_prev
  BY DEF AddPublish, list, chains, Announced
<1>2. Order' = Order /\ Listed' = Listed
  BY <1>1 DEF Order, Listed
<1>3. head # Null
  BY <1>1, ListFacts DEF Adding
<1>4. num_items = Len(Order) /\ TableOK(hh_next, hh_prev, Announced, num_buckets, Listed)
      /\ num_buckets # 0
  BY <1>1, <1>3 DEF TableInv, Counts, Buckets
<1>5. ChainTypes'
  BY <1>1 DEF TableInv, ChainTypes
<1>6. Counts'
  BY <1>1, <1>2, <1>3, <1>4 DEF Counts
<1>7. Buckets'
  BY <1>1, <1>2, <1>4 DEF Buckets
<1> QED BY <1>5, <1>6, <1>7 DEF TableInv

(* HASH_EXPAND_BUCKETS allocates the new buckets.                           *)
LEMMA TableExpands ==
  ASSUME ListInv, TableInv, ExpandBegin
  PROVE  TableInv'
<1>1. /\ num_items' = num_items /\ writer = "expand" /\ writer' = "move"
      /\ num_buckets' = num_buckets /\ head' = head /\ next' = next
      /\ buckets' = buckets /\ hh_next' = hh_next /\ hh_prev' = hh_prev
      /\ \E i : move' = [from |-> 0, thh |-> buckets[0].hh_head, to |-> EmptyBuckets(2 * num_buckets),
                         ideal |-> i, nonideal |-> 0]
  BY DEF ExpandBegin, list, chains, table
<1>2. Order' = Order /\ Listed' = Listed
  BY <1>1 DEF Order, Listed
<1>3. /\ num_items = Len(Order) /\ head # Null /\ num_buckets \in Nat \ {0}
      /\ TableOK(hh_next, hh_prev, buckets, num_buckets, Listed)
  BY <1>1 DEF TableInv, Counts, Buckets, ChainTypes
<1>4. /\ IsMove(move') /\ move'.from = 0 /\ move'.thh = buckets[0].hh_head
      /\ move'.to = EmptyBuckets(2 * num_buckets)
  BY <1>1 DEF IsMove
<1>5. MoveOK(hh_next, hh_prev, buckets, num_buckets, move', Listed)
  BY <1>3, <1>4, ListFacts, MoveBegins
<1>6. ChainTypes'
  BY <1>1 DEF TableInv, ChainTypes
<1>7. Counts'
  BY <1>1, <1>2, <1>3 DEF Counts
<1>8. Buckets'
  BY <1>1, <1>2, <1>5 DEF Buckets
<1> QED BY <1>6, <1>7, <1>8 DEF TableInv

(* HASH_EXPAND_BUCKETS moves an element.                                    *)
LEMMA TableMoves ==
  ASSUME ListInv, TableInv, ExpandMove
  PROVE  TableInv'
<1>1. /\ num_items' = num_items /\ writer = "move" /\ writer' = "move" /\ move.thh # Null
      /\ num_buckets' = num_buckets /\ head' = head /\ next' = next /\ buckets' = buckets
  BY DEF ExpandMove, list, table
<1>2. Order' = Order /\ Listed' = Listed
  BY <1>1 DEF Order, Listed
<1>3. /\ num_items = Len(Order) /\ head # Null /\ num_buckets \in Nat \ {0}
      /\ hh_next \in [Elems -> Pointers] /\ hh_prev \in [Elems -> Pointers]
      /\ MoveOK(hh_next, hh_prev, buckets, num_buckets, move, Listed)
  BY <1>1 DEF TableInv, Counts, Buckets, ChainTypes
<1>4. PICK f, g, n, mv, S, x, k, r, q, mv2 :
        /\ f = hh_next /\ g = hh_prev /\ n = num_buckets /\ mv = move /\ S = Listed
        /\ x = mv.thh /\ k = Bucket(Key[x], 2 * n) /\ r = mv.to[k]
        /\ q = Grown(r, x, mv.ideal) /\ mv2 = move'
  OBVIOUS
<1>5. /\ hh_next' = Forth(f, x, mv.to[k].hh_head) /\ hh_prev' = Back(g, x, mv.to[k].hh_head)
      /\ \E i : mv2 = [mv EXCEPT !.thh = f[x], !.to[k] = q, !.nonideal = i]
  BY <1>4 DEF ExpandMove, PushedPrev, Forth, Back
<1>6. /\ f \in [Elems -> Pointers] /\ g \in [Elems -> Pointers] /\ n \in Nat \ {0}
      /\ S \in SUBSET Elems /\ MoveOK(f, g, buckets, n, mv, S) /\ mv.thh # Null
  BY <1>1, <1>3, <1>4, ListFacts
<1>7. IsMove(mv)
  BY <1>6 DEF MoveOK, MoveAt
<1>8. Advanced(mv, mv2, f[x], k, q)
  BY <1>5, <1>7 DEF IsMove, Advanced
<1>9. IsBucket(q) /\ q.hh_head = x /\ q.count = mv.to[k].count + 1
  BY <1>4 DEF Grown, IsBucket
<1>10. /\ MoveOK(Forth(f, x, mv.to[k].hh_head), Back(g, x, mv.to[k].hh_head), buckets, n, mv2, S)
       /\ Forth(f, x, mv.to[k].hh_head) \in [Elems -> Pointers]
       /\ Back(g, x, mv.to[k].hh_head) \in [Elems -> Pointers]
  <2>1. x = mv.thh /\ k = Bucket(Key[x], 2 * n)
    BY <1>4
  <2> QED BY <1>6, <1>8, <1>9, <2>1, MoveOne, Zenon
<1>11. MoveOK(hh_next', hh_prev', buckets', num_buckets', move', Listed')
  BY <1>1, <1>2, <1>4, <1>5, <1>10
<1>12. ChainTypes'
  BY <1>1, <1>3, <1>5, <1>10 DEF ChainTypes
<1>13. Counts'
  BY <1>1, <1>2, <1>3 DEF Counts
<1>14. Buckets'
  BY <1>1, <1>11 DEF Buckets
<1> QED BY <1>12, <1>13, <1>14 DEF TableInv

(* HASH_EXPAND_BUCKETS is done with a bucket.                               *)
LEMMA TableGoesOn ==
  ASSUME ListInv, TableInv, ExpandNextBucket
  PROVE  TableInv'
<1>1. /\ num_items' = num_items /\ writer = "move" /\ move.thh = Null
      /\ head' = head /\ next' = next /\ buckets' = buckets
      /\ hh_next' = hh_next /\ hh_prev' = hh_prev
  BY DEF ExpandNextBucket, list, chains
<1>2. Order' = Order /\ Listed' = Listed
  BY <1>1 DEF Order, Listed
<1>3. /\ num_items = Len(Order) /\ head # Null /\ num_buckets \in Nat \ {0}
      /\ MoveOK(hh_next, hh_prev, buckets, num_buckets, move, Listed)
  BY <1>1 DEF TableInv, Counts, Buckets, ChainTypes
<1>4. IsMove(move) /\ Listed \in SUBSET Elems
  BY <1>3, ListFacts DEF MoveOK, MoveAt
<1>5. CASE move.from + 1 < num_buckets /\ writer' = writer /\ num_buckets' = num_buckets
           /\ move' = [move EXCEPT !.from = @ + 1, !.thh = buckets[move.from + 1].hh_head]
  <2>1. /\ IsMove(move') /\ move'.from = move.from + 1 /\ move'.to = move.to
        /\ move'.thh = buckets[move.from + 1].hh_head
    BY <1>4, <1>5 DEF IsMove
  <2>2. MoveOK(hh_next, hh_prev, buckets, num_buckets, move', Listed)
    BY <1>1, <1>3, <1>4, <1>5, <2>1, MoveGoesOn
  <2>3. ChainTypes'
    BY <1>1, <1>5 DEF TableInv, ChainTypes
  <2>4. Counts'
    BY <1>1, <1>2, <1>3, <1>5 DEF Counts
  <2>5. Buckets'
    BY <1>1, <1>2, <1>5, <2>2 DEF Buckets
  <2> QED BY <2>3, <2>4, <2>5 DEF TableInv
<1>6. CASE move.from + 1 = num_buckets /\ writer' = "swap" /\ num_buckets' = 2 * num_buckets
           /\ move' = move
  <2>1. TableOK(hh_next, hh_prev, move.to, 2 * num_buckets, Listed)
    BY <1>1, <1>3, <1>4, <1>6, MoveEnds
  <2>2. 2 * num_buckets \in Nat /\ 2 * num_buckets # 0
    BY <1>3, Doubles
  <2>3. ChainTypes'
    BY <1>1, <1>6, <2>2 DEF TableInv, ChainTypes
  <2>4. Counts'
    BY <1>1, <1>2, <1>3, <1>6, <2>2 DEF Counts
  <2>5. Buckets'
    BY <1>1, <1>2, <1>6, <2>1 DEF Buckets
  <2> QED BY <2>3, <2>4, <2>5 DEF TableInv
<1> QED BY <1>5, <1>6 DEF ExpandNextBucket

(* HASH_EXPAND_BUCKETS replaces the buckets.                                *)
LEMMA TableSwaps ==
  ASSUME ListInv, TableInv, ExpandSwap
  PROVE  TableInv'
<1>1. /\ num_items' = num_items /\ writer = "swap" /\ writer' = "idle"
      /\ head' = head /\ next' = next /\ buckets' = move.to /\ num_buckets' = num_buckets
      /\ hh_next' = hh_next /\ hh_prev' = hh_prev
  BY DEF ExpandSwap, list, chains
<1>2. Order' = Order /\ Listed' = Listed
  BY <1>1 DEF Order, Listed
<1>3. /\ num_items = Len(Order) /\ head # Null /\ num_buckets \in Nat \ {0}
      /\ TableOK(hh_next, hh_prev, move.to, num_buckets, Listed)
  BY <1>1 DEF TableInv, Counts, Buckets, ChainTypes
<1>4. ChainTypes'
  BY <1>1 DEF TableInv, ChainTypes
<1>5. Counts'
  BY <1>1, <1>2, <1>3 DEF Counts
<1>6. Buckets'
  BY <1>1, <1>2, <1>3 DEF Buckets
<1> QED BY <1>4, <1>5, <1>6 DEF TableInv

(* HASH_DELETE takes the element out of its bucket, or frees the table.     *)
LEMMA TableDrops ==
  ASSUME ListInv, TableInv, writer \in {"idle", "iter"}, writer' = writer,
         NEW m \in 1..Len(Order), HASH_DELETE(Order[m])
  PROVE  TableInv'
<1>1. /\ head # Null /\ Len(Order) \in Nat /\ Order \in Seq(Elems) /\ Distinct(Order)
      /\ IsChain(next, head) /\ DoublyLinked(Order, prev) /\ tail = Order[Len(Order)]
      /\ Listed \in SUBSET Elems /\ Listed = Members(Order) /\ Order[m] \in Listed
  <2>1. Order[m] \in Listed
    BY ListFacts
  <2>2. head # Null
    BY <2>1, ListFacts
  <2>3. tail = Order[Len(Order)]
    BY <2>2 DEF ListInv, ListOK
  <2> QED BY <2>1, <2>2, <2>3, ListFacts DEF Listed
<1>2. /\ Order' = Minus(Order, m) /\ (Sole(Order[m]) <=> Len(Order) = 1)
      /\ Sole(Order[m]) <=> head' = Null
  BY <1>1, DeleteList DEF ListInv
<1>3. Len(Order') = Len(Order) - 1 /\ Listed' = Listed \ {Order[m]}
  <2>1. /\ Len(Minus(Order, m)) = Len(Order) - 1
        /\ Members(Minus(Order, m)) = Members(Order) \ {Order[m]}
    BY <1>1, MinusIs
  <2> QED BY <1>1, <1>2, <2>1 DEF Listed
<1>4. /\ num_items = Len(Order) /\ num_buckets \in Nat \ {0}
      /\ hh_next \in [Elems -> Pointers] /\ hh_prev \in [Elems -> Pointers]
      /\ TableOK(hh_next, hh_prev, buckets, num_buckets, Listed)
  BY <1>1 DEF TableInv, Counts, Buckets, ChainTypes
<1>5. PICK f, g, B, n, S, x, k, r :
        /\ f = hh_next /\ g = hh_prev /\ B = buckets /\ n = num_buckets /\ S = Listed
        /\ x = Order[m] /\ k = Bucket(Key[x], n) /\ r = B[k]
  OBVIOUS
<1>6. /\ f \in [Elems -> Pointers] /\ g \in [Elems -> Pointers] /\ n \in Nat \ {0}
      /\ S \in SUBSET Elems /\ TableOK(f, g, B, n, S) /\ x \in S
  BY <1>1, <1>4, <1>5
<1>7. k \in 0..(n - 1) /\ IsTable(B, n) /\ IsBucket(r)
  BY <1>5, <1>6, BucketRange DEF TableOK, BucketOK
<1>8. PICK q : q = [hh_head |-> IF r.hh_head = x THEN f[x] ELSE r.hh_head,
                    count |-> r.count - 1, expand_mult |-> r.expand_mult]
  OBVIOUS
<1>9. Shrunk(B[k], q, x, f[x])
  BY <1>5, <1>8 DEF IsBucket, Shrunk
<1>10. /\ TableOK(Unlinked(f, g, x), Unlinked(g, f, x), [B EXCEPT ![k] = q], n, S \ {x})
       /\ Unlinked(f, g, x) \in [Elems -> Pointers]
       /\ Unlinked(g, f, x) \in [Elems -> Pointers]
  <2>1. k = Bucket(Key[x], n)
    BY <1>5
  <2> QED BY <1>6, <1>9, <2>1, TableDelete, Zenon
<1>11. HASH_DELETE(x)
  BY <1>5
<1>12. hh_next' = Unlinked(f, g, x) /\ hh_prev' = Unlinked(g, f, x)
  BY <1>5, <1>11 DEF HASH_DELETE, ChainWithout, Unlinked
<1>13. CASE Sole(x)
  <2>1. num_items' = 0 /\ num_buckets' = 0 /\ buckets' = <<>> /\ head' = Null
    BY <1>11, <1>13 DEF HASH_DELETE
  <2>2. Len(Order') = 0
    BY <1>1, <1>2, <1>3, <1>5, <1>13, SMT
  <2>3. Listed' = {}
    <3>1. Listed = {x}
      <4>1. 1..1 = {1} /\ Len(Order) = 1
        BY <1>2, <1>5, <1>13, SMT
      <4> QED BY <1>5, <4>1, ListFacts
    <3> QED BY <1>3, <1>5, <3>1
  <2>4. TableOK(hh_next', hh_prev', buckets', num_buckets', Listed')
    BY <2>1, <2>3, NoTable
  <2>5. ChainTypes'
    BY <1>10, <1>12, <2>1 DEF ChainTypes
  <2>6. Counts'
    BY <2>1, <2>2 DEF Counts
  <2>7. Buckets'
    BY <2>4 DEF Buckets
  <2> QED BY <2>5, <2>6, <2>7 DEF TableInv
<1>14. CASE ~Sole(x)
  <2>1. /\ num_items' = num_items - 1 /\ num_buckets' = num_buckets
        /\ buckets' = [B EXCEPT ![k].count = @ - 1, ![k].hh_head = IF @ = x THEN f[x] ELSE @]
    BY <1>5, <1>11, <1>14 DEF HASH_DELETE
  <2>2. buckets' = [B EXCEPT ![k] = q]
    <3>1. PICK C : C = [B EXCEPT ![k].count = @ - 1]
      OBVIOUS
    <3>2. C[k] = [r EXCEPT !.count = r.count - 1] /\ \A b \in 0..(n - 1) : b # k => C[b] = B[b]
      BY <1>5, <1>7, <3>1 DEF IsTable
    <3>3. C[k] = [hh_head |-> r.hh_head, count |-> r.count - 1, expand_mult |-> r.expand_mult]
      BY <1>7, <3>2 DEF IsBucket
    <3>4. buckets' = [C EXCEPT ![k].hh_head = IF @ = x THEN f[x] ELSE @]
      BY <2>1, <3>1
    <3>5. [C[k] EXCEPT !.hh_head = IF @ = x THEN f[x] ELSE @] = q
      BY <1>8, <3>3
    <3>6. C = [b \in 0..(n - 1) |-> C[b]]
      BY <1>7, <3>1 DEF IsTable
    <3>7. buckets' = [C EXCEPT ![k] = q]
      BY <1>7, <3>4, <3>5, <3>6
    <3> QED BY <1>7, <3>2, <3>6, <3>7 DEF IsTable
  <2>3. TableOK(hh_next', hh_prev', buckets', num_buckets', Listed')
    BY <1>3, <1>5, <1>10, <1>12, <2>1, <2>2
  <2>4. ChainTypes'
    BY <1>4, <1>10, <1>12, <2>1 DEF ChainTypes
  <2>5. Counts'
    BY <1>2, <1>3, <1>4, <1>5, <1>14, <2>1 DEF Counts
  <2>6. Buckets'
    BY <2>3 DEF Buckets
  <2> QED BY <2>4, <2>5, <2>6 DEF TableInv
<1> QED BY <1>13, <1>14

(* Each step keeps the buckets.                                             *)
LEMMA TableStep ==
  ASSUME ListInv, TableInv, [Next]_vars
  PROVE  TableInv'
<1>1. ASSUME NEW e \in Elems, AddLink(e) PROVE TableInv'
  BY <1>1, TableLink
<1>2. ASSUME NEW e \in Elems, DeleteOne(e) PROVE TableInv'
  <2>1. PICK n \in 1..Len(Order) : e = Order[n]
    BY <1>2, ListFacts DEF DeleteOne
  <2>2. writer = "idle" /\ writer' = writer /\ HASH_DELETE(Order[n])
    BY <1>2, <2>1 DEF DeleteOne
  <2> QED BY <2>2, TableDrops
<1>3. CASE HASH_MAKE_TABLE
  BY <1>3, TableMake
<1>4. CASE AddChain
  BY <1>4, TableChain
<1>5. CASE AddPublish
  BY <1>5, TablePublish
<1>6. CASE ExpandBegin
  BY <1>6, TableExpands
<1>7. CASE ExpandMove
  BY <1>7, TableMoves
<1>8. CASE ExpandNextBucket
  BY <1>8, TableGoesOn
<1>9. CASE ExpandSwap
  BY <1>9, TableSwaps
<1>10. ASSUME NEW K, IterBegin(K) PROVE TableInv'
  BY <1>10, TableKeeps DEF IterBegin
<1>11. CASE IterStep
  <2>1. writer = "iter" /\ writer' = writer /\ iter.el # Null
    BY <1>11 DEF IterStep
  <2>2. CASE Key[iter.el] \in iter.keys
    <3>1. PICK p \in 1..Len(Order) : IterAt(Order, next, iter, p)
      BY <2>1 DEF ListInv, IterOK, IterOver
    <3>2. HASH_DELETE(Order[p])
      BY <1>11, <2>2, <3>1 DEF IterStep, IterAt
    <3> QED BY <2>1, <3>2, TableDrops
  <2>3. CASE Key[iter.el] \notin iter.keys
    BY <1>11, <2>3, TableKeeps DEF IterStep
  <2> QED BY <2>2, <2>3
<1>12. CASE IterEnd
  BY <1>12, TableKeeps DEF IterEnd
<1>13. ASSUME NEW k, FindBegin(k) PROVE TableInv'
  BY <1>13, TableKeeps DEF FindBegin
<1>14. CASE FindBucket \/ FindStep \/ FindEnd \/ ScanBegin \/ ScanStep \/ ScanEnd
  BY <1>14, TableKeeps DEF FindBucket, FindStep, FindEnd, ScanBegin, ScanStep, ScanEnd
<1>15. CASE UNCHANGED vars
  BY <1>15, TableKeeps DEF vars
<1> QED BY <1>1, <1>2, <1>3, <1>4, <1>5, <1>6, <1>7, <1>8, <1>9, <1>10, <1>11, <1>12,
           <1>13, <1>14, <1>15 DEF Next

(* There is no table at first.                                              *)
LEMMA TableInit ==
  ASSUME Init
  PROVE  TableInv
<1>1. /\ head = Null /\ hh_next = Nowhere /\ hh_prev = Nowhere /\ num_items = 0
      /\ num_buckets = 0 /\ buckets = <<>> /\ writer = "idle"
  BY DEF Init
<1>2. Order = <<>> /\ Listed = {} /\ Len(Order) = 0
  BY ListInit DEF Listed, Members
<1>3. ChainTypes /\ Counts
  BY <1>1, <1>2 DEF ChainTypes, Counts, Nowhere, Pointers
<1>4. Buckets
  BY <1>1, <1>2, NoTable DEF Buckets
<1> QED BY <1>3, <1>4 DEF TableInv

(* In every state between two steps of an addition, a deletion or an        *)
(* expansion (uthash.h:173-193, 215-248, 611-713) the chains of the buckets *)
(* are what TableInv says of this state, and none loses an element.         *)
THEOREM TableHolds == Spec => []TableInv
<1>1. Init => TableInv
  BY TableInit
<1>2. ListInv /\ TableInv /\ [Next]_vars => TableInv'
  BY TableStep
<1>3. Spec => []ListInv
  BY ListHolds, PTL
<1> QED BY <1>1, <1>2, <1>3, PTL DEF Spec

(* HASH_FSCK (uthash.h:278-328) would find nothing wrong after any sequence *)
(* of additions, deletions and expansions, for any number of elements, any  *)
(* hash function and any number of initial buckets.                         *)
THEOREM AlwaysSound == Spec => []Fsck
<1>1. ListInv /\ TableInv => Fsck
  <2> SUFFICES ASSUME ListInv, TableInv, writer = "idle", head # Null PROVE Fsck
    BY DEF Fsck
  <2>1. DoublyLinked(Order, prev) /\ tail = Order[Len(Order)] /\ num_items = Len(Order)
    BY ListFacts DEF ListInv, ListOK, TableInv, Counts
  <2>2. TableOK(hh_next, hh_prev, buckets, num_buckets, Listed)
    BY DEF TableInv, Buckets
  <2>3. DOMAIN buckets = 0..(num_buckets - 1)
    BY <2>2 DEF TableOK, IsTable
  <2>4. ASSUME NEW b \in 0..(num_buckets - 1), NEW c, c = Along(hh_next, buckets[b].hh_head)
        PROVE  /\ DoublyLinked(c, hh_prev) /\ buckets[b].count = Len(c)
               /\ Members(c) = {e \in Members(Order) : Bucket(Key[e], num_buckets) = b}
    <3>1. PICK d : /\ Chained(hh_next, buckets[b].hh_head, d) /\ Members(d) = In(Listed, num_buckets, b)
                   /\ DoublyLinked(d, hh_prev) /\ buckets[b].count = Len(d)
      BY <2>2 DEF TableOK, BucketOK
    <3>2. c = d
      BY <2>4, <3>1, AlongIs
    <3> QED BY <3>1, <3>2 DEF In, Listed
  <2> QED BY <2>1, <2>3, <2>4 DEF Fsck
<1> QED BY <1>1, ListHolds, TableHolds, PTL
-----------------------------------------------------------------------------
(* A lookup that met nothing but additions.                                 *)

(* The elements it can meet: not the one that is just being added.          *)
Public == IF Adding THEN Listed \ {add} ELSE Listed

(* From out on, the chain has every element of bf with the key.             *)
StillAhead(f, key, out, P, bf) ==
  \E T : Leads(f, out, T) /\ T \subseteq P /\ \A e \in bf : Key[e] = key => e \in T

(* The expansion has moved nothing so far.                                  *)
Untouched ==
  /\ DOMAIN buckets = 0..(num_buckets - 1) /\ Forward(hh_next, buckets, num_buckets, Listed)
  /\ \A b \in 0..(2 * num_buckets - 1) : move.to[b].hh_head = Null

Undisturbed == reader.op \in {"bucket", "chain"} /\ ~disturbed

Looking ==
  /\ head # Null /\ writer \notin {"make", "swap"} /\ num_buckets # 0
  /\ writer = "move" => Untouched
  /\ Members(before) \subseteq Public /\ reader.key \in Keys
  /\ reader.op = "bucket" => reader.bkt = Bucket(reader.key, num_buckets)
  /\ reader.op = "chain" =>
       StillAhead(hh_next, reader.key, reader.out, Public, Members(before))

LookupInv == Undisturbed => Looking

(* All elements but the last.                                               *)
LEMMA FrontMembers ==
  ASSUME NEW s \in Seq(Elems), Distinct(s), Len(s) # 0
  PROVE  Members(SubSeq(s, 1, Len(s) - 1)) \subseteq Members(s) \ {s[Len(s)]}
<1>1. PICK m \in Nat : m = Len(s) /\ m # 0
  BY SeqFacts
<1>2. m - 1 \in Nat /\ m \in 1..m /\ \A i \in 1..(m - 1) : i \in 1..m /\ i # m
  BY <1>1, SMT
<1>3. SubSeq(s, 1, m - 1) = [i \in 1..(m - 1) |-> s[i]]
  BY <1>1, <1>2, SMT
<1>4. DOMAIN SubSeq(s, 1, m - 1) = 1..(m - 1)
      /\ \A i \in 1..(m - 1) : SubSeq(s, 1, m - 1)[i] = s[i]
  BY <1>3
<1>5. Members(s) = {s[i] : i \in 1..m}
  BY <1>1, SeqFacts
<1>6. \A i \in 1..(m - 1) : s[i] \in Members(s) \ {s[m]}
  BY <1>1, <1>2, <1>5 DEF Distinct
<1> QED BY <1>1, <1>4, <1>6 DEF Members

(* What a lookup must find, it can meet.                                    *)
LEMMA FindableIs ==
  ASSUME ListInv
  PROVE  Members(Findable) \subseteq Public
<1>1. CASE Adding
  <2>1. Len(Order) # 0
    BY <1>1, ListFacts, FirstIs
  <2>2. Members(SubSeq(Order, 1, Len(Order) - 1)) \subseteq Members(Order) \ {Order[Len(Order)]}
    BY <2>1, ListFacts, FrontMembers
  <2>3. Findable = SubSeq(Order, 1, Len(Order) - 1) /\ add = Order[Len(Order)]
    BY <1>1, ListFacts DEF Findable, Adding
  <2> QED BY <1>1, <2>2, <2>3 DEF Public, Listed
<1>2. CASE ~Adding
  BY <1>2 DEF Public, Findable, Adding, Listed
<1> QED BY <1>1, <1>2

(* Unless an expansion has begun to move, the chains lead to all public     *)
(* elements.                                                                *)
LEMMA PublicForward ==
  ASSUME ListInv, TableInv, writer \notin {"make", "swap"}, writer = "move" => Untouched
  PROVE  /\ DOMAIN buckets = 0..(num_buckets - 1)
         /\ Forward(hh_next, buckets, num_buckets, Public)
<1>1. CASE writer \in {"idle", "iter", "expand"}
  <2>1. TableOK(hh_next, hh_prev, buckets, num_buckets, Listed) /\ Public = Listed
    BY <1>1 DEF TableInv, Buckets, Public, Adding
  <2>2. DOMAIN buckets = 0..(num_buckets - 1)
    BY <2>1 DEF TableOK, IsTable
  <2> QED BY <2>1, <2>2, BucketLeads DEF TableOK, Forward
<1>2. CASE writer = "chain"
  <2>1. TableOK(hh_next, hh_prev, buckets, num_buckets, Public)
    BY <1>2 DEF TableInv, Buckets, Public, Adding
  <2>2. DOMAIN buckets = 0..(num_buckets - 1)
    BY <2>1 DEF TableOK, IsTable
  <2> QED BY <2>1, <2>2, BucketLeads DEF TableOK, Forward
<1>3. CASE writer = "publish"
  <2>1. /\ TableOK(hh_next, hh_prev, Announced, num_buckets, Listed)
        /\ Forward(hh_next, buckets, num_buckets, Public)
    BY <1>3 DEF TableInv, Buckets, Public, Adding
  <2>2. DOMAIN Announced = 0..(num_buckets - 1)
    BY <2>1 DEF TableOK, IsTable
  <2>3. DOMAIN Announced = DOMAIN buckets
    BY DEF Announced
  <2> QED BY <2>1, <2>2, <2>3
<1>4. CASE writer = "move"
  BY <1>4 DEF Untouched, Public, Adding
<1> QED BY <1>1, <1>2, <1>3, <1>4 DEF ListInv, LinkTypes, Where

(* Steps that write no chain, or only the one of the element that is added. *)
LEMMA LookupKeeps ==
  ASSUME LookupInv, ListInv, TableInv, reading' = reading, disturbed' = disturbed,
         Same(hh_next', hh_next, Public), Public \subseteq Public', head' = head,
         num_buckets' = num_buckets, writer' \notin {"make", "swap"},
         writer' = "move" => Untouched' \/ (writer = "move" /\ (Untouched => Untouched'))
  PROVE  LookupInv'
<1> SUFFICES ASSUME Undisturbed' PROVE Looking'
  BY DEF LookupInv
<1>1. reader' = reader /\ before' = before /\ disturbed' = disturbed
  BY DEF reading
<1>2. Looking
  BY <1>1 DEF Undisturbed, LookupInv
<1>3. reader.op = "chain" =>
        StillAhead(hh_next', reader.key, reader.out, Public', Members(before))
  <2> SUFFICES ASSUME reader.op = "chain"
               PROVE  StillAhead(hh_next', reader.key, reader.out, Public', Members(before))
    OBVIOUS
  <2>1. PICK T : /\ Leads(hh_next, reader.out, T) /\ T \subseteq Public
                 /\ \A e \in Members(before) : Key[e] = reader.key => e \in T
    BY <1>2 DEF Looking, StillAhead
  <2>2. Same(hh_next', hh_next, T)
    BY <2>1 DEF Same
  <2>3. Leads(hh_next', reader.out, T)
    BY <2>1, <2>2, LeadsFrame
  <2> QED BY <2>1, <2>3 DEF StillAhead
<1>4. writer' = "move" => Untouched'
  BY <1>2 DEF Looking
<1>5. Members(before) \subseteq Public'
  BY <1>2 DEF Looking
<1> QED BY <1>1, <1>2, <1>3, <1>4, <1>5 DEF Looking

(* Each step keeps what a lookup that is not disturbed has ahead.           *)
LEMMA LookupStep ==
  ASSUME LookupInv, ListInv, TableInv, IsReader(reader), [Next]_vars
  PROVE  LookupInv'
<1>1. ASSUME disturbed' = (reader.op \in {"bucket", "chain"}), reader' = reader PROVE LookupInv'
  BY <1>1 DEF LookupInv, Undisturbed
<1>2. ASSUME UNCHANGED <<list, chains, table, writer, add, move>>
      PROVE  /\ Order' = Order /\ Listed' = Listed /\ Public' = Public
             /\ Untouched => Untouched'
             /\ Same(hh_next', hh_next, Public) /\ num_buckets' = num_buckets /\ head' = head
  <2>1. head' = head /\ next' = next /\ hh_next' = hh_next /\ buckets' = buckets
        /\ num_buckets' = num_buckets
    BY <1>2 DEF list, chains, table
  <2>2. Order' = Order /\ Listed' = Listed /\ Public' = Public
    BY <1>2, <2>1 DEF Order, Listed, Public, Adding
  <2> QED BY <1>2, <2>1, <2>2 DEF Untouched, Same
<1>3. ASSUME UNCHANGED <<list, chains, table, add, move, reading, disturbed>>,
             {writer, writer'} \subseteq {"idle", "iter"}
      PROVE  LookupInv'
  <2>1. head' = head /\ next' = next /\ hh_next' = hh_next /\ num_buckets' = num_buckets
    BY <1>3 DEF list, chains, table
  <2>2. Public' = Public
    BY <1>3, <2>1 DEF Order, Listed, Public, Adding
  <2>3. Same(hh_next', hh_next, Public)
    BY <2>1 DEF Same
  <2>4. writer' \notin {"make", "swap"} /\ writer' # "move"
    BY <1>3
  <2> QED BY <1>3, <2>1, <2>2, <2>3, <2>4, LookupKeeps
<1>4. ASSUME UNCHANGED vars PROVE LookupInv'
  <2>1. UNCHANGED <<list, chains, table, writer, add, move>> /\ UNCHANGED <<reading, disturbed>>
    BY <1>4 DEF vars
  <2>2. CASE writer \in {"make", "swap"}
    <3>1. reader' = reader /\ disturbed' = disturbed
      BY <2>1 DEF reading
    <3> QED BY <2>2, <3>1 DEF LookupInv, Looking, Undisturbed
  <2>3. CASE writer \notin {"make", "swap"}
    BY <1>2, <2>1, <2>3, LookupKeeps
  <2> QED BY <2>2, <2>3
<1>5. ASSUME NEW e \in Elems, AddLink(e) PROVE LookupInv'
  <2>1. /\ reading' = reading /\ disturbed' = disturbed /\ writer = "idle"
        /\ hh_next' = hh_next /\ num_buckets' = num_buckets /\ add' = e /\ e \notin Listed
    BY <1>5 DEF AddLink, chains
  <2>2. CASE head = Null
    <3>1. ~Undisturbed
      BY <2>2 DEF LookupInv, Looking
    <3> QED BY <2>1, <3>1 DEF reading, LookupInv, Undisturbed
  <2>3. CASE head # Null
    <3>1. writer' = "chain" /\ head' = head
      BY <1>5, <2>3 DEF AddLink
    <3>2. Order' = Append(Order, e)
      BY <1>5, AddList DEF ListInv
    <3>3. Listed' = Listed \cup {e}
      BY <3>2, ListFacts, AppendMembers DEF Listed
    <3>4. Public' = Public
      BY <2>1, <3>1, <3>3 DEF Public, Adding
    <3>5. Same(hh_next', hh_next, Public)
      BY <2>1 DEF Same
    <3> QED BY <2>1, <3>1, <3>4, <3>5, LookupKeeps
  <2> QED BY <2>2, <2>3
<1>6. CASE AddChain
  <2>1. /\ reading' = reading /\ disturbed' = disturbed /\ writer = "chain" /\ writer' = "publish"
        /\ num_buckets' = num_buckets /\ add' = add /\ head' = head /\ next' = next
        /\ hh_next' = [hh_next EXCEPT ![add] = buckets[AddBucket].hh_head]
    BY <1>6 DEF AddChain, list
  <2>2. Public' = Public /\ add \notin Public /\ Public \subseteq Elems
    BY <2>1, ListFacts DEF Public, Adding, Listed, Order
  <2>3. Same(hh_next', hh_next, Public)
    BY <2>1, <2>2 DEF Same, TableInv, ChainTypes
  <2> QED BY <2>1, <2>2, <2>3, LookupKeeps
<1>7. CASE AddPublish
  <2>1. /\ reading' = reading /\ disturbed' = disturbed /\ writer = "publish"
        /\ writer' \in {"expand", "idle"} /\ num_buckets' = num_buckets
        /\ head' = head /\ next' = next /\ hh_next' = hh_next
    BY <1>7 DEF AddPublish, list, chains
  <2>2. Public \subseteq Public'
    BY <2>1 DEF Public, Adding, Listed, Order
  <2>3. Same(hh_next', hh_next, Public)
    BY <2>1 DEF Same
  <2>4. writer' \notin {"make", "swap"} /\ writer' # "move"
    BY <2>1
  <2> QED BY <2>1, <2>2, <2>3, <2>4, LookupKeeps
<1>8. CASE ExpandBegin
  <2>1. /\ reading' = reading /\ disturbed' = disturbed /\ writer = "expand" /\ writer' = "move"
        /\ num_buckets' = num_buckets /\ buckets' = buckets
        /\ head' = head /\ next' = next /\ hh_next' = hh_next
        /\ move'.to = EmptyBuckets(2 * num_buckets)
    BY <1>8 DEF ExpandBegin, list, chains, table
  <2>2. Public' = Public /\ Listed' = Listed /\ Public = Listed
    BY <2>1 DEF Public, Adding, Listed, Order
  <2>3. Same(hh_next', hh_next, Public)
    BY <2>1 DEF Same
  <2>4. /\ DOMAIN buckets = 0..(num_buckets - 1)
        /\ Forward(hh_next, buckets, num_buckets, Listed)
    BY <2>1, <2>2, PublicForward
  <2>5. \A b \in 0..(2 * num_buckets - 1) : move'.to[b].hh_head = Null
    BY <2>1 DEF EmptyBuckets, EmptyBucket
  <2>6. Untouched'
    BY <2>1, <2>2, <2>4, <2>5 DEF Untouched
  <2> QED BY <2>1, <2>2, <2>3, <2>6, LookupKeeps
<1>9. CASE HASH_MAKE_TABLE \/ ExpandMove \/ ExpandSwap
  BY <1>1, <1>9 DEF HASH_MAKE_TABLE, ExpandMove, ExpandSwap, Disturb, reading
<1>10. CASE ExpandNextBucket
  <2>1. /\ reading' = reading /\ disturbed' = disturbed /\ writer = "move" /\ move.thh = Null
        /\ buckets' = buckets /\ add' = add
        /\ head' = head /\ next' = next /\ hh_next' = hh_next
    BY <1>10 DEF ExpandNextBucket, list, chains
  <2>2. Listed' = Listed /\ Public = Listed
    BY <2>1 DEF Public, Adding, Listed, Order
  <2>3. Same(hh_next', hh_next, Public)
    BY <2>1 DEF Same
  <2>4. IsMove(move)
    BY <2>1 DEF TableInv, Buckets, MoveOK, MoveAt
  <2>5. CASE writer' = writer /\ num_buckets' = num_buckets
             /\ move' = [move EXCEPT !.from = @ + 1, !.thh = buckets[move.from + 1].hh_head]
    <3>1. move'.to = move.to
      BY <2>4, <2>5 DEF IsMove
    <3>2. Untouched => Untouched'
      BY <2>1, <2>2, <2>5, <3>1 DEF Untouched
    <3>3. Public' = Public /\ writer' = "move"
      BY <2>1, <2>2, <2>5 DEF Public, Adding
    <3> QED BY <2>1, <2>3, <2>5, <3>2, <3>3, LookupKeeps
  <2>6. CASE move.from + 1 = num_buckets /\ writer' = "swap"
    <3>1. ASSUME Undisturbed PROVE FALSE
      <4>1. head # Null /\ Untouched
        BY <2>1, <3>1 DEF LookupInv, Looking
      <4>2. /\ num_buckets \in Nat \ {0}
            /\ MoveOK(hh_next, hh_prev, buckets, num_buckets, move, Listed)
        BY <2>1, <4>1 DEF TableInv, ChainTypes, Counts, Buckets
      <4>3. TableOK(hh_next, hh_prev, move.to, 2 * num_buckets, Listed)
        BY <2>1, <2>6, <4>2, ListFacts, MoveEnds
      <4>4. PICK e \in Elems : e \in Listed
        BY <4>1, ListFacts
      <4>9. PICK N \in Nat \ {0} : N = 2 * num_buckets
        BY <4>2, Doubles
      <4>5. PICK b \in 0..(N - 1) : b = Bucket(Key[e], N)
        BY BucketRange
      <4>6. Leads(hh_next, move.to[b].hh_head, In(Listed, N, b))
        BY <4>3, <4>9, BucketLeads DEF TableOK
      <4>7. e \in In(Listed, N, b)
        BY <4>4, <4>5 DEF In
      <4>8. move.to[b].hh_head = Null
        BY <4>1, <4>9 DEF Untouched
      <4> QED BY <4>6, <4>7, <4>8, LeadsNowhere
    <3> QED BY <2>1, <3>1 DEF reading, LookupInv, Undisturbed
  <2> QED BY <1>10, <2>5, <2>6 DEF ExpandNextBucket
<1>11. ASSUME NEW e, HASH_DELETE(e), reading' = reading PROVE LookupInv'
  BY <1>1, <1>11 DEF HASH_DELETE, Disturb, reading
<1>12. ASSUME NEW e \in Elems, DeleteOne(e) PROVE LookupInv'
  BY <1>11, <1>12 DEF DeleteOne
<1>13. ASSUME NEW K, IterBegin(K) PROVE LookupInv'
  BY <1>3, <1>13 DEF IterBegin
<1>14. CASE IterStep
  <2>1. CASE Key[iter.el] \in iter.keys
    BY <1>11, <1>14, <2>1 DEF IterStep
  <2>2. CASE Key[iter.el] \notin iter.keys
    BY <1>3, <1>14, <2>2 DEF IterStep
  <2> QED BY <2>1, <2>2
<1>15. CASE IterEnd
  BY <1>3, <1>15 DEF IterEnd
<1>16. ASSUME NEW k \in Keys, FindBegin(k) PROVE LookupInv'
  <2> SUFFICES ASSUME Undisturbed' PROVE Looking'
    BY DEF LookupInv
  <2>1. /\ head # Null /\ before' = Findable /\ UNCHANGED <<list, chains, table, writer, add, move>>
        /\ num_buckets # 0 /\ writer \notin {"move", "swap"}
        /\ reader' = [op |-> "bucket", key |-> k, bkt |-> Bucket(k, num_buckets),
                      out |-> Null, seen |-> <<>>]
    BY <1>16 DEF FindBegin, Undisturbed, NotReading
  <2>2. writer # "make"
    BY <2>1 DEF TableInv, Counts
  <2>3. Public' = Public /\ num_buckets' = num_buckets /\ head' = head
    BY <1>2, <2>1
  <2>4. Members(before') \subseteq Public'
    BY <2>1, <2>3, FindableIs
  <2>5. reader'.op = "bucket" /\ reader'.key = k /\ reader'.bkt = Bucket(k, num_buckets)
    BY <2>1
  <2> QED BY <2>1, <2>2, <2>3, <2>4, <2>5 DEF Looking
<1>17. CASE FindBucket
  <2> SUFFICES ASSUME Undisturbed' PROVE Looking'
    BY DEF LookupInv
  <2>1. /\ before' = before /\ disturbed' = disturbed /\ reader.op = "bucket"
        /\ UNCHANGED <<list, chains, table, writer, add, move>>
    BY <1>17 DEF FindBucket
  <2>2. Looking
    BY <2>1 DEF LookupInv, Undisturbed
  <2>3. /\ Public' = Public /\ num_buckets' = num_buckets /\ head' = head
        /\ Untouched => Untouched'
    BY <1>2, <2>1
  <2>4. /\ DOMAIN buckets = 0..(num_buckets - 1)
        /\ Forward(hh_next, buckets, num_buckets, Public)
    BY <2>2, PublicForward DEF Looking
  <2>5. PICK e \in Elems : reader.key = Key[e]
    BY <2>2 DEF Looking, Keys
  <2>6. num_buckets \in Nat \ {0} /\ reader.bkt = Bucket(Key[e], num_buckets)
    BY <2>1, <2>2, <2>5 DEF Looking, TableInv, ChainTypes
  <2>7. reader.bkt \in 0..(num_buckets - 1)
    BY <2>6, BucketRange
  <2>8. reader' = [reader EXCEPT !.op = "chain", !.out = buckets[reader.bkt].hh_head]
    BY <1>17, <2>2, <2>4, <2>7 DEF FindBucket, Looking
  <2>9. /\ reader'.op = "chain" /\ reader'.out = buckets[reader.bkt].hh_head
        /\ reader'.key = reader.key
    BY <2>8 DEF IsReader
  <2>10. Leads(hh_next, reader'.out, In(Public, num_buckets, reader.bkt))
    BY <2>4, <2>7, <2>9 DEF Forward
  <2>11. \A d \in Members(before) : Key[d] = reader.key => d \in In(Public, num_buckets, reader.bkt)
    BY <2>2, <2>5, <2>6 DEF Looking, In
  <2>12. StillAhead(hh_next, reader'.key, reader'.out, Public, Members(before))
    <3>1. In(Public, num_buckets, reader.bkt) \subseteq Public
      BY DEF In
    <3> QED BY <2>9, <2>10, <2>11, <3>1 DEF StillAhead
  <2>13. hh_next' = hh_next
    BY <2>1 DEF chains
  <2> QED BY <2>1, <2>2, <2>3, <2>9, <2>12, <2>13 DEF Looking
<1>18. CASE FindStep
  <2> SUFFICES ASSUME Undisturbed' PROVE Looking'
    BY DEF LookupInv
  <2>1. /\ before' = before /\ disturbed' = disturbed /\ reader.op = "chain" /\ reader.out # Null
        /\ Key[reader.out] # reader.key
        /\ UNCHANGED <<list, chains, table, writer, add, move>>
        /\ reader' = [reader EXCEPT !.out = hh_next[reader.out]]
    BY <1>18 DEF FindStep, Found
  <2>2. Looking
    BY <2>1 DEF LookupInv, Undisturbed
  <2>3. /\ Public' = Public /\ num_buckets' = num_buckets /\ head' = head
        /\ Untouched => Untouched'
    BY <1>2, <2>1
  <2>4. PICK T : /\ Leads(hh_next, reader.out, T) /\ T \subseteq Public
                 /\ \A e \in Members(before) : Key[e] = reader.key => e \in T
    BY <2>1, <2>2 DEF Looking, StillAhead
  <2>5. Leads(hh_next, hh_next[reader.out], T \ {reader.out})
    BY <2>1, <2>4, LeadsNowhere
  <2>6. \A e \in Members(before) : Key[e] = reader.key => e \in T \ {reader.out}
    BY <2>1, <2>4
  <2>7. reader'.op = "chain" /\ reader'.out = hh_next[reader.out] /\ reader'.key = reader.key
    BY <2>1 DEF IsReader
  <2>8. StillAhead(hh_next, reader'.key, reader'.out, Public, Members(before))
    <3>1. T \ {reader.out} \subseteq Public
      BY <2>4
    <3> QED BY <2>5, <2>6, <2>7, <3>1 DEF StillAhead
  <2>9. hh_next' = hh_next
    BY <2>1 DEF chains
  <2> QED BY <2>1, <2>2, <2>3, <2>7, <2>8, <2>9 DEF Looking
<1>19. CASE FindEnd \/ ScanEnd
  BY <1>19 DEF FindEnd, ScanEnd, NotReading, LookupInv, Undisturbed
<1>20. CASE ScanBegin \/ ScanStep
  <2>1. CASE ScanBegin
    BY <2>1 DEF ScanBegin, NotReading, LookupInv, Undisturbed
  <2>2. CASE ScanStep
    <3>1. reader'.op = "iterate"
      BY <2>2 DEF ScanStep, IsReader
    <3> QED BY <3>1 DEF LookupInv, Undisturbed
  <2> QED BY <1>20, <2>1, <2>2
<1> QED BY <1>4, <1>5, <1>6, <1>7, <1>8, <1>9, <1>10, <1>12, <1>13, <1>14, <1>15, <1>16,
           <1>17, <1>18, <1>19, <1>20 DEF Next

(* A lookup without a mutex (server.c:360) that overlaps nothing but        *)
(* additions finds the key if it was there when the lookup began, for any   *)
(* table and however the additions interleave with its steps.               *)
THEOREM LookupsFind == Spec => []LookupFinds
<1>1. Init => LookupInv
  BY DEF Init, LookupInv, Undisturbed, NotReading
<1>2. ListInv /\ IsReader(reader) /\ TableInv /\ LookupInv /\ [Next]_vars => LookupInv'
  BY LookupStep
<1>3. Spec => [](ListInv /\ IsReader(reader) /\ TableInv)
  BY ListHolds, TableHolds, PTL
<1>4. LookupInv => LookupFinds
  <2> SUFFICES ASSUME LookupInv, reader.op = "chain", ~disturbed, reader.out = Null,
                      NEW i \in DOMAIN before, Key[before[i]] = reader.key
               PROVE  FALSE
    BY DEF LookupFinds
  <2>1. PICK T : /\ Leads(hh_next, reader.out, T)
                 /\ \A e \in Members(before) : Key[e] = reader.key => e \in T
    BY DEF LookupInv, Undisturbed, Looking, StillAhead
  <2>2. T = {}
    BY <2>1, LeadsNowhere
  <2>3. before[i] \in Members(before)
    BY DEF Members
  <2> QED BY <2>1, <2>2, <2>3
<1> QED BY <1>1, <1>2, <1>3, <1>4, PTL DEF Spec
==============================================================================
