---------------------------- MODULE SessionProofs ----------------------------
(***************************************************************************)
(* The packets and the timers of one connection, for every set of          *)
(* solutions, every length of their packets, every size of the socket's    *)
(* buffers and every value of the timeouts.                                *)
(*                                                                         *)
(* The bytes between a sender and its reader are a flow: they are the      *)
(* packets of a sequence of messages, from the byte the reader takes next  *)
(* to the byte the sender sends next.  How a flow grows and shrinks by     *)
(* any number of bytes at a time is shown once, for both directions.       *)
(***************************************************************************)
EXTENDS Session, SequenceTheorems, TLAPS

Bytes == Messages \X (Nat \ {0})

Distinct(s) == \A i, j \in 1..Len(s) : s[i] = s[j] => i = j
-----------------------------------------------------------------------------
(* Flows.  M is the sequence of messages, T[m] the length of the packet for *)
(* m, S the bytes under way.  A position <<x, i>> is byte i of message x.   *)

Position(M, T, x, i) ==
  /\ x \in 1..(Len(M) + 1) /\ i \in Nat \ {0}
  /\ x <= Len(M) => i <= T[M[x]]
  /\ x = Len(M) + 1 => i = 1

(* The position after byte i of message x.                                  *)
NextMessage(M, T, x, i) == IF i = T[M[x]] THEN x + 1 ELSE x
NextByte(M, T, x, i) == IF i = T[M[x]] THEN 1 ELSE i + 1

(* No byte from <<y, k>> on has been sent.                                  *)
Bounded(S, M, y, k) ==
  \A j \in 1..Len(S) :
    \E z \in 1..Len(M) : S[j][1] = M[z] /\ (z < y \/ (z = y /\ S[j][2] < k))

(* To the end of its packet, the bytes after a byte follow one another.     *)
Runs(S, T) ==
  \A j, l \in 1..Len(S) :
    j <= l /\ S[j][2] + (l - j) <= T[S[j][1]]
    => S[l] = <<S[j][1], S[j][2] + (l - j)>>

(* After the last byte of a packet comes the first of the next.             *)
Seams(S, M, T) ==
  \A j \in 1..(Len(S) - 1) : \A z \in 1..Len(M) :
    S[j] = <<M[z], T[M[z]]>> => z < Len(M) /\ S[j + 1] = <<M[z + 1], 1>>

Begins(S, M, x, i) == S # <<>> => x <= Len(M) /\ S[1] = <<M[x], i>>

Finishes(S, M, T, x, i, y, k) ==
  /\ S = <<>> => x = y /\ i = k
  /\ S # <<>> /\ k > 1 => S[Len(S)] = <<M[y], k - 1>>
  /\ S # <<>> /\ k = 1 => y > 1 /\ S[Len(S)] = <<M[y - 1], T[M[y - 1]]>>

Flow(S, M, T, x, i, y, k) ==
  /\ Position(M, T, x, i) /\ Position(M, T, y, k)
  /\ Bounded(S, M, y, k)
  /\ Runs(S, T)
  /\ Seams(S, M, T)
  /\ Begins(S, M, x, i)
  /\ Finishes(S, M, T, x, i, y, k)
-----------------------------------------------------------------------------
(* Integers in their order.                                                 *)
LEMMA AtMost == \A a, b \in Int : a <= b => a = b \/ a < b
  OBVIOUS
LEMMA UpToNext == \A b \in Nat : \A a \in 1..(b + 1) : a = b + 1 \/ a \in 1..b
  OBVIOUS
LEMMA SamePair == \A a, b, c, d : <<a, b>> = <<c, d>> => a = c /\ b = d
  OBVIOUS
LEMMA Behind == \A s, n \in Nat : \A l \in 1..n :
                  s + l \in 1..(s + n) /\ s + l > s /\ (s + l) - s = l
  OBVIOUS
LEMMA OneOrMore == \A k \in Nat \ {0} : (k = 1 \/ k > 1) /\ k + 1 - 1 = k
  OBVIOUS
LEMMA Predecessor == \A m \in Nat : \A y \in 1..m :
                       y > 1 => y - 1 \in 1..m /\ y - 1 < m /\ (y - 1) + 1 = y
  OBVIOUS
LEMMA Successor == \A b \in Nat : \A a \in 1..b : a < b => a + 1 \in 1..b
  OBVIOUS

(* The flow grows: the sender adds n bytes of the packet it is sending.     *)
LEMMA FlowGrows ==
  ASSUME NEW S \in Seq(Bytes), NEW M \in Seq(Messages), Distinct(M),
         NEW T \in [Messages -> Nat \ {0}],
         NEW x, NEW i, NEW y, NEW k, Flow(S, M, T, x, i, y, k), y <= Len(M),
         NEW n \in 1..(T[M[y]] - k + 1)
  PROVE  Flow(S \o Packet(M[y], k, k + n - 1), M, T, x, i,
              NextMessage(M, T, y, k + n - 1), NextByte(M, T, y, k + n - 1))
<1> DEFINE P == Packet(M[y], k, k + n - 1)
           R == S \o P
           y2 == NextMessage(M, T, y, k + n - 1)
           k2 == NextByte(M, T, y, k + n - 1)
<1>1. /\ y \in 1..Len(M) /\ y \in Nat /\ k \in Nat \ {0} /\ Len(M) \in Nat
      /\ M[y] \in Messages /\ T[M[y]] \in Nat \ {0} /\ k <= T[M[y]]
      /\ n \in Nat \ {0} /\ k + n - 1 <= T[M[y]]
  BY DEF Flow, Position
<1>0. PICK s \in Nat : s = Len(S)
  OBVIOUS
<1>2. /\ P \in Seq(Bytes) /\ Len(P) = n
      /\ \A l \in 1..n : P[l] = <<M[y], k + l - 1>>
  <2>1. \A l \in 1..n : <<M[y], k + l - 1>> \in Bytes
    BY <1>1 DEF Bytes
  <2>2. P = [l \in 1..n |-> <<M[y], k + l - 1>>]
    BY <1>1 DEF Packet
  <2>3. P \in [1..n -> Bytes]
    BY <2>1, <2>2
  <2>4. P \in Seq(Bytes)
    <3>1. n \in Nat
      BY <1>1
    <3> QED BY <3>1, <2>2, <2>1, IsASeq
  <2> QED BY <2>2, <2>4, <1>1
<1> HIDE DEF P
<1>3. R \in Seq(Bytes) /\ Len(R) = s + n
  BY <1>2, <1>0, ConcatProperties
<1>4. \A l \in 1..s : R[l] = S[l] /\ S[l] \in Bytes
  BY <1>2, <1>0, <1>1
<1>5. \A l \in 1..n : R[s + l] = <<M[y], k + l - 1>>
  <2> SUFFICES ASSUME NEW l \in 1..n PROVE R[s + l] = P[l]
    BY <1>2
  <2>1. s + l \in 1..(s + n) /\ s + l > s /\ (s + l) - s = l
    <3>1. n \in Nat
      BY <1>1
    <3> QED BY <3>1, Behind
  <2>2. s + l \in 1..(Len(S) + Len(P)) /\ s + l > Len(S) /\ (s + l) - Len(S) = l
    BY <2>1, <1>0, <1>2
  <2>3. \A j \in 1..(Len(S) + Len(P)) :
          (S \o P)[j] = IF j <= Len(S) THEN S[j] ELSE P[j - Len(S)]
    BY <1>2, ConcatProperties
  <2>4. ~(s + l <= Len(S))
    BY <2>1, <1>0
  <2> QED BY <2>2, <2>3, <2>4
<1>6. /\ y2 \in Nat /\ k2 \in Nat
      /\ \/ y2 = y + 1 /\ k2 = 1 /\ k + n - 1 = T[M[y]]
         \/ y2 = y /\ k2 = k + n /\ k + n <= T[M[y]]
  <2>1. CASE k + n - 1 = T[M[y]]
    BY <1>1, <2>1 DEF NextMessage, NextByte
  <2>2. CASE k + n - 1 < T[M[y]]
    <3>1. PICK t \in Nat : t = T[M[y]] /\ k + n - 1 < t
      BY <1>1, <2>2
    <3>3. k \in Nat /\ n \in Nat
      BY <1>1
    <3>2. (k + n - 1) + 1 = k + n /\ k + n <= t /\ k + n \in Nat
      BY <3>3, <3>1
    <3>4. k + n - 1 # T[M[y]]
      BY <3>1, <3>3
    <3> QED BY <1>1, <3>4, <3>1, <3>2 DEF NextMessage, NextByte
  <2>3. k + n - 1 \in Int /\ T[M[y]] \in Int /\ k + n - 1 <= T[M[y]]
    BY <1>1
  <2> QED BY <2>1, <2>2, <2>3, AtMost
<1> HIDE DEF R, y2, k2
<1>7. R # <<>>
  BY <1>3, <1>1, <1>0
<1>8. \A j \in 1..Len(R) : j \in 1..s \/ \E l \in 1..n : j = s + l
  <2> SUFFICES ASSUME NEW j \in 1..(s + n), j > s PROVE \E l \in 1..n : j = s + l
    BY <1>3, <1>1
  <2>1. j - s \in 1..n /\ j = s + (j - s)
    BY <1>1
  <2> QED BY <2>1
<1>9. s > 0 => S # <<>>
  BY <1>0
<1>10. Position(M, T, y2, k2)
  <2>1. y + 1 <= Len(M) => T[M[y + 1]] \in Nat \ {0}
    BY <1>1
  <2> QED BY <1>1, <1>6, <2>1 DEF Position
<1>11. Bounded(R, M, y2, k2)
  <2> SUFFICES ASSUME NEW j \in 1..Len(R)
               PROVE  \E z \in 1..Len(M) :
                        R[j][1] = M[z] /\ (z < y2 \/ (z = y2 /\ R[j][2] < k2))
    BY DEF Bounded
  <2>1. CASE j \in 1..s
    <3>1. PICK z \in 1..Len(M) : S[j][1] = M[z] /\ (z < y \/ (z = y /\ S[j][2] < k))
      BY <2>1, <1>0 DEF Flow, Bounded
    <3>2. PICK b \in Nat : b = S[j][2]
      BY <2>1, <1>4 DEF Bytes
    <3>3. z < y \/ (z = y /\ b < k)
      BY <3>1, <3>2
    <3>4. z < y2 \/ (z = y2 /\ b < k2)
      <4> QED BY <3>3, <1>6, <1>1
    <3> QED BY <3>1, <3>2, <3>4, <2>1, <1>4
  <2>2. ASSUME NEW l \in 1..n, j = s + l
        PROVE  \E z \in 1..Len(M) :
                 R[j][1] = M[z] /\ (z < y2 \/ (z = y2 /\ R[j][2] < k2))
    <3>0. R[j] = <<M[y], k + l - 1>>
      BY <1>5, <2>2
    <3>1. R[j][1] = M[y] /\ R[j][2] = k + l - 1
      BY <3>0
    <3>2. k + l - 1 < k + n
      BY <1>1
    <3> QED BY <3>1, <3>2, <1>1, <1>6
  <2> QED BY <2>1, <2>2, <1>8
<1>12. Runs(R, T)
  <2> SUFFICES ASSUME NEW j \in 1..Len(R), NEW l \in 1..Len(R), j <= l,
                      R[j][2] + (l - j) <= T[R[j][1]]
               PROVE  R[l] = <<R[j][1], R[j][2] + (l - j)>>
    BY DEF Runs
  <2>1. CASE l \in 1..s
    <3>1. j \in 1..s
      BY <2>1, <1>3, <1>1
    <3>2. R[l] = S[l] /\ R[j] = S[j]
      BY <2>1, <3>1, <1>4
    <3> QED BY <2>1, <3>1, <3>2, <1>0 DEF Flow, Runs
  <2>2. ASSUME NEW l1 \in 1..n, l = s + l1, NEW j1 \in 1..n, j = s + j1
        PROVE  R[l] = <<R[j][1], R[j][2] + (l - j)>>
    <3>1. R[j] = <<M[y], k + j1 - 1>> /\ R[l] = <<M[y], k + l1 - 1>>
      BY <2>2, <1>5
    <3>2. (k + j1 - 1) + (l - j) = k + l1 - 1
      BY <1>1, <2>2
    <3> QED BY <3>1, <3>2
  <2>3. ASSUME NEW l1 \in 1..n, l = s + l1, j \in 1..s
        PROVE  R[l] = <<R[j][1], R[j][2] + (l - j)>>
    <3>1. /\ s \in 1..Len(S) /\ j \in 1..Len(S) /\ S # <<>>
          /\ j <= s /\ j \in Nat
      BY <2>3, <1>0, <1>9
    <3>2. PICK m \in Messages, a \in Nat \ {0} : S[j][1] = m /\ S[j][2] = a
      BY <2>3, <1>4 DEF Bytes
    <3>3. S[j][1] = m /\ S[j][2] = a /\ R[j][1] = m /\ R[j][2] = a
      BY <3>2, <2>3, <1>4
    <3>4. T[m] \in Nat /\ a + (l - j) <= T[m]
      BY <3>3
    <3>5. a + (s - j) < T[m]
      BY <3>1, <3>4, <2>3, <1>1
    <3>6. S[s] = <<m, a + (s - j)>>
      <4>1. j <= s /\ S[j][2] + (s - j) <= T[S[j][1]]
        BY <3>1, <3>3, <3>4, <3>5
      <4>2. S[s] = <<S[j][1], S[j][2] + (s - j)>>
        BY <4>1, <3>1 DEF Flow, Runs
      <4> QED BY <4>2, <3>3
    <3>7. k > 1 /\ S[s] = <<M[y], k - 1>>
      <4>1. CASE k = 1
        <5>1. y > 1 /\ S[s] = <<M[y - 1], T[M[y - 1]]>>
          BY <4>1, <3>1, <1>0 DEF Flow, Finishes
        <5>2. T[m] = a + (s - j)
          BY <5>1, <3>6
        <5> QED BY <5>2, <3>5, <3>4
      <4>2. CASE k > 1
        BY <4>2, <3>1, <1>0 DEF Flow, Finishes
      <4>3. k = 1 \/ k > 1
        BY <1>1, OneOrMore
      <4> QED BY <4>1, <4>2, <4>3
    <3>8. m = M[y] /\ k - 1 = a + (s - j)
      BY <3>6, <3>7
    <3>9. R[l] = <<M[y], k + l1 - 1>>
      BY <1>5, <2>3
    <3>10. k + l1 - 1 = a + (l - j)
      BY <3>8, <3>1, <1>1, <2>3
    <3> QED BY <3>3, <3>8, <3>9, <3>10
  <2>4. ASSUME NEW j1 \in 1..n, j = s + j1, l \in 1..s
        PROVE  FALSE
    BY <2>4, <1>1
  <2> QED BY <2>1, <2>2, <2>3, <1>8
<1>13. Seams(R, M, T)
  <2> SUFFICES ASSUME NEW j \in 1..(Len(R) - 1), NEW z \in 1..Len(M),
                      R[j] = <<M[z], T[M[z]]>>
               PROVE  z < Len(M) /\ R[j + 1] = <<M[z + 1], 1>>
    BY DEF Seams
  <2>0. j \in 1..Len(R) /\ j \in Nat /\ j < s + n
    BY <1>3, <1>1
  <2>1. CASE j < s
    <3>1. j \in 1..(Len(S) - 1) /\ j \in 1..s /\ j + 1 \in 1..s
      BY <2>1, <2>0, <1>0
    <3>2. R[j] = S[j] /\ R[j + 1] = S[j + 1]
      BY <3>1, <1>4
    <3> QED BY <3>1, <3>2 DEF Flow, Seams
  <2>2. CASE j = s
    <3>1. S # <<>> /\ j \in 1..s /\ 1 \in 1..n
      BY <2>2, <2>0, <1>9, <1>1
    <3>2. R[j] = S[Len(S)]
      BY <3>1, <2>2, <1>4, <1>0
    <3>3. R[j + 1] = <<M[y], k>>
      <4>1. k + 1 - 1 = k
        BY <1>1, OneOrMore
      <4>2. R[s + 1] = <<M[y], k + 1 - 1>>
        BY <3>1, <1>5
      <4> QED BY <4>1, <4>2, <2>2
    <3>4. k = 1
      <4>0. k = 1 \/ k > 1
        BY <1>1, OneOrMore
      <4> SUFFICES ASSUME k > 1 PROVE FALSE
        BY <4>0
      <4>1. S[Len(S)] = <<M[y], k - 1>>
        BY <3>1 DEF Flow, Finishes
      <4>3. <<M[y], k - 1>> = <<M[z], T[M[z]]>>
        BY <4>1, <3>2
      <4>2. M[y] = M[z] /\ T[M[z]] = k - 1
        BY <4>3, SamePair
      <4> QED BY <4>2, <1>1
    <3>5. y > 1 /\ S[Len(S)] = <<M[y - 1], T[M[y - 1]]>>
      BY <3>1, <3>4 DEF Flow, Finishes
    <3>6. M[z] = M[y - 1]
      <4>1. <<M[z], T[M[z]]>> = <<M[y - 1], T[M[y - 1]]>>
        BY <3>2, <3>5
      <4> QED BY <4>1, SamePair
    <3>7. y - 1 \in 1..Len(M) /\ y - 1 < Len(M) /\ (y - 1) + 1 = y
      BY <3>5, <1>1, Predecessor
    <3>8. z = y - 1
      BY <3>6, <3>7 DEF Distinct
    <3> QED BY <3>8, <3>7, <3>3, <3>4
  <2>3. CASE j > s
    <3>0. j \notin 1..s
      BY <2>3, <2>0
    <3>1. PICK l \in 1..n : j = s + l
      BY <3>0, <2>0, <1>8
    <3>4. R[j] = <<M[y], k + l - 1>>
      BY <3>1, <1>5
    <3>2. M[y] = M[z] /\ T[M[z]] = k + l - 1
      <4>1. <<M[y], k + l - 1>> = <<M[z], T[M[z]]>>
        BY <3>4
      <4> QED BY <4>1, SamePair
    <3>3. k + l - 1 < k + n - 1
      BY <3>1, <2>0, <1>1
    <3> QED BY <3>2, <3>3, <1>1
  <2> QED BY <2>1, <2>2, <2>3, <2>0
<1>14. Begins(R, M, x, i)
  <2>1. CASE S = <<>>
    <3>1. x = y /\ i = k
      BY <2>1 DEF Flow, Finishes
    <3>2. s = 0 /\ 1 \in 1..n /\ k + 1 - 1 = k /\ s + 1 = 1
      BY <2>1, <1>0, <1>1
    <3>3. R[1] = <<M[y], k>>
      BY <3>2, <1>5
    <3> QED BY <3>1, <3>3, <1>1 DEF Begins
  <2>2. CASE S # <<>>
    <3>1. 1 \in 1..s
      BY <2>2, <1>0, EmptySeq
    <3> QED BY <3>1, <2>2, <1>4 DEF Flow, Begins
  <2> QED BY <2>1, <2>2
<1>15. Finishes(R, M, T, x, i, y2, k2)
  <2>1. R[Len(R)] = <<M[y], k + n - 1>>
    <3>1. n \in 1..n
      BY <1>1
    <3> QED BY <3>1, <1>3, <1>5
  <2>2. CASE y2 = y + 1 /\ k2 = 1 /\ k + n - 1 = T[M[y]]
    <3>1. y2 - 1 = y /\ y2 > 1 /\ ~(k2 > 1)
      BY <2>2, <1>1
    <3> QED BY <3>1, <2>1, <2>2, <1>7 DEF Finishes
  <2>3. CASE y2 = y /\ k2 = k + n
    <3>1. k2 - 1 = k + n - 1 /\ k2 # 1
      BY <2>3, <1>1
    <3> QED BY <3>1, <2>1, <2>3, <1>7 DEF Finishes
  <2> QED BY <2>2, <2>3, <1>6
<1> QED BY <1>10, <1>11, <1>12, <1>13, <1>14, <1>15 DEF Flow, R, P, y2, k2

(* The flow shrinks: the reader takes n bytes, all of the packet it is in.  *)
LEMMA FlowShrinks ==
  ASSUME NEW S \in Seq(Bytes), NEW M \in Seq(Messages), Distinct(M),
         NEW T \in [Messages -> Nat \ {0}],
         NEW x, NEW i, NEW y, NEW k, Flow(S, M, T, x, i, y, k),
         NEW n \in 1..Len(S), i + n - 1 <= T[M[x]]
  PROVE  /\ x \in 1..Len(M)
         /\ SubSeq(S, 1, n) = Packet(M[x], i, i + n - 1)
         /\ i + n - 1 = T[M[x]] => x < y
         /\ Flow(SubSeq(S, n + 1, Len(S)), M, T,
                 NextMessage(M, T, x, i + n - 1), NextByte(M, T, x, i + n - 1), y, k)
<1> DEFINE R == SubSeq(S, n + 1, Len(S))
           x2 == NextMessage(M, T, x, i + n - 1)
           i2 == NextByte(M, T, x, i + n - 1)
<1>0. PICK s \in Nat : s = Len(S)
  OBVIOUS
<1>1. n \in Nat \ {0} /\ n <= s /\ S # <<>> /\ n \in 1..s
  BY <1>0
<1>2. x <= Len(M) /\ S[1] = <<M[x], i>>
  BY <1>1 DEF Flow, Begins
<1>3. /\ x \in 1..Len(M) /\ x \in Nat /\ i \in Nat \ {0} /\ Len(M) \in Nat
      /\ M[x] \in Messages
  BY <1>2 DEF Flow, Position
<1>19. PICK t \in Nat \ {0} : t = T[M[x]] /\ i + n - 1 <= t
  BY <1>3
<1>4. \A l \in 1..n : S[l] = <<M[x], i + l - 1>>
  <2> SUFFICES ASSUME NEW l \in 1..n PROVE S[l] = <<M[x], i + l - 1>>
    OBVIOUS
  <2>1. 1 \in 1..Len(S) /\ l \in 1..Len(S) /\ 1 <= l
    BY <1>1, <1>0
  <2>2. S[1][1] = M[x] /\ S[1][2] = i
    BY <1>2
  <2>3. i \in Nat /\ n \in Nat
    BY <1>1, <1>3
  <2>4. i + (l - 1) <= t /\ i + (l - 1) = i + l - 1
    BY <2>3, <1>19
  <2>5. S[1][2] + (l - 1) <= T[S[1][1]]
    BY <2>2, <2>4, <1>19
  <2>6. S[l] = <<S[1][1], S[1][2] + (l - 1)>>
    BY <2>1, <2>5 DEF Flow, Runs
  <2> QED BY <2>6, <2>2, <2>4
<1>5. SubSeq(S, 1, n) = Packet(M[x], i, i + n - 1)
  <2>1. (i + n - 1) - i + 1 = n
    BY <1>1, <1>3
  <2>2. SubSeq(S, 1, n) = [l \in 1..n |-> S[l]]
    BY <1>1, <1>0
  <2>3. Packet(M[x], i, i + n - 1) = [l \in 1..n |-> <<M[x], i + l - 1>>]
    BY <2>1 DEF Packet
  <2> QED BY <2>2, <2>3, <1>4
<1>6. S[n] = <<M[x], i + n - 1>>
  BY <1>4, <1>1
<1>7. y \in 1..(Len(M) + 1) /\ k \in Nat \ {0} /\ y \in Nat
  BY <1>3 DEF Flow, Position
<1>8. y <= Len(M) => T[M[y]] \in Nat /\ k <= T[M[y]]
  BY <1>7, <1>3 DEF Flow, Position
<1>9. i + n - 1 = t => x < y
  <2> SUFFICES ASSUME i + n - 1 = t PROVE x < y
    OBVIOUS
  <2>1. PICK z \in 1..Len(M) : S[n][1] = M[z] /\ (z < y \/ (z = y /\ S[n][2] < k))
    BY DEF Flow, Bounded
  <2>2. S[n][1] = M[x] /\ S[n][2] = t
    BY <1>6
  <2>3. z = x
    BY <2>1, <2>2, <1>3 DEF Distinct
  <2>4. x < y \/ (x = y /\ t < k)
    BY <2>1, <2>2, <2>3
  <2>5. CASE x = y /\ t < k
    BY <2>5, <1>8, <1>3, <1>7, <1>19
  <2> QED BY <2>4, <2>5
<1>10. /\ R \in Seq(Bytes) /\ Len(R) = s - n
       /\ \A l \in 1..(s - n) : R[l] = S[n + l]
  <2>1. R = [l \in 1..(s - n) |-> S[n + l]]
    BY <1>0, <1>1
  <2>2. \A l \in 1..(s - n) : S[n + l] \in Bytes
    BY <1>0, <1>1
  <2>3. s - n \in Nat
    BY <1>0, <1>1
  <2> HIDE DEF R
  <2>4. R \in Seq(Bytes)
    BY <2>1, <2>2, <2>3, IsASeq
  <2> QED BY <2>1, <2>3, <2>4
<1> HIDE DEF R
<1>11. /\ x2 \in Nat /\ i2 \in Nat
       /\ \/ x2 = x + 1 /\ i2 = 1 /\ i + n - 1 = t
          \/ x2 = x /\ i2 = i + n /\ i + n <= t
  <2>0. i \in Nat /\ n \in Nat
    BY <1>1, <1>3
  <2>1. CASE i + n - 1 = t
    BY <1>3, <1>19, <2>1 DEF NextMessage, NextByte
  <2>2. CASE i + n - 1 < t
    <3>1. (i + n - 1) + 1 = i + n /\ i + n <= t /\ i + n \in Nat
      BY <2>0, <1>19, <2>2
    <3>2. i + n - 1 # t
      BY <2>0, <2>2
    <3> QED BY <1>3, <1>19, <3>2, <3>1 DEF NextMessage, NextByte
  <2>3. i + n - 1 = t \/ i + n - 1 < t
    <3>1. i + n - 1 \in Int /\ t \in Int /\ i + n - 1 <= t
      BY <2>0, <1>19
    <3> QED BY <3>1, AtMost
  <2> QED BY <2>1, <2>2, <2>3
<1> HIDE DEF x2, i2
<1>12. Position(M, T, x2, i2)
  <2>1. x + 1 <= Len(M) => T[M[x + 1]] \in Nat \ {0}
    BY <1>3
  <2>2. i + n \in Nat \ {0}
    BY <1>1, <1>3
  <2> QED BY <1>3, <1>19, <1>11, <2>1, <2>2 DEF Position
<1>13. Bounded(R, M, y, k)
  <2> SUFFICES ASSUME NEW j \in 1..Len(R)
               PROVE  \E z \in 1..Len(M) :
                        R[j][1] = M[z] /\ (z < y \/ (z = y /\ R[j][2] < k))
    BY DEF Bounded
  <2>1. R[j] = S[n + j] /\ n + j \in 1..Len(S)
    BY <1>10, <1>0, <1>1
  <2> QED BY <2>1 DEF Flow, Bounded
<1>14. Runs(R, T)
  <2> SUFFICES ASSUME NEW j \in 1..Len(R), NEW l \in 1..Len(R), j <= l,
                      R[j][2] + (l - j) <= T[R[j][1]]
               PROVE  R[l] = <<R[j][1], R[j][2] + (l - j)>>
    BY DEF Runs
  <2>1. /\ R[j] = S[n + j] /\ R[l] = S[n + l]
        /\ n + j \in 1..Len(S) /\ n + l \in 1..Len(S) /\ n + j <= n + l
        /\ (n + l) - (n + j) = l - j
    BY <1>10, <1>0, <1>1
  <2>2. S[n + j][2] + ((n + l) - (n + j)) <= T[S[n + j][1]]
    BY <2>1
  <2>3. S[n + l] = <<S[n + j][1], S[n + j][2] + ((n + l) - (n + j))>>
    BY <2>1, <2>2 DEF Flow, Runs
  <2> QED BY <2>1, <2>3
<1>15. Seams(R, M, T)
  <2> SUFFICES ASSUME NEW j \in 1..(Len(R) - 1), NEW z \in 1..Len(M),
                      R[j] = <<M[z], T[M[z]]>>
               PROVE  z < Len(M) /\ R[j + 1] = <<M[z + 1], 1>>
    BY DEF Seams
  <2>1. /\ R[j] = S[n + j] /\ R[j + 1] = S[(n + j) + 1]
        /\ n + j \in 1..(Len(S) - 1)
    <3>0. PICK r \in Nat : r = Len(R) /\ r = s - n
      BY <1>10, <1>1
    <3>1. j \in 1..r /\ j + 1 \in 1..r
      BY <3>0
    <3>2. n + (j + 1) = (n + j) + 1
      BY <1>1
    <3>3. n + j \in 1..(s - 1)
      BY <3>0, <1>1
    <3>4. R[j] = S[n + j] /\ R[j + 1] = S[n + (j + 1)]
      BY <3>0, <3>1, <1>10, Zenon
    <3> QED BY <3>2, <3>3, <3>4, <1>0
  <2> QED BY <2>1 DEF Flow, Seams
<1>16. Begins(R, M, x2, i2)
  <2> SUFFICES ASSUME R # <<>>
               PROVE  x2 <= Len(M) /\ R[1] = <<M[x2], i2>>
    BY DEF Begins
  <2>1. s - n > 0
    BY <1>10, <1>1, EmptySeq
  <2>2. R[1] = S[n + 1] /\ n \in 1..(Len(S) - 1) /\ n + 1 \in 1..Len(S)
    BY <2>1, <1>10, <1>0, <1>1
  <2>3. CASE x2 = x + 1 /\ i2 = 1 /\ i + n - 1 = t
    <3>1. S[n] = <<M[x], T[M[x]]>>
      BY <1>6, <1>19, <2>3
    <3>2. x < Len(M) /\ S[n + 1] = <<M[x + 1], 1>>
      BY <3>1, <2>2, <1>3 DEF Flow, Seams
    <3> QED BY <3>2, <2>2, <2>3, <1>3
  <2>4. CASE x2 = x /\ i2 = i + n /\ i + n <= t
    <3>1. 1 \in 1..Len(S) /\ 1 <= n + 1 /\ (n + 1) - 1 = n
      BY <1>0, <1>1
    <3>2. S[1][1] = M[x] /\ S[1][2] = i
      BY <1>2
    <3>3. S[1][2] + ((n + 1) - 1) <= T[S[1][1]]
      BY <3>1, <3>2, <2>4, <1>19
    <3>4. S[n + 1] = <<S[1][1], S[1][2] + ((n + 1) - 1)>>
      BY <3>1, <3>3, <2>2 DEF Flow, Runs
    <3> QED BY <3>1, <3>2, <3>4, <2>2, <2>4, <1>2
  <2> QED BY <2>3, <2>4, <1>11
<1>17. Finishes(R, M, T, x2, i2, y, k)
  <2>1. CASE s = n
    <3>0. R = <<>>
      BY <2>1, <1>10, <1>1, EmptySeq
    <3>1. S[Len(S)] = <<M[x], i + n - 1>>
      BY <2>1, <1>6, <1>0
    <3>2. CASE k > 1
      <4>1. S[Len(S)] = <<M[y], k - 1>>
        BY <3>2, <1>1 DEF Flow, Finishes
      <4>2. M[x] = M[y] /\ i + n - 1 = k - 1
        BY <4>1, <3>1
      <4>3. y # Len(M) + 1
        BY <3>2 DEF Flow, Position
      <4>4. y \in 1..Len(M)
        BY <4>3, <1>7, <1>3, UpToNext, Zenon
      <4>5. x = y
        BY <4>2, <4>4, <1>3 DEF Distinct
      <4>6. k <= t
        BY <4>4, <4>5, <1>8, <1>19
      <4>7. i \in Nat /\ n \in Nat /\ k \in Nat
        BY <1>1, <1>3, <1>7
      <4>8. i + n = k /\ i + n - 1 # t
        BY <4>2, <4>6, <4>7, <1>19
      <4> QED BY <4>8, <4>5, <1>11, <3>0 DEF Finishes
    <3>3. CASE k = 1
      <4>1. y > 1 /\ S[Len(S)] = <<M[y - 1], T[M[y - 1]]>>
        BY <3>3, <1>1 DEF Flow, Finishes
      <4>2. M[x] = M[y - 1] /\ i + n - 1 = T[M[y - 1]]
        BY <4>1, <3>1
      <4>3. y - 1 \in 1..Len(M)
        BY <4>1, <1>7, <1>3
      <4>4. x = y - 1
        BY <4>2, <4>3, <1>3 DEF Distinct
      <4>5. i + n - 1 = t /\ x + 1 = y
        BY <4>2, <4>4, <1>19, <1>7
      <4>6. i \in Nat /\ n \in Nat
        BY <1>1, <1>3
      <4>7. ~(i + n <= t)
        BY <4>5, <4>6, <1>19
      <4> QED BY <4>5, <4>7, <1>11, <3>0, <3>3 DEF Finishes
    <3>4. k > 1 \/ k = 1
      BY <1>7
    <3> QED BY <3>2, <3>3, <3>4
  <2>2. CASE s # n
    <3>1. s - n \in 1..(s - n) /\ n + (s - n) = s
      BY <2>2, <1>1
    <3>2. R[Len(R)] = S[Len(S)]
      BY <3>1, <1>10, <1>0
    <3>3. R # <<>>
      BY <3>1, <1>10, <1>1
    <3> QED BY <3>2, <3>3, <1>1 DEF Flow, Finishes
  <2> QED BY <2>1, <2>2
<1>18. Flow(R, M, T, x2, i2, y, k)
  BY <1>12, <1>13, <1>14, <1>15, <1>16, <1>17 DEF Flow
<1> QED BY <1>3, <1>5, <1>9, <1>19, <1>18 DEF R, x2, i2

(* A message is added to the ones that flow.                                *)
LEMMA FlowExtends ==
  ASSUME NEW S \in Seq(Bytes), NEW M \in Seq(Messages),
         NEW T \in [Messages -> Nat \ {0}], NEW m \in Messages, ~Contains(M, m),
         NEW x, NEW i, NEW y, NEW k, Flow(S, M, T, x, i, y, k)
  PROVE  Flow(S, Append(M, m), T, x, i, y, k)
<1> DEFINE N == Append(M, m)
<1>1. /\ N \in Seq(Messages) /\ Len(N) = Len(M) + 1 /\ Len(M) \in Nat
      /\ \A z \in 1..Len(M) : N[z] = M[z]
      /\ N[Len(M) + 1] = m /\ T[m] \in Nat \ {0}
  BY AppendProperties
<1>0. \A z \in 1..Len(M) : M[z] # m
  BY DEF Contains
<1> HIDE DEF N
<1>2. ASSUME NEW u, NEW v, Position(M, T, u, v) PROVE Position(N, T, u, v)
  <2>1. u \in 1..(Len(M) + 1) /\ v \in Nat \ {0}
    BY <1>2 DEF Position
  <2>2. CASE u <= Len(M)
    <3>1. u \in 1..Len(M) /\ N[u] = M[u] /\ v <= T[M[u]]
      BY <2>1, <2>2, <1>1, <1>2 DEF Position
    <3> QED BY <3>1, <2>1, <1>1 DEF Position
  <2>3. CASE u = Len(M) + 1
    <3>1. v = 1
      BY <2>3, <1>2 DEF Position
    <3> QED BY <3>1, <2>3, <1>1 DEF Position
  <2> QED BY <2>1, <2>2, <2>3, <1>1
<1>3. Position(N, T, x, i) /\ Position(N, T, y, k)
  BY <1>2 DEF Flow
<1>4. Bounded(S, N, y, k)
  <2> SUFFICES ASSUME NEW j \in 1..Len(S)
               PROVE  \E z \in 1..Len(N) :
                        S[j][1] = N[z] /\ (z < y \/ (z = y /\ S[j][2] < k))
    BY DEF Bounded
  <2>1. PICK z \in 1..Len(M) : S[j][1] = M[z] /\ (z < y \/ (z = y /\ S[j][2] < k))
    BY DEF Flow, Bounded
  <2>2. z \in 1..Len(N) /\ N[z] = M[z]
    BY <1>1
  <2> QED BY <2>1, <2>2
<1>5. Seams(S, N, T)
  <2> SUFFICES ASSUME NEW j \in 1..(Len(S) - 1), NEW z \in 1..Len(N),
                      S[j] = <<N[z], T[N[z]]>>
               PROVE  z < Len(N) /\ S[j + 1] = <<N[z + 1], 1>>
    BY DEF Seams
  <2>0. j \in 1..Len(S)
    OBVIOUS
  <2>1. PICK u \in 1..Len(M) : S[j][1] = M[u]
    BY <2>0 DEF Flow, Bounded
  <2>2. N[z] = M[u]
    BY <2>1
  <2>3. z # Len(M) + 1
    BY <2>2, <1>0, <1>1
  <2>4. z \in 1..Len(M) /\ N[z] = M[z]
    <3>1. z \in 1..(Len(M) + 1)
      BY <1>1, Zenon
    <3>2. z \in 1..Len(M)
      BY <2>3, <3>1, <1>1, UpToNext, Zenon
    <3> QED BY <3>2, <1>1
  <2>5. z < Len(M) /\ S[j + 1] = <<M[z + 1], 1>>
    BY <2>4 DEF Flow, Seams
  <2>6. z + 1 \in 1..Len(M)
    BY <2>4, <2>5, <1>1, Successor, Zenon
  <2>7. N[z + 1] = M[z + 1]
    BY <2>6, <1>1, Zenon
  <2>8. z < Len(N)
    BY <2>5, <2>4, <1>1
  <2> QED BY <2>5, <2>7, <2>8
<1>6. Begins(S, N, x, i)
  <2> SUFFICES ASSUME S # <<>> PROVE x <= Len(N) /\ S[1] = <<N[x], i>>
    BY DEF Begins
  <2>1. x <= Len(M) /\ S[1] = <<M[x], i>>
    BY DEF Flow, Begins
  <2>2. x \in 1..Len(M) /\ x <= Len(N)
    BY <2>1, <1>1 DEF Flow, Position
  <2> QED BY <2>1, <2>2, <1>1
<1>7. Finishes(S, N, T, x, i, y, k)
  <2>0. y \in 1..(Len(M) + 1) /\ k \in Nat \ {0}
    BY DEF Flow, Position
  <2>1. ASSUME k > 1 PROVE N[y] = M[y]
    <3>1. y # Len(M) + 1
      BY <2>1 DEF Flow, Position
    <3> QED BY <3>1, <2>0, <1>1, UpToNext, Zenon
  <2>2. ASSUME y > 1 PROVE N[y - 1] = M[y - 1]
    <3>1. y - 1 \in 1..Len(M)
      BY <2>2, <2>0, <1>1
    <3> QED BY <3>1, <1>1
  <2> QED BY <2>1, <2>2 DEF Flow, Finishes
<1> QED BY <1>3, <1>4, <1>5, <1>6, <1>7 DEF Flow, N
-----------------------------------------------------------------------------
(* The inductive invariants.                                                *)

Locations == {"welcome", "hello_len", "hello_pkt", "loop", "send", "recv_len",
              "recv_pkt", "gone"}
Handshake == {"welcome", "hello_len", "hello_pkt"}

TypeOK ==
  /\ pc \in Locations
  /\ sln \in Solutions \cup {NoMessage}
  /\ pc = "send" => sln \in Solutions
  /\ checking_solution \in Solutions \cup {NoMessage}
  /\ offset \in Nat /\ res_len \in Nat /\ answered_bytes \in Nat
  /\ received \in Seq(Bytes) /\ down \in Seq(Bytes)
  /\ up \in Seq(Bytes) /\ got \in Seq(Bytes)
  /\ answering \in Messages \cup {NoMessage}
  /\ sent \in Seq(Solutions)
  /\ read \in Seq(Messages) /\ answered \in Seq(Messages) /\ posted \in Seq(Messages)
  /\ cut_down \in BOOLEAN /\ cut_up \in BOOLEAN /\ astray \in BOOLEAN
  /\ given_up \in {"no", "recv", "send"}

(* The timers, and what they are compared with.                             *)
Patience ==
  /\ last_recv_delay \in Nat /\ last_send_delay \in Nat
  /\ waited \in Nat /\ stalled \in Nat
  /\ slow_send \in BOOLEAN /\ slow_recv \in BOOLEAN
  /\ given_up # "no" => pc = "gone"
  /\ given_up = "no" => /\ waited <= last_recv_delay
                        /\ last_recv_delay < RECV_MAX_TIMEOUT
                        /\ stalled <= last_send_delay
                        /\ last_send_delay < SEND_MAX_TIMEOUT
  /\ slow_recv = FALSE => waited = last_recv_delay
  /\ slow_send = FALSE /\ given_up = "no" => stalled = last_send_delay
  /\ given_up = "recv" => last_recv_delay >= RECV_MAX_TIMEOUT
  /\ given_up = "send" /\ slow_send = FALSE => stalled >= SEND_MAX_TIMEOUT

(* A packet is being sent, or its sending was given up.                     *)
Unsent == pc = "send" \/ given_up = "send"

Sending ==
  /\ given_up = "send" => pc = "gone"
  /\ pc \in Handshake => sent = <<>> /\ posted = <<>> /\ sln = NoMessage
  /\ pc = "welcome" => offset < Total(Welcome)
  /\ pc = "send" => offset < Total(sln)
  /\ Unsent => sln # NoMessage /\ ~Contains(sent, sln)
  /\ ~Unsent => sln = NoMessage \/ Contains(sent, sln)
  /\ Distinct(sent)

(* The last byte of a packet is sent once and read once, whatever was cut.  *)
LastByte(m) == <<m, Total(m)>>
WasSent(m) == IF m = Welcome THEN pc # "welcome" ELSE Contains(sent, m)
Once ==
  /\ \A j, l \in 1..Len(down) :
       /\ down[j][1] = down[l][1]
       /\ down[j][2] = Total(down[j][1]) /\ down[l][2] = Total(down[l][1])
       => j = l
  /\ \A j \in 1..Len(down) :
       down[j][2] = Total(down[j][1])
       => WasSent(down[j][1]) /\ ~Contains(read, down[j][1])
  /\ \A i \in 1..Len(read) : WasSent(read[i])
  /\ Distinct(read)

(* The checker answers what it has read last.                               *)
Answering ==
  /\ answering = NoMessage => read = answered /\ answered_bytes = 0
  /\ answering # NoMessage => /\ read = Append(answered, answering)
                              /\ answered_bytes < 2 + AnswerLength

(* Downstream: the packets whose sending has begun, and where the sender    *)
(* and the checker are in them.                                             *)
Wire == IF Unsent THEN Append(<<Welcome>> \o sent, sln) ELSE <<Welcome>> \o sent
DownTotal == [m \in Messages |-> Total(m)]
SendMessage == IF pc = "welcome" THEN 1 ELSE Len(sent) + 2
SendByte == IF pc \in {"welcome", "send"} THEN offset + 1 ELSE 1

Fits == \A s \in Solutions : sln = s \/ Contains(sent, s) => Length[s] < LengthModulus

Downstream ==
  /\ ~astray
  /\ Len(read) + 1 <= SendMessage
  /\ \A i \in 1..Len(read) : read[i] = Wire[i]
  /\ Len(got) > 0 => Len(read) < Len(Wire) /\ Len(got) < Total(Wire[Len(read) + 1])
  /\ Flow(got \o down, Wire, DownTotal, Len(read) + 1, 1, SendMessage, SendByte)

InStep == ~cut_down /\ Fits => Downstream

(* Upstream: the answers, and where the checker and recv_all are in them.   *)
UpTotal == [m \in Messages |-> 2 + AnswerLength]
RecvMessage == IF pc \in Handshake THEN 1 ELSE Len(posted) + 2
RecvByte == IF pc \in {"hello_pkt", "recv_pkt"} THEN 3 ELSE 1

Posted ==
  /\ posted # <<>> => Len(posted) + 1 <= Len(answered)
  /\ \A i \in 1..Len(posted) : posted[i] = answered[i + 1]
  /\ pc \notin Handshake /\ pc # "gone" => answered # <<>>
  /\ answered # <<>> => answered[1] = Welcome
  /\ answered = <<>> => sent = <<>>

Upstream ==
  /\ pc \in {"hello_len", "recv_len"} => Len(received) < 2
  /\ pc \in {"hello_pkt", "recv_pkt"} => res_len = AnswerLength /\ Len(received) < res_len
  /\ pc \notin {"hello_len", "hello_pkt", "recv_len", "recv_pkt"} => received = <<>>
  /\ Flow(received \o up, read, UpTotal, RecvMessage, RecvByte, Len(answered) + 1,
          answered_bytes + 1)

InOrder == ~cut_up => Posted /\ (pc # "gone" => Upstream)
-----------------------------------------------------------------------------
(* Sequences.                                                               *)

LEMMA ContainsAppend ==
  ASSUME NEW A, NEW s \in Seq(A), NEW e \in A, NEW d
  PROVE  Contains(Append(s, e), d) <=> Contains(s, d) \/ d = e
<1>1. /\ Len(Append(s, e)) = Len(s) + 1 /\ Len(s) \in Nat
      /\ \A i \in 1..Len(s) : Append(s, e)[i] = s[i]
      /\ Append(s, e)[Len(s) + 1] = e
  BY AppendProperties
<1>2. ASSUME Contains(Append(s, e), d) PROVE Contains(s, d) \/ d = e
  <2>1. PICK i \in 1..(Len(s) + 1) : Append(s, e)[i] = d
    BY <1>1, <1>2 DEF Contains
  <2>2. i = Len(s) + 1 \/ i \in 1..Len(s)
    BY <1>1, UpToNext, Zenon
  <2> QED BY <2>1, <2>2, <1>1, Zenon DEF Contains
<1>3. ASSUME Contains(s, d) PROVE Contains(Append(s, e), d)
  <2>1. PICK i \in 1..Len(s) : s[i] = d
    BY <1>3 DEF Contains
  <2>2. i \in 1..(Len(s) + 1)
    BY <1>1
  <2> QED BY <2>1, <2>2, <1>1, Zenon DEF Contains
<1>4. Contains(Append(s, e), e)
  <2>1. Len(s) + 1 \in 1..(Len(s) + 1)
    BY <1>1
  <2> QED BY <2>1, <1>1, Zenon DEF Contains
<1> QED BY <1>2, <1>3, <1>4

LEMMA DistinctAppend ==
  ASSUME NEW A, NEW s \in Seq(A), NEW e \in A, Distinct(s), ~Contains(s, e)
  PROVE  Distinct(Append(s, e))
<1>1. /\ Len(Append(s, e)) = Len(s) + 1 /\ Len(s) \in Nat
      /\ \A i \in 1..Len(s) : Append(s, e)[i] = s[i]
      /\ Append(s, e)[Len(s) + 1] = e
  BY AppendProperties
<1> SUFFICES ASSUME NEW i \in 1..(Len(s) + 1), NEW j \in 1..(Len(s) + 1),
                    Append(s, e)[i] = Append(s, e)[j]
             PROVE  i = j
  BY <1>1, Zenon DEF Distinct
<1>2. (i = Len(s) + 1 \/ i \in 1..Len(s)) /\ (j = Len(s) + 1 \/ j \in 1..Len(s))
  BY <1>1, UpToNext, Zenon
<1>3. \A l \in 1..Len(s) : s[l] # e
  BY Zenon DEF Contains
<1> QED BY <1>1, <1>2, <1>3, Zenon DEF Distinct

(* Bytes taken from the front of B and put behind A.                        *)
LEMMA Moved ==
  ASSUME NEW A \in Seq(Bytes), NEW B \in Seq(Bytes), NEW n \in 0..Len(B)
  PROVE  /\ SubSeq(B, 1, n) \in Seq(Bytes) /\ SubSeq(B, n + 1, Len(B)) \in Seq(Bytes)
         /\ Len(SubSeq(B, 1, n)) = n
         /\ A \o SubSeq(B, 1, n) \in Seq(Bytes)
         /\ Len(A \o SubSeq(B, 1, n)) = Len(A) + n
         /\ A \o SubSeq(B, 1, n) = SubSeq(A \o B, 1, Len(A) + n)
         /\ SubSeq(B, n + 1, Len(B)) = SubSeq(A \o B, Len(A) + n + 1, Len(A \o B))
         /\ (A \o SubSeq(B, 1, n)) \o SubSeq(B, n + 1, Len(B)) = A \o B
<1> DEFINE F == SubSeq(B, 1, n)
           R == SubSeq(B, n + 1, Len(B))
<1>1. PICK a \in Nat, b \in Nat : a = Len(A) /\ b = Len(B)
  OBVIOUS
<1>2. n \in Nat /\ n <= b /\ n \in 0..b /\ b - n \in Nat
  BY <1>1
<1>3. /\ F \in Seq(Bytes) /\ Len(F) = n /\ \A i \in 1..n : F[i] = B[i]
  BY <1>1, <1>2
<1>4. R = [l \in 1..(b - n) |-> B[n + l]]
  BY <1>1, <1>2
<1>5. R \in Seq(Bytes) /\ Len(R) = b - n /\ \A i \in 1..(b - n) : R[i] = B[n + i]
  <2>1. \A l \in 1..(b - n) : B[n + l] \in Bytes
    BY <1>1, <1>2
  <2> HIDE DEF R
  <2>2. R \in Seq(Bytes)
    BY <2>1, <1>2, <1>4, IsASeq
  <2> QED BY <2>2, <1>4, <1>2
<1> HIDE DEF F, R
<1>6. /\ A \o B \in Seq(Bytes) /\ Len(A \o B) = a + b
      /\ \A i \in 1..a : (A \o B)[i] = A[i]
      /\ \A i \in 1..b : (A \o B)[a + i] = B[i]
  BY <1>1
<1>7. /\ A \o F \in Seq(Bytes) /\ Len(A \o F) = a + n
      /\ \A i \in 1..a : (A \o F)[i] = A[i]
      /\ \A i \in 1..n : (A \o F)[a + i] = F[i]
  BY <1>1, <1>2, <1>3
<1>8. A \o F = SubSeq(A \o B, 1, a + n)
  <2>1. /\ SubSeq(A \o B, 1, a + n) \in Seq(Bytes)
        /\ Len(SubSeq(A \o B, 1, a + n)) = a + n
        /\ \A i \in 1..(a + n) : SubSeq(A \o B, 1, a + n)[i] = (A \o B)[i]
    <3> DEFINE AB == A \o B
    <3>1. AB \in Seq(Bytes) /\ Len(AB) = a + b /\ a + n <= a + b /\ a + n \in Nat
      BY <1>6, <1>2
    <3> HIDE DEF AB
    <3>2. /\ SubSeq(AB, 1, a + n) \in Seq(Bytes) /\ Len(SubSeq(AB, 1, a + n)) = a + n
          /\ \A i \in 1..(a + n) : SubSeq(AB, 1, a + n)[i] = AB[i]
      BY <3>1
    <3> QED BY <3>2 DEF AB
  <2>2. \A i \in 1..(a + n) : i \in 1..a \/ \E j \in 1..n : i = a + j
    <3> SUFFICES ASSUME NEW i \in 1..(a + n), i > a PROVE \E j \in 1..n : i = a + j
      BY <1>2
    <3>1. i - a \in 1..n /\ i = a + (i - a)
      BY <1>2
    <3> QED BY <3>1
  <2>3. \A i \in 1..n : i \in 1..b
    BY <1>2
  <2>4. \A i \in 1..(a + n) : (A \o F)[i] = (A \o B)[i]
    <3> SUFFICES ASSUME NEW i \in 1..(a + n) PROVE (A \o F)[i] = (A \o B)[i]
      BY Zenon
    <3>1. CASE i \in 1..a
      BY <3>1, <1>6, <1>7, Zenon
    <3>2. ASSUME NEW j \in 1..n, i = a + j PROVE (A \o F)[i] = (A \o B)[i]
      <4>1. (A \o F)[a + j] = F[j] /\ F[j] = B[j]
        BY <1>3, <1>7, Zenon
      <4>2. (A \o B)[a + j] = B[j]
        BY <2>3, <1>6, Zenon
      <4> QED BY <4>1, <4>2, <3>2, Zenon
    <3> QED BY <3>1, <3>2, <2>2, Zenon
  <2> QED BY <2>1, <2>4, <1>7, SeqEqual
<1>9. R = SubSeq(A \o B, a + n + 1, a + b)
  <2>1. /\ SubSeq(A \o B, a + n + 1, a + b) \in Seq(Bytes)
        /\ Len(SubSeq(A \o B, a + n + 1, a + b)) = b - n
        /\ \A i \in 1..(b - n) : SubSeq(A \o B, a + n + 1, a + b)[i] = (A \o B)[a + (n + i)]
    <3> DEFINE AB == A \o B
               Q == SubSeq(AB, a + n + 1, a + b)
    <3>1. AB \in Seq(Bytes) /\ Len(AB) = a + b
      BY <1>6
    <3> HIDE DEF AB
    <3>2. Q = [i \in 1..(b - n) |-> AB[a + (n + i)]]
      BY <3>1, <1>2
    <3>3. \A i \in 1..(b - n) : AB[a + (n + i)] \in Bytes
      BY <3>1, <1>2
    <3> HIDE DEF Q
    <3>4. Q \in Seq(Bytes)
      BY <3>2, <3>3, <1>2, IsASeq
    <3>5. Len(Q) = b - n /\ \A i \in 1..(b - n) : Q[i] = AB[a + (n + i)]
      BY <3>2, <3>4, <1>2
    <3> QED BY <3>4, <3>5 DEF Q, AB
  <2>2. \A i \in 1..(b - n) : n + i \in 1..b
    BY <1>2
  <2>3. \A i \in 1..(b - n) : (A \o B)[a + (n + i)] = B[n + i]
    BY <2>2, <1>6, Zenon
  <2> QED BY <2>1, <2>3, <1>5, SeqEqual
<1>10. (A \o F) \o R = A \o B
  <2>1. F \o R = B
    <3>1. F \o R = SubSeq(B, 1, b)
      <4>1. 1 \in 1..(Len(B) + 1) /\ n \in (1 - 1)..Len(B) /\ Len(B) \in n..Len(B)
        BY <1>1, <1>2
      <4>2. SubSeq(B, 1, n) \o SubSeq(B, n + 1, Len(B)) = SubSeq(B, 1, Len(B))
        BY <4>1, ConcatAdjacentSubSeq, Zenon
      <4> QED BY <4>2, <1>1 DEF F, R
    <3> QED BY <3>1, <1>1, SubSeqFull
  <2>2. (A \o F) \o R = A \o (F \o R)
    <3>1. F \in Seq(Bytes) /\ R \in Seq(Bytes) /\ A \in Seq(Bytes)
      BY <1>3, <1>5
    <3> QED BY <3>1, ConcatAssociative
  <2> QED BY <2>1, <2>2, Zenon
<1> QED BY <1>1, <1>3, <1>5, <1>6, <1>7, <1>8, <1>9, <1>10 DEF F, R

(* A packet is the bytes it is made of.                                     *)
LEMMA PacketBytes ==
  ASSUME NEW m \in Messages, NEW a \in Nat \ {0}, NEW n \in Nat
  PROVE  /\ Packet(m, a, a + n - 1) \in Seq(Bytes)
         /\ Len(Packet(m, a, a + n - 1)) = n
         /\ \A l \in 1..n : Packet(m, a, a + n - 1)[l] = <<m, a + l - 1>>
<1>1. (a + n - 1) - a + 1 = n
  OBVIOUS
<1>2. Packet(m, a, a + n - 1) = [l \in 1..n |-> <<m, a + l - 1>>]
  BY <1>1 DEF Packet
<1>3. \A l \in 1..n : <<m, a + l - 1>> \in Bytes
  BY DEF Bytes
<1>4. Packet(m, a, a + n - 1) \in Seq(Bytes)
  <2> DEFINE P == Packet(m, a, a + n - 1)
  <2>1. P = [l \in 1..n |-> <<m, a + l - 1>>]
    BY <1>2
  <2> HIDE DEF P
  <2>2. P \in [1..n -> Bytes]
    BY <2>1, <1>3, Zenon
  <2>3. P \in UNION {[1..l -> Bytes] : l \in Nat}
    BY <2>2, Zenon
  <2>4. P \in Seq(Bytes)
    BY <2>3, SeqDef, Zenon
  <2> QED BY <2>4 DEF P
<1> QED BY <1>2, <1>4
-----------------------------------------------------------------------------
(* What the steps of the session do.                                        *)

LEMMA Totals == \A m \in Messages : Total(m) \in Nat /\ Total(m) > 2
<1>1. \A m \in Messages : Length[m] \in Nat \ {0}
  BY LengthsAssumption
<1> QED BY <1>1 DEF Total

LEMMA SendFacts ==
  ASSUME TypeOK, NEW m \in Messages, SendSome(m)
  PROVE  \E n \in Nat \ {0} :
           /\ offset + n <= Total(m) /\ offset' = offset + n
           /\ down' = down \o Packet(m, offset + 1, (offset + 1) + n - 1)
           /\ down' \in Seq(Bytes) /\ Len(down') = Len(down) + n
           /\ \A j \in 1..Len(down) : down'[j] = down[j]
           /\ \A l \in 1..n : down'[Len(down) + l] = <<m, offset + l>>
<1>1. offset \in Nat /\ Total(m) \in Nat /\ down \in Seq(Bytes)
  BY Totals DEF TypeOK
<1>2. PICK n \in 1..(Total(m) - offset) :
        down' = down \o Packet(m, offset + 1, offset + n) /\ offset' = offset + n
  BY DEF SendSome
<1>3. n \in Nat \ {0} /\ offset + n <= Total(m) /\ offset + 1 \in Nat \ {0}
  BY <1>1
<1>4. (offset + 1) + n - 1 = offset + n
  BY <1>1, <1>3
<1> DEFINE P == Packet(m, offset + 1, (offset + 1) + n - 1)
<1>5. P \in Seq(Bytes) /\ Len(P) = n /\ \A l \in 1..n : P[l] = <<m, (offset + 1) + l - 1>>
  BY <1>3, PacketBytes
<1>6. down' = down \o P
  BY <1>2, <1>4
<1> HIDE DEF P
<1>7. \A l \in 1..n : P[l] = <<m, offset + l>>
  <2> SUFFICES ASSUME NEW l \in 1..n PROVE P[l] = <<m, offset + l>>
    OBVIOUS
  <2>1. (offset + 1) + l - 1 = offset + l
    BY <1>1
  <2> QED BY <2>1, <1>5
<1>8. /\ down' \in Seq(Bytes) /\ Len(down') = Len(down) + n
      /\ \A j \in 1..Len(down) : down'[j] = down[j]
      /\ \A l \in 1..n : down'[Len(down) + l] = P[l]
  BY <1>1, <1>3, <1>5, <1>6
<1> QED BY <1>2, <1>3, <1>6, <1>7, <1>8 DEF P

LEMMA RecvFacts ==
  ASSUME TypeOK, NEW len \in Nat, NEW chunk \in Chunks(len), Recv(chunk)
  PROVE  \E n \in 0..Len(up) :
           /\ chunk = SubSeq(up, 1, n) /\ up' = SubSeq(up, n + 1, Len(up))
           /\ up' \in Seq(Bytes)
           /\ received \o chunk \in Seq(Bytes)
           /\ Len(received \o chunk) = Len(received) + n
           /\ len # 0 => 1 <= n /\ Len(received) + n <= len
<1>1. received \in Seq(Bytes) /\ up \in Seq(Bytes)
  BY DEF TypeOK
<1>2. Len(received) \in Nat /\ Len(up) \in Nat
  BY <1>1
<1>3. PICK n : /\ chunk = SubSeq(up, 1, n)
               /\ n \in IF len = 0 THEN {0}
                        ELSE {i \in 1..(len - Len(received)) : i <= Len(up)}
  BY DEF Chunks
<1>4. n \in 0..Len(up) /\ (len # 0 => 1 <= n /\ Len(received) + n <= len)
  BY <1>3, <1>2
<1>5. /\ up' \in Seq(Bytes) /\ Len(chunk) = n
      /\ received \o chunk \in Seq(Bytes)
      /\ Len(received \o chunk) = Len(received) + n
      /\ up' = SubSeq(up, n + 1, Len(up))
  <2>1. /\ SubSeq(up, n + 1, Len(up)) \in Seq(Bytes) /\ Len(SubSeq(up, 1, n)) = n
        /\ received \o SubSeq(up, 1, n) \in Seq(Bytes)
        /\ Len(received \o SubSeq(up, 1, n)) = Len(received) + n
    BY <1>1, <1>4, Moved
  <2>2. Len(chunk) = n
    BY <2>1, <1>3
  <2>3. up' = SubSeq(up, n + 1, Len(up))
    BY <2>2 DEF Recv
  <2> QED BY <2>1, <2>2, <2>3, <1>3
<1> QED BY <1>3, <1>4, <1>5

(* The byte the checker reads, and what it makes of it.                     *)
LEMMA ReadFacts ==
  ASSUME TypeOK, CheckerReads
  PROVE  \E b \in Seq(Bytes), m \in Messages :
           /\ b = Append(got, Head(down)) /\ m = b[1][1]
           /\ Len(b) = Len(got) + 1 /\ b[Len(b)] = down[1]
           /\ down # <<>> /\ down' = Tail(down) /\ down' \in Seq(Bytes)
           /\ answering = NoMessage
           /\ \/ /\ UNCHANGED <<answering, read>>
                 /\ got' \in {got, b, <<>>} /\ astray' \in BOOLEAN
              \/ /\ b = Packet(m, 1, Total(m)) /\ down[1] = <<m, Total(m)>>
                 /\ got' = <<>> /\ answering' = m /\ read' = Append(read, m)
                 /\ UNCHANGED astray
<1>1. down \in Seq(Bytes) /\ got \in Seq(Bytes) /\ down # <<>> /\ astray \in BOOLEAN
  BY DEF TypeOK, CheckerReads
<1>2. /\ Head(down) = down[1] /\ down[1] \in Bytes /\ Tail(down) \in Seq(Bytes)
  BY <1>1
<1> DEFINE b == Append(got, Head(down))
           m == b[1][1]
<1>3. b \in Seq(Bytes) /\ Len(b) = Len(got) + 1 /\ b[Len(b)] = down[1] /\ Len(got) \in Nat
  BY <1>1, <1>2
<1>4. b[1] \in Bytes
  BY <1>3
<1>5. m \in Messages
  BY <1>4 DEF Bytes
<1>6. /\ answering = NoMessage /\ down' = Tail(down)
      /\ \/ /\ UNCHANGED <<answering, read>>
            /\ got' \in {got, b, <<>>} /\ astray' \in BOOLEAN
         \/ /\ b = Packet(m, 1, Total(m))
            /\ got' = <<>> /\ answering' = m /\ read' = Append(read, m)
            /\ UNCHANGED astray
  BY <1>1, Zenon DEF CheckerReads
<1> HIDE DEF b, m
<1>7. ASSUME b = Packet(m, 1, Total(m)) PROVE down[1] = <<m, Total(m)>>
  <2>1. Total(m) \in Nat /\ Total(m) > 2 /\ 1 + Total(m) - 1 = Total(m) /\ Total(m) \in 1..Total(m)
    BY <1>5, Totals
  <2>2. Len(b) = Total(m) /\ b[Total(m)] = <<m, 1 + Total(m) - 1>>
    <3>1. 1 \in Nat \ {0}
      OBVIOUS
    <3>2. /\ Len(Packet(m, 1, 1 + Total(m) - 1)) = Total(m)
          /\ Packet(m, 1, 1 + Total(m) - 1)[Total(m)] = <<m, 1 + Total(m) - 1>>
      BY <3>1, <2>1, <1>5, PacketBytes, Zenon
    <3> QED BY <3>2, <2>1, <1>7, Zenon
  <2> QED BY <2>1, <2>2, <1>3
<1> QED BY <1>1, <1>2, <1>3, <1>5, <1>6, <1>7, Zenon DEF b, m

LEMMA AnswerFacts ==
  ASSUME TypeOK, CheckerAnswers
  PROVE  \E n \in Nat \ {0} :
           /\ answering \in Messages /\ answered_bytes + n <= 2 + AnswerLength
           /\ up' = up \o Packet(answering, answered_bytes + 1, (answered_bytes + 1) + n - 1)
           /\ up' \in Seq(Bytes)
           /\ \/ /\ answered_bytes + n = 2 + AnswerLength
                 /\ answered' = Append(answered, answering)
                 /\ answering' = NoMessage /\ answered_bytes' = 0
              \/ /\ answered_bytes + n < 2 + AnswerLength
                 /\ answered_bytes' = answered_bytes + n
                 /\ UNCHANGED <<answered, answering>>
<1>1. /\ answering \in Messages /\ answered_bytes \in Nat /\ AnswerLength \in Nat
      /\ up \in Seq(Bytes)
  BY LengthsAssumption DEF TypeOK, CheckerAnswers
<1>2. PICK n \in 1..(2 + AnswerLength - answered_bytes) :
        /\ up' = up \o Packet(answering, answered_bytes + 1, answered_bytes + n)
        /\ IF answered_bytes + n = 2 + AnswerLength
           THEN /\ answered' = Append(answered, answering)
                /\ answering' = NoMessage /\ answered_bytes' = 0
           ELSE /\ answered_bytes' = answered_bytes + n
                /\ UNCHANGED <<answered, answering>>
  BY DEF CheckerAnswers
<1>3. /\ n \in Nat \ {0} /\ answered_bytes + n <= 2 + AnswerLength
      /\ answered_bytes + 1 \in Nat \ {0} /\ (answered_bytes + 1) + n - 1 = answered_bytes + n
      /\ answered_bytes + n \in Int /\ 2 + AnswerLength \in Int
  BY <1>1
<1>4. answered_bytes + n = 2 + AnswerLength \/ answered_bytes + n < 2 + AnswerLength
  BY <1>3, AtMost
<1> DEFINE P == Packet(answering, answered_bytes + 1, (answered_bytes + 1) + n - 1)
<1>5. P \in Seq(Bytes)
  BY <1>1, <1>3, PacketBytes
<1>6. up' = up \o P
  BY <1>2, <1>3
<1> HIDE DEF P
<1>7. up' \in Seq(Bytes)
  BY <1>1, <1>5, <1>6
<1>8. answered_bytes + n < 2 + AnswerLength => answered_bytes + n # 2 + AnswerLength
  BY <1>3
<1> QED BY <1>1, <1>2, <1>3, <1>4, <1>6, <1>7, <1>8, Zenon DEF P
-----------------------------------------------------------------------------
(* The types.                                                               *)

(* A call of recv_all, whatever is done with the bytes it has received.     *)
LEMMA RecvTypes ==
  ASSUME TypeOK, NEW len \in Nat, NEW chunk \in Chunks(len), Recv(chunk),
         received' = <<>> \/ received' = received \o chunk
  PROVE  received' \in Seq(Bytes) /\ up' \in Seq(Bytes)
<1>1. received \o chunk \in Seq(Bytes) /\ up' \in Seq(Bytes)
  BY RecvFacts
<1>2. <<>> \in Seq(Bytes)
  OBVIOUS
<1> QED BY <1>1, <1>2, Zenon

LEMMA ResLenTypes ==
  ASSUME NEW bytes, NEW l \in Lengths(bytes)
  PROVE  l \in Nat
  BY LengthsAssumption DEF Lengths

(* No step gives a variable a value of another kind.                        *)
LEMMA TypeStep ==
  ASSUME TypeOK, [Next]_vars
  PROVE  TypeOK'
<1>1. CASE SendWelcome
  <2>1. ASSUME SendSome(Welcome) PROVE down' \in Seq(Bytes) /\ offset' \in Nat
    <3>1. Welcome \in Messages
      BY DEF Messages
    <3>2. PICK n \in Nat \ {0} : offset' = offset + n /\ down' \in Seq(Bytes)
      BY <2>1, <3>1, SendFacts
    <3> QED BY <3>2 DEF TypeOK
  <2>2. down' \in Seq(Bytes) /\ offset' \in Nat
    BY <1>1, <2>1 DEF SendWelcome, TypeOK
  <2>3. pc' \in {"welcome", "hello_len"} /\ cut_down' \in BOOLEAN
    BY <1>1 DEF SendWelcome, TypeOK, Goto
  <2>4. UNCHANGED <<sln, received, res_len, checking_solution, timers, up, checker,
                    sent, posted, cut_up, clocks>>
    BY <1>1 DEF SendWelcome
  <2> QED BY <2>2, <2>3, <2>4 DEF TypeOK, checker, clocks, Locations
<1>2. ASSUME NEW from \in {"hello_len", "recv_len"}, NEW to \in {"hello_pkt", "recv_pkt"},
             RecvLength(from, to)
      PROVE  TypeOK'
  <2>1. PICK chunk \in Chunks(2) :
          /\ Recv(chunk)
          /\ \/ Goto(to) /\ received' = <<>> /\ res_len' \in Lengths(received \o chunk)
             \/ received' = received \o chunk /\ UNCHANGED <<pc, res_len>>
    BY <1>2 DEF RecvLength
  <2>2. received' \in Seq(Bytes) /\ up' \in Seq(Bytes)
    BY <2>1, RecvTypes
  <2>3. res_len' \in Nat /\ pc' \in {"hello_pkt", "recv_pkt", pc}
    BY <2>1, ResLenTypes DEF Goto, TypeOK
  <2>4. UNCHANGED <<sln, offset, checking_solution, timers, down, checker, errors, sent,
                    posted, cut_down, cut_up, clocks>>
    BY <1>2 DEF RecvLength
  <2> QED BY <2>2, <2>3, <2>4 DEF TypeOK, checker, clocks, Locations
<1>3. CASE RecvHello
  <2>1. PICK chunk \in Chunks(res_len) :
          /\ Recv(chunk)
          /\ \/ pc' \in {"loop", "gone"} /\ received' = <<>>
             \/ received' = received \o chunk /\ UNCHANGED pc
    BY <1>3 DEF RecvHello
  <2>2. received' \in Seq(Bytes) /\ up' \in Seq(Bytes)
    BY <2>1, RecvTypes DEF TypeOK
  <2>3. pc' \in {"loop", "gone", pc}
    BY <2>1
  <2>4. UNCHANGED <<sln, offset, res_len, checking_solution, timers, down, checker,
                    errors, sent, posted, cut_down, cut_up, clocks>>
    BY <1>3 DEF RecvHello
  <2> QED BY <2>2, <2>3, <2>4 DEF TypeOK, checker, clocks, Locations
<1>4. ASSUME NEW lost \in BOOLEAN, RecvFails(lost),
             pc' \in {"loop", "gone"}, given_up' \in {"no", "recv", given_up}
      PROVE  TypeOK'
  <2>1. received' = <<>> /\ received' \in Seq(Bytes) /\ cut_up' \in BOOLEAN
    BY <1>4 DEF RecvFails, TypeOK
  <2>2. UNCHANGED <<sln, offset, res_len, checking_solution, down, up, checker, sent,
                    posted, cut_down>>
    BY <1>4 DEF RecvFails
  <2> QED BY <1>4, <2>1, <2>2 DEF TypeOK, checker, Locations
<1>5. CASE HelloFails
  BY <1>5, <1>4 DEF HelloFails, Goto, clocks
<1>6. CASE LoopEnds
  <2>1. pc' = "gone" /\ UNCHANGED <<thread, down, up, checker, sent, posted, cut_down,
                                    cut_up, clocks>>
    BY <1>6 DEF LoopEnds, Goto
  <2> QED BY <2>1 DEF TypeOK, thread, checker, clocks, Locations
<1>7. CASE ProcessSolutions
  <2>1. /\ pc' \in {"recv_len", "send"} /\ given_up' = given_up
        /\ sln' \in Solutions \cup {NoMessage} /\ (pc' = "send" => sln' \in Solutions)
        /\ checking_solution' \in Solutions \cup {NoMessage}
        /\ offset' \in Nat /\ UNCHANGED <<received, res_len>>
    BY <1>7 DEF ProcessSolutions, Goto, thread, clocks, TypeOK
  <2>2. UNCHANGED <<down, up, checker, sent, posted, cut_down, cut_up>>
    BY <1>7 DEF ProcessSolutions
  <2> QED BY <2>1, <2>2 DEF TypeOK, checker, Locations
<1>8. CASE SendSolution
  <2>1. sln \in Solutions /\ sln \in Messages
    BY <1>8 DEF SendSolution, TypeOK, Messages
  <2>2. PICK n \in Nat \ {0} : offset' = offset + n /\ down' \in Seq(Bytes)
    BY <1>8, <2>1, SendFacts DEF SendSolution
  <2>3. pc' \in {"send", "recv_len"} /\ sent' \in Seq(Solutions)
    <3>1. sent \in Seq(Solutions) /\ Append(sent, sln) \in Seq(Solutions)
      BY <2>1 DEF TypeOK
    <3>2. sent' = sent \/ sent' = Append(sent, sln)
      BY <1>8, Zenon DEF SendSolution
    <3>3. pc' \in {"send", "recv_len"}
      BY <1>8 DEF SendSolution, Goto
    <3> QED BY <3>1, <3>2, <3>3, Zenon
  <2>4. UNCHANGED <<sln, received, res_len, checking_solution, timers, up, checker,
                    errors, posted, cut_down, cut_up, clocks>>
    BY <1>8 DEF SendSolution
  <2>5. offset' \in Nat
    BY <2>2 DEF TypeOK
  <2> QED BY <2>1, <2>2, <2>3, <2>4, <2>5 DEF TypeOK, checker, clocks, Locations
<1>9. ASSUME SendAgain, pc = "send", pc' \in {"send", "gone"},
             given_up' \in {"send", given_up}
      PROVE  TypeOK'
  <2>1. offset' = 0 /\ cut_down' \in BOOLEAN
    BY <1>9 DEF SendAgain, TypeOK
  <2>2. UNCHANGED <<sln, received, res_len, checking_solution, down, up, checker, sent,
                    posted, cut_up>>
    BY <1>9 DEF SendAgain
  <2> QED BY <1>9, <2>1, <2>2 DEF TypeOK, checker, Locations
<1>10. CASE SendTimeout
  BY <1>10, <1>9 DEF SendTimeout, Goto
<1>11. CASE SendError
  BY <1>11, <1>9 DEF SendError, clocks
<1>12. CASE RecvTimeout
  <2>1. RecvFails(received # <<>>) /\ pc' \in {"loop", "gone"} /\ given_up' \in {"recv", given_up}
    BY <1>12 DEF RecvTimeout, Goto
  <2> QED BY <2>1, <1>4
<1>13. CASE RecvError
  BY <1>13, <1>4 DEF RecvError, Goto, clocks
<1>14. CASE BrokenPacket
  BY <1>14, <1>4 DEF BrokenPacket, Goto, clocks
<1>15. CASE RecvResult
  <2>1. PICK chunk \in Chunks(res_len) :
          /\ Recv(chunk)
          /\ \/ /\ Goto("loop")
                /\ received' = <<>>
                /\ \E s \in Results(received \o chunk) :
                     IF s = NoMessage
                     THEN UNCHANGED <<posted, checking_solution>>
                     ELSE posted' = Append(posted, s) /\ checking_solution' = NoMessage
             \/ received' = received \o chunk /\ UNCHANGED <<pc, posted, checking_solution>>
    BY <1>15 DEF RecvResult
  <2>2. received' \in Seq(Bytes) /\ up' \in Seq(Bytes)
    BY <2>1, RecvTypes DEF TypeOK
  <2>3. \A s \in Results(received \o chunk) : s = NoMessage \/ s \in Messages
    BY DEF Results, Messages
  <2>4. /\ pc' \in {"loop", pc} /\ posted' \in Seq(Messages)
        /\ checking_solution' \in Solutions \cup {NoMessage}
    <3>1. pc' \in {"loop", pc}
      BY <2>1 DEF Goto
    <3>2. \/ UNCHANGED <<posted, checking_solution>>
          \/ \E s \in Messages : posted' = Append(posted, s) /\ checking_solution' = NoMessage
      BY <2>1, <2>3, Zenon
    <3>3. \A s \in Messages : Append(posted, s) \in Seq(Messages)
      BY DEF TypeOK
    <3>4. posted' \in Seq(Messages)
      BY <3>2, <3>3, Zenon DEF TypeOK
    <3>5. checking_solution' \in Solutions \cup {NoMessage}
      BY <3>2, Zenon DEF TypeOK
    <3> QED BY <3>1, <3>4, <3>5
  <2>5. UNCHANGED <<sln, offset, res_len, timers, down, checker, errors, sent, cut_down,
                    cut_up, clocks>>
    BY <1>15 DEF RecvResult
  <2> QED BY <2>2, <2>4, <2>5 DEF TypeOK, checker, clocks, Locations
<1>16. CASE CheckerReads
  <2>1. PICK b \in Seq(Bytes), m \in Messages :
          /\ down' \in Seq(Bytes) /\ answering = NoMessage
          /\ \/ /\ UNCHANGED <<answering, read>>
                /\ got' \in {got, b, <<>>} /\ astray' \in BOOLEAN
             \/ /\ got' = <<>> /\ answering' = m /\ read' = Append(read, m)
                /\ UNCHANGED astray
    BY <1>16, ReadFacts
  <2>2. UNCHANGED <<pc, thread, timers, up, answered_bytes, answered, errors, sent,
                    posted, cut_down, cut_up, clocks>>
    BY <1>16 DEF CheckerReads
  <2>3. /\ got' \in Seq(Bytes) /\ answering' \in Messages \cup {NoMessage}
        /\ read' \in Seq(Messages) /\ astray' \in BOOLEAN
    <3>1. Append(read, m) \in Seq(Messages) /\ <<>> \in Seq(Bytes)
      BY DEF TypeOK
    <3> QED BY <2>1, <3>1, Zenon DEF TypeOK
  <2> QED BY <2>1, <2>2, <2>3 DEF TypeOK, thread, clocks
<1>17. CASE CheckerAnswers
  <2>1. PICK n \in Nat \ {0} :
          /\ answering \in Messages
          /\ up' \in Seq(Bytes)
          /\ \/ /\ answered' = Append(answered, answering)
                /\ answering' = NoMessage /\ answered_bytes' = 0
             \/ /\ answered_bytes' = answered_bytes + n
                /\ UNCHANGED <<answered, answering>>
    BY <1>17, AnswerFacts
  <2>2. UNCHANGED <<pc, thread, timers, down, got, astray, read, errors, sent, posted,
                    cut_down, cut_up, clocks>>
    BY <1>17 DEF CheckerAnswers
  <2>3. /\ answered' \in Seq(Messages) /\ answering' \in Messages \cup {NoMessage}
        /\ answered_bytes' \in Nat
    <3>1. Append(answered, answering) \in Seq(Messages) /\ answered_bytes + n \in Nat /\ 0 \in Nat
      BY <2>1 DEF TypeOK
    <3> QED BY <2>1, <3>1, Zenon DEF TypeOK
  <2> QED BY <2>1, <2>2, <2>3 DEF TypeOK, thread, clocks
<1>18. CASE UNCHANGED vars
  BY <1>18 DEF vars, TypeOK, thread, checker, clocks
<1> QED BY <1>1, <1>2, <1>3, <1>5, <1>6, <1>7, <1>8, <1>10, <1>11, <1>12, <1>13, <1>14,
           <1>15, <1>16, <1>17, <1>18 DEF Next, client_loop

LEMMA TypeInit == Init => TypeOK
<1> SUFFICES ASSUME Init PROVE TypeOK
  OBVIOUS
<1>1. /\ <<>> \in Seq(Bytes) /\ <<>> \in Seq(Messages) /\ <<>> \in Seq(Solutions) /\ 0 \in Nat
      /\ "welcome" \in Locations /\ "welcome" # "send"
  BY DEF Locations
<1> QED BY <1>1, Zenon DEF Init, TypeOK

(* Every variable of a session has its type, whatever arrives on the socket *)
(* and however it is cut up: no delay goes below zero, no buffer holds      *)
(* anything but bytes (server.c:88-283, utils.c:7-30).                      *)
THEOREM SessionTypes == Spec => []TypeOK
  BY TypeInit, TypeStep, PTL DEF Spec
-----------------------------------------------------------------------------
(* The timers.                                                              *)

(* No step lets the delays and the seconds of timeouts part company.        *)
LEMMA PatienceStep ==
  ASSUME TypeOK, Patience, [Next]_vars
  PROVE  Patience'
<1>0. /\ RECV_TIMEOUT_SEC \in Nat \ {0} /\ RECV_MAX_TIMEOUT \in Nat \ {0}
      /\ SEND_TIMEOUT_SEC \in Nat \ {0} /\ SEND_MAX_TIMEOUT \in Nat \ {0}
  BY TimersAssumption
<1>1. ASSUME UNCHANGED <<timers, clocks>>, pc # "gone" \/ pc' = pc
      PROVE  Patience'
  <2>1. UNCHANGED <<last_recv_delay, last_send_delay, stalled, waited, slow_send,
                    slow_recv, given_up>>
    BY <1>1 DEF timers, clocks
  <2>2. given_up' # "no" => pc' = "gone"
    BY <1>1, <2>1 DEF Patience
  <2> QED BY <2>1, <2>2 DEF Patience
<1>2. CASE ProcessSolutions
  <2>1. pc = "loop" /\ UNCHANGED timers
    BY <1>2 DEF ProcessSolutions
  <2>2. CASE UNCHANGED clocks
    BY <2>1, <2>2, <1>1
  <2>3. CASE /\ slow_send' = (slow_send \/ stalled > 0) /\ stalled' = 0
             /\ slow_recv' = (slow_recv \/ waited > 0) /\ waited' = 0
             /\ UNCHANGED given_up
    <3>1. given_up = "no" /\ given_up' = "no"
      BY <2>1, <2>3 DEF Patience
    <3>2. slow_send' \in BOOLEAN /\ slow_recv' \in BOOLEAN
      BY <2>3, Zenon
    <3>3. slow_recv' = FALSE => slow_recv = FALSE /\ ~(waited > 0)
      BY <2>3, Zenon DEF Patience
    <3>4. slow_send' = FALSE => slow_send = FALSE /\ ~(stalled > 0)
      BY <2>3, Zenon DEF Patience
    <3>5. /\ last_recv_delay' = last_recv_delay /\ last_send_delay' = last_send_delay
          /\ stalled' = 0 /\ waited' = 0
      BY <2>1, <2>3 DEF timers
    <3>6. slow_recv' = FALSE => waited' = last_recv_delay'
      BY <3>3, <3>5 DEF Patience
    <3>7. slow_send' = FALSE => stalled' = last_send_delay'
      BY <3>1, <3>4, <3>5 DEF Patience
    <3> QED BY <3>1, <3>2, <3>5, <3>6, <3>7 DEF Patience
  <2> QED BY <1>2, <2>2, <2>3 DEF ProcessSolutions
<1>3. CASE SendTimeout
  <2>1. /\ pc = "send" /\ last_send_delay' = last_send_delay + SEND_TIMEOUT_SEC
        /\ UNCHANGED <<last_recv_delay, waited, slow_send, slow_recv>>
        /\ IF last_send_delay' >= SEND_MAX_TIMEOUT
           THEN pc' = "gone" /\ given_up' = "send"
           ELSE UNCHANGED <<pc, given_up>>
    BY <1>3 DEF SendTimeout, SendDelay, Goto
  <2>2. given_up = "no"
    BY <2>1 DEF Patience
  <2>3. /\ stalled' \in Nat
        /\ stalled + SEND_TIMEOUT_SEC >= SEND_MAX_TIMEOUT => stalled' = SEND_MAX_TIMEOUT
        /\ stalled + SEND_TIMEOUT_SEC < SEND_MAX_TIMEOUT => stalled' = stalled + SEND_TIMEOUT_SEC
    <3>1. stalled \in Nat /\ stalled' = Min({stalled + SEND_TIMEOUT_SEC, SEND_MAX_TIMEOUT})
      BY <1>3 DEF SendTimeout, Patience
    <3>2. \A a, b \in Nat : LET c == Min({a, b})
                           IN  c \in Nat /\ (a >= b => c = b) /\ (a < b => c = a)
      <4> SUFFICES ASSUME NEW a \in Nat, NEW b \in Nat
                   PROVE  LET c == Min({a, b})
                          IN  c \in Nat /\ (a >= b => c = b) /\ (a < b => c = a)
        OBVIOUS
      <4>1. \E c \in {a, b} : \A d \in {a, b} : c <= d
        OBVIOUS
      <4>2. Min({a, b}) \in {a, b} /\ \A d \in {a, b} : Min({a, b}) <= d
        BY <4>1 DEF Min
      <4> QED BY <4>2
    <3> QED BY <3>1, <3>2, <1>0
  <2>4. CASE last_send_delay' >= SEND_MAX_TIMEOUT
    <3>1. pc' = "gone" /\ given_up' = "send"
      BY <2>1, <2>4
    <3>2. slow_send' = FALSE => stalled' >= SEND_MAX_TIMEOUT
      BY <2>1, <2>2, <2>3, <2>4, <1>0 DEF Patience
    <3> QED BY <3>1, <3>2, <2>1, <2>3, <1>0 DEF Patience
  <2>5. CASE ~(last_send_delay' >= SEND_MAX_TIMEOUT)
    <3>1. pc' = pc /\ given_up' = "no"
      BY <2>1, <2>2, <2>5
    <3>2. /\ stalled <= last_send_delay /\ stalled \in Nat /\ last_send_delay \in Nat
          /\ last_send_delay + SEND_TIMEOUT_SEC < SEND_MAX_TIMEOUT
      BY <2>1, <2>2, <2>5, <1>0 DEF Patience
    <3>3. stalled' = stalled + SEND_TIMEOUT_SEC
      BY <3>2, <2>3, <1>0
    <3> QED BY <3>1, <3>2, <3>3, <2>1, <2>2, <2>3, <1>0 DEF Patience
  <2> QED BY <2>4, <2>5
<1>4. CASE RecvTimeout
  <2>1. pc = "recv_len" /\ UNCHANGED <<last_send_delay, stalled, slow_send>>
    BY <1>4 DEF RecvTimeout
  <2>2. given_up = "no"
    BY <2>1 DEF Patience
  <2>3. CASE /\ last_recv_delay' = last_recv_delay + RECV_TIMEOUT_SEC
             /\ waited' = waited + RECV_TIMEOUT_SEC
             /\ IF last_recv_delay' >= RECV_MAX_TIMEOUT THEN pc' = "gone" /\ given_up' = "recv"
                                                        ELSE pc' = "loop" /\ UNCHANGED given_up
             /\ UNCHANGED slow_recv
    BY <2>1, <2>2, <2>3, <1>0 DEF Patience
  <2>4. CASE /\ last_recv_delay' = 0
             /\ waited' = 0 /\ slow_recv' = FALSE
             /\ pc' = "loop" /\ UNCHANGED given_up
    <3>1. last_recv_delay' \in Nat /\ waited' \in Nat /\ given_up' = "no"
      BY <2>2, <2>4
    <3>2. waited' <= last_recv_delay' /\ last_recv_delay' < RECV_MAX_TIMEOUT
      BY <2>4, <1>0
    <3>3. slow_recv' \in BOOLEAN /\ waited' = last_recv_delay'
      BY <2>4, Zenon
    <3> QED BY <2>1, <2>2, <3>1, <3>2, <3>3, Zenon DEF Patience
  <2> QED BY <1>4, <2>3, <2>4 DEF RecvTimeout, Hung, Goto
<1>5. CASE SendWelcome
  BY <1>5, <1>1 DEF SendWelcome, clocks
<1>6. ASSUME NEW from \in {"hello_len", "recv_len"}, NEW to, RecvLength(from, to)
      PROVE  Patience'
  BY <1>6, <1>1 DEF RecvLength
<1>7. CASE RecvHello
  BY <1>7, <1>1 DEF RecvHello
<1>8. CASE HelloFails
  BY <1>8, <1>1 DEF HelloFails
<1>9. CASE LoopEnds
  BY <1>9, <1>1 DEF LoopEnds
<1>10. CASE SendSolution
  BY <1>10, <1>1 DEF SendSolution
<1>11. CASE SendError
  BY <1>11, <1>1 DEF SendError
<1>12. CASE RecvError
  BY <1>12, <1>1 DEF RecvError
<1>13. CASE BrokenPacket
  BY <1>13, <1>1 DEF BrokenPacket
<1>14. CASE RecvResult
  BY <1>14, <1>1 DEF RecvResult
<1>15. CASE CheckerReads
  BY <1>15, <1>1 DEF CheckerReads
<1>16. CASE CheckerAnswers
  BY <1>16, <1>1 DEF CheckerAnswers
<1>17. CASE UNCHANGED vars
  BY <1>17, <1>1 DEF vars
<1> QED BY <1>2, <1>3, <1>4, <1>5, <1>6, <1>7, <1>8, <1>9, <1>10, <1>11, <1>12, <1>13,
           <1>14, <1>15, <1>16, <1>17 DEF Next, client_loop

LEMMA PatienceInit == Init => Patience
<1> SUFFICES ASSUME Init PROVE Patience
  OBVIOUS
<1>1. /\ 0 \in Nat /\ 0 <= 0 /\ 0 < RECV_MAX_TIMEOUT /\ 0 < SEND_MAX_TIMEOUT
      /\ "no" # "recv" /\ "no" # "send"
  BY TimersAssumption
<1> QED BY <1>1, Zenon DEF Init, Patience

LEMMA PatienceImplies == TypeOK /\ Patience => FullPatience
  BY TimersAssumption DEF TypeOK, Patience, FullPatience

(* A checker is never waited for longer than RECV_MAX_TIMEOUT or            *)
(* SEND_MAX_TIMEOUT, and one that made no earlier call time out gets all of *)
(* that time (server.c:181, 188, 270), for every value of the four timeouts.*)
THEOREM CheckersGetTheirTime == Spec => []FullPatience
<1>1. Init => TypeOK /\ Patience
  BY TypeInit, PatienceInit
<1>2. TypeOK /\ Patience /\ [Next]_vars => (TypeOK /\ Patience)'
  BY TypeStep, PatienceStep
<1> QED BY <1>1, <1>2, PatienceImplies, PTL DEF Spec
-----------------------------------------------------------------------------
(* The sender: a solution is sent once.                                     *)

LEMMA SendingStep ==
  ASSUME TypeOK, Sending, [Next]_vars
  PROVE  Sending'
<1>1. ASSUME UNCHANGED <<sln, sent>>, pc \notin {"welcome", "send", "gone"},
             pc' \notin {"welcome", "send"}, given_up' \in {given_up, "recv"},
             pc' \in Handshake => pc \in Handshake /\ UNCHANGED posted
      PROVE  Sending'
  <2>1. given_up # "send" /\ given_up' # "send"
    BY <1>1 DEF Sending
  <2>2. ~Unsent /\ ~Unsent'
    BY <1>1, <2>1 DEF Unsent
  <2>3. pc' \in Handshake => sent' = <<>> /\ posted' = <<>> /\ sln' = NoMessage
    BY <1>1 DEF Sending
  <2>4. (sln' = NoMessage \/ Contains(sent', sln')) /\ Distinct(sent')
    BY <1>1, <2>2 DEF Sending
  <2> QED BY <1>1, <2>1, <2>2, <2>3, <2>4 DEF Sending
<1>2. ASSUME UNCHANGED <<pc, sln, sent, posted, given_up>>, offset' = offset \/ offset' = 0
      PROVE  Sending'
  <2>1. Unsent' = Unsent /\ Contains(sent', sln') = Contains(sent, sln)
    BY <1>2 DEF Unsent
  <2>2. pc = "send" => sln \in Messages
    BY DEF TypeOK, Messages
  <2>3. Welcome \in Messages /\ Total(Welcome) > 0 /\ (pc = "send" => Total(sln) > 0)
    BY <2>2, Totals DEF Messages
  <2>4. (pc' = "welcome" => offset' < Total(Welcome)) /\ (pc' = "send" => offset' < Total(sln))
    BY <1>2, <2>3 DEF Sending
  <2>5. Distinct(sent')
    BY <1>2 DEF Sending
  <2>6. (pc' = "send" => offset' < Total(sln'))
    BY <1>2, <2>4
  <2> QED BY <1>2, <2>1, <2>4, <2>5, <2>6 DEF Sending
<1>3. CASE SendWelcome
  <2>1. /\ pc = "welcome" /\ pc' \in {"welcome", "hello_len"} /\ UNCHANGED <<sln, sent, posted, given_up>>
        /\ \/ SendSome(Welcome) /\ (pc' = "hello_len" \/ offset' # Total(Welcome))
           \/ pc' = "hello_len"
    BY <1>3 DEF SendWelcome, Goto, clocks, Complete
  <2>2. pc' = "welcome" => offset' < Total(Welcome)
    <3> SUFFICES ASSUME pc' = "welcome" PROVE offset' < Total(Welcome)
      OBVIOUS
    <3>1. SendSome(Welcome) /\ offset' # Total(Welcome) /\ Welcome \in Messages
      BY <2>1 DEF Messages
    <3>2. PICK n \in Nat : offset + n <= Total(Welcome) /\ offset' = offset + n
      BY <3>1, SendFacts
    <3>3. offset' \in Int /\ Total(Welcome) \in Int /\ offset' <= Total(Welcome)
      BY <3>1, <3>2, Totals DEF TypeOK
    <3> QED BY <3>1, <3>3, AtMost
  <2>3. given_up # "send" /\ ~Unsent /\ ~Unsent' /\ pc' # "send" /\ given_up' # "send"
    BY <2>1 DEF Sending, Unsent
  <2>4. sent' = <<>> /\ posted' = <<>> /\ sln' = NoMessage /\ Distinct(sent')
    BY <2>1 DEF Sending, Handshake
  <2> QED BY <2>2, <2>3, <2>4 DEF Sending
<1>4. CASE ProcessSolutions
  <2>1. pc = "loop" /\ UNCHANGED <<sent, posted, given_up>>
    BY <1>4 DEF ProcessSolutions, clocks
  <2>2. CASE pc' = "recv_len" /\ UNCHANGED thread
    BY <2>1, <2>2, <1>1 DEF thread, Handshake
  <2>3. ASSUME NEW s \in Solutions \ {sent[i] : i \in DOMAIN sent}, sln' = s, offset' = 0,
               pc' = "send"
        PROVE  Sending'
    <3>1. sent \in Seq(Solutions) /\ DOMAIN sent = 1..Len(sent)
      BY DEF TypeOK
    <3>2. ~Contains(sent, s)
      BY <3>1, <2>3, Zenon DEF Contains
    <3>3. s # NoMessage /\ s \in Messages
      BY MessagesAssumption DEF Messages
    <3>4. 0 < Total(s)
      BY <3>3, Totals
    <3>5. given_up' # "send" /\ Distinct(sent')
      BY <2>1 DEF Sending
    <3> QED BY <2>1, <2>3, <3>2, <3>3, <3>4, <3>5 DEF Sending, Unsent, Handshake
  <2> QED BY <1>4, <2>2, <2>3 DEF ProcessSolutions, Goto
<1>5. CASE SendSolution
  <2>1. /\ pc = "send" /\ SendSome(sln) /\ UNCHANGED <<sln, posted, given_up>>
        /\ \/ pc' = "recv_len" /\ sent' = Append(sent, sln)
           \/ offset' # Total(sln) /\ UNCHANGED <<pc, sent>>
    BY <1>5 DEF SendSolution, Goto, clocks, Complete
  <2>2. sln \in Solutions /\ sln \in Messages /\ sent \in Seq(Solutions)
    BY <2>1 DEF TypeOK, Messages
  <2>3. ~Contains(sent, sln) /\ Distinct(sent) /\ given_up # "send"
    BY <2>1 DEF Sending, Unsent
  <2>4. CASE pc' = "recv_len" /\ sent' = Append(sent, sln)
    <3>1. Contains(sent', sln') /\ Distinct(sent')
      BY <2>1, <2>2, <2>3, <2>4, ContainsAppend, DistinctAppend
    <3> QED BY <3>1, <2>1, <2>3, <2>4 DEF Sending, Unsent, Handshake
  <2>5. CASE offset' # Total(sln) /\ UNCHANGED <<pc, sent>>
    <3>1. PICK n \in Nat : offset + n <= Total(sln) /\ offset' = offset + n
      BY <2>1, <2>2, SendFacts
    <3>2. offset' \in Int /\ Total(sln) \in Int /\ offset' <= Total(sln)
      BY <3>1, <2>2, Totals DEF TypeOK
    <3>3. offset' < Total(sln)
      BY <2>5, <3>2, AtMost
    <3>4. offset' < Total(sln') /\ ~Contains(sent', sln') /\ Distinct(sent') /\ sln' # NoMessage
      BY <3>3, <2>1, <2>2, <2>3, <2>5, MessagesAssumption DEF Messages
    <3> QED BY <3>4, <2>1, <2>3, <2>5 DEF Sending, Unsent, Handshake
  <2> QED BY <2>1, <2>4, <2>5
<1>6. CASE SendTimeout
  <2>1. /\ pc = "send" /\ offset' = 0 /\ UNCHANGED <<sln, sent, posted>>
        /\ \/ pc' = "gone" /\ given_up' = "send"
           \/ UNCHANGED <<pc, given_up>>
    BY <1>6 DEF SendTimeout, SendAgain, Goto
  <2>2. CASE pc' = "gone" /\ given_up' = "send"
    <3>1. sln' # NoMessage /\ ~Contains(sent', sln') /\ Distinct(sent')
      BY <2>1 DEF Sending, Unsent
    <3> QED BY <3>1, <2>1, <2>2 DEF Sending, Unsent, Handshake
  <2> QED BY <2>1, <2>2, <1>2
<1>7. CASE SendError
  <2>1. UNCHANGED <<pc, sln, sent, posted, given_up>> /\ offset' = 0
    BY <1>7 DEF SendError, SendAgain, clocks
  <2> QED BY <2>1, <1>2
<1>8. CASE RecvLength("hello_len", "hello_pkt")
  <2>1. /\ UNCHANGED <<sln, sent, posted, given_up>> /\ pc = "hello_len"
        /\ pc' \in {"hello_len", "hello_pkt"}
    BY <1>8 DEF RecvLength, Goto, clocks
  <2> QED BY <2>1, <1>1 DEF Handshake
<1>9. CASE RecvLength("recv_len", "recv_pkt")
  <2>1. /\ UNCHANGED <<sln, sent, posted, given_up>> /\ pc = "recv_len"
        /\ pc' \in {"recv_len", "recv_pkt"}
    BY <1>9 DEF RecvLength, Goto, clocks
  <2> QED BY <2>1, <1>1 DEF Handshake
<1>10. CASE RecvHello
  <2>1. /\ UNCHANGED <<sln, sent, posted, given_up>> /\ pc = "hello_pkt"
        /\ pc' \in {"hello_pkt", "loop", "gone"}
    BY <1>10 DEF RecvHello, clocks
  <2> QED BY <2>1, <1>1 DEF Handshake
<1>11. CASE HelloFails
  <2>1. /\ UNCHANGED <<sln, sent, posted, given_up>> /\ pc \in {"hello_len", "hello_pkt"}
        /\ pc' = "gone"
    BY <1>11 DEF HelloFails, RecvFails, Goto, clocks
  <2> QED BY <2>1, <1>1 DEF Handshake
<1>12. CASE LoopEnds
  <2>1. UNCHANGED <<sln, sent, posted, given_up>> /\ pc = "loop" /\ pc' = "gone"
    BY <1>12 DEF LoopEnds, Goto, clocks, thread
  <2> QED BY <2>1, <1>1 DEF Handshake
<1>13. CASE RecvTimeout
  <2>1. /\ UNCHANGED <<sln, sent, posted>> /\ given_up' \in {given_up, "recv"}
        /\ pc = "recv_len" /\ pc' \in {"loop", "gone"}
    BY <1>13 DEF RecvTimeout, RecvFails, Goto
  <2> QED BY <2>1, <1>1 DEF Handshake
<1>14. CASE RecvError
  <2>1. UNCHANGED <<sln, sent, posted, given_up>> /\ pc = "recv_len" /\ pc' = "loop"
    BY <1>14 DEF RecvError, RecvFails, Goto, clocks
  <2> QED BY <2>1, <1>1 DEF Handshake
<1>15. CASE BrokenPacket
  <2>1. UNCHANGED <<sln, sent, posted, given_up>> /\ pc = "recv_pkt" /\ pc' = "loop"
    BY <1>15 DEF BrokenPacket, RecvFails, Goto, clocks
  <2> QED BY <2>1, <1>1 DEF Handshake
<1>16. CASE RecvResult
  <2>1. UNCHANGED <<sln, sent, given_up>> /\ pc = "recv_pkt" /\ pc' \in {"loop", "recv_pkt"}
    BY <1>16 DEF RecvResult, Goto, clocks
  <2> QED BY <2>1, <1>1 DEF Handshake
<1>17. CASE CheckerReads
  BY <1>17, <1>2 DEF CheckerReads, thread, clocks
<1>18. CASE CheckerAnswers
  BY <1>18, <1>2 DEF CheckerAnswers, thread, clocks
<1>19. CASE UNCHANGED vars
  BY <1>19, <1>2 DEF vars, thread, clocks
<1> QED BY <1>3, <1>4, <1>5, <1>6, <1>7, <1>8, <1>9, <1>10, <1>11, <1>12, <1>13, <1>14,
           <1>15, <1>16, <1>17, <1>18, <1>19 DEF Next, client_loop

LEMMA SendingInit == Init => Sending
<1> SUFFICES ASSUME Init PROVE Sending
  OBVIOUS
<1>1. Welcome \in Messages /\ 0 < Total(Welcome)
  BY Totals DEF Messages
<1>2. Distinct(<<>>)
  BY DEF Distinct
<1> QED BY <1>1, <1>2 DEF Init, Sending, Unsent
-----------------------------------------------------------------------------
(* The checker.                                                             *)

LEMMA AnsweringStep ==
  ASSUME TypeOK, Answering, [Next]_vars
  PROVE  Answering'
<1>0. AnswerLength \in Nat
  BY LengthsAssumption
<1>1. CASE CheckerReads
  <2>1. PICK m \in Messages :
          /\ answering = NoMessage
          /\ \/ UNCHANGED <<answering, read>>
             \/ answering' = m /\ read' = Append(read, m)
    BY <1>1, ReadFacts
  <2>2. UNCHANGED <<answered_bytes, answered>>
    BY <1>1 DEF CheckerReads
  <2>3. read = answered /\ answered_bytes = 0 /\ m # NoMessage /\ 0 < 2 + AnswerLength
    BY <2>1, <1>0, MessagesAssumption DEF Answering
  <2> QED BY <2>1, <2>2, <2>3 DEF Answering
<1>2. CASE CheckerAnswers
  <2>1. PICK n \in Nat \ {0} :
          /\ answering \in Messages
          /\ \/ /\ answered' = Append(answered, answering)
                /\ answering' = NoMessage /\ answered_bytes' = 0
             \/ /\ answered_bytes + n < 2 + AnswerLength
                /\ answered_bytes' = answered_bytes + n
                /\ UNCHANGED <<answered, answering>>
    BY <1>2, AnswerFacts
  <2>2. read' = read /\ answering # NoMessage
    BY <1>2 DEF CheckerAnswers
  <2> QED BY <2>1, <2>2 DEF Answering
<1>3. CASE UNCHANGED checker
  BY <1>3 DEF checker, Answering
<1>4. CASE client_loop
  BY <1>4, <1>3 DEF client_loop, SendWelcome, RecvLength, RecvHello, HelloFails, RecvFails,
    LoopEnds, ProcessSolutions, SendSolution, SendTimeout, SendAgain, SendError, RecvTimeout,
    RecvError, BrokenPacket, RecvResult
<1>5. CASE UNCHANGED vars
  BY <1>5, <1>3 DEF vars
<1> QED BY <1>1, <1>2, <1>4, <1>5 DEF Next

LEMMA AnsweringInit == Init => Answering
  BY DEF Init, Answering
-----------------------------------------------------------------------------
(* A packet is read once, even if a timeout has cut it before.              *)

LEMMA SentGrows ==
  ASSUME TypeOK, [Next]_vars
  PROVE  /\ pc' = "welcome" => pc = "welcome"
         /\ sent' = sent \/ (sln \in Solutions /\ sent' = Append(sent, sln))
<1>1. CASE SendSolution
  BY <1>1 DEF SendSolution, TypeOK, Goto
<1>2. CASE UNCHANGED <<pc, sent>>
  BY <1>2
<1>3. CASE client_loop /\ ~SendSolution
  BY <1>3 DEF client_loop, SendWelcome, RecvLength, RecvHello, HelloFails, RecvFails, Goto,
    LoopEnds, ProcessSolutions, SendTimeout, SendAgain, SendError, RecvTimeout,
    RecvError, BrokenPacket, RecvResult
<1> QED BY <1>1, <1>2, <1>3 DEF Next, CheckerReads, CheckerAnswers, vars

LEMMA WasSentStays ==
  ASSUME TypeOK, [Next]_vars, NEW m \in Messages, WasSent(m)
  PROVE  WasSent(m)'
<1>1. sent \in Seq(Solutions)
  BY DEF TypeOK
<1>2. CASE m = Welcome
  BY <1>2, SentGrows DEF WasSent
<1>3. CASE m # Welcome
  <2>1. Contains(sent, m)
    BY <1>3 DEF WasSent
  <2>2. Contains(sent', m)
    <3>1. sent' = sent \/ (sln \in Solutions /\ sent' = Append(sent, sln))
      BY SentGrows
    <3>2. ASSUME sln \in Solutions PROVE Contains(Append(sent, sln), m)
      BY <2>1, <1>1, <3>2, ContainsAppend, Zenon
    <3> QED BY <2>1, <3>1, <3>2, Zenon
  <2> QED BY <1>3, <2>2 DEF WasSent
<1> QED BY <1>2, <1>3

(* Sending more of a packet that was not sent yet.                          *)
LEMMA OnceSends ==
  ASSUME TypeOK, Once, [Next]_vars, NEW m \in Messages, ~WasSent(m), SendSome(m),
         read' = read, offset' = Total(m) => WasSent(m)'
  PROVE  Once'
<1>1. down \in Seq(Bytes) /\ read \in Seq(Messages) /\ offset \in Nat /\ Total(m) \in Nat
  BY Totals DEF TypeOK
<1>2. PICK s \in Nat : s = Len(down)
  BY <1>1
<1>3. PICK n \in Nat \ {0} :
        /\ offset + n <= Total(m) /\ offset' = offset + n
        /\ down' \in Seq(Bytes) /\ Len(down') = s + n
        /\ \A j \in 1..s : down'[j] = down[j]
        /\ \A l \in 1..n : down'[s + l] = <<m, offset + l>>
  BY <1>2, SendFacts
<1>4. \A j \in 1..(s + n) : j \in 1..s \/ \E l \in 1..n : j = s + l
  <2> SUFFICES ASSUME NEW j \in 1..(s + n), j > s PROVE \E l \in 1..n : j = s + l
    BY <1>3
  <2>1. j - s \in 1..n /\ j = s + (j - s)
    BY <1>3
  <2> QED BY <2>1
<1>5. \A l \in 1..n : offset + l = Total(m) => l = n /\ offset' = Total(m)
  BY <1>1, <1>3
<1>6. \A i \in 1..Len(read) : read[i] # m
  BY DEF Once
<1>7. ASSUME NEW j \in 1..Len(down'), down'[j][2] = Total(down'[j][1])
      PROVE  \/ j \in 1..s /\ down'[j] = down[j] /\ down[j][1] # m
             \/ j = s + n /\ down'[j] = <<m, Total(m)>> /\ WasSent(m)'
  <2>1. CASE j \in 1..s
    <3>1. down'[j] = down[j] /\ j \in 1..Len(down)
      BY <2>1, <1>2, <1>3
    <3>2. WasSent(down[j][1])
      BY <3>1, <1>7 DEF Once
    <3> QED BY <2>1, <3>1, <3>2
  <2>2. ASSUME NEW l \in 1..n, j = s + l
        PROVE  j = s + n /\ down'[j] = <<m, Total(m)>> /\ WasSent(m)'
    <3>1. down'[j] = <<m, offset + l>>
      BY <2>2, <1>3
    <3>2. down'[j][1] = m /\ down'[j][2] = offset + l
      BY <3>1
    <3>3. offset + l = Total(m)
      BY <3>2, <1>7
    <3>4. l = n /\ offset' = Total(m)
      BY <3>3, <1>5
    <3> QED BY <3>1, <3>3, <3>4, <2>2
  <2> QED BY <2>1, <2>2, <1>3, <1>4
<1>8. ASSUME NEW j \in 1..Len(down'), NEW l \in 1..Len(down'), down'[j][1] = down'[l][1],
             down'[j][2] = Total(down'[j][1]), down'[l][2] = Total(down'[l][1])
      PROVE  j = l
  <2>2. \/ j \in 1..s /\ down'[j] = down[j] /\ down[j][1] # m
        \/ j = s + n /\ down'[j] = <<m, Total(m)>>
    BY <1>7, <1>8
  <2>3. \/ l \in 1..s /\ down'[l] = down[l] /\ down[l][1] # m
        \/ l = s + n /\ down'[l] = <<m, Total(m)>>
    BY <1>7, <1>8
  <2>4. CASE j \in 1..s /\ l \in 1..s
    BY <2>4, <1>2, <1>3, <1>8 DEF Once
  <2>5. <<m, Total(m)>>[1] = m
    OBVIOUS
  <2> QED BY <2>2, <2>3, <2>4, <2>5, <1>8
<1>9. ASSUME NEW j \in 1..Len(down'), down'[j][2] = Total(down'[j][1])
      PROVE  WasSent(down[j][1])' /\ ~Contains(read', down'[j][1])
  <2>1. CASE j \in 1..s /\ down'[j] = down[j] /\ down[j][1] # m
    <3>1. down[j][1] \in Messages /\ j \in 1..Len(down) /\ down[j][2] = Total(down[j][1])
      BY <2>1, <1>1, <1>2, <1>9 DEF Bytes
    <3>2. WasSent(down[j][1]) /\ ~Contains(read, down[j][1])
      BY <3>1 DEF Once
    <3>3. PICK k \in Messages : k = down[j][1] /\ k = down'[j][1]
      BY <3>1, <2>1
    <3>4. WasSent(k)'
      BY <3>2, <3>3, WasSentStays
    <3>5. WasSent(down[j][1])'
      BY <3>3, <3>4 DEF WasSent
    <3> QED BY <3>2, <3>3, <3>5
  <2>2. CASE j = s + n /\ down'[j] = <<m, Total(m)>> /\ WasSent(m)'
    <3>1. down'[j][1] = m
      BY <2>2
    <3>2. ~Contains(read, m)
      BY <1>6 DEF Contains
    <3>3. WasSent(down[j][1])'
      BY <3>1, <2>2 DEF WasSent
    <3> QED BY <3>1, <3>2, <3>3
  <2> QED BY <2>1, <2>2, <1>7, <1>9
<1>10. \A i \in 1..Len(read') : WasSent(read[i])'
  <2> SUFFICES ASSUME NEW i \in 1..Len(read) PROVE WasSent(read[i])'
    OBVIOUS
  <2>1. read[i] \in Messages /\ WasSent(read[i])
    BY <1>1 DEF Once
  <2>2. PICK k \in Messages : k = read[i] /\ k = read'[i]
    BY <2>1
  <2>3. WasSent(k)'
    BY <2>1, <2>2, WasSentStays
  <2> QED BY <2>2, <2>3 DEF WasSent
<1>11. Distinct(read')
  BY DEF Once
<1> QED BY <1>8, <1>9, <1>10, <1>11 DEF Once

LEMMA OnceStep ==
  ASSUME TypeOK, Sending, Once, [Next]_vars
  PROVE  Once'
<1>1. down \in Seq(Bytes) /\ read \in Seq(Messages)
  BY DEF TypeOK
<1>2. ASSUME UNCHANGED <<down, read>> PROVE Once'
  <2>1. ASSUME NEW j \in 1..Len(down), down[j][2] = Total(down[j][1])
        PROVE  WasSent(down[j][1])' /\ ~Contains(read', down'[j][1])
    <3>1. down[j][1] \in Messages
      BY <1>1 DEF Bytes
    <3>2. WasSent(down[j][1]) /\ ~Contains(read, down[j][1])
      BY <2>1 DEF Once
    <3>3. PICK k \in Messages : k = down[j][1] /\ k = down'[j][1]
      BY <3>1, <1>2
    <3>4. WasSent(k)'
      BY <3>2, <3>3, WasSentStays
    <3> QED BY <3>2, <3>3, <3>4, <1>2 DEF WasSent
  <2>2. \A i \in 1..Len(read') : WasSent(read[i])'
    <3> SUFFICES ASSUME NEW i \in 1..Len(read) PROVE WasSent(read[i])'
      BY <1>2
    <3>1. read[i] \in Messages /\ WasSent(read[i])
      BY <1>1 DEF Once
    <3>2. PICK k \in Messages : k = read[i] /\ k = read'[i]
      BY <3>1, <1>2
    <3>3. WasSent(k)'
      BY <3>1, <3>2, WasSentStays
    <3> QED BY <3>2, <3>3 DEF WasSent
  <2>3. \A j, l \in 1..Len(down') :
          /\ down'[j][1] = down'[l][1]
          /\ down'[j][2] = Total(down'[j][1]) /\ down'[l][2] = Total(down'[l][1])
          => j = l
    BY <1>2 DEF Once
  <2>4. Distinct(read')
    BY <1>2 DEF Once
  <2>5. \A j \in 1..Len(down') :
          down'[j][2] = Total(down'[j][1])
          => WasSent(down[j][1])' /\ ~Contains(read', down'[j][1])
    BY <2>1, <1>2
  <2> QED BY <2>2, <2>3, <2>4, <2>5 DEF Once
<1>3. CASE SendWelcome
  <2>1. read' = read /\ pc = "welcome"
    BY <1>3 DEF SendWelcome, checker
  <2>2. CASE UNCHANGED down
    BY <2>1, <2>2, <1>2
  <2>3. CASE SendSome(Welcome) /\ (pc' = "hello_len" \/ offset' # Total(Welcome))
    BY <2>1, <2>3, OnceSends DEF WasSent, Messages
  <2> QED BY <1>3, <2>2, <2>3 DEF SendWelcome, Complete, Goto
<1>4. CASE SendSolution
  <2>1. /\ pc = "send" /\ SendSome(sln) /\ read' = read
        /\ \/ sent' = Append(sent, sln)
           \/ offset' # Total(sln)
    BY <1>4 DEF SendSolution, Complete, checker
  <2>2. /\ sln \in Solutions /\ sln \in Messages /\ sent \in Seq(Solutions) /\ sln # Welcome
    BY <2>1, MessagesAssumption DEF TypeOK, Messages
  <2>3. ~WasSent(sln)
    BY <2>1, <2>2 DEF WasSent, Sending, Unsent
  <2>4. PICK m \in Messages : m = sln
    BY <2>2
  <2>5. ASSUME offset' = Total(m) PROVE WasSent(m)'
    <3>0. Contains(Append(sent, sln), sln)
      BY <2>2, ContainsAppend, Zenon
    <3>1. Contains(sent', m)
      BY <3>0, <2>1, <2>4, <2>5
    <3> QED BY <3>1, <2>2, <2>4 DEF WasSent
  <2>6. ~WasSent(m) /\ SendSome(m)
    BY <2>1, <2>3, <2>4
  <2> QED BY <2>1, <2>5, <2>6, OnceSends
<1>5. CASE CheckerReads
  <2>1. PICK m \in Messages :
          /\ down # <<>> /\ down' = Tail(down) /\ down' \in Seq(Bytes)
          /\ \/ read' = read
             \/ down[1] = <<m, Total(m)>> /\ read' = Append(read, m)
    BY <1>5, ReadFacts
  <2>2. UNCHANGED <<pc, sent>>
    BY <1>5 DEF CheckerReads
  <2>3. PICK s \in Nat : s + 1 = Len(down) /\ s = Len(down')
    BY <2>1, <1>1
  <2>4. \A j \in 1..s : down'[j] = down[j + 1] /\ j + 1 \in 1..Len(down)
    BY <2>1, <2>3, <1>1
  <2>5. \A k : WasSent(k)' <=> WasSent(k)
    BY <2>2 DEF WasSent
  <2>6. \A j, l \in 1..s :
          /\ down'[j][1] = down'[l][1]
          /\ down'[j][2] = Total(down'[j][1]) /\ down'[l][2] = Total(down'[l][1])
          => j = l
    <3> SUFFICES ASSUME NEW j \in 1..s, NEW l \in 1..s, down'[j][1] = down'[l][1],
                        down'[j][2] = Total(down'[j][1]), down'[l][2] = Total(down'[l][1])
                 PROVE  j = l
      OBVIOUS
    <3>1. j + 1 = l + 1
      BY <2>4 DEF Once
    <3> QED BY <3>1
  <2>7. \A j \in 1..s : down'[j][2] = Total(down'[j][1])
                       => WasSent(down'[j][1]) /\ ~Contains(read, down'[j][1])
    BY <2>4 DEF Once
  <2>8. CASE read' = read
    <3>1. \A j \in 1..s : down'[j][2] = Total(down'[j][1])
                         => WasSent(down[j][1])' /\ ~Contains(read', down'[j][1])
      BY <2>7, <2>8, <2>5, <2>2 DEF WasSent
    <3>2. \A i \in 1..Len(read') : WasSent(read[i])'
      BY <2>8, <2>2 DEF Once, WasSent
    <3>3. Distinct(read')
      BY <2>8 DEF Once
    <3> QED BY <3>1, <3>2, <3>3, <2>3, <2>6 DEF Once
  <2>9. CASE down[1] = <<m, Total(m)>> /\ read' = Append(read, m)
    <3>1. 1 \in 1..Len(down) /\ down[1][1] = m /\ down[1][2] = Total(m)
      BY <2>3, <2>9
    <3>2. WasSent(m) /\ ~Contains(read, m)
      BY <3>1 DEF Once
    <3>3. Distinct(read')
      BY <3>2, <2>9, <1>1, DistinctAppend DEF Once
    <3>4. \A k : Contains(read', k) <=> Contains(read, k) \/ k = m
      BY <2>9, <1>1, ContainsAppend
    <3>5. \A i \in 1..Len(read') : WasSent(read[i])'
      <4> SUFFICES ASSUME NEW i \in 1..Len(read') PROVE WasSent(read'[i])
        BY <2>2, Zenon DEF WasSent
      <4>1. Contains(read', read'[i])
        BY Zenon DEF Contains
      <4>2. CASE read'[i] = m
        BY <4>2, <3>2
      <4>3. CASE Contains(read, read'[i])
        BY <4>3, Zenon DEF Contains, Once
      <4> QED BY <4>1, <4>2, <4>3, <3>4
    <3>6. ASSUME NEW j \in 1..s, down'[j][2] = Total(down'[j][1]) PROVE down'[j][1] # m
      <4> SUFFICES ASSUME down'[j][1] = m PROVE FALSE
        OBVIOUS
      <4>1. down[j + 1][1] = m /\ down[j + 1][2] = Total(m) /\ j + 1 \in 1..Len(down)
        BY <2>4, <3>6, <1>1
      <4>3. j + 1 = 1
        BY <4>1, <3>1 DEF Once
      <4> QED BY <4>3
    <3>7. \A j \in 1..s : down'[j][2] = Total(down'[j][1])
                         => WasSent(down[j][1])' /\ ~Contains(read', down'[j][1])
      BY <2>7, <2>2, <3>4, <3>6 DEF WasSent
    <3> QED BY <3>3, <3>5, <3>7, <2>3, <2>6 DEF Once
  <2> QED BY <2>1, <2>8, <2>9
<1>6. CASE CheckerAnswers
  BY <1>6, <1>2 DEF CheckerAnswers
<1>7. CASE UNCHANGED vars
  BY <1>7, <1>2 DEF vars, checker
<1>8. CASE client_loop /\ ~SendWelcome /\ ~SendSolution
  BY <1>8, <1>2 DEF client_loop, RecvLength, RecvHello, HelloFails, RecvFails, checker,
    LoopEnds, ProcessSolutions, SendTimeout, SendAgain, SendError, RecvTimeout,
    RecvError, BrokenPacket, RecvResult
<1> QED BY <1>3, <1>4, <1>5, <1>6, <1>7, <1>8 DEF Next

LEMMA OnceInit == Init => Once
  BY DEF Init, Once, Distinct
-----------------------------------------------------------------------------
(* Downstream.                                                              *)

LEMMA DownTotals ==
  /\ DownTotal \in [Messages -> Nat \ {0}]
  /\ \A m \in Messages : DownTotal[m] = Total(m)
<1>1. \A m \in Messages : Total(m) \in Nat \ {0}
  BY Totals
<1> QED BY <1>1 DEF DownTotal

(* The packets are the welcome packet, the solutions that were sent, and    *)
(* the one that is being sent; no message is there twice.                   *)
LEMMA WireFacts ==
  ASSUME TypeOK, Sending
  PROVE  /\ <<Welcome>> \o sent \in Seq(Messages) /\ Len(<<Welcome>> \o sent) = Len(sent) + 1
         /\ Distinct(<<Welcome>> \o sent)
         /\ \A d : Contains(<<Welcome>> \o sent, d) <=> d = Welcome \/ Contains(sent, d)
         /\ (<<Welcome>> \o sent)[1] = Welcome
         /\ Wire \in Seq(Messages) /\ Distinct(Wire)
         /\ Len(Wire) = IF Unsent THEN Len(sent) + 2 ELSE Len(sent) + 1
         /\ \A i \in 1..(Len(sent) + 1) : Wire[i] = (<<Welcome>> \o sent)[i]
         /\ Unsent => Wire[Len(sent) + 2] = sln
         /\ \A i \in 1..Len(Wire) : Wire[i] = Welcome \/ Wire[i] = sln \/ Contains(sent, Wire[i])
<1> DEFINE W == <<Welcome>> \o sent
<1>1. sent \in Seq(Solutions) /\ Len(sent) \in Nat /\ \A i \in 1..Len(sent) : sent[i] \in Solutions
  BY DEF TypeOK
<1>2. sent \in Seq(Messages) /\ <<Welcome>> \in Seq(Messages)
  <2>1. Solutions \subseteq Messages
    BY DEF Messages
  <2>2. Seq(Solutions) \subseteq Seq(Messages)
    BY <2>1, SeqMonotonic, Zenon
  <2>3. Welcome \in Messages
    BY DEF Messages
  <2> QED BY <1>1, <2>2, <2>3
<1>3. /\ W \in Seq(Messages) /\ Len(W) = Len(sent) + 1 /\ W[1] = Welcome
      /\ \A i \in 1..Len(sent) : W[i + 1] = sent[i]
  BY <1>1, <1>2
<1> HIDE DEF W
<1>4. \A i \in 1..(Len(sent) + 1) : i = 1 \/ \E l \in 1..Len(sent) : i = l + 1
  <2> SUFFICES ASSUME NEW i \in 1..(Len(sent) + 1), i > 1
               PROVE  \E l \in 1..Len(sent) : i = l + 1
    BY <1>1
  <2>1. i - 1 \in 1..Len(sent) /\ i = (i - 1) + 1
    BY <1>1
  <2> QED BY <2>1
<1>5. Distinct(W)
  <2> SUFFICES ASSUME NEW i \in 1..(Len(sent) + 1), NEW j \in 1..(Len(sent) + 1), W[i] = W[j]
               PROVE  i = j
    BY <1>3, Zenon DEF Distinct
  <2>1. \A l \in 1..Len(sent) : sent[l] # Welcome
    BY <1>1, MessagesAssumption
  <2>2. CASE i = 1 /\ j = 1
    BY <2>2
  <2>3. ASSUME NEW l \in 1..Len(sent), i = l + 1, j = 1 PROVE FALSE
    BY <2>1, <2>3, <1>3
  <2>4. ASSUME NEW l \in 1..Len(sent), j = l + 1, i = 1 PROVE FALSE
    BY <2>1, <2>4, <1>3
  <2>5. ASSUME NEW l \in 1..Len(sent), i = l + 1, NEW u \in 1..Len(sent), j = u + 1 PROVE i = j
    BY <2>5, <1>3 DEF Sending, Distinct
  <2> QED BY <2>2, <2>3, <2>4, <2>5, <1>4
<1>6. \A d : Contains(W, d) <=> d = Welcome \/ Contains(sent, d)
  <2> SUFFICES ASSUME NEW d PROVE Contains(W, d) <=> d = Welcome \/ Contains(sent, d)
    OBVIOUS
  <2>1. ASSUME Contains(W, d) PROVE d = Welcome \/ Contains(sent, d)
    <3>1. PICK i \in 1..(Len(sent) + 1) : W[i] = d
      BY <2>1, <1>3 DEF Contains
    <3>2. ASSUME NEW l \in 1..Len(sent), i = l + 1 PROVE Contains(sent, d)
      BY <3>1, <3>2, <1>3 DEF Contains
    <3> QED BY <3>1, <3>2, <1>3, <1>4
  <2>2. ASSUME d = Welcome PROVE Contains(W, d)
    <3>1. 1 \in 1..Len(W)
      BY <1>1, <1>3
    <3> QED BY <3>1, <2>2, <1>3 DEF Contains
  <2>3. ASSUME Contains(sent, d) PROVE Contains(W, d)
    <3>1. PICK l \in 1..Len(sent) : sent[l] = d
      BY <2>3 DEF Contains
    <3>2. l + 1 \in 1..Len(W) /\ W[l + 1] = d
      BY <3>1, <1>1, <1>3
    <3> QED BY <3>2 DEF Contains
  <2> QED BY <2>1, <2>2, <2>3
<1>7. \A i \in 1..Len(W) : W[i] = Welcome \/ Contains(sent, W[i])
  <2>1. \A i \in 1..Len(W) : Contains(W, W[i])
    BY Zenon DEF Contains
  <2> QED BY <2>1, <1>6, Zenon
<1>8. CASE Unsent
  <2>1. Wire = Append(W, sln)
    BY <1>8 DEF Wire, W
  <2>2. sln \in Messages /\ sln # Welcome /\ ~Contains(sent, sln)
    BY <1>8, MessagesAssumption DEF Sending, TypeOK, Messages
  <2>3. ~Contains(W, sln)
    BY <2>2, <1>6
  <2>4. Distinct(Wire)
    BY <2>1, <2>2, <2>3, <1>3, <1>5, DistinctAppend
  <2>5. /\ Wire \in Seq(Messages) /\ Len(Wire) = Len(sent) + 2
        /\ \A i \in 1..(Len(sent) + 1) : Wire[i] = W[i]
        /\ Wire[Len(sent) + 2] = sln
    BY <2>1, <2>2, <1>1, <1>3
  <2>6. \A i \in 1..Len(Wire) : Wire[i] = Welcome \/ Wire[i] = sln \/ Contains(sent, Wire[i])
    <3> SUFFICES ASSUME NEW i \in 1..Len(Wire)
                 PROVE  Wire[i] = Welcome \/ Wire[i] = sln \/ Contains(sent, Wire[i])
      OBVIOUS
    <3>1. i \in 1..(Len(sent) + 1) \/ i = Len(sent) + 2
      BY <2>5, <1>1
    <3>2. CASE i \in 1..(Len(sent) + 1)
      BY <3>2, <2>5, <1>3, <1>7
    <3> QED BY <3>1, <3>2, <2>5
  <2> QED BY <1>8, <2>4, <2>5, <2>6, <1>3, <1>5, <1>6 DEF W
<1>9. CASE ~Unsent
  <2>1. Wire = W
    BY <1>9 DEF Wire, W
  <2> QED BY <1>9, <2>1, <1>3, <1>5, <1>6, <1>7 DEF W
<1> QED BY <1>8, <1>9

(* A solution that fits now is not forgotten later.                         *)
LEMMA FitsBefore ==
  ASSUME TypeOK, Sending, [Next]_vars, Fits'
  PROVE  Fits
<1>1. sent \in Seq(Solutions)
  BY DEF TypeOK
<1>2. \A s \in Solutions : Contains(sent, s) => Contains(sent', s)
  <2> SUFFICES ASSUME NEW s \in Solutions, Contains(sent, s) PROVE Contains(sent', s)
    OBVIOUS
  <2>1. sent' = sent \/ (sln \in Solutions /\ sent' = Append(sent, sln))
    BY SentGrows
  <2>2. ASSUME sln \in Solutions PROVE Contains(Append(sent, sln), s)
    BY <1>1, <2>2, ContainsAppend, Zenon
  <2> QED BY <2>1, <2>2, Zenon
<1>3. sln' = sln \/ (pc = "loop" /\ ProcessSolutions)
  BY DEF Next, client_loop, SendWelcome, RecvLength, RecvHello, HelloFails, RecvFails,
    LoopEnds, ProcessSolutions, SendSolution, SendTimeout, SendAgain, SendError, RecvTimeout,
    RecvError, BrokenPacket, RecvResult, CheckerReads, CheckerAnswers, vars, thread
<1>4. \A s \in Solutions : sln = s => sln' = s \/ Contains(sent', s)
  <2>1. CASE pc = "loop"
    <3>1. sln = NoMessage \/ Contains(sent, sln)
      BY <2>1 DEF Sending, Unsent
    <3>2. NoMessage \notin Solutions
      BY MessagesAssumption DEF Messages
    <3> QED BY <3>1, <3>2, <1>2
  <2> QED BY <2>1, <1>3
<1> QED BY <1>2, <1>4 DEF Fits

LEMMA CutStays ==
  ASSUME TypeOK, [Next]_vars, cut_down
  PROVE  cut_down'
<1>1. CASE SendWelcome
  BY <1>1, Zenon DEF SendWelcome
<1>2. CASE SendAgain
  BY <1>2, Zenon DEF SendAgain
<1>3. CASE UNCHANGED cut_down
  BY <1>3
<1> QED BY <1>1, <1>2, <1>3 DEF Next, client_loop, RecvLength, RecvHello, HelloFails, RecvFails,
    LoopEnds, ProcessSolutions, SendSolution, SendTimeout, SendError, RecvTimeout,
    RecvError, BrokenPacket, RecvResult, CheckerReads, CheckerAnswers, vars

(* The sender adds to the flow.                                             *)
LEMMA DownGrows ==
  ASSUME TypeOK, Sending, Downstream, NEW m \in Messages, SendSome(m), got' = got,
         SendMessage <= Len(Wire), Wire[SendMessage] = m, SendByte = offset + 1
  PROVE  Flow(got' \o down', Wire, DownTotal, Len(read) + 1, 1,
              IF offset' = Total(m) THEN SendMessage + 1 ELSE SendMessage,
              IF offset' = Total(m) THEN 1 ELSE offset' + 1)
<1> DEFINE S == got \o down
<1>1. PICK n \in Nat \ {0} :
        /\ offset + n <= Total(m) /\ offset' = offset + n
        /\ down' = down \o Packet(m, offset + 1, (offset + 1) + n - 1)
  BY SendFacts
<1>2. /\ got \in Seq(Bytes) /\ down \in Seq(Bytes) /\ offset \in Nat
      /\ Total(m) \in Nat /\ DownTotal[m] = Total(m)
  BY Totals, DownTotals DEF TypeOK
<1>3. S \in Seq(Bytes)
  BY <1>2
<1> DEFINE P == Packet(m, offset + 1, (offset + 1) + n - 1)
<1>4. P \in Seq(Bytes)
  <2>1. offset + 1 \in Nat \ {0} /\ n \in Nat
    BY <1>2
  <2> QED BY <2>1, PacketBytes
<1>5. got' \o down' = S \o P
  <2> HIDE DEF P
  <2>1. (got \o down) \o P = got \o (down \o P)
    <3>1. got \in Seq(Bytes) /\ down \in Seq(Bytes) /\ P \in Seq(Bytes)
      BY <1>2, <1>4
    <3> QED BY <3>1, ConcatAssociative
  <2> QED BY <2>1, <1>1 DEF P
<1>6. n \in 1..(DownTotal[Wire[SendMessage]] - SendByte + 1)
  <2>1. n \in 1..(Total(m) - (offset + 1) + 1)
    BY <1>1, <1>2
  <2> QED BY <2>1, <1>2
<1>7. Wire \in Seq(Messages) /\ Distinct(Wire)
  BY WireFacts
<1>8. Flow(S, Wire, DownTotal, Len(read) + 1, 1, SendMessage, SendByte)
  BY DEF Downstream
<1> HIDE DEF S
<1>9. Flow(S \o Packet(Wire[SendMessage], SendByte, SendByte + n - 1), Wire, DownTotal,
           Len(read) + 1, 1,
           NextMessage(Wire, DownTotal, SendMessage, SendByte + n - 1),
           NextByte(Wire, DownTotal, SendMessage, SendByte + n - 1))
  BY <1>3, <1>6, <1>7, <1>8, DownTotals, FlowGrows
<1>10. SendByte + n - 1 = offset'
  BY <1>1, <1>2
<1>11. /\ NextMessage(Wire, DownTotal, SendMessage, SendByte + n - 1)
             = IF offset' = Total(m) THEN SendMessage + 1 ELSE SendMessage
       /\ NextByte(Wire, DownTotal, SendMessage, SendByte + n - 1)
             = IF offset' = Total(m) THEN 1 ELSE offset' + 1
  BY <1>2, <1>10 DEF NextMessage, NextByte
<1>12. Packet(Wire[SendMessage], SendByte, SendByte + n - 1) = P
  OBVIOUS
<1> QED BY <1>5, <1>9, <1>11, <1>12

(* The checker takes from the flow.                                         *)
LEMMA DownShrinks ==
  ASSUME TypeOK, Sending, Downstream, Fits, CheckerReads, UNCHANGED <<Wire, SendMessage, SendByte>>
  PROVE  Downstream'
<1> DEFINE S == got \o down
           b == Append(got, Head(down))
           x == Len(read) + 1
           w == Wire[x]
           n == Len(got) + 1
<1>1. /\ got \in Seq(Bytes) /\ down \in Seq(Bytes) /\ down # <<>> /\ read \in Seq(Messages)
      /\ Len(got) \in Nat /\ Len(read) \in Nat
  BY DEF TypeOK, CheckerReads
<1>2. /\ S \in Seq(Bytes) /\ n \in 1..Len(S) /\ S # <<>>
  BY <1>1
<1>3. b = SubSeq(S, 1, n) /\ Tail(down) = SubSeq(S, n + 1, Len(S)) /\ b \o Tail(down) = S
  <2>1. 1 \in 0..Len(down)
    BY <1>1
  <2>2. SubSeq(down, 1, 1) = <<Head(down)>> /\ SubSeq(down, 1 + 1, Len(down)) = Tail(down)
    <3>1. SubSeq(down, 1, 1) = <<Head(down)>>
      <4>1. Head(down) = down[1] /\ down[1] \in Bytes /\ Len(down) >= 1
        BY <1>1
      <4>2. SubSeq(down, 1, 1) = [i \in 1..1 |-> down[i]]
        BY <4>1, <1>1
      <4>3. SubSeq(down, 1, 1) \in Seq(Bytes) /\ Len(SubSeq(down, 1, 1)) = 1
        BY <2>1, <1>1, Moved
      <4>4. SubSeq(down, 1, 1)[1] = down[1]
        BY <4>2
      <4>5. <<Head(down)>> \in Seq(Bytes) /\ Len(<<Head(down)>>) = 1
        BY <4>1
      <4>6. \A i \in 1..1 : SubSeq(down, 1, 1)[i] = <<Head(down)>>[i]
        BY <4>1, <4>4
      <4> QED BY <4>3, <4>5, <4>6, SeqEqual
    <3>2. SubSeq(down, 2, Len(down)) = Tail(down)
      BY <1>1, TailIsSubSeq
    <3> QED BY <3>1, <3>2
  <2>3. got \o <<Head(down)>> = b
    BY <1>1, AppendIsConcat
  <2>4. /\ got \o SubSeq(down, 1, 1) = SubSeq(S, 1, Len(got) + 1)
        /\ SubSeq(down, 1 + 1, Len(down)) = SubSeq(S, Len(got) + 1 + 1, Len(S))
        /\ (got \o SubSeq(down, 1, 1)) \o SubSeq(down, 1 + 1, Len(down)) = S
    BY <1>1, <2>1, Moved, Zenon
  <2> QED BY <2>2, <2>3, <2>4, Zenon
<1>4. b \in Seq(Bytes) /\ Len(b) = n
  BY <1>1
<1>5. Wire \in Seq(Messages) /\ Distinct(Wire)
  BY WireFacts
<1>6. Flow(S, Wire, DownTotal, x, 1, SendMessage, SendByte)
  BY DEF Downstream
<1> HIDE DEF S, b
<1>7. x \in 1..Len(Wire) /\ Len(Wire) \in Nat
  BY <1>1, <1>2, <1>5, <1>6 DEF Flow, Begins
<1>8. w \in Messages
  BY <1>5, <1>7
<1>9. Total(w) \in Nat /\ Total(w) > 2 /\ DownTotal[w] = Total(w)
  BY <1>8, Totals, DownTotals
<1>10. 1 + n - 1 = n /\ n <= Total(w) /\ n \in Nat \ {0}
  <2>1. CASE Len(got) = 0
    BY <2>1, <1>9
  <2>2. CASE Len(got) > 0
    BY <2>2, <1>1, <1>9 DEF Downstream
  <2> QED BY <2>1, <2>2, <1>1
<1>11. Announced(w) = Length[w] /\ 2 + Announced(w) = Total(w)
  <2>1. w = Welcome \/ w = sln \/ Contains(sent, w)
    BY <1>7, WireFacts
  <2>2. CASE w = Welcome
    BY <2>2 DEF Announced, Total
  <2>3. CASE w # Welcome
    <3>1. w \in Solutions
      BY <1>8, <2>3 DEF Messages
    <3>2. Length[w] < LengthModulus
      BY <2>1, <2>3, <3>1 DEF Fits
    <3>3. Length[w] \in Nat /\ LengthModulus \in Nat
      BY <1>8, LengthsAssumption
    <3>4. Length[w] % LengthModulus = Length[w]
      BY <3>2, <3>3
    <3> QED BY <2>3, <3>4 DEF Announced, Total, pkt_length
  <2> QED BY <2>2, <2>3
<1> HIDE DEF w, n, x
<1>12. /\ b = Packet(w, 1, n)
       /\ n = Total(w) => x < SendMessage
       /\ Flow(SubSeq(S, n + 1, Len(S)), Wire, DownTotal,
               NextMessage(Wire, DownTotal, x, n), NextByte(Wire, DownTotal, x, n),
               SendMessage, SendByte)
  <2>1. 1 + n - 1 <= DownTotal[Wire[x]]
    BY <1>9, <1>10 DEF w
  <2>2. /\ SubSeq(S, 1, n) = Packet(Wire[x], 1, 1 + n - 1)
        /\ 1 + n - 1 = DownTotal[Wire[x]] => x < SendMessage
        /\ Flow(SubSeq(S, n + 1, Len(S)), Wire, DownTotal,
                NextMessage(Wire, DownTotal, x, 1 + n - 1),
                NextByte(Wire, DownTotal, x, 1 + n - 1), SendMessage, SendByte)
    <3>1. /\ S \in Seq(Bytes) /\ Wire \in Seq(Messages) /\ Distinct(Wire)
          /\ DownTotal \in [Messages -> Nat \ {0}] /\ n \in 1..Len(S)
          /\ Flow(S, Wire, DownTotal, x, 1, SendMessage, SendByte)
          /\ 1 + n - 1 <= DownTotal[Wire[x]]
      BY <2>1, <1>2, <1>5, <1>6, DownTotals, Zenon
    <3>2. /\ x \in 1..Len(Wire)
          /\ SubSeq(S, 1, n) = Packet(Wire[x], 1, 1 + n - 1)
          /\ 1 + n - 1 = DownTotal[Wire[x]] => x < SendMessage
          /\ Flow(SubSeq(S, n + 1, Len(S)), Wire, DownTotal,
                  NextMessage(Wire, DownTotal, x, 1 + n - 1),
                  NextByte(Wire, DownTotal, x, 1 + n - 1), SendMessage, SendByte)
      <4> HIDE DEF Wire, DownTotal, SendMessage, SendByte
      <4> QED BY ONLY <3>1, FlowShrinks, Zenon
    <3> QED BY <3>2
  <2> QED BY <2>2, <1>3, <1>9, <1>10 DEF w
<1>13. b[1][1] = w
  <2>1. 1 \in Nat \ {0} /\ n \in Nat /\ 1 \in 1..n /\ 1 + 1 - 1 = 1
    BY <1>10
  <2>2. Packet(w, 1, 1 + n - 1)[1] = <<w, 1 + 1 - 1>>
    BY <2>1, <1>8, PacketBytes, Zenon
  <2>3. b[1] = <<w, 1>>
    BY <2>1, <2>2, <1>10, <1>12
  <2> QED BY <2>3
<1>14. /\ astray = FALSE /\ down' = Tail(down)
       /\ \/ /\ astray
             /\ UNCHANGED <<got, answering, astray, read>>
          \/ /\ ~astray
             /\ \/ b # Packet(w, 1, n)
                \/ n = 2 + Announced(w) /\ n # Total(w)
             /\ astray' = TRUE /\ got' = <<>>
             /\ UNCHANGED <<answering, read>>
          \/ /\ ~astray
             /\ b = Packet(w, 1, n)
             /\ n # 2 + Announced(w)
             /\ got' = b
             /\ UNCHANGED <<answering, astray, read>>
          \/ /\ ~astray
             /\ b = Packet(w, 1, Total(w))
             /\ n = 2 + Announced(w)
             /\ got' = <<>> /\ answering' = w /\ read' = Append(read, w)
             /\ UNCHANGED astray
  <2>1. astray = FALSE
    BY DEF Downstream, TypeOK
  <2>2. b = Append(got, Head(down))
    BY DEF b
  <2> QED BY <2>1, <2>2, <1>4, <1>13, Zenon DEF CheckerReads
<1>15. \/ n # Total(w) /\ got' = b /\ UNCHANGED <<astray, read>>
       \/ n = Total(w) /\ got' = <<>> /\ read' = Append(read, w) /\ UNCHANGED astray
  BY <1>14, <1>11, <1>12, Zenon
<1>16. CASE n # Total(w) /\ got' = b /\ UNCHANGED <<astray, read>>
  <2>1. got' \o down' = S
    BY <1>16, <1>14, <1>3
  <2>2. n < Total(w)
    <3>1. n \in Int /\ Total(w) \in Int /\ n <= Total(w)
      BY <1>9, <1>10
    <3> QED BY <3>1, <1>16, AtMost
  <2>3. Len(got') > 0 => Len(read') < Len(Wire') /\ Len(got') < Total(Wire'[Len(read') + 1])
    <3>1. Len(read) < Len(Wire)
      BY <1>7, <1>1 DEF x
    <3>2. Wire' = Wire /\ Len(got') = n /\ read' = read
      BY <1>16, <1>4
    <3> QED BY <3>1, <3>2, <2>2 DEF x, w
  <2>4. Flow(got' \o down', Wire', DownTotal, Len(read') + 1, 1, SendMessage', SendByte')
    BY <2>1, <1>6, <1>16 DEF x
  <2>5. /\ ~astray' /\ Len(read') + 1 <= SendMessage'
        /\ \A i \in 1..Len(read') : read'[i] = Wire'[i]
    BY <1>16, <1>14 DEF Downstream
  <2> QED BY <2>3, <2>4, <2>5 DEF Downstream
<1>17. CASE n = Total(w) /\ got' = <<>> /\ read' = Append(read, w) /\ UNCHANGED astray
  <2>1. /\ read' \in Seq(Messages) /\ Len(read') = x
        /\ read'[x] = w /\ \A i \in 1..Len(read) : read'[i] = read[i]
    BY <1>17, <1>1, <1>8 DEF x
  <2>2. got' \o down' = SubSeq(S, n + 1, Len(S)) /\ Len(got') = 0
    <3>1. Tail(down) \in Seq(Bytes)
      BY <1>1
    <3>2. <<>> \o Tail(down) = Tail(down)
      BY <3>1, ConcatEmptySeq
    <3> QED BY <3>2, <1>17, <1>14, <1>3
  <2>3. NextMessage(Wire, DownTotal, x, n) = x + 1 /\ NextByte(Wire, DownTotal, x, n) = 1
    BY <1>17, <1>9 DEF NextMessage, NextByte, w
  <2>4. Flow(got' \o down', Wire', DownTotal, Len(read') + 1, 1, SendMessage', SendByte')
    BY <2>1, <2>2, <2>3, <1>12
  <2>5. Len(read') + 1 <= SendMessage'
    <3>1. SendMessage \in Nat /\ x \in Nat /\ x < SendMessage
      BY <1>12, <1>17, <1>6, <1>7 DEF Flow, Position
    <3> QED BY <3>1, <2>1
  <2>6. \A i \in 1..Len(read') : read'[i] = Wire'[i]
    <3> SUFFICES ASSUME NEW i \in 1..x PROVE read'[i] = Wire[i]
      BY <2>1
    <3>1. i \in 1..Len(read) \/ i = x
      BY <1>1 DEF x
    <3>2. CASE i \in 1..Len(read)
      BY <3>2, <2>1 DEF Downstream
    <3> QED BY <3>1, <3>2, <2>1 DEF w
  <2>7. ~astray'
    BY <1>14, <1>17
  <2>8. Len(got') > 0 => Len(read') < Len(Wire') /\ Len(got') < Total(Wire'[Len(read') + 1])
    BY <2>2
  <2> QED BY <2>4, <2>5, <2>6, <2>7, <2>8 DEF Downstream
<1> QED BY <1>15, <1>16, <1>17

(* The sender does nothing that shows.                                      *)
LEMMA DownQuiet ==
  ASSUME Downstream, UNCHANGED <<down, got, astray, read, sent, sln>>,
         UNCHANGED <<Wire, SendMessage, SendByte>>
  PROVE  Downstream'
<1>1. UNCHANGED DownTotal
  BY DEF DownTotal, Total
<1> QED BY <1>1 DEF Downstream

LEMMA DownSteps ==
  ASSUME TypeOK, Sending, Downstream, Fits, [Next]_vars, ~cut_down'
  PROVE  Downstream'
<1>0. /\ pc \in Locations /\ sent \in Seq(Solutions) /\ Len(sent) \in Nat
      /\ Len(read) \in Nat /\ offset \in Nat
  BY DEF TypeOK
<1>1. CASE SendWelcome
  <2>1. pc = "welcome" /\ SendSome(Welcome)
    BY <1>1, Zenon DEF SendWelcome
  <2>2. UNCHANGED <<got, astray, read, sent, sln, given_up>>
    BY <1>1 DEF SendWelcome, checker, clocks
  <2>3. pc' = IF offset' = Total(Welcome) THEN "hello_len" ELSE pc
    BY <1>1, <2>1 DEF SendWelcome, Complete, Goto
  <2>4. given_up # "send" /\ sent = <<>> /\ Len(sent) = 0
    BY <2>1 DEF Sending, Handshake
  <2>5. Wire' = Wire /\ ~Unsent
    BY <2>1, <2>2, <2>3, <2>4 DEF Wire, Unsent
  <2>6. Welcome \in Messages /\ SendMessage = 1 /\ SendByte = offset + 1
    BY <2>1 DEF Messages, SendMessage, SendByte
  <2>7. SendMessage <= Len(Wire) /\ Wire[SendMessage] = Welcome
    <3>1. Len(Wire) = 1 /\ 1 \in 1..(Len(sent) + 1) /\ Wire[1] = Welcome
      BY <2>4, <2>5, WireFacts
    <3> QED BY <3>1, <2>6
  <2>8. Flow(got' \o down', Wire, DownTotal, Len(read) + 1, 1,
             IF offset' = Total(Welcome) THEN SendMessage + 1 ELSE SendMessage,
             IF offset' = Total(Welcome) THEN 1 ELSE offset' + 1)
    BY <2>1, <2>2, <2>6, <2>7, DownGrows
  <2>9. /\ SendMessage' = IF offset' = Total(Welcome) THEN SendMessage + 1 ELSE SendMessage
        /\ SendByte' = IF offset' = Total(Welcome) THEN 1 ELSE offset' + 1
    <3>1. sent' = <<>> /\ Len(sent') = 0
      BY <2>2, <2>4
    <3>2. CASE offset' = Total(Welcome)
      BY <3>1, <3>2, <2>3, <2>6 DEF SendMessage, SendByte
    <3>3. CASE offset' # Total(Welcome)
      BY <3>1, <3>3, <2>1, <2>3, <2>6 DEF SendMessage, SendByte
    <3> QED BY <3>2, <3>3
  <2>10. Len(read') + 1 <= SendMessage'
    <3>1. Len(read) + 1 <= 1
      BY <2>6 DEF Downstream
    <3> QED BY <3>1, <2>2, <2>6, <2>9, <1>0
  <2> QED BY <2>2, <2>5, <2>8, <2>9, <2>10 DEF Downstream
<1>2. CASE SendSolution
  <2>1. pc = "send" /\ SendSome(sln) /\ sln \in Solutions /\ sln \in Messages
    BY <1>2 DEF SendSolution, TypeOK, Messages
  <2>2. UNCHANGED <<got, astray, read, sln, given_up>>
    BY <1>2 DEF SendSolution, checker, clocks
  <2>3. IF offset' = Total(sln) THEN pc' = "recv_len" /\ sent' = Append(sent, sln)
                                ELSE UNCHANGED <<pc, sent>>
    BY <1>2 DEF SendSolution, Complete, Goto
  <2>4. given_up # "send" /\ Unsent
    BY <2>1 DEF Sending, Unsent
  <2>5. SendMessage = Len(sent) + 2 /\ SendByte = offset + 1
    BY <2>1 DEF SendMessage, SendByte
  <2>6. SendMessage <= Len(Wire) /\ Wire[SendMessage] = sln
    <3>1. Len(Wire) = Len(sent) + 2 /\ Wire[Len(sent) + 2] = sln
      BY <2>4, WireFacts
    <3> QED BY <3>1, <2>5, <1>0
  <2>7. Flow(got' \o down', Wire, DownTotal, Len(read) + 1, 1,
             IF offset' = Total(sln) THEN SendMessage + 1 ELSE SendMessage,
             IF offset' = Total(sln) THEN 1 ELSE offset' + 1)
    BY <2>1, <2>2, <2>5, <2>6, DownGrows
  <2>8. /\ Wire' = Wire
        /\ SendMessage' = IF offset' = Total(sln) THEN SendMessage + 1 ELSE SendMessage
        /\ SendByte' = IF offset' = Total(sln) THEN 1 ELSE offset' + 1
    <3>1. CASE offset' = Total(sln)
      <4>1. pc' = "recv_len" /\ sent' = Append(sent, sln) /\ given_up' # "send"
        BY <3>1, <2>2, <2>3, <2>4
      <4>2. Wire = Append(<<Welcome>> \o sent, sln) /\ Wire' = <<Welcome>> \o Append(sent, sln)
        BY <4>1, <2>4 DEF Wire, Unsent
      <4>3. Append(<<Welcome>> \o sent, sln) = <<Welcome>> \o Append(sent, sln)
        <5>1. /\ Welcome \in Messages /\ sent \in Seq(Messages)
          <6>1. Solutions \subseteq Messages
            BY DEF Messages
          <6>2. Seq(Solutions) \subseteq Seq(Messages)
            BY <6>1, SeqMonotonic, Zenon
          <6>3. Welcome \in Messages
            BY DEF Messages
          <6> QED BY <6>2, <6>3, <1>0
        <5>2. <<Welcome>> \in Seq(Messages) /\ <<sln>> \in Seq(Messages)
          BY <5>1, <2>1
        <5>3. (<<Welcome>> \o sent) \o <<sln>> = <<Welcome>> \o (sent \o <<sln>>)
          BY ONLY <5>1, <5>2, ConcatAssociative
        <5>4. sent \o <<sln>> = Append(sent, sln)
          BY <5>1, <2>1, AppendIsConcat
        <5>5. (<<Welcome>> \o sent) \o <<sln>> = Append(<<Welcome>> \o sent, sln)
          BY <2>1, WireFacts, AppendIsConcat
        <5> QED BY <5>3, <5>4, <5>5
      <4>4. Len(sent') = Len(sent) + 1
        BY <4>1, <1>0, <2>1
      <4>5. SendMessage' = Len(sent') + 2 /\ SendByte' = 1
        BY <4>1 DEF SendMessage, SendByte
      <4>6. SendMessage' = SendMessage + 1
        BY <4>4, <4>5, <2>5, <1>0
      <4> QED BY <3>1, <4>2, <4>3, <4>5, <4>6
    <3>2. CASE offset' # Total(sln)
      BY <3>2, <2>1, <2>2, <2>3 DEF Wire, Unsent, SendMessage, SendByte
    <3> QED BY <3>1, <3>2
  <2>9. Len(read') + 1 <= SendMessage'
    <3>1. Len(read) + 1 <= SendMessage
      BY DEF Downstream
    <3> QED BY <3>1, <2>2, <2>5, <2>8, <1>0
  <2> QED BY <2>2, <2>7, <2>8, <2>9 DEF Downstream
<1>3. ASSUME ProcessSolutions, pc' = "send" PROVE Downstream'
  <2>1. PICK s \in Solutions \ {sent[i] : i \in DOMAIN sent} : sln' = s
    BY <1>3 DEF ProcessSolutions, Goto
  <2>2. /\ pc = "loop" /\ offset' = 0
        /\ UNCHANGED <<down, got, astray, read, sent, given_up>>
    BY <1>3 DEF ProcessSolutions, checker, Goto
  <2>3. given_up # "send" /\ ~Unsent
    BY <2>2 DEF Sending, Unsent
  <2>4. /\ Wire = <<Welcome>> \o sent
        /\ Wire' = Append(<<Welcome>> \o sent, s)
    BY <2>1, <2>2, <2>3, <1>3 DEF Wire, Unsent
  <2>5. UNCHANGED <<SendMessage, SendByte>> /\ SendMessage = Len(sent) + 2
    BY <2>2, <1>3 DEF SendMessage, SendByte
  <2>6. s \in Messages /\ s # Welcome /\ ~Contains(sent, s)
    <3>1. ~Contains(sent, s)
      BY <2>1, <1>0 DEF Contains
    <3> QED BY <3>1, <2>1, MessagesAssumption DEF Messages
  <2>7. Wire \in Seq(Messages) /\ Len(Wire) = Len(sent) + 1 /\ ~Contains(Wire, s)
    BY <2>4, <2>6, WireFacts
  <2> DEFINE W == Wire
  <2>8. /\ Wire' = Append(W, s) /\ Len(Wire') = Len(W) + 1
        /\ \A i \in 1..Len(W) : Wire'[i] = W[i]
    <3>1. Wire' = Append(W, s)
      BY <2>4
    <3>2. Len(Append(W, s)) = Len(W) + 1 /\ \A i \in 1..Len(W) : Append(W, s)[i] = W[i]
      BY <2>6, <2>7, AppendProperties
    <3> QED BY <3>1, <3>2
  <2>9. got \o down \in Seq(Bytes)
    BY DEF TypeOK
  <2>10. Flow(got \o down, Append(W, s), DownTotal, Len(read) + 1, 1, SendMessage, SendByte)
    <3>1. Flow(got \o down, W, DownTotal, Len(read) + 1, 1, SendMessage, SendByte)
      BY DEF Downstream
    <3> HIDE DEF W
    <3>2. W \in Seq(Messages) /\ ~Contains(W, s)
      BY <2>7 DEF W
    <3> QED BY ONLY <3>1, <3>2, <2>6, <2>9, DownTotals, FlowExtends, Zenon
  <2>11. Len(read) <= Len(W)
    BY <2>5, <2>7, <1>0 DEF Downstream
  <2>12. \A i \in 1..Len(read') : read'[i] = Wire'[i]
    <3>1. \A i \in 1..Len(read) : i \in 1..Len(W)
      BY <2>11, <2>7, <1>0
    <3> QED BY <3>1, <2>2, <2>8 DEF Downstream
  <2>13. Len(got') > 0 => Len(read') < Len(Wire') /\ Len(got') < Total(Wire'[Len(read') + 1])
    <3> SUFFICES ASSUME Len(got) > 0
                 PROVE  Len(read) < Len(Wire') /\ Len(got) < Total(Wire'[Len(read) + 1])
      BY <2>2
    <3>1. Len(read) < Len(W) /\ Len(got) < Total(W[Len(read) + 1])
      BY DEF Downstream
    <3>2. Len(read) + 1 \in 1..Len(W) /\ Len(read) < Len(W) + 1
      BY <3>1, <2>7, <1>0
    <3> QED BY <3>1, <3>2, <2>8
  <2>14. Len(read') + 1 <= SendMessage' /\ ~astray'
    BY <2>2, <2>5 DEF Downstream
  <2> QED BY <2>2, <2>5, <2>8, <2>10, <2>12, <2>13, <2>14 DEF Downstream
<1>4. CASE CheckerReads
  <2>1. UNCHANGED <<Wire, SendMessage, SendByte>>
    BY <1>4 DEF CheckerReads, thread, clocks, Wire, Unsent, SendMessage, SendByte
  <2> QED BY <1>4, <2>1, DownShrinks
<1>5. ASSUME SendAgain, pc = "send",
             (pc' = "send" /\ given_up' # "send") \/ (pc' = "gone" /\ given_up' = "send")
      PROVE  Downstream'
  <2>1. offset = 0 /\ offset' = 0
    <3>1. ~(offset > 0)
      BY <1>5, Zenon DEF SendAgain
    <3> QED BY <3>1, <1>0, <1>5 DEF SendAgain
  <2>2. UNCHANGED <<down, got, astray, read, sent, sln>>
    BY <1>5 DEF SendAgain, checker
  <2>3. UNCHANGED <<Wire, SendMessage, SendByte>>
    BY <1>5, <2>1, <2>2 DEF Wire, Unsent, SendMessage, SendByte
  <2> QED BY <2>2, <2>3, DownQuiet
<1>6. CASE SendTimeout
  <2>1. pc = "send" /\ given_up # "send" /\ SendAgain
    BY <1>6 DEF SendTimeout, Sending
  <2>2. (pc' = "send" /\ given_up' # "send") \/ (pc' = "gone" /\ given_up' = "send")
    BY <1>6, <2>1 DEF SendTimeout, Goto
  <2> QED BY <2>1, <2>2, <1>5
<1>7. CASE SendError
  <2>1. pc = "send" /\ given_up # "send" /\ SendAgain
    BY <1>7 DEF SendError, Sending
  <2>2. pc' = "send" /\ given_up' # "send"
    BY <1>7, <2>1 DEF SendError, clocks
  <2> QED BY <2>1, <2>2, <1>5
<1>8. ASSUME UNCHANGED <<down, got, astray, read, sent, sln>>,
             pc \notin {"welcome", "send", "gone"}, pc' \notin {"welcome", "send"},
             given_up' = given_up \/ given_up' = "recv"
      PROVE  Downstream'
  <2>1. given_up # "send"
    BY <1>8 DEF Sending
  <2>2. UNCHANGED <<Wire, SendMessage, SendByte>>
    BY <1>8, <2>1 DEF Wire, Unsent, SendMessage, SendByte
  <2> QED BY <1>8, <2>2, DownQuiet
<1>9. ASSUME UNCHANGED <<down, got, astray, read, sent, sln, pc, given_up, offset>>
      PROVE  Downstream'
  <2>1. UNCHANGED <<Wire, SendMessage, SendByte>>
    BY <1>9 DEF Wire, Unsent, SendMessage, SendByte
  <2> QED BY <1>9, <2>1, DownQuiet
<1>10. CASE CheckerAnswers
  BY <1>10, <1>9 DEF CheckerAnswers, thread, clocks
<1>11. CASE UNCHANGED vars
  BY <1>11, <1>9 DEF vars, thread, checker, clocks
<1>12. ASSUME NEW from, NEW to, RecvLength(from, to), from \in {"hello_len", "recv_len"},
              to \in {"hello_pkt", "recv_pkt"}
       PROVE  Downstream'
  BY <1>12, <1>8 DEF RecvLength, checker, clocks, Goto
<1>13. CASE RecvHello
  BY <1>13, <1>8 DEF RecvHello, checker, clocks
<1>14. CASE HelloFails
  BY <1>14, <1>8 DEF HelloFails, RecvFails, checker, clocks, Goto
<1>15. CASE LoopEnds
  BY <1>15, <1>8 DEF LoopEnds, thread, checker, clocks, Goto
<1>16. ASSUME ProcessSolutions, pc' # "send" PROVE Downstream'
  BY <1>16, <1>8 DEF ProcessSolutions, thread, checker, clocks, Goto
<1>17. CASE RecvTimeout
  BY <1>17, <1>8 DEF RecvTimeout, RecvFails, checker, Goto
<1>18. CASE RecvError
  BY <1>18, <1>8 DEF RecvError, RecvFails, checker, clocks, Goto
<1>19. CASE BrokenPacket
  BY <1>19, <1>8 DEF BrokenPacket, RecvFails, checker, clocks, Goto
<1>20. CASE RecvResult
  BY <1>20, <1>8 DEF RecvResult, checker, clocks, Goto
<1> QED BY <1>1, <1>2, <1>3, <1>4, <1>6, <1>7, <1>10, <1>11, <1>12, <1>13, <1>14, <1>15,
      <1>16, <1>17, <1>18, <1>19, <1>20 DEF Next, client_loop

LEMMA InStepStep ==
  ASSUME TypeOK, Sending, InStep, [Next]_vars
  PROVE  InStep'
<1> SUFFICES ASSUME ~cut_down', Fits' PROVE Downstream'
  BY DEF InStep
<1>1. Fits /\ ~cut_down
  BY FitsBefore, CutStays
<1>2. Downstream
  BY <1>1 DEF InStep
<1> QED BY <1>1, <1>2, DownSteps

LEMMA InStepInit == Init => InStep
<1> SUFFICES ASSUME Init PROVE Downstream
  BY DEF InStep
<1>1. /\ pc = "welcome" /\ offset = 0 /\ sent = <<>> /\ read = <<>> /\ got = <<>>
      /\ down = <<>> /\ astray = FALSE /\ given_up = "no"
  BY DEF Init
<1>2. SendMessage = 1 /\ SendByte = 1 /\ Wire = <<Welcome>> \o <<>>
  BY <1>1 DEF SendMessage, SendByte, Wire, Unsent
<1>3. Welcome \in Messages
  BY DEF Messages
<1>4. Wire = <<Welcome>> /\ Len(Wire) = 1 /\ Wire[1] = Welcome
  BY <1>2, <1>3
<1>5. got \o down = <<>> /\ Len(got) = 0 /\ Len(read) = 0
  BY <1>1
<1>6. Total(Welcome) \in Nat /\ Total(Welcome) > 2 /\ DownTotal[Welcome] = Total(Welcome)
  BY <1>3, Totals, DownTotals
<1>7. Position(Wire, DownTotal, 1, 1)
  BY <1>4, <1>6 DEF Position
<1>8. Flow(<<>>, Wire, DownTotal, 1, 1, 1, 1)
  BY <1>7 DEF Flow, Bounded, Runs, Seams, Begins, Finishes
<1> QED BY <1>1, <1>2, <1>5, <1>8 DEF Downstream

(* The bytes the checker reads are the packets that were sent, whole and in *)
(* their order, while no failed call has cut one and every length fits its  *)
(* field, for every split that send makes and every length of the packets.  *)
THEOREM CheckerKeepsStep == Spec => []CheckerInStep
<1>1. Init => TypeOK /\ Sending /\ InStep
  BY TypeInit, SendingInit, InStepInit
<1>2. TypeOK /\ Sending /\ InStep /\ [Next]_vars => (TypeOK /\ Sending /\ InStep)'
  BY TypeStep, SendingStep, InStepStep
<1>3. TypeOK /\ Sending /\ InStep => CheckerInStep
  <2> SUFFICES ASSUME TypeOK, Sending, InStep, ~cut_down, Fits
               PROVE  ~astray /\ IsPrefix(read, <<Welcome>> \o sent)
    BY DEF CheckerInStep, Fits
  <2>1. Downstream
    BY DEF InStep
  <2> DEFINE W == <<Welcome>> \o sent
  <2>2. /\ W \in Seq(Messages) /\ Len(W) = Len(sent) + 1
        /\ \A i \in 1..(Len(sent) + 1) : Wire[i] = W[i]
    BY WireFacts
  <2>3. /\ read \in Seq(Messages) /\ Len(read) \in Nat /\ Len(sent) \in Nat
    BY DEF TypeOK
  <2>4. Len(read) <= Len(W)
    <3>1. pc = "welcome" => Len(sent) = 0
      BY DEF Sending, Handshake
    <3>2. SendMessage <= Len(sent) + 2
      BY <3>1, <2>3 DEF SendMessage
    <3>3. SendMessage \in Nat
      BY <2>3 DEF SendMessage
    <3> QED BY <3>2, <3>3, <2>1, <2>2, <2>3 DEF Downstream
  <2> HIDE DEF W
  <2>5. \A i \in 1..Len(read) : read[i] = W[i]
    BY <2>1, <2>2, <2>3, <2>4 DEF Downstream
  <2>6. SubSeq(W, 1, Len(read)) = SubSeq(read, 1, Len(read))
    <3>0. /\ SubSeq(read, 1, Len(read)) \in Seq(Messages)
          /\ Len(SubSeq(read, 1, Len(read))) = Len(read)
          /\ \A i \in 1..Len(read) : SubSeq(read, 1, Len(read))[i] = read[i]
      BY <2>3
    <3>1. /\ SubSeq(W, 1, Len(read)) \in Seq(Messages) /\ Len(SubSeq(W, 1, Len(read))) = Len(read)
          /\ \A i \in 1..Len(read) : SubSeq(W, 1, Len(read))[i] = W[i]
      BY <2>2, <2>3, <2>4
    <3> QED BY <3>0, <3>1, <2>5, SeqEqual
  <2>7. IsPrefix(read, W)
    BY <2>4, <2>6 DEF IsPrefix
  <2> QED BY <2>1, <2>7 DEF Downstream, W
<1> QED BY <1>1, <1>2, <1>3, PTL DEF Spec
-----------------------------------------------------------------------------
(* Upstream.                                                                *)

LEMMA UpTotals ==
  /\ UpTotal \in [Messages -> Nat \ {0}]
  /\ \A m \in Messages : UpTotal[m] = 2 + AnswerLength
<1>1. 2 + AnswerLength \in Nat \ {0}
  BY LengthsAssumption
<1> QED BY <1>1 DEF UpTotal

LEMMA CutUpStays ==
  ASSUME TypeOK, [Next]_vars, cut_up
  PROVE  cut_up'
<1>1. ASSUME NEW lost, RecvFails(lost) PROVE cut_up'
  BY <1>1, Zenon DEF RecvFails
<1>2. CASE UNCHANGED cut_up
  BY <1>2
<1> QED BY <1>1, <1>2 DEF Next, client_loop, SendWelcome, RecvLength, RecvHello, HelloFails,
    LoopEnds, ProcessSolutions, SendSolution, SendTimeout, SendError, SendAgain, RecvTimeout,
    RecvError, BrokenPacket, RecvResult, CheckerReads, CheckerAnswers, vars

(* What recv_all has is a piece of the packet it is in.                     *)
LEMMA UpShrinks ==
  ASSUME TypeOK, Distinct(read), Upstream, NEW len \in Nat \ {0}, NEW chunk \in Chunks(len),
         Recv(chunk), RecvByte + len - 1 <= 2 + AnswerLength
  PROVE  \E n \in 1..len :
           /\ Len(received \o chunk) = n /\ RecvMessage \in 1..Len(read)
           /\ received \o chunk = Packet(read[RecvMessage], RecvByte, RecvByte + n - 1)
           /\ (received \o chunk) \o up' = received \o up /\ <<>> \o up' = up'
           /\ RecvByte + n - 1 = 2 + AnswerLength => RecvMessage < Len(answered) + 1
           /\ Flow(up', read, UpTotal,
                   IF RecvByte + n - 1 = 2 + AnswerLength THEN RecvMessage + 1 ELSE RecvMessage,
                   IF RecvByte + n - 1 = 2 + AnswerLength THEN 1 ELSE RecvByte + n - 1 + 1,
                   Len(answered) + 1, answered_bytes + 1)
<1> DEFINE S == received \o up
           b == received \o chunk
           x == RecvMessage
           i == RecvByte
           y == Len(answered) + 1
           k == answered_bytes + 1
<1>1. /\ received \in Seq(Bytes) /\ up \in Seq(Bytes) /\ read \in Seq(Messages)
      /\ Len(received) \in Nat /\ Len(up) \in Nat /\ AnswerLength \in Nat
  BY LengthsAssumption DEF TypeOK
<1>2. PICK c \in 0..Len(up) :
        /\ chunk = SubSeq(up, 1, c) /\ up' = SubSeq(up, c + 1, Len(up))
        /\ up' \in Seq(Bytes) /\ b \in Seq(Bytes) /\ Len(b) = Len(received) + c
        /\ 1 <= c /\ Len(received) + c <= len
  BY RecvFacts
<1>3. S \in Seq(Bytes) /\ Len(S) = Len(received) + Len(up)
  BY <1>1
<1> DEFINE n == Len(received) + c
<1>4. n \in 1..len /\ n \in 1..Len(S) /\ n \in Nat
  BY <1>1, <1>2, <1>3
<1>5. /\ b = SubSeq(S, 1, n) /\ up' = SubSeq(S, n + 1, Len(S)) /\ b \o up' = S
  <2>1. /\ received \o SubSeq(up, 1, c) = SubSeq(received \o up, 1, Len(received) + c)
        /\ SubSeq(up, c + 1, Len(up))
             = SubSeq(received \o up, Len(received) + c + 1, Len(received \o up))
        /\ (received \o SubSeq(up, 1, c)) \o SubSeq(up, c + 1, Len(up)) = received \o up
    <3>1. received \in Seq(Bytes) /\ up \in Seq(Bytes) /\ c \in 0..Len(up)
      BY <1>1
    <3>2. /\ SubSeq(up, 1, c) \in Seq(Bytes) /\ SubSeq(up, c + 1, Len(up)) \in Seq(Bytes)
          /\ Len(SubSeq(up, 1, c)) = c
          /\ received \o SubSeq(up, 1, c) \in Seq(Bytes)
          /\ Len(received \o SubSeq(up, 1, c)) = Len(received) + c
          /\ received \o SubSeq(up, 1, c) = SubSeq(received \o up, 1, Len(received) + c)
          /\ SubSeq(up, c + 1, Len(up))
               = SubSeq(received \o up, Len(received) + c + 1, Len(received \o up))
          /\ (received \o SubSeq(up, 1, c)) \o SubSeq(up, c + 1, Len(up)) = received \o up
      BY ONLY <3>1, Moved, Zenon
    <3> QED BY <3>2, Zenon
  <2> QED BY <2>1, <1>2, Zenon
<1>6. <<>> \o up' = up'
  BY <1>2, ConcatEmptySeq
<1>7. Flow(S, read, UpTotal, x, i, y, k)
  BY DEF Upstream
<1>8. i \in {1, 3}
  BY DEF RecvByte
<1> HIDE DEF S, b, x, i, y, k, n
<1>9. S # <<>>
  BY <1>3, <1>4
<1>10. x \in 1..Len(read)
  BY <1>7, <1>9, <1>1 DEF Flow, Begins, Position
<1>11. read[x] \in Messages /\ UpTotal[read[x]] = 2 + AnswerLength
  BY <1>1, <1>10, UpTotals
<1>12. i + n - 1 <= UpTotal[read[x]]
  <2>1. i + len - 1 <= 2 + AnswerLength
    BY DEF i
  <2> QED BY <2>1, <1>1, <1>4, <1>8, <1>11
<1>13. /\ x \in 1..Len(read)
       /\ SubSeq(S, 1, n) = Packet(read[x], i, i + n - 1)
       /\ i + n - 1 = UpTotal[read[x]] => x < y
       /\ Flow(SubSeq(S, n + 1, Len(S)), read, UpTotal,
               NextMessage(read, UpTotal, x, i + n - 1),
               NextByte(read, UpTotal, x, i + n - 1), y, k)
  <2>1. /\ S \in Seq(Bytes) /\ read \in Seq(Messages) /\ Distinct(read)
        /\ UpTotal \in [Messages -> Nat \ {0}] /\ n \in 1..Len(S)
        /\ Flow(S, read, UpTotal, x, i, y, k) /\ i + n - 1 <= UpTotal[read[x]]
    BY <1>1, <1>3, <1>4, <1>7, <1>12, UpTotals, Zenon
  <2> QED BY ONLY <2>1, FlowShrinks, Zenon
<1>14. /\ NextMessage(read, UpTotal, x, i + n - 1)
            = IF i + n - 1 = 2 + AnswerLength THEN x + 1 ELSE x
       /\ NextByte(read, UpTotal, x, i + n - 1)
            = IF i + n - 1 = 2 + AnswerLength THEN 1 ELSE i + n - 1 + 1
  BY <1>11 DEF NextMessage, NextByte
<1>15. Len(b) = n
  BY <1>2 DEF n
<1> SUFFICES
      /\ n \in 1..len /\ Len(b) = n /\ x \in 1..Len(read)
      /\ b = Packet(read[x], i, i + n - 1)
      /\ b \o up' = S /\ <<>> \o up' = up'
      /\ i + n - 1 = 2 + AnswerLength => x < y
      /\ Flow(up', read, UpTotal,
              IF i + n - 1 = 2 + AnswerLength THEN x + 1 ELSE x,
              IF i + n - 1 = 2 + AnswerLength THEN 1 ELSE i + n - 1 + 1, y, k)
  BY Zenon DEF b, x, i, y, k, S
<1> QED BY <1>4, <1>5, <1>6, <1>11, <1>13, <1>14, <1>15, Zenon

(* The checker sends more of its answer.                                    *)
LEMMA UpGrows ==
  ASSUME TypeOK, Distinct(read), Answering, Upstream, CheckerAnswers
  PROVE  Flow(received' \o up', read', UpTotal, RecvMessage', RecvByte', Len(answered') + 1,
              answered_bytes' + 1)
<1> DEFINE S == received \o up
           y == Len(answered) + 1
           k == answered_bytes + 1
<1>1. PICK n \in Nat \ {0} :
        /\ answering \in Messages /\ answered_bytes + n <= 2 + AnswerLength
        /\ up' = up \o Packet(answering, k, k + n - 1)
        /\ \/ /\ answered_bytes + n = 2 + AnswerLength
              /\ answered' = Append(answered, answering) /\ answered_bytes' = 0
           \/ /\ answered_bytes + n < 2 + AnswerLength
              /\ answered_bytes' = answered_bytes + n /\ UNCHANGED answered
  BY AnswerFacts
<1>2. UNCHANGED <<received, read, posted, RecvMessage, RecvByte>> /\ answering # NoMessage
  BY DEF CheckerAnswers, thread, RecvMessage, RecvByte
<1>3. /\ received \in Seq(Bytes) /\ up \in Seq(Bytes) /\ read \in Seq(Messages)
      /\ answered \in Seq(Messages) /\ Len(answered) \in Nat /\ answered_bytes \in Nat
      /\ AnswerLength \in Nat
  BY LengthsAssumption DEF TypeOK
<1>4. read = Append(answered, answering)
  BY <1>2 DEF Answering
<1>5. read[y] = answering /\ y <= Len(read) /\ UpTotal[answering] = 2 + AnswerLength
  BY <1>1, <1>3, <1>4, UpTotals
<1>6. S \in Seq(Bytes)
  BY <1>3
<1> DEFINE P == Packet(answering, k, k + n - 1)
<1>7. P \in Seq(Bytes)
  <2>1. k \in Nat \ {0} /\ n \in Nat
    BY <1>3
  <2> QED BY <2>1, <1>1, PacketBytes
<1>8. received' \o up' = S \o P
  <2>1. up' = up \o P
    BY <1>1
  <2> HIDE DEF P
  <2>2. (received \o up) \o P = received \o (up \o P)
    <3>1. received \in Seq(Bytes) /\ up \in Seq(Bytes) /\ P \in Seq(Bytes)
      BY <1>3, <1>7
    <3> QED BY ONLY <3>1, ConcatAssociative
  <2> QED BY <2>1, <2>2, <1>2
<1>9. n \in 1..(UpTotal[read[y]] - k + 1)
  BY <1>1, <1>3, <1>5
<1>10. Flow(S, read, UpTotal, RecvMessage, RecvByte, y, k)
  BY DEF Upstream
<1>11. k + n - 1 = answered_bytes + n /\ (answered_bytes + n) + 1 = k + n - 1 + 1
  BY <1>3
<1> HIDE DEF S, y, k
<1>12. Flow(S \o Packet(read[y], k, k + n - 1), read, UpTotal, RecvMessage, RecvByte,
            NextMessage(read, UpTotal, y, k + n - 1), NextByte(read, UpTotal, y, k + n - 1))
  BY ONLY <1>3, <1>5, <1>6, <1>9, <1>10, Distinct(read), UpTotals, FlowGrows, Zenon
<1>13. /\ NextMessage(read, UpTotal, y, k + n - 1) = Len(answered') + 1
       /\ NextByte(read, UpTotal, y, k + n - 1) = answered_bytes' + 1
  <2>1. CASE /\ answered_bytes + n = 2 + AnswerLength
             /\ answered' = Append(answered, answering) /\ answered_bytes' = 0
    <3>1. Len(answered') = y
      BY <2>1, <1>1, <1>3 DEF y
    <3>2. NextMessage(read, UpTotal, y, k + n - 1) = y + 1
          /\ NextByte(read, UpTotal, y, k + n - 1) = 1
      BY <2>1, <1>5, <1>11 DEF NextMessage, NextByte
    <3> QED BY <3>1, <3>2, <2>1
  <2>2. CASE /\ answered_bytes + n < 2 + AnswerLength
             /\ answered_bytes' = answered_bytes + n /\ UNCHANGED answered
    <3>1. answered_bytes + n # 2 + AnswerLength
      BY <2>2, <1>3
    <3>2. NextMessage(read, UpTotal, y, k + n - 1) = y
          /\ NextByte(read, UpTotal, y, k + n - 1) = k + n - 1 + 1
      BY <3>1, <1>5, <1>11 DEF NextMessage, NextByte
    <3> QED BY <3>2, <2>2, <1>11 DEF y
  <2> QED BY <2>1, <2>2, <1>1
<1> QED BY <1>2, <1>5, <1>8, <1>12, <1>13

(* A packet in full is taken for what it is.                                *)
LEMMA AnswersRead ==
  ASSUME NEW m \in Messages
  PROVE  /\ Lengths(Packet(m, 1, 2)) = {AnswerLength}
         /\ Results(Packet(m, 3, 2 + AnswerLength)) = {m}
<1>1. Lengths(Packet(m, 1, 2)) = {AnswerLength}
  BY DEF Lengths
<1>2. AnswerLength \in Nat /\ 1 \in 1..AnswerLength /\ 3 + AnswerLength - 1 = 2 + AnswerLength
  BY LengthsAssumption
<1>3. ASSUME NEW d \in Messages PROVE Packet(d, 3, 2 + AnswerLength)[1][1] = d
  <2>1. Packet(d, 3, 3 + AnswerLength - 1)[1] = <<d, 3 + 1 - 1>>
    <3>1. 3 \in Nat \ {0}
      OBVIOUS
    <3> QED BY <3>1, <1>2, PacketBytes, Zenon
  <2>2. Packet(d, 3, 2 + AnswerLength)[1] = <<d, 3 + 1 - 1>>
    BY <2>1, <1>2, Zenon
  <2> QED BY <2>2
<1>4. {d \in Messages : Packet(m, 3, 2 + AnswerLength) = Packet(d, 3, 2 + AnswerLength)} = {m}
  <2>1. ASSUME NEW d \in Messages, Packet(m, 3, 2 + AnswerLength) = Packet(d, 3, 2 + AnswerLength)
        PROVE  d = m
    BY <2>1, <1>3, Zenon
  <2> QED BY <2>1, Zenon
<1>5. Results(Packet(m, 3, 2 + AnswerLength)) = {m}
  BY <1>4, Zenon DEF Results
<1> QED BY <1>1, <1>5

(* recv_all goes on: the packet is not complete yet.                        *)
LEMMA UpWaits ==
  ASSUME Upstream, NEW b, received' = b, b \o up' = received \o up,
         UNCHANGED <<pc, read, answered, answered_bytes, posted, res_len>>,
         pc \in {"hello_len", "recv_len"} => Len(b) < 2,
         pc \in {"hello_pkt", "recv_pkt"} => Len(b) < res_len,
         pc \in {"hello_len", "hello_pkt", "recv_len", "recv_pkt"}
  PROVE  Upstream'
<1>1. UNCHANGED <<RecvMessage, RecvByte, UpTotal>>
  BY DEF RecvMessage, RecvByte, UpTotal
<1> QED BY <1>1 DEF Upstream

LEMMA UpRecvLength ==
  ASSUME TypeOK, Distinct(read), Upstream, NEW from, NEW to, RecvLength(from, to),
         (from = "hello_len" /\ to = "hello_pkt") \/ (from = "recv_len" /\ to = "recv_pkt")
  PROVE  Upstream'
<1>1. pc = from /\ UNCHANGED <<read, answered, answered_bytes, posted>>
  BY DEF RecvLength, checker
<1>2. PICK chunk \in Chunks(2) :
        /\ Recv(chunk)
        /\ IF Len(received \o chunk) = 2
           THEN pc' = to /\ received' = <<>> /\ res_len' \in Lengths(received \o chunk)
           ELSE received' = received \o chunk /\ UNCHANGED <<pc, res_len>>
  BY DEF RecvLength, Complete, Goto
<1>3. AnswerLength \in Nat \ {0} /\ RecvByte = 1 /\ 2 \in Nat \ {0}
  BY <1>1, LengthsAssumption DEF RecvByte
<1>4. RecvByte + 2 - 1 <= 2 + AnswerLength
  BY <1>3
<1>5. PICK n \in 1..2 :
        /\ Len(received \o chunk) = n /\ RecvMessage \in 1..Len(read)
        /\ received \o chunk = Packet(read[RecvMessage], RecvByte, RecvByte + n - 1)
        /\ (received \o chunk) \o up' = received \o up /\ <<>> \o up' = up'
        /\ Flow(up', read, UpTotal,
                IF RecvByte + n - 1 = 2 + AnswerLength THEN RecvMessage + 1 ELSE RecvMessage,
                IF RecvByte + n - 1 = 2 + AnswerLength THEN 1 ELSE RecvByte + n - 1 + 1,
                Len(answered) + 1, answered_bytes + 1)
  BY <1>2, <1>3, <1>4, UpShrinks
<1>6. CASE n = 2
  <2>1. pc' = to /\ received' = <<>> /\ res_len' \in Lengths(received \o chunk)
    BY <1>2, <1>5, <1>6
  <2>2. RecvByte + n - 1 = 2 /\ 2 # 2 + AnswerLength /\ RecvByte + n - 1 + 1 = 3
    BY <1>3, <1>6
  <2>3. received \o chunk = Packet(read[RecvMessage], 1, 2)
    BY <1>3, <1>5, <2>2
  <2>4. read[RecvMessage] \in Messages
    BY <1>5 DEF TypeOK
  <2>5. res_len' = AnswerLength
    BY <2>1, <2>3, <2>4, AnswersRead
  <2>6. Flow(up', read, UpTotal, RecvMessage, 3, Len(answered) + 1, answered_bytes + 1)
    BY <1>5, <2>2
  <2>7. RecvMessage' = RecvMessage /\ RecvByte' = 3 /\ UpTotal' = UpTotal
    BY <1>1, <2>1 DEF RecvMessage, RecvByte, Handshake, UpTotal
  <2>8. received' \o up' = up' /\ Len(received') = 0
    BY <1>5, <2>1
  <2>9. Flow(received' \o up', read', UpTotal', RecvMessage', RecvByte', Len(answered') + 1,
             answered_bytes' + 1)
    BY <1>1, <2>6, <2>7, <2>8
  <2> QED BY <1>3, <2>1, <2>5, <2>8, <2>9 DEF Upstream
<1>7. CASE n = 1
  <2>1. /\ received' = received \o chunk /\ UNCHANGED <<pc, res_len>>
        /\ Len(received \o chunk) < 2
    BY <1>2, <1>5, <1>7
  <2> QED BY <1>1, <1>5, <2>1, UpWaits
<1> QED BY <1>6, <1>7

(* recv_all of the rest of an answer: it goes on, or the answer is the one  *)
(* to the message it is in.                                                 *)
LEMMA UpRecvPacket ==
  ASSUME TypeOK, Distinct(read), Upstream, pc \in {"hello_pkt", "recv_pkt"},
         NEW chunk \in Chunks(res_len), Recv(chunk),
         UNCHANGED <<read, answered, answered_bytes, res_len>>
  PROVE  \/ /\ Len(received \o chunk) # res_len
            /\ received' = received \o chunk /\ UNCHANGED <<pc, posted>> => Upstream'
         \/ /\ Len(received \o chunk) = res_len
            /\ RecvMessage \in 1..Len(read) /\ RecvMessage <= Len(answered)
            /\ received \o chunk = Packet(read[RecvMessage], 3, 2 + AnswerLength)
            /\ received' = <<>> /\ pc' = "loop" /\ Len(posted') + 2 = RecvMessage + 1
               => Upstream'
<1>1. /\ AnswerLength \in Nat \ {0} /\ RecvByte = 3 /\ res_len = AnswerLength
      /\ RecvMessage \in Nat /\ Len(answered) \in Nat /\ 3 + AnswerLength - 1 = 2 + AnswerLength
  BY LengthsAssumption DEF RecvByte, RecvMessage, Upstream, TypeOK
<1>2. PICK n \in 1..res_len :
        /\ Len(received \o chunk) = n /\ RecvMessage \in 1..Len(read)
        /\ received \o chunk = Packet(read[RecvMessage], RecvByte, RecvByte + n - 1)
        /\ (received \o chunk) \o up' = received \o up /\ <<>> \o up' = up'
        /\ RecvByte + n - 1 = 2 + AnswerLength => RecvMessage < Len(answered) + 1
        /\ Flow(up', read, UpTotal,
                IF RecvByte + n - 1 = 2 + AnswerLength THEN RecvMessage + 1 ELSE RecvMessage,
                IF RecvByte + n - 1 = 2 + AnswerLength THEN 1 ELSE RecvByte + n - 1 + 1,
                Len(answered) + 1, answered_bytes + 1)
  <2>1. res_len \in Nat \ {0} /\ RecvByte + res_len - 1 <= 2 + AnswerLength
    BY <1>1
  <2> QED BY <2>1, UpShrinks
<1>3. CASE n = res_len
  <2>1. RecvByte + n - 1 = 2 + AnswerLength
    BY <1>1, <1>3
  <2>2. RecvMessage < Len(answered) + 1
    BY <1>2, <2>1
  <2>3. RecvMessage <= Len(answered)
    BY <2>2, <1>1
  <2>4. received \o chunk = Packet(read[RecvMessage], 3, 2 + AnswerLength)
    BY <1>1, <1>2, <2>1
  <2>5. Flow(up', read, UpTotal, RecvMessage + 1, 1, Len(answered) + 1, answered_bytes + 1)
    BY <1>2, <2>1
  <2>6. ASSUME received' = <<>>, pc' = "loop", Len(posted') + 2 = RecvMessage + 1
        PROVE  Upstream'
    <3>1. RecvMessage' = RecvMessage + 1 /\ RecvByte' = 1 /\ UpTotal' = UpTotal
      BY <2>6 DEF RecvMessage, RecvByte, Handshake, UpTotal
    <3>2. received' \o up' = up'
      BY <2>6, <1>2
    <3>3. Flow(received' \o up', read', UpTotal', RecvMessage', RecvByte', Len(answered') + 1,
               answered_bytes' + 1)
      BY <2>5, <3>1, <3>2
    <3> QED BY <2>6, <3>3 DEF Upstream
  <2> QED BY <1>2, <1>3, <2>3, <2>4, <2>6
<1>4. CASE n # res_len
  <2>1. n < res_len /\ Len(received \o chunk) = n
    BY <1>1, <1>2, <1>4
  <2> QED BY <1>2, <1>4, <2>1, UpWaits
<1> QED BY <1>3, <1>4

(* What was posted stays so, whatever is sent and answered.                 *)
LEMMA PostedQuiet ==
  ASSUME Posted, UNCHANGED <<posted, answered>>, sent' = sent \/ answered # <<>>,
         pc' \in Handshake \/ pc' = "gone" \/ answered # <<>>
  PROVE  Posted'
  BY DEF Posted

(* The connection and the checker rest, and recv_all has nothing.           *)
LEMMA UpQuiet ==
  ASSUME Upstream, received = <<>>, UNCHANGED <<received, up, read, answered, answered_bytes>>,
         UNCHANGED <<RecvMessage, RecvByte>>, pc' \notin {"hello_pkt", "recv_pkt"}
  PROVE  Upstream'
<1>1. UNCHANGED UpTotal /\ Len(received') = 0
  BY DEF UpTotal
<1> QED BY <1>1 DEF Upstream

LEMMA CheckerReadsInOrder ==
  ASSUME TypeOK, Once, Answering, Upstream, CheckerReads
  PROVE  Upstream'
<1>1. UNCHANGED <<pc, received, res_len, up, answered, answered_bytes, posted>>
  BY DEF CheckerReads, thread
<1>2. UNCHANGED <<RecvMessage, RecvByte, UpTotal>>
  BY <1>1 DEF RecvMessage, RecvByte, UpTotal
<1>3. CASE read' = read
  BY <1>1, <1>2, <1>3 DEF Upstream
<1>4. ASSUME NEW m \in Messages, down # <<>>, down[1] = <<m, Total(m)>>, read' = Append(read, m)
      PROVE  Upstream'
  <2>1. down \in Seq(Bytes) /\ read \in Seq(Messages) /\ received \o up \in Seq(Bytes)
    BY DEF TypeOK
  <2>2. 1 \in 1..Len(down) /\ down[1][1] = m /\ down[1][2] = Total(m)
    BY <1>4, <2>1
  <2>3. ~Contains(read, m)
    BY <2>2 DEF Once
  <2>4. Flow(received \o up, read, UpTotal, RecvMessage, RecvByte, Len(answered) + 1,
             answered_bytes + 1)
    BY DEF Upstream
  <2>5. Flow(received \o up, Append(read, m), UpTotal, RecvMessage, RecvByte, Len(answered) + 1,
             answered_bytes + 1)
    <3>1. m \in Messages
      OBVIOUS
    <3> QED BY ONLY <3>1, <2>1, <2>3, <2>4, UpTotals, FlowExtends, Zenon
  <2> QED BY <1>1, <1>2, <1>4, <2>5 DEF Upstream
<1> QED BY <1>3, <1>4, ReadFacts

LEMMA CheckerAnswersInOrder ==
  ASSUME TypeOK, Once, Answering, Posted, CheckerAnswers
  PROVE  Posted'
<1>1. UNCHANGED <<pc, posted, sent, read>> /\ answering # NoMessage
  BY DEF CheckerAnswers
<1>2. answering \in Messages /\ (answered' = answered \/ answered' = Append(answered, answering))
  BY AnswerFacts
<1>3. CASE answered' = answered
  BY <1>1, <1>3 DEF Posted
<1>4. CASE answered' = Append(answered, answering)
  <2>1. /\ answered \in Seq(Messages) /\ posted \in Seq(Messages) /\ Len(answered) \in Nat
        /\ Len(posted) \in Nat /\ sent \in Seq(Solutions)
    BY DEF TypeOK
  <2>2. /\ answered' # <<>> /\ Len(answered') = Len(answered) + 1
        /\ \A i \in 1..Len(answered) : answered'[i] = answered[i]
        /\ answered'[Len(answered) + 1] = answering
    BY <1>2, <1>4, <2>1
  <2>3. answered'[1] = Welcome
    <3>1. CASE answered = <<>>
      <4>1. sent = <<>> /\ Len(answered) = 0 /\ answered'[1] = answering
        BY <3>1, <2>2 DEF Posted
      <4>2. read = Append(answered, answering)
        BY <1>1 DEF Answering
      <4>3. 1 \in 1..Len(read) /\ read[1] = answering
        BY <4>1, <4>2, <1>4, <2>2
      <4>4. WasSent(answering)
        BY <4>3 DEF Once
      <4>5. ~Contains(sent, answering)
        BY <4>1 DEF Contains
      <4> QED BY <4>1, <4>4, <4>5 DEF WasSent
    <3>2. CASE answered # <<>>
      <4>1. 1 \in 1..Len(answered) /\ answered[1] = Welcome
        BY <3>2, <2>1 DEF Posted
      <4> QED BY <4>1, <2>2
    <3> QED BY <3>1, <3>2
  <2>4. posted # <<>> => Len(posted) + 1 <= Len(answered')
    BY <2>1, <2>2 DEF Posted
  <2>5. ASSUME NEW i \in 1..Len(posted) PROVE posted[i] = answered'[i + 1]
    <3>1. posted # <<>> /\ posted[i] = answered[i + 1] /\ i \in Nat
      BY <2>1 DEF Posted
    <3>2. Len(posted) + 1 <= Len(answered)
      BY <3>1 DEF Posted
    <3>3. i + 1 \in 1..Len(answered)
      BY <3>2, <2>1
    <3> QED BY <3>1, <3>3, <2>2
  <2> QED BY <1>1, <2>2, <2>3, <2>4, <2>5 DEF Posted
<1> QED BY <1>2, <1>3, <1>4

(* A complete answer is posted for the solution it answers.                 *)
LEMMA ResultInOrder ==
  ASSUME TypeOK, Distinct(read), Answering, Posted, Upstream, RecvResult
  PROVE  Posted' /\ Upstream'
<1>1. /\ pc = "recv_pkt"
      /\ UNCHANGED <<read, answered, answered_bytes, res_len, sent>>
  BY DEF RecvResult, checker
<1>2. PICK chunk \in Chunks(res_len) :
        /\ Recv(chunk)
        /\ IF Len(received \o chunk) = res_len
           THEN /\ pc' = "loop" /\ received' = <<>>
                /\ \E s \in Results(received \o chunk) :
                     IF s = NoMessage THEN UNCHANGED <<posted, checking_solution>>
                     ELSE posted' = Append(posted, s) /\ checking_solution' = NoMessage
           ELSE received' = received \o chunk /\ UNCHANGED <<pc, posted, checking_solution>>
  BY DEF RecvResult, Complete, Goto
<1>3. answered # <<>>
  BY <1>1 DEF Posted, Handshake
<1>4. CASE Len(received \o chunk) # res_len
  <2>1. received' = received \o chunk /\ UNCHANGED <<pc, posted>>
    BY <1>2, <1>4
  <2>2. Upstream'
    BY <1>1, <1>2, <1>4, <2>1, UpRecvPacket
  <2> QED BY <2>1, <2>2, <1>1, <1>3, PostedQuiet
<1>5. CASE Len(received \o chunk) = res_len
  <2>1. /\ RecvMessage \in 1..Len(read) /\ RecvMessage <= Len(answered)
        /\ received \o chunk = Packet(read[RecvMessage], 3, 2 + AnswerLength)
        /\ received' = <<>> /\ pc' = "loop" /\ Len(posted') + 2 = RecvMessage + 1 => Upstream'
    BY <1>1, <1>2, <1>5, UpRecvPacket
  <2>2. RecvMessage = Len(posted) + 2
    BY <1>1 DEF RecvMessage, Handshake
  <2>3. /\ read \in Seq(Messages) /\ answered \in Seq(Messages) /\ posted \in Seq(Messages)
        /\ Len(posted) \in Nat /\ Len(answered) \in Nat
    BY DEF TypeOK
  <2> DEFINE m == read[Len(posted) + 2]
  <2>4. m \in Messages /\ m # NoMessage
    BY <2>1, <2>2, <2>3, MessagesAssumption
  <2>5. Results(received \o chunk) = {m}
    BY <2>1, <2>2, <2>4, AnswersRead
  <2>6. posted' = Append(posted, m) /\ pc' = "loop" /\ received' = <<>>
    BY <1>2, <1>5, <2>4, <2>5
  <2>7. m = answered[Len(posted) + 2]
    <3>1. Len(posted) + 2 \in 1..Len(answered)
      BY <2>1, <2>2, <2>3
    <3>2. answering # NoMessage => answering \in Messages
      BY DEF TypeOK
    <3>3. answering # NoMessage => Append(answered, answering)[Len(posted) + 2] = answered[Len(posted) + 2]
      BY <3>1, <3>2, <2>3
    <3> QED BY <3>3 DEF Answering
  <2> HIDE DEF m
  <2>8. /\ Len(posted') = Len(posted) + 1
        /\ \A i \in 1..Len(posted) : posted'[i] = posted[i]
        /\ posted'[Len(posted) + 1] = m
    BY <2>3, <2>4, <2>6
  <2>9. Upstream'
    <3>1. Len(posted') + 2 = RecvMessage + 1
      BY <2>2, <2>3, <2>8
    <3> QED BY <3>1, <2>1, <2>6
  <2>10. Len(posted') + 1 <= Len(answered')
    BY <1>1, <2>1, <2>2, <2>3, <2>8
  <2>11. ASSUME NEW i \in 1..Len(posted') PROVE posted'[i] = answered'[i + 1]
    <3>1. i = Len(posted) + 1 \/ i \in 1..Len(posted)
      BY <2>3, <2>8, UpToNext
    <3>2. CASE i = Len(posted) + 1
      <4>1. i + 1 = Len(posted) + 2
        BY <3>2, <2>3
      <4> QED BY <4>1, <3>2, <2>7, <2>8, <1>1
    <3>3. CASE i \in 1..Len(posted)
      BY <3>3, <2>8, <1>1 DEF Posted
    <3> QED BY <3>1, <3>2, <3>3
  <2>12. Posted'
    BY <2>10, <2>11, <1>1, <1>3 DEF Posted
  <2> QED BY <2>9, <2>12
<1> QED BY <1>4, <1>5

LEMMA HelloInOrder ==
  ASSUME TypeOK, Sending, Distinct(read), Posted, Upstream, RecvHello
  PROVE  Posted' /\ (pc' # "gone" => Upstream')
<1>1. /\ pc = "hello_pkt" /\ posted = <<>> /\ Len(posted) = 0
      /\ UNCHANGED <<read, answered, answered_bytes, res_len, sent, posted>>
  BY DEF RecvHello, checker, Sending, Handshake
<1>2. PICK chunk \in Chunks(res_len) :
        /\ Recv(chunk)
        /\ IF Len(received \o chunk) = res_len
           THEN pc' \in {"loop", "gone"} /\ received' = <<>>
           ELSE received' = received \o chunk /\ UNCHANGED pc
  BY DEF RecvHello, Complete
<1>3. CASE Len(received \o chunk) # res_len
  <2>1. received' = received \o chunk /\ UNCHANGED <<pc, posted>>
    BY <1>1, <1>2, <1>3
  <2>2. Upstream'
    BY <1>1, <1>2, <1>3, <2>1, UpRecvPacket
  <2>3. pc' \in Handshake
    BY <2>1, <1>1 DEF Handshake
  <2> QED BY <2>2, <2>3, <1>1, PostedQuiet
<1>4. CASE Len(received \o chunk) = res_len
  <2>1. /\ RecvMessage <= Len(answered)
        /\ received' = <<>> /\ pc' = "loop" /\ Len(posted') + 2 = RecvMessage + 1 => Upstream'
    BY <1>1, <1>2, <1>4, UpRecvPacket
  <2>2. RecvMessage = 1 /\ Len(posted') + 2 = RecvMessage + 1
    BY <1>1 DEF RecvMessage, Handshake
  <2>3. answered # <<>>
    BY <2>1, <2>2
  <2> QED BY <1>1, <1>2, <1>4, <2>1, <2>2, <2>3, PostedQuiet
<1> QED BY <1>3, <1>4

LEMMA InOrderStep ==
  ASSUME TypeOK, Sending, Once, Answering, InOrder, [Next]_vars
  PROVE  InOrder'
<1> SUFFICES ASSUME ~cut_up' PROVE Posted' /\ (pc' # "gone" => Upstream')
  BY DEF InOrder
<1>0. ~cut_up
  BY CutUpStays
<1>1. Posted /\ (pc # "gone" => Upstream) /\ Distinct(read)
  BY <1>0 DEF InOrder, Once
<1>2. CASE CheckerReads
  <2>1. UNCHANGED <<pc, posted, answered, sent>>
    BY <1>2 DEF CheckerReads
  <2>2. Posted'
    BY <2>1, <1>1 DEF Posted
  <2> QED BY <1>1, <1>2, <2>1, <2>2, CheckerReadsInOrder
<1>3. CASE CheckerAnswers
  <2>1. UNCHANGED <<pc, received, res_len>>
    BY <1>3 DEF CheckerAnswers, thread
  <2>2. Posted'
    BY <1>1, <1>3, CheckerAnswersInOrder
  <2>3. ASSUME pc # "gone" PROVE Upstream'
    <3>1. Upstream
      BY <2>3, <1>1
    <3>2. Flow(received' \o up', read', UpTotal, RecvMessage', RecvByte', Len(answered') + 1,
               answered_bytes' + 1)
      BY <3>1, <1>1, <1>3, UpGrows
    <3>3. UpTotal' = UpTotal
      BY DEF UpTotal
    <3> QED BY <2>1, <3>1, <3>2, <3>3 DEF Upstream
  <2> QED BY <2>1, <2>2, <2>3
<1>4. ASSUME NEW from, NEW to, RecvLength(from, to),
             (from = "hello_len" /\ to = "hello_pkt") \/ (from = "recv_len" /\ to = "recv_pkt")
      PROVE  Posted' /\ (pc' # "gone" => Upstream')
  <2>1. /\ pc = from /\ (pc' = pc \/ pc' = to) /\ UNCHANGED <<posted, answered, sent>>
    BY <1>4 DEF RecvLength, checker, Goto
  <2>2. Upstream'
    BY <1>1, <1>4, <2>1, UpRecvLength
  <2>3. Posted'
    BY <1>1, <1>4, <2>1 DEF Posted, Handshake
  <2> QED BY <2>2, <2>3
<1>5. CASE RecvHello
  <2>1. pc # "gone"
    BY <1>5 DEF RecvHello
  <2> QED BY <2>1, <1>1, <1>5, HelloInOrder
<1>6. CASE RecvResult
  <2>1. pc # "gone"
    BY <1>6 DEF RecvResult
  <2> QED BY <2>1, <1>1, <1>6, ResultInOrder
<1>7. ASSUME pc \notin {"gone", "hello_pkt", "recv_pkt"}, pc' \notin {"hello_pkt", "recv_pkt"},
             (pc \in Handshake /\ pc' \in Handshake)
               \/ (pc \notin Handshake /\ pc' \notin Handshake),
             received = <<>>, sent' = sent \/ pc \notin Handshake,
             UNCHANGED <<received, up, read, answered, answered_bytes, posted>>
      PROVE  Posted' /\ Upstream'
  <2>1. UNCHANGED <<RecvMessage, RecvByte>>
    BY <1>7 DEF RecvMessage, RecvByte
  <2>2. Upstream'
    BY <2>1, <1>1, <1>7, UpQuiet
  <2>3. pc \notin Handshake => answered # <<>>
    BY <1>1, <1>7 DEF Posted
  <2> QED BY <2>2, <2>3, <1>1, <1>7, PostedQuiet
<1>8. ASSUME pc \in {"welcome", "loop", "send"} PROVE received = <<>>
  BY <1>1, <1>8 DEF Upstream
<1>9. CASE SendWelcome
  <2>1. /\ pc = "welcome" /\ pc' \in {"welcome", "hello_len"}
        /\ UNCHANGED <<received, up, read, answered, answered_bytes, posted, sent>>
    BY <1>9 DEF SendWelcome, checker, Goto
  <2> QED BY <2>1, <1>7, <1>8 DEF Handshake
<1>10. CASE ProcessSolutions
  <2>1. /\ pc = "loop" /\ pc' \in {"recv_len", "send"}
        /\ UNCHANGED <<received, up, read, answered, answered_bytes, posted, sent>>
    BY <1>10 DEF ProcessSolutions, thread, checker, Goto
  <2> QED BY <2>1, <1>7, <1>8 DEF Handshake
<1>11. CASE SendSolution
  <2>1. /\ pc = "send" /\ pc' \in {"recv_len", "send"}
        /\ UNCHANGED <<received, up, read, answered, answered_bytes, posted>>
    BY <1>11 DEF SendSolution, checker, Goto
  <2> QED BY <2>1, <1>7, <1>8 DEF Handshake
<1>12. CASE SendTimeout \/ SendError
  <2>1. /\ pc = "send" /\ pc' \in {"send", "gone"}
        /\ UNCHANGED <<received, up, read, answered, answered_bytes, posted, sent>>
    BY <1>12 DEF SendTimeout, SendError, SendAgain, checker, Goto
  <2> QED BY <2>1, <1>7, <1>8 DEF Handshake
<1>13. CASE LoopEnds
  <2>1. /\ pc = "loop" /\ pc' = "gone"
        /\ UNCHANGED <<received, up, read, answered, answered_bytes, posted, sent>>
    BY <1>13 DEF LoopEnds, thread, checker, Goto
  <2> QED BY <2>1, <1>7, <1>8 DEF Handshake
<1>14. CASE HelloFails
  <2>1. pc' = "gone" /\ UNCHANGED <<posted, answered, sent>>
    BY <1>14 DEF HelloFails, RecvFails, checker, Goto
  <2> QED BY <2>1, <1>1, PostedQuiet
<1>15. CASE RecvTimeout \/ RecvError
  <2>1. RecvFails(received # <<>>)
    BY <1>15 DEF RecvTimeout, RecvError
  <2>2. received = <<>> /\ received' = <<>>
    BY <2>1, Zenon DEF RecvFails
  <2>3. /\ pc = "recv_len" /\ pc' \in {"loop", "gone"}
        /\ UNCHANGED <<up, read, answered, answered_bytes, posted, sent>>
    BY <1>15 DEF RecvTimeout, RecvError, RecvFails, checker, Goto
  <2> QED BY <2>2, <2>3, <1>7 DEF Handshake
<1>16. CASE BrokenPacket
  <2>1. RecvFails(TRUE)
    BY <1>16 DEF BrokenPacket
  <2>2. cut_up'
    BY <2>1, Zenon DEF RecvFails
  <2> QED BY <2>2
<1>17. CASE UNCHANGED vars
  <2>1. /\ UNCHANGED <<pc, received, res_len, up, read, answered, answered_bytes>>
        /\ UNCHANGED <<posted, sent>>
    BY <1>17 DEF vars, thread, checker
  <2>2. UNCHANGED <<RecvMessage, RecvByte, UpTotal>>
    BY <2>1 DEF RecvMessage, RecvByte, UpTotal
  <2> QED BY <2>1, <2>2, <1>1 DEF Posted, Upstream
<1> QED BY <1>2, <1>3, <1>4, <1>5, <1>6, <1>9, <1>10, <1>11, <1>12, <1>13, <1>14, <1>15,
      <1>16, <1>17 DEF Next, client_loop

LEMMA InOrderInit == Init => InOrder
<1> SUFFICES ASSUME Init PROVE Posted /\ Upstream
  BY DEF InOrder
<1>1. /\ pc = "welcome" /\ received = <<>> /\ up = <<>> /\ read = <<>> /\ answered = <<>>
      /\ posted = <<>> /\ sent = <<>> /\ answered_bytes = 0
  BY DEF Init
<1>2. RecvMessage = 1 /\ RecvByte = 1
  BY <1>1 DEF RecvMessage, RecvByte, Handshake
<1>3. /\ received \o up = <<>> /\ Len(received) = 0 /\ Len(read) = 0 /\ Len(answered) = 0
      /\ Len(posted) = 0
  BY <1>1
<1>4. Position(read, UpTotal, 1, 1)
  BY <1>3 DEF Position
<1>5. Flow(<<>>, read, UpTotal, 1, 1, 1, 1)
  BY <1>4 DEF Flow, Bounded, Runs, Seams, Begins, Finishes
<1>6. Upstream
  BY <1>1, <1>2, <1>3, <1>5 DEF Upstream
<1>7. Posted
  BY <1>1, <1>3 DEF Posted, Handshake
<1> QED BY <1>6, <1>7

(* The results that are posted are the answers of the checker, whole and in *)
(* its order, while no failed call has cut one, for every split that recv   *)
(* makes and every interleaving of the checker and the client's thread.     *)
THEOREM PostedAreAnswers == Spec => []ResultsAreAnswers
<1> DEFINE Inv == TypeOK /\ Sending /\ Once /\ Answering /\ InOrder
<1>1. Init => Inv
  BY TypeInit, SendingInit, OnceInit, AnsweringInit, InOrderInit
<1>2. Inv /\ [Next]_vars => Inv'
  BY TypeStep, SendingStep, OnceStep, AnsweringStep, InOrderStep
<1>3. Inv => ResultsAreAnswers
  <2> SUFFICES ASSUME TypeOK, InOrder, ~cut_up, posted # <<>>
               PROVE  IsPrefix(<<Welcome>> \o posted, answered)
    BY DEF ResultsAreAnswers
  <2>1. Posted
    BY DEF InOrder
  <2> DEFINE W == <<Welcome>> \o posted
  <2>2. /\ posted \in Seq(Messages) /\ answered \in Seq(Messages) /\ Len(posted) \in Nat
        /\ Len(answered) \in Nat /\ <<Welcome>> \in Seq(Messages)
    BY DEF TypeOK, Messages
  <2>3. /\ W \in Seq(Messages) /\ Len(W) = Len(posted) + 1 /\ W[1] = Welcome
        /\ \A i \in 1..Len(posted) : W[i + 1] = posted[i]
    BY <2>2
  <2> HIDE DEF W
  <2>4. Len(W) <= Len(answered)
    BY <2>1, <2>3 DEF Posted
  <2>5. \A i \in 1..Len(W) : W[i] = answered[i]
    <3> SUFFICES ASSUME NEW i \in 1..Len(W) PROVE W[i] = answered[i]
      OBVIOUS
    <3>1. CASE i = 1
      <4>1. answered # <<>>
        BY <2>2, <2>3, <2>4
      <4> QED BY <4>1, <3>1, <2>1, <2>3 DEF Posted
    <3>2. CASE i > 1
      <4>1. i - 1 \in 1..Len(posted) /\ (i - 1) + 1 = i
        BY <3>2, <2>2, <2>3
      <4>2. W[(i - 1) + 1] = posted[i - 1] /\ posted[i - 1] = answered[(i - 1) + 1]
        BY <4>1, <2>1, <2>3 DEF Posted
      <4> QED BY <4>1, <4>2
    <3>3. i = 1 \/ i > 1
      BY <2>2, <2>3
    <3> QED BY <3>1, <3>2, <3>3
  <2>6. SubSeq(W, 1, Len(W)) = SubSeq(answered, 1, Len(W))
    <3>1. /\ SubSeq(W, 1, Len(W)) \in Seq(Messages) /\ Len(SubSeq(W, 1, Len(W))) = Len(W)
          /\ \A i \in 1..Len(W) : SubSeq(W, 1, Len(W))[i] = W[i]
      BY <2>2, <2>3
    <3>2. /\ SubSeq(answered, 1, Len(W)) \in Seq(Messages)
          /\ Len(SubSeq(answered, 1, Len(W))) = Len(W)
          /\ \A i \in 1..Len(W) : SubSeq(answered, 1, Len(W))[i] = answered[i]
      BY <2>2, <2>3, <2>4
    <3> QED BY <3>1, <3>2, <2>5, SeqEqual
  <2> QED BY <2>4, <2>6 DEF IsPrefix, W
<1> QED BY <1>1, <1>2, <1>3, PTL DEF Spec
==============================================================================
