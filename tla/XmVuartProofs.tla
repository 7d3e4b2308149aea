---------------------------- MODULE XmVuartProofs ----------------------------
(***************************************************************************)
(* The list of domains, the devices they count on and the serial line, for *)
(* any number of domains, priorities and devices: the list is well linked  *)
(* and implements the order the scheduler walks along, a domain keeps its  *)
(* devices, and a line has one user.  Then the packets on that line, for   *)
(* any lines, bytes, priorities and sizes: what a reader finds of its peer *)
(* is in order and, if the receiver is on time, packets are not joined.    *)
(***************************************************************************)
EXTENDS XmVuart, XmSerial, FiniteSetTheorems, SequenceTheorems, WellFoundedInduction, TLAPS

-----------------------------------------------------------------------------
(* The walk.                                                               *)

LEMMA LeastNat ==
  ASSUME NEW S \in SUBSET Nat, S # {}
  PROVE  \E x \in S : \A y \in S : x <= y
<1> DEFINE Less == {p \in Nat \X Nat : p[1] < p[2]}
<1>1. IsWellFoundedOn(Less, Nat)
  BY NatLessThanWellFounded DEF OpToRel
<1> HIDE DEF Less
<1>2. PICK x \in S : \A y \in S : ~(<<y, x>> \in Less)
  BY <1>1, WFMin
<1>3. \A y \in S : x <= y
  <2> SUFFICES ASSUME NEW y \in S PROVE x <= y
    OBVIOUS
  <2>1. x \in Nat /\ y \in Nat
    OBVIOUS
  <2>2. y < x => <<y, x>> \in Less
    BY <2>1 DEF Less
  <2> QED
    BY <1>2, <2>1, <2>2
<1> QED
  BY <1>3

(* w is the list l: next and prev mirror each other along it, and nothing  *)
(* else is linked.                                                         *)
Chain(l, w) ==
  /\ l \in Lists
  /\ w \in Seq(Nodes) /\ Len(w) >= 1
  /\ \A i, j \in 1 .. Len(w) : w[i] = w[j] => i = j
  /\ l.head = w[1]
  /\ \A i \in 1 .. Len(w) : l.next[w[i]] = IF i = Len(w) THEN Nil ELSE w[i + 1]
  /\ \A i \in 1 .. Len(w) : l.prev[w[i]] = IF i = 1 THEN Nil ELSE w[i - 1]
  /\ \A n \in Nodes : (\A i \in 1 .. Len(w) : w[i] # n) => l.next[n] = Nil /\ l.prev[n] = Nil

LEMMA Bounded ==
  ASSUME NEW w \in Seq(Nodes), \A i, j \in 1 .. Len(w) : w[i] = w[j] => i = j
  PROVE  Cardinality(Nodes) \in Nat /\ Len(w) <= Cardinality(Nodes)
<1>1. IsFiniteSet(Nodes) /\ Cardinality(Nodes) \in Nat
  BY FS_CardinalityType, DomListAssumption DEF DomListAssumption
<1> DEFINE f == [i \in 1 .. Len(w) |-> w[i]]
<1>2. f \in Injection(1 .. Len(w), Nodes)
  BY DEF Injection, IsInjective
<1>3. Cardinality(1 .. Len(w)) = Len(w)
  <2> DEFINE m == Len(w)
  <2>1. m \in Nat
    OBVIOUS
  <2> HIDE DEF m
  <2>2. Cardinality(1 .. m) = m
    BY <2>1, FS_Interval
  <2> QED
    BY <2>2 DEF m
<1> QED
  BY <1>1, <1>2, <1>3, FS_Injection

(* f are the nodes met in n steps along next.                              *)
NextOf(l) == [m \in Nodes \cup {Nil} |-> IF m = Nil THEN Nil ELSE l.next[m]]

Meets(l, f, n) == f = [i \in 1 .. n |-> IF i = 1 THEN l.head ELSE NextOf(l)[f[i - 1]]]

LEMMA MeetsExists ==
  ASSUME NEW l, NEW m \in Nat
  PROVE  \E f : Meets(l, f, m)
<1> DEFINE Lacking == {n \in Nat : ~ \E f : Meets(l, f, n)}
<1>1. Lacking = {}
  <2> SUFFICES ASSUME Lacking # {} PROVE FALSE
    OBVIOUS
  <2>1. Lacking \in SUBSET Nat
    OBVIOUS
  <2>2. PICK n \in Lacking : \A x \in Lacking : n <= x
    BY <2>1, LeastNat
  <2>3. n \in Nat /\ ~ \E f : Meets(l, f, n)
    OBVIOUS
  <2>4. n # 0
    <3> DEFINE e == [i \in 1 .. 0 |-> l.head]
    <3>1. e = [i \in 1 .. 0 |-> IF i = 1 THEN l.head ELSE NextOf(l)[e[i - 1]]]
      <4>1. \A i \in 1 .. 0 : i = 1
        OBVIOUS
      <4> QED
        BY <4>1
    <3> QED
      BY <2>3, <3>1 DEF Meets
  <2>5. n - 1 \in Nat /\ ~(n <= n - 1)
    BY <2>3, <2>4
  <2>6. PICK f : Meets(l, f, n - 1)
    BY <2>2, <2>5
  <2> DEFINE g == [i \in 1 .. n |-> IF i = 1 THEN l.head ELSE NextOf(l)[f[i - 1]]]
  <2>7. \A i \in 1 .. n - 1 : g[i] = f[i]
    BY <2>3, <2>6 DEF Meets
  <2>8. \A i \in 1 .. n : i # 1 => i - 1 \in 1 .. n - 1
    BY <2>3
  <2> HIDE DEF g
  <2>9. \A i \in 1 .. n : i # 1 => NextOf(l)[f[i - 1]] = NextOf(l)[g[i - 1]]
    BY <2>7, <2>8
  <2>10. g = [i \in 1 .. n |-> IF i = 1 THEN l.head ELSE NextOf(l)[g[i - 1]]]
    BY <2>9 DEF g
  <2> QED
    BY <2>3, <2>10 DEF Meets
<1> QED
  BY <1>1

(* A walk along next meets the list.                                       *)
LEMMA WalkIs ==
  ASSUME NEW l, NEW w, Chain(l, w)
  PROVE  Walk(l) = w
<1> DEFINE N == Cardinality(Nodes)
           f == CHOOSE f : f = [i \in 1 .. N |-> IF i = 1 THEN l.head ELSE NextOf(l)[f[i - 1]]]
           n == Cardinality({i \in 1 .. N : f[i] # Nil})
<1>1. /\ N \in Nat /\ Len(w) \in 1 .. N /\ w \in Seq(Nodes)
      /\ \A i \in 1 .. Len(w) : w[i] \in Nodes /\ w[i] # Nil
      /\ l.head = w[1]
      /\ \A i \in 1 .. Len(w) : l.next[w[i]] = IF i = Len(w) THEN Nil ELSE w[i + 1]
  BY Bounded, DomListAssumption DEF Chain
<1>2. f = [i \in 1 .. N |-> IF i = 1 THEN l.head ELSE NextOf(l)[f[i - 1]]]
  <2>1. \E g : g = [i \in 1 .. N |-> IF i = 1 THEN l.head ELSE NextOf(l)[g[i - 1]]]
    BY <1>1, MeetsExists DEF Meets
  <2> HIDE DEF N
  <2> QED
    BY <2>1
<1>3. Walk(l) = [i \in 1 .. n |-> f[i]]
  BY DEF Walk, NextOf
<1> HIDE DEF N, f
<1>4. \A i \in 1 .. N : f[i] = IF i = 1 THEN l.head ELSE NextOf(l)[f[i - 1]]
  BY <1>2
<1> DEFINE Met(i) == IF i <= Len(w) THEN w[i] ELSE Nil
           Wrong == {i \in 1 .. N : f[i] # Met(i)}
<1>5. Wrong = {}
  <2> SUFFICES ASSUME Wrong # {} PROVE FALSE
    OBVIOUS
  <2>1. Wrong \in SUBSET Nat
    OBVIOUS
  <2>2. PICK k \in Wrong : \A x \in Wrong : k <= x
    BY <2>1, LeastNat
  <2>3. k \in 1 .. N /\ f[k] # Met(k)
    OBVIOUS
  <2>4. k # 1
    BY <1>1, <1>4, <2>3
  <2>5. k - 1 \in 1 .. N /\ ~(k <= k - 1)
    BY <1>1, <2>3, <2>4
  <2>6. f[k - 1] = Met(k - 1)
    BY <2>2, <2>5
  <2>7. f[k] = NextOf(l)[f[k - 1]]
    BY <1>4, <2>3, <2>4
  <2>8. CASE k - 1 <= Len(w)
    <3>1. f[k - 1] = w[k - 1] /\ k - 1 \in 1 .. Len(w)
      BY <1>1, <2>5, <2>6, <2>8
    <3>2. f[k] = l.next[w[k - 1]]
      BY <1>1, <2>7, <3>1 DEF NextOf
    <3>3. k - 1 + 1 = k
      BY <2>3
    <3>4. f[k] = IF k - 1 = Len(w) THEN Nil ELSE w[k]
      BY <1>1, <3>1, <3>2, <3>3
    <3> QED
      BY <1>1, <2>3, <3>1, <3>4
  <2>9. CASE ~(k - 1 <= Len(w))
    <3>1. f[k - 1] = Nil
      BY <2>6, <2>9
    <3>2. f[k] = Nil
      BY <2>7, <3>1 DEF NextOf
    <3>3. ~(k <= Len(w))
      BY <1>1, <2>3, <2>9
    <3> QED
      BY <2>3, <3>2, <3>3
  <2> QED
    BY <2>8, <2>9
<1>6. \A i \in 1 .. N : f[i] = Met(i)
  BY <1>5
<1>7. {i \in 1 .. N : f[i] # Nil} = 1 .. Len(w)
  BY <1>1, <1>6
<1>8. n = Len(w)
  <2>1. Len(w) \in Nat /\ ~(1 > Len(w)) /\ Len(w) - 1 + 1 = Len(w)
    BY <1>1
  <2>2. Cardinality(1 .. Len(w)) = IF 1 > Len(w) THEN 0 ELSE Len(w) - 1 + 1
    <3> DEFINE m == Len(w)
    <3>1. m \in Int
      BY <2>1
    <3> HIDE DEF m
    <3>2. Cardinality(1 .. m) = IF 1 > m THEN 0 ELSE m - 1 + 1
      BY <3>1, FS_Interval
    <3> QED
      BY <3>2 DEF m
  <2> QED
    BY <1>7, <2>1, <2>2
<1> HIDE DEF n
<1>9. \A i \in 1 .. Len(w) : f[i] = w[i]
  BY <1>1, <1>6
<1>10. w = [i \in 1 .. Len(w) |-> w[i]]
  BY <1>1
<1> QED
  BY <1>3, <1>8, <1>9, <1>10

-----------------------------------------------------------------------------
(* Sequences of which one has an element more.                             *)

(* t is s with e behind the first k.                                       *)
Spread(s, t, k, e) ==
  /\ Len(t) = Len(s) + 1 /\ k \in 0 .. Len(s)
  /\ \A i \in 1 .. k : t[i] = s[i]
  /\ t[k + 1] = e
  /\ \A i \in k + 1 .. Len(s) : t[i + 1] = s[i]

With(s, k, e) == SubSeq(s, 1, k) \o <<e>> \o SubSeq(s, k + 1, Len(s))
Without(t, k) == SubSeq(t, 1, k - 1) \o SubSeq(t, k + 1, Len(t))

LEMMA WithSpreads ==
  ASSUME NEW S, NEW s \in Seq(S), NEW e \in S, NEW k \in 0 .. Len(s)
  PROVE  With(s, k, e) \in Seq(S) /\ Spread(s, With(s, k, e), k, e)
<1> DEFINE x == SubSeq(s, 1, k)
           y == SubSeq(s, k + 1, Len(s))
           u == x \o <<e>>
<1>1. Len(s) \in Nat /\ \A i \in 1 .. Len(s) : s[i] \in S
  OBVIOUS
<1>2. x \in Seq(S) /\ Len(x) = k /\ \A i \in 1 .. k : x[i] = s[i]
  BY <1>1
<1>3. y \in Seq(S) /\ Len(y) = Len(s) - k /\ \A i \in 1 .. Len(s) - k : y[i] = s[k + i]
  BY <1>1
<1> HIDE DEF x, y
<1>4. /\ u \in Seq(S) /\ Len(u) = k + 1 /\ \A i \in 1 .. k : u[i] = s[i]
      /\ u[k + 1] = e
  BY <1>1, <1>2
<1> HIDE DEF u
<1>5. /\ u \o y \in Seq(S) /\ Len(u \o y) = Len(s) + 1
      /\ \A i \in 1 .. k + 1 : (u \o y)[i] = u[i]
      /\ \A i \in k + 2 .. Len(s) + 1 : (u \o y)[i] = y[i - (k + 1)]
  BY <1>1, <1>3, <1>4
<1>6. \A i \in k + 1 .. Len(s) : (u \o y)[i + 1] = s[i]
  <2> SUFFICES ASSUME NEW i \in k + 1 .. Len(s) PROVE (u \o y)[i + 1] = s[i]
    OBVIOUS
  <2>1. i + 1 \in k + 2 .. Len(s) + 1 /\ i - k \in 1 .. Len(s) - k /\ k + (i - k) = i
        /\ i + 1 - (k + 1) = i - k
    BY <1>1
  <2>2. (u \o y)[i + 1] = y[i - k]
    BY <1>5, <2>1
  <2>3. y[i - k] = s[i]
    BY <1>3, <2>1
  <2> QED
    BY <2>2, <2>3
<1>7. With(s, k, e) = u \o y
  BY DEF With, u, x, y
<1> QED
  BY <1>1, <1>4, <1>5, <1>6, <1>7 DEF Spread

LEMMA WithoutSpreads ==
  ASSUME NEW S, NEW t \in Seq(S), NEW k \in 1 .. Len(t)
  PROVE  Without(t, k) \in Seq(S) /\ Spread(Without(t, k), t, k - 1, t[k])
<1> DEFINE x == SubSeq(t, 1, k - 1)
           y == SubSeq(t, k + 1, Len(t))
<1>1. Len(t) \in Nat /\ \A i \in 1 .. Len(t) : t[i] \in S
  OBVIOUS
<1>2. x \in Seq(S) /\ Len(x) = k - 1 /\ \A i \in 1 .. k - 1 : x[i] = t[i]
  BY <1>1
<1>3. y \in Seq(S) /\ Len(y) = Len(t) - k /\ \A i \in 1 .. Len(t) - k : y[i] = t[k + i]
  BY <1>1
<1> HIDE DEF x, y
<1>4. /\ x \o y \in Seq(S) /\ Len(x \o y) = Len(t) - 1
      /\ \A i \in 1 .. k - 1 : (x \o y)[i] = x[i]
      /\ \A i \in k .. Len(t) - 1 : (x \o y)[i] = y[i - (k - 1)]
  BY <1>1, <1>2, <1>3
<1>5. \A i \in k .. Len(t) - 1 : t[i + 1] = (x \o y)[i]
  <2> SUFFICES ASSUME NEW i \in k .. Len(t) - 1 PROVE t[i + 1] = (x \o y)[i]
    OBVIOUS
  <2>1. i - (k - 1) \in 1 .. Len(t) - k /\ k + (i - (k - 1)) = i + 1
    BY <1>1
  <2> QED
    BY <1>3, <1>4, <2>1
<1>6. Without(t, k) = x \o y
  BY DEF Without, x, y
<1>7. k - 1 \in 0 .. Len(t) - 1 /\ k - 1 + 1 = k /\ Len(t) - 1 + 1 = Len(t)
  BY <1>1
<1> QED
  BY <1>1, <1>2, <1>4, <1>5, <1>6, <1>7 DEF Spread

(* There is one such t and, given t, one such s.                           *)
LEMMA SpreadIs ==
  ASSUME NEW S, NEW s \in Seq(S), NEW t \in Seq(S), NEW e \in S, NEW k \in 0 .. Len(s),
         Spread(s, t, k, e)
  PROVE  t = With(s, k, e) /\ s = Without(t, k + 1)
<1>1. Len(s) \in Nat /\ Len(t) = Len(s) + 1 /\ k \in 0 .. Len(s) /\ k + 1 \in 1 .. Len(t)
      /\ k + 1 - 1 = k
  BY DEF Spread
<1>2. With(s, k, e) \in Seq(S) /\ Spread(s, With(s, k, e), k, e)
  BY WithSpreads
<1>3. Without(t, k + 1) \in Seq(S) /\ Spread(Without(t, k + 1), t, k, t[k + 1])
  BY <1>1, WithoutSpreads
<1> DEFINE v == With(s, k, e)
           r == Without(t, k + 1)
<1> HIDE DEF v, r
<1>4. v \in Seq(S) /\ Spread(s, v, k, e) /\ r \in Seq(S) /\ Spread(r, t, k, t[k + 1])
  BY <1>2, <1>3 DEF v, r
<1>5. t = v
  <2>1. Len(t) = Len(v)
    BY <1>4 DEF Spread
  <2>2. \A i \in 1 .. Len(t) : t[i] = v[i]
    <3> SUFFICES ASSUME NEW i \in 1 .. Len(t) PROVE t[i] = v[i]
      OBVIOUS
    <3>1. i \in 1 .. k \/ i = k + 1 \/ (i - 1 \in k + 1 .. Len(s) /\ i - 1 + 1 = i)
      BY <1>1
    <3>2. CASE i \in 1 .. k
      BY <1>4, <3>2 DEF Spread
    <3>3. CASE i = k + 1
      BY <1>4, <3>3 DEF Spread
    <3>4. CASE i - 1 \in k + 1 .. Len(s) /\ i - 1 + 1 = i
      <4>1. t[i - 1 + 1] = s[i - 1] /\ v[i - 1 + 1] = s[i - 1]
        BY <1>4, <3>4 DEF Spread
      <4> QED
        BY <3>4, <4>1
    <3> QED
      BY <3>1, <3>2, <3>3, <3>4
  <2> QED
    BY <1>4, <2>1, <2>2, SeqEqual
<1>6. s = r
  <2>1. Len(s) = Len(r)
    BY <1>1, <1>4 DEF Spread
  <2>2. \A i \in 1 .. Len(s) : s[i] = r[i]
    <3> SUFFICES ASSUME NEW i \in 1 .. Len(s) PROVE s[i] = r[i]
      OBVIOUS
    <3>1. i \in 1 .. k \/ i \in k + 1 .. Len(s)
      BY <1>1
    <3> QED
      BY <1>4, <2>1, <3>1 DEF Spread
  <2> QED
    BY <1>4, <2>1, <2>2, SeqEqual
<1> QED
  BY <1>5, <1>6 DEF v, r

-----------------------------------------------------------------------------
(* Insertion.                                                              *)

Fresh(w, n) == n \in Nodes /\ \A i \in 1 .. Len(w) : w[i] # n

Sorted(l, w) == \A i, j \in 1 .. Len(w) : i <= j => l.prio[w[i]] <= l.prio[w[j]]

(* What the new pointers must be.                                          *)
LinkedIn(l, m, w, k, n) ==
  /\ m \in Lists
  /\ m.head = IF k = 0 THEN n ELSE l.head
  /\ m.next[n] = IF k = Len(w) THEN Nil ELSE w[k + 1]
  /\ m.prev[n] = IF k = 0 THEN Nil ELSE w[k]
  /\ k # 0 => m.next[w[k]] = n
  /\ k # Len(w) => m.prev[w[k + 1]] = n
  /\ \A x \in Nodes \ {n} : (k # 0 => x # w[k]) => m.next[x] = l.next[x]
  /\ \A x \in Nodes \ {n} : (k # Len(w) => x # w[k + 1]) => m.prev[x] = l.prev[x]

LEMMA LinkedChain ==
  ASSUME NEW l, NEW m, NEW w, Chain(l, w), NEW n, Fresh(w, n), NEW k \in 0 .. Len(w),
         LinkedIn(l, m, w, k, n)
  PROVE  Chain(m, With(w, k, n))
<1> DEFINE t == With(w, k, n)
<1>1. /\ w \in Seq(Nodes) /\ Len(w) \in Nat /\ Len(w) >= 1 /\ n \in Nodes /\ k \in 0 .. Len(w)
      /\ \A i, j \in 1 .. Len(w) : w[i] = w[j] => i = j
      /\ \A i \in 1 .. Len(w) : w[i] \in Nodes /\ w[i] # n
  BY DEF Chain, Fresh
<1>2. t \in Seq(Nodes) /\ Spread(w, t, k, n)
  BY <1>1, WithSpreads
<1> HIDE DEF t
<1>3. /\ Len(t) = Len(w) + 1
      /\ \A i \in 1 .. k : t[i] = w[i]
      /\ t[k + 1] = n
      /\ \A i \in k + 1 .. Len(w) : t[i + 1] = w[i]
  BY <1>2 DEF Spread
(* Where an index of t comes from.                                         *)
<1>4. \A i \in 1 .. Len(t) : \/ i \in 1 .. k /\ t[i] = w[i]
                             \/ i = k + 1 /\ t[i] = n
                             \/ i - 1 \in k + 1 .. Len(w) /\ t[i] = w[i - 1]
  <2> SUFFICES ASSUME NEW i \in 1 .. Len(t), ~(i \in 1 .. k), i # k + 1
               PROVE  i - 1 \in k + 1 .. Len(w) /\ t[i] = w[i - 1]
    BY <1>1, <1>3
  <2>1. i - 1 \in k + 1 .. Len(w) /\ i - 1 + 1 = i
    BY <1>1, <1>3
  <2> QED
    BY <1>3, <2>1
<1>5. \A i, j \in 1 .. Len(t) : t[i] = t[j] => i = j
  <2> SUFFICES ASSUME NEW i \in 1 .. Len(t), NEW j \in 1 .. Len(t), t[i] = t[j] PROVE i = j
    OBVIOUS
  <2>1. \/ i \in 1 .. k /\ t[i] = w[i]
        \/ i = k + 1 /\ t[i] = n
        \/ i - 1 \in k + 1 .. Len(w) /\ t[i] = w[i - 1]
    BY <1>4
  <2>2. \/ j \in 1 .. k /\ t[j] = w[j]
        \/ j = k + 1 /\ t[j] = n
        \/ j - 1 \in k + 1 .. Len(w) /\ t[j] = w[j - 1]
    BY <1>4
  <2>3. \A u \in 1 .. k : u \in 1 .. Len(w)
    BY <1>1
  <2>4. \A u \in k + 1 .. Len(w) : u \in 1 .. Len(w)
    BY <1>1
  <2>5. CASE i \in 1 .. k /\ t[i] = w[i]
    <3>1. i \in 1 .. Len(w) /\ t[j] # n
      BY <1>1, <2>3, <2>5
    <3>2. CASE j \in 1 .. k /\ t[j] = w[j]
      BY <1>1, <2>3, <2>5, <3>1, <3>2
    <3>3. CASE j - 1 \in k + 1 .. Len(w) /\ t[j] = w[j - 1]
      <4>1. i = j - 1
        BY <1>1, <2>4, <2>5, <3>1, <3>3
      <4> QED
        BY <1>1, <2>5, <3>3, <4>1
    <3> QED
      BY <2>2, <3>1, <3>2, <3>3
  <2>6. CASE i = k + 1 /\ t[i] = n
    BY <1>1, <2>2, <2>3, <2>4, <2>6
  <2>7. CASE i - 1 \in k + 1 .. Len(w) /\ t[i] = w[i - 1]
    <3>1. i - 1 \in 1 .. Len(w) /\ t[j] # n
      BY <1>1, <2>4, <2>7
    <3>2. CASE j \in 1 .. k /\ t[j] = w[j]
      <4>1. i - 1 = j
        BY <1>1, <2>3, <2>7, <3>1, <3>2
      <4> QED
        BY <1>1, <2>7, <3>2, <4>1
    <3>3. CASE j - 1 \in k + 1 .. Len(w) /\ t[j] = w[j - 1]
      <4>1. i - 1 = j - 1
        BY <1>1, <2>4, <2>7, <3>1, <3>3
      <4> QED
        BY <4>1
    <3> QED
      BY <2>2, <3>1, <3>2, <3>3
  <2> QED
    BY <2>1, <2>5, <2>6, <2>7
<1>6. m.head = t[1]
  <2>1. CASE k = 0
    BY <1>3, <2>1 DEF LinkedIn
  <2>2. CASE k # 0
    <3>1. 1 \in 1 .. k
      BY <1>1, <2>2
    <3> QED
      BY <1>3, <2>2, <3>1 DEF LinkedIn, Chain
  <2> QED
    BY <2>1, <2>2
<1>7. \A i \in 1 .. Len(t) : m.next[t[i]] = IF i = Len(t) THEN Nil ELSE t[i + 1]
  <2> SUFFICES ASSUME NEW i \in 1 .. Len(t)
               PROVE  m.next[t[i]] = IF i = Len(t) THEN Nil ELSE t[i + 1]
    OBVIOUS
  <2>1. CASE i \in 1 .. k /\ i # k
    <3>1. /\ i \in 1 .. Len(w) /\ i + 1 \in 1 .. k /\ k \in 1 .. Len(w) /\ k # 0
          /\ i # Len(w) /\ i # Len(t)
      BY <1>1, <1>3, <2>1
    <3>2. w[i] # w[k] /\ w[i] \in Nodes \ {n} /\ t[i] = w[i] /\ t[i + 1] = w[i + 1]
      BY <1>1, <1>3, <2>1, <3>1
    <3>3. m.next[w[i]] = l.next[w[i]]
      BY <3>2 DEF LinkedIn
    <3>4. l.next[w[i]] = w[i + 1]
      BY <3>1 DEF Chain
    <3> QED
      BY <3>1, <3>2, <3>3, <3>4
  <2>2. CASE i = k
    <3>1. k # 0 /\ k \in 1 .. k /\ i # Len(t)
      BY <1>1, <1>3, <2>2
    <3> QED
      BY <1>3, <2>2, <3>1 DEF LinkedIn
  <2>3. CASE i = k + 1
    <3>1. CASE k = Len(w)
      BY <1>3, <2>3, <3>1 DEF LinkedIn
    <3>2. CASE k # Len(w)
      <4>1. k + 1 \in k + 1 .. Len(w) /\ i # Len(t)
        BY <1>1, <1>3, <2>3, <3>2
      <4> QED
        BY <1>3, <2>3, <3>2, <4>1 DEF LinkedIn
    <3> QED
      BY <3>1, <3>2
  <2>4. CASE i - 1 \in k + 1 .. Len(w) /\ t[i] = w[i - 1]
    <3> DEFINE j == i - 1
    <3>1. j \in 1 .. Len(w) /\ j + 1 = i /\ (k # 0 => k \in 1 .. Len(w) /\ j # k)
          /\ (i = Len(t) <=> j = Len(w)) /\ (j # Len(w) => j + 1 \in k + 1 .. Len(w))
      BY <1>1, <1>3, <2>4
    <3> HIDE DEF j
    <3>2. w[j] \in Nodes \ {n} /\ (k # 0 => w[j] # w[k])
      BY <1>1, <3>1
    <3>3. m.next[w[j]] = l.next[w[j]]
      BY <3>2 DEF LinkedIn
    <3>4. l.next[w[j]] = IF j = Len(w) THEN Nil ELSE w[j + 1]
      BY <3>1 DEF Chain
    <3>5. j # Len(w) => t[j + 1 + 1] = w[j + 1]
      BY <1>3, <3>1
    <3>6. t[i] = w[j]
      BY <2>4 DEF j
    <3> QED
      BY <3>1, <3>3, <3>4, <3>5, <3>6
  <2> QED
    BY <1>4, <2>1, <2>2, <2>3, <2>4
<1>8. \A i \in 1 .. Len(t) : m.prev[t[i]] = IF i = 1 THEN Nil ELSE t[i - 1]
  <2> SUFFICES ASSUME NEW i \in 1 .. Len(t)
               PROVE  m.prev[t[i]] = IF i = 1 THEN Nil ELSE t[i - 1]
    OBVIOUS
  <2>1. CASE i \in 1 .. k
    <3>1. /\ i \in 1 .. Len(w) /\ (k # Len(w) => k + 1 \in 1 .. Len(w) /\ i # k + 1)
          /\ (i # 1 => i - 1 \in 1 .. k)
      BY <1>1, <2>1
    <3>2. w[i] \in Nodes \ {n} /\ (k # Len(w) => w[i] # w[k + 1]) /\ t[i] = w[i]
          /\ (i # 1 => t[i - 1] = w[i - 1])
      BY <1>1, <1>3, <2>1, <3>1
    <3>3. m.prev[w[i]] = l.prev[w[i]]
      BY <3>2 DEF LinkedIn
    <3>4. l.prev[w[i]] = IF i = 1 THEN Nil ELSE w[i - 1]
      BY <3>1 DEF Chain
    <3> QED
      BY <3>2, <3>3, <3>4
  <2>2. CASE i = k + 1
    <3>1. i = 1 <=> k = 0
      BY <1>1, <2>2
    <3>2. i - 1 = k /\ (k # 0 => k \in 1 .. k)
      BY <1>1, <2>2
    <3>3. k # 0 => t[i - 1] = w[k]
      BY <1>3, <3>2
    <3>4. m.prev[t[i]] = IF k = 0 THEN Nil ELSE w[k]
      BY <1>3, <2>2 DEF LinkedIn
    <3> QED
      BY <3>1, <3>3, <3>4
  <2>3. CASE i - 1 = k + 1 /\ i - 1 \in k + 1 .. Len(w) /\ t[i] = w[i - 1]
    <3>1. k # Len(w) /\ i # 1
      BY <1>1, <2>3
    <3>2. m.prev[w[k + 1]] = n /\ t[k + 1] = n
      BY <1>3, <3>1 DEF LinkedIn
    <3> QED
      BY <2>3, <3>1, <3>2
  <2>4. CASE i - 1 # k + 1 /\ i - 1 \in k + 1 .. Len(w) /\ t[i] = w[i - 1]
    <3> DEFINE j == i - 1
    <3>1. j \in 1 .. Len(w) /\ j + 1 = i /\ k + 1 \in 1 .. Len(w) /\ j # k + 1 /\ j # 1 /\ i # 1
          /\ j - 1 \in k + 1 .. Len(w) /\ j - 1 + 1 = j
      BY <1>1, <2>4
    <3>2. t[i] = w[j] /\ i - 1 = j
      BY <2>4
    <3> HIDE DEF j
    <3>3. w[j] \in Nodes \ {n} /\ w[j] # w[k + 1]
      BY <1>1, <3>1
    <3>4. m.prev[w[j]] = l.prev[w[j]]
      BY <3>3 DEF LinkedIn
    <3>5. l.prev[w[j]] = w[j - 1]
      BY <3>1 DEF Chain
    <3>6. t[j - 1 + 1] = w[j - 1]
      BY <1>3, <3>1
    <3> QED
      BY <3>1, <3>2, <3>4, <3>5, <3>6
  <2> QED
    BY <1>4, <2>1, <2>2, <2>3, <2>4
<1>9. \A x \in Nodes : (\A i \in 1 .. Len(t) : t[i] # x) => m.next[x] = Nil /\ m.prev[x] = Nil
  <2> SUFFICES ASSUME NEW x \in Nodes, \A i \in 1 .. Len(t) : t[i] # x
               PROVE  m.next[x] = Nil /\ m.prev[x] = Nil
    OBVIOUS
  <2>1. x # n
    <3>1. k + 1 \in 1 .. Len(t)
      BY <1>1, <1>3
    <3> QED
      BY <1>3, <3>1
  <2>2. \A i \in 1 .. Len(w) : w[i] # x
    <3> SUFFICES ASSUME NEW i \in 1 .. Len(w) PROVE w[i] # x
      OBVIOUS
    <3>1. i \in 1 .. k \/ i \in k + 1 .. Len(w)
      BY <1>1
    <3>2. i \in 1 .. Len(t) /\ i + 1 \in 1 .. Len(t)
      BY <1>1, <1>3
    <3> QED
      BY <1>3, <3>1, <3>2
  <2>3. (k # 0 => x # w[k]) /\ (k # Len(w) => x # w[k + 1])
    BY <1>1, <2>2
  <2>4. m.next[x] = l.next[x] /\ m.prev[x] = l.prev[x]
    BY <2>1, <2>3 DEF LinkedIn
  <2> QED
    BY <2>2, <2>4 DEF Chain
<1>10. m \in Lists /\ Len(t) >= 1
  BY <1>1, <1>3 DEF LinkedIn
<1> QED
  BY <1>2, <1>5, <1>6, <1>7, <1>8, <1>9, <1>10 DEF Chain, t

Pointers == [Nodes -> Nodes \cup {Nil}]

(* Where the walk of insert_domain_list stops.                             *)
LEMMA StopIs ==
  ASSUME NEW l, NEW w, Chain(l, w), NEW p \in 0 .. RootPrio
  PROVE  \E s \in 1 .. Len(w) :
           /\ Stop(l, p) = w[s]
           /\ \A i \in 1 .. s - 1 : l.prio[w[i]] <= p
           /\ p < l.prio[w[s]] \/ s = Len(w)
<1> DEFINE stops == {i \in 1 .. Len(w) : p < l.prio[w[i]] \/ i = Len(w)}
           s == CHOOSE i \in stops : \A j \in stops : i <= j
<1>1. /\ w \in Seq(Nodes) /\ Len(w) \in Nat /\ Len(w) >= 1 /\ DOMAIN w = 1 .. Len(w)
      /\ l.prio \in [Nodes -> 0 .. RootPrio]
  BY DEF Chain, Lists
<1>2. Walk(l) = w
  BY WalkIs
<1>3. stops \in SUBSET Nat /\ Len(w) \in stops
  BY <1>1
<1>4. \E i \in stops : \A j \in stops : i <= j
  <2> HIDE DEF stops
  <2> QED
    BY <1>3, LeastNat
<1>5. s \in stops /\ \A j \in stops : s <= j
  <2> HIDE DEF stops
  <2> QED
    BY <1>4
<1>6. Stop(l, p) = w[s]
  BY <1>1, <1>2 DEF Stop
<1> HIDE DEF s
<1>7. s \in 1 .. Len(w) /\ (p < l.prio[w[s]] \/ s = Len(w))
  BY <1>5
<1>8. \A i \in 1 .. s - 1 : l.prio[w[i]] <= p
  <2> SUFFICES ASSUME NEW i \in 1 .. s - 1 PROVE l.prio[w[i]] <= p
    OBVIOUS
  <2>1. i \in 1 .. Len(w) /\ ~(s <= i)
    <3> HIDE DEF stops
    <3>1. Len(w) \in Nat /\ s \in 1 .. Len(w)
      BY <1>1, <1>7
    <3> QED
      BY <3>1
  <2>2. i \notin stops
    BY <1>5, <2>1
  <2>3. ~(p < l.prio[w[i]])
    BY <2>1, <2>2
  <2>4. l.prio[w[i]] \in 0 .. RootPrio
    BY <1>1, <2>1
  <2> QED
    BY <2>3, <2>4, DomListAssumption DEF DomListAssumption
<1> QED
  BY <1>6, <1>7, <1>8

(* insert_domain_list puts n behind the nodes of its priority or a higher  *)
(* one, and before the others.                                             *)
InPlace(l, w, k, p) ==
  /\ \A i \in 1 .. k : l.prio[w[i]] <= p
  /\ \A i \in k + 1 .. Len(w) : p < l.prio[w[i]]

LEMMA InsertedIs ==
  ASSUME NEW l, NEW w, Chain(l, w), Sorted(l, w), NEW n, Fresh(w, n), NEW p \in 0 .. RootPrio
  PROVE  /\ Inserted(l, n, p).prio = [l.prio EXCEPT ![n] = p]
         /\ \E k \in 0 .. Len(w) :
              InPlace(l, w, k, p) /\ Chain(Inserted(l, n, p), With(w, k, n))
<1> DEFINE q == Stop(l, p)
           m == Inserted(l, n, p)
<1>1. /\ w \in Seq(Nodes) /\ Len(w) \in Nat /\ Len(w) >= 1 /\ n \in Nodes
      /\ \A i, j \in 1 .. Len(w) : w[i] = w[j] => i = j
      /\ \A i \in 1 .. Len(w) : w[i] \in Nodes /\ w[i] # n
      /\ l \in Lists /\ l.prio \in [Nodes -> 0 .. RootPrio]
      /\ l.next \in [Nodes -> Nodes \cup {Nil}] /\ l.prev \in [Nodes -> Nodes \cup {Nil}]
      /\ l.head = w[1] /\ l.head \in Nodes /\ RootPrio \in Nat /\ Nil \notin Nodes
  BY DomListAssumption DEF Chain, Fresh, Lists, DomListAssumption
<1>2. PICK s \in 1 .. Len(w) : /\ q = w[s]
                               /\ \A i \in 1 .. s - 1 : l.prio[w[i]] <= p
                               /\ p < l.prio[w[s]] \/ s = Len(w)
  BY StopIs
<1>3. q \in Nodes /\ q # n
  BY <1>1, <1>2
<1>4. l.prev[q] = IF s = 1 THEN Nil ELSE w[s - 1]
  BY <1>2 DEF Chain
<1>5. l.next[q] = IF s = Len(w) THEN Nil ELSE w[s + 1]
  BY <1>2 DEF Chain
<1>6. m = IF p < l.prio[q]
          THEN [head |-> IF l.head = q THEN n ELSE l.head,
                next |-> Linked([l.next EXCEPT ![n] = q], l.prev[q], n),
                prev |-> [l.prev EXCEPT ![n] = l.prev[q], ![q] = n],
                prio |-> [l.prio EXCEPT ![n] = p]]
          ELSE [head |-> l.head,
                next |-> [l.next EXCEPT ![n] = l.next[q], ![q] = n],
                prev |-> Linked([l.prev EXCEPT ![n] = q], l.next[q], n),
                prio |-> [l.prio EXCEPT ![n] = p]]
  BY DEF Inserted
<1>7. m.prio = [l.prio EXCEPT ![n] = p] /\ m.prio \in [Nodes -> 0 .. RootPrio]
  BY <1>1, <1>6
<1> HIDE DEF q, m
<1>8. \A i, j \in 1 .. Len(w) : i <= j => l.prio[w[i]] <= l.prio[w[j]]
  BY DEF Sorted
<1>9. CASE p < l.prio[q]
  <2>1. /\ m.head = IF l.head = q THEN n ELSE l.head
        /\ m.next = Linked([l.next EXCEPT ![n] = q], l.prev[q], n)
        /\ m.prev = [l.prev EXCEPT ![n] = l.prev[q], ![q] = n]
        /\ m = [head |-> m.head, next |-> m.next, prev |-> m.prev, prio |-> m.prio]
    BY <1>6, <1>9
  <2>2. m.prev \in [Nodes -> Nodes \cup {Nil}] /\ m.head \in Nodes \cup {Nil}
    <3>1. l.prev[q] \in Nodes \cup {Nil}
      BY <1>1, <1>3
    <3>2. m.prev \in Pointers
      <4> DEFINE f == l.prev
                 r == l.prev[q]
      <4>1. n \in Nodes /\ q \in Nodes /\ f \in Pointers /\ r \in Nodes \cup {Nil} /\ n \in Nodes \cup {Nil}
        BY <1>1, <1>3, <3>1 DEF Pointers
      <4>2. m.prev = [f EXCEPT ![n] = r, ![q] = n]
        BY <2>1
      <4> HIDE DEF f, r
      <4> QED
        BY <4>1, <4>2 DEF Pointers
    <3>3. m.head \in Nodes
      BY <1>1, <2>1
    <3> QED
      BY <3>2, <3>3 DEF Pointers
  <2>3. /\ m.next \in [Nodes -> Nodes \cup {Nil}]
        /\ \A x \in Nodes : m.next[x] = IF l.prev[q] # Nil /\ x = l.prev[q] THEN n
                                        ELSE IF x = n THEN q ELSE l.next[x]
    <3>1. CASE l.prev[q] = Nil
      BY <1>1, <1>3, <2>1, <3>1 DEF Linked
    <3>2. CASE l.prev[q] # Nil
      <4> DEFINE r == l.prev[q]
      <4>1. r \in Nodes
        BY <1>1, <1>3, <3>2
      <4>2. m.next = [[l.next EXCEPT ![n] = q] EXCEPT ![r] = n]
        BY <2>1, <3>2 DEF Linked
      <4> HIDE DEF r
      <4>3. /\ m.next \in [Nodes -> Nodes \cup {Nil}]
            /\ \A x \in Nodes : m.next[x] = IF x = r THEN n ELSE IF x = n THEN q ELSE l.next[x]
        BY <1>1, <1>3, <4>1, <4>2
      <4> QED
        BY <3>2, <4>3 DEF r
    <3> QED
      BY <3>1, <3>2
  <2>4. \A x \in Nodes : m.prev[x] = IF x = q THEN n ELSE IF x = n THEN l.prev[q] ELSE l.prev[x]
    BY <1>1, <1>3, <2>1
  <2>5. m \in Lists
    BY <1>7, <2>1, <2>2, <2>3 DEF Lists
  <2> DEFINE k == s - 1
  <2>6. k \in 0 .. Len(w) /\ k # Len(w) /\ k + 1 = s /\ (k = 0 <=> s = 1)
        /\ (k # 0 => k \in 1 .. Len(w) /\ k = s - 1)
    <3>1. Len(w) \in Nat /\ s \in Nat /\ 1 <= s /\ s <= Len(w)
      BY <1>1
    <3> QED
      BY <3>1
  <2>7. InPlace(l, w, k, p)
    <3>1. \A i \in s .. Len(w) : p < l.prio[w[i]]
      <4> SUFFICES ASSUME NEW i \in s .. Len(w) PROVE p < l.prio[w[i]]
        OBVIOUS
      <4>1. i \in 1 .. Len(w) /\ s <= i
        BY <1>1
      <4>2. l.prio[w[s]] <= l.prio[w[i]]
        BY <1>8, <4>1
      <4>3. l.prio[w[s]] \in Nat /\ l.prio[w[i]] \in Nat /\ p \in Nat
        BY <1>1, <4>1
      <4> QED
        BY <1>2, <1>9, <4>2, <4>3
    <3> QED
      BY <1>2, <2>6, <3>1 DEF InPlace
  <2> HIDE DEF k
  <2>8. l.head = q <=> k = 0
    <3>1. 1 \in 1 .. Len(w)
      BY <1>1
    <3> QED
      BY <1>1, <1>2, <2>6, <3>1
  <2>9. k # 0 => w[k] \in Nodes /\ w[k] # n /\ l.prev[q] = w[k] /\ w[k] # Nil
    BY <1>1, <1>4, <2>6
  <2>10. k = 0 => l.prev[q] = Nil
    BY <1>4, <2>6
  <2>11. q = w[k + 1]
    BY <1>2, <2>6
  <2>12. LinkedIn(l, m, w, k, n)
    <3>1. m.head = IF k = 0 THEN n ELSE l.head
      BY <2>1, <2>8
    <3>2. m.next[n] = w[k + 1]
      BY <1>1, <2>3, <2>9, <2>10, <2>11
    <3>3. m.prev[n] = IF k = 0 THEN Nil ELSE w[k]
      BY <1>1, <1>3, <2>4, <2>9, <2>10
    <3>4. k # 0 => m.next[w[k]] = n
      BY <2>3, <2>9
    <3>5. m.prev[w[k + 1]] = n
      BY <1>3, <2>4, <2>11
    <3>6. \A x \in Nodes \ {n} : (k # 0 => x # w[k]) => m.next[x] = l.next[x]
      BY <2>3, <2>9, <2>10
    <3>7. \A x \in Nodes \ {n} : x # w[k + 1] => m.prev[x] = l.prev[x]
      BY <2>4, <2>11
    <3> QED
      BY <2>5, <2>6, <3>1, <3>2, <3>3, <3>4, <3>5, <3>6, <3>7 DEF LinkedIn
  <2>13. Chain(m, With(w, k, n))
    BY <2>6, <2>12, LinkedChain
  <2> QED
    BY <1>7, <2>6, <2>7, <2>13 DEF m
<1>10. CASE ~(p < l.prio[q])
  <2>1. /\ m.head = l.head
        /\ m.next = [l.next EXCEPT ![n] = l.next[q], ![q] = n]
        /\ m.prev = Linked([l.prev EXCEPT ![n] = q], l.next[q], n)
        /\ m = [head |-> m.head, next |-> m.next, prev |-> m.prev, prio |-> m.prio]
    BY <1>6, <1>10
  <2>2. s = Len(w) /\ l.next[q] = Nil /\ q = w[Len(w)]
    BY <1>2, <1>5, <1>10
  <2>3. /\ m.head \in Nodes \cup {Nil} /\ m.next \in [Nodes -> Nodes \cup {Nil}]
        /\ \A x \in Nodes : m.next[x] = IF x = q THEN n ELSE IF x = n THEN Nil ELSE l.next[x]
    <3>1. m.next = [l.next EXCEPT ![n] = Nil, ![q] = n] /\ m.head \in Nodes
      BY <1>1, <2>1, <2>2
    <3> DEFINE f == l.next
    <3>2. n \in Nodes /\ q \in Nodes /\ f \in Pointers /\ Nil \in Nodes \cup {Nil} /\ n \in Nodes \cup {Nil}
      BY <1>1, <1>3 DEF Pointers
    <3>3. m.next = [f EXCEPT ![n] = Nil, ![q] = n]
      BY <3>1
    <3> HIDE DEF f
    <3>4. /\ m.next \in Pointers
          /\ \A x \in Nodes : m.next[x] = IF x = q THEN n ELSE IF x = n THEN Nil ELSE f[x]
      BY <3>2, <3>3 DEF Pointers
    <3> QED
      BY <3>1, <3>4 DEF Pointers, f
  <2>4. /\ m.prev \in [Nodes -> Nodes \cup {Nil}]
        /\ \A x \in Nodes : m.prev[x] = IF x = n THEN q ELSE l.prev[x]
    BY <1>1, <1>3, <2>1, <2>2 DEF Linked
  <2>5. m \in Lists
    BY <1>7, <2>1, <2>3, <2>4 DEF Lists
  <2> DEFINE k == Len(w)
  <2>6. k \in 0 .. Len(w) /\ k # 0
    BY <1>1
  <2>7. InPlace(l, w, k, p)
    <3>1. l.prio[w[s]] <= p
      <4>1. l.prio[q] \in 0 .. RootPrio
        BY <1>1, <1>3
      <4> QED
        BY <1>1, <1>2, <1>10, <4>1
    <3>2. \A i \in 1 .. Len(w) : i = s \/ i \in 1 .. s - 1
      BY <1>1, <2>2
    <3>3. \A i \in 1 .. Len(w) : l.prio[w[i]] <= p
      BY <1>2, <3>1, <3>2
    <3>4. k + 1 .. Len(w) = {}
      BY <1>1
    <3> QED
      BY <3>3, <3>4 DEF InPlace
  <2>8. LinkedIn(l, m, w, k, n)
    BY <1>1, <1>3, <2>1, <2>2, <2>3, <2>4, <2>5, <2>6 DEF LinkedIn
  <2>9. Chain(m, With(w, k, n))
    BY <2>6, <2>8, LinkedChain
  <2> QED
    BY <1>7, <2>6, <2>7, <2>9 DEF m
<1> QED
  BY <1>9, <1>10

-----------------------------------------------------------------------------
(* Removal.                                                                *)

LEMMA RemovedIs ==
  ASSUME NEW l, NEW t, Chain(l, t), NEW k \in 1 .. Len(t), Len(t) >= 2
  PROVE  /\ Removed(l, t[k]).prio = [l.prio EXCEPT ![t[k]] = RootPrio]
         /\ Chain(Removed(l, t[k]), Without(t, k))
<1> DEFINE n == t[k]
           m == Removed(l, n)
           w == Without(t, k)
           a == l.prev[n]
           b == l.next[n]
<1>1. /\ t \in Seq(Nodes) /\ Len(t) \in Nat /\ k \in 1 .. Len(t) /\ n \in Nodes
      /\ \A i, j \in 1 .. Len(t) : t[i] = t[j] => i = j
      /\ \A i \in 1 .. Len(t) : t[i] \in Nodes
      /\ l.prio \in [Nodes -> 0 .. RootPrio]
      /\ l.next \in Pointers /\ l.prev \in Pointers
      /\ l.head = t[1] /\ l.head \in Nodes /\ RootPrio \in Nat /\ Nil \notin Nodes
  BY DomListAssumption DEF Chain, Lists, Pointers, DomListAssumption
<1>2. a = IF k = 1 THEN Nil ELSE t[k - 1]
  BY DEF Chain
<1>3. b = IF k = Len(t) THEN Nil ELSE t[k + 1]
  BY DEF Chain
<1>4. /\ m.head = IF l.head = n THEN b ELSE l.head
      /\ m.next = [Linked(l.next, a, b) EXCEPT ![n] = Nil]
      /\ m.prev = [Linked(l.prev, b, a) EXCEPT ![n] = Nil]
      /\ m.prio = [l.prio EXCEPT ![n] = RootPrio]
      /\ m = [head |-> m.head, next |-> m.next, prev |-> m.prev, prio |-> m.prio]
  BY DEF Removed
<1>5. w \in Seq(Nodes) /\ Spread(w, t, k - 1, n)
  BY <1>1, WithoutSpreads
<1>6. a \in Nodes \cup {Nil} /\ b \in Nodes \cup {Nil}
  BY <1>1 DEF Pointers
<1> HIDE DEF n, m, w, a, b
<1>7. /\ m.next \in Pointers
      /\ \A x \in Nodes : m.next[x] = IF x = n THEN Nil ELSE IF a # Nil /\ x = a THEN b
                                      ELSE l.next[x]
  <2> DEFINE f == l.next
  <2>1. n \in Nodes /\ f \in Pointers
    BY <1>1
  <2>2. CASE a = Nil
    <3>1. m.next = [f EXCEPT ![n] = Nil]
      BY <1>4, <2>2 DEF Linked
    <3> HIDE DEF f
    <3>2. /\ m.next \in Pointers
          /\ \A x \in Nodes : m.next[x] = IF x = n THEN Nil ELSE f[x]
      BY <2>1, <3>1 DEF Pointers
    <3> QED
      BY <2>2, <3>2 DEF f
  <2>3. CASE a # Nil
    <3>1. m.next = [f EXCEPT ![a] = b, ![n] = Nil]
      BY <1>4, <2>3 DEF Linked
    <3> HIDE DEF f
    <3>2. /\ m.next \in Pointers
          /\ \A x \in Nodes : m.next[x] = IF x = n THEN Nil ELSE IF x = a THEN b ELSE f[x]
      BY <1>6, <2>1, <2>3, <3>1 DEF Pointers
    <3> QED
      BY <2>3, <3>2 DEF f
  <2> QED
    BY <2>2, <2>3
<1>8. /\ m.prev \in Pointers
      /\ \A x \in Nodes : m.prev[x] = IF x = n THEN Nil ELSE IF b # Nil /\ x = b THEN a
                                      ELSE l.prev[x]
  <2> DEFINE f == l.prev
  <2>1. n \in Nodes /\ f \in Pointers
    BY <1>1
  <2>2. CASE b = Nil
    <3>1. m.prev = [f EXCEPT ![n] = Nil]
      BY <1>4, <2>2 DEF Linked
    <3> HIDE DEF f
    <3>2. /\ m.prev \in Pointers
          /\ \A x \in Nodes : m.prev[x] = IF x = n THEN Nil ELSE f[x]
      BY <2>1, <3>1 DEF Pointers
    <3> QED
      BY <2>2, <3>2 DEF f
  <2>3. CASE b # Nil
    <3>1. m.prev = [f EXCEPT ![b] = a, ![n] = Nil]
      BY <1>4, <2>3 DEF Linked
    <3> HIDE DEF f
    <3>2. /\ m.prev \in Pointers
          /\ \A x \in Nodes : m.prev[x] = IF x = n THEN Nil ELSE IF x = b THEN a ELSE f[x]
      BY <1>6, <2>1, <2>3, <3>1 DEF Pointers
    <3> QED
      BY <2>3, <3>2 DEF f
  <2> QED
    BY <2>2, <2>3
<1>9. /\ Len(t) = Len(w) + 1 /\ Len(w) \in Nat /\ Len(w) >= 1
      /\ k \in 1 .. Len(w) + 1
      /\ \A i \in 1 .. k - 1 : t[i] = w[i]
      /\ \A i \in k .. Len(w) : t[i + 1] = w[i]
  <2>1. k - 1 + 1 = k /\ Len(t) \in Nat /\ Len(t) >= 2 /\ Len(w) \in Nat
    BY <1>1, <1>5
  <2>2. /\ Len(t) = Len(w) + 1
        /\ \A i \in 1 .. k - 1 : t[i] = w[i]
        /\ \A i \in k - 1 + 1 .. Len(w) : t[i + 1] = w[i]
    BY <1>5 DEF Spread
  <2>3. \A i \in k .. Len(w) : t[i + 1] = w[i]
    BY <2>1, <2>2
  <2>4. Len(w) >= 1 /\ k \in 1 .. Len(w) + 1
    BY <1>1, <2>1, <2>2
  <2> QED
    BY <2>1, <2>2, <2>3, <2>4
<1>10. n = t[k]
  BY DEF n
<1>11. /\ Len(w) \in Nat /\ Len(w) >= 1 /\ Len(t) \in Nat /\ Len(t) = Len(w) + 1
       /\ k \in Nat /\ 1 <= k /\ k <= Len(w) + 1
  BY <1>1, <1>9
(* An index of w is one of t.                                              *)
<1>12. \A i \in 1 .. Len(w) : \/ i \in 1 .. k - 1 /\ i \in 1 .. Len(t) /\ i # k /\ w[i] = t[i]
                              \/ i \in k .. Len(w) /\ i + 1 \in 1 .. Len(t) /\ w[i] = t[i + 1]
  <2> SUFFICES ASSUME NEW i \in 1 .. Len(w)
               PROVE  \/ i \in 1 .. k - 1 /\ i \in 1 .. Len(t) /\ i # k /\ w[i] = t[i]
                      \/ i \in k .. Len(w) /\ i + 1 \in 1 .. Len(t) /\ w[i] = t[i + 1]
    OBVIOUS
  <2>1. CASE i < k
    <3>1. i \in 1 .. k - 1 /\ i \in 1 .. Len(t) /\ i # k
      BY <1>11, <2>1
    <3> QED
      BY <1>9, <3>1
  <2>2. CASE ~(i < k)
    <3>1. i \in k .. Len(w) /\ i + 1 \in 1 .. Len(t)
      BY <1>11, <2>2
    <3> QED
      BY <1>9, <3>1
  <2> QED
    BY <2>1, <2>2
<1>13. \A i, j \in 1 .. Len(w) : w[i] = w[j] => i = j
  <2> SUFFICES ASSUME NEW i \in 1 .. Len(w), NEW j \in 1 .. Len(w), w[i] = w[j] PROVE i = j
    OBVIOUS
  <2> DEFINE u == IF i < k THEN i ELSE i + 1
             v == IF j < k THEN j ELSE j + 1
  <2>1. u \in 1 .. Len(t) /\ w[i] = t[u]
    <3>1. i \in 1 .. k - 1 => i < k
      BY <1>11
    <3>2. i \in k .. Len(w) => ~(i < k)
      BY <1>11
    <3> QED
      BY <1>12, <3>1, <3>2
  <2>2. v \in 1 .. Len(t) /\ w[j] = t[v]
    <3>1. j \in 1 .. k - 1 => j < k
      BY <1>11
    <3>2. j \in k .. Len(w) => ~(j < k)
      BY <1>11
    <3> QED
      BY <1>12, <3>1, <3>2
  <2> HIDE DEF u, v
  <2>3. u = v
    BY <1>1, <2>1, <2>2
  <2>4. i \in Int /\ j \in Int /\ k \in Int
    BY <1>1
  <2> QED
    BY ONLY <2>3, <2>4 DEF u, v
<1>14. m.head = w[1]
  <2>1. CASE k = 1
    <3>1. k # Len(t) /\ 1 \in k .. Len(w) /\ 1 + 1 = k + 1
      BY <1>11, <2>1
    <3> QED
      BY <1>1, <1>3, <1>4, <1>9, <1>10, <2>1, <3>1
  <2>2. CASE k # 1
    <3>1. 1 \in 1 .. k - 1 /\ 1 \in 1 .. Len(t)
      BY <1>11, <2>2
    <3>2. w[1] = t[1] /\ t[1] # n
      BY <1>1, <1>9, <1>10, <2>2, <3>1
    <3> QED
      BY <1>1, <1>4, <3>2
  <2> QED
    BY <2>1, <2>2
<1>15. \A i \in 1 .. Len(w) : m.next[w[i]] = IF i = Len(w) THEN Nil ELSE w[i + 1]
  <2> SUFFICES ASSUME NEW i \in 1 .. Len(w)
               PROVE  m.next[w[i]] = IF i = Len(w) THEN Nil ELSE w[i + 1]
    OBVIOUS
  <2>1. CASE i \in 1 .. k - 1 /\ i # k - 1
    <3>1. /\ i \in 1 .. Len(t) /\ i # k /\ k - 1 \in 1 .. Len(t) /\ i # Len(w) /\ i # Len(t)
          /\ i + 1 \in 1 .. k - 1 /\ k # 1
      BY <1>11, <2>1
    <3>2. t[i] # n /\ t[i] # a /\ t[i] \in Nodes
      BY <1>1, <1>2, <1>10, <2>1, <3>1
    <3>3. w[i] = t[i] /\ w[i + 1] = t[i + 1]
      BY <1>9, <2>1, <3>1
    <3>4. l.next[t[i]] = t[i + 1]
      BY <3>1 DEF Chain
    <3> QED
      BY <1>7, <3>1, <3>2, <3>3, <3>4
  <2>2. CASE i = k - 1
    <3>1. k # 1 /\ i \in 1 .. k - 1 /\ i \in 1 .. Len(t) /\ i # k
          /\ (i = Len(w) <=> k = Len(t)) /\ i + 1 = k
          /\ (i # Len(w) => k \in k .. Len(w))
      BY <1>11, <2>2
    <3>2. w[i] = a /\ a # Nil /\ a \in Nodes /\ a # n
      BY <1>1, <1>2, <1>9, <1>10, <2>2, <3>1
    <3>3. m.next[w[i]] = b
      BY <1>7, <3>2
    <3>4. i # Len(w) => w[i + 1] = t[k + 1]
      BY <1>9, <3>1
    <3> QED
      BY <1>3, <3>1, <3>3, <3>4
  <2>3. CASE i \in k .. Len(w)
    <3> DEFINE j == i + 1
    <3>1. /\ j \in 1 .. Len(t) /\ j # k /\ (k # 1 => k - 1 \in 1 .. Len(t) /\ j # k - 1)
          /\ (i = Len(w) <=> j = Len(t)) /\ (i # Len(w) => j \in k .. Len(w))
      BY <1>11, <2>3
    <3>2. w[i] = t[j] /\ j = i + 1
      BY <1>9, <2>3
    <3> HIDE DEF j
    <3>3. t[j] # n /\ (a # Nil => t[j] # a) /\ t[j] \in Nodes
      BY <1>1, <1>2, <1>10, <3>1
    <3>4. l.next[t[j]] = IF j = Len(t) THEN Nil ELSE t[j + 1]
      BY <3>1 DEF Chain
    <3>5. i # Len(w) => w[j] = t[j + 1]
      BY <1>9, <3>1
    <3> QED
      BY <1>7, <3>1, <3>2, <3>3, <3>4, <3>5
  <2> QED
    BY <1>11, <2>1, <2>2, <2>3
<1>16. \A i \in 1 .. Len(w) : m.prev[w[i]] = IF i = 1 THEN Nil ELSE w[i - 1]
  <2> SUFFICES ASSUME NEW i \in 1 .. Len(w)
               PROVE  m.prev[w[i]] = IF i = 1 THEN Nil ELSE w[i - 1]
    OBVIOUS
  <2>1. CASE i \in 1 .. k - 1
    <3>1. /\ i \in 1 .. Len(t) /\ i # k
          /\ (k # Len(t) => k + 1 \in 1 .. Len(t) /\ i # k + 1)
          /\ (i # 1 => i - 1 \in 1 .. k - 1)
      BY <1>11, <2>1
    <3>2. t[i] # n /\ (b # Nil => t[i] # b) /\ t[i] \in Nodes
      BY <1>1, <1>3, <1>10, <3>1
    <3>3. w[i] = t[i] /\ (i # 1 => w[i - 1] = t[i - 1])
      BY <1>9, <2>1, <3>1
    <3>4. l.prev[t[i]] = IF i = 1 THEN Nil ELSE t[i - 1]
      BY <3>1 DEF Chain
    <3> QED
      BY <1>8, <3>2, <3>3, <3>4
  <2>2. CASE i = k
    <3>1. k # Len(t) /\ i \in k .. Len(w) /\ k + 1 \in 1 .. Len(t) /\ k + 1 # k
          /\ (i # 1 => k # 1 /\ i - 1 \in 1 .. k - 1 /\ i - 1 = k - 1)
      BY <1>11, <2>2
    <3>2. w[i] = b /\ b \in Nodes /\ b # Nil /\ b # n
      BY <1>1, <1>3, <1>9, <1>10, <2>2, <3>1
    <3>3. m.prev[w[i]] = a
      BY <1>8, <3>2
    <3>4. i # 1 => w[i - 1] = t[k - 1]
      BY <1>9, <3>1
    <3> QED
      BY <1>2, <2>2, <3>1, <3>3, <3>4
  <2>3. CASE i \in k .. Len(w) /\ i # k
    <3> DEFINE j == i + 1
    <3>1. /\ j \in 1 .. Len(t) /\ j # k /\ k + 1 \in 1 .. Len(t) /\ j # k + 1 /\ j # 1 /\ i # 1
          /\ j - 1 = i /\ i - 1 \in k .. Len(w) /\ i - 1 + 1 = i
      BY <1>11, <2>3
    <3>2. w[i] = t[j]
      BY <1>9, <2>3
    <3> HIDE DEF j
    <3>3. t[j] # n /\ (b # Nil => t[j] # b) /\ t[j] \in Nodes
      BY <1>1, <1>3, <1>10, <3>1
    <3>4. l.prev[t[j]] = t[i]
      BY <3>1 DEF Chain
    <3>5. w[i - 1] = t[i]
      BY <1>9, <3>1
    <3> QED
      BY <1>8, <3>1, <3>2, <3>3, <3>4, <3>5
  <2> QED
    BY <1>11, <2>1, <2>2, <2>3
<1>17. \A x \in Nodes : (\A i \in 1 .. Len(w) : w[i] # x) => m.next[x] = Nil /\ m.prev[x] = Nil
  <2> SUFFICES ASSUME NEW x \in Nodes, \A i \in 1 .. Len(w) : w[i] # x, x # n
               PROVE  m.next[x] = Nil /\ m.prev[x] = Nil
    BY <1>7, <1>8
  <2>1. \A i \in 1 .. Len(t) : t[i] # x
    <3> SUFFICES ASSUME NEW i \in 1 .. Len(t), i # k PROVE t[i] # x
      BY <1>10
    <3>1. CASE i \in 1 .. k - 1
      <4>1. i \in 1 .. Len(w)
        BY <1>11, <3>1
      <4> QED
        BY <1>9, <3>1, <4>1
    <3>2. CASE ~(i \in 1 .. k - 1)
      <4>1. i - 1 \in k .. Len(w) /\ i - 1 + 1 = i /\ i - 1 \in 1 .. Len(w)
        BY <1>11, <3>2
      <4> QED
        BY <1>9, <4>1
    <3> QED
      BY <3>1, <3>2
  <2>2. l.next[x] = Nil /\ l.prev[x] = Nil
    BY <2>1 DEF Chain
  <2>3. (a # Nil => x # a) /\ (b # Nil => x # b)
    <3>1. (k # 1 => k - 1 \in 1 .. Len(t)) /\ (k # Len(t) => k + 1 \in 1 .. Len(t))
      BY <1>1
    <3> QED
      BY <1>2, <1>3, <2>1, <3>1
  <2> QED
    BY <1>7, <1>8, <2>2, <2>3
<1>18. m \in Lists
  <2>1. m.prio \in [Nodes -> 0 .. RootPrio]
    BY <1>1, <1>4
  <2>2. m.head \in Nodes \cup {Nil}
    BY <1>1, <1>4, <1>6
  <2> QED
    BY <1>4, <1>7, <1>8, <2>1, <2>2 DEF Lists, Pointers
<1>19. Chain(m, w)
  BY <1>5, <1>9, <1>13, <1>14, <1>15, <1>16, <1>17, <1>18 DEF Chain
<1> QED
  BY <1>4, <1>19 DEF m, w, n

-----------------------------------------------------------------------------
(* The list in order, with the root domain in it, and how the scheduler    *)
(* sees it.                                                                *)

Met(w) == {w[i] : i \in 1 .. Len(w)}

Held(l, w) == Chain(l, w) /\ Sorted(l, w) /\ Root \in Met(w)

View(l, w) == [i \in 1 .. Len(w) |-> [dom |-> w[i], prio |-> l.prio[w[i]]]]

Entry(n, p) == [dom |-> n, prio |-> p]
Entries == [dom : Nodes, prio : 0 .. RootPrio]

LEMMA ViewType ==
  ASSUME NEW l, NEW w, Chain(l, w)
  PROVE  /\ View(l, w) \in Seq(Entries) /\ Len(View(l, w)) = Len(w)
         /\ \A i \in 1 .. Len(w) : View(l, w)[i] = Entry(w[i], l.prio[w[i]])
<1>1. /\ w \in Seq(Nodes) /\ Len(w) \in Nat /\ \A i \in 1 .. Len(w) : w[i] \in Nodes
      /\ l.prio \in [Nodes -> 0 .. RootPrio]
  BY DEF Chain, Lists
<1>2. \A i \in 1 .. Len(w) : Entry(w[i], l.prio[w[i]]) \in Entries
  BY <1>1 DEF Entry, Entries
<1>3. View(l, w) = [i \in 1 .. Len(w) |-> Entry(w[i], l.prio[w[i]])]
  BY DEF View, Entry
<1> QED
  BY <1>1, <1>2, <1>3

(* Two lists have the same priorities for the nodes of w.                  *)
Alike(l, m, w) == \A i \in 1 .. Len(w) : m.prio[w[i]] = l.prio[w[i]]

LEMMA ViewSpreads ==
  ASSUME NEW l, NEW m, NEW w, NEW t, NEW n \in Nodes, NEW k \in 0 .. Len(w),
         Chain(l, w), Chain(m, t), Spread(w, t, k, n), Alike(l, m, w)
  PROVE  /\ View(m, t) = With(View(l, w), k, Entry(n, m.prio[n]))
         /\ View(l, w) = Without(View(m, t), k + 1)
<1> DEFINE u == View(l, w)
           v == View(m, t)
           e == Entry(n, m.prio[n])
<1>1. /\ u \in Seq(Entries) /\ Len(u) = Len(w)
      /\ \A i \in 1 .. Len(w) : u[i] = Entry(w[i], l.prio[w[i]])
  BY ViewType
<1>2. /\ v \in Seq(Entries) /\ Len(v) = Len(t)
      /\ \A i \in 1 .. Len(t) : v[i] = Entry(t[i], m.prio[t[i]])
  BY ViewType
<1>3. e \in Entries
  BY DEF Entry, Entries, Chain, Lists
<1>4. /\ Len(w) \in Nat /\ Len(t) = Len(w) + 1
      /\ \A i \in 1 .. k : t[i] = w[i]
      /\ t[k + 1] = n
      /\ \A i \in k + 1 .. Len(w) : t[i + 1] = w[i]
  BY DEF Spread, Chain
<1> HIDE DEF u, v, e
<1>5. \A i \in 1 .. k : i \in 1 .. Len(w) /\ i \in 1 .. Len(t)
  BY <1>4
<1>6. \A i \in k + 1 .. Len(w) : i \in 1 .. Len(w) /\ i + 1 \in 1 .. Len(t)
  BY <1>4
<1>7. k + 1 \in 1 .. Len(t)
  BY <1>4
<1>8. \A i \in 1 .. k : v[i] = u[i]
  <2> SUFFICES ASSUME NEW i \in 1 .. k PROVE v[i] = u[i]
    OBVIOUS
  <2>1. v[i] = Entry(t[i], m.prio[t[i]]) /\ u[i] = Entry(w[i], l.prio[w[i]])
    BY <1>1, <1>2, <1>5
  <2>2. t[i] = w[i] /\ m.prio[w[i]] = l.prio[w[i]]
    BY <1>4, <1>5 DEF Alike
  <2> QED
    BY <2>1, <2>2
<1>9. \A i \in k + 1 .. Len(w) : v[i + 1] = u[i]
  <2> SUFFICES ASSUME NEW i \in k + 1 .. Len(w) PROVE v[i + 1] = u[i]
    OBVIOUS
  <2>1. v[i + 1] = Entry(t[i + 1], m.prio[t[i + 1]]) /\ u[i] = Entry(w[i], l.prio[w[i]])
    BY <1>1, <1>2, <1>6
  <2>2. t[i + 1] = w[i] /\ m.prio[w[i]] = l.prio[w[i]]
    BY <1>4, <1>6 DEF Alike
  <2> QED
    BY <2>1, <2>2
<1>10. v[k + 1] = e
  BY <1>2, <1>4, <1>7 DEF e
<1>11. Spread(u, v, k, e) /\ k \in 0 .. Len(u)
  BY <1>1, <1>2, <1>4, <1>8, <1>9, <1>10 DEF Spread
<1>12. v = With(u, k, e) /\ u = Without(v, k + 1)
  BY <1>1, <1>2, <1>3, <1>11, SpreadIs
<1> QED
  BY <1>12 DEF u, v, e

LEMMA SpreadMet ==
  ASSUME NEW w, NEW t, NEW k \in 0 .. Len(w), NEW n, Len(w) \in Nat, Spread(w, t, k, n)
  PROVE  Met(t) = Met(w) \cup {n}
<1>1. /\ Len(t) = Len(w) + 1
      /\ \A i \in 1 .. k : t[i] = w[i]
      /\ t[k + 1] = n
      /\ \A i \in k + 1 .. Len(w) : t[i + 1] = w[i]
  BY DEF Spread
<1>2. \A i \in 1 .. Len(t) : t[i] \in Met(w) \cup {n}
  <2> SUFFICES ASSUME NEW i \in 1 .. Len(t) PROVE t[i] \in Met(w) \cup {n}
    OBVIOUS
  <2>1. CASE i \in 1 .. k
    <3>1. i \in 1 .. Len(w)
      BY <2>1
    <3> QED
      BY <1>1, <2>1, <3>1 DEF Met
  <2>2. CASE i = k + 1
    BY <1>1, <2>2
  <2>3. CASE ~(i \in 1 .. k) /\ i # k + 1
    <3>1. i - 1 \in k + 1 .. Len(w) /\ i - 1 + 1 = i /\ i - 1 \in 1 .. Len(w)
      BY <1>1, <2>3
    <3>2. t[i] = w[i - 1]
      BY <1>1, <3>1
    <3> QED
      BY <3>1, <3>2 DEF Met
  <2> QED
    BY <2>1, <2>2, <2>3
<1>3. \A i \in 1 .. Len(w) : w[i] \in Met(t)
  <2> SUFFICES ASSUME NEW i \in 1 .. Len(w) PROVE w[i] \in Met(t)
    OBVIOUS
  <2>1. i \in 1 .. Len(t) /\ i + 1 \in 1 .. Len(t)
    BY <1>1
  <2>2. CASE i \in 1 .. k
    BY <1>1, <2>1, <2>2 DEF Met
  <2>3. CASE ~(i \in 1 .. k)
    <3>1. i \in k + 1 .. Len(w)
      BY <2>3
    <3> QED
      BY <1>1, <2>1, <3>1 DEF Met
  <2> QED
    BY <2>2, <2>3
<1>4. n \in Met(t)
  <2>1. k + 1 \in 1 .. Len(t)
    BY <1>1
  <2> QED
    BY <1>1, <2>1 DEF Met
<1> QED
  BY <1>2, <1>3, <1>4 DEF Met

(* A list that is in order stays so, and shows one entry more.             *)
Added(l, w, k, n, p, m, t) ==
  /\ InPlace(l, w, k, p)
  /\ Held(m, t) /\ Spread(w, t, k, n) /\ Met(t) = Met(w) \cup {n}
  /\ m.prio = [l.prio EXCEPT ![n] = p]
  /\ View(m, t) = With(View(l, w), k, Entry(n, p))

LEMMA InsertHeld ==
  ASSUME NEW l, NEW w, Held(l, w), NEW n, Fresh(w, n), NEW p \in 0 .. RootPrio
  PROVE  \E k \in 0 .. Len(w) : Added(l, w, k, n, p, Inserted(l, n, p), With(w, k, n))
<1> DEFINE m == Inserted(l, n, p)
<1>1. /\ m.prio = [l.prio EXCEPT ![n] = p]
      /\ \E k \in 0 .. Len(w) : InPlace(l, w, k, p) /\ Chain(m, With(w, k, n))
  BY InsertedIs DEF Held
<1> HIDE DEF m
<1>2. PICK k \in 0 .. Len(w) : InPlace(l, w, k, p) /\ Chain(m, With(w, k, n))
  BY <1>1
<1> DEFINE t == With(w, k, n)
<1>3. /\ w \in Seq(Nodes) /\ Len(w) \in Nat /\ n \in Nodes
      /\ l.prio \in [Nodes -> 0 .. RootPrio]
      /\ \A i \in 1 .. Len(w) : w[i] \in Nodes /\ w[i] # n
  BY DEF Held, Chain, Fresh, Lists
<1>4. t \in Seq(Nodes) /\ Spread(w, t, k, n)
  BY <1>3, WithSpreads
<1> HIDE DEF t
<1>5. (\A i \in 1 .. Len(w) : m.prio[w[i]] = l.prio[w[i]]) /\ m.prio[n] = p
  BY <1>1, <1>3
<1>6. View(m, t) = With(View(l, w), k, Entry(n, p))
  <2>1. Chain(l, w) /\ Chain(m, t)
    BY <1>2 DEF Held, t
  <2>2. View(m, t) = With(View(l, w), k, Entry(n, m.prio[n]))
    <3>1. Alike(l, m, w)
      BY <1>5 DEF Alike
    <3> QED
      BY <1>3, <1>4, <2>1, <3>1, ViewSpreads
  <2> QED
    BY <1>5, <2>2
<1>7. Met(t) = Met(w) \cup {n}
  BY <1>3, <1>4, SpreadMet
<1>8. Sorted(m, t)
  <2>1. /\ Len(t) = Len(w) + 1
        /\ \A i \in 1 .. k : t[i] = w[i]
        /\ t[k + 1] = n
        /\ \A i \in k + 1 .. Len(w) : t[i + 1] = w[i]
    BY <1>4 DEF Spread
  <2>2. \A i, j \in 1 .. Len(w) : i <= j => l.prio[w[i]] <= l.prio[w[j]]
    BY DEF Held, Sorted
  <2>3. /\ \A i \in 1 .. k : l.prio[w[i]] <= p
        /\ \A i \in k + 1 .. Len(w) : p < l.prio[w[i]]
    BY <1>2 DEF InPlace
  <2>4. \A i \in 1 .. Len(w) : l.prio[w[i]] \in Nat
    BY <1>3, DomListAssumption DEF DomListAssumption
  <2>5. \A i \in 1 .. Len(t) :
          \/ i \in 1 .. k /\ i \in 1 .. Len(w) /\ t[i] = w[i]
          \/ i = k + 1 /\ t[i] = n
          \/ i - 1 \in k + 1 .. Len(w) /\ i - 1 \in 1 .. Len(w) /\ t[i] = w[i - 1]
    <3> SUFFICES ASSUME NEW i \in 1 .. Len(t), ~(i \in 1 .. k), i # k + 1
                 PROVE  i - 1 \in k + 1 .. Len(w) /\ i - 1 \in 1 .. Len(w) /\ t[i] = w[i - 1]
      BY <1>3, <2>1
    <3>1. i - 1 \in k + 1 .. Len(w) /\ i - 1 + 1 = i /\ i - 1 \in 1 .. Len(w)
      BY <1>3, <2>1
    <3> QED
      BY <2>1, <3>1
  <2>6. SUFFICES ASSUME NEW i \in 1 .. Len(t), NEW j \in 1 .. Len(t), i <= j
                 PROVE  m.prio[t[i]] <= m.prio[t[j]]
    BY DEF Sorted
  <2>7. p \in Nat /\ p <= p
    BY DomListAssumption DEF DomListAssumption
  <2>8. CASE i \in 1 .. k /\ i \in 1 .. Len(w) /\ t[i] = w[i]
    <3>1. l.prio[w[i]] <= p /\ m.prio[t[i]] = l.prio[w[i]] /\ l.prio[w[i]] \in Nat
      BY <1>5, <2>3, <2>4, <2>8
    <3>2. CASE j \in 1 .. k /\ j \in 1 .. Len(w) /\ t[j] = w[j]
      BY <1>5, <2>2, <2>6, <2>8, <3>1, <3>2
    <3>3. CASE j = k + 1 /\ t[j] = n
      BY <1>5, <3>1, <3>3
    <3>4. CASE j - 1 \in k + 1 .. Len(w) /\ j - 1 \in 1 .. Len(w) /\ t[j] = w[j - 1]
      <4>1. p < l.prio[w[j - 1]] /\ m.prio[t[j]] = l.prio[w[j - 1]] /\ l.prio[w[j - 1]] \in Nat
        BY <1>5, <2>3, <2>4, <3>4
      <4> QED
        BY <2>7, <3>1, <4>1
    <3> QED
      BY <2>5, <3>2, <3>3, <3>4
  <2>9. CASE i = k + 1 /\ t[i] = n
    <3>1. CASE j = k + 1 /\ t[j] = n
      BY <1>5, <2>7, <2>9, <3>1
    <3>2. CASE j - 1 \in k + 1 .. Len(w) /\ j - 1 \in 1 .. Len(w) /\ t[j] = w[j - 1]
      <4>1. p < l.prio[w[j - 1]] /\ m.prio[t[j]] = l.prio[w[j - 1]] /\ l.prio[w[j - 1]] \in Nat
        BY <1>5, <2>3, <2>4, <3>2
      <4> QED
        BY <1>5, <2>7, <2>9, <4>1
    <3>3. ~(j \in 1 .. k)
      BY <1>3, <2>6, <2>9
    <3> QED
      BY <2>5, <3>1, <3>2, <3>3
  <2>10. CASE i - 1 \in k + 1 .. Len(w) /\ i - 1 \in 1 .. Len(w) /\ t[i] = w[i - 1]
    <3>1. ~(j \in 1 .. k) /\ j # k + 1 /\ i - 1 <= j - 1
      BY <1>3, <2>6, <2>10
    <3>2. j - 1 \in 1 .. Len(w) /\ t[j] = w[j - 1]
      BY <2>5, <3>1
    <3> QED
      BY <1>5, <2>2, <2>10, <3>1, <3>2
  <2> QED
    BY <2>5, <2>8, <2>9, <2>10
<1>9. Held(m, t)
  BY <1>2, <1>7, <1>8 DEF Held, t
<1> QED
  BY <1>1, <1>2, <1>4, <1>6, <1>7, <1>9 DEF Added, t, m

(* A node other than the root domain's leaves the list.                    *)
Dropped(l, t, k, m, w) ==
  /\ Held(m, w) /\ Met(w) = Met(t) \ {t[k]}
  /\ m.prio = [l.prio EXCEPT ![t[k]] = RootPrio]
  /\ View(m, w) = Without(View(l, t), k)

LEMMA RemoveHeld ==
  ASSUME NEW l, NEW t, Held(l, t), NEW k \in 1 .. Len(t), t[k] # Root
  PROVE  Dropped(l, t, k, Removed(l, t[k]), Without(t, k))
<1> DEFINE n == t[k]
           m == Removed(l, n)
           w == Without(t, k)
<1>1. /\ t \in Seq(Nodes) /\ Len(t) \in Nat /\ k \in 1 .. Len(t) /\ n \in Nodes
      /\ \A i, j \in 1 .. Len(t) : t[i] = t[j] => i = j
      /\ \A i \in 1 .. Len(t) : t[i] \in Nodes
      /\ l.prio \in [Nodes -> 0 .. RootPrio] /\ Chain(l, t)
  BY DEF Held, Chain, Lists
<1>2. PICK r \in 1 .. Len(t) : t[r] = Root
  BY DEF Held, Met
<1>3. Len(t) >= 2
  BY <1>1, <1>2
<1>4. m.prio = [l.prio EXCEPT ![n] = RootPrio] /\ Chain(m, w)
  BY <1>1, <1>3, RemovedIs
<1>5. w \in Seq(Nodes) /\ Spread(w, t, k - 1, n)
  BY <1>1, WithoutSpreads
<1>6. n = t[k] /\ n # Root
  OBVIOUS
<1> HIDE DEF n, m, w
<1>7. Len(w) \in Nat /\ Len(t) = Len(w) + 1 /\ k - 1 \in 0 .. Len(w) /\ k - 1 + 1 = k
  BY <1>1, <1>5 DEF Spread
<1>8. /\ \A i \in 1 .. k - 1 : t[i] = w[i]
      /\ \A i \in k .. Len(w) : t[i + 1] = w[i]
  BY <1>5, <1>7 DEF Spread
(* An index of w is one of t.                                              *)
<1>9. \A i \in 1 .. Len(w) : \/ i < k /\ i \in 1 .. Len(t) /\ i # k /\ w[i] = t[i]
                             \/ i >= k /\ i + 1 \in 1 .. Len(t) /\ i + 1 # k /\ w[i] = t[i + 1]
  <2> SUFFICES ASSUME NEW i \in 1 .. Len(w)
               PROVE  \/ i < k /\ i \in 1 .. Len(t) /\ i # k /\ w[i] = t[i]
                      \/ i >= k /\ i + 1 \in 1 .. Len(t) /\ i + 1 # k /\ w[i] = t[i + 1]
    OBVIOUS
  <2>1. CASE i < k
    <3>1. i \in 1 .. k - 1 /\ i \in 1 .. Len(t) /\ i # k
      BY <1>1, <1>7, <2>1
    <3> QED
      BY <1>8, <2>1, <3>1
  <2>2. CASE ~(i < k)
    <3>1. i \in k .. Len(w) /\ i + 1 \in 1 .. Len(t) /\ i + 1 # k /\ i >= k
      BY <1>1, <1>7, <2>2
    <3> QED
      BY <1>8, <3>1
  <2> QED
    BY <2>1, <2>2
<1>10. \A i \in 1 .. Len(w) : w[i] # n /\ m.prio[w[i]] = l.prio[w[i]]
  <2> SUFFICES ASSUME NEW i \in 1 .. Len(w) PROVE w[i] # n /\ m.prio[w[i]] = l.prio[w[i]]
    OBVIOUS
  <2>1. PICK u \in 1 .. Len(t) : u # k /\ w[i] = t[u]
    BY <1>9
  <2>2. w[i] # n /\ w[i] \in Nodes
    BY <1>1, <1>6, <2>1
  <2> QED
    BY <1>1, <1>4, <2>2
<1>11. Met(w) = Met(t) \ {n}
  <2>1. Met(t) = Met(w) \cup {n}
    BY <1>5, <1>7, SpreadMet
  <2>2. n \notin Met(w)
    BY <1>10 DEF Met
  <2> QED
    BY <2>1, <2>2
<1>12. View(m, w) = Without(View(l, t), k)
  <2>1. Alike(m, l, w)
    BY <1>10 DEF Alike
  <2>2. View(m, w) = Without(View(l, t), k - 1 + 1)
    BY <1>1, <1>4, <1>5, <1>7, <2>1, ViewSpreads
  <2> QED
    BY <1>7, <2>2
<1>13. Sorted(m, w)
  <2>1. SUFFICES ASSUME NEW i \in 1 .. Len(w), NEW j \in 1 .. Len(w), i <= j
                 PROVE  m.prio[w[i]] <= m.prio[w[j]]
    BY DEF Sorted
  <2> DEFINE u == IF i < k THEN i ELSE i + 1
             v == IF j < k THEN j ELSE j + 1
  <2>2. u \in 1 .. Len(t) /\ w[i] = t[u]
    BY <1>1, <1>9
  <2>3. v \in 1 .. Len(t) /\ w[j] = t[v]
    BY <1>1, <1>9
  <2>4. u <= v
    <3>1. k \in Nat /\ i \in Nat /\ j \in Nat
      BY <1>1, <1>7
    <3> QED
      BY <2>1, <3>1
  <2> HIDE DEF u, v
  <2>5. l.prio[t[u]] <= l.prio[t[v]]
    BY <2>2, <2>3, <2>4 DEF Held, Sorted
  <2> QED
    BY <1>10, <2>2, <2>3, <2>5
<1>14. Root \in Met(w)
  BY <1>6, <1>11 DEF Held
<1>15. Held(m, w)
  BY <1>4, <1>13, <1>14 DEF Held
<1> QED
  BY <1>4, <1>11, <1>12, <1>15 DEF Dropped, n, m, w

(* A load that fails leaves the list as it was.                            *)
LEMMA FailHeld ==
  ASSUME NEW l, NEW w, Held(l, w), NEW n, Fresh(w, n), NEW p \in 0 .. RootPrio
  PROVE  /\ Held(Removed(Inserted(l, n, p), n), w)
         /\ View(Removed(Inserted(l, n, p), n), w) = View(l, w)
<1> DEFINE m == Inserted(l, n, p)
<1>1. PICK k \in 0 .. Len(w) : Added(l, w, k, n, p, m, With(w, k, n))
  BY InsertHeld
<1> DEFINE t == With(w, k, n)
<1> HIDE DEF m
<1>2. /\ w \in Seq(Nodes) /\ Len(w) \in Nat /\ n \in Nodes /\ Chain(l, w)
      /\ l.prio \in [Nodes -> 0 .. RootPrio]
      /\ \A i \in 1 .. Len(w) : w[i] \in Nodes /\ w[i] # n
      /\ Root \in Met(w)
  <2>1. Chain(l, w) /\ Root \in Met(w)
    BY DEF Held
  <2>2. w \in Seq(Nodes) /\ l \in Lists
    BY <2>1 DEF Chain
  <2>3. l.prio \in [Nodes -> 0 .. RootPrio]
    BY <2>2 DEF Lists
  <2>4. n \in Nodes /\ \A i \in 1 .. Len(w) : w[i] # n
    BY DEF Fresh
  <2> QED
    BY <2>1, <2>2, <2>3, <2>4
<1>3. t \in Seq(Nodes) /\ Spread(w, t, k, n)
  BY <1>2, WithSpreads
<1>4. Held(m, t) /\ m.prio = [l.prio EXCEPT ![n] = p]
  BY <1>1 DEF Added
<1> HIDE DEF t
<1>5. t[k + 1] = n /\ k + 1 \in 1 .. Len(t) /\ n # Root
  <2>1. t[k + 1] = n /\ Len(t) = Len(w) + 1
    BY <1>3 DEF Spread
  <2>2. n # Root
    BY <1>2 DEF Met
  <2> QED
    BY <1>2, <2>1, <2>2
<1>6. Dropped(m, t, k + 1, Removed(m, t[k + 1]), Without(t, k + 1))
  BY <1>4, <1>5, RemoveHeld
<1>7. Without(t, k + 1) = w
  BY <1>2, <1>3, SpreadIs
<1> DEFINE m2 == Removed(m, n)
<1>8. Held(m2, w) /\ m2.prio = [m.prio EXCEPT ![n] = RootPrio]
  BY <1>5, <1>6, <1>7 DEF Dropped
<1> HIDE DEF m2
<1>9. \A i \in 1 .. Len(w) : m2.prio[w[i]] = l.prio[w[i]]
  BY <1>2, <1>4, <1>8
<1>10. View(m2, w) = View(l, w)
  BY <1>9 DEF View
<1> QED
  BY <1>8, <1>10 DEF m2, m

-----------------------------------------------------------------------------
(* The list of the specification.                                          *)
ListInv == \E w : Held(list, w)

LEMMA LoadedIs ==
  ASSUME NEW l, NEW w, Held(l, w)
  PROVE  Walk(l) = w /\ {Walk(l)[i] : i \in DOMAIN Walk(l)} = Met(w)
<1>1. Walk(l) = w /\ DOMAIN w = 1 .. Len(w)
  BY WalkIs DEF Held, Chain
<1> QED
  BY <1>1 DEF Met

LEMMA LoadedMet ==
  ASSUME NEW w, Held(list, w)
  PROVE  /\ Loaded = Met(w) /\ Loaded \subseteq Nodes
         /\ IsFiniteSet(Loaded) /\ Root \in Loaded
         /\ \A n \in Nodes : n \notin Loaded <=> Fresh(w, n)
<1>1. Loaded = Met(w)
  BY LoadedIs DEF Loaded
<1>2. Met(w) \subseteq Nodes /\ Root \in Met(w)
  BY DEF Held, Chain, Met
<1>3. IsFiniteSet(Met(w))
  BY <1>2, FS_Subset, DomListAssumption DEF DomListAssumption
<1>4. \A n \in Nodes : n \notin Met(w) <=> Fresh(w, n)
  BY DEF Met, Fresh
<1> QED
  BY <1>1, <1>2, <1>3, <1>4

LEMMA LoadedMetNext ==
  ASSUME NEW w, Held(list', w)
  PROVE  Loaded' = Met(w)
BY LoadedIs DEF Loaded

(* load_domain_sys, unload_domain_sys: what they do to the list.           *)
LEMMA LoadAdds ==
  ASSUME NEW w, Held(list, w), NEW n \in Nodes, NEW p \in Prios, LoadDomain(n, p)
  PROVE  /\ \E k \in 0 .. Len(w) : \E t : Added(list, w, k, n, p, list', t)
         /\ n \notin Loaded /\ Loaded' = Loaded \cup {n}
<1>1. Fresh(w, n) /\ n \notin Loaded /\ Loaded = Met(w) /\ list' = Inserted(list, n, p)
  BY LoadedMet DEF LoadDomain
<1>2. p \in 0 .. RootPrio
  BY DomListAssumption DEF DomListAssumption
<1>3. PICK k \in 0 .. Len(w) : Added(list, w, k, n, p, list', With(w, k, n))
  BY <1>1, <1>2, InsertHeld
<1> DEFINE t == With(w, k, n)
<1>4. Held(list', t) /\ Met(t) = Met(w) \cup {n}
  BY <1>3 DEF Added
<1>5. Loaded' = Met(t)
  BY <1>4, LoadedMetNext
<1> QED
  BY <1>1, <1>3, <1>4, <1>5

LEMMA FailKeeps ==
  ASSUME NEW w, Held(list, w), NEW n \in Nodes, NEW p \in Prios, LoadFails(n, p)
  PROVE  /\ Held(list', w) /\ View(list', w) = View(list, w)
         /\ n \notin Loaded /\ Loaded' = Loaded
<1>1. /\ Fresh(w, n) /\ n \notin Loaded /\ Loaded = Met(w)
      /\ list' = Removed(Inserted(list, n, p), n)
  BY LoadedMet DEF LoadFails
<1>2. p \in 0 .. RootPrio
  BY DomListAssumption DEF DomListAssumption
<1>3. Held(list', w) /\ View(list', w) = View(list, w)
  BY <1>1, <1>2, FailHeld
<1> QED
  BY <1>1, <1>3, LoadedMetNext

LEMMA UnloadDrops ==
  ASSUME NEW w, Held(list, w), NEW n \in Nodes, UnloadDomain(n)
  PROVE  /\ \E k \in 1 .. Len(w) :
              w[k] = n /\ Dropped(list, w, k, list', Without(w, k))
         /\ n \in Loaded /\ n # Root /\ Loaded' = Loaded \ {n}
<1>1. n \in Loaded /\ n # Root /\ Loaded = Met(w) /\ list' = Removed(list, n)
  BY LoadedMet DEF UnloadDomain
<1>2. PICK k \in 1 .. Len(w) : w[k] = n
  BY <1>1 DEF Met
<1>3. Dropped(list, w, k, list', Without(w, k))
  BY <1>1, <1>2, RemoveHeld
<1>4. Held(list', Without(w, k)) /\ Met(Without(w, k)) = Met(w) \ {n}
  BY <1>2, <1>3 DEF Dropped
<1> QED
  BY <1>1, <1>2, <1>3, <1>4, LoadedMetNext

(* A step of the system and the list.                                      *)
ListMoves(w) ==
  \/ \E n \in Nodes, p \in Prios, k \in 0 .. Len(w) : \E t :
       Fresh(w, n) /\ Added(list, w, k, n, p, list', t)
  \/ \E k \in 1 .. Len(w) : w[k] # Root /\ Dropped(list, w, k, list', Without(w, k))
  \/ Held(list', w) /\ View(list', w) = View(list, w)

LEMMA EachMoves ==
  ASSUME NEW w, Held(list, w), [Next]_vars
  PROVE  ListMoves(w)
<1>1. ASSUME NEW n \in Nodes, Load(n) PROVE ListMoves(w)
  <2>1. PICK p \in Prios : LoadDomain(n, p) \/ LoadFails(n, p)
    BY <1>1 DEF Load, LoadStep
  <2>2. CASE LoadDomain(n, p)
    <3>1. Fresh(w, n)
      BY <2>2, LoadedMet DEF LoadDomain
    <3> QED
      BY <2>2, <3>1, LoadAdds DEF ListMoves
  <2>3. CASE LoadFails(n, p)
    BY <2>3, FailKeeps DEF ListMoves
  <2> QED
    BY <2>1, <2>2, <2>3
<1>2. ASSUME NEW n \in Nodes, Unload(n) PROVE ListMoves(w)
  <2>1. UnloadDomain(n)
    BY <1>2 DEF Unload
  <2> QED
    BY <2>1, UnloadDrops DEF ListMoves
<1>3. CASE list' = list
  BY <1>3 DEF ListMoves
<1>4. ASSUME NEW v, Module(v) PROVE list' = list
  BY <1>4 DEF Module, Register, Unregister
<1>5. ASSUME NEW n \in Nodes, Open(n) \/ SetUp(n) PROVE list' = list
  BY <1>5 DEF Open, SetUp, loadVars
<1>6. ASSUME LuartTest \/ LuartGet \/ LuartExit \/ UNCHANGED vars PROVE list' = list
  BY <1>6 DEF LuartTest, LuartGet, LuartExit, vars, loadVars
<1> QED
  BY <1>1, <1>2, <1>3, <1>4, <1>5, <1>6 DEF Next

LEMMA MovesHold ==
  ASSUME NEW w, Held(list, w), ListMoves(w)
  PROVE  ListInv'
BY DEF ListMoves, Added, Dropped, ListInv

LEMMA RootListHeld == Held(RootList, <<Root>>)
<1> DEFINE w == <<Root>>
<1>1. /\ w \in Seq(Nodes) /\ Len(w) = 1 /\ w[1] = Root /\ Root \in Nodes /\ RootPrio \in Nat
      /\ \A i \in 1 .. 1 : i = 1
  BY DomListAssumption DEF DomListAssumption
<1> HIDE DEF w
<1>2. /\ RootList \in Lists /\ RootList.head = Root
      /\ \A n \in Nodes : RootList.next[n] = Nil /\ RootList.prev[n] = Nil
                          /\ RootList.prio[n] = RootPrio
  BY <1>1 DEF RootList, Lists
<1>3. Chain(RootList, w)
  BY <1>1, <1>2 DEF Chain
<1>4. Sorted(RootList, w)
  BY <1>1, <1>2 DEF Sorted
<1>5. Root \in Met(w)
  BY <1>1 DEF Met
<1> QED
  BY <1>3, <1>4, <1>5 DEF Held, w

LEMMA ListInvariant == Spec => []ListInv
<1>1. Init => ListInv
  BY RootListHeld DEF Init, LoadInit, ListInv
<1>2. ListInv /\ [Next]_vars => ListInv'
  BY EachMoves, MovesHold DEF ListInv
<1> QED
  BY <1>1, <1>2, PTL DEF Spec

(* insert_domain_list, remove_domain_list: next and prev mirror each other *)
(* along the list, and nothing else is linked.                             *)
THEOREM KeepsMirrored == Spec => []Mirrored
<1>1. ListInv => Mirrored
  <2> SUFFICES ASSUME NEW w, Held(list, w) PROVE Mirrored
    BY DEF ListInv
  <2>1. /\ w \in Seq(Nodes) /\ Len(w) \in Nat /\ Len(w) >= 1
        /\ list.head = w[1]
        /\ \A i \in 1 .. Len(w) : list.next[w[i]] = IF i = Len(w) THEN Nil ELSE w[i + 1]
        /\ \A i \in 1 .. Len(w) : list.prev[w[i]] = IF i = 1 THEN Nil ELSE w[i - 1]
        /\ \A n \in Nodes : Fresh(w, n) => list.next[n] = Nil /\ list.prev[n] = Nil
    BY DEF Held, Chain, Fresh
  <2>2. Loaded = Met(w) /\ \A n \in Nodes : n \notin Loaded => Fresh(w, n)
    BY LoadedMet
  <2>3. list.prev[list.head] = Nil
    BY <2>1
  <2>4. ASSUME NEW n \in Loaded, list.next[n] # Nil
        PROVE  list.prev[list.next[n]] = n
    <3>1. PICK i \in 1 .. Len(w) : n = w[i]
      BY <2>2 DEF Met
    <3>2. i # Len(w) /\ list.next[n] = w[i + 1]
      BY <2>1, <2>4, <3>1
    <3>3. i + 1 \in 1 .. Len(w) /\ i + 1 # 1 /\ i + 1 - 1 = i
      BY <2>1, <3>2
    <3> QED
      BY <2>1, <3>1, <3>2, <3>3
  <2> QED
    BY <2>1, <2>2, <2>3, <2>4 DEF Mirrored
<1> QED
  BY <1>1, ListInvariant, PTL

-----------------------------------------------------------------------------
(* The refinement of DomainOrder.                                          *)
OrderOf(l) == LET w == Walk(l) IN [i \in DOMAIN w |-> [dom |-> w[i], prio |-> l.prio[w[i]]]]

LEMMA OrderOfIs ==
  ASSUME NEW l, NEW w, Held(l, w)
  PROVE  /\ OrderOf(l) = View(l, w) /\ Len(OrderOf(l)) = Len(w)
         /\ DOMAIN OrderOf(l) = 1 .. Len(w)
         /\ \A i \in 1 .. Len(w) : /\ OrderOf(l)[i].dom = w[i]
                                   /\ OrderOf(l)[i].prio = l.prio[w[i]]
<1>1. Walk(l) = w /\ DOMAIN w = 1 .. Len(w)
  BY LoadedIs DEF Held, Chain
<1>2. OrderOf(l) = View(l, w)
  BY <1>1 DEF OrderOf, View
<1>3. /\ View(l, w) \in Seq(Entries) /\ Len(View(l, w)) = Len(w)
      /\ \A i \in 1 .. Len(w) : View(l, w)[i] = Entry(w[i], l.prio[w[i]])
  BY ViewType DEF Held
<1> DEFINE o == View(l, w)
<1> HIDE DEF o
<1>4. o \in Seq(Entries) /\ Len(o) = Len(w) /\ \A i \in 1 .. Len(w) : o[i] = Entry(w[i], l.prio[w[i]])
  BY <1>3 DEF o
<1>5. DOMAIN o = 1 .. Len(w)
  BY <1>4
<1>6. \A i \in 1 .. Len(w) : o[i].dom = w[i] /\ o[i].prio = l.prio[w[i]]
  <2>1. \A n, p : Entry(n, p).dom = n /\ Entry(n, p).prio = p
    BY DEF Entry
  <2>2. \A i \in 1 .. Len(w) : o[i] = Entry(w[i], l.prio[w[i]])
    BY <1>4
  <2> QED
    BY <2>1, <2>2
<1>7. OrderOf(l) = o
  BY <1>2 DEF o
<1> QED
  BY <1>2, <1>4, <1>5, <1>6, <1>7

(* insert_domain_list and remove_domain_list implement the order that      *)
(* xm_sched and the bypass of events walk along: the domains by their      *)
(* priorities, those of one priority as they were loaded.                  *)
THEOREM KeepsOrder == Spec => IsOrdered
<1>1. Init => Order!Init
  <2> SUFFICES ASSUME Init PROVE OrderOf(list) = <<[dom |-> Root, prio |-> RootPrio]>>
    BY DEF Order!Init, OrderOf
  <2>1. list = RootList
    BY DEF Init, LoadInit
  <2>2. OrderOf(list) = View(list, <<Root>>)
    BY <2>1, RootListHeld, OrderOfIs
  <2>3. RootList.prio[Root] = RootPrio
    BY DomListAssumption DEF DomListAssumption, RootList
  <2> QED
    BY <2>1, <2>2, <2>3 DEF View
<1>2. ListInv /\ [Next]_vars => [Order!Next]_(OrderOf(list))
  <2> SUFFICES ASSUME NEW w, Held(list, w), [Next]_vars
               PROVE  Order!Next \/ OrderOf(list') = OrderOf(list)
    BY DEF ListInv
  <2> DEFINE o == OrderOf(list)
             u == OrderOf(list')
  <2>1. /\ o = View(list, w) /\ Len(o) = Len(w) /\ DOMAIN o = 1 .. Len(w)
        /\ \A i \in 1 .. Len(w) : o[i].dom = w[i] /\ o[i].prio = list.prio[w[i]]
    BY OrderOfIs
  <2>2. ASSUME NEW n \in Nodes, NEW p \in Prios, NEW k \in 0 .. Len(w), NEW t,
               Fresh(w, n), Added(list, w, k, n, p, list', t)
        PROVE  Order!Insert(n, p)
    <3>1. u = With(o, k, Entry(n, p))
      BY <2>1, <2>2, OrderOfIs DEF Added
    <3>2. InPlace(list, w, k, p) /\ k \in 0 .. Len(o)
      BY <2>1, <2>2 DEF Added
    <3> HIDE DEF o, u
    <3>3. n \notin {o[i].dom : i \in DOMAIN o}
      BY <2>1, <2>2 DEF Fresh
    <3>4. \A i \in 1 .. k : o[i].prio <= p
      <4>1. \A i \in 1 .. k : i \in 1 .. Len(w)
        BY <2>2 DEF Held, Chain
      <4> QED
        BY <2>1, <3>2, <4>1 DEF InPlace
    <3>5. \A i \in k + 1 .. Len(o) : p < o[i].prio
      <4>1. \A i \in k + 1 .. Len(w) : i \in 1 .. Len(w)
        BY <2>2 DEF Held, Chain
      <4> QED
        BY <2>1, <3>2, <4>1 DEF InPlace
    <3>6. u = SubSeq(o, 1, k) \o <<[dom |-> n, prio |-> p]>> \o SubSeq(o, k + 1, Len(o))
      BY <3>1 DEF With, Entry
    <3> QED
      BY <3>2, <3>3, <3>4, <3>5, <3>6 DEF Order!Insert, Order!Listed, OrderOf, o, u
  <2>3. ASSUME NEW k \in 1 .. Len(w), w[k] # Root, Dropped(list, w, k, list', Without(w, k))
        PROVE  Order!Remove(w[k])
    <3>1. u = Without(o, k)
      BY <2>1, <2>3, OrderOfIs DEF Dropped
    <3>2. k \in 1 .. Len(o) /\ o[k].dom = w[k]
      BY <2>1, <2>3
    <3> HIDE DEF o, u
    <3>3. u = SubSeq(o, 1, k - 1) \o SubSeq(o, k + 1, Len(o))
      BY <3>1 DEF Without
    <3> QED
      BY <2>3, <3>2, <3>3 DEF Order!Remove, OrderOf, o, u
  <2>4. ASSUME Held(list', w), View(list', w) = View(list, w) PROVE u = o
    BY <2>1, <2>4, OrderOfIs
  <2>5. \A k \in 1 .. Len(w) : w[k] \in Nodes
    BY DEF Held, Chain
  <2>6. ListMoves(w)
    BY EachMoves
  <2> QED
    BY <2>2, <2>3, <2>4, <2>5, <2>6 DEF ListMoves, Order!Next
<1> QED
  BY <1>1, <1>2, ListInvariant, PTL DEF Spec, IsOrdered, Order!Spec, OrderOf

-----------------------------------------------------------------------------
(* The devices.  While a domain is loaded all of them are registered, and  *)
(* each counts at least the domains.                                       *)
DevInv ==
  /\ client \in [DeviceIds -> Int]
  /\ DevicesStay
  /\ \A v \in DeviceIds \cap devs : client[v] >= Cardinality(Loaded) - 1

LEMMA CountedInType ==
  ASSUME client \in [DeviceIds -> Int], NEW D
  PROVE  /\ CountedIn(D) \in [DeviceIds -> Int]
         /\ \A v \in DeviceIds : CountedIn(D)[v] >= client[v]
         /\ \A v \in DeviceIds \cap D : CountedIn(D)[v] = client[v] + 1
BY DEF CountedIn

LEMMA DevNext ==
  ASSUME ListInv, DevInv, [Next]_vars
  PROVE  DevInv'
<1>1. PICK w : Held(list, w)
  BY DEF ListInv
<1>2. /\ Loaded \subseteq Nodes /\ IsFiniteSet(Loaded) /\ Root \in Loaded
      /\ Cardinality(Loaded) \in Nat
  BY <1>1, LoadedMet, FS_CardinalityType
<1>3. /\ client \in [DeviceIds -> Int]
      /\ Loaded # {Root} => DeviceIds \subseteq devs
      /\ \A v \in DeviceIds \cap devs : client[v] >= Cardinality(Loaded) - 1
  BY DEF DevInv, DevicesStay
<1>4. Cardinality({Root}) = 1
  BY FS_Singleton
<1>5. ASSUME NEW n \in Nodes, NEW p \in Prios, LoadDomain(n, p) PROVE DevInv'
  <2>1. n \notin Loaded /\ Loaded' = Loaded \cup {n}
    BY <1>1, <1>5, LoadAdds
  <2>2. Cardinality(Loaded') = Cardinality(Loaded) + 1
    BY <1>2, <2>1, FS_AddElement
  <2>3. devs' = devs /\ DeviceIds \subseteq devs /\ client' = CountedIn(DeviceIds)
    BY <1>5 DEF LoadDomain
  <2>4. /\ client' \in [DeviceIds -> Int]
        /\ \A v \in DeviceIds : client'[v] = client[v] + 1
    BY <1>3, <2>3, CountedInType
  <2>5. \A v \in DeviceIds : client'[v] >= Cardinality(Loaded') - 1
    BY <1>2, <1>3, <2>2, <2>3, <2>4
  <2> QED
    BY <2>3, <2>4, <2>5 DEF DevInv, DevicesStay
<1>6. ASSUME NEW n \in Nodes, NEW p \in Prios, LoadFails(n, p) PROVE DevInv'
  <2>1. Loaded' = Loaded /\ devs' = devs
    BY <1>1, <1>6, FailKeeps DEF LoadFails
  <2>2. client' = client \/ \E D : client' = CountedIn(D)
    BY <1>6 DEF LoadFails
  <2>3. client' \in [DeviceIds -> Int] /\ \A v \in DeviceIds : client'[v] >= client[v]
    BY <1>3, <2>2, CountedInType
  <2>4. \A v \in DeviceIds \cap devs : client'[v] >= Cardinality(Loaded) - 1
    BY <1>2, <1>3, <2>3
  <2> QED
    BY <1>3, <2>1, <2>3, <2>4 DEF DevInv, DevicesStay
<1>7. ASSUME NEW n \in Nodes, UnloadDomain(n) PROVE DevInv'
  <2>1. n \in Loaded /\ n # Root /\ Loaded' = Loaded \ {n}
    BY <1>1, <1>7, UnloadDrops
  <2>2. Cardinality(Loaded') = Cardinality(Loaded) - 1
    BY <1>2, <2>1, FS_RemoveElement
  <2>3. DeviceIds \subseteq devs /\ devs' = devs
    BY <1>3, <1>7, <2>1 DEF UnloadDomain
  <2>4. client' = [v \in DeviceIds |-> client[v] - 1]
    BY <1>7, <2>3 DEF UnloadDomain
  <2>5. /\ client' \in [DeviceIds -> Int]
        /\ \A v \in DeviceIds : client'[v] >= Cardinality(Loaded') - 1
    BY <1>2, <1>3, <2>2, <2>3, <2>4
  <2> QED
    BY <2>3, <2>5 DEF DevInv, DevicesStay
<1>8. ASSUME NEW v \in DeviceIds, Register(v) PROVE DevInv'
  <2>1. list' = list /\ Loaded' = Loaded /\ devs' = devs \cup {v} /\ v \notin devs
        /\ client' = [client EXCEPT ![v] = 0]
    BY <1>8 DEF Register, Loaded
  <2>2. Loaded = {Root}
    BY <1>3, <1>8, <2>1
  <2>3. /\ client' \in [DeviceIds -> Int]
        /\ \A u \in DeviceIds \cap devs' : client'[u] >= Cardinality(Loaded') - 1
    <3>1. client' \in [DeviceIds -> Int] /\ client'[v] = 0
      BY <1>3, <1>8, <2>1
    <3>2. Cardinality(Loaded') - 1 = 0 /\ Cardinality(Loaded) - 1 = 0
      BY <1>4, <2>1, <2>2
    <3>3. ASSUME NEW u \in DeviceIds \cap devs' PROVE client'[u] >= 0
      <4>1. CASE u = v
        BY <3>1, <4>1
      <4>2. CASE u # v
        <5>1. client[u] >= 0 /\ client'[u] = client[u]
          BY <1>3, <2>1, <3>2, <3>3, <4>2
        <5> QED
          BY <5>1
      <4> QED
        BY <4>1, <4>2
    <3> QED
      BY <3>1, <3>2, <3>3
  <2> QED
    BY <2>1, <2>2, <2>3 DEF DevInv, DevicesStay
<1>9. ASSUME NEW v \in DeviceIds, Unregister(v) PROVE DevInv'
  <2>1. /\ list' = list /\ Loaded' = Loaded /\ devs' = devs \ {v} /\ v \in devs
        /\ client[v] <= 0 /\ client' = client
    BY <1>9 DEF Unregister, Loaded
  <2>2. Cardinality(Loaded) <= 1
    BY <1>2, <1>3, <1>9, <2>1
  <2>3. Loaded = {Root}
    <3>1. Cardinality(Loaded \ {Root}) = 0 /\ IsFiniteSet(Loaded \ {Root})
      <4>1. /\ IsFiniteSet(Loaded \ {Root})
            /\ Cardinality(Loaded \ {Root}) = Cardinality(Loaded) - 1
        BY <1>2, FS_RemoveElement
      <4>2. Cardinality(Loaded \ {Root}) \in Nat
        BY <4>1, FS_CardinalityType
      <4> QED
        BY <1>2, <2>2, <4>1, <4>2
    <3>2. Loaded \ {Root} = {}
      BY <3>1, FS_EmptySet
    <3> QED
      BY <1>2, <3>2
  <2> QED
    BY <1>3, <2>1, <2>3 DEF DevInv, DevicesStay
<1>10. CASE UNCHANGED loadVars
  BY <1>10 DEF loadVars, DevInv, DevicesStay, Loaded
<1>11. ASSUME NEW n \in Nodes, Load(n) \/ Unload(n) \/ Open(n) \/ SetUp(n) PROVE DevInv'
  BY <1>5, <1>6, <1>7, <1>10, <1>11 DEF Load, LoadStep, Unload, Open, SetUp
<1>12. ASSUME NEW v \in DeviceIds, Module(v) PROVE DevInv'
  BY <1>8, <1>9, <1>12 DEF Module
<1>13. ASSUME LuartTest \/ LuartGet \/ LuartExit \/ UNCHANGED vars PROVE DevInv'
  BY <1>10, <1>13 DEF LuartTest, LuartGet, LuartExit, vars
<1> QED
  BY <1>11, <1>12, <1>13 DEF Next

LEMMA DevInvariant == Spec => [](ListInv /\ DevInv)
<1>1. Init => DevInv
  <2> SUFFICES ASSUME Init PROVE DevInv
    OBVIOUS
  <2>1. list = RootList /\ devs = {} /\ client = [v \in DeviceIds |-> 0]
    BY DEF Init, LoadInit
  <2>2. Loaded = Met(<<Root>>)
    BY <2>1, RootListHeld, LoadedMet
  <2>3. Met(<<Root>>) = {Root}
    BY DEF Met
  <2> QED
    BY <2>1, <2>2, <2>3 DEF DevInv, DevicesStay
<1>2. ListInv /\ DevInv /\ [Next]_vars => DevInv'
  BY DevNext
<1> QED
  BY <1>1, <1>2, ListInvariant, PTL DEF Spec

(* xm_dev_unregister ("Connot release the device"): the devices of a       *)
(* domain that is loaded stay, whatever loads failed before.               *)
THEOREM KeepsDevices == Spec => []DevicesStay
<1>1. DevInv => DevicesStay
  BY DEF DevInv
<1> QED
  BY <1>1, DevInvariant, PTL

-----------------------------------------------------------------------------
(* The line.  Whoever has it mapped is the domain it names; Linux has it   *)
(* only while nobody else has.                                             *)
Ways == {"none", "client", "driver", "open", "using", "again", "failed"}

Alone ==
  /\ \A n \in Nodes : Mapped(n) => used /\ inited /\ dom = n /\ luart # "using"
  /\ luart = "using" => inited

LineInv ==
  /\ at \in [Nodes -> Ways]
  /\ \A n \in Nodes : at[n] # "none" => n \in Loaded \ {Root}
  /\ misled \/ Alone

LEMMA LineOpen ==
  ASSUME LineInv, NEW n \in Nodes, Open(n) \/ SetUp(n)
  PROVE  LineInv'
<1>1. Loaded' = Loaded /\ luart' = luart /\ at[n] # "none" /\ at \in [Nodes -> Ways]
  BY DEF Open, SetUp, loadVars, Loaded, LineInv
<1>2. PICK a \in {"client", "open", "using", "again", "failed"} : at' = [at EXCEPT ![n] = a]
  <2>1. CASE SetUp(n)
    BY <2>1 DEF SetUp
  <2>2. CASE Open(n) /\ UNCHANGED at
    BY <1>1, <2>2 DEF Open, Ways
  <2>3. CASE Open(n) /\ Reached(n)
    BY <2>3 DEF Reached
  <2> QED
    BY <2>1, <2>2, <2>3 DEF Open
<1>3. at' \in [Nodes -> Ways] /\ \A m \in Nodes : at'[m] # "none" => m \in Loaded' \ {Root}
  BY <1>1, <1>2 DEF LineInv, Ways
<1>4. SUFFICES ASSUME ~misled' PROVE Alone'
  BY <1>3 DEF LineInv
<1>5. \A m \in Nodes : m # n => at'[m] = at[m]
  BY <1>1, <1>2
<1>6. ~misled /\ Alone
  <2>1. UNCHANGED misled \/ misled' = (misled \/ Mapped(n))
    BY DEF Open, SetUp
  <2>2. misled => misled'
    BY <2>1
  <2> QED
    BY <1>4, <2>2 DEF LineInv
<1>7. CASE Open(n) /\ used /\ dom # n
  <2>1. ~Mapped(n)
    BY <1>6, <1>7 DEF Alone
  <2>2. UNCHANGED <<at, used, dom, inited>>
    BY <1>7, <2>1 DEF Open
  <2> QED
    BY <1>1, <1>6, <2>2 DEF Alone, Mapped
<1>8. CASE Open(n) /\ ~(used /\ dom # n) /\ inited
  <2>1. ~Mapped(n) /\ UNCHANGED <<at, inited>>
    BY <1>4, <1>8 DEF Open
  <2>2. \A m \in Nodes : ~Mapped(m)
    BY <1>6, <1>8, <2>1 DEF Alone
  <2> QED
    BY <1>1, <1>6, <2>1, <2>2 DEF Alone, Mapped
<1>9. CASE Open(n) /\ ~(used /\ dom # n) /\ ~inited
  <2>1. inited' = TRUE /\ used' = TRUE /\ dom' = n
    BY <1>9 DEF Open
  <2>2. luart # "using" /\ \A m \in Nodes : ~Mapped(m)
    BY <1>6, <1>9 DEF Alone
  <2> QED
    BY <1>1, <1>5, <2>1, <2>2 DEF Alone, Mapped
<1>10. CASE SetUp(n)
  <2>1. Mapped(n) /\ UNCHANGED <<used, dom, inited>>
    BY <1>10 DEF SetUp, Mapped
  <2> QED
    BY <1>1, <1>5, <1>6, <2>1 DEF Alone, Mapped
<1> QED
  BY <1>7, <1>8, <1>9, <1>10

(* rt_console_get, rt_console_free.                                        *)
LEMMA LineLinux ==
  ASSUME LineInv, LuartTest \/ LuartGet \/ LuartExit \/ UNCHANGED vars
  PROVE  LineInv'
<1>1. Loaded' = Loaded /\ at' = at
  BY DEF LuartTest, LuartGet, LuartExit, vars, lineVars, loadVars, Loaded
<1>2. CASE LuartTest
  <2>1. UNCHANGED <<used, dom, inited, misled>> /\ luart' = "tested"
    BY <1>2 DEF LuartTest
  <2> QED
    BY <1>1, <2>1 DEF LineInv, Alone, Mapped
<1>3. CASE LuartGet
  <2>1. inited' = TRUE /\ misled' = (misled \/ used)
    BY <1>3 DEF LuartGet
  <2> QED
    BY <1>1, <2>1 DEF LineInv, Alone, Mapped
<1>4. CASE LuartExit
  <2>1. luart = "using" /\ luart' = "out" /\ misled' = misled
    BY <1>4 DEF LuartExit
  <2> QED
    BY <1>1, <2>1 DEF LineInv, Alone, Mapped
<1>5. CASE UNCHANGED vars
  BY <1>1, <1>5 DEF vars, lineVars, LineInv, Alone, Mapped
<1> QED
  BY <1>2, <1>3, <1>4, <1>5

(* Domains that come and go: a new one has not opened the line, and of one *)
(* that goes nothing is left that would let another in.                    *)
LEMMA LineLoad ==
  ASSUME ListInv, LineInv, NEW n \in Nodes, Load(n) \/ Unload(n)
  PROVE  LineInv'
<1>1. PICK w : Held(list, w)
  BY DEF ListInv
<1>2. UNCHANGED <<used, dom, inited, luart, misled>>
  BY DEF Load, Unload
<1>3. PICK a \in {"none", "client", "driver"} : /\ at' = [at EXCEPT ![n] = a]
                                                /\ a # "none" => n \in Loaded' /\ Load(n)
  BY DEF Load, Unload
<1>4. n # Root /\ Loaded \ {n} \subseteq Loaded'
  <2>1. CASE Load(n)
    <3>1. PICK p \in Prios : LoadDomain(n, p) \/ LoadFails(n, p)
      BY <2>1 DEF Load, LoadStep
    <3>2. n \notin Loaded /\ Loaded \subseteq Loaded'
      BY <1>1, <3>1, LoadAdds, FailKeeps
    <3> QED
      BY <1>1, <3>2, LoadedMet
  <2>2. CASE Unload(n)
    BY <1>1, <2>2, UnloadDrops DEF Unload
  <2> QED
    BY <2>1, <2>2
<1>5. at \in [Nodes -> Ways]
  BY DEF LineInv
<1>6. /\ at' \in [Nodes -> Ways]
      /\ at'[n] = a /\ \A m \in Nodes : m # n => at'[m] = at[m]
  BY <1>3, <1>5 DEF Ways
<1>7. \A m \in Nodes : at'[m] # "none" => m \in Loaded' \ {Root}
  BY <1>3, <1>4, <1>6 DEF LineInv
<1>8. \A m \in Nodes : Mapped(m)' => Mapped(m)
  BY <1>6 DEF Mapped
<1> QED
  BY <1>2, <1>6, <1>7, <1>8 DEF LineInv, Alone

(* The module gives its flags back only when nobody has the line.          *)
LEMMA LineModule ==
  ASSUME ListInv, DevInv, LineInv, NEW v \in DeviceIds, Module(v)
  PROVE  LineInv'
<1>1. Loaded' = Loaded /\ UNCHANGED <<at, luart, misled>>
  BY DEF Module, Register, Unregister, Loaded
<1>2. CASE UNCHANGED <<used, dom, inited>>
  BY <1>1, <1>2 DEF LineInv, Alone, Mapped
<1>3. CASE ~UNCHANGED <<used, dom, inited>>
  <2>1. v = "serial" /\ Register(v) /\ luart = "out"
    BY <1>3 DEF Module
  <2>2. v \notin devs
    BY <2>1 DEF Register
  <2>3. Loaded = {Root}
    BY <2>2 DEF DevInv, DevicesStay
  <2>4. \A n \in Nodes : ~Mapped(n)
    BY <2>3 DEF LineInv, Alone, Mapped
  <2> QED
    BY <1>1, <2>1, <2>4 DEF LineInv, Alone, Mapped
<1> QED
  BY <1>2, <1>3

LEMMA LineInvariant == Spec => []LineInv
<1>1. Init => LineInv
  BY DEF Init, LineInv, Alone, Mapped, Ways
<1>2. ListInv /\ DevInv /\ LineInv /\ [Next]_vars => LineInv'
  BY LineOpen, LineLinux, LineLoad, LineModule DEF Next
<1> QED
  BY <1>1, <1>2, DevInvariant, PTL DEF Spec

(* xm_serial_xm_ioctl, rt_console_get ("serial device has been used"): a   *)
(* line has one user, unless a domain opened it inside rt_console_get or   *)
(* opened again what it has.                                               *)
THEOREM OneUserOnly == Spec => []OneUser
<1>1. LineInv => OneUser
  <2> SUFFICES ASSUME LineInv, ~misled
               PROVE  Cardinality(Users) + (IF luart = "using" THEN 1 ELSE 0) <= 1
    BY DEF OneUser
  <2>1. /\ \A n \in Users : n = dom
        /\ luart = "using" => Users = {}
    BY DEF LineInv, Alone, Mapped, Users
  <2>2. Users = {} \/ Users = {dom}
    BY <2>1
  <2>3. Cardinality({}) = 0 /\ Cardinality({dom}) = 1
    BY FS_EmptySet, FS_Singleton
  <2>4. CASE Users = {}
    BY <2>3, <2>4
  <2>5. CASE Users = {dom} /\ luart # "using"
    BY <2>3, <2>5
  <2> QED
    BY <2>1, <2>2, <2>4, <2>5
<1> QED
  BY <1>1, LineInvariant, PTL

-----------------------------------------------------------------------------
(* XmSerial: the packets on the line.                                      *)

(* The bytes of a packet: its line, how many of the line were sent before, *)
(* and how many it has.  Its first part is the number of the line.         *)
Bytes == [of : Lines, n : Nat, i : Nat, len : Nat]
Packets == [of : Nat, b : Nat, len : Nat]

Part(p, j) == IF j = 1 THEN Number(p.of) ELSE Byte(p.of, p.b + (j - 1), j - 1, p.len)

(* s are n parts of p, behind the first a.                                 *)
Holds(s, p, a, n) == Len(s) = n /\ \A j \in 1 .. n : s[j] = Part(p, a + j)

(* What does not begin with a number.                                      *)
Junk(s) == s = <<>> \/ s[1].i # 0

Sent(v) == wrote[v] - Len(out[v])

Shelves == [Lines -> [top : Int, data : Seq(Bytes)]]

Stocks ==
  /\ wrote \in [Lines -> Nat] /\ out \in [Lines -> Seq(Nat)] /\ got \in [Lines -> Nat]
  /\ in \in Shelves
  /\ \A v \in Lines :
       /\ Len(out[v]) <= wrote[v]
       /\ \A j \in 1 .. Len(out[v]) : out[v][j] = Sent(v) + j

Buffers ==
  /\ uin \in Seq(Bytes) /\ rx \in Seq(Bytes) /\ shift \in Seq(Bytes)
  /\ thr \in Seq(Bytes) /\ uout \in Seq(Bytes)
  /\ Len(shift) <= 1 /\ Len(thr) <= 1 /\ late \in Nat
  /\ tx \in {"fill", "clear"} => uout = <<>>
  /\ msc => delta

(* The bytes of each line are in the order in which they were written,     *)
(* from the readers' FIFOs back to the driver's buffer.                    *)
Before(A, B) == \A x \in A, y \in B : x.of = y.of /\ y.i # 0 => x.n < y.n

Rising(s) ==
  \A j \in 1 .. Len(s) : \A i \in 1 .. j - 1 :
    s[i].of = s[j].of /\ s[j].i # 0 => s[i].n < s[j].n

FromUout == Range(uout)
FromThr == Range(thr) \cup FromUout
FromShift == Range(shift) \cup FromThr
FromRx == Range(rx) \cup FromShift
FromUin == Range(uin) \cup FromRx

Queued ==
  /\ Rising(uin) /\ Rising(rx) /\ Rising(uout)
  /\ Before(Range(uin), FromRx) /\ Before(Range(rx), FromShift)
  /\ Before(Range(shift), FromThr) /\ Before(Range(thr), FromUout)

Shelved ==
  \A v \in Lines :
    /\ Rising(in[v].data) /\ Before(Range(in[v].data), FromUin) /\ got[v] <= Sent(v)
    /\ \A b \in Range(in[v].data) \cup FromUin :
         b.n <= Sent(b.of) /\ (b.of = v /\ b.i # 0 => got[v] < b.n)

Flow == Stocks /\ Buffers /\ Queued /\ Shelved

(* p is the last packet: r of its parts are out of the driver's buffer, h  *)
(* out of the holding register, and a have arrived.                        *)
Sends(p, r, h, a) ==
  /\ uout \in Seq(Bytes) /\ r <= p.len + 1 /\ Holds(uout, p, r, p.len + 1 - r)
  /\ \/ thr = <<>> /\ h = r
     \/ thr = <<Part(p, r)>> /\ r = h + 1
  /\ \/ shift = <<>> /\ a = h
     \/ shift = <<Part(p, h)>> /\ h = a + 1
     \/ shift \in Seq(Bytes) /\ Len(shift) = 1 /\ shift[1].i # 0 /\ a = 0 /\ h = 0

(* The receiver has the packet q before p, but perhaps for its last part.  *)
Keeps(q, p, h, a) ==
  /\ delta /\ a = 0
  /\ q.len \in 1 .. Payload /\ q.of \in Lines
  /\ \/ Holds(uin, q, 0, q.len) /\ shift = <<Part(q, q.len + 1)>> /\ h = 0
     \/ Holds(uin, q, 0, q.len + 1) /\ (shift = <<>> \/ h = 1)

Receives(p, h, a) ==
  /\ uin \in Seq(Bytes)
  /\ Junk(uin) \/ Holds(uin, p, 0, a) \/ \E q \in Packets : Keeps(q, p, h, a)

(* What the modem lines tell of it.                                        *)
Tells(p, h, a) ==
  /\ h <= p.len => mcr = "start"
  /\ tx \in {"fill", "clear"} => h = p.len + 1
  /\ delta => a = 0 \/ h = p.len + 1
  /\ due => delta
  /\ delta /\ a = 0 /\ h = 1 => due
  /\ tx = "fill" /\ mcr = "start" /\ ~delta => Junk(uin)

Carries(p, r, h, a) ==
  /\ Sends(p, r, h, a) /\ Receives(p, h, a) /\ Tells(p, h, a)
  /\ p.len = 0 => a = 1 /\ uin = <<>>
  /\ p.len # 0 => p.of \in Lines /\ p.len <= Payload

LEMMA Joined ==
  ASSUME NEW S, NEW s \in Seq(S), NEW t \in Seq(S), NEW k \in Nat, Len(t) = k
  PROVE  /\ s \o t \in Seq(S) /\ Len(s \o t) = Len(s) + k
         /\ \A i \in 1 .. Len(s) : (s \o t)[i] = s[i]
         /\ \A i \in Len(s) + 1 .. Len(s) + k : (s \o t)[i] = t[i - Len(s)]
OBVIOUS

LEMMA Pushed ==
  ASSUME NEW S, NEW x \in S, NEW t \in Seq(S), NEW k \in Nat, Len(t) = k
  PROVE  /\ <<x>> \o t \in Seq(S) /\ Len(<<x>> \o t) = k + 1
         /\ (<<x>> \o t)[1] = x
         /\ \A j \in 2 .. k + 1 : (<<x>> \o t)[j] = t[j - 1]
<1> DEFINE s == <<x>>
           e == s \o t
<1>1. s \in Seq(S) /\ Len(s) = 1 /\ s[1] = x
  OBVIOUS
<1> HIDE DEF s
<1>2. /\ e \in Seq(S) /\ Len(e) = Len(s) + k
      /\ \A i \in 1 .. Len(s) : e[i] = s[i]
      /\ \A i \in Len(s) + 1 .. Len(s) + k : e[i] = t[i - Len(s)]
  <2>1. s \in Seq(S)
    BY <1>1
  <2> QED
    BY <2>1, Joined
<1> HIDE DEF e
<1>3. Len(e) = k + 1 /\ e[1] = x
  BY <1>1, <1>2
<1>4. \A j \in 2 .. k + 1 : e[j] = t[j - 1]
  BY <1>1, <1>2
<1> QED
  BY <1>2, <1>3, <1>4 DEF e, s

LEMMA Cut ==
  ASSUME NEW S, NEW s \in Seq(S), NEW k \in 0 .. Len(s)
  PROVE  /\ SubSeq(s, k + 1, Len(s)) \in Seq(S)
         /\ Len(SubSeq(s, k + 1, Len(s))) = Len(s) - k
         /\ \A i \in 1 .. Len(s) - k : SubSeq(s, k + 1, Len(s))[i] = s[k + i]
<1>1. Len(s) \in Nat /\ \A i \in 1 .. Len(s) : s[i] \in S
  OBVIOUS
<1> QED
  BY <1>1

LEMMA PartIs ==
  ASSUME NEW p \in Packets, p.of \in Lines, NEW j \in 1 .. p.len + 1
  PROVE  /\ Part(p, j) \in Bytes /\ Part(p, j).of = p.of /\ Part(p, j).i = j - 1
         /\ j # 1 => Part(p, j).n = p.b + (j - 1) /\ Part(p, j).len = p.len
BY DEF Part, Number, Byte, Bytes, Packets

LEMMA HoldsMore ==
  ASSUME NEW s \in Seq(Bytes), NEW p, NEW n \in Nat, Holds(s, p, 0, n), NEW x \in Bytes,
         x = Part(p, n + 1)
  PROVE  s \o <<x>> \in Seq(Bytes) /\ Holds(s \o <<x>>, p, 0, n + 1)
<1> DEFINE t == s \o <<x>>
<1>1. Len(s) = n /\ \A j \in 1 .. n : s[j] = Part(p, 0 + j)
  BY DEF Holds
<1>2. t \in Seq(Bytes) /\ Len(t) = n + 1 /\ t[n + 1] = x /\ \A j \in 1 .. n : t[j] = s[j]
  BY <1>1
<1> HIDE DEF t
<1>3. \A j \in 1 .. n + 1 : t[j] = Part(p, 0 + j)
  <2> SUFFICES ASSUME NEW j \in 1 .. n + 1 PROVE t[j] = Part(p, 0 + j)
    OBVIOUS
  <2>1. 0 + j = j /\ (j = n + 1 \/ j \in 1 .. n)
    OBVIOUS
  <2> QED
    BY <1>1, <1>2, <2>1
<1>4. t \in Seq(Bytes) /\ Holds(t, p, 0, n + 1)
  BY <1>2, <1>3 DEF Holds
<1> QED
  BY <1>4 DEF t
-----------------------------------------------------------------------------
(* The order of bytes.                                                     *)

LEMMA RangeIs ==
  ASSUME NEW S, NEW s \in Seq(S)
  PROVE  /\ Range(s) \subseteq S
         /\ \A x : x \in Range(s) <=> \E i \in 1 .. Len(s) : x = s[i]
BY DEF Range

LEMMA RangeEmpty == Range(<<>>) = {}
BY DEF Range

LEMMA RangeOne ==
  ASSUME NEW x
  PROVE  Range(<<x>>) = {x} /\ Rising(<<x>>)
<1> DEFINE s == <<x>>
<1>1. DOMAIN s = {1} /\ s[1] = x /\ Len(s) = 1
  OBVIOUS
<1>2. Range(s) = {x}
  BY <1>1 DEF Range
<1>3. Rising(s)
  BY <1>1 DEF Rising
<1> QED
  BY <1>2, <1>3

LEMMA SortedEmpty == Rising(<<>>)
BY DEF Rising

LEMMA HeadFirst ==
  ASSUME NEW s \in Seq(Bytes), s # <<>>, Rising(s)
  PROVE  /\ Head(s) \in Bytes /\ Tail(s) \in Seq(Bytes) /\ Rising(Tail(s))
         /\ Range(s) = {Head(s)} \cup Range(Tail(s))
         /\ Before({Head(s)}, Range(Tail(s)))
<1> DEFINE t == Tail(s)
<1>1. /\ Len(s) \in Nat /\ Len(s) >= 1 /\ Head(s) = s[1] /\ Head(s) \in Bytes
      /\ t \in Seq(Bytes) /\ Len(t) = Len(s) - 1
      /\ \A i \in 1 .. Len(s) - 1 : t[i] = s[i + 1]
  OBVIOUS
<1> HIDE DEF t
<1>2. \A x : x \in Range(s) <=> \E i \in 1 .. Len(s) : x = s[i]
  BY RangeIs
<1>3. \A x : x \in Range(t) <=> \E i \in 1 .. Len(t) : x = t[i]
  BY <1>1, RangeIs
<1>4. \A i \in 1 .. Len(s) : i = 1 \/ (i - 1 \in 1 .. Len(t) /\ s[i] = t[i - 1])
  <2> SUFFICES ASSUME NEW i \in 1 .. Len(s), i # 1 PROVE i - 1 \in 1 .. Len(t) /\ s[i] = t[i - 1]
    OBVIOUS
  <2>1. i - 1 \in 1 .. Len(s) - 1 /\ i - 1 + 1 = i
    BY <1>1
  <2> QED
    BY <1>1, <2>1
<1>5. \A i \in 1 .. Len(t) : i + 1 \in 1 .. Len(s) /\ t[i] = s[i + 1]
  BY <1>1
<1>6. Range(s) = {Head(s)} \cup Range(t)
  <2>1. ASSUME NEW x \in Range(s) PROVE x \in {Head(s)} \cup Range(t)
    BY <1>1, <1>2, <1>3, <1>4
  <2>2. ASSUME NEW x \in Range(t) PROVE x \in Range(s)
    BY <1>2, <1>3, <1>5
  <2>3. Head(s) \in Range(s)
    BY <1>1, <1>2
  <2> QED
    BY <2>1, <2>2, <2>3
<1>7. Rising(t)
  <2> SUFFICES ASSUME NEW j \in 1 .. Len(t), NEW i \in 1 .. j - 1,
                      t[i].of = t[j].of, t[j].i # 0
               PROVE  t[i].n < t[j].n
    BY DEF Rising
  <2>1. i \in 1 .. Len(t) /\ i + 1 \in 1 .. (j + 1) - 1 /\ j + 1 \in 1 .. Len(s)
    BY <1>1
  <2> QED
    BY <1>5, <2>1 DEF Rising
<1>8. Before({Head(s)}, Range(t))
  <2> SUFFICES ASSUME NEW y \in Range(t), s[1].of = y.of, y.i # 0 PROVE s[1].n < y.n
    BY <1>1 DEF Before
  <2>1. PICK i \in 1 .. Len(t) : y = t[i]
    BY <1>3
  <2>2. i + 1 \in 1 .. Len(s) /\ y = s[i + 1] /\ 1 \in 1 .. (i + 1) - 1
    BY <1>1, <1>5, <2>1
  <2> QED
    BY <2>2 DEF Rising
<1> QED
  BY <1>1, <1>6, <1>7, <1>8 DEF t

LEMMA SortedJoin ==
  ASSUME NEW s \in Seq(Bytes), NEW t \in Seq(Bytes), Rising(s), Rising(t), Before(Range(s), Range(t))
  PROVE  s \o t \in Seq(Bytes) /\ Rising(s \o t) /\ Range(s \o t) = Range(s) \cup Range(t)
<1> DEFINE e == s \o t
<1>1. /\ e \in Seq(Bytes) /\ Len(e) = Len(s) + Len(t) /\ Len(s) \in Nat /\ Len(t) \in Nat
      /\ \A i \in 1 .. Len(s) : e[i] = s[i]
      /\ \A i \in Len(s) + 1 .. Len(s) + Len(t) : e[i] = t[i - Len(s)]
  <2>1. Len(s) \in Nat /\ Len(t) \in Nat
    OBVIOUS
  <2> QED
    BY <2>1, Joined
<1> HIDE DEF e
<1>2. \A x : x \in Range(s) <=> \E i \in 1 .. Len(s) : x = s[i]
  BY RangeIs
<1>3. \A x : x \in Range(t) <=> \E i \in 1 .. Len(t) : x = t[i]
  BY RangeIs
<1>4. \A x : x \in Range(e) <=> \E i \in 1 .. Len(e) : x = e[i]
  BY <1>1, RangeIs
<1>5. \A i \in 1 .. Len(e) :
        \/ i \in 1 .. Len(s) /\ e[i] = s[i]
        \/ i > Len(s) /\ i - Len(s) \in 1 .. Len(t) /\ e[i] = t[i - Len(s)]
  <2> SUFFICES ASSUME NEW i \in 1 .. Len(e), ~(i \in 1 .. Len(s))
               PROVE  i > Len(s) /\ i - Len(s) \in 1 .. Len(t) /\ e[i] = t[i - Len(s)]
    BY <1>1
  <2>1. i \in Len(s) + 1 .. Len(s) + Len(t) /\ i > Len(s) /\ i - Len(s) \in 1 .. Len(t)
    BY <1>1
  <2> QED
    BY <1>1, <2>1
<1>6. \A i \in 1 .. Len(t) : Len(s) + i \in 1 .. Len(e) /\ e[Len(s) + i] = t[i]
  <2> SUFFICES ASSUME NEW i \in 1 .. Len(t)
               PROVE  Len(s) + i \in 1 .. Len(e) /\ e[Len(s) + i] = t[i]
    OBVIOUS
  <2>1. Len(s) + i \in Len(s) + 1 .. Len(s) + Len(t) /\ Len(s) + i - Len(s) = i /\ Len(s) + i \in 1 .. Len(e)
    BY <1>1
  <2> QED
    BY <1>1, <2>1
<1>7. Range(e) = Range(s) \cup Range(t)
  <2>1. ASSUME NEW x \in Range(e) PROVE x \in Range(s) \cup Range(t)
    BY <1>2, <1>3, <1>4, <1>5
  <2>2. ASSUME NEW x \in Range(s) PROVE x \in Range(e)
    <3>1. PICK i \in 1 .. Len(s) : x = s[i]
      BY <1>2
    <3>2. i \in 1 .. Len(e) /\ x = e[i]
      BY <1>1, <3>1
    <3> QED
      BY <1>4, <3>2
  <2>3. ASSUME NEW x \in Range(t) PROVE x \in Range(e)
    BY <1>3, <1>4, <1>6
  <2> QED
    BY <2>1, <2>2, <2>3
<1>8. Rising(e)
  <2> SUFFICES ASSUME NEW j \in 1 .. Len(e), NEW i \in 1 .. j - 1,
                      e[i].of = e[j].of, e[j].i # 0
               PROVE  e[i].n < e[j].n
    BY DEF Rising
  <2>1. i \in 1 .. Len(e)
    BY <1>1
  <2>2. CASE j \in 1 .. Len(s)
    <3>1. i \in 1 .. Len(s) /\ e[i] = s[i] /\ e[j] = s[j]
      BY <1>1, <2>2
    <3> QED
      BY <2>2, <3>1 DEF Rising
  <2>3. CASE ~(j \in 1 .. Len(s)) /\ i \in 1 .. Len(s)
    <3>1. e[i] \in Range(s) /\ e[j] \in Range(t)
      BY <1>1, <1>2, <1>3, <1>5, <2>3
    <3> QED
      BY <3>1 DEF Before
  <2>4. CASE ~(j \in 1 .. Len(s)) /\ ~(i \in 1 .. Len(s))
    <3>1. /\ i - Len(s) \in 1 .. Len(t) /\ e[i] = t[i - Len(s)]
          /\ j - Len(s) \in 1 .. Len(t) /\ e[j] = t[j - Len(s)]
      BY <1>5, <2>1, <2>4
    <3>2. i - Len(s) \in 1 .. (j - Len(s)) - 1
      BY <1>1, <3>1
    <3> QED
      BY <3>1, <3>2 DEF Rising
  <2> QED
    BY <2>2, <2>3, <2>4
<1> QED
  BY <1>1, <1>7, <1>8 DEF e

(* A register with a byte.                                                 *)
LEMMA OneByte ==
  ASSUME NEW s \in Seq(Bytes), Len(s) <= 1, s # <<>>
  PROVE  s[1] \in Bytes /\ s = <<s[1]>> /\ Head(s) = s[1] /\ Range(s) = {s[1]}
<1>1. Len(s) = 1 /\ s[1] \in Bytes /\ Head(s) = s[1]
  <2>1. Len(s) \in Nat /\ Len(s) # 0
    OBVIOUS
  <2>2. Len(s) = 1
    BY <2>1
  <2>3. s[1] \in Bytes
    BY <2>2
  <2> QED
    BY <2>2, <2>3
<1>2. s = <<s[1]>>
  BY <1>1
<1>3. Range(<<s[1]>>) = {s[1]}
  BY RangeOne
<1> QED
  BY <1>1, <1>2, <1>3

-----------------------------------------------------------------------------
(* The receiver's FIFOs.                                                   *)

LEMMA SentIs ==
  ASSUME Stocks
  PROVE  \A v \in Lines : /\ Sent(v) \in Nat /\ got[v] \in Nat /\ wrote[v] \in Nat
                          /\ Sent(v) <= wrote[v] /\ Len(out[v]) \in Nat
<1> SUFFICES ASSUME NEW v \in Lines
             PROVE  /\ Sent(v) \in Nat /\ got[v] \in Nat /\ wrote[v] \in Nat
                    /\ Sent(v) <= wrote[v] /\ Len(out[v]) \in Nat
  OBVIOUS
<1>1. wrote[v] \in Nat /\ Len(out[v]) \in Nat /\ Len(out[v]) <= wrote[v] /\ got[v] \in Nat
  BY DEF Stocks
<1> QED
  BY <1>1 DEF Sent

LEMMA StocksStay ==
  ASSUME Stocks, UNCHANGED <<wrote, out, got>>, in' \in Shelves
  PROVE  Stocks' /\ \A v \in Lines : Sent(v)' = Sent(v)
<1>1. \A v \in Lines : Sent(v)' = Sent(v)
  BY DEF Sent
<1>2. \A v \in Lines : \A j \in 1 .. Len(out'[v]) : out'[v][j] = Sent(v)' + j
  BY <1>1 DEF Stocks
<1> QED
  BY <1>1, <1>2 DEF Stocks

(* uart_flush_in_buff: where it delivers to, and that it drops or appends. *)
LEMMA Flushed ==
  ASSUME in \in Shelves, uin \in Seq(Bytes), Flush(uin)
  PROVE  \/ in' = in
         \/ /\ Len(uin) >= 2 /\ Value(uin[1]) \in Lines /\ in' \in Shelves
            /\ in'[Value(uin[1])].data = in[Value(uin[1])].data \o Tail(uin)
            /\ \A v \in Lines : v # Value(uin[1]) => in'[v].data = in[v].data
<1> DEFINE u == Value(uin[1])
<1>1. CASE Len(uin) < 2 \/ u \notin Lines
  BY <1>1 DEF Flush
<1>2. CASE ~(Len(uin) < 2) /\ u \in Lines
  <2>1. in' = [in EXCEPT ![u] = Stored(in[u], Tail(uin))]
    BY <1>2 DEF Flush
  <2>2. in[u] \in [top : Int, data : Seq(Bytes)]
    BY <1>2 DEF Shelves
  <2>3. CASE Stored(in[u], Tail(uin)) = in[u]
    BY <2>1, <2>3 DEF Shelves
  <2>4. CASE Stored(in[u], Tail(uin)) # in[u]
    <3> DEFINE t == (in[u].top + Len(Tail(uin))) % Size
               e == in[u].data \o Tail(uin)
    <3>1. Stored(in[u], Tail(uin)) = [top |-> t, data |-> e]
      BY <2>4 DEF Stored
    <3>2. Tail(uin) \in Seq(Bytes) /\ Len(Tail(uin)) \in Nat /\ Len(uin) >= 2
      <4>1. Len(uin) \in Nat /\ uin # <<>>
        BY <1>2
      <4>2. Tail(uin) \in Seq(Bytes)
        BY <4>1
      <4> QED
        BY <1>2, <4>1, <4>2
    <3>3. t \in Int /\ e \in Seq(Bytes)
      BY <2>2, <3>2, SerialAssumption DEF SerialAssumption
    <3> HIDE DEF t, e, u
    <3>4. in' \in Shelves /\ in'[u].data = e /\ \A v \in Lines : v # u => in'[v].data = in[v].data
      BY <1>2, <2>1, <3>1, <3>3 DEF Shelves
    <3> QED
      BY <1>2, <3>2, <3>4 DEF e, u
  <2> QED
    BY <2>3, <2>4
<1> QED
  BY <1>1, <1>2

LEMMA FlushOrder ==
  ASSUME Flow, Flush(uin)
  PROVE  /\ in' \in Shelves
         /\ \A v \in Lines : /\ Rising(in'[v].data)
                             /\ Range(in'[v].data) \subseteq Range(in[v].data) \cup Range(uin)
<1>1. in \in Shelves /\ uin \in Seq(Bytes) /\ Rising(uin) /\ \A v \in Lines : Rising(in[v].data)
  BY DEF Flow, Stocks, Buffers, Queued, Shelved
<1>2. CASE in' = in
  BY <1>1, <1>2
<1>3. CASE /\ Len(uin) >= 2 /\ Value(uin[1]) \in Lines /\ in' \in Shelves
           /\ in'[Value(uin[1])].data = in[Value(uin[1])].data \o Tail(uin)
           /\ \A v \in Lines : v # Value(uin[1]) => in'[v].data = in[v].data
  <2> DEFINE u == Value(uin[1])
             d == in[u].data
  <2> HIDE DEF u
  <2>1. u \in Lines /\ d \in Seq(Bytes) /\ Rising(d) /\ in'[u].data = d \o Tail(uin)
    BY <1>1, <1>3 DEF u, Shelves
  <2>2. uin # <<>>
    BY <1>3
  <2>3. Tail(uin) \in Seq(Bytes) /\ Rising(Tail(uin)) /\ Range(Tail(uin)) \subseteq Range(uin)
    BY <1>1, <2>2, HeadFirst
  <2>4. Before(Range(d), Range(Tail(uin)))
    BY <2>1, <2>3 DEF Flow, Shelved, FromUin, Before
  <2> HIDE DEF d
  <2>5. Rising(d \o Tail(uin)) /\ Range(d \o Tail(uin)) = Range(d) \cup Range(Tail(uin))
    BY <2>1, <2>3, <2>4, SortedJoin
  <2>6. Rising(in'[u].data) /\ Range(in'[u].data) \subseteq Range(in[u].data) \cup Range(uin)
    BY <2>1, <2>3, <2>5 DEF d
  <2>7. \A v \in Lines : v # u => in'[v].data = in[v].data
    BY <1>3 DEF u
  <2> QED
    BY <1>1, <1>3, <2>6, <2>7
<1> QED
  BY <1>1, <1>2, <1>3, Flushed

(* uart_recv_start and uart_recv_stop leave nothing, or what was there.    *)
LEMMA ResetIs ==
  ASSUME uin \in Seq(Bytes), Flush(uin)
  PROVE  Reset(uin) = <<>> \/ (Reset(uin) = uin /\ Len(uin) < 2 /\ in' = in)
BY DEF Reset, Flush

(* uart_RDA_handler: the byte comes behind what is there, in the buffer or *)
(* on the shelves.                                                         *)
LEMMA ReceiveOrder ==
  ASSUME Flow, NEW x \in FromRx, x \in Bytes, Receive(<<x>>)
  PROVE  /\ uin' \in Seq(Bytes) /\ Rising(uin') /\ Range(uin') \subseteq Range(uin) \cup {x}
         /\ in' \in Shelves
         /\ \A v \in Lines : /\ Rising(in'[v].data)
                             /\ Range(in'[v].data) \subseteq Range(in[v].data) \cup Range(uin)
                             /\ Before(Range(in'[v].data), Range(uin'))
<1>1. /\ uin \in Seq(Bytes) /\ Rising(uin) /\ Before(Range(uin), {x})
      /\ in \in Shelves
      /\ \A v \in Lines : Rising(in[v].data) /\ Before(Range(in[v].data), Range(uin) \cup {x})
  BY DEF Flow, Stocks, Buffers, Queued, Shelved, FromUin, Before
<1>2. <<x>> \in Seq(Bytes) /\ Rising(<<x>>) /\ Range(<<x>>) = {x}
  <2>1. <<x>> \in Seq(Bytes)
    OBVIOUS
  <2> QED
    BY <2>1, RangeOne
<1>3. CASE uin' = uin \o <<x>> /\ in' = in
  <2>1. uin' \in Seq(Bytes) /\ Rising(uin') /\ Range(uin') = Range(uin) \cup {x}
    BY <1>1, <1>2, <1>3, SortedJoin
  <2> QED
    BY <1>1, <1>3, <2>1
<1>4. CASE uin' = Reset(uin) \o <<x>> /\ Flush(uin) /\ ~(Len(uin) < 2)
  <2>1. Reset(uin) = <<>>
    BY <1>4 DEF Reset
  <2>2. uin' = <<x>>
    BY <1>4, <2>1
  <2>3. /\ in' \in Shelves
        /\ \A v \in Lines : /\ Rising(in'[v].data)
                            /\ Range(in'[v].data) \subseteq Range(in[v].data) \cup Range(uin)
    BY <1>4, FlushOrder
  <2>4. \A v \in Lines : Before(Range(in'[v].data), {x})
    BY <1>1, <2>3 DEF Before
  <2> QED
    BY <1>2, <2>2, <2>3, <2>4
<1> QED
  <2>1. Len(uin) \in Nat /\ Payload \in Nat \ {0}
    BY <1>1, SerialAssumption DEF SerialAssumption
  <2> QED
    BY <1>3, <1>4, <2>1 DEF Receive

-----------------------------------------------------------------------------
(* The order of bytes is kept by each step.                                *)

LEMMA BytesAre ==
  ASSUME Stocks, Buffers
  PROVE  FromUin \subseteq Bytes /\ \A v \in Lines : Range(in[v].data) \subseteq Bytes
<1>1. \A v \in Lines : in[v].data \in Seq(Bytes)
  BY DEF Stocks, Shelves
<1>2. \A v \in Lines : Range(in[v].data) \subseteq Bytes
  BY <1>1, RangeIs
<1>3. /\ Range(uin) \subseteq Bytes /\ Range(rx) \subseteq Bytes /\ Range(shift) \subseteq Bytes
      /\ Range(thr) \subseteq Bytes /\ Range(uout) \subseteq Bytes
  BY RangeIs DEF Buffers
<1> QED
  BY <1>2, <1>3 DEF FromUin, FromRx, FromShift, FromThr, FromUout

LEMMA ShelvesStay ==
  ASSUME Stocks, Buffers, Shelved, UNCHANGED <<wrote, out, got>>, FromUin' \subseteq FromUin,
         in' \in Shelves,
         \A v \in Lines : /\ Rising(in'[v].data) /\ Before(Range(in'[v].data), FromUin')
                          /\ Range(in'[v].data) \subseteq Range(in[v].data) \cup FromUin
  PROVE  Stocks' /\ Shelved'
<1>1. Stocks' /\ \A v \in Lines : Sent(v)' = Sent(v)
  BY StocksStay
<1>2. ASSUME NEW v \in Lines, NEW b \in Range(in'[v].data) \cup FromUin'
      PROVE  /\ b \in Range(in[v].data) \cup FromUin /\ b.of \in Lines
             /\ b.n <= Sent(b.of)' /\ (b.of = v /\ b.i # 0 => got'[v] < b.n)
  <2>1. b \in Range(in[v].data) \cup FromUin
    OBVIOUS
  <2>2. b.of \in Lines
    BY <2>1, BytesAre DEF Bytes
  <2> QED
    BY <1>1, <2>1, <2>2 DEF Shelved
<1>3. \A v \in Lines : got'[v] <= Sent(v)'
  BY <1>1 DEF Shelved
<1> QED
  BY <1>1, <1>2, <1>3 DEF Shelved

(* Steps that move no byte.                                                *)
LEMMA FlowStays ==
  ASSUME Flow, UNCHANGED <<wrote, out, got, in, uin, rx, shift, thr, uout, late>>,
         tx' \in {"fill", "clear"} => uout = <<>>, msc' => delta'
  PROVE  Flow'
<1>1. Buffers'
  BY DEF Flow, Buffers
<1>2. Queued'
  BY DEF Flow, Queued, FromRx, FromShift, FromThr, FromUout, Rising
<1>3. FromUin' = FromUin
  BY DEF FromUin, FromRx, FromShift, FromThr, FromUout
<1>4. Stocks' /\ Shelved'
  BY <1>3, ShelvesStay DEF Flow, Stocks, Shelved
<1> QED
  BY <1>1, <1>2, <1>4 DEF Flow

LEMMA FlowControl ==
  ASSUME Flow, \/ \E v \in Lines : EnableTHE(v) \/ RaiseStart(v)
               \/ THEInterrupt \/ LeaveHandler \/ RaiseStop \/ DisableTHE \/ SeeIIR
               \/ UNCHANGED serialVars
  PROVE  Flow'
<1>1. (msc => delta) /\ (tx \in {"fill", "clear"} => uout = <<>>)
  BY DEF Flow, Buffers
<1>2. ASSUME NEW v \in Lines, EnableTHE(v) PROVE Flow'
  BY <1>1, <1>2, FlowStays DEF EnableTHE, receiver
<1>3. ASSUME NEW v \in Lines, RaiseStart(v) PROVE Flow'
  BY <1>1, <1>3, FlowStays DEF RaiseStart, SetModem, receiver
<1>4. CASE THEInterrupt
  BY <1>1, <1>4, FlowStays DEF THEInterrupt, receiver
<1>5. CASE LeaveHandler
  BY <1>1, <1>5, FlowStays DEF LeaveHandler, receiver
<1>6. CASE RaiseStop
  BY <1>1, <1>6, FlowStays DEF RaiseStop, SetModem, receiver
<1>7. CASE DisableTHE
  BY <1>1, <1>7, FlowStays DEF DisableTHE, receiver
<1>8. CASE SeeIIR
  BY <1>1, <1>8, FlowStays DEF SeeIIR, sender
<1>9. CASE UNCHANGED serialVars
  BY <1>1, <1>9, FlowStays DEF serialVars, sender, receiver
<1> QED
  BY <1>2, <1>3, <1>4, <1>5, <1>6, <1>7, <1>8, <1>9

LEMMA FlowInit == SerialInit => Flow
<1> SUFFICES ASSUME SerialInit PROVE Flow
  OBVIOUS
<1>1. /\ uin = <<>> /\ rx = <<>> /\ shift = <<>> /\ thr = <<>> /\ uout = <<>>
      /\ late = 0 /\ tx = "out" /\ msc = FALSE
  BY DEF SerialInit
<1>2. \A v \in Lines : /\ wrote[v] = 0 /\ out[v] = <<>> /\ got[v] = 0 /\ in[v].data = <<>>
                       /\ Len(out[v]) = 0
  BY DEF SerialInit
<1>3. \A v \in Lines : Sent(v) = 0
  BY <1>2 DEF Sent
<1>4. Stocks
  <2>1. /\ wrote \in [Lines -> Nat] /\ out \in [Lines -> Seq(Nat)] /\ got \in [Lines -> Nat]
        /\ in \in [Lines -> [top : Int, data : Seq(Bytes)]]
    BY DEF SerialInit
  <2> QED
    BY <1>2, <1>3, <2>1 DEF Stocks, Shelves
<1>5. Buffers
  <2>1. Len(<<>>) = 0 /\ <<>> \in Seq(Bytes)
    OBVIOUS
  <2> QED
    BY <1>1, <2>1 DEF Buffers
<1>6. FromUin = {} /\ FromRx = {} /\ FromShift = {} /\ FromThr = {} /\ FromUout = {}
  BY <1>1, RangeEmpty DEF FromUin, FromRx, FromShift, FromThr, FromUout
<1>7. Queued
  BY <1>1, <1>6, RangeEmpty, SortedEmpty DEF Queued, Before
<1>8. Shelved
  BY <1>2, <1>3, <1>6, RangeEmpty, SortedEmpty DEF Shelved, Before
<1> QED
  BY <1>4, <1>5, <1>7, <1>8 DEF Flow

(* A byte goes into the holding register.                                  *)
LEMMA FlowSend ==
  ASSUME Flow, SendByte
  PROVE  Flow'
<1>1. /\ thr = <<>> /\ uout # <<>> /\ thr' = <<Head(uout)>> /\ uout' = Tail(uout) /\ tx' = "loop"
      /\ UNCHANGED <<wrote, out, got, in, uin, rx, shift, late, msc, delta>>
  BY DEF SendByte, receiver
<1> DEFINE x == Head(uout)
<1>2. /\ x \in Bytes /\ uout' \in Seq(Bytes) /\ Rising(uout')
      /\ Range(uout) = {x} \cup Range(uout') /\ Before({x}, Range(uout'))
  BY <1>1, HeadFirst DEF Flow, Buffers, Queued
<1> HIDE DEF x
<1>3. thr' \in Seq(Bytes) /\ Len(thr') <= 1 /\ Range(thr') = {x} /\ Range(thr) = {}
  <2>1. thr' = <<x>> /\ <<x>> \in Seq(Bytes) /\ Len(<<x>>) = 1
    BY <1>1, <1>2 DEF x
  <2> QED
    BY <1>1, <2>1, RangeOne, RangeEmpty
<1>4. Buffers'
  BY <1>1, <1>2, <1>3 DEF Flow, Buffers
<1>5. /\ FromUout' = Range(uout') /\ FromThr' = FromThr /\ FromShift' = FromShift
      /\ FromRx' = FromRx /\ FromUin' = FromUin
  BY <1>1, <1>2, <1>3 DEF FromUout, FromThr, FromShift, FromRx, FromUin
<1>6. Queued'
  BY <1>1, <1>2, <1>3, <1>5 DEF Flow, Queued, Rising
<1>7. Stocks' /\ Shelved'
  BY <1>1, <1>5, ShelvesStay DEF Flow, Stocks, Shelved
<1> QED
  BY <1>4, <1>6, <1>7 DEF Flow

(* A byte goes onto the line.                                              *)
LEMMA FlowShift ==
  ASSUME Flow, Shift
  PROVE  Flow'
<1>1. /\ shift = <<>> /\ shift' = thr /\ thr' = <<>>
      /\ UNCHANGED <<wrote, out, got, in, uin, rx, uout, late, msc, delta, tx>>
  BY DEF Shift, receiver
<1>2. Range(shift) = {} /\ Range(thr') = {} /\ Len(thr') = 0
  BY <1>1, RangeEmpty
<1>3. Buffers'
  BY <1>1, <1>2 DEF Flow, Buffers
<1>4. /\ FromUout' = FromUout /\ FromThr' = FromUout /\ FromShift' = FromShift
      /\ FromRx' = FromRx /\ FromUin' = FromUin
  BY <1>1, <1>2 DEF FromUout, FromThr, FromShift, FromRx, FromUin
<1>5. Queued'
  BY <1>1, <1>2, <1>4 DEF Flow, Queued, Before, Rising
<1>6. Stocks' /\ Shelved'
  BY <1>1, <1>4, ShelvesStay DEF Flow, Stocks, Shelved
<1> QED
  BY <1>3, <1>5, <1>6 DEF Flow

(* A byte comes out of the UART, or off the line.                          *)
LEMMA FlowReceive ==
  ASSUME Flow, NEW x \in FromRx, x \in Bytes, Receive(<<x>>), Buffers',
         UNCHANGED <<wrote, out, got, thr, uout>>,
         FromRx' \subseteq FromRx, FromShift' \subseteq FromShift, FromThr' = FromThr,
         Before({x}, FromRx'),
         Rising(rx'), Before(Range(rx'), FromShift'), Before(Range(shift'), FromThr')
  PROVE  Flow'
<1>1. /\ uin' \in Seq(Bytes) /\ Rising(uin') /\ Range(uin') \subseteq Range(uin) \cup {x}
      /\ in' \in Shelves
      /\ \A v \in Lines : /\ Rising(in'[v].data)
                          /\ Range(in'[v].data) \subseteq Range(in[v].data) \cup Range(uin)
                          /\ Before(Range(in'[v].data), Range(uin'))
  BY ReceiveOrder
<1>2. /\ Rising(uout) /\ Before(Range(thr), FromUout) /\ Before(Range(uin), FromRx)
      /\ \A v \in Lines : Before(Range(in[v].data), FromUin)
  BY DEF Flow, Queued, Shelved
<1>3. FromUin' = Range(uin') \cup FromRx' /\ FromUin = Range(uin) \cup FromRx /\ FromUout' = FromUout
  BY DEF FromUin, FromUout
<1>4. Before(Range(uin'), FromRx')
  BY <1>1, <1>2 DEF Before
<1>5. Queued'
  BY <1>1, <1>2, <1>3, <1>4 DEF Queued
<1>6. \A v \in Lines : Before(Range(in'[v].data), FromUin')
  BY <1>1, <1>2, <1>3 DEF Before
<1>7. Stocks' /\ Shelved'
  <2>1. FromUin' \subseteq FromUin
    BY <1>1, <1>3
  <2>2. \A v \in Lines : Range(in'[v].data) \subseteq Range(in[v].data) \cup FromUin
    BY <1>1, <1>3
  <2> QED
    BY <1>1, <1>6, <2>1, <2>2, ShelvesStay DEF Flow
<1> QED
  BY <1>5, <1>7 DEF Flow

LEMMA FlowArrive ==
  ASSUME Flow, Arrive
  PROVE  Flow'
<1>1. /\ shift # <<>> /\ rx = <<>> /\ shift' = <<>> /\ Receive(shift)
      /\ UNCHANGED <<wrote, out, got, thr, uout, rx, late, msc, delta, tx>>
  BY DEF Arrive, sender
<1> DEFINE x == shift[1]
<1>2. x \in Bytes /\ shift = <<x>> /\ Range(shift) = {x}
  BY <1>1, OneByte DEF Flow, Buffers
<1> HIDE DEF x
<1>3. Range(shift') = {} /\ Range(rx) = {} /\ Len(shift') = 0
  BY <1>1, RangeEmpty
<1>4. FromUout' = FromUout /\ FromThr' = FromThr /\ FromShift' = FromThr /\ FromRx' = FromThr
  BY <1>1, <1>3 DEF FromUout, FromThr, FromShift, FromRx
<1>5. x \in FromRx /\ Before({x}, FromThr) /\ FromThr \subseteq FromShift /\ FromThr \subseteq FromRx
  BY <1>2 DEF Flow, Queued, FromRx, FromShift
<1>6. Before(Range(rx'), FromShift') /\ Before(Range(shift'), FromThr')
  BY <1>1, <1>3 DEF Before
<1>7. Buffers'
  <2>1. uin' \in Seq(Bytes)
    BY <1>1, <1>2, <1>5, ReceiveOrder
  <2> QED
    BY <1>1, <1>3, <2>1 DEF Flow, Buffers
<1>8. Rising(rx')
  BY <1>1 DEF Flow, Queued
<1> QED
  BY <1>1, <1>2, <1>4, <1>5, <1>6, <1>7, <1>8, FlowReceive

LEMMA FlowTake ==
  ASSUME Flow, Take
  PROVE  Flow'
<1>1. /\ rx # <<>> /\ rx' = Tail(rx) /\ Receive(<<Head(rx)>>)
      /\ UNCHANGED <<wrote, out, got, thr, uout, shift, late, msc, delta, tx>>
  BY DEF Take, sender
<1> DEFINE x == Head(rx)
<1>2. /\ x \in Bytes /\ rx' \in Seq(Bytes) /\ Rising(rx') /\ Range(rx) = {x} \cup Range(rx')
      /\ Before({x}, Range(rx'))
  BY <1>1, HeadFirst DEF Flow, Buffers, Queued
<1>3. Receive(<<x>>)
  BY <1>1
<1> HIDE DEF x
<1>4. FromUout' = FromUout /\ FromThr' = FromThr /\ FromShift' = FromShift
  BY <1>1 DEF FromUout, FromThr, FromShift
<1>5. x \in FromRx /\ FromRx' = Range(rx') \cup FromShift /\ FromRx' \subseteq FromRx
  BY <1>2, <1>4 DEF FromRx
<1>6. /\ Before(Range(rx), FromShift) /\ Before(Range(shift'), FromThr')
  BY <1>1, <1>4 DEF Flow, Queued
<1>7. Before({x}, FromRx') /\ Before(Range(rx'), FromShift')
  BY <1>2, <1>4, <1>5, <1>6 DEF Before
<1>8. Buffers'
  <2>1. uin' \in Seq(Bytes)
    BY <1>2, <1>3, <1>5, ReceiveOrder
  <2> QED
    BY <1>1, <1>2, <2>1 DEF Flow, Buffers
<1> QED
  BY <1>1, <1>2, <1>3, <1>4, <1>5, <1>6, <1>7, <1>8, FlowReceive

(* A byte stays in the UART, or is lost.                                   *)
LEMMA FlowLag ==
  ASSUME Flow, Lag
  PROVE  Flow'
<1>1. /\ shift # <<>> /\ shift' = <<>> /\ late' = late + 1
      /\ rx' = rx \o shift \/ rx' = rx
      /\ UNCHANGED <<wrote, out, got, in, uin, thr, uout, msc, delta, tx>>
  BY DEF Lag, sender
<1> DEFINE x == shift[1]
<1>2. x \in Bytes /\ shift = <<x>> /\ Range(shift) = {x}
  BY <1>1, OneByte DEF Flow, Buffers
<1> HIDE DEF x
<1>3. Range(shift') = {} /\ Len(shift') = 0
  BY <1>1, RangeEmpty
<1>4. rx' \in Seq(Bytes) /\ Rising(rx') /\ Range(rx') \subseteq Range(rx) \cup {x}
  <2>1. Rising(shift)
    BY <1>2, RangeOne
  <2>2. rx \in Seq(Bytes) /\ shift \in Seq(Bytes) /\ Rising(rx) /\ Before(Range(rx), Range(shift))
    BY DEF Flow, Buffers, Queued, FromShift, Before
  <2>3. /\ rx \o shift \in Seq(Bytes) /\ Rising(rx \o shift)
        /\ Range(rx \o shift) = Range(rx) \cup Range(shift)
    BY <2>1, <2>2, SortedJoin
  <2>4. Range(shift) = {x}
    BY <1>2
  <2> QED
    BY <1>1, <2>2, <2>3, <2>4
<1>5. /\ FromUout' = FromUout /\ FromThr' = FromThr /\ FromShift' = FromThr
      /\ FromRx' \subseteq FromRx /\ FromUin' \subseteq FromUin
  BY <1>1, <1>2, <1>3, <1>4 DEF FromUout, FromThr, FromShift, FromRx, FromUin
<1>6. Buffers'
  BY <1>1, <1>3, <1>4 DEF Flow, Buffers
<1>7. Queued'
  <2>1. Rising(uin') /\ Rising(uout') /\ Before(Range(thr'), FromUout')
    BY <1>1, <1>5 DEF Flow, Queued
  <2>2. Before(Range(uin'), FromRx')
    BY <1>1, <1>5 DEF Flow, Queued, Before
  <2>3. Before(Range(rx), FromShift) /\ Before({x}, FromThr) /\ FromThr \subseteq FromShift
    BY <1>2 DEF Flow, Queued, FromShift
  <2>4. Before(Range(rx'), FromShift')
    BY <1>4, <1>5, <2>3 DEF Before
  <2>5. Before(Range(shift'), FromThr')
    BY <1>3 DEF Before
  <2> QED
    BY <1>4, <2>1, <2>2, <2>4, <2>5 DEF Queued
<1>8. Stocks' /\ Shelved'
  <2>1. in' \in Shelves /\ \A v \in Lines : Rising(in'[v].data) /\ Before(Range(in'[v].data), FromUin')
    BY <1>1, <1>5 DEF Flow, Stocks, Shelved, Before
  <2> QED
    BY <1>1, <1>5, <2>1, ShelvesStay DEF Flow
<1> QED
  BY <1>6, <1>7, <1>8 DEF Flow

(* uart_MSC_handler.                                                       *)
LEMMA FlowSee ==
  ASSUME Flow, SeeModem
  PROVE  Flow'
<1>1. /\ Flush(uin) /\ uin' = (IF mcr = "start" THEN <<>> ELSE Reset(uin)) /\ msc' = FALSE
      /\ UNCHANGED <<wrote, out, got, thr, uout, shift, rx, late, tx>>
  BY DEF SeeModem, sender
<1>2. uin' = <<>> \/ (uin' = uin /\ in' = in)
  BY <1>1, ResetIs DEF Flow, Buffers
<1>3. /\ in' \in Shelves
      /\ \A v \in Lines : /\ Rising(in'[v].data)
                          /\ Range(in'[v].data) \subseteq Range(in[v].data) \cup Range(uin)
  BY <1>1, FlushOrder
<1>4. /\ FromUout' = FromUout /\ FromThr' = FromThr /\ FromShift' = FromShift /\ FromRx' = FromRx
      /\ FromUin' = Range(uin') \cup FromRx /\ FromUin = Range(uin) \cup FromRx
  BY <1>1 DEF FromUout, FromThr, FromShift, FromRx, FromUin
<1>5. /\ uin' \in Seq(Bytes) /\ Rising(uin') /\ Range(uin') \subseteq Range(uin)
      /\ uin' = uin \/ Range(uin') = {}
  <2>1. Range(<<>>) = {} /\ Rising(<<>>) /\ <<>> \in Seq(Bytes)
    BY RangeEmpty, SortedEmpty
  <2> QED
    BY <1>2, <2>1 DEF Flow, Buffers, Queued
<1>6. Buffers'
  BY <1>1, <1>5 DEF Flow, Buffers
<1>7. Queued'
  BY <1>1, <1>4, <1>5 DEF Flow, Queued, Before, Rising
<1>8. \A v \in Lines : Before(Range(in'[v].data), FromUin')
  <2>1. Before(Range(uin), FromRx) /\ \A v \in Lines : Before(Range(in[v].data), FromUin)
    BY DEF Flow, Queued, Shelved
  <2>2. CASE uin' = uin /\ in' = in
    BY <1>4, <2>1, <2>2
  <2>3. CASE uin' = <<>>
    BY <1>3, <1>4, <2>1, <2>3, RangeEmpty DEF Before
  <2> QED
    BY <1>2, <2>2, <2>3
<1>9. Stocks' /\ Shelved'
  <2>1. FromUin' \subseteq FromUin
    BY <1>4, <1>5
  <2>2. \A v \in Lines : Range(in'[v].data) \subseteq Range(in[v].data) \cup FromUin
    BY <1>3, <1>4
  <2> QED
    BY <1>1, <1>3, <1>8, <2>1, <2>2, ShelvesStay DEF Flow
<1> QED
  BY <1>6, <1>7, <1>9 DEF Flow

(* rt_serial_user_read.                                                    *)
LEMMA FlowRead ==
  ASSUME Flow, NEW v \in Lines, Read(v)
  PROVE  Flow' /\ \A w \in Lines : in'[w].data = in[w].data \/ in'[w].data = <<>>
<1>1. /\ in' = [in EXCEPT ![v] = [in[v] EXCEPT !.data = <<>>]]
      /\ UNCHANGED <<wrote, out, thr, uout, shift, delta, rx, msc, uin, late, tx>>
  BY DEF Read, sender
<1>2. PICK n \in Told(v) : (\A m \in Told(v) : m <= n) /\ got' = [got EXCEPT ![v] = n]
  BY DEF Read
<1>3. /\ in \in Shelves /\ got \in [Lines -> Nat]
      /\ \A w \in Lines : Range(in[w].data) \subseteq Bytes
      /\ \A w \in Lines : Sent(w) \in Nat /\ got[w] \in Nat
  BY BytesAre, SentIs DEF Flow, Stocks
<1>4. /\ in' \in Shelves /\ in'[v].data = <<>>
      /\ \A w \in Lines : w # v => in'[w] = in[w]
  <2>1. [in[v] EXCEPT !.data = <<>>] \in [top : Int, data : Seq(Bytes)]
        /\ [in[v] EXCEPT !.data = <<>>].data = <<>>
    <3>1. in[v] \in [top : Int, data : Seq(Bytes)] /\ <<>> \in Seq(Bytes)
      BY <1>3 DEF Shelves
    <3> QED
      BY <3>1
  <2> QED
    BY <1>1, <1>3, <2>1 DEF Shelves
<1>5. \A w \in Lines : Sent(w)' = Sent(w)
  BY <1>1 DEF Sent
<1>6. \A m \in Told(v) : m \in Nat /\ m <= Sent(v)
  BY <1>3 DEF Told, Flow, Shelved, Bytes
<1>7. n \in Nat /\ n <= Sent(v) /\ got'[v] = n /\ got' \in [Lines -> Nat]
      /\ \A w \in Lines : w # v => got'[w] = got[w]
  BY <1>2, <1>3, <1>6
<1>8. \A b \in FromUin : b.of = v /\ b.i # 0 => n < b.n
  <2> SUFFICES ASSUME NEW b \in FromUin, b.of = v, b.i # 0 PROVE n < b.n
    OBVIOUS
  <2>1. got[v] < b.n /\ Before(Range(in[v].data), FromUin)
    BY DEF Flow, Shelved
  <2>2. \A c \in Range(in[v].data) : c.of = v => c.n < b.n
    BY <2>1 DEF Before
  <2>3. \A m \in Told(v) : m < b.n
    BY <2>1, <2>2 DEF Told
  <2> QED
    BY <2>3
<1>9. Stocks'
  <2>1. \A w \in Lines : \A j \in 1 .. Len(out'[w]) : out'[w][j] = Sent(w)' + j
    BY <1>1, <1>5 DEF Flow, Stocks
  <2> QED
    BY <1>1, <1>4, <1>7, <2>1 DEF Flow, Stocks
<1>10. Buffers'
  BY <1>1 DEF Flow, Buffers
<1>11. FromUin' = FromUin /\ Queued'
  BY <1>1 DEF Flow, Queued, Rising, FromUout, FromThr, FromShift, FromRx, FromUin
<1>12. Shelved'
  <2> SUFFICES ASSUME NEW w \in Lines
               PROVE  /\ Rising(in'[w].data) /\ Before(Range(in'[w].data), FromUin)
                      /\ got'[w] <= Sent(w)
                      /\ \A b \in Range(in'[w].data) \cup FromUin :
                           b.n <= Sent(b.of)' /\ (b.of = w /\ b.i # 0 => got'[w] < b.n)
    BY <1>5, <1>11 DEF Shelved
  <2>1. \A b \in Range(in[w].data) \cup FromUin : b.of \in Lines
    BY BytesAre DEF Flow, Bytes
  <2>2. CASE w = v
    <3>1. Range(in'[w].data) = {} /\ Rising(in'[w].data)
      BY <1>4, <2>2, RangeEmpty, SortedEmpty
    <3> QED
      BY <1>5, <1>7, <1>8, <2>1, <2>2, <3>1 DEF Flow, Shelved, Before
  <2>3. CASE w # v
    BY <1>4, <1>5, <1>7, <2>1, <2>3 DEF Flow, Shelved
  <2> QED
    BY <2>2, <2>3
<1> QED
  BY <1>4, <1>9, <1>10, <1>11, <1>12 DEF Flow

(* rt_serial_write, linux_uart_write.                                      *)
LEMMA PutKeeps ==
  ASSUME Stocks, NEW v \in Lines, NEW k \in Writes[v], Put(v, k)
  PROVE  Stocks' /\ \A w \in Lines : Sent(w)' = Sent(w)
<1>1. /\ k \in Nat \ {0}
      /\ wrote' = [wrote EXCEPT ![v] = wrote[v] + k]
      /\ out' = [out EXCEPT ![v] = out[v] \o [j \in 1 .. k |-> wrote[v] + j]]
      /\ UNCHANGED <<in, got>>
  BY SerialAssumption DEF SerialAssumption, Put, receiver
<1>2. /\ wrote \in [Lines -> Nat] /\ out \in [Lines -> Seq(Nat)]
      /\ Len(out[v]) \in Nat /\ wrote[v] \in Nat /\ Len(out[v]) <= wrote[v]
      /\ \A j \in 1 .. Len(out[v]) : out[v][j] = Sent(v) + j
  BY DEF Stocks
<1> DEFINE n == [j \in 1 .. k |-> wrote[v] + j]
           e == out[v] \o n
<1>3. n \in Seq(Nat) /\ Len(n) = k /\ \A j \in 1 .. k : n[j] = wrote[v] + j
  BY <1>1, <1>2
<1> HIDE DEF n
<1>4. /\ e \in Seq(Nat) /\ Len(e) = Len(out[v]) + k
      /\ \A j \in 1 .. Len(out[v]) : e[j] = out[v][j]
      /\ \A j \in Len(out[v]) + 1 .. Len(out[v]) + k : e[j] = n[j - Len(out[v])]
  <2>1. out[v] \in Seq(Nat) /\ n \in Seq(Nat) /\ Len(n) = k
    BY <1>2, <1>3
  <2> QED
    BY <2>1, Joined
<1> HIDE DEF e
<1>5. /\ wrote' \in [Lines -> Nat] /\ out' \in [Lines -> Seq(Nat)]
      /\ wrote'[v] = wrote[v] + k /\ out'[v] = e
      /\ \A w \in Lines : w # v => wrote'[w] = wrote[w] /\ out'[w] = out[w]
  BY <1>1, <1>2, <1>4 DEF e, n
<1>6. \A w \in Lines : Sent(w)' = Sent(w)
  BY <1>1, <1>2, <1>4, <1>5 DEF Sent
<1>7. Len(e) <= wrote'[v] /\ \A j \in 1 .. Len(e) : e[j] = Sent(v) + j
  <2>1. Len(e) <= wrote'[v]
    BY <1>1, <1>2, <1>4, <1>5
  <2>2. ASSUME NEW j \in 1 .. Len(e) PROVE e[j] = Sent(v) + j
    <3>1. CASE j \in 1 .. Len(out[v])
      BY <1>2, <1>4, <3>1
    <3>2. CASE j \in Len(out[v]) + 1 .. Len(out[v]) + k
      <4>1. j - Len(out[v]) \in 1 .. k
        BY <1>1, <1>2, <3>2
      <4>2. e[j] = wrote[v] + (j - Len(out[v]))
        BY <1>3, <1>4, <3>2, <4>1
      <4> QED
        BY <1>2, <4>2 DEF Sent
    <3> QED
      BY <1>1, <1>2, <1>4, <3>1, <3>2
  <2> QED
    BY <2>1, <2>2
<1>8. \A w \in Lines : /\ Len(out'[w]) <= wrote'[w]
                       /\ \A j \in 1 .. Len(out'[w]) : out'[w][j] = Sent(w) + j
  BY <1>5, <1>7 DEF Stocks
<1>10. \A w \in Lines : \A j \in 1 .. Len(out'[w]) : out'[w][j] = Sent(w)' + j
  BY <1>6, <1>8
<1>11. got' \in [Lines -> Nat] /\ in' \in Shelves
  BY <1>1 DEF Stocks
<1> QED
  BY <1>5, <1>6, <1>8, <1>10, <1>11 DEF Stocks

LEMMA FlowPut ==
  ASSUME Flow, NEW v \in Lines, NEW k \in Writes[v], Put(v, k)
  PROVE  Flow'
<1>1. Stocks' /\ \A w \in Lines : Sent(w)' = Sent(w)
  BY PutKeeps DEF Flow
<1>2. UNCHANGED <<got, in, uin, rx, shift, thr, uout, late, tx, msc, delta>>
  BY DEF Put, receiver
<1>3. Buffers'
  BY <1>2 DEF Flow, Buffers
<1>4. FromUin' = FromUin /\ Queued'
  BY <1>2 DEF Flow, Queued, Rising, FromUout, FromThr, FromShift, FromRx, FromUin
<1>5. \A w \in Lines, b \in FromUin : b.of \in Lines
  BY BytesAre DEF Flow, Bytes
<1>6. \A w \in Lines : \A b \in Range(in[w].data) : b.of \in Lines
  BY BytesAre DEF Flow, Bytes
<1>7. Shelved'
  BY <1>1, <1>2, <1>4, <1>5, <1>6 DEF Flow, Shelved, Rising
<1> QED
  BY <1>1, <1>3, <1>4, <1>7 DEF Flow

(* uart_domain_schedule chooses one of the lines that wait.                *)
LEMMA ScheduledWaits ==
  ASSUME Waiting # {}
  PROVE  Scheduled \in Waiting
<1>1. Waiting \subseteq Lines /\ Lines \subseteq Nat /\ Prio \in [Lines -> Nat]
  BY SerialAssumption DEF SerialAssumption, Waiting
<1> DEFINE S == {Prio[v] : v \in Waiting}
<1>2. S \in SUBSET Nat /\ S # {}
  BY <1>1
<1>3. PICK x \in S : \A y \in S : x <= y
  BY <1>2, LeastNat
<1> DEFINE T == {v \in Waiting : Prio[v] = x}
<1>4. T \in SUBSET Nat /\ T # {}
  BY <1>1, <1>3
<1>5. PICK v \in T : \A w \in T : v <= w
  BY <1>4, LeastNat
<1>6. v \in Waiting /\ \A w \in Waiting : Prio[v] < Prio[w] \/ (Prio[v] = Prio[w] /\ v <= w)
  <2>1. v \in Waiting /\ Prio[v] = x
    BY <1>5
  <2>2. ASSUME NEW w \in Waiting
        PROVE  Prio[v] < Prio[w] \/ (Prio[v] = Prio[w] /\ v <= w)
    <3>1. x <= Prio[w] /\ x \in Nat /\ Prio[w] \in Nat
      BY <1>1, <1>2, <1>3
    <3>2. Prio[w] = x => v <= w
      BY <1>5
    <3> QED
      BY <2>1, <3>1, <3>2
  <2> QED
    BY <2>1, <2>2
<1> QED
  BY <1>6 DEF Scheduled

(* uart_fill_out_buff: the next packet is the beginning of what waits.     *)
Filled(q, v) ==
  /\ q \in Packets /\ q.of = v /\ q.b = Sent(v)
  /\ q.len \in 1 .. Payload /\ q.len <= Len(out[v])
  /\ uout' \in Seq(Bytes) /\ Holds(uout', q, 0, q.len + 1)
  /\ out' = [out EXCEPT ![v] = SubSeq(out[v], q.len + 1, Len(out[v]))]

LEMMA FillFills ==
  ASSUME Stocks, Fill, Waiting # {}
  PROVE  \E v \in Lines, q \in Packets : Filled(q, v)
<1> DEFINE v == Scheduled
           k == IF Len(out[v]) < Payload THEN Len(out[v]) ELSE Payload
           n == [i \in 1 .. k |-> Byte(v, out[v][i], i, k)]
<1>1. v \in Lines /\ v \in Nat /\ out[v] # <<>>
  BY ScheduledWaits, SerialAssumption DEF Waiting, SerialAssumption
<1>2. /\ uout' = <<Number(v)>> \o n
      /\ out' = [out EXCEPT ![v] = SubSeq(out[v], Len(uout') - 1 + 1, Len(out[v]))]
  BY DEF Fill, Packet, Left
<1> HIDE DEF v
<1>3. /\ out[v] \in Seq(Nat) /\ wrote[v] \in Nat /\ Len(out[v]) <= wrote[v]
      /\ \A j \in 1 .. Len(out[v]) : out[v][j] = Sent(v) + j
  BY <1>1 DEF Stocks
<1>4. Sent(v) \in Nat /\ Len(out[v]) \in Nat \ {0} /\ Payload \in Nat \ {0}
  BY <1>1, <1>3, SerialAssumption DEF SerialAssumption, Sent
<1>5. k \in Nat \ {0} /\ k \in 1 .. Payload /\ k <= Len(out[v])
  BY <1>4
<1> HIDE DEF k
<1> DEFINE q == [of |-> v, b |-> Sent(v), len |-> k]
<1>6. q \in Packets /\ q.of = v /\ q.b = Sent(v) /\ q.len = k
  BY <1>1, <1>4, <1>5 DEF Packets
<1> HIDE DEF q
<1>7. n \in Seq(Bytes) /\ Len(n) = k /\ \A i \in 1 .. k : n[i] = Part(q, i + 1)
  <2>1. \A i \in 1 .. k : Byte(v, out[v][i], i, k) = Part(q, i + 1) /\ Part(q, i + 1) \in Bytes
    <3> SUFFICES ASSUME NEW i \in 1 .. k
                 PROVE  Byte(v, out[v][i], i, k) = Part(q, i + 1) /\ Part(q, i + 1) \in Bytes
      OBVIOUS
    <3>1. /\ i + 1 \in 1 .. q.len + 1 /\ i + 1 # 1 /\ i + 1 - 1 = i
          /\ i \in 1 .. Len(out[v])
      BY <1>4, <1>5, <1>6
    <3>2. out[v][i] = Sent(v) + i
      BY <1>3, <3>1
    <3>3. Part(q, i + 1) = Byte(v, Sent(v) + i, i, k)
      BY <1>6, <3>1 DEF Part
    <3>4. Part(q, i + 1) \in Bytes
      BY <1>1, <1>6, <3>1, PartIs
    <3> QED
      BY <3>2, <3>3, <3>4
  <2>2. n \in [1 .. k -> Bytes] /\ \A i \in 1 .. k : n[i] = Part(q, i + 1)
    BY <2>1
  <2> HIDE DEF n
  <2>3. n \in Seq(Bytes) /\ Len(n) = k
    BY <1>5, <2>2
  <2> QED
    BY <2>2, <2>3
<1> HIDE DEF n
<1>8. uout' \in Seq(Bytes) /\ Len(uout') = k + 1 /\ uout'[1] = Number(v)
      /\ \A j \in 2 .. k + 1 : uout'[j] = n[j - 1]
  <2>1. Number(v) \in Bytes
    BY <1>1 DEF Number, Byte, Bytes
  <2>2. n \in Seq(Bytes) /\ Len(n) = k
    BY <1>7
  <2>3. /\ <<Number(v)>> \o n \in Seq(Bytes) /\ Len(<<Number(v)>> \o n) = k + 1
        /\ (<<Number(v)>> \o n)[1] = Number(v)
        /\ \A j \in 2 .. k + 1 : (<<Number(v)>> \o n)[j] = n[j - 1]
    BY <1>5, <2>1, <2>2, Pushed
  <2> QED
    BY <1>2, <2>3
<1>9. Holds(uout', q, 0, q.len + 1)
  <2>1. \A j \in 1 .. k + 1 : uout'[j] = Part(q, 0 + j)
    <3> SUFFICES ASSUME NEW j \in 1 .. k + 1 PROVE uout'[j] = Part(q, 0 + j)
      OBVIOUS
    <3>1. CASE j = 1
      BY <1>6, <1>8, <3>1 DEF Part
    <3>2. CASE j # 1
      <4>1. j \in 2 .. k + 1 /\ j - 1 \in 1 .. k /\ j - 1 + 1 = j /\ 0 + j = j
        BY <1>5, <3>2
      <4> QED
        BY <1>7, <1>8, <4>1
    <3> QED
      BY <3>1, <3>2
  <2> QED
    BY <1>6, <1>8, <2>1 DEF Holds
<1>10. out' = [out EXCEPT ![v] = SubSeq(out[v], q.len + 1, Len(out[v]))]
  <2>1. Len(uout') - 1 + 1 = q.len + 1
    BY <1>5, <1>6, <1>8
  <2> QED
    BY <1>2, <2>1
<1> QED
  BY <1>1, <1>5, <1>6, <1>8, <1>9, <1>10 DEF Filled

(* What was sent grows by the packet.                                      *)
LEMMA FilledStocks ==
  ASSUME Stocks, NEW v \in Lines, NEW q \in Packets, Filled(q, v),
         UNCHANGED <<wrote, in, got>>
  PROVE  /\ Stocks' /\ Sent(v)' = Sent(v) + q.len
         /\ \A w \in Lines : Sent(w) <= Sent(w)' /\ Sent(w) \in Nat /\ Sent(w)' \in Nat
<1>1. /\ wrote \in [Lines -> Nat] /\ out \in [Lines -> Seq(Nat)] /\ got \in [Lines -> Nat]
      /\ in \in Shelves
  BY DEF Stocks
<1>2. \A w \in Lines : /\ wrote[w] \in Nat /\ Len(out[w]) \in Nat /\ Len(out[w]) <= wrote[w]
                       /\ Sent(w) \in Nat /\ Sent(w) = wrote[w] - Len(out[w])
  <2> SUFFICES ASSUME NEW w \in Lines
               PROVE  /\ wrote[w] \in Nat /\ Len(out[w]) \in Nat /\ Len(out[w]) <= wrote[w]
                      /\ Sent(w) \in Nat /\ Sent(w) = wrote[w] - Len(out[w])
    OBVIOUS
  <2>1. wrote[w] \in Nat /\ Len(out[w]) \in Nat /\ Len(out[w]) <= wrote[w]
    BY DEF Stocks
  <2> QED
    BY <2>1 DEF Sent
<1> DEFINE s == out[v]
           t == SubSeq(s, q.len + 1, Len(s))
<1>3. s \in Seq(Nat) /\ Len(s) \in Nat /\ q.len \in Nat /\ q.len <= Len(s)
      /\ \A j \in 1 .. Len(s) : s[j] = Sent(v) + j
  BY <1>1, <1>2 DEF Stocks, Filled, Packets
<1>4. out' = [out EXCEPT ![v] = t]
  BY DEF Filled
<1> HIDE DEF s
<1>5. t \in Seq(Nat) /\ Len(t) = Len(s) - q.len /\ \A j \in 1 .. Len(s) - q.len : t[j] = s[q.len + j]
  <2>1. q.len \in 0 .. Len(s) /\ s \in Seq(Nat)
    BY <1>3
  <2> QED
    BY <2>1, Cut
<1> HIDE DEF t
<1>6. /\ out' \in [Lines -> Seq(Nat)] /\ out'[v] = t
      /\ \A w \in Lines : w # v => out'[w] = out[w]
  BY <1>1, <1>4, <1>5
<1>7. Sent(v)' = Sent(v) + q.len /\ \A w \in Lines : w # v => Sent(w)' = Sent(w)
  <2>1. Sent(v)' = wrote[v] - Len(t) /\ \A w \in Lines : w # v => Sent(w)' = wrote[w] - Len(out[w])
    BY <1>6 DEF Sent
  <2>2. Len(s) = Len(out[v])
    BY DEF s
  <2>3. Len(out[v]) \in Nat /\ wrote[v] \in Nat /\ q.len \in Nat /\ Len(t) = Len(s) - q.len
    BY <1>2, <1>3, <1>5
  <2>4. Sent(v)' = Sent(v) + q.len
    <3>1. Sent(v) = wrote[v] - Len(out[v])
      BY DEF Sent
    <3> QED
      BY <2>1, <2>2, <2>3, <3>1
  <2>5. \A w \in Lines : w # v => Sent(w)' = Sent(w)
    BY <2>1 DEF Sent
  <2> QED
    BY <2>4, <2>5
<1>8. \A w \in Lines : Sent(w) <= Sent(w)' /\ Sent(w) \in Nat /\ Sent(w)' \in Nat
  <2> SUFFICES ASSUME NEW w \in Lines
               PROVE  Sent(w) <= Sent(w)' /\ Sent(w) \in Nat /\ Sent(w)' \in Nat
    OBVIOUS
  <2>1. Sent(w) \in Nat /\ q.len \in Nat
    BY <1>2, <1>3
  <2>2. Sent(w)' = Sent(w) \/ Sent(w)' = Sent(w) + q.len
    BY <1>7
  <2> QED
    BY <2>1, <2>2
<1>10. \A w \in Lines : /\ Len(out'[w]) <= wrote'[w]
                        /\ \A j \in 1 .. Len(out'[w]) : out'[w][j] = Sent(w)' + j
  <2> SUFFICES ASSUME NEW w \in Lines
               PROVE  /\ Len(out'[w]) <= wrote[w]
                      /\ \A j \in 1 .. Len(out'[w]) : out'[w][j] = Sent(w)' + j
    OBVIOUS
  <2>1. CASE w = v
    <3>1. Len(t) <= wrote[v]
      BY <1>2, <1>3, <1>5 DEF s
    <3>2. ASSUME NEW j \in 1 .. Len(t) PROVE t[j] = Sent(v)' + j
      <4>1. j \in 1 .. Len(s) - q.len /\ q.len + j \in 1 .. Len(s)
        <5>1. Len(s) \in Nat /\ q.len \in Nat /\ Len(t) = Len(s) - q.len /\ j \in 1 .. Len(t)
          BY <1>3, <1>5
        <5> QED
          BY <5>1
      <4>2. t[j] = Sent(v) + (q.len + j)
        BY <1>3, <1>5, <4>1
      <4> QED
        BY <1>2, <1>3, <1>7, <4>2
    <3> QED
      BY <1>6, <2>1, <3>1, <3>2
  <2>2. CASE w # v
    BY <1>6, <1>7, <2>2 DEF Stocks
  <2> QED
    BY <2>1, <2>2
<1>11. wrote' \in [Lines -> Nat] /\ got' \in [Lines -> Nat]
       /\ in' \in Shelves
  BY <1>1
<1>12. Stocks'
  BY <1>6, <1>10, <1>11 DEF Stocks
<1> QED
  BY <1>7, <1>8, <1>12

LEMMA FlowFill ==
  ASSUME Flow, Fill
  PROVE  Flow'
<1>1. tx = "fill" /\ uout = <<>> /\ UNCHANGED <<wrote, got, in, uin, rx, shift, thr, late, msc>>
  BY DEF Fill, receiver, Flow, Buffers
<1>2. CASE Waiting = {}
  <2>1. tx' = "clear" /\ UNCHANGED <<out, uout, delta>>
    BY <1>2 DEF Fill
  <2> QED
    BY <1>1, <2>1, FlowStays DEF Flow, Buffers
<1>3. CASE Waiting # {}
  <2>1. PICK v \in Lines, q \in Packets : Filled(q, v)
    BY <1>3, FillFills DEF Flow
  <2>2. tx' = "loop" /\ (delta => delta')
    BY <1>3 DEF Fill, SetModem
  <2>3. /\ q.of = v /\ q.b = Sent(v) /\ q.len \in Nat
        /\ uout' \in Seq(Bytes) /\ Len(uout') = q.len + 1
        /\ \A j \in 1 .. q.len + 1 : uout'[j] = Part(q, j)
    <3>1. \A j \in 1 .. q.len + 1 : 0 + j = j
      OBVIOUS
    <3> QED
      BY <2>1, <3>1 DEF Filled, Holds, Packets
  <2>4. /\ Stocks' /\ Sent(v)' = Sent(v) + q.len
        /\ \A w \in Lines : Sent(w) <= Sent(w)' /\ Sent(w) \in Nat /\ Sent(w)' \in Nat
    BY <1>1, <2>1, FilledStocks DEF Flow
  <2>5. \A j \in 1 .. q.len + 1 :
          /\ Part(q, j) \in Bytes /\ Part(q, j).of = v /\ Part(q, j).i = j - 1
          /\ j # 1 => Part(q, j).n = Sent(v) + (j - 1)
          /\ j = 1 => Part(q, j).n = 0
    <3>1. \A j \in 1 .. q.len + 1 :
            /\ Part(q, j) \in Bytes /\ Part(q, j).of = v /\ Part(q, j).i = j - 1
            /\ j # 1 => Part(q, j).n = Sent(v) + (j - 1)
      BY <2>3, PartIs
    <3>2. Part(q, 1).n = 0
      BY DEF Part, Number, Byte
    <3> QED
      BY <3>1, <3>2
  <2>6. \A b \in Range(uout') :
          /\ b.of = v /\ b.n \in Nat /\ b.n <= Sent(v)'
          /\ b.i # 0 => Sent(v) < b.n
    <3> SUFFICES ASSUME NEW b \in Range(uout')
                 PROVE  /\ b.of = v /\ b.n \in Nat /\ b.n <= Sent(v)'
                        /\ b.i # 0 => Sent(v) < b.n
      OBVIOUS
    <3>1. PICK j \in 1 .. q.len + 1 : b = Part(q, j)
      BY <2>3, RangeIs
    <3>2. Sent(v) \in Nat /\ Sent(v)' = Sent(v) + q.len /\ q.len \in Nat
      BY <2>3, <2>4
    <3>3. CASE j = 1
      BY <2>5, <3>1, <3>2, <3>3
    <3>4. CASE j # 1
      <4>1. b.of = v /\ b.n = Sent(v) + (j - 1)
        BY <2>5, <3>1, <3>4
      <4>2. j - 1 \in 1 .. q.len
        BY <3>2, <3>4
      <4> QED
        BY <3>2, <4>1, <4>2
    <3> QED
      BY <3>3, <3>4
  <2>7. Rising(uout')
    <3> SUFFICES ASSUME NEW j \in 1 .. q.len + 1, NEW i \in 1 .. j - 1
                 PROVE  uout'[i].n < uout'[j].n
      BY <2>3 DEF Rising
    <3>1. i \in 1 .. q.len + 1 /\ j # 1 /\ i < j /\ Sent(v) \in Nat
      BY <2>3, <2>4
    <3>2. uout'[j].n = Sent(v) + (j - 1)
      BY <2>3, <2>5, <3>1
    <3>3. uout'[i].n = 0 \/ uout'[i].n = Sent(v) + (i - 1)
      BY <2>3, <2>5, <3>1
    <3> QED
      BY <3>1, <3>2, <3>3
  <2>8. FromUin \subseteq Bytes /\ \A w \in Lines : Range(in[w].data) \subseteq Bytes
    BY BytesAre DEF Flow
  <2>9. \A b : b \in FromUin \/ (\E w \in Lines : b \in Range(in[w].data)) =>
          b.of \in Lines /\ b.n \in Nat /\ b.n <= Sent(b.of)
    BY <2>1, <2>8 DEF Flow, Shelved, Bytes
  <2>10. /\ Before(FromUin, Range(uout'))
         /\ \A w \in Lines : Before(Range(in[w].data), Range(uout'))
    <3> SUFFICES ASSUME NEW b, b \in FromUin \/ (\E w \in Lines : b \in Range(in[w].data)),
                        NEW y \in Range(uout'), b.of = y.of, y.i # 0
                 PROVE  b.n < y.n
      BY DEF Before
    <3>1. b.n \in Nat /\ b.n <= Sent(v) /\ Sent(v) \in Nat /\ y.n \in Nat /\ Sent(v) < y.n
      BY <2>4, <2>6, <2>9
    <3> QED
      BY <3>1
  <2>11. Range(uout) = {}
    BY <1>1, RangeEmpty
  <2>12. /\ FromUout' = Range(uout') /\ FromThr' = FromThr \cup Range(uout')
         /\ FromShift' = FromShift \cup Range(uout') /\ FromRx' = FromRx \cup Range(uout')
         /\ FromUin' = FromUin \cup Range(uout')
    BY <1>1, <2>11 DEF FromUout, FromThr, FromShift, FromRx, FromUin
  <2>13. /\ Range(thr) \subseteq FromUin /\ Range(shift) \subseteq FromUin
         /\ Range(rx) \subseteq FromUin /\ Range(uin) \subseteq FromUin
    BY DEF FromUout, FromThr, FromShift, FromRx, FromUin
  <2>14. Queued'
    <3>1. Rising(uin') /\ Rising(rx')
      BY <1>1 DEF Flow, Queued, Rising
    <3>2. /\ Before(Range(uin), FromRx) /\ Before(Range(rx), FromShift)
          /\ Before(Range(shift), FromThr)
      BY DEF Flow, Queued
    <3>3. /\ Before(Range(uin'), FromRx') /\ Before(Range(rx'), FromShift')
          /\ Before(Range(shift'), FromThr') /\ Before(Range(thr'), FromUout')
      BY <1>1, <2>10, <2>12, <2>13, <3>2 DEF Before
    <3> QED
      BY <2>7, <3>1, <3>3 DEF Queued
  <2>15. Shelved'
    <3> SUFFICES ASSUME NEW w \in Lines
                 PROVE  /\ Rising(in[w].data) /\ Before(Range(in[w].data), FromUin')
                        /\ got[w] <= Sent(w)'
                        /\ \A b \in Range(in[w].data) \cup FromUin' :
                             b.n <= Sent(b.of)' /\ (b.of = w /\ b.i # 0 => got[w] < b.n)
      BY <1>1 DEF Shelved, Rising
    <3>1. /\ Rising(in[w].data) /\ Before(Range(in[w].data), FromUin) /\ got[w] <= Sent(w)
          /\ got[w] \in Nat /\ Sent(w) \in Nat /\ Sent(w)' \in Nat /\ Sent(w) <= Sent(w)'
      BY <2>4 DEF Flow, Shelved, Stocks
    <3>2. Before(Range(in[w].data), FromUin')
      BY <2>10, <2>12, <3>1 DEF Before
    <3>3. ASSUME NEW b \in Range(in[w].data) \cup FromUin
          PROVE  b.n <= Sent(b.of)' /\ (b.of = w /\ b.i # 0 => got[w] < b.n)
      <4>1. b.of \in Lines /\ b.n \in Nat /\ b.n <= Sent(b.of)
        BY <2>9
      <4>2. Sent(b.of) <= Sent(b.of)' /\ Sent(b.of) \in Nat /\ Sent(b.of)' \in Nat
        BY <2>4, <4>1
      <4>3. b.of = w /\ b.i # 0 => got[w] < b.n
        BY DEF Flow, Shelved
      <4> QED
        BY <4>1, <4>2, <4>3
    <3>4. ASSUME NEW b \in Range(uout')
          PROVE  b.n <= Sent(b.of)' /\ (b.of = w /\ b.i # 0 => got[w] < b.n)
      <4>1. b.of = v /\ b.n \in Nat /\ b.n <= Sent(v)' /\ (b.i # 0 => Sent(v) < b.n)
        BY <2>6
      <4> QED
        BY <3>1, <4>1
    <3> QED
      BY <2>12, <3>1, <3>2, <3>3, <3>4
  <2>16. Buffers'
    BY <1>1, <2>2, <2>3 DEF Flow, Buffers
  <2> QED
    BY <2>4, <2>14, <2>15, <2>16 DEF Flow
<1> QED
  BY <1>2, <1>3

LEMMA FlowNext ==
  ASSUME Flow, [SerialNext]_serialVars
  PROVE  Flow'
<1>1. ASSUME NEW v \in Lines, Client(v) PROVE Flow'
  BY <1>1, FlowPut, FlowControl DEF Client
<1>2. CASE Driver
  BY <1>2, FlowControl, FlowSend, FlowFill DEF Driver
<1>3. CASE Line
  BY <1>3, FlowShift, FlowArrive, FlowLag, FlowTake, FlowControl, FlowSee DEF Line
<1>4. CASE Reader
  BY <1>4, FlowRead DEF Reader
<1>5. CASE UNCHANGED serialVars
  BY <1>5, FlowControl
<1> QED
  BY <1>1, <1>2, <1>3, <1>4, <1>5 DEF SerialNext

-----------------------------------------------------------------------------
(* Deliveries.                                                             *)

(* The packet is its line's, and whole but for its last byte.              *)
Whole(v) ==
  LET old == in[v].data
      add == SubSeq(in'[v].data, Len(old) + 1, Len(in'[v].data))
  IN  late = 0 /\ Len(in'[v].data) > Len(old) /\ uin[1].i = 0 =>
        /\ Len(add) >= add[1].len - 1
        /\ \A i \in DOMAIN add :
             add[i].of = v /\ add[i].i = i /\ add[i].n = add[1].n + i - 1

LEMMA WholeStays ==
  ASSUME in \in Shelves, \A v \in Lines : in'[v].data = in[v].data \/ in'[v].data = <<>>
  PROVE  \A v \in Lines : Whole(v)
<1> SUFFICES ASSUME NEW v \in Lines PROVE ~(Len(in'[v].data) > Len(in[v].data))
  BY DEF Whole
<1>1. in[v].data \in Seq(Bytes)
  BY DEF Shelves
<1>2. Len(in[v].data) \in Nat /\ Len(<<>>) = 0
  BY <1>1
<1> QED
  BY <1>2

LEMMA FlushJunk ==
  ASSUME in \in Shelves, uin \in Seq(Bytes), Junk(uin), Flush(uin)
  PROVE  \A v \in Lines : Whole(v)
<1>1. CASE uin = <<>>
  <2>1. in' = in
    BY <1>1 DEF Flush
  <2> QED
    BY <2>1, WholeStays
<1>2. CASE uin[1].i # 0
  BY <1>2 DEF Whole
<1> QED
  BY <1>1, <1>2 DEF Junk

LEMMA FlushWhole ==
  ASSUME in \in Shelves, NEW q \in Packets, q.of \in Lines, NEW c \in 1 .. q.len + 1, c >= q.len,
         uin \in Seq(Bytes), Holds(uin, q, 0, c), Flush(uin)
  PROVE  \A v \in Lines : Whole(v)
<1> SUFFICES ASSUME NEW v \in Lines PROVE Whole(v)
  OBVIOUS
<1>1. in[v].data \in Seq(Bytes) /\ Len(in[v].data) \in Nat
  <2>1. in[v].data \in Seq(Bytes)
    BY DEF Shelves
  <2> QED
    BY <2>1
<1>2. CASE in'[v].data = in[v].data
  BY <1>1, <1>2 DEF Whole
<1>3. CASE c >= 2 /\ v = q.of /\ in'[v].data = in[v].data \o Tail(uin)
  <2> DEFINE d == in[v].data
             t == Tail(uin)
             add == SubSeq(d \o t, Len(d) + 1, Len(d \o t))
  <2>1. q.len \in Nat /\ q.b \in Nat /\ c - 1 \in 1 .. q.len
    BY <1>3 DEF Packets
  <2>2. t \in Seq(Bytes) /\ Len(t) = c - 1 /\ \A j \in 1 .. c - 1 : t[j] = uin[j + 1]
    BY <2>1 DEF Holds
  <2>3. \A j \in 1 .. c - 1 : t[j].of = q.of /\ t[j].i = j /\ t[j].n = q.b + j /\ t[j].len = q.len
    <3> SUFFICES ASSUME NEW j \in 1 .. c - 1
                 PROVE  t[j].of = q.of /\ t[j].i = j /\ t[j].n = q.b + j /\ t[j].len = q.len
      OBVIOUS
    <3>1. /\ j + 1 \in 1 .. q.len + 1 /\ j + 1 # 1 /\ j + 1 - 1 = j
          /\ j + 1 \in 1 .. c /\ 0 + (j + 1) = j + 1
      BY <2>1
    <3>2. t[j] = Part(q, j + 1)
      BY <2>2, <3>1 DEF Holds
    <3>3. /\ Part(q, j + 1).of = q.of /\ Part(q, j + 1).i = j + 1 - 1
          /\ Part(q, j + 1).n = q.b + (j + 1 - 1) /\ Part(q, j + 1).len = q.len
      BY <3>1, PartIs
    <3> QED
      BY <3>1, <3>2, <3>3
  <2>11. d \in Seq(Bytes) /\ Len(d) \in Nat
    BY <1>1
  <2> HIDE DEF t, d
  <2>4. d \o t \in Seq(Bytes) /\ Len(d \o t) = Len(d) + (c - 1)
    <3>1. t \in Seq(Bytes) /\ Len(t) = c - 1
      BY <2>2
    <3>2. d \o t \in Seq(Bytes)
      BY <2>11, <3>1
    <3>3. Len(d \o t) = Len(d) + Len(t)
      BY <2>11, <3>1
    <3> QED
      BY <3>1, <3>2, <3>3
  <2>5. Len(add) = c - 1 /\ DOMAIN add = 1 .. c - 1 /\ \A j \in 1 .. c - 1 : add[j] = t[j]
    <3>1. Len(add) = c - 1 /\ DOMAIN add = 1 .. c - 1
          /\ \A j \in 1 .. c - 1 : add[j] = (d \o t)[Len(d) + j]
      <4> DEFINE e == d \o t
      <4>1. e \in Seq(Bytes) /\ Len(e) = Len(d) + (c - 1)
        BY <2>4
      <4> HIDE DEF e
      <4>2. Len(d) + 1 \in 1 .. Len(e) + 1 /\ Len(e) \in 0 .. Len(e) /\ Len(e) - (Len(d) + 1) + 1 = c - 1
        BY <2>1, <2>11, <4>1
      <4>3. LET u == SubSeq(e, Len(d) + 1, Len(e))
            IN  /\ Len(u) = c - 1 /\ DOMAIN u = 1 .. c - 1
                /\ \A j \in 1 .. c - 1 : u[j] = e[Len(d) + j]
        <5>1. \A j \in 1 .. c - 1 : j + (Len(d) + 1) - 1 = Len(d) + j
          BY <2>1, <2>11
        <5> QED
          BY <2>1, <2>11, <4>1, <4>2, <5>1
      <4> QED
        BY <4>3 DEF e
    <3>2. \A j \in 1 .. c - 1 : (d \o t)[Len(d) + j] = t[j]
      BY <2>1, <2>2, <2>11
    <3> QED
      BY <3>1, <3>2
  <2> HIDE DEF add
  <2>6. 1 \in 1 .. c - 1
    BY <2>1
  <2>7. Len(add) >= add[1].len - 1
    BY <2>1, <2>3, <2>5, <2>6
  <2>8. \A i \in DOMAIN add : add[i].of = v /\ add[i].i = i /\ add[i].n = add[1].n + i - 1
    <3>1. add[1].n = q.b + 1
      BY <2>3, <2>5, <2>6
    <3>2. \A i \in 1 .. c - 1 : add[i].of = v /\ add[i].i = i /\ add[i].n = q.b + i
      BY <1>3, <2>3, <2>5
    <3>3. \A i \in 1 .. c - 1 : q.b + i = q.b + 1 + i - 1
      BY <2>1
    <3> QED
      BY <2>5, <3>1, <3>2, <3>3
  <2>9. /\ Len(add) >= add[1].len - 1
        /\ \A i \in DOMAIN add : add[i].of = v /\ add[i].i = i /\ add[i].n = add[1].n + i - 1
    BY <2>7, <2>8
  <2>10. add = SubSeq(in'[v].data, Len(in[v].data) + 1, Len(in'[v].data))
    BY <1>3 DEF add, t, d
  <2> QED
    BY <2>9, <2>10, Zenon DEF Whole
<1>4. uin[1].i = 0 /\ uin[1].of = q.of
  <2>1. uin[1] = Part(q, 1)
    <3>1. 1 \in 1 .. c /\ 0 + 1 = 1
      BY DEF Packets
    <3> QED
      BY <3>1 DEF Holds
  <2> QED
    BY <2>1 DEF Part, Number, Byte
<1>5. Value(uin[1]) = q.of /\ Len(uin) = c
  BY <1>4 DEF Value, Holds
<1>6. \/ in' = in
      \/ /\ c >= 2 /\ in'[q.of].data = in[q.of].data \o Tail(uin)
         /\ \A w \in Lines : w # q.of => in'[w].data = in[w].data
  BY <1>5, Flushed
<1> QED
  BY <1>2, <1>3, <1>6, Zenon

-----------------------------------------------------------------------------
(* Steps that move no byte on the line.                                    *)
LEMMA ControlKeeps ==
  ASSUME NEW p \in Packets, NEW r, NEW h, NEW a, Carries(p, r, h, a),
         UNCHANGED <<uout, thr, shift, uin>>, delta => delta', Tells(p, h, a)'
  PROVE  Carries(p, r, h, a)'
<1>1. Sends(p, r, h, a)'
  BY DEF Carries, Sends, Holds
<1>2. Receives(p, h, a)'
  <2>1. CASE Junk(uin) \/ Holds(uin, p, 0, a)
    BY <2>1 DEF Carries, Receives, Junk, Holds
  <2>2. ASSUME NEW q \in Packets, Keeps(q, p, h, a) PROVE Keeps(q, p, h, a)'
    BY <2>2 DEF Keeps, Holds
  <2> QED
    BY <2>1, <2>2 DEF Carries, Receives
<1> QED
  BY <1>1, <1>2 DEF Carries

(* The driver's handler but for its bytes.                                 *)
LEMMA DriverKeeps ==
  ASSUME NEW p \in Packets, NEW r \in Nat, NEW h \in Nat, NEW a \in Nat, Carries(p, r, h, a),
         \/ \E v \in Lines : EnableTHE(v) \/ RaiseStart(v)
         \/ THEInterrupt \/ LeaveHandler \/ RaiseStop \/ DisableTHE \/ SeeIIR
  PROVE  Carries(p, r, h, a)'
<1>1. UNCHANGED <<uout, thr, shift, due, uin>>
  BY DEF EnableTHE, RaiseStart, THEInterrupt, LeaveHandler, RaiseStop, DisableTHE, SeeIIR, sender, receiver
<1>2. Tells(p, h, a) /\ p.len \in Nat /\ (h <= p.len \/ h = p.len + 1) /\ (p.len = 0 => a = 1)
  <2>1. p.len \in Nat /\ r <= p.len + 1 /\ (h = r \/ r = h + 1)
    BY DEF Carries, Sends, Packets
  <2> QED
    BY <2>1 DEF Carries
<1>3. (delta => delta') /\ Tells(p, h, a)'
  <2>1. ASSUME NEW v \in Lines, EnableTHE(v) PROVE (delta => delta') /\ Tells(p, h, a)'
    BY <1>1, <1>2, <2>1 DEF EnableTHE, Tells, Junk
  <2>2. ASSUME NEW v \in Lines, RaiseStart(v) PROVE (delta => delta') /\ Tells(p, h, a)'
    <3>1. mcr' = "start" /\ (delta' <=> delta \/ mcr # "start") /\ tx' = tx
      BY <2>2 DEF RaiseStart, SetModem
    <3>2. CASE mcr = "start"
      BY <1>1, <1>2, <3>1, <3>2 DEF Tells, Junk
    <3>3. CASE mcr # "start"
      <4>1. h = p.len + 1 /\ ~(a = 0 /\ h = 1)
        BY <1>2, <3>3 DEF Tells
      <4> QED
        BY <1>1, <1>2, <3>1, <3>3, <4>1 DEF Tells
    <3> QED
      BY <3>2, <3>3
  <2>3. CASE THEInterrupt
    BY <1>1, <1>2, <2>3 DEF THEInterrupt, Tells
  <2>4. CASE LeaveHandler
    BY <1>1, <1>2, <2>4 DEF LeaveHandler, Tells
  <2>5. CASE RaiseStop
    <3>1. mcr' = "stop" /\ (delta' <=> delta \/ mcr # "stop") /\ tx' = "fill" /\ thr = <<>> /\ uout = <<>>
      BY <2>5 DEF RaiseStop, SetModem
    <3>2. h = p.len + 1
      <4>1. h = r /\ Len(uout) = p.len + 1 - r /\ Len(uout) = 0
        BY <3>1 DEF Carries, Sends, Holds
      <4> QED
        BY <1>2, <4>1
    <3>3. ~(h <= p.len) /\ ~(a = 0 /\ h = 1)
      BY <1>2, <3>2
    <3> QED
      BY <1>1, <1>2, <3>1, <3>2, <3>3 DEF Tells
  <2>6. CASE DisableTHE
    BY <1>1, <1>2, <2>6 DEF DisableTHE, Tells
  <2>7. CASE SeeIIR
    BY <1>1, <1>2, <2>7 DEF SeeIIR, sender, Tells, Junk
  <2> QED
    BY <2>1, <2>2, <2>3, <2>4, <2>5, <2>6, <2>7
<1> QED
  BY <1>1, <1>3, ControlKeeps

(* A byte goes into the holding register.                                  *)
LEMMA SendKeeps ==
  ASSUME NEW p \in Packets, NEW r \in Nat, NEW h \in Nat, NEW a \in Nat,
         Carries(p, r, h, a), SendByte
  PROVE  Carries(p, r + 1, h, a)'
<1>1. /\ thr = <<>> /\ uout # <<>> /\ thr' = <<uout[1]>> /\ uout' = Tail(uout)
      /\ UNCHANGED <<wrote, out, shift, delta, due, tx, mcr, uin, in, got>>
  BY DEF SendByte, receiver
<1>2. /\ uout \in Seq(Bytes) /\ Len(uout) = p.len + 1 - r /\ h = r /\ p.len \in Nat
      /\ \A j \in 1 .. Len(uout) : uout[j] = Part(p, r + j)
  BY <1>1 DEF Carries, Sends, Holds, Packets
<1>3. Len(uout) >= 1
  BY <1>1, <1>2
<1>4. thr' = <<Part(p, r + 1)>>
  BY <1>1, <1>2, <1>3
<1>5. /\ uout' \in Seq(Bytes) /\ r + 1 <= p.len + 1
      /\ Holds(uout', p, r + 1, p.len + 1 - (r + 1))
  <2>1. uout' \in Seq(Bytes) /\ Len(uout') = Len(uout) - 1
        /\ \A j \in 1 .. Len(uout) - 1 : uout'[j] = uout[j + 1]
    BY <1>1, <1>2, <1>3
  <2>2. \A j \in 1 .. Len(uout) - 1 : j + 1 \in 1 .. Len(uout) /\ r + (j + 1) = r + 1 + j
    BY <1>2
  <2>3. \A j \in 1 .. Len(uout) - 1 : uout'[j] = Part(p, r + 1 + j)
    BY <1>2, <2>1, <2>2
  <2>4. Len(uout) - 1 = p.len + 1 - (r + 1) /\ r + 1 <= p.len + 1
    BY <1>2, <1>3
  <2>5. uout' \in Seq(Bytes) /\ Len(uout') = p.len + 1 - (r + 1)
    BY <2>1, <2>4
  <2>6. \A j \in 1 .. p.len + 1 - (r + 1) : uout'[j] = Part(p, r + 1 + j)
    BY <2>3, <2>4
  <2> QED
    BY <2>4, <2>5, <2>6 DEF Holds
<1>6. Sends(p, r + 1, h, a)'
  BY <1>1, <1>2, <1>4, <1>5 DEF Carries, Sends
<1>8. Receives(p, h, a)'
  <2>1. CASE Junk(uin) \/ Holds(uin, p, 0, a)
    BY <1>1, <2>1 DEF Carries, Receives, Junk, Holds
  <2>2. ASSUME NEW q \in Packets, Keeps(q, p, h, a) PROVE Keeps(q, p, h, a)'
    BY <1>1, <2>2 DEF Keeps, Holds
  <2> QED
    BY <1>1, <2>1, <2>2 DEF Carries, Receives
<1>9. Tells(p, h, a)'
  BY <1>1 DEF Carries, Tells, Junk
<1> QED
  BY <1>1, <1>6, <1>8, <1>9 DEF Carries

(* A byte goes onto the line.                                              *)
LEMMA ShiftKeeps ==
  ASSUME NEW p \in Packets, NEW r \in Nat, NEW h \in Nat, NEW a \in Nat,
         Carries(p, r, h, a), Shift
  PROVE  Carries(p, r, h + 1, a)'
<1>1. /\ thr # <<>> /\ shift = <<>> /\ shift' = thr /\ thr' = <<>> /\ due' = delta
      /\ UNCHANGED <<wrote, out, uout, delta, tx, mcr, uin, in, got>>
  BY DEF Shift, receiver
<1>2. thr = <<Part(p, r)>> /\ r = h + 1 /\ r <= p.len + 1 /\ p.len \in Nat
  BY <1>1 DEF Carries, Sends, Packets
<1>3. a = h
  <2>1. Len(shift) = 0
    BY <1>1
  <2> QED
    BY <1>1, <2>1 DEF Carries, Sends
<1>5. Sends(p, r, h + 1, a)'
  <2>1. shift' = <<Part(p, h + 1)>> /\ h + 1 = a + 1 /\ h + 1 = r
    BY <1>1, <1>2, <1>3
  <2>2. uout' \in Seq(Bytes) /\ r <= p.len + 1 /\ Holds(uout', p, r, p.len + 1 - r)
    BY <1>1 DEF Carries, Sends
  <2> QED
    BY <1>1, <2>1, <2>2 DEF Sends
<1>6. Receives(p, h + 1, a)'
  <2>1. CASE Junk(uin) \/ Holds(uin, p, 0, a)
    BY <1>1, <2>1 DEF Carries, Receives, Junk, Holds
  <2>2. ASSUME NEW q \in Packets, Keeps(q, p, h, a) PROVE Keeps(q, p, h + 1, a)'
    <3>1. a = 0 /\ h + 1 = 1
      BY <1>3, <2>2 DEF Keeps
    <3>2. Holds(uin, q, 0, q.len + 1)
      <4>1. shift # <<Part(q, q.len + 1)>>
        <5>1. Len(shift) = 0 /\ Len(<<Part(q, q.len + 1)>>) = 1
          BY <1>1
        <5> QED
          BY <5>1
      <4> QED
        BY <2>2, <4>1 DEF Keeps
    <3> QED
      BY <1>1, <2>2, <3>1, <3>2 DEF Keeps, Holds
  <2> QED
    BY <1>1, <2>1, <2>2 DEF Carries, Receives
<1>7. Tells(p, h + 1, a)'
  <2>1. Tells(p, h, a) /\ h <= p.len /\ ~(h = p.len + 1)
    BY <1>2 DEF Carries
  <2>2. mcr' = "start" /\ tx' \notin {"fill", "clear"}
    BY <1>1, <2>1 DEF Tells
  <2>3. delta => a = 0 /\ due'
    BY <1>1, <2>1 DEF Tells
  <2> QED
    BY <1>1, <2>2, <2>3 DEF Tells
<1> QED
  BY <1>1, <1>5, <1>6, <1>7 DEF Carries

(* uart_RDA_handler.  What is no packet stays none.                        *)
LEMMA ArriveJunk ==
  ASSUME in \in Shelves, uin \in Seq(Bytes), Junk(uin), NEW x \in Bytes, shift = <<x>>, Arrive
  PROVE  /\ \A v \in Lines : Whole(v)
         /\ uin' \in Seq(Bytes) /\ (uin' = <<x>> \/ (uin' # <<>> /\ Junk(uin')))
<1>1. Len(uin) \in Nat /\ Payload \in Nat \ {0}
  BY SerialAssumption DEF SerialAssumption
<1>2. CASE Len(uin) < Payload + 1
  <2>1. uin' = uin \o <<x>> /\ \A v \in Lines : Whole(v)
    BY <1>2, WholeStays DEF Arrive, Receive
  <2>2. CASE uin = <<>>
    <3>1. uin' = <<x>>
      BY <2>1, <2>2
    <3>2. uin' \in Seq(Bytes)
      BY <3>1
    <3> QED
      BY <2>1, <3>1, <3>2, Zenon
  <2>3. CASE uin # <<>>
    <3>1. uin' \in Seq(Bytes) /\ uin'[1] = uin[1] /\ uin' # <<>>
      BY <2>1, <2>3
    <3> QED
      BY <2>1, <2>3, <3>1 DEF Junk
  <2> QED
    BY <2>2, <2>3
<1>3. CASE ~(Len(uin) < Payload + 1)
  <2>1. uin' = Reset(uin) \o <<x>> /\ Flush(uin) /\ ~(Len(uin) < 2)
    BY <1>1, <1>3 DEF Arrive, Receive
  <2>2. Reset(uin) = <<>> /\ \A v \in Lines : Whole(v)
    BY <2>1, FlushJunk DEF Reset
  <2>3. uin' = <<x>>
    BY <2>1, <2>2
  <2>4. uin' \in Seq(Bytes)
    BY <2>3
  <2> QED
    BY <2>2, <2>3, <2>4, Zenon
<1> QED
  BY <1>2, <1>3

(* A packet has room.                                                      *)
LEMMA ArrivePacket ==
  ASSUME uin \in Seq(Bytes), NEW q \in Packets, q.of \in Lines, q.len <= Payload,
         NEW c \in 0 .. q.len, Holds(uin, q, 0, c), shift = <<Part(q, c + 1)>>, Arrive
  PROVE  in' = in /\ uin' \in Seq(Bytes) /\ Holds(uin', q, 0, c + 1)
<1>1. q.len \in Nat /\ Payload \in Nat /\ Len(uin) = c /\ c \in Nat /\ c + 1 \in 1 .. q.len + 1
  BY SerialAssumption DEF SerialAssumption, Packets, Holds
<1>2. uin' = uin \o shift /\ in' = in
  BY <1>1 DEF Arrive, Receive
<1>3. Part(q, c + 1) \in Bytes
  BY <1>1, PartIs
<1> QED
  BY <1>1, <1>2, <1>3, HoldsMore

(* A packet that has begun is not junk.                                    *)
LEMMA HoldsNoJunk ==
  ASSUME NEW s, NEW p, NEW n \in Nat \ {0}, Holds(s, p, 0, n)
  PROVE  ~Junk(s)
<1>1. Len(s) = n /\ s[1] = Part(p, 1)
  BY DEF Holds
<1>2. s # <<>>
  BY <1>1
<1>3. s[1].i = 0
  BY <1>1 DEF Part, Number, Byte
<1> QED
  BY <1>2, <1>3 DEF Junk

(* The next part of p arrives.                                             *)
LEMMA ArriveNext ==
  ASSUME in \in Shelves, NEW p \in Packets, NEW r \in Nat, NEW h \in Nat, NEW a \in Nat,
         Carries(p, r, h, a), Arrive, shift = <<Part(p, h)>>, h = a + 1
  PROVE  Carries(p, r, h, a + 1)' /\ \A v \in Lines : Whole(v)
<1>1. /\ shift' = <<>> /\ ~due
      /\ UNCHANGED <<uout, thr, delta, due, tx, mcr>>
  BY DEF Arrive, sender
<1>2. p.len \in Nat \ {0} /\ p.of \in Lines /\ p.len <= Payload /\ h \in 1 .. p.len + 1
  <2>1. p.len \in Nat /\ r <= p.len + 1 /\ (h = r \/ r = h + 1)
    BY DEF Carries, Sends, Packets
  <2>2. p.len # 0
    BY <2>1 DEF Carries
  <2> QED
    BY <2>1, <2>2 DEF Carries
<1> DEFINE x == Part(p, h)
<1>3. x \in Bytes /\ x.i = a
  <2>1. h - 1 = a
    OBVIOUS
  <2> QED
    BY <1>2, <2>1, PartIs
<1>4. uin \in Seq(Bytes) /\ ~(delta /\ a = 0)
  BY <1>1 DEF Carries, Receives, Tells
<1>5. /\ \A v \in Lines : Whole(v)
      /\ uin' \in Seq(Bytes) /\ (Junk(uin') \/ Holds(uin', p, 0, a + 1))
      /\ Junk(uin) /\ a # 0 => Junk(uin')
  <2>1. CASE Junk(uin)
    <3>1. (\A v \in Lines : Whole(v)) /\ uin' \in Seq(Bytes) /\ (uin' = <<x>> \/ (uin' # <<>> /\ Junk(uin')))
      BY <1>3, <1>4, <2>1, ArriveJunk
    <3>2. CASE uin' = <<x>> /\ a = 0
      <4>1. Len(uin') = 1 /\ uin'[1] = Part(p, 0 + 1)
        BY <3>2
      <4>2. Holds(uin', p, 0, a + 1)
        BY <3>2, <4>1 DEF Holds
      <4> QED
        BY <3>1, <3>2, <4>2
    <3>3. CASE uin' = <<x>> /\ a # 0
      <4>1. uin'[1] = x
        BY <3>3
      <4> QED
        BY <1>3, <3>1, <3>3, <4>1 DEF Junk
    <3> QED
      BY <3>1, <3>2, <3>3
  <2>2. CASE ~Junk(uin)
    <3>1. Holds(uin, p, 0, a)
      BY <1>4, <2>2 DEF Carries, Receives, Keeps
    <3>2. a \in 0 .. p.len
      BY <1>2
    <3>3. in' = in /\ uin' \in Seq(Bytes) /\ Holds(uin', p, 0, a + 1)
      BY <1>2, <1>4, <3>1, <3>2, ArrivePacket
    <3> QED
      BY <2>2, <3>3, WholeStays
  <2> QED
    BY <2>1, <2>2
<1>7. Sends(p, r, h, a + 1)'
  <2>1. shift' = <<>> /\ a + 1 = h
    BY <1>1
  <2>2. /\ uout' \in Seq(Bytes) /\ r <= p.len + 1 /\ Holds(uout', p, r, p.len + 1 - r)
        /\ \/ thr' = <<>> /\ h = r
           \/ thr' = <<Part(p, r)>> /\ r = h + 1
    BY <1>1 DEF Carries, Sends
  <2> QED
    BY <2>1, <2>2 DEF Sends
<1>8. Receives(p, h, a + 1)'
  BY <1>5 DEF Receives
<1>9. Tells(p, h, a + 1)'
  <2>1. Tells(p, h, a) /\ a + 1 # 0 /\ (h = p.len + 1 => a # 0)
    BY <1>2 DEF Carries
  <2>2. delta => h = p.len + 1
    BY <1>4, <2>1 DEF Tells
  <2>3. tx = "fill" /\ mcr = "start" /\ ~delta => Junk(uin')
    BY <1>5, <2>1 DEF Tells
  <2> QED
    BY <1>1, <2>1, <2>2, <2>3 DEF Tells
<1> QED
  BY <1>1, <1>2, <1>5, <1>7, <1>8, <1>9 DEF Carries

(* The last byte of a packet arrives after the next one has been filled.   *)
LEMMA ArriveLast ==
  ASSUME in \in Shelves, NEW p \in Packets, NEW r \in Nat, NEW h \in Nat, NEW a \in Nat,
         Carries(p, r, h, a), Arrive,
         shift \in Seq(Bytes), Len(shift) = 1, shift[1].i # 0, a = 0, h = 0
  PROVE  Carries(p, r, h, a)' /\ \A v \in Lines : Whole(v)
<1>1. /\ shift' = <<>> /\ ~due
      /\ UNCHANGED <<uout, thr, delta, due, tx, mcr>>
  BY DEF Arrive, sender
<1>2. p.len \in Nat \ {0} /\ p.of \in Lines /\ Payload \in Nat
  <2>1. p.len \in Nat /\ p.len # 0
    BY DEF Carries, Packets
  <2> QED
    BY <2>1, SerialAssumption DEF Carries, SerialAssumption
<1> DEFINE x == shift[1]
<1>3. x \in Bytes /\ shift = <<x>> /\ x.i # 0
  OBVIOUS
<1> HIDE DEF x
<1>4. uin \in Seq(Bytes)
  BY DEF Carries, Receives
<1>6. (\A v \in Lines : Whole(v)) /\ Receives(p, h, a)'
  <2>1. CASE Junk(uin) \/ Holds(uin, p, 0, a)
    <3>1. Junk(uin)
      <4>1. Holds(uin, p, 0, 0) => uin = <<>>
        BY <1>4 DEF Holds
      <4> QED
        BY <2>1, <4>1 DEF Junk
    <3>2. (\A v \in Lines : Whole(v)) /\ uin' \in Seq(Bytes) /\ (uin' = <<x>> \/ (uin' # <<>> /\ Junk(uin')))
      BY <1>3, <1>4, <3>1, ArriveJunk
    <3>3. Junk(uin')
      <4>1. uin' = <<x>> => uin'[1] = x
        OBVIOUS
      <4> QED
        BY <1>3, <3>2, <4>1 DEF Junk
    <3> QED
      BY <3>2, <3>3 DEF Receives
  <2>2. ASSUME NEW q \in Packets, Keeps(q, p, h, a), ~Junk(uin) PROVE (\A v \in Lines : Whole(v)) /\ Receives(p, h, a)'
    <3>1. Holds(uin, q, 0, q.len) /\ shift = <<Part(q, q.len + 1)>>
      <4>1. shift # <<>>
        BY <1>3
      <4> QED
        BY <2>2, <4>1 DEF Keeps
    <3>2. q.len \in 0 .. q.len /\ q.len <= Payload /\ q.of \in Lines
      BY <1>2, <2>2 DEF Keeps
    <3>3. in' = in /\ uin' \in Seq(Bytes) /\ Holds(uin', q, 0, q.len + 1)
      BY <1>4, <3>1, <3>2, ArrivePacket
    <3>4. Keeps(q, p, h, a)'
      BY <1>1, <2>2, <3>3 DEF Keeps
    <3> QED
      BY <3>3, <3>4, WholeStays DEF Receives
  <2> QED
    BY <2>1, <2>2 DEF Carries, Receives
<1>7. Sends(p, r, h, a)'
  <2>1. shift' = <<>> /\ a = h
    BY <1>1
  <2>2. /\ uout' \in Seq(Bytes) /\ r <= p.len + 1 /\ Holds(uout', p, r, p.len + 1 - r)
        /\ \/ thr' = <<>> /\ h = r
           \/ thr' = <<Part(p, r)>> /\ r = h + 1
    BY <1>1 DEF Carries, Sends
  <2> QED
    BY <2>1, <2>2 DEF Sends
<1>8. Tells(p, h, a)'
  <2>1. Tells(p, h, a) /\ h # p.len + 1
    BY <1>2 DEF Carries
  <2>2. tx # "fill"
    BY <2>1 DEF Tells
  <2> QED
    BY <1>1, <2>1, <2>2 DEF Tells
<1> QED
  BY <1>1, <1>2, <1>6, <1>7, <1>8 DEF Carries

(* uart_MSC_handler: what the buffer has is delivered, and left if it is   *)
(* less than a byte.                                                       *)
LEMMA SeeKeeps ==
  ASSUME in \in Shelves, delta, NEW p \in Packets, NEW r \in Nat, NEW h \in Nat, NEW a \in Nat,
         Carries(p, r, h, a), SeeModem
  PROVE  Carries(p, r, h, a)' /\ \A v \in Lines : Whole(v)
<1>1. /\ delta' = FALSE /\ due' = FALSE /\ Flush(uin)
      /\ uin' = IF mcr = "start" THEN <<>> ELSE Reset(uin)
      /\ UNCHANGED <<uout, thr, tx, mcr, shift>>
  BY DEF SeeModem, sender
<1>2. uin \in Seq(Bytes) /\ Len(uin) \in Nat /\ p.len \in Nat
  BY DEF Carries, Receives, Packets
<1>3. uin' \in Seq(Bytes) /\ (uin' = <<>> \/ (uin' = uin /\ Len(uin) < 2))
  <2>1. CASE uin' = <<>>
    BY <2>1
  <2>2. CASE uin' # <<>>
    <3>1. uin' = uin /\ Len(uin) < 2
      BY <1>1, <2>2 DEF Reset
    <3> QED
      BY <1>2, <3>1
  <2> QED
    BY <2>1, <2>2
<1>4. Tells(p, h, a) /\ (a = 0 \/ h = p.len + 1)
  BY DEF Carries, Tells
<1>5. (\A v \in Lines : Whole(v)) /\ Receives(p, h, a)'
  <2>1. CASE Junk(uin)
    <3>1. Junk(uin')
      BY <1>3, <2>1 DEF Junk
    <3> QED
      BY <1>1, <1>2, <1>3, <2>1, <3>1, FlushJunk DEF Receives
  <2>2. CASE ~Junk(uin) /\ Holds(uin, p, 0, a)
    <3>1. a # 0 /\ p.len # 0 /\ h = p.len + 1
      <4>1. Len(uin) = a /\ uin # <<>>
        BY <2>2 DEF Holds, Junk
      <4> QED
        BY <1>2, <1>4, <4>1 DEF Carries
    <3>2. a \in 1 .. p.len + 1 /\ a >= p.len /\ p.of \in Lines
      <4>1. a = h \/ h = a + 1
        BY <3>1 DEF Carries, Sends
      <4> QED
        BY <1>2, <3>1, <4>1 DEF Carries
    <3>3. \A v \in Lines : Whole(v)
      BY <1>1, <1>2, <2>2, <3>2, FlushWhole
    <3> QED
      BY <1>3, <2>2, <3>3 DEF Receives, Junk
  <2>3. CASE ~Junk(uin) /\ \E q \in Packets : Keeps(q, p, h, a)
    <3>1. PICK q \in Packets : Keeps(q, p, h, a)
      BY <2>3
    <3>2. a = 0 /\ p.len # 0 /\ q.of \in Lines /\ q.len \in 1 .. Payload
      BY <3>1 DEF Keeps, Carries
    <3>3. h <= p.len
      <4>1. h = 0 \/ h = 1 \/ h = a
        <5>1. shift # <<>> => Len(shift) # 0
          BY DEF Carries, Sends
        <5> QED
          BY <3>1, <3>2 DEF Keeps, Carries, Sends
      <4> QED
        BY <1>2, <3>2, <4>1
    <3>4. uin' = <<>>
      BY <1>1, <1>4, <3>3 DEF Tells
    <3>5. PICK c \in 1 .. q.len + 1 : c >= q.len /\ Holds(uin, q, 0, c)
      <4>1. Payload \in Nat /\ q.len \in Nat
        BY SerialAssumption DEF SerialAssumption, Packets
      <4>2. q.len \in 1 .. q.len + 1 /\ q.len + 1 \in 1 .. q.len + 1 /\ q.len >= q.len /\ q.len + 1 >= q.len
        BY <3>2, <4>1
      <4> QED
        BY <3>1, <4>2 DEF Keeps
    <3>6. \A v \in Lines : Whole(v)
      BY <1>1, <1>2, <3>2, <3>5, FlushWhole
    <3> QED
      BY <1>3, <3>4, <3>6 DEF Receives, Junk
  <2> QED
    BY <2>1, <2>2, <2>3 DEF Carries, Receives
<1>6. Sends(p, r, h, a)'
  BY <1>1 DEF Carries, Sends, Holds
<1>7. Tells(p, h, a)'
  <2>1. mcr = "start" => Junk(uin')
    BY <1>1 DEF Junk
  <2> QED
    BY <1>1, <1>4, <2>1 DEF Tells
<1>8. p.len = 0 => a = 1 /\ uin' = <<>>
  BY <1>3 DEF Carries
<1> QED
  BY <1>5, <1>6, <1>7, <1>8 DEF Carries

(* The last packet is with the receiver but for its last part; a new one   *)
(* begins.                                                                 *)
LEMMA FillKeeps ==
  ASSUME Stocks, NEW p \in Packets, NEW r \in Nat, NEW h \in Nat, NEW a \in Nat,
         Carries(p, r, h, a), Fill
  PROVE  \E q \in Packets, i, j, k \in Nat : Carries(q, i, j, k)'
<1>1. tx = "fill" /\ UNCHANGED <<thr, shift, due, uin>> /\ h = p.len + 1 /\ p.len \in Nat
  BY DEF Fill, receiver, Carries, Tells, Packets
<1>2. CASE Waiting = {}
  <2>1. tx' = "clear" /\ UNCHANGED <<uout, mcr, delta>>
    BY <1>2 DEF Fill
  <2>2. Tells(p, h, a)'
    BY <1>1, <2>1 DEF Carries, Tells
  <2> QED
    BY <1>1, <2>1, <2>2, ControlKeeps
<1>3. CASE Waiting # {}
  <2>1. PICK v \in Lines, q \in Packets : Filled(q, v)
    BY <1>3, FillFills
  <2>2. mcr' = "start" /\ (delta' <=> delta \/ mcr # "start") /\ tx' = "loop"
    BY <1>3 DEF Fill, SetModem
  <2>3. /\ q.of = v /\ q.b = Sent(v) /\ q.len \in 1 .. Payload
        /\ uout' \in Seq(Bytes) /\ Holds(uout', q, 0, q.len + 1)
    BY <2>1 DEF Filled
  <2>5. thr = <<>> /\ r = p.len + 1
    BY <1>1 DEF Carries, Sends
  <2>6. \/ shift = <<>> /\ a = p.len + 1
        \/ shift = <<Part(p, p.len + 1)>> /\ a = p.len /\ p.len # 0
    <3>1. \/ shift = <<>> /\ a = h
          \/ shift = <<Part(p, h)>> /\ h = a + 1
      BY <1>1 DEF Carries, Sends
    <3>2. h = a + 1 => a = p.len /\ p.len # 0
      BY <1>1 DEF Carries
    <3> QED
      BY <1>1, <3>1, <3>2
  <2>7. Sends(q, 0, 0, 0)'
    <3>1. q.len \in Nat /\ 0 <= q.len + 1 /\ q.len + 1 - 0 = q.len + 1
      BY DEF Packets
    <3>2. \/ shift' = <<>>
          \/ shift' \in Seq(Bytes) /\ Len(shift') = 1 /\ shift'[1].i # 0
      <4>1. CASE shift = <<Part(p, p.len + 1)>> /\ p.len # 0
        <5>1. p.of \in Lines /\ p.len + 1 \in 1 .. p.len + 1 /\ p.len + 1 - 1 = p.len
          BY <1>1, <4>1 DEF Carries
        <5>2. Part(p, p.len + 1) \in Bytes /\ Part(p, p.len + 1).i = p.len
          <6> DEFINE m == p.len + 1
          <6>1. m \in 1 .. p.len + 1 /\ m - 1 = p.len
            BY <1>1
          <6> HIDE DEF m
          <6>2. Part(p, m) \in Bytes /\ Part(p, m).i = m - 1
            BY <5>1, <6>1, PartIs
          <6> QED
            BY <6>1, <6>2 DEF m
        <5> QED
          BY <1>1, <4>1, <5>2
      <4> QED
        BY <1>1, <2>6, <4>1
    <3> QED
      BY <1>1, <2>3, <2>5, <3>1, <3>2 DEF Sends
  <2>8. Receives(q, 0, 0)'
    <3>1. CASE Junk(uin)
      BY <1>1, <3>1 DEF Carries, Receives, Junk
    <3>2. CASE ~Junk(uin) /\ Holds(uin, p, 0, a)
      <4>1. p.len # 0
        BY <3>2 DEF Carries, Junk
      <4>2. delta'
        BY <1>1, <2>2, <3>2 DEF Carries, Tells
      <4>3. p.of \in Lines /\ p.len \in 1 .. Payload
        <5>1. Payload \in Nat
          BY SerialAssumption DEF SerialAssumption
        <5> QED
          BY <1>1, <4>1, <5>1 DEF Carries
      <4>5. \/ Holds(uin, p, 0, p.len) /\ shift = <<Part(p, p.len + 1)>>
            \/ Holds(uin, p, 0, p.len + 1) /\ shift = <<>>
        BY <2>6, <3>2
      <4>6. Keeps(p, q, 0, 0)'
        BY <1>1, <4>2, <4>3, <4>5 DEF Keeps, Holds
      <4> QED
        BY <1>1, <4>6 DEF Carries, Receives
    <3>3. ~ \E o \in Packets : Keeps(o, p, h, a)
      <4>1. a # 0
        BY <1>1, <2>6
      <4> QED
        BY <4>1 DEF Keeps
    <3> QED
      BY <3>1, <3>2, <3>3 DEF Carries, Receives
  <2>9. Tells(q, 0, 0)'
    BY <1>1, <2>2 DEF Carries, Tells
  <2>10. q.len # 0 /\ q.of \in Lines /\ q.len <= Payload
    <3>1. Payload \in Nat /\ q.len \in Nat
      BY SerialAssumption DEF SerialAssumption, Packets
    <3> QED
      BY <2>3, <3>1
  <2>11. Carries(q, 0, 0, 0)'
    BY <2>7, <2>8, <2>9, <2>10 DEF Carries
  <2> QED
    BY <2>11
<1> QED
  BY <1>2, <1>3

-----------------------------------------------------------------------------
(* As long as the receiver is on time the line carries one packet.         *)
PumpInv ==
  /\ Flow
  /\ late = 0 => rx = <<>> /\ \E p \in Packets, r, h, a \in Nat : Carries(p, r, h, a)

LEMMA PumpInit == SerialInit => PumpInv
<1> SUFFICES ASSUME SerialInit PROVE PumpInv
  OBVIOUS
<1> DEFINE p == [of |-> 0, b |-> 0, len |-> 0]
<1>1. p \in Packets /\ p.len = 0
  BY DEF Packets
<1>2. Carries(p, 1, 1, 1)
  <2>1. /\ uout = <<>> /\ thr = <<>> /\ shift = <<>> /\ uin = <<>>
        /\ tx = "out" /\ delta = FALSE /\ due = FALSE
    BY DEF SerialInit
  <2>2. Sends(p, 1, 1, 1)
    BY <1>1, <2>1 DEF Sends, Holds
  <2>3. Receives(p, 1, 1)
    BY <2>1 DEF Receives, Junk
  <2>4. Tells(p, 1, 1)
    BY <1>1, <2>1 DEF Tells
  <2> QED
    BY <1>1, <2>1, <2>2, <2>3, <2>4 DEF Carries
<1>3. rx = <<>>
  BY DEF SerialInit
<1> QED
  BY <1>1, <1>2, <1>3, FlowInit DEF PumpInv

LEMMA PumpNext ==
  ASSUME PumpInv, [SerialNext]_serialVars
  PROVE  PumpInv' /\ \A v \in Lines : Whole(v)
<1>1. Flow' /\ in \in Shelves /\ late \in Nat
  BY FlowNext DEF PumpInv, Flow, Stocks, Buffers
<1>2. CASE late # 0
  <2>1. late' # 0
    BY <1>1, <1>2 DEF SerialNext, serialVars, Client, Driver, Line, Reader, Put, EnableTHE, RaiseStart,
         THEInterrupt, SendByte, LeaveHandler, RaiseStop, Fill, DisableTHE, Shift, Arrive, Lag, Take,
         SeeIIR, SeeModem, Read, receiver
  <2> QED
    BY <1>1, <1>2, <2>1 DEF PumpInv, Whole
<1>3. CASE late = 0
  <2>1. PICK p \in Packets, r \in Nat, h \in Nat, a \in Nat : Carries(p, r, h, a)
    BY <1>3 DEF PumpInv
  <2>2. rx = <<>> /\ Stocks /\ (msc => delta)
    BY <1>3 DEF PumpInv, Flow, Buffers
  <2> DEFINE Goes == rx' = <<>> /\ \E q \in Packets, i, j, k \in Nat : Carries(q, i, j, k)'
  <2>3. (Goes \/ late' # 0) /\ \A v \in Lines : Whole(v)
    <3>1. ASSUME NEW v \in Lines, NEW k \in Writes[v], Put(v, k) PROVE Goes /\ in' = in
      <4>1. UNCHANGED <<uout, thr, shift, due, delta, tx, mcr, uin, in, rx>>
        BY <3>1 DEF Put, receiver
      <4>2. Tells(p, h, a)'
        BY <2>1, <4>1 DEF Carries, Tells, Junk
      <4>3. Carries(p, r, h, a)'
        BY <2>1, <4>1, <4>2, ControlKeeps
      <4> QED
        BY <2>2, <4>1, <4>3
    <3>2. CASE \/ \E v \in Lines : EnableTHE(v) \/ RaiseStart(v)
               \/ THEInterrupt \/ LeaveHandler \/ RaiseStop \/ DisableTHE \/ SeeIIR
      <4>1. Carries(p, r, h, a)'
        BY <2>1, <3>2, DriverKeeps
      <4>2. UNCHANGED <<in, rx>>
        BY <3>2 DEF EnableTHE, RaiseStart, THEInterrupt, LeaveHandler, RaiseStop, DisableTHE, SeeIIR, receiver
      <4> QED
        BY <1>1, <2>2, <4>1, <4>2, WholeStays
    <3>3. CASE SendByte
      <4>1. Carries(p, r + 1, h, a)' /\ r + 1 \in Nat /\ UNCHANGED <<in, rx>>
        BY <2>1, <3>3, SendKeeps DEF SendByte, receiver
      <4> QED
        BY <1>1, <2>2, <4>1, WholeStays
    <3>4. CASE Fill
      <4>1. (\E q \in Packets, i, j, k \in Nat : Carries(q, i, j, k)') /\ UNCHANGED <<in, rx>>
        BY <2>1, <2>2, <3>4, FillKeeps DEF Fill, receiver
      <4> QED
        BY <1>1, <2>2, <4>1, WholeStays
    <3>5. CASE Shift
      <4>1. Carries(p, r, h + 1, a)' /\ h + 1 \in Nat /\ UNCHANGED <<in, rx>>
        BY <2>1, <3>5, ShiftKeeps DEF Shift, receiver
      <4> QED
        BY <1>1, <2>2, <4>1, WholeStays
    <3>6. CASE Arrive
      <4>1. (\E k \in Nat : Carries(p, r, h, k)') /\ \A v \in Lines : Whole(v)
        <5>1. CASE shift = <<Part(p, h)>> /\ h = a + 1
          <6>1. a + 1 \in Nat
            OBVIOUS
          <6> QED
            BY <1>1, <2>1, <3>6, <5>1, <6>1, ArriveNext
        <5>2. CASE shift \in Seq(Bytes) /\ Len(shift) = 1 /\ shift[1].i # 0 /\ a = 0 /\ h = 0
          BY <1>1, <2>1, <3>6, <5>2, ArriveLast
        <5>3. shift # <<>>
          BY <3>6 DEF Arrive
        <5> QED
          BY <2>1, <5>1, <5>2, <5>3 DEF Carries, Sends
      <4>2. UNCHANGED rx
        BY <3>6 DEF Arrive
      <4> QED
        BY <2>1, <2>2, <4>1, <4>2
    <3>7. CASE Lag
      <4>1. late' # 0 /\ in' = in
        BY <1>1, <3>7 DEF Lag
      <4> QED
        BY <1>1, <4>1, WholeStays
    <3>8. ~Take
      BY <2>2 DEF Take
    <3>9. CASE SeeModem
      <4>1. delta /\ UNCHANGED rx
        BY <2>2, <3>9 DEF SeeModem
      <4> QED
        BY <1>1, <2>1, <2>2, <3>9, <4>1, SeeKeeps
    <3>10. ASSUME NEW v \in Lines, Read(v) PROVE Goes /\ \A w \in Lines : Whole(w)
      <4>1. UNCHANGED <<uout, thr, shift, delta, due, tx, mcr, uin, rx>>
        BY <3>10 DEF Read, sender
      <4>2. Tells(p, h, a)'
        BY <2>1, <4>1 DEF Carries, Tells, Junk
      <4>3. Carries(p, r, h, a)'
        BY <2>1, <4>1, <4>2, ControlKeeps
      <4>4. \A w \in Lines : in'[w].data = in[w].data \/ in'[w].data = <<>>
        BY <3>10, FlowRead DEF PumpInv
      <4> QED
        BY <1>1, <2>2, <4>1, <4>3, <4>4, WholeStays
    <3>11. CASE UNCHANGED serialVars
      <4>1. UNCHANGED <<uout, thr, shift, delta, due, tx, mcr, uin, rx, in>>
        BY <3>11 DEF serialVars, sender, receiver
      <4>2. Tells(p, h, a)'
        BY <2>1, <4>1 DEF Carries, Tells, Junk
      <4>3. Carries(p, r, h, a)'
        BY <2>1, <4>1, <4>2, ControlKeeps
      <4> QED
        BY <1>1, <2>2, <4>1, <4>3, WholeStays
    <3> QED
      BY <1>1, <3>1, <3>2, <3>3, <3>4, <3>5, <3>6, <3>7, <3>8, <3>9, <3>10, <3>11, WholeStays
         DEF SerialNext, Client, Driver, Line, Reader
  <2> QED
    BY <1>1, <2>3 DEF PumpInv
<1> QED
  BY <1>2, <1>3

(* dom_serial_fifo_read, uart_fill_out_buff, uart_flush_in_buff: through   *)
(* all packets, priorities and modem lines, whatever is lost, joined or    *)
(* misdelivered, a line's reader finds the bytes of its peer in the order  *)
(* in which they were written, and none of them twice.                     *)
THEOREM DeliversInOrder == SerialSpec => []InOrder
<1>1. Flow => InOrder
  <2> SUFFICES ASSUME Flow, NEW v \in Lines, NEW i \in DOMAIN in[v].data,
                      in[v].data[i].of = v, in[v].data[i].i # 0
               PROVE  /\ got[v] < in[v].data[i].n /\ in[v].data[i].n <= wrote[v]
                      /\ \A j \in 1 .. i - 1 :
                           in[v].data[j].of = v => in[v].data[j].n < in[v].data[i].n
    BY DEF InOrder
  <2> DEFINE d == in[v].data
  <2>1. d \in Seq(Bytes) /\ Rising(d)
    BY DEF Flow, Stocks, Shelves, Shelved
  <2>2. i \in 1 .. Len(d) /\ d[i] \in Range(d) /\ d[i] \in Bytes
    BY <2>1, RangeIs
  <2>3. got[v] < d[i].n /\ d[i].n <= Sent(v)
    BY <2>2 DEF Flow, Shelved
  <2>4. Sent(v) \in Nat /\ wrote[v] \in Nat /\ Sent(v) <= wrote[v] /\ d[i].n \in Nat
    BY <2>2, SentIs DEF Flow, Bytes
  <2>5. \A j \in 1 .. i - 1 : d[j].of = v => d[j].n < d[i].n
    BY <2>1, <2>2 DEF Rising
  <2> QED
    BY <2>3, <2>4, <2>5
<1> QED
  BY <1>1, FlowInit, FlowNext, PTL DEF SerialSpec

(* uart_MSC_handler, uart_flush_in_buff: a packet that begins with its     *)
(* number is delivered to its line, whole or without its last byte, never  *)
(* with a hole and never joined to another, while the receiver is on time. *)
THEOREM DeliversPackets == SerialSpec => WholePackets
<1>1. (\A v \in Lines : Whole(v)) =>
        \A v \in Lines :
          LET old == in[v].data
              add == SubSeq(in'[v].data, Len(old) + 1, Len(in'[v].data))
          IN  late = 0 /\ Len(in'[v].data) > Len(old) /\ uin[1].i = 0 =>
                /\ Len(add) >= add[1].len - 1
                /\ \A i \in DOMAIN add :
                     add[i].of = v /\ add[i].i = i /\ add[i].n = add[1].n + i - 1
  BY DEF Whole
<1> QED
  BY <1>1, PumpInit, PumpNext, PTL DEF SerialSpec, WholePackets
=============================================================================
