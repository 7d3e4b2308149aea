--------------------------- MODULE PkKernelProofs ---------------------------
(***************************************************************************)
(* PaRTiKle's lists of ready threads, for any threads and priorities: each *)
(* operation of the scheduler leaves a thread in the list of its priority, *)
(* once, exactly if it is ready.                                           *)
(***************************************************************************)
EXTENDS PkKernel, FiniteSetTheorems, SequenceTheorems, WellFoundedInduction, TLAPS

States == {"none", "ready", "suspended", "finished", "deleted"}

Kernels == [ready : [Prios -> Seq(Threads)], state : [Threads -> States],
            prio : [Threads -> Prios]]

Elems(s) == {s[i] : i \in 1 .. Len(s)}
NoDup(s) == \A i, j \in 1 .. Len(s) : s[i] = s[j] => i = j

ReadyAt(k, p) == {t \in Threads : k.state[t] = "ready" /\ k.prio[t] = p}

(* The lists of k hold the threads that are ready; all but t, while t is   *)
(* in none of them.                                                        *)
Ordered(k) ==
  k \in Kernels /\ \A p \in Prios : NoDup(k.ready[p]) /\ Elems(k.ready[p]) = ReadyAt(k, p)

OrderedBut(k, t) ==
  k \in Kernels /\ \A p \in Prios : NoDup(k.ready[p]) /\ Elems(k.ready[p]) = ReadyAt(k, p) \ {t}

-----------------------------------------------------------------------------
(* The lists.                                                              *)

LEMMA LeastNat ==
  ASSUME NEW S \in SUBSET Nat, S # {}
  PROVE  \E x \in S : \A y \in S : x <= y
<1> DEFINE Less == {p \in Nat \X Nat : p[1] < p[2]}
<1>1. IsWellFoundedOn(Less, Nat)
  BY NatLessThanWellFounded DEF OpToRel
<1> HIDE DEF Less
<1>2. PICK x \in S : \A y \in S : ~(<<y, x>> \in Less)
  BY <1>1, WFMin
<1>3. \A y \in S : x <= y
  <2> SUFFICES ASSUME NEW y \in S PROVE x <= y
    OBVIOUS
  <2>1. x \in Nat /\ y \in Nat
    OBVIOUS
  <2>2. y < x => <<y, x>> \in Less
    BY <2>1 DEF Less
  <2> QED
    BY <1>2, <2>1, <2>2
<1> QED
  BY <1>3

(* remove_ss                                                               *)
LEMMA RemoveFirstOf ==
  ASSUME NEW s \in Seq(Threads), NoDup(s), NEW t
  PROVE  /\ RemoveFirst(s, t) \in Seq(Threads)
         /\ NoDup(RemoveFirst(s, t))
         /\ Elems(RemoveFirst(s, t)) = Elems(s) \ {t}
<1>1. CASE ~ \E i \in 1 .. Len(s) : s[i] = t
  <2>1. RemoveFirst(s, t) = s
    BY <1>1 DEF RemoveFirst
  <2> QED
    BY <1>1, <2>1 DEF Elems
<1>2. CASE \E i \in 1 .. Len(s) : s[i] = t
  <2> DEFINE I == {i \in 1 .. Len(s) : s[i] = t}
             x == Min(I)
             r == RemoveAt(s, x)
  <2>1. SelectInSeq(s, LAMBDA v : v = t) = x
    BY <1>2 DEF SelectInSeq
  <2>2. RemoveFirst(s, t) = r
    BY <1>2, <2>1 DEF RemoveFirst
  <2>3. I \subseteq Nat /\ I # {}
    BY <1>2
  <2>4. x \in I
    BY <2>3, LeastNat DEF Min
  <2>5. x \in 1 .. Len(s) /\ s[x] = t /\ Len(s) \in Nat
    BY <2>4
  <2> HIDE DEF x
  <2>6. r \in Seq(Threads) /\ Len(r) = Len(s) - 1
        /\ \A i \in 1 .. Len(r) : r[i] = IF i < x THEN s[i] ELSE s[i + 1]
    <3> DEFINE a == SubSeq(s, 1, x - 1)
               b == SubSeq(s, x + 1, Len(s))
    <3>1. /\ a \in Seq(Threads) /\ Len(a) = x - 1
          /\ \A i \in 1 .. x - 1 : a[i] = s[i]
      BY <2>5
    <3>2. /\ b \in Seq(Threads) /\ Len(b) = Len(s) - x
          /\ \A i \in 1 .. Len(s) - x : b[i] = s[x + i]
      BY <2>5
    <3> HIDE DEF a, b
    <3>6. /\ a \o b \in Seq(Threads) /\ Len(a \o b) = Len(a) + Len(b)
          /\ \A i \in 1 .. Len(a) + Len(b) :
               (a \o b)[i] = IF i <= Len(a) THEN a[i] ELSE b[i - Len(a)]
      <4>1. a \in Seq(Threads) /\ b \in Seq(Threads)
        BY <3>1, <3>2
      <4> QED
        BY <4>1, ConcatProperties
    <3>7. Len(a) = x - 1 /\ Len(a) + Len(b) = Len(s) - 1
      BY <2>5, <3>1, <3>2
    <3>3. /\ a \o b \in Seq(Threads) /\ Len(a \o b) = Len(s) - 1
          /\ \A i \in 1 .. Len(s) - 1 : (a \o b)[i] = IF i <= x - 1 THEN a[i] ELSE b[i - (x - 1)]
      BY <3>6, <3>7
    <3>4. \A i \in 1 .. Len(s) - 1 : (a \o b)[i] = IF i < x THEN s[i] ELSE s[i + 1]
      <4> SUFFICES ASSUME NEW i \in 1 .. Len(s) - 1
                   PROVE  (a \o b)[i] = IF i < x THEN s[i] ELSE s[i + 1]
        OBVIOUS
      <4>1. CASE i < x
        BY <2>5, <3>1, <3>3, <4>1
      <4>2. CASE ~(i < x)
        <5>1. i - (x - 1) \in 1 .. Len(s) - x /\ x + (i - (x - 1)) = i + 1 /\ ~(i <= x - 1)
          BY <2>5, <4>2
        <5>2. b[i - (x - 1)] = s[i + 1]
          BY <3>2, <5>1
        <5> QED
          BY <3>3, <4>2, <5>1, <5>2
      <4> QED
        BY <4>1, <4>2
    <3>5. r = a \o b
      BY DEF RemoveAt, a, b
    <3> QED
      BY <3>3, <3>4, <3>5
  <2> HIDE DEF r
  <2>7. NoDup(r)
    BY <2>5, <2>6 DEF NoDup
  <2>8. ASSUME NEW i \in 1 .. Len(r)
        PROVE  r[i] \in Elems(s) \ {t}
    BY <2>5, <2>6, <2>8 DEF NoDup, Elems
  <2>9. ASSUME NEW j \in 1 .. Len(s), s[j] # t
        PROVE  s[j] \in Elems(r)
    <3>1. CASE j < x
      BY <2>5, <2>6, <3>1 DEF Elems
    <3>2. CASE j > x
      <4>1. j - 1 \in 1 .. Len(r) /\ r[j - 1] = s[j]
        BY <2>5, <2>6, <3>2
      <4> QED
        BY <4>1 DEF Elems
    <3> QED
      BY <2>5, <2>9, <3>1, <3>2
  <2>10. Elems(r) = Elems(s) \ {t}
    BY <2>8, <2>9 DEF Elems
  <2> QED
    BY <2>2, <2>6, <2>7, <2>10
<1> QED
  BY <1>1, <1>2

(* insert_ss and insert_ss_tail.                                           *)
LEMMA InsertInto ==
  ASSUME NEW s \in Seq(Threads), NoDup(s), NEW t \in Threads, t \notin Elems(s)
  PROVE  /\ <<t>> \o s \in Seq(Threads) /\ NoDup(<<t>> \o s)
         /\ Elems(<<t>> \o s) = Elems(s) \cup {t}
         /\ Append(s, t) \in Seq(Threads) /\ NoDup(Append(s, t))
         /\ Elems(Append(s, t)) = Elems(s) \cup {t}
<1>1. Len(s) \in Nat
  OBVIOUS
<1>2. /\ <<t>> \o s \in Seq(Threads) /\ NoDup(<<t>> \o s)
      /\ Elems(<<t>> \o s) = Elems(s) \cup {t}
  <2> DEFINE r == <<t>> \o s
  <2>1. r \in Seq(Threads) /\ Len(r) = Len(s) + 1
        /\ \A i \in 1 .. Len(r) : r[i] = IF i = 1 THEN t ELSE s[i - 1]
    OBVIOUS
  <2> HIDE DEF r
  <2>2. NoDup(r)
    <3>1. \A i \in 1 .. Len(s) : s[i] # t
      BY DEF Elems
    <3>2. \A i \in 1 .. Len(r) : i = 1 \/ (i - 1 \in 1 .. Len(s) /\ r[i] = s[i - 1])
      BY <1>1, <2>1
    <3>3. \A i, j \in 1 .. Len(r) : r[i] = r[j] => (i = 1 <=> j = 1)
      BY <2>1, <3>1, <3>2
    <3> SUFFICES ASSUME NEW i \in 1 .. Len(r), NEW j \in 1 .. Len(r), r[i] = r[j]
                 PROVE  i = j
      BY DEF NoDup
    <3>4. CASE i = 1
      BY <3>3, <3>4
    <3>5. CASE i # 1
      <4>1. i - 1 \in 1 .. Len(s) /\ j - 1 \in 1 .. Len(s) /\ s[i - 1] = s[j - 1]
        BY <3>2, <3>3, <3>5
      <4>2. i - 1 = j - 1
        BY <4>1 DEF NoDup
      <4> QED
        BY <4>2
    <3> QED
      BY <3>4, <3>5
  <2>3. Elems(r) \subseteq Elems(s) \cup {t}
    BY <1>1, <2>1 DEF Elems
  <2>4. r[1] = t /\ 1 \in 1 .. Len(r) /\ \A j \in 1 .. Len(s) : j + 1 \in 1 .. Len(r) /\ r[j + 1] = s[j]
    BY <1>1, <2>1
  <2>5. Elems(s) \cup {t} \subseteq Elems(r)
    BY <2>4 DEF Elems
  <2> QED
    BY <2>1, <2>2, <2>3, <2>5 DEF r
<1>3. /\ Append(s, t) \in Seq(Threads) /\ NoDup(Append(s, t))
      /\ Elems(Append(s, t)) = Elems(s) \cup {t}
  <2> DEFINE r == Append(s, t)
  <2>1. r \in Seq(Threads) /\ Len(r) = Len(s) + 1
        /\ \A i \in 1 .. Len(r) : r[i] = IF i = Len(s) + 1 THEN t ELSE s[i]
    OBVIOUS
  <2> HIDE DEF r
  <2>2. NoDup(r)
    BY <1>1, <2>1 DEF NoDup, Elems
  <2>3. Elems(r) \subseteq Elems(s) \cup {t}
    BY <1>1, <2>1 DEF Elems
  <2>4. r[Len(s) + 1] = t /\ Len(s) + 1 \in 1 .. Len(r)
        /\ \A j \in 1 .. Len(s) : j \in 1 .. Len(r) /\ r[j] = s[j]
    BY <1>1, <2>1
  <2>5. Elems(s) \cup {t} \subseteq Elems(r)
    BY <2>4 DEF Elems
  <2> QED
    BY <2>1, <2>2, <2>3, <2>5 DEF r
<1> QED
  BY <1>2, <1>3

-----------------------------------------------------------------------------
(* The operations of the scheduler.                                        *)

LEMMA RemovedOrdered ==
  ASSUME NEW k, NEW t \in Threads, Ordered(k)
  PROVE  /\ OrderedBut(Removed(k, t), t)
         /\ Removed(k, t).state = k.state /\ Removed(k, t).prio = k.prio
<1> DEFINE r == Removed(k, t)
<1>1. r.state = k.state /\ r.prio = k.prio
      /\ r.ready = [p \in Prios |-> RemoveFirst(k.ready[p], t)]
      /\ DOMAIN r = DOMAIN k
  BY DEF Removed, Ordered, Kernels
<1>2. ASSUME NEW p \in Prios
      PROVE  /\ r.ready[p] \in Seq(Threads) /\ NoDup(r.ready[p])
             /\ Elems(r.ready[p]) = ReadyAt(r, p) \ {t}
  <2>1. k.ready[p] \in Seq(Threads) /\ NoDup(k.ready[p]) /\ Elems(k.ready[p]) = ReadyAt(k, p)
    BY DEF Ordered, Kernels
  <2>2. ReadyAt(r, p) = ReadyAt(k, p)
    BY <1>1 DEF ReadyAt
  <2> QED
    BY <1>1, <2>1, <2>2, RemoveFirstOf
<1>3. r \in Kernels
  <2>1. r = [k EXCEPT !.ready = [p \in Prios |-> RemoveFirst(k.ready[p], t)]]
    BY DEF Removed, Ordered, Kernels
  <2>2. [p \in Prios |-> RemoveFirst(k.ready[p], t)] \in [Prios -> Seq(Threads)]
    BY <1>1, <1>2
  <2>3. k \in Kernels
    BY DEF Ordered
  <2> QED
    BY <2>1, <2>2, <2>3 DEF Kernels
<1> HIDE DEF r
<1>4. OrderedBut(r, t)
  BY <1>2, <1>3 DEF OrderedBut
<1> QED
  BY <1>1, <1>4 DEF r

(* A thread that is in no list is described anew, ...                      *)
LEMMA DescribedAnew ==
  ASSUME NEW k, NEW t \in Threads, OrderedBut(k, t), NEW s \in States, NEW p \in Prios
  PROVE  /\ OrderedBut([k EXCEPT !.state[t] = s], t)
         /\ OrderedBut([k EXCEPT !.prio[t] = p], t)
<1>1. k \in Kernels
  BY DEF OrderedBut
<1>2. [k EXCEPT !.state[t] = s] \in Kernels /\ [k EXCEPT !.prio[t] = p] \in Kernels
  BY <1>1 DEF Kernels
<1>3. \A q \in Prios : /\ ReadyAt([k EXCEPT !.state[t] = s], q) \ {t} = ReadyAt(k, q) \ {t}
                       /\ ReadyAt([k EXCEPT !.prio[t] = p], q) \ {t} = ReadyAt(k, q) \ {t}
  BY <1>1 DEF ReadyAt, Kernels
<1>4. [k EXCEPT !.state[t] = s].ready = k.ready /\ [k EXCEPT !.prio[t] = p].ready = k.ready
  BY <1>1 DEF Kernels
<1> QED
  BY <1>2, <1>3, <1>4 DEF OrderedBut

(* ... stays out of the lists if it is not ready, ...                      *)
LEMMA StaysOut ==
  ASSUME NEW k, NEW t \in Threads, OrderedBut(k, t), k.state[t] # "ready"
  PROVE  Ordered(k)
<1>1. \A p \in Prios : ReadyAt(k, p) \ {t} = ReadyAt(k, p)
  BY DEF ReadyAt
<1> QED
  BY <1>1 DEF OrderedBut, Ordered

(* ... and is put into that of its priority if it is.                      *)
LEMMA InsertedOrdered ==
  ASSUME NEW k, NEW t \in Threads, OrderedBut(k, t), k.state[t] = "ready"
  PROVE  /\ Ordered(Inserted(k, t)) /\ Ordered(InsertedAtTail(k, t))
         /\ Inserted(k, t).state = k.state /\ Inserted(k, t).prio = k.prio
         /\ InsertedAtTail(k, t).state = k.state /\ InsertedAtTail(k, t).prio = k.prio
<1> DEFINE q == k.prio[t]
           s == k.ready[q]
<1>1. k \in Kernels /\ q \in Prios /\ s \in Seq(Threads)
      /\ NoDup(s) /\ Elems(s) = ReadyAt(k, q) \ {t}
  BY DEF OrderedBut, Kernels
<1>2. /\ <<t>> \o s \in Seq(Threads) /\ NoDup(<<t>> \o s)
      /\ Elems(<<t>> \o s) = ReadyAt(k, q)
      /\ Append(s, t) \in Seq(Threads) /\ NoDup(Append(s, t))
      /\ Elems(Append(s, t)) = ReadyAt(k, q)
  <2>1. t \notin Elems(s) /\ t \in ReadyAt(k, q)
    BY <1>1 DEF ReadyAt
  <2> HIDE DEF s, q
  <2>2. (ReadyAt(k, q) \ {t}) \cup {t} = ReadyAt(k, q)
    BY <2>1
  <2> QED
    BY <1>1, <2>1, <2>2, InsertInto
<1>3. ASSUME NEW l \in Seq(Threads), NoDup(l), Elems(l) = ReadyAt(k, q)
      PROVE  /\ Ordered([k EXCEPT !.ready[q] = l])
             /\ [k EXCEPT !.ready[q] = l].state = k.state /\ [k EXCEPT !.ready[q] = l].prio = k.prio
  <2> DEFINE r == [k EXCEPT !.ready[q] = l]
  <2>1. r \in Kernels /\ r.state = k.state /\ r.prio = k.prio
        /\ r.ready = [k.ready EXCEPT ![q] = l]
    BY <1>1 DEF Kernels
  <2> HIDE DEF r
  <2>2. \A p \in Prios : ReadyAt(r, p) = ReadyAt(k, p)
    BY <2>1 DEF ReadyAt
  <2>3. \A p \in Prios : p # q => ReadyAt(k, p) \ {t} = ReadyAt(k, p)
    BY DEF ReadyAt
  <2>4. ASSUME NEW p \in Prios
        PROVE  NoDup(r.ready[p]) /\ Elems(r.ready[p]) = ReadyAt(r, p)
    <3>1. CASE p = q
      BY <1>1, <1>3, <2>1, <2>2, <3>1 DEF Kernels
    <3>2. CASE p # q
      BY <1>1, <2>1, <2>2, <2>3, <3>2 DEF Kernels, OrderedBut
    <3> QED
      BY <3>1, <3>2
  <2>5. Ordered(r)
    BY <2>1, <2>4 DEF Ordered
  <2> QED
    BY <2>1, <2>5 DEF r
<1>4. /\ Inserted(k, t) = [k EXCEPT !.ready[q] = <<t>> \o s]
      /\ InsertedAtTail(k, t) = [k EXCEPT !.ready[q] = Append(s, t)]
  BY <1>1 DEF Inserted, InsertedAtTail, Kernels
<1> HIDE DEF s, q
<1> QED
  BY <1>2, <1>3, <1>4

(* suspend_thread: out of the lists.                                       *)
LEMMA SuspendedOrdered ==
  ASSUME NEW k, NEW t \in Threads, Ordered(k)
  PROVE  /\ Ordered(Suspended(k, t))
         /\ Suspended(k, t).prio = k.prio
         /\ Suspended(k, t).state =
              [k.state EXCEPT ![t] = IF @ = "finished" THEN @ ELSE "suspended"]
<1> DEFINE r == Removed(k, t)
           s == IF k.state[t] = "finished" THEN "finished" ELSE "suspended"
<1>1. OrderedBut(r, t) /\ r.state = k.state /\ r.prio = k.prio
  BY RemovedOrdered
<1> HIDE DEF r
<1>2. Suspended(k, t) = [r EXCEPT !.state[t] = s]
  BY <1>1 DEF Suspended, r, OrderedBut, Kernels
<1>3. s \in States /\ s # "ready"
  BY DEF States
<1> HIDE DEF s
<1>4. OrderedBut([r EXCEPT !.state[t] = s], t)
  BY <1>1, <1>3, DescribedAnew, KernelAssumption DEF Prios
<1>5. /\ [r EXCEPT !.state[t] = s].state = [k.state EXCEPT ![t] = s]
      /\ [r EXCEPT !.state[t] = s].prio = k.prio
      /\ [r EXCEPT !.state[t] = s].state[t] = s
  BY <1>1 DEF OrderedBut, Kernels
<1>6. Ordered([r EXCEPT !.state[t] = s])
  BY <1>3, <1>4, <1>5, StaysOut
<1> QED
  BY <1>2, <1>5, <1>6 DEF s

(* A thread that exits, or is joined.                                      *)
LEMMA GoneOrdered ==
  ASSUME NEW k, NEW t \in Threads, Ordered(k), NEW s \in {"finished", "deleted"}
  PROVE  /\ Ordered([Removed(k, t) EXCEPT !.state[t] = s])
         /\ [Removed(k, t) EXCEPT !.state[t] = s].prio = k.prio
         /\ [Removed(k, t) EXCEPT !.state[t] = s].state = [k.state EXCEPT ![t] = s]
<1> DEFINE r == Removed(k, t)
<1>1. OrderedBut(r, t) /\ r.state = k.state /\ r.prio = k.prio
  BY RemovedOrdered
<1> HIDE DEF r
<1>3. s \in States /\ s # "ready"
  BY DEF States
<1>4. OrderedBut([r EXCEPT !.state[t] = s], t)
  BY <1>1, <1>3, DescribedAnew, KernelAssumption DEF Prios
<1>5. /\ [r EXCEPT !.state[t] = s].state = [k.state EXCEPT ![t] = s]
      /\ [r EXCEPT !.state[t] = s].prio = k.prio
      /\ [r EXCEPT !.state[t] = s].state[t] = s
  BY <1>1 DEF OrderedBut, Kernels
<1>6. Ordered([r EXCEPT !.state[t] = s])
  BY <1>3, <1>4, <1>5, StaysOut
<1> QED
  BY <1>5, <1>6 DEF r

(* activate_thread: into the list of its priority.                         *)
LEMMA ActivatedOrdered ==
  ASSUME NEW k, NEW t \in Threads, Ordered(k)
  PROVE  /\ Ordered(Activated(k, t))
         /\ Activated(k, t).prio = k.prio
         /\ Activated(k, t).state =
              [k.state EXCEPT ![t] = IF @ = "finished" THEN @ ELSE "ready"]
<1>1. CASE k.state[t] \in {"finished", "ready"}
  <2>1. Activated(k, t) = k
    BY <1>1 DEF Activated
  <2>2. k.state \in [Threads -> States]
    BY DEF Ordered, Kernels
  <2> QED
    BY <1>1, <2>1, <2>2
<1>2. CASE k.state[t] \notin {"finished", "ready"}
  <2> DEFINE r == [k EXCEPT !.state[t] = "ready"]
  <2>1. OrderedBut(k, t) /\ k \in Kernels
    <3>1. \A p \in Prios : ReadyAt(k, p) \ {t} = ReadyAt(k, p)
      BY <1>2 DEF ReadyAt
    <3> QED
      BY <3>1 DEF OrderedBut, Ordered
  <2>2. OrderedBut(r, t)
    BY <2>1, DescribedAnew, KernelAssumption DEF States, Prios
  <2>3. r.state = [k.state EXCEPT ![t] = "ready"] /\ r.state[t] = "ready" /\ r.prio = k.prio
    BY <2>1 DEF Kernels
  <2>4. Inserted(r, t) = [Inserted(k, t) EXCEPT !.state[t] = "ready"]
    BY <2>1 DEF Inserted, Kernels
  <2> HIDE DEF r
  <2>5. Ordered(Inserted(r, t)) /\ Inserted(r, t).state = r.state /\ Inserted(r, t).prio = r.prio
    BY <2>2, <2>3, InsertedOrdered
  <2>6. Activated(k, t) = Inserted(r, t)
    BY <1>2, <2>4 DEF Activated
  <2> QED
    BY <1>2, <2>3, <2>5, <2>6
<1> QED
  BY <1>1, <1>2

(* setprio: into the list of the new priority, if it was in one.           *)
LEMMA WithPrioOrdered ==
  ASSUME NEW k, NEW t \in Threads, NEW p \in Prios, Ordered(k)
  PROVE  /\ Ordered(WithPrio(k, t, p))
         /\ WithPrio(k, t, p).state = k.state
         /\ WithPrio(k, t, p).prio = [k.prio EXCEPT ![t] = p]
<1> DEFINE d == Removed(k, t)
           r == [d EXCEPT !.prio[t] = p]
<1>1. OrderedBut(d, t) /\ d.state = k.state /\ d.prio = k.prio
  BY RemovedOrdered
<1> HIDE DEF d
<1>2. OrderedBut(r, t)
  BY <1>1, DescribedAnew DEF States
<1>3. r.state = k.state /\ r.prio = [k.prio EXCEPT ![t] = p]
  BY <1>1 DEF OrderedBut, Kernels
<1>4. WithPrio(k, t, p) = IF k.state[t] = "ready" THEN Inserted(r, t) ELSE r
  BY DEF WithPrio, d
<1> HIDE DEF r
<1>5. CASE k.state[t] = "ready"
  BY <1>2, <1>3, <1>4, <1>5, InsertedOrdered
<1>6. CASE k.state[t] # "ready"
  BY <1>2, <1>3, <1>4, <1>6, StaysOut
<1> QED
  BY <1>5, <1>6

(* pthread_yield of a thread that is ready.                                *)
LEMMA YieldedOrdered ==
  ASSUME NEW k, NEW t \in Threads, Ordered(k), k.state[t] = "ready"
  PROVE  /\ Ordered(InsertedAtTail(Removed(k, t), t))
         /\ InsertedAtTail(Removed(k, t), t).state = k.state
         /\ InsertedAtTail(Removed(k, t), t).prio = k.prio
<1> DEFINE r == Removed(k, t)
<1>1. OrderedBut(r, t) /\ r.state = k.state /\ r.prio = k.prio
  BY RemovedOrdered
<1> HIDE DEF r
<1>2. /\ Ordered(InsertedAtTail(r, t))
      /\ InsertedAtTail(r, t).state = r.state /\ InsertedAtTail(r, t).prio = r.prio
  BY <1>1, InsertedOrdered
<1> QED
  BY <1>1, <1>2 DEF r

(* pthread_create                                                          *)
LEMMA CreatedOrdered ==
  ASSUME NEW k, NEW t \in Threads, Ordered(k), k.state[t] = "none"
  PROVE  /\ Ordered(Activated([k EXCEPT !.state[t] = "suspended"], t))
         /\ Activated([k EXCEPT !.state[t] = "suspended"], t).prio = k.prio
         /\ Activated([k EXCEPT !.state[t] = "suspended"], t).state =
              [k.state EXCEPT ![t] = "ready"]
<1> DEFINE r == [k EXCEPT !.state[t] = "suspended"]
<1>1. OrderedBut(k, t) /\ k \in Kernels
  <2>1. \A p \in Prios : ReadyAt(k, p) \ {t} = ReadyAt(k, p)
    BY DEF ReadyAt
  <2> QED
    BY <2>1 DEF OrderedBut, Ordered
<1>2. OrderedBut(r, t)
  BY <1>1, DescribedAnew, KernelAssumption DEF States, Prios
<1>3. r.state = [k.state EXCEPT ![t] = "suspended"] /\ r.state[t] = "suspended" /\ r.prio = k.prio
  BY <1>1 DEF Kernels
<1> HIDE DEF r
<1>4. Ordered(r)
  BY <1>2, <1>3, StaysOut
<1>5. /\ Ordered(Activated(r, t)) /\ Activated(r, t).prio = r.prio
      /\ Activated(r, t).state = [r.state EXCEPT ![t] = IF @ = "finished" THEN @ ELSE "ready"]
  BY <1>4, ActivatedOrdered
<1> QED
  BY <1>1, <1>3, <1>5 DEF r, Kernels

-----------------------------------------------------------------------------
(* A list of threads that are activated, from its head on.                 *)

(* The states after the first i threads.                                   *)
Woken(k, S) ==
  [u \in Threads |-> IF u \in S /\ k.state[u] # "finished" THEN "ready" ELSE k.state[u]]

(* The recursion of AllActivated has a value: it has one for every number  *)
(* of threads, because it has one for the first.                           *)
Activations(k, list, f) ==
  f = [i \in 0 .. Len(list) |-> IF i = 0 THEN k ELSE Activated(f[i - 1], list[i])]

LEMMA AllActivatedExists ==
  ASSUME NEW k, NEW list \in Seq(Threads)
  PROVE  \E f : Activations(k, list, f)
<1> DEFINE Upto(f, n) == f = [i \in 0 .. n |-> IF i = 0 THEN k ELSE Activated(f[i - 1], list[i])]
           Lacking == {n \in 0 .. Len(list) : ~ \E f : Upto(f, n)}
<1>1. Len(list) \in Nat
  OBVIOUS
<1>2. Lacking = {}
  <2> SUFFICES ASSUME Lacking # {} PROVE FALSE
    OBVIOUS
  <2>1. Lacking \in SUBSET Nat
    OBVIOUS
  <2> HIDE DEF Upto
  <2>2. PICK n \in Lacking : \A m \in Lacking : n <= m
    <3> HIDE DEF Lacking
    <3> QED
      BY <2>1, LeastNat
  <2>3. n \in 0 .. Len(list) /\ n \in Nat /\ ~ \E f : Upto(f, n)
    OBVIOUS
  <2>4. CASE n = 0
    <3> DEFINE f == [i \in 0 .. 0 |-> k]
    <3>1. f = [i \in 0 .. 0 |-> IF i = 0 THEN k ELSE Activated(f[i - 1], list[i])]
      OBVIOUS
    <3>2. Upto(f, 0)
      BY <3>1 DEF Upto
    <3> QED
      BY <2>3, <2>4, <3>2
  <2>5. CASE n # 0
    <3>1. n - 1 \in 0 .. Len(list) /\ n - 1 \in Nat /\ ~(n <= n - 1)
      BY <2>3, <2>5
    <3>2. n - 1 \notin Lacking
      BY <2>2, <3>1
    <3>3. PICK f : Upto(f, n - 1)
      BY <3>1, <3>2
    <3>4. f = [i \in 0 .. n - 1 |-> IF i = 0 THEN k ELSE Activated(f[i - 1], list[i])]
      BY <3>3 DEF Upto
    <3> DEFINE g == [i \in 0 .. n |-> IF i = n THEN Activated(f[n - 1], list[n]) ELSE f[i]]
    <3>5. \A i \in 0 .. n : g[i] = IF i = 0 THEN k ELSE Activated(g[i - 1], list[i])
      <4> SUFFICES ASSUME NEW i \in 0 .. n
                   PROVE  g[i] = IF i = 0 THEN k ELSE Activated(g[i - 1], list[i])
        OBVIOUS
      <4>1. CASE i = 0
        <5>1. 0 \in 0 .. n - 1 /\ i # n
          BY <2>3, <2>5, <4>1
        <5>2. f[0] = k
          BY <3>4, <5>1
        <5> QED
          BY <4>1, <5>1, <5>2
      <4>2. CASE i # 0 /\ i # n
        <5>1. i \in 0 .. n - 1 /\ i - 1 \in 0 .. n /\ i - 1 # n
          BY <2>3, <4>2
        <5>2. g[i] = f[i] /\ g[i - 1] = f[i - 1]
          BY <4>2, <5>1
        <5>3. f[i] = Activated(f[i - 1], list[i])
          BY <3>4, <4>2, <5>1
        <5> QED
          BY <4>2, <5>2, <5>3
      <4>3. CASE i = n
        <5>1. n - 1 \in 0 .. n /\ n - 1 # n
          BY <2>3, <2>5
        <5>2. g[n - 1] = f[n - 1] /\ g[n] = Activated(f[n - 1], list[n])
          BY <4>3, <5>1
        <5> QED
          BY <2>5, <4>3, <5>2
      <4> QED
        BY <4>1, <4>2, <4>3
    <3>6. g = [i \in 0 .. n |-> g[i]]
      OBVIOUS
    <3> HIDE DEF g
    <3>7. g = [i \in 0 .. n |-> IF i = 0 THEN k ELSE Activated(g[i - 1], list[i])]
      BY <3>5, <3>6
    <3>8. Upto(g, n)
      BY <3>7 DEF Upto
    <3> QED
      BY <2>3, <3>8
  <2> QED
    BY <2>4, <2>5
<1>3. \E f : Upto(f, Len(list))
  <2> HIDE DEF Upto
  <2>1. Len(list) \in 0 .. Len(list)
    BY <1>1
  <2> QED
    BY <1>2, <2>1
<1> QED
  BY <1>3 DEF Activations

(* Those of the list that have not finished are ready, and the others are  *)
(* what they were.                                                         *)
LEMMA AllActivatedOrdered ==
  ASSUME NEW k, NEW list \in Seq(Threads), Ordered(k)
  PROVE  /\ Ordered(AllActivated(k, list))
         /\ AllActivated(k, list).prio = k.prio
         /\ AllActivated(k, list).state = Woken(k, Elems(list))
<1> DEFINE f == CHOOSE f : Activations(k, list, f)
           First(n) == {list[i] : i \in 1 .. n}
           Right(n) == Ordered(f[n]) /\ f[n].prio = k.prio /\ f[n].state = Woken(k, First(n))
<1>1. f = [i \in 0 .. Len(list) |-> IF i = 0 THEN k ELSE Activated(f[i - 1], list[i])]
  <2>1. Activations(k, list, f)
    BY AllActivatedExists
  <2> HIDE DEF f
  <2> QED
    BY <2>1 DEF Activations
<1>2. AllActivated(k, list) = f[Len(list)]
  BY DEF AllActivated, Activations
<1> HIDE DEF f
<1>3. Len(list) \in Nat
  OBVIOUS
<1>4. Right(0)
  <2>1. f[0] = k
    BY <1>1, <1>3
  <2>2. First(0) = {}
    OBVIOUS
  <2>3. Woken(k, {}) = k.state
    BY DEF Woken, Ordered, Kernels
  <2> QED
    BY <2>1, <2>2, <2>3
<1>5. ASSUME NEW n \in 1 .. Len(list), Right(n - 1)
      PROVE  Right(n)
  <2> DEFINE t == list[n]
             g == f[n - 1]
  <2>1. f[n] = Activated(g, t) /\ t \in Threads
    <3>1. n \in 0 .. Len(list) /\ n # 0
      BY <1>3
    <3> QED
      BY <1>1, <3>1
  <2>2. Ordered(g) /\ g.prio = k.prio /\ g.state = Woken(k, First(n - 1))
    BY <1>5
  <2>3. First(n) = First(n - 1) \cup {t}
    BY <1>3
  <2> HIDE DEF t, g, First
  <2>4. /\ Ordered(f[n]) /\ f[n].prio = k.prio
        /\ f[n].state = [g.state EXCEPT ![t] = IF @ = "finished" THEN @ ELSE "ready"]
    <3>1. /\ Ordered(Activated(g, t)) /\ Activated(g, t).prio = g.prio
          /\ Activated(g, t).state = [g.state EXCEPT ![t] = IF @ = "finished" THEN @ ELSE "ready"]
      BY <2>1, <2>2, ActivatedOrdered
    <3> QED
      BY <2>1, <2>2, <3>1
  <2>5. f[n].state = Woken(k, First(n))
    BY <2>1, <2>2, <2>3, <2>4 DEF Woken
  <2> QED
    BY <2>4, <2>5
<1> HIDE DEF Right
<1>6. \A n \in 0 .. Len(list) : Right(n)
  <2> DEFINE Wrong == {n \in 0 .. Len(list) : ~Right(n)}
  <2> SUFFICES ASSUME Wrong # {} PROVE FALSE
    OBVIOUS
  <2>1. Wrong \in SUBSET Nat
    OBVIOUS
  <2>2. PICK n \in Wrong : \A m \in Wrong : n <= m
    <3> HIDE DEF Wrong
    <3> QED
      BY <2>1, LeastNat
  <2>3. n \in 1 .. Len(list) /\ ~Right(n)
    BY <1>4, <1>3
  <2>4. n - 1 \in 0 .. Len(list) /\ ~(n <= n - 1)
    BY <1>3, <2>3
  <2>5. Right(n - 1)
    BY <2>2, <2>4
  <2> QED
    BY <1>5, <2>3, <2>5
<1>7. Right(Len(list))
  BY <1>3, <1>6
<1> QED
  BY <1>2, <1>7 DEF Right, Elems

-----------------------------------------------------------------------------
(* scheduling(): the thread it chooses is ready and none is above it; it   *)
(* is the idle thread if none is ready.                                    *)
LEMMA HeadIsHighest ==
  ASSUME NEW k, Ordered(k)
  PROVE  \/ /\ HeadOfHighest(k) = Idle
            /\ \A t \in Threads : k.state[t] # "ready"
         \/ /\ HeadOfHighest(k) \in Threads
            /\ k.state[HeadOfHighest(k)] = "ready"
            /\ \A t \in Threads : k.state[t] = "ready" => k.prio[HeadOfHighest(k)] <= k.prio[t]
<1> DEFINE levels == {p \in Prios : k.ready[p] # <<>>}
<1>1. \A t \in Threads : k.state[t] = "ready" => k.prio[t] \in levels
  <2> SUFFICES ASSUME NEW t \in Threads, k.state[t] = "ready" PROVE k.prio[t] \in levels
    OBVIOUS
  <2>1. k.prio[t] \in Prios /\ t \in Elems(k.ready[k.prio[t]])
    BY DEF Ordered, Kernels, ReadyAt
  <2>2. k.ready[k.prio[t]] # << >>
    BY <2>1 DEF Elems
  <2> QED
    BY <2>1, <2>2
<1>2. CASE levels = {}
  <2>1. HeadOfHighest(k) = Idle
    BY <1>2 DEF HeadOfHighest
  <2> QED
    BY <1>1, <1>2, <2>1
<1>3. CASE levels # {}
  <2> DEFINE p == CHOOSE p \in levels : \A q \in levels : p <= q
  <2>1. p \in levels /\ \A q \in levels : p <= q
    <3>1. levels \in SUBSET Nat
      BY KernelAssumption DEF Prios
    <3> HIDE DEF levels
    <3> QED
      BY <1>3, <3>1, LeastNat
  <2>2. HeadOfHighest(k) = Head(k.ready[p])
    BY <1>3 DEF HeadOfHighest
  <2> HIDE DEF p
  <2>3. p \in Prios /\ k.ready[p] \in Seq(Threads) /\ k.ready[p] # << >>
    BY <2>1 DEF Ordered, Kernels
  <2>4. Head(k.ready[p]) = k.ready[p][1] /\ 1 \in 1 .. Len(k.ready[p])
    BY <2>3
  <2>5. Head(k.ready[p]) \in ReadyAt(k, p)
    BY <2>3, <2>4 DEF Ordered, Elems
  <2> QED
    BY <1>1, <2>1, <2>2, <2>5 DEF ReadyAt
<1> QED
  BY <1>2, <1>3

(* update_hwtimer: exactly the threads whose timers are due are activated. *)
LEMMA ExpiredOrdered ==
  ASSUME Ordered(sched), NEW due, due \subseteq Threads, IsFiniteSet(due), NEW k \in Expired(due)
  PROVE  /\ Ordered(k) /\ k.prio = sched.prio
         /\ k.state = Woken(sched, due)
<1> DEFINE n == Cardinality(due)
<1>1. PICK list \in [1 .. n -> due] :
        (\A i, j \in 1 .. n : i # j => list[i] # list[j]) /\ k = AllActivated(sched, list)
  BY DEF Expired, SetToSeqs
<1>2. n \in Nat
  BY FS_CardinalityType
<1> HIDE DEF n
<1>3. list \in Seq(Threads) /\ Len(list) = n
  BY <1>1, <1>2
<1>4. Elems(list) = due
  <2>1. list \in Injection(1 .. n, due)
    BY <1>1 DEF Injection, IsInjective
  <2>2. Cardinality(1 .. n) = n
    BY <1>2, FS_Interval
  <2>3. list \in Surjection(1 .. n, due)
    BY <2>1, <2>2, FS_Injection DEF n
  <2> QED
    BY <1>1, <1>3, <2>3 DEF Surjection, Elems
<1> QED
  BY <1>1, <1>3, <1>4, AllActivatedOrdered

-----------------------------------------------------------------------------
(* The scheduler's own invariant: its lists are right, and the thread that *)
(* runs is ready, but where sleep_for and pthread_exit have taken it out   *)
(* of the lists and have not called scheduling() yet.                      *)
Leaving == {<<"asleep">>, <<"exiting">>}

KernelInv ==
  /\ Ordered(sched)
  /\ current \in Threads \cup {Idle}
  /\ at = [t \in Threads |-> at[t]]
  /\ armed \subseteq Threads /\ IsFiniteSet(armed)
  /\ current # Idle /\ at[current] \notin Leaving => sched.state[current] = "ready"

(* What a call makes of the states and priorities, where its thread goes   *)
(* on, and whether scheduling() is called.                                 *)
Effect(state, prio, where, chosen) ==
  /\ Ordered(sched') /\ sched'.state = state /\ sched'.prio = prio
  /\ at' = [at EXCEPT ![current] = where]
  /\ current' = IF chosen THEN HeadOfHighest(sched') ELSE current

LEMMA EffectKeeps ==
  ASSUME KernelInv, NEW state, NEW prio, NEW where, NEW chosen \in BOOLEAN,
         Effect(state, prio, where, chosen), current \in Threads,
         chosen \/ where \in Leaving \/ state[current] = "ready",
         armed' \subseteq Threads, IsFiniteSet(armed')
  PROVE  KernelInv'
<1>1. at' = [t \in Threads |-> at'[t]] /\ at'[current] = where
  BY DEF Effect, KernelInv
<1>2. CASE chosen
  <2>1. current' = HeadOfHighest(sched') /\ Ordered(sched')
    BY <1>2 DEF Effect
  <2> QED
    BY <1>1, <2>1, HeadIsHighest DEF KernelInv
<1>3. CASE ~chosen
  <2>1. current' = current /\ Ordered(sched') /\ sched'.state = state
    BY <1>3 DEF Effect
  <2> QED
    BY <1>1, <1>3, <2>1 DEF KernelInv
<1> QED
  BY <1>2, <1>3

(* The calls of PkKernel.                                                  *)
LEMMA CreateEffect ==
  ASSUME KernelInv, NEW t \in Threads, Create(t)
  PROVE  /\ current \in Threads /\ at[current] = User /\ armed' = armed
         /\ sched.state[t] = "none"
         /\ Effect([sched.state EXCEPT ![t] = "ready"], sched.prio, User, TRUE)
BY CreatedOrdered DEF KernelInv, Create, Running, Reschedule, Effect

LEMMA YieldEffect ==
  ASSUME KernelInv, Yield
  PROVE  /\ current \in Threads /\ at[current] = User /\ armed' = armed
         /\ Effect(sched.state, sched.prio, User, TRUE)
<1>1. current \in Threads /\ at[current] = User /\ armed' = armed
  BY DEF KernelInv, Yield, Running
<1>2. sched.state[current] = "ready" /\ Ordered(sched)
  BY <1>1 DEF KernelInv, Yield, Running, User, Leaving
<1> QED
  BY <1>1, <1>2, YieldedOrdered DEF Yield, Reschedule, Effect

LEMMA SleepEffect ==
  ASSUME KernelInv, Sleep
  PROVE  /\ current \in Threads /\ at[current] = User /\ armed' = armed \cup {current}
         /\ Effect([sched.state EXCEPT ![current] = "suspended"], sched.prio, <<"asleep">>, FALSE)
<1>1. current \in Threads /\ at[current] = User /\ armed' = armed \cup {current}
  BY DEF KernelInv, Sleep, Running
<1>2. sched.state[current] = "ready" /\ Ordered(sched)
  BY <1>1 DEF KernelInv, Sleep, Running, User, Leaving
<1>3. /\ Ordered(Suspended(sched, current)) /\ Suspended(sched, current).prio = sched.prio
      /\ Suspended(sched, current).state = [sched.state EXCEPT ![current] = "suspended"]
  BY <1>1, <1>2, SuspendedOrdered
<1> QED
  BY <1>1, <1>3 DEF Sleep, Proceed, Effect

LEMMA SleepOnEffect ==
  ASSUME KernelInv, SleepOn
  PROVE  /\ current \in Threads /\ at[current] = <<"asleep">>
         /\ \E due \in SUBSET armed : /\ armed' = armed \ due
                                      /\ Effect(Woken(sched, due), sched.prio, User, TRUE)
<1>1. current \in Threads /\ at[current] = <<"asleep">>
  BY DEF KernelInv, SleepOn, Running
<1>2. PICK due \in SUBSET armed :
        armed' = armed \ due /\ \E k \in Expired(due) : Reschedule(k, User)
  BY DEF SleepOn
<1>3. PICK k \in Expired(due) : Reschedule(k, User)
  BY <1>2
<1>4. Ordered(sched) /\ due \subseteq Threads /\ IsFiniteSet(due)
  BY FS_Subset DEF KernelInv
<1>5. Ordered(k) /\ k.prio = sched.prio /\ k.state = Woken(sched, due)
  BY <1>4, ExpiredOrdered
<1>6. Effect(Woken(sched, due), sched.prio, User, TRUE)
  BY <1>3, <1>5 DEF Reschedule, Effect
<1> QED
  BY <1>1, <1>2, <1>6

LEMMA InterruptEffect ==
  ASSUME KernelInv, Interrupt
  PROVE  /\ EventsOn /\ at' = at /\ Ordered(sched') /\ current' = HeadOfHighest(sched')
         /\ \E due \in SUBSET armed : /\ armed' = armed \ due
                                      /\ sched'.prio = sched.prio
                                      /\ sched'.state = Woken(sched, due)
<1>1. PICK due \in SUBSET armed :
        /\ armed' = armed \ due
        /\ \E k \in Expired(due) : sched' = k /\ current' = HeadOfHighest(k)
  BY DEF Interrupt
<1>2. sched' \in Expired(due) /\ current' = HeadOfHighest(sched')
  BY <1>1
<1>3. Ordered(sched) /\ due \subseteq Threads /\ IsFiniteSet(due)
  BY FS_Subset DEF KernelInv
<1>4. /\ Ordered(sched') /\ sched'.prio = sched.prio
      /\ sched'.state = Woken(sched, due)
  BY <1>2, <1>3, ExpiredOrdered
<1> QED
  BY <1>1, <1>2, <1>4 DEF Interrupt

LEMMA KernelInitInv == KernelInit => KernelInv
<1> SUFFICES ASSUME KernelInit PROVE KernelInv
  OBVIOUS
<1>1. sched \in Kernels
  BY KernelAssumption DEF KernelInit, Kernels, States
<1>2. ASSUME NEW p \in Prios
      PROVE  NoDup(sched.ready[p]) /\ Elems(sched.ready[p]) = ReadyAt(sched, p)
  <2>1. CASE p = InitPrio[Main]
    <3>1. sched.ready[p] = <<Main>> /\ ReadyAt(sched, p) = {Main}
      BY <2>1, KernelAssumption DEF KernelInit, ReadyAt
    <3> QED
      BY <3>1 DEF NoDup, Elems
  <2>2. CASE p # InitPrio[Main]
    <3>1. sched.ready[p] = << >> /\ ReadyAt(sched, p) = {}
      BY <2>2, KernelAssumption DEF KernelInit, ReadyAt
    <3> QED
      BY <3>1 DEF NoDup, Elems
  <2> QED
    BY <2>1, <2>2
<1> QED
  BY <1>1, <1>2, KernelAssumption, FS_EmptySet DEF KernelInit, KernelInv, Ordered

(* Every step of the kernel keeps it.                                      *)
LEMMA KernelKeeps ==
  ASSUME KernelInv, KernelStep
  PROVE  KernelInv'
<1>1. Ordered(sched) /\ armed \subseteq Threads /\ IsFiniteSet(armed)
  BY DEF KernelInv
<1>2. \A due \in SUBSET armed : IsFiniteSet(armed \ due)
  BY <1>1, FS_Subset
<1>3. ASSUME NEW t \in Threads, Create(t)
      PROVE  KernelInv'
  BY <1>1, <1>3, CreateEffect, EffectKeeps
<1>4. CASE Yield
  BY <1>1, <1>4, YieldEffect, EffectKeeps
<1>5. CASE Sleep
  <2>1. IsFiniteSet(armed \cup {current})
    BY <1>1, FS_AddElement
  <2> QED
    BY <1>1, <1>5, <2>1, SleepEffect, EffectKeeps DEF Leaving
<1>6. CASE SleepOn
  BY <1>1, <1>2, <1>6, SleepOnEffect, EffectKeeps
<1>7. CASE Interrupt
  <2>1. /\ at' = at /\ Ordered(sched') /\ current' = HeadOfHighest(sched')
        /\ armed' \subseteq Threads /\ IsFiniteSet(armed')
    BY <1>1, <1>2, <1>7, InterruptEffect
  <2> QED
    BY <2>1, HeadIsHighest DEF KernelInv
<1> QED
  BY <1>3, <1>4, <1>5, <1>6, <1>7 DEF KernelStep

(* A thread that runs its own code, or goes on in a call, is ready.        *)
LEMMA RunningIsReady ==
  ASSUME KernelInv, NEW where, Running(where), where \notin Leaving
  PROVE  current \in Threads /\ at[current] = where /\ sched.state[current] = "ready"
BY DEF KernelInv, Running

(* activate_thread of one thread.                                          *)
LEMMA ActivatedIsWoken ==
  ASSUME NEW k, NEW t \in Threads, Ordered(k)
  PROVE  /\ Ordered(Activated(k, t)) /\ Activated(k, t).prio = k.prio
         /\ Activated(k, t).state = Woken(k, {t})
<1>1. k.state \in [Threads -> States]
  BY DEF Ordered, Kernels
<1> QED
  BY <1>1, ActivatedOrdered DEF Woken
=============================================================================
