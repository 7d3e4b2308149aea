---------------------------- MODULE PkTimeProofs ----------------------------
(***************************************************************************)
(* XtratuM's timers and, on top of them, PaRTiKle's.                       *)
(*                                                                         *)
(* XtratuM, for any number of domains, periods, delays and intervals:      *)
(* each domain is in the heap once, the first to expire is the first of    *)
(* the heap, and none expires without the hardware timer interrupting,     *)
(* unless a removal has cost the heap its order; which takes six domains.  *)
(*                                                                         *)
(* PaRTiKle, for every set of threads and timers: the flag that            *)
(* timer_settime and timer_gettime trust is true of the heap, because no   *)
(* timer is in the heap twice and taking one entry out is taking the timer *)
(* out; and no thread sleeps beyond its time, because XtratuM has been     *)
(* asked for the first timer of the heap or has raised its event.          *)
(***************************************************************************)
EXTENDS PkTime, PkKernelProofs, FiniteSetTheorems, WellFoundedInduction, TLAPS

-----------------------------------------------------------------------------
(* XtratuM: XmHeap and XmTimer.  heapify.                                  *)

(* The body of Passes.                                                     *)
Pass(h, key, top, f, i) ==
  \/ i = top
  \/ /\ i > top
     /\ 2 * (i \div 2) <= h.nelem
     /\ f[i \div 2]
     /\ i = Chosen(h, key, i \div 2)
     /\ ~(key[h.array[top]] < key[h.array[i]])

LEMMA PathExists ==
  ASSUME NEW h, NEW key, NEW top \in Nat \ {0}, MaxElem \in Nat
  PROVE  \E f : f = [i \in Cells |-> Pass(h, key, top, f, i)]
<1> DEFINE Upto(f, n) == f = [i \in 1 .. n |-> Pass(h, key, top, f, i)]
           Lacking == {n \in 0 .. MaxElem : ~ \E f : Upto(f, n)}
<1>1. Lacking = {}
  <2> SUFFICES ASSUME Lacking # {} PROVE FALSE
    OBVIOUS
  <2>1. Lacking \in SUBSET Nat
    OBVIOUS
  <2> HIDE DEF Upto
  <2>2. PICK n \in Lacking : \A m \in Lacking : n <= m
    <3> HIDE DEF Lacking
    <3> QED
      BY <2>1, LeastNat
  <2>3. n \in 0 .. MaxElem /\ n \in Nat /\ ~ \E f : Upto(f, n)
    OBVIOUS
  <2>4. CASE n = 0
    <3> DEFINE f == [i \in 1 .. 0 |-> FALSE]
    <3>1. f = [i \in 1 .. 0 |-> Pass(h, key, top, f, i)]
      OBVIOUS
    <3> QED
      BY <2>3, <2>4, <3>1 DEF Upto
  <2>5. CASE n # 0
    <3>1. n - 1 \in 0 .. MaxElem /\ ~(n <= n - 1)
      BY <2>3, <2>5
    <3>2. PICK f : Upto(f, n - 1)
      BY <2>2, <3>1
    <3>3. f = [i \in 1 .. n - 1 |-> Pass(h, key, top, f, i)]
      BY <3>2 DEF Upto
    <3> DEFINE g == [i \in 1 .. n |-> IF i = n THEN Pass(h, key, top, f, n) ELSE f[i]]
    <3>4. ASSUME NEW i \in 1 .. n
          PROVE  Pass(h, key, top, f, i) = Pass(h, key, top, g, i)
      <4>1. i \in Nat /\ i >= 1
        BY <2>3
      <4>2. CASE i > top
        <5>1. i >= 2
          BY <4>1, <4>2
        <5>2. i \div 2 \in 1 .. n /\ i \div 2 # n
          BY <2>3, <5>1
        <5>3. g[i \div 2] = f[i \div 2]
          BY <5>2
        <5> QED
          BY <5>3 DEF Pass
      <4>3. CASE ~(i > top)
        BY <4>3 DEF Pass
      <4> QED
        BY <4>2, <4>3
    <3>5. ASSUME NEW i \in 1 .. n
          PROVE  g[i] = Pass(h, key, top, g, i)
      <4>1. CASE i = n
        BY <3>4, <4>1
      <4>2. CASE i # n
        <5>1. i \in 1 .. n - 1
          BY <2>3, <4>2
        <5>2. g[i] = f[i] /\ f[i] = Pass(h, key, top, f, i)
          BY <3>3, <4>2, <5>1
        <5> QED
          BY <3>4, <5>2
      <4> QED
        BY <4>1, <4>2
    <3>6. g = [i \in 1 .. n |-> g[i]]
      OBVIOUS
    <3> HIDE DEF g
    <3>7. g = [i \in 1 .. n |-> Pass(h, key, top, g, i)]
      BY <3>5, <3>6
    <3> QED
      BY <2>3, <3>7 DEF Upto
  <2> QED
    BY <2>4, <2>5
<1>2. MaxElem \in 0 .. MaxElem
  OBVIOUS
<1>3. PICK f : Upto(f, MaxElem)
  BY <1>1, <1>2
<1> QED
  BY <1>3 DEF Cells

LEMMA PathIs ==
  ASSUME NEW h, NEW key, NEW top \in Nat \ {0}, MaxElem \in Nat
  PROVE  \A i \in Cells : Path(h, key, top)[i] <=> Pass(h, key, top, Path(h, key, top), i)
<1> DEFINE p == CHOOSE f : f = [i \in Cells |-> Pass(h, key, top, f, i)]
<1>1. p = [i \in Cells |-> Pass(h, key, top, p, i)]
  BY PathExists
<1>2. Path(h, key, top) = p
  BY DEF Path, Pass
<1> HIDE DEF p
<1>3. \A i \in Cells : p[i] <=> Pass(h, key, top, p, i)
  BY <1>1
<1> QED
  BY <1>2, <1>3

(* How array[top] has sunk: along the cells of P, each below the one       *)
(* before, smaller than what sinks and the smallest of its father's        *)
(* children; whatever is below the last one is not smaller.                *)
Sunk(a, r, key, top, n) ==
  \E P \in SUBSET (top .. n) :
    /\ top <= n => top \in P
    /\ \A c \in P \ {top} :
         /\ c \div 2 \in P /\ key[a[c]] <= key[a[top]]
         /\ \A d \in 2 .. n : d \div 2 = c \div 2 =>
              key[a[c]] <= key[a[d]] /\ (d \in P => d = c)
         /\ r[c \div 2] = a[c]
    /\ \A i \in P : (\A c \in P : c \div 2 # i) =>
         /\ r[i] = a[top]
         /\ \A d \in 2 .. n : d \div 2 = i => key[a[top]] <= key[a[d]]
    /\ \A i \in (1 .. n) \ P : r[i] = a[i]

LEMMA HeapifySinks ==
  ASSUME NEW a \in [Cells -> Doms \cup {None}], NEW n \in Nat, NEW key \in [Doms -> Nat],
         NEW top \in 1 .. n + 1, MaxElem \in Nat, n + 1 <= MaxElem,
         \A i \in 1 .. n + 1 : a[i] \in Doms,
         a[n + 1] = a[top]
  PROVE  \E r \in [Cells -> Doms \cup {None}] :
           /\ Heapify([array |-> a, nelem |-> n], key, top) = [array |-> r, nelem |-> n]
           /\ Sunk(a, r, key, top, n)
<1> DEFINE h == [array |-> a, nelem |-> n]
           v == a[top]
           F == Path(h, key, top)
           Below(i) == {c \in Cells : c \div 2 = i /\ c > 1 /\ F[c]}
           r == [i \in Cells |-> IF ~F[i] THEN a[i] ELSE IF Below(i) = {} THEN v
                                 ELSE a[CHOOSE c \in Below(i) : TRUE]]
           Best(i) == IF key[a[2 * i + 1]] < key[a[2 * i]] THEN 2 * i + 1 ELSE 2 * i
           P == {i \in 1 .. n : F[i]}
<1>1. Heapify(h, key, top) = [array |-> r, nelem |-> n]
  <2>1. h.array = a /\ h.nelem = n
    OBVIOUS
  <2> DEFINE s == [i \in Cells |-> IF ~F[i] THEN h.array[i] ELSE IF Below(i) = {} THEN h.array[top]
                                   ELSE h.array[CHOOSE c \in Below(i) : TRUE]]
  <2>2. Heapify(h, key, top) = [h EXCEPT !.array = s]
    BY Zenon DEF Heapify
  <2>3. s = r
    BY <2>1
  <2> HIDE DEF r, s
  <2> QED
    BY <2>2, <2>3
<1>2. \A i \in Cells : F[i] <=> \/ i = top
                                \/ /\ i > top /\ 2 * (i \div 2) <= n /\ F[i \div 2]
                                   /\ i = Best(i \div 2) /\ ~(key[v] < key[a[i]])
  <2>1. top \in Nat \ {0}
    OBVIOUS
  <2>2. \A i \in Cells : F[i] <=> Pass(h, key, top, F, i)
    BY <2>1, PathIs
  <2> QED
    BY <2>2 DEF Pass, Chosen
<1>3. \A i \in 1 .. n + 1 : i \in Cells /\ a[i] \in Doms /\ key[a[i]] \in Nat
  BY DEF Cells
<1>4. \A i \in Nat : Best(i) \in {2 * i, 2 * i + 1}
  BY DEF Best
<1>5. v = a[top] /\ v \in Doms /\ key[v] \in Nat /\ top \in Cells /\ v = a[n + 1]
  BY <1>3
<1>6. \A i \in Nat : 2 * i \in 1 .. n => /\ key[a[Best(i)]] <= key[a[2 * i]]
                                        /\ key[a[Best(i)]] <= key[a[2 * i + 1]]
  <2> SUFFICES ASSUME NEW i \in Nat, 2 * i \in 1 .. n
               PROVE  key[a[Best(i)]] <= key[a[2 * i]] /\ key[a[Best(i)]] <= key[a[2 * i + 1]]
    OBVIOUS
  <2>1. key[a[2 * i]] \in Nat /\ key[a[2 * i + 1]] \in Nat
    BY <1>3
  <2> QED
    BY <2>1 DEF Best
<1> HIDE DEF F, v, Best, h
<1>7. F[top] /\ \A i \in Cells : F[i] => i >= top /\ i <= n + 1
  <2>1. ASSUME NEW i \in Cells, F[i], i # top PROVE i > top /\ i <= n + 1
    <3>1. i > top /\ 2 * (i \div 2) <= n
      BY <1>2, <2>1
    <3> QED
      BY <3>1 DEF Cells
  <2>2. F[top]
    BY <1>2, <1>5
  <2>3. ASSUME NEW i \in Cells, F[i] PROVE i >= top /\ i <= n + 1
    <3>1. CASE i = top
      BY <3>1
    <3>2. CASE i # top
      BY <2>1, <2>3, <3>2 DEF Cells
    <3> QED
      BY <3>1, <3>2
  <2> QED
    BY <2>2, <2>3
(* What is below top on the path.                                          *)
<1>8. ASSUME NEW c \in Cells, F[c], c # top
      PROVE  /\ c \in 2 .. n + 1 /\ c > top /\ c \div 2 \in P /\ c = Best(c \div 2) /\ key[a[c]] <= key[v]
             /\ 2 * (c \div 2) \in 1 .. n
  <2>1. c > top /\ 2 * (c \div 2) <= n /\ F[c \div 2] /\ c = Best(c \div 2) /\ ~(key[v] < key[a[c]])
    BY <1>2, <1>8
  <2>2. c \in 2 .. n + 1 /\ c \div 2 \in 1 .. n /\ 2 * (c \div 2) \in 1 .. n
    BY <1>7, <1>8, <2>1 DEF Cells
  <2>3. key[a[c]] \in Nat
    BY <1>3, <2>2
  <2> QED
    BY <1>5, <2>1, <2>2, <2>3
<1>9. ASSUME NEW c \in Cells, F[c], c # top PROVE r[c \div 2] = a[c]
  <2>1. c \in Below(c \div 2)
    BY <1>8, <1>9
  <2>2. ASSUME NEW d \in Below(c \div 2) PROVE d = c
    <3>1. d \in Cells /\ F[d] /\ d \div 2 = c \div 2 /\ d > 1 /\ d \in Nat
      BY DEF Cells
    <3>2. c \div 2 >= top /\ d # top
      <4>1. c \div 2 \in P
        BY <1>8, <1>9
      <4>2. c \div 2 \in Cells /\ F[c \div 2]
        BY <1>3, <4>1
      <4>3. c \div 2 >= top
        BY <1>7, <4>2
      <4> QED
        BY <3>1, <4>3
    <3> QED
      BY <1>8, <1>9, <3>1, <3>2
  <2>3. (CHOOSE d \in Below(c \div 2) : TRUE) = c
    BY <2>1, <2>2
  <2>4. c \div 2 \in Cells /\ F[c \div 2]
    BY <1>3, <1>8, <1>9
  <2> QED
    BY <2>1, <2>3, <2>4
<1>10. P \in SUBSET (top .. n) /\ (top <= n => top \in P)
  BY <1>3, <1>7
<1>11. ASSUME NEW c \in P \ {top}
       PROVE  /\ c \div 2 \in P /\ key[a[c]] <= key[a[top]]
              /\ \A d \in 2 .. n : d \div 2 = c \div 2 => key[a[c]] <= key[a[d]] /\ (d \in P => d = c)
              /\ r[c \div 2] = a[c]
  <2>1. c \in Cells /\ F[c] /\ c # top
    BY <1>3
  <2>2. /\ c \in 2 .. n + 1 /\ c > top /\ c \div 2 \in P /\ c = Best(c \div 2) /\ key[a[c]] <= key[v]
        /\ 2 * (c \div 2) \in 1 .. n
    BY <1>8, <2>1
  <2>3. ASSUME NEW d \in 2 .. n, d \div 2 = c \div 2 PROVE key[a[c]] <= key[a[d]] /\ (d \in P => d = c)
    <3>1. d = 2 * (c \div 2) \/ d = 2 * (c \div 2) + 1
      BY <2>2, <2>3
    <3>2. key[a[c]] <= key[a[d]]
      <4>1. c \div 2 \in Nat
        BY <2>2
      <4>2. /\ key[a[Best(c \div 2)]] <= key[a[2 * (c \div 2)]]
            /\ key[a[Best(c \div 2)]] <= key[a[2 * (c \div 2) + 1]]
        BY <1>6, <2>2, <4>1
      <4> QED
        BY <2>2, <3>1, <4>2
    <3>3. d \in P => d = c
      <4> SUFFICES ASSUME d \in P PROVE d = c
        OBVIOUS
      <4>1. d # top
        BY <1>10, <2>2, <2>3
      <4> QED
        BY <1>3, <1>8, <2>2, <2>3, <4>1
    <3> QED
      BY <3>2, <3>3
  <2> QED
    BY <1>5, <1>9, <2>1, <2>2, <2>3
(* Where the path ends.                                                    *)
<1>12. ASSUME NEW i \in P, \A c \in P : c \div 2 # i
       PROVE  /\ r[i] = a[top]
              /\ \A d \in 2 .. n : d \div 2 = i => key[a[top]] <= key[a[d]]
  <2>1. i \in 1 .. n /\ F[i] /\ i \in Cells /\ i >= top /\ i \in Nat
    BY <1>3, <1>7
  <2>2. \A c \in Below(i) : c = n + 1 /\ c # top
    <3> SUFFICES ASSUME NEW c \in Below(i) PROVE c = n + 1 /\ c # top
      OBVIOUS
    <3>1. c \in Cells /\ F[c] /\ c \div 2 = i /\ c > 1 /\ c \in Nat
      BY DEF Cells
    <3>2. c <= n + 1 /\ c \notin P
      BY <1>7, <1>12, <3>1
    <3> QED
      BY <2>1, <3>1, <3>2
  <2>3. r[i] = a[top]
    <3>1. CASE Below(i) = {}
      BY <1>5, <2>1, <3>1
    <3>2. CASE Below(i) # {}
      <4>1. (CHOOSE c \in Below(i) : TRUE) = n + 1
        BY <2>2, <3>2
      <4> QED
        BY <1>5, <2>1, <3>2, <4>1
    <3> QED
      BY <3>1, <3>2
  <2>4. ASSUME NEW d \in 2 .. n, d \div 2 = i PROVE key[a[top]] <= key[a[d]]
    <3>1. 2 * i \in 1 .. n /\ (d = 2 * i \/ d = 2 * i + 1) /\ d \in 1 .. n + 1
      BY <2>1, <2>4
    <3>2. key[a[Best(i)]] <= key[a[d]]
      BY <1>6, <2>1, <3>1
    <3>3. Best(i) \in 2 .. n + 1 /\ Best(i) \div 2 = i /\ Best(i) > top /\ Best(i) \in Cells
      <4>1. Best(i) \in {2 * i, 2 * i + 1}
        BY <1>4, <2>1
      <4>2. Best(i) \in 2 .. n + 1 /\ Best(i) \div 2 = i /\ Best(i) > top
        BY <2>1, <3>1, <4>1
      <4> QED
        BY <1>3, <4>2
    <3>4. CASE Best(i) \in P
      BY <1>12, <3>3, <3>4
    <3>5. CASE Best(i) \notin P /\ Best(i) = n + 1
      BY <1>5, <3>2, <3>5
    <3>6. CASE Best(i) \notin P /\ Best(i) # n + 1
      <4>1. ~F[Best(i)]
        BY <3>3, <3>6
      <4>2. 2 * (Best(i) \div 2) <= n /\ F[Best(i) \div 2] /\ Best(i) = Best(Best(i) \div 2)
        BY <2>1, <3>1, <3>3
      <4>3. key[v] < key[a[Best(i)]]
        BY <1>2, <3>3, <4>1, <4>2
      <4>4. key[a[Best(i)]] \in Nat /\ key[a[d]] \in Nat /\ key[a[top]] \in Nat /\ key[v] = key[a[top]]
        BY <1>3, <1>5, <3>1, <3>3
      <4> QED
        BY <3>2, <4>3, <4>4
    <3> QED
      BY <3>4, <3>5, <3>6
  <2> QED
    BY <2>3, <2>4
<1>13. \A i \in (1 .. n) \ P : r[i] = a[i]
  BY <1>3
<1>14. r \in [Cells -> Doms \cup {None}]
  <2> SUFFICES ASSUME NEW i \in Cells PROVE r[i] \in Doms \cup {None}
    OBVIOUS
  <2>1. Below(i) # {} => (CHOOSE c \in Below(i) : TRUE) \in Cells
    OBVIOUS
  <2> QED
    BY <1>5, <2>1
<1> HIDE DEF r, P
<1>15. Sunk(a, r, key, top, n)
  BY <1>10, <1>11, <1>12, <1>13 DEF Sunk
<1> QED
  BY <1>1, <1>14, <1>15 DEF h

-----------------------------------------------------------------------------
(* HEAP_insert                                                             *)

(* The body of Rises.                                                      *)
Rise(h, key, k, f, i) ==
  \/ i = h.nelem + 1
  \/ /\ key[k] < key[h.array[i]]
     /\ \E c \in {2 * i, 2 * i + 1} : c <= h.nelem + 1 /\ f[c]

LEMMA RisingExists ==
  ASSUME NEW h, NEW key, NEW k, h.nelem \in Nat
  PROVE  \E f : f = [i \in 1 .. h.nelem + 1 |-> Rise(h, key, k, f, i)]
<1> DEFINE last == h.nelem + 1
           From(n) == last - n + 1 .. last
           Upto(f, n) == f = [i \in From(n) |-> Rise(h, key, k, f, i)]
           Lacking == {n \in 0 .. last : ~ \E f : Upto(f, n)}
<1>1. last \in Nat
  OBVIOUS
<1> HIDE DEF last
<1>2. Lacking = {}
  <2> SUFFICES ASSUME Lacking # {} PROVE FALSE
    OBVIOUS
  <2>1. Lacking \in SUBSET Nat
    BY <1>1
  <2> HIDE DEF Upto
  <2>2. PICK n \in Lacking : \A m \in Lacking : n <= m
    <3> HIDE DEF Lacking
    <3> QED
      BY <2>1, LeastNat
  <2>3. n \in 0 .. last /\ n \in Nat /\ ~ \E f : Upto(f, n)
    BY <1>1
  <2>4. CASE n = 0
    <3> DEFINE f == [i \in From(0) |-> FALSE]
    <3>1. \A i \in From(0) : FALSE
      BY <1>1
    <3>2. f = [i \in From(0) |-> Rise(h, key, k, f, i)]
      BY <3>1
    <3> QED
      BY <2>3, <2>4, <3>2 DEF Upto
  <2>5. CASE n # 0
    <3>1. n - 1 \in 0 .. last /\ ~(n <= n - 1)
      BY <1>1, <2>3, <2>5
    <3>2. PICK f : Upto(f, n - 1)
      BY <2>2, <3>1
    <3>3. f = [i \in From(n - 1) |-> Rise(h, key, k, f, i)]
      BY <3>2 DEF Upto
    <3> DEFINE j == last - n + 1
               g == [i \in From(n) |-> IF i = j THEN Rise(h, key, k, f, j) ELSE f[i]]
    <3>4. ASSUME NEW i \in From(n)
          PROVE  Rise(h, key, k, f, i) = Rise(h, key, k, g, i)
      <4>1. i \in Nat /\ i >= 1
        BY <1>1, <2>3
      <4>2. ASSUME NEW c \in {2 * i, 2 * i + 1}, c <= h.nelem + 1
            PROVE  g[c] = f[c]
        <5>1. c \in From(n) /\ c # j
          BY <1>1, <2>3, <4>1, <4>2 DEF last
        <5> QED
          BY <5>1
      <4> QED
        BY <4>2 DEF Rise
    <3>5. ASSUME NEW i \in From(n)
          PROVE  g[i] = Rise(h, key, k, g, i)
      <4>1. CASE i = j
        BY <3>4, <4>1
      <4>2. CASE i # j
        <5>1. i \in From(n - 1)
          BY <1>1, <2>3, <4>2
        <5>2. g[i] = f[i] /\ f[i] = Rise(h, key, k, f, i)
          BY <3>3, <4>2, <5>1
        <5> QED
          BY <3>4, <5>2
      <4> QED
        BY <4>1, <4>2
    <3>6. g = [i \in From(n) |-> g[i]]
      OBVIOUS
    <3> HIDE DEF g, From
    <3>7. g = [i \in From(n) |-> Rise(h, key, k, g, i)]
      BY <3>5, <3>6
    <3> QED
      BY <2>3, <3>7 DEF Upto
  <2> QED
    BY <2>4, <2>5
<1>3. last \in 0 .. last
  BY <1>1
<1>4. PICK f : Upto(f, last)
  BY <1>2, <1>3
<1>5. From(last) = 1 .. last
  BY <1>1
<1> QED
  BY <1>4, <1>5 DEF last

LEMMA RisingIs ==
  ASSUME NEW h, NEW key, NEW k, h.nelem \in Nat
  PROVE  \A i \in 1 .. h.nelem + 1 :
           Rising(h, key, k)[i] <=> Rise(h, key, k, Rising(h, key, k), i)
<1> DEFINE D == 1 .. h.nelem + 1
           p == CHOOSE f : f = [i \in D |-> Rise(h, key, k, f, i)]
<1>1. p = [i \in D |-> Rise(h, key, k, p, i)]
  <2>1. \E f : f = [i \in D |-> Rise(h, key, k, f, i)]
    BY RisingExists
  <2> HIDE DEF D
  <2> QED
    BY <2>1
<1>2. Rising(h, key, k) = p
  BY DEF Rising, Rise
<1> HIDE DEF p
<1>3. \A i \in 1 .. h.nelem + 1 : p[i] <=> Rise(h, key, k, p, i)
  BY <1>1
<1> QED
  BY <1>2, <1>3

(* How k has risen from cell m: the fathers in R are larger and each has   *)
(* sunk to the next, the first father that is not larger stays.            *)
Risen(a, r, key, k, m) ==
  \E R \in SUBSET (1 .. m) :
    /\ m \in R
    /\ \A i \in R \ {m} : key[k] < key[a[i]] /\ \E c \in R : c \div 2 = i
    /\ \A i \in R : i \div 2 \in R => r[i] = a[i \div 2]
    /\ \A i \in R : i \div 2 \notin R =>
         /\ r[i] = k
         /\ i > 1 => key[a[i \div 2]] <= key[k]
    /\ \A i \in (1 .. m) \ R : r[i] = a[i]

LEMMA InsertRises ==
  ASSUME NEW a \in [Cells -> Doms \cup {None}], NEW m \in Nat \ {0}, NEW key \in [Doms -> Nat],
         NEW k \in Doms, MaxElem \in Nat, m <= MaxElem,
         \A i \in 1 .. m - 1 : a[i] \in Doms /\ a[i] # k
  PROVE  \E r \in [Cells -> Doms \cup {None}] :
           /\ Insert([array |-> a, nelem |-> m - 1], key, k) = [array |-> r, nelem |-> m]
           /\ Risen(a, r, key, k, m)
<1> DEFINE h == [array |-> a, nelem |-> m - 1]
           F == Rising(h, key, k)
           r == [i \in Cells |-> IF i > m \/ ~F[i] THEN a[i]
                                 ELSE IF i > 1 /\ F[i \div 2] THEN a[i \div 2] ELSE k]
           R == {i \in 1 .. m : F[i]}
<1>1. m - 1 + 1 = m /\ h.nelem = m - 1 /\ h.nelem \in Nat
  OBVIOUS
<1>2. RemoveElement(h, key, k) = h
  BY DEF RemoveElement, Elements
<1>3. Insert(h, key, k) = [array |-> r, nelem |-> m]
  BY <1>1, <1>2 DEF Insert
<1>4. \A i \in 1 .. m : F[i] <=> \/ i = m
                                \/ /\ key[k] < key[a[i]]
                                   /\ \E c \in {2 * i, 2 * i + 1} : c <= m /\ F[c]
  <2>1. \A i \in 1 .. h.nelem + 1 : F[i] <=> Rise(h, key, k, F, i)
    BY <1>1, RisingIs
  <2> HIDE DEF F
  <2> QED
    BY <1>1, <2>1 DEF Rise
<1> HIDE DEF F, h
<1>5. \A i \in 1 .. m : i \in Cells
  BY DEF Cells
<1>6. m \in R
  BY <1>4
<1>7. ASSUME NEW i \in R \ {m}
      PROVE  key[k] < key[a[i]] /\ \E c \in R : c \div 2 = i
  <2>1. i \in 1 .. m /\ F[i] /\ i # m
    OBVIOUS
  <2>2. key[k] < key[a[i]]
    BY <1>4, <2>1
  <2>3. PICK c \in {2 * i, 2 * i + 1} : c <= m /\ F[c]
    BY <1>4, <2>1
  <2>4. c \in R /\ c \div 2 = i
    BY <2>1, <2>3
  <2> QED
    BY <2>2, <2>4
<1>8. \A i \in R : i \div 2 \in R => r[i] = a[i \div 2]
  BY <1>5
<1>9. ASSUME NEW i \in R, i \div 2 \notin R
      PROVE  r[i] = k /\ (i > 1 => key[a[i \div 2]] <= key[k])
  <2>1. i \in 1 .. m /\ F[i] /\ i \in Cells /\ i <= m
    BY <1>5
  <2>2. CASE i = 1
    BY <2>1, <2>2
  <2>3. CASE i > 1
    <3>1. i \div 2 \in 1 .. m - 1 /\ i \div 2 \in 1 .. m /\ i \div 2 # m /\ i \in {2 * (i \div 2), 2 * (i \div 2) + 1}
      BY <2>1, <2>3
    <3>2. ~F[i \div 2]
      BY <1>9, <3>1
    <3>3. ~(key[k] < key[a[i \div 2]])
      BY <1>4, <2>1, <3>1, <3>2
    <3>4. key[k] \in Nat /\ key[a[i \div 2]] \in Nat
      BY <3>1
    <3>5. r[i] = k
      BY <2>1, <2>3, <3>2
    <3> QED
      BY <3>3, <3>4, <3>5
  <2> QED
    BY <2>1, <2>2, <2>3
<1>10. \A i \in (1 .. m) \ R : r[i] = a[i]
  BY <1>5
<1>11. r \in [Cells -> Doms \cup {None}]
  <2> SUFFICES ASSUME NEW i \in Cells PROVE r[i] \in Doms \cup {None}
    OBVIOUS
  <2>1. i > 1 => i \div 2 \in Cells
    BY DEF Cells
  <2> QED
    BY <2>1
<1> HIDE DEF r, R
<1>12. R \in SUBSET (1 .. m)
  BY DEF R
<1>13. Risen(a, r, key, k, m)
  BY <1>6, <1>7, <1>8, <1>9, <1>10, <1>12 DEF Risen
<1> QED
  BY <1>3, <1>11, <1>13 DEF h

-----------------------------------------------------------------------------
(* The heap.                                                               *)

(* Its elements are different domains.                                     *)
IsHeap(h) ==
  /\ h \in [array : [Cells -> Doms \cup {None}], nelem : Nat]
  /\ h.nelem <= MaxElem
  /\ \A i \in 1 .. h.nelem : h.array[i] \in Doms
  /\ \A i, j \in 1 .. h.nelem : h.array[i] = h.array[j] => i = j

(* No child is before its father.                                          *)
InOrder(h, key) ==
  \A i \in 2 .. h.nelem : key[h.array[i \div 2]] <= key[h.array[i]]

(* There are no more of them than there are domains.                       *)
LEMMA FewElements ==
  ASSUME NEW h, IsHeap(h)
  PROVE  /\ h.nelem <= Cardinality(Doms)
         /\ \A k \in Doms \ Elements(h) : h.nelem < Cardinality(Doms)
<1> DEFINE n == h.nelem
           f == [i \in 1 .. n |-> h.array[i]]
<1>1. IsFiniteSet(Doms) /\ Cardinality(Doms) \in Nat
  BY FS_CardinalityType, TimerAssumption DEF TimerAssumption
<1>2. n \in Nat
  BY DEF IsHeap
<1>3. f \in Injection(1 .. n, Doms)
  BY DEF IsHeap, Injection, IsInjective
<1>4. Cardinality(1 .. n) = n
  BY <1>2, FS_Interval
<1>5. n <= Cardinality(Doms) /\ (n = Cardinality(Doms) => f \in Surjection(1 .. n, Doms))
  BY <1>1, <1>3, <1>4, FS_Injection
<1>6. ASSUME NEW k \in Doms \ Elements(h) PROVE n # Cardinality(Doms)
  <2> SUFFICES ASSUME f \in Surjection(1 .. n, Doms) PROVE FALSE
    BY <1>5
  <2>1. PICK i \in 1 .. n : f[i] = k
    BY DEF Surjection
  <2> QED
    BY <1>6, <2>1 DEF Elements
<1> QED
  BY <1>1, <1>2, <1>5, <1>6

LEMMA FirstIsLeast ==
  ASSUME NEW h, IsHeap(h), NEW key \in [Doms -> Nat], InOrder(h, key)
  PROVE  \A i \in 1 .. h.nelem : key[h.array[1]] <= key[h.array[i]]
<1> DEFINE n == h.nelem
           a == h.array
           Smaller == {i \in 1 .. n : ~(key[a[1]] <= key[a[i]])}
<1>1. n \in Nat /\ \A i \in 1 .. n : key[a[i]] \in Nat
  BY DEF IsHeap
<1>2. \A i \in 2 .. n : key[a[i \div 2]] <= key[a[i]]
  BY DEF InOrder
<1> HIDE DEF n, a
<1>3. Smaller = {}
  <2> SUFFICES ASSUME Smaller # {} PROVE FALSE
    OBVIOUS
  <2>1. Smaller \in SUBSET Nat
    BY <1>1
  <2>2. PICK i \in Smaller : \A j \in Smaller : i <= j
    <3> HIDE DEF Smaller
    <3> QED
      BY <2>1, LeastNat
  <2>3. i \in 2 .. n /\ i \div 2 \in 1 .. n /\ i \div 2 < i /\ 1 \in 1 .. n
    BY <1>1
  <2>4. key[a[1]] <= key[a[i \div 2]] /\ key[a[i \div 2]] <= key[a[i]]
    BY <1>2, <2>2, <2>3
  <2> QED
    BY <1>1, <2>3, <2>4
<1> QED
  BY <1>3 DEF n, a

(* heapify exchanges elements.  Each cell of the path but the first has    *)
(* its contents moved up, and one that nothing moves to gets array[top].   *)
LEMMA PathGoesOn ==
  ASSUME NEW n \in Nat, NEW top \in Nat \ {0}, NEW P \in SUBSET (top .. n),
         \A c \in P \ {top} : /\ c \div 2 \in P
                              /\ \A d \in P : d \div 2 = c \div 2 => d = c
  PROVE  \A i, j \in P : i < j => \E c \in P : c \div 2 = i /\ c <= j
<1> DEFINE Goes(i, j) == \E c \in P : c \div 2 = i /\ c <= j
           Ends == {j \in P : \E i \in P : i < j /\ ~Goes(i, j)}
<1>1. Ends = {}
  <2> SUFFICES ASSUME Ends # {} PROVE FALSE
    OBVIOUS
  <2>1. Ends \in SUBSET Nat
    <3>1. P \subseteq Nat
      OBVIOUS
    <3> QED
      BY <3>1
  <2>2. PICK j \in Ends : \A x \in Ends : j <= x
    <3> HIDE DEF Ends
    <3> QED
      BY <2>1, LeastNat
  <2>3. PICK i \in P : i < j /\ ~Goes(i, j)
    OBVIOUS
  <2>4. /\ j \in P /\ j # top /\ i \in Nat /\ j \in Nat /\ j >= 2 /\ i >= top
        /\ j \div 2 \in P /\ j \div 2 < j /\ j \div 2 \in Nat
    BY <2>3
  <2>5. \A x, y \in P : y < j /\ x < y => Goes(x, y)
    BY <2>2, <2>4
  <2>6. CASE j \div 2 = i
    BY <2>3, <2>4, <2>6
  <2>7. CASE i < j \div 2
    <3>1. Goes(i, j \div 2)
      BY <2>4, <2>5, <2>7
    <3> QED
      BY <2>3, <2>4, <3>1
  <2>8. CASE j \div 2 < i
    <3>1. PICK c \in P : c \div 2 = j \div 2 /\ c <= i
      BY <2>3, <2>4, <2>5, <2>8
    <3>2. c = j
      BY <2>4, <3>1
    <3> QED
      BY <2>3, <2>4, <3>1, <3>2
  <2> QED
    BY <2>4, <2>6, <2>7, <2>8
<1> QED
  BY <1>1

Exchanged(a, r, n) ==
  /\ \A i \in 1 .. n : \E j \in 1 .. n : r[i] = a[j]
  /\ \A i \in 1 .. n : \E j \in 1 .. n : a[i] = r[j]
  /\ (\A i, j \in 1 .. n : a[i] = a[j] => i = j) => \A i, j \in 1 .. n : r[i] = r[j] => i = j

LEMMA SunkSame ==
  ASSUME NEW n \in Nat, NEW top \in 1 .. n + 1, NEW key, NEW a, NEW r, Sunk(a, r, key, top, n)
  PROVE  Exchanged(a, r, n)
<1>1. PICK P \in SUBSET (top .. n) :
        /\ top <= n => top \in P
        /\ \A c \in P \ {top} : /\ c \div 2 \in P /\ r[c \div 2] = a[c]
                                /\ \A d \in 2 .. n : d \div 2 = c \div 2 => (d \in P => d = c)
        /\ \A i \in P : (\A c \in P : c \div 2 # i) => r[i] = a[top]
        /\ \A i \in (1 .. n) \ P : r[i] = a[i]
  BY DEF Sunk
<1> DEFINE From(i, s) ==
             \/ i \notin P /\ s = i
             \/ i \in P /\ s \in P \ {top} /\ s \div 2 = i
             \/ i \in P /\ s = top /\ \A c \in P : c \div 2 # i
<1>2. P \subseteq 1 .. n /\ P \subseteq Nat /\ top \in Nat \ {0}
  OBVIOUS
<1>3. \A c \in P \ {top} : c \in 2 .. n /\ \A d \in P : d \div 2 = c \div 2 => d = c
  <2> SUFFICES ASSUME NEW c \in P \ {top}, NEW d \in P, d \div 2 = c \div 2
               PROVE  c \in 2 .. n /\ d = c
    BY <1>1, <1>2
  <2>1. c \in 2 .. n /\ c \div 2 \in P
    BY <1>1, <1>2
  <2>2. d \in 2 .. n
    BY <1>2, <2>1
  <2> QED
    BY <1>1, <2>1, <2>2
<1>4. \A i, j \in P : i < j => \E c \in P : c \div 2 = i /\ c <= j
  BY <1>1, <1>2, <1>3, PathGoesOn
<1>5. \A c \in P : c > top => c # top /\ c \div 2 # c
  OBVIOUS
<1>6. ASSUME NEW i \in 1 .. n, NEW s, From(i, s)
      PROVE  s \in 1 .. n /\ r[i] = a[s]
  <2>1. CASE i \notin P /\ s = i
    BY <1>1, <2>1
  <2>2. CASE i \in P /\ s \in P \ {top} /\ s \div 2 = i
    BY <1>1, <1>2, <2>2
  <2>3. CASE i \in P /\ s = top /\ \A c \in P : c \div 2 # i
    BY <1>1, <1>2, <2>3
  <2> QED
    BY <1>6, <2>1, <2>2, <2>3
<1>7. ASSUME NEW i \in 1 .. n
      PROVE  \E s : From(i, s)
  <2>1. CASE i \notin P
    BY <2>1
  <2>2. CASE i \in P /\ \A c \in P : c \div 2 # i
    BY <2>2
  <2>3. CASE i \in P /\ \E c \in P : c \div 2 = i
    <3>1. PICK c \in P : c \div 2 = i
      BY <2>3
    <3>2. c # top
      BY <1>2, <2>3, <3>1
    <3> QED
      BY <2>3, <3>1, <3>2
  <2> QED
    BY <2>1, <2>2, <2>3
<1>8. ASSUME NEW i \in 1 .. n, NEW j \in 1 .. n, NEW s, From(i, s), From(j, s)
      PROVE  i = j
  <2>1. CASE i \notin P \/ j \notin P
    <3>1. top <= n => top \in P
      BY <1>1
    <3>2. \A x \in P : top <= n
      BY <1>2
    <3> QED
      BY <1>8, <2>1, <3>1, <3>2
  <2>2. CASE i \in P /\ j \in P /\ s # top
    BY <1>8, <2>2
  <2>3. CASE i \in P /\ j \in P /\ s = top
    <3>1. (\A c \in P : c \div 2 # i) /\ (\A c \in P : c \div 2 # j)
      BY <1>8, <2>3
    <3>2. ~(i < j) /\ ~(j < i)
      BY <1>4, <2>3, <3>1
    <3> QED
      BY <3>2
  <2> QED
    BY <2>1, <2>2, <2>3
<1>9. ASSUME NEW s \in 1 .. n
      PROVE  \E i \in 1 .. n : From(i, s)
  <2>1. CASE s \notin P
    BY <2>1
  <2>2. CASE s \in P /\ s # top
    <3>1. s \div 2 \in P /\ s \div 2 \in 1 .. n
      BY <1>1, <1>2, <2>2
    <3> QED
      BY <2>2, <3>1
  <2>3. CASE s \in P /\ s = top
    <3> DEFINE S == {n - i : i \in P}
    <3>1. S \in SUBSET Nat /\ S # {}
      BY <1>2, <2>3
    <3> HIDE DEF S
    <3>2. PICK x \in S : \A y \in S : x <= y
      BY <3>1, LeastNat
    <3>3. PICK i \in P : x = n - i
      BY DEF S
    <3>4. ASSUME NEW c \in P PROVE c <= i
      <4>1. n - c \in S /\ c \in Nat /\ i \in Nat
        BY <1>2 DEF S
      <4>2. n - i <= n - c
        BY <3>2, <3>3, <4>1
      <4> QED
        BY <4>1, <4>2
    <3>5. \A c \in P : c \div 2 # i
      BY <1>2, <3>3, <3>4
    <3>6. i \in 1 .. n /\ From(i, s)
      BY <1>2, <2>3, <3>3, <3>5
    <3> QED
      BY <3>6
  <2> QED
    BY <2>1, <2>2, <2>3
<1> HIDE DEF From
<1>10. \A i \in 1 .. n : \E j \in 1 .. n : r[i] = a[j]
  BY <1>6, <1>7
<1>11. \A i \in 1 .. n : \E j \in 1 .. n : a[i] = r[j]
  <2> SUFFICES ASSUME NEW s \in 1 .. n PROVE \E i \in 1 .. n : a[s] = r[i]
    OBVIOUS
  <2> QED
    BY <1>6, <1>9
<1>12. ASSUME \A i, j \in 1 .. n : a[i] = a[j] => i = j,
              NEW i \in 1 .. n, NEW j \in 1 .. n, r[i] = r[j]
       PROVE  i = j
  <2>1. PICK s : From(i, s)
    BY <1>7
  <2>2. PICK t : From(j, t)
    BY <1>7
  <2>3. s \in 1 .. n /\ t \in 1 .. n /\ r[i] = a[s] /\ r[j] = a[t]
    BY <1>6, <2>1, <2>2
  <2>4. s = t
    BY <1>12, <2>3
  <2> QED
    BY <1>8, <2>1, <2>2, <2>4
<1> QED
  BY <1>10, <1>11, <1>12 DEF Exchanged

(* ... and brings a heap that is in order but for array[top] into order.   *)
NearlyInOrder(a, key, top, n) ==
  /\ \A i \in 2 .. n : i \div 2 # top => key[a[i \div 2]] <= key[a[i]]
  /\ \A i \in 2 .. n : i \div 2 = top /\ top > 1 => key[a[top \div 2]] <= key[a[i]]

LEMMA SunkInOrder ==
  ASSUME NEW n \in Nat, NEW top \in 1 .. n + 1, NEW key, NEW a,
         NearlyInOrder(a, key, top, n),
         NEW r, Sunk(a, r, key, top, n)
  PROVE  InOrder([array |-> r, nelem |-> n], key)
<1> SUFFICES ASSUME NEW j \in 2 .. n PROVE key[r[j \div 2]] <= key[r[j]]
  BY DEF InOrder
<1>1. PICK P \in SUBSET (top .. n) :
        /\ top <= n => top \in P
        /\ \A c \in P \ {top} :
             /\ c \div 2 \in P /\ key[a[c]] <= key[a[top]]
             /\ \A d \in 2 .. n : d \div 2 = c \div 2 => key[a[c]] <= key[a[d]]
             /\ r[c \div 2] = a[c]
        /\ \A i \in P : (\A c \in P : c \div 2 # i) =>
             /\ r[i] = a[top]
             /\ \A d \in 2 .. n : d \div 2 = i => key[a[top]] <= key[a[d]]
        /\ \A i \in (1 .. n) \ P : r[i] = a[i]
  BY DEF Sunk
<1>2. /\ \A i \in 2 .. n : i \div 2 # top => key[a[i \div 2]] <= key[a[i]]
      /\ \A i \in 2 .. n : i \div 2 = top /\ top > 1 => key[a[top \div 2]] <= key[a[i]]
  BY DEF NearlyInOrder
<1>3. /\ j \in 1 .. n /\ j \div 2 \in 1 .. n /\ j \div 2 < j /\ top \in Nat \ {0}
      /\ P \subseteq 1 .. n /\ \A i \in P : top <= i
  OBVIOUS
<1>4. \A i \in P, c \in P : c \div 2 = i => c \in P \ {top} /\ c \in 2 .. n
  BY <1>3
<1>5. CASE j \in P /\ j # top
  <2>1. j \div 2 # top \/ j \div 2 = top
    OBVIOUS
  <2>2. r[j \div 2] = a[j] /\ key[a[j]] <= key[a[top]]
    BY <1>1, <1>5
  <2>3. CASE \A c \in P : c \div 2 # j
    BY <1>1, <1>5, <2>2, <2>3
  <2>4. ASSUME NEW c \in P, c \div 2 = j PROVE key[r[j \div 2]] <= key[r[j]]
    <3>1. c \in P \ {top} /\ c \in 2 .. n
      BY <1>4, <1>5, <2>4
    <3>2. r[j] = a[c] /\ key[a[j]] <= key[a[c]]
      BY <1>1, <1>2, <1>5, <2>4, <3>1
    <3> QED
      BY <2>2, <3>2
  <2> QED
    BY <2>3, <2>4
<1>6. CASE j \in P /\ j = top
  <2>1. j \div 2 \notin P /\ top > 1 /\ top \in 2 .. n /\ top \div 2 # top
    BY <1>3, <1>6
  <2>2. r[j \div 2] = a[top \div 2]
    BY <1>1, <1>3, <1>6, <2>1
  <2>3. CASE \A c \in P : c \div 2 # j
    BY <1>1, <1>2, <1>6, <2>1, <2>2, <2>3
  <2>4. ASSUME NEW c \in P, c \div 2 = j PROVE key[r[j \div 2]] <= key[r[j]]
    <3>1. c \in P \ {top} /\ c \in 2 .. n
      BY <1>4, <1>6, <2>4
    <3>2. r[j] = a[c] /\ key[a[top \div 2]] <= key[a[c]]
      BY <1>1, <1>2, <1>6, <2>1, <2>4, <3>1
    <3> QED
      BY <2>2, <3>2
  <2> QED
    BY <2>3, <2>4
<1>7. CASE j \notin P /\ j \div 2 \in P
  <2>1. r[j] = a[j]
    BY <1>1, <1>3, <1>7
  <2>2. CASE \A c \in P : c \div 2 # j \div 2
    BY <1>1, <1>7, <2>1, <2>2
  <2>3. ASSUME NEW c \in P, c \div 2 = j \div 2 PROVE key[r[j \div 2]] <= key[r[j]]
    <3>1. c \in P \ {top}
      BY <1>4, <1>7, <2>3
    <3> QED
      BY <1>1, <2>1, <2>3, <3>1
  <2> QED
    BY <2>2, <2>3
<1>8. CASE j \notin P /\ j \div 2 \notin P
  <2>1. r[j] = a[j] /\ r[j \div 2] = a[j \div 2]
    BY <1>1, <1>3, <1>8
  <2>2. j \div 2 # top
    BY <1>1, <1>3, <1>8
  <2> QED
    BY <1>2, <2>1, <2>2
<1> QED
  BY <1>5, <1>6, <1>7, <1>8

LEMMA Replaced ==
  ASSUME NEW b, NEW m, NEW i, NEW v
  PROVE  [Put([array |-> b, nelem |-> m], i, v) EXCEPT !.nelem = @ - 1] =
           [array |-> [b EXCEPT ![i] = v], nelem |-> m - 1]
<1> DEFINE p == [array |-> [b EXCEPT ![i] = v], nelem |-> m]
<1>1. Put([array |-> b, nelem |-> m], i, v) = p
  BY DEF Put
<1>2. [p EXCEPT !.nelem = @ - 1] = [array |-> [b EXCEPT ![i] = v], nelem |-> m - 1]
  <2>1. p.nelem = m
    OBVIOUS
  <2>2. [p EXCEPT !.nelem = m - 1] = [array |-> [b EXCEPT ![i] = v], nelem |-> m - 1]
    OBVIOUS
  <2> QED
    BY <2>1, <2>2
<1> QED
  BY <1>1, <1>2

(* The last element takes the place of array[i].                           *)
LEMMA TakenOut ==
  ASSUME NEW h, IsHeap(h), NEW key \in [Doms -> Nat],
         NEW i \in 1 .. h.nelem,
         NEW g, g = Heapify([Put(h, i, h.array[h.nelem]) EXCEPT !.nelem = @ - 1], key, i)
  PROVE  /\ IsHeap(g)
         /\ Elements(g) = Elements(h) \ {h.array[i]}
         /\ InOrder(h, key) /\ (i > 1 => key[h.array[i \div 2]] <= key[h.array[h.nelem]]) => InOrder(g, key)
<1> DEFINE m == h.nelem
           n == m - 1
           b == h.array
           a == [b EXCEPT ![i] = b[m]]
<1>1. /\ m \in Nat /\ m >= 1 /\ n \in Nat /\ m = n + 1 /\ i \in 1 .. n + 1
      /\ MaxElem \in Nat /\ m <= MaxElem
  BY TimerAssumption DEF TimerAssumption, IsHeap
<1>2. /\ b \in [Cells -> Doms \cup {None}] /\ DOMAIN b = Cells
      /\ \A j \in 1 .. m : b[j] \in Doms
      /\ \A j, k \in 1 .. m : b[j] = b[k] => j = k
      /\ h = [array |-> b, nelem |-> m]
  <2>1. /\ b \in [Cells -> Doms \cup {None}]
        /\ h = [array |-> b, nelem |-> m]
    BY DEF IsHeap
  <2>2. /\ \A j \in 1 .. m : b[j] \in Doms
        /\ \A j, k \in 1 .. m : b[j] = b[k] => j = k
    BY DEF IsHeap
  <2> QED
    BY <2>1, <2>2
<1>3. InOrder(h, key) => \A j \in 2 .. m : key[b[j \div 2]] <= key[b[j]]
  BY DEF InOrder
<1>4. [Put(h, i, h.array[h.nelem]) EXCEPT !.nelem = @ - 1] = [array |-> a, nelem |-> n]
  <2>1. h = [array |-> h.array, nelem |-> h.nelem]
    BY <1>2
  <2>2. [Put([array |-> h.array, nelem |-> h.nelem], i, h.array[h.nelem]) EXCEPT !.nelem = @ - 1] =
          [array |-> [h.array EXCEPT ![i] = h.array[h.nelem]], nelem |-> h.nelem - 1]
    BY Replaced
  <2> QED
    BY <2>1, <2>2, Zenon
<1>5. h.array = b /\ h.nelem = m
  OBVIOUS
<1> HIDE DEF m, n, b
<1>6. \A j \in 1 .. m : j \in Cells
  BY <1>1 DEF Cells
<1>7. /\ a \in [Cells -> Doms \cup {None}]
      /\ a[i] = b[m] /\ \A j \in 1 .. n + 1 : j # i => a[j] = b[j]
      /\ \A j \in 1 .. n + 1 : a[j] \in Doms /\ key[a[j]] \in Nat /\ b[j] \in Doms /\ key[b[j]] \in Nat
      /\ a[n + 1] = a[i]
  BY <1>1, <1>2, <1>6 DEF a
<1> HIDE DEF a
<1>8. PICK r \in [Cells -> Doms \cup {None}] : g = [array |-> r, nelem |-> n] /\ Sunk(a, r, key, i, n)
  BY <1>1, <1>4, <1>7, HeapifySinks
<1>9. \A j, k \in 1 .. n : a[j] = a[k] => j = k
  BY <1>1, <1>2, <1>7, <1>6
<1>10. /\ \A j \in 1 .. n : \E k \in 1 .. n : r[j] = a[k]
       /\ \A j \in 1 .. n : \E k \in 1 .. n : a[j] = r[k]
       /\ \A j, k \in 1 .. n : r[j] = r[k] => j = k
  <2>1. Exchanged(a, r, n)
    BY <1>1, <1>8, SunkSame
  <2> QED
    BY <1>9, <2>1 DEF Exchanged
<1>11. IsHeap(g)
  <2>1. g \in [array : [Cells -> Doms \cup {None}], nelem : Nat]
    BY <1>1, <1>8
  <2>2. g.nelem = n /\ g.array = r
    BY <1>8
  <2>3. n <= MaxElem
    BY <1>1
  <2>4. \A j \in 1 .. n : r[j] \in Doms
    <3>1. \A j \in 1 .. n : a[j] \in Doms
      BY <1>1, <1>7
    <3> QED
      BY <1>10, <3>1
  <2>5. \A j \in 1 .. g.nelem : g.array[j] \in Doms
    BY <2>2, <2>4
  <2>6. \A j, k \in 1 .. g.nelem : g.array[j] = g.array[k] => j = k
    BY <1>10, <2>2
  <2>7. g.nelem <= MaxElem
    BY <2>2, <2>3
  <2> QED
    BY <2>1, <2>5, <2>6, <2>7 DEF IsHeap
<1>12. Elements(g) = Elements(h) \ {b[i]}
  <2>1. Elements(g) = {r[j] : j \in 1 .. n} /\ Elements(h) = {b[j] : j \in 1 .. m}
    BY <1>2, <1>8 DEF Elements
  <2>2. {r[j] : j \in 1 .. n} = {a[j] : j \in 1 .. n}
    BY <1>10
  <2>3. {a[j] : j \in 1 .. n} = {b[j] : j \in 1 .. m} \ {b[i]}
    <3>1. ASSUME NEW j \in 1 .. n PROVE a[j] \in {b[k] : k \in 1 .. m} \ {b[i]}
      BY <1>1, <1>2, <1>7, <1>6
    <3>2. ASSUME NEW k \in 1 .. m, b[k] # b[i] PROVE \E j \in 1 .. n : a[j] = b[k]
      <4>1. CASE k = m
        <5>1. i \in 1 .. n
          BY <1>1, <3>2, <4>1
        <5> QED
          BY <1>7, <4>1, <5>1
      <4>2. CASE k # m
        BY <1>1, <1>7, <3>2, <4>2
      <4> QED
        BY <4>1, <4>2
    <3> QED
      BY <3>1, <3>2
  <2> QED
    BY <2>1, <2>2, <2>3
<1>13. ASSUME InOrder(h, key), i > 1 => key[b[i \div 2]] <= key[b[m]]
       PROVE  InOrder(g, key)
  <2>1. \A j \in 2 .. m : key[b[j \div 2]] <= key[b[j]]
    BY <1>3, <1>13
  <2>2. ASSUME NEW j \in 2 .. n, j \div 2 # i PROVE key[a[j \div 2]] <= key[a[j]]
    <3>1. j \in 2 .. m /\ j \div 2 \in 1 .. n + 1 /\ j \in 1 .. n + 1 /\ a[j \div 2] = b[j \div 2]
      BY <1>1, <1>7, <2>2
    <3>2. CASE j # i
      BY <1>7, <2>1, <3>1, <3>2
    <3>3. CASE j = i
      BY <1>1, <1>7, <1>13, <3>1, <3>3
    <3> QED
      BY <3>2, <3>3
  <2>3. ASSUME NEW j \in 2 .. n, j \div 2 = i, i > 1 PROVE key[a[i \div 2]] <= key[a[j]]
    <3>1. i \in 2 .. m /\ j \in 2 .. m /\ i \div 2 \in 1 .. n + 1 /\ i \div 2 # i /\ j # i /\ j \in 1 .. n + 1
      BY <1>1, <2>3
    <3>2. key[b[i \div 2]] <= key[b[i]] /\ key[b[i]] <= key[b[j]]
      BY <2>1, <2>3, <3>1
    <3>3. a[i \div 2] = b[i \div 2] /\ a[j] = b[j]
      BY <1>7, <3>1
    <3>4. key[b[i]] \in Nat /\ key[b[j]] \in Nat /\ key[b[i \div 2]] \in Nat
      <4>1. i \in 1 .. n + 1
        BY <1>1
      <4>2. \A x \in 1 .. n + 1 : key[b[x]] \in Nat
        BY <1>7
      <4> QED
        BY <3>1, <4>1, <4>2
    <3>5. key[b[i \div 2]] <= key[b[j]]
      BY <3>2, <3>4
    <3> QED
      BY <3>3, <3>5
  <2>4. NearlyInOrder(a, key, i, n)
    BY <2>2, <2>3 DEF NearlyInOrder
  <2>5. InOrder([array |-> r, nelem |-> n], key)
    BY <1>1, <1>8, <2>4, SunkInOrder
  <2> QED
    BY <1>8, <2>5
<1> QED
  BY <1>5, <1>11, <1>12, <1>13

(* HEAP_remove_min.                                                        *)
LEMMA RemoveMinKeeps ==
  ASSUME NEW h, IsHeap(h), NEW key \in [Doms -> Nat], h.nelem > 0
  PROVE  /\ IsHeap(RemoveMin(h, key))
         /\ Elements(RemoveMin(h, key)) = Elements(h) \ {h.array[1]}
         /\ InOrder(h, key) => InOrder(RemoveMin(h, key), key)
<1>1. 1 \in 1 .. h.nelem /\ ~(1 > 1)
  BY DEF IsHeap
<1>2. RemoveMin(h, key) = Heapify([Put(h, 1, h.array[h.nelem]) EXCEPT !.nelem = @ - 1], key, 1)
  BY DEF RemoveMin
<1> DEFINE g == RemoveMin(h, key)
<1> HIDE DEF g
<1>3. /\ IsHeap(g) /\ Elements(g) = Elements(h) \ {h.array[1]}
      /\ InOrder(h, key) => InOrder(g, key)
  BY <1>1, <1>2, TakenOut DEF g
<1> QED
  BY <1>3 DEF g

(* HEAP_remove_element.                                                    *)
LEMMA RemoveElementKeeps ==
  ASSUME NEW h, IsHeap(h), NEW key \in [Doms -> Nat], NEW k
  PROVE  /\ IsHeap(RemoveElement(h, key, k))
         /\ Elements(RemoveElement(h, key, k)) = Elements(h) \ {k}
         /\ InOrder(h, key) /\ ~Misplaces(h, key, k) => InOrder(RemoveElement(h, key, k), key)
<1>1. CASE k \notin Elements(h)
  BY <1>1 DEF RemoveElement
<1>2. CASE k \in Elements(h) /\ h.nelem = 1
  <2> DEFINE g == [Put(h, 1, None) EXCEPT !.nelem = 0]
  <2>1. RemoveElement(h, key, k) = g
    BY <1>2 DEF RemoveElement
  <2>2. Elements(h) = {k}
    <3>1. 1 .. h.nelem = {1}
      BY <1>2
    <3> QED
      BY <1>2, <3>1 DEF Elements
  <2>3. g = [array |-> [h.array EXCEPT ![1] = None], nelem |-> 0]
    <3>1. h = [array |-> h.array, nelem |-> h.nelem]
      BY DEF IsHeap
    <3>2. Put([array |-> h.array, nelem |-> h.nelem], 1, None) =
            [array |-> [h.array EXCEPT ![1] = None], nelem |-> h.nelem]
      BY DEF Put
    <3> QED
      BY <3>1, <3>2
  <2>4. [h.array EXCEPT ![1] = None] \in [Cells -> Doms \cup {None}]
    BY DEF IsHeap
  <2> HIDE DEF g
  <2>5. g.nelem = 0 /\ 1 .. g.nelem = {} /\ 2 .. g.nelem = {} /\ g.nelem <= MaxElem
    BY <2>3, TimerAssumption DEF TimerAssumption
  <2>6. IsHeap(g)
    BY <2>3, <2>4, <2>5 DEF IsHeap
  <2>7. InOrder(g, key)
    BY <2>5 DEF InOrder
  <2>8. Elements(g) = {}
    BY <2>5 DEF Elements
  <2> QED
    BY <2>1, <2>2, <2>6, <2>7, <2>8
<1>3. CASE k \in Elements(h) /\ h.nelem # 1
  <2> DEFINE i == CHOOSE j \in 1 .. h.nelem : h.array[j] = k
             g == RemoveElement(h, key, k)
  <2>1. i \in 1 .. h.nelem /\ h.array[i] = k
    BY <1>3 DEF Elements
  <2>2. g = Heapify([Put(h, i, h.array[h.nelem]) EXCEPT !.nelem = @ - 1], key, i)
    BY <1>3 DEF RemoveElement
  <2> HIDE DEF i, g
  <2>3. /\ IsHeap(g) /\ Elements(g) = Elements(h) \ {k}
        /\ InOrder(h, key) /\ (i > 1 => key[h.array[i \div 2]] <= key[h.array[h.nelem]]) => InOrder(g, key)
    BY <2>1, <2>2, TakenOut
  <2>4. ASSUME i > 1, ~Misplaces(h, key, k)
        PROVE  key[h.array[i \div 2]] <= key[h.array[h.nelem]]
    <3>1. i \in 2 .. h.nelem /\ i \div 2 \in 1 .. h.nelem /\ h.nelem \in 1 .. h.nelem
      BY <2>1, <2>4 DEF IsHeap
    <3>2. ~(key[h.array[h.nelem]] < key[h.array[i \div 2]])
      BY <2>1, <2>4, <3>1 DEF Misplaces
    <3>3. h.array[h.nelem] \in Doms /\ h.array[i \div 2] \in Doms
      BY <3>1 DEF IsHeap
    <3>4. key[h.array[h.nelem]] \in Nat /\ key[h.array[i \div 2]] \in Nat
      BY <3>3
    <3> QED
      BY <3>2, <3>4
  <2>5. ~Misplaces(h, key, k) => (i > 1 => key[h.array[i \div 2]] <= key[h.array[h.nelem]])
    BY <2>4
  <2> QED
    BY <2>3, <2>5 DEF g
<1> QED
  BY <1>1, <1>2, <1>3

(* With no more than five elements, the last one and what it replaces are  *)
(* below the same father, or that father is the root.                      *)
LEMMA FiveStay ==
  ASSUME NEW h, IsHeap(h), NEW key \in [Doms -> Nat], InOrder(h, key), h.nelem <= 5, NEW k
  PROVE  ~Misplaces(h, key, k)
<1> DEFINE n == h.nelem
           b == h.array
<1> SUFFICES ASSUME NEW i \in 2 .. n, key[b[n]] < key[b[i \div 2]] PROVE FALSE
  BY DEF Misplaces
<1>1. n \in 2 .. 5 /\ \A j \in 1 .. n : key[b[j]] \in Nat
  BY DEF IsHeap
<1>2. \A j \in 2 .. n : key[b[j \div 2]] <= key[b[j]]
  BY DEF InOrder
<1>3. \A j \in 1 .. n : key[b[1]] <= key[b[j]]
  BY FirstIsLeast
<1> HIDE DEF n, b
<1>4. n \in 1 .. n /\ n \in 2 .. n /\ i \div 2 \in 1 .. n
  BY <1>1
<1>5. i \div 2 = 1 \/ i \div 2 = n \div 2
  <2>1. i \in 2 .. 3 => i \div 2 = 1
    OBVIOUS
  <2>2. i \in 4 .. 5 => i \div 2 = 2 /\ n \div 2 = 2
    <3>1. i \in 4 .. 5 => n = 4 \/ n = 5
      BY <1>1
    <3>2. (n = 4 \/ n = 5) => n \div 2 = 2
      OBVIOUS
    <3>3. i \in 4 .. 5 => i \div 2 = 2
      OBVIOUS
    <3> QED
      BY <3>1, <3>2, <3>3
  <2>3. i \in 2 .. 3 \/ i \in 4 .. 5
    BY <1>1
  <2> QED
    BY <2>1, <2>2, <2>3
<1>6. key[b[i \div 2]] <= key[b[n]]
  BY <1>2, <1>3, <1>4, <1>5
<1> QED
  BY <1>1, <1>4, <1>6

(* HEAP_insert adds k ...                                                  *)
LEMMA RisesOn ==
  ASSUME NEW m \in Nat \ {0}, NEW R \in SUBSET (1 .. m),
         \A i \in R \ {m} : \E c \in R : c \div 2 = i
  PROVE  \A i, j \in R : i < j => j \div 2 \in R /\ j \div 2 >= i
<1> DEFINE Goes(i, j) == j \div 2 \in R /\ j \div 2 >= i
           Ends == {i \in R : \E j \in R : i < j /\ ~Goes(i, j)}
           S == {m - i : i \in Ends}
<1>1. R \subseteq Nat /\ \A i \in R : i >= 1 /\ i <= m
  OBVIOUS
<1>2. Ends = {}
  <2> SUFFICES ASSUME Ends # {} PROVE FALSE
    OBVIOUS
  <2>1. S \in SUBSET Nat /\ S # {}
    <3>1. \A i \in Ends : i \in Nat /\ i <= m
      BY <1>1
    <3> HIDE DEF Ends
    <3>2. \A i \in Ends : m - i \in Nat
      BY <3>1
    <3> QED
      BY <3>2
  <2> HIDE DEF S
  <2>2. PICK x \in S : \A y \in S : x <= y
    BY <2>1, LeastNat
  <2>3. PICK i \in Ends : x = m - i
    BY DEF S
  <2>4. i \in R /\ i \in Nat
    BY <1>1
  <2>5. PICK j \in R : i < j /\ ~Goes(i, j)
    OBVIOUS
  <2>6. \A d \in R : i < d => d \notin Ends
    <3> SUFFICES ASSUME NEW d \in R, i < d, d \in Ends PROVE FALSE
      OBVIOUS
    <3>1. m - i <= m - d /\ d \in Nat
      BY <1>1, <2>2, <2>3 DEF S
    <3> QED
      BY <2>4, <3>1
  <2>7. \A d, e \in R : i < d /\ d < e => Goes(d, e)
    BY <2>6
  <2>8. i # m
    BY <1>1, <2>4, <2>5
  <2>9. PICK c \in R : c \div 2 = i
    BY <2>4, <2>8
  <2>10. c > i /\ c \in Nat /\ j \in Nat /\ j \div 2 \in Nat
    BY <1>1, <2>9
  <2>11. CASE j = c
    BY <2>4, <2>5, <2>9, <2>11
  <2>12. CASE c < j
    <3>1. Goes(c, j)
      BY <2>7, <2>10, <2>12
    <3> QED
      BY <2>4, <2>5, <2>10, <3>1
  <2>13. CASE j < c
    <3>1. c \div 2 >= j
      BY <2>5, <2>7, <2>13
    <3> QED
      BY <2>4, <2>5, <2>9, <2>10, <3>1
  <2> QED
    BY <2>10, <2>11, <2>12, <2>13
<1> QED
  BY <1>2

Added(a, r, k, m) ==
  /\ \A i \in 1 .. m : r[i] = k \/ \E j \in 1 .. m - 1 : r[i] = a[j]
  /\ \A j \in 1 .. m - 1 : \E i \in 1 .. m : r[i] = a[j]
  /\ \E i \in 1 .. m : r[i] = k
  /\ \A i, j \in 1 .. m : r[i] = r[j] => i = j

LEMMA RisenAdded ==
  ASSUME NEW m \in Nat \ {0}, NEW k, NEW key, NEW a, NEW r,
         \A i \in 1 .. m - 1 : a[i] # k,
         \A i, j \in 1 .. m - 1 : a[i] = a[j] => i = j,
         Risen(a, r, key, k, m)
  PROVE  Added(a, r, k, m)
<1>1. PICK R \in SUBSET (1 .. m) :
        /\ m \in R
        /\ \A i \in R \ {m} : \E c \in R : c \div 2 = i
        /\ \A i \in R : i \div 2 \in R => r[i] = a[i \div 2]
        /\ \A i \in R : i \div 2 \notin R => r[i] = k
        /\ \A i \in (1 .. m) \ R : r[i] = a[i]
  BY DEF Risen
<1>2. /\ R \subseteq 1 .. m /\ R \subseteq Nat
      /\ \A i \in R : i \div 2 \in R => i \div 2 \in 1 .. m - 1
      /\ \A i \in (1 .. m) \ R : i \in 1 .. m - 1
  <2>1. R \subseteq 1 .. m /\ R \subseteq Nat
    OBVIOUS
  <2>2. \A i \in R : i \div 2 \in R => i \div 2 \in 1 .. m - 1
    BY <2>1
  <2>3. \A i \in (1 .. m) \ R : i \in 1 .. m - 1
    BY <1>1
  <2> QED
    BY <2>1, <2>2, <2>3
<1>3. \A i, j \in R : i < j => j \div 2 \in R /\ j \div 2 >= i
  BY <1>1, RisesOn
(* Two cells have not got the same.                                        *)
<1>4. ASSUME NEW i \in 1 .. m, NEW j \in 1 .. m, i < j PROVE r[i] # r[j]
  <2>1. CASE i \in R /\ j \in R
    <3>1. j \div 2 \in R /\ j \div 2 >= i /\ r[j] = a[j \div 2] /\ j \div 2 \in 1 .. m - 1
      BY <1>1, <1>2, <1>3, <1>4, <2>1
    <3>2. CASE i \div 2 \in R
      <4>1. r[i] = a[i \div 2] /\ i \div 2 \in 1 .. m - 1 /\ i \div 2 # j \div 2
        BY <1>1, <1>2, <2>1, <3>1, <3>2
      <4> QED
        BY <3>1, <4>1
    <3>3. CASE i \div 2 \notin R
      BY <1>1, <2>1, <3>1, <3>3
    <3> QED
      BY <3>2, <3>3
  <2>2. ASSUME NEW x \in R, NEW y \in (1 .. m) \ R PROVE r[x] # r[y]
    <3>1. r[y] = a[y] /\ y \in 1 .. m - 1
      BY <1>1, <1>2
    <3>2. CASE x \div 2 \in R
      <4>1. r[x] = a[x \div 2] /\ x \div 2 \in 1 .. m - 1 /\ x \div 2 # y
        BY <1>1, <1>2, <3>2
      <4> QED
        BY <3>1, <4>1
    <3>3. CASE x \div 2 \notin R
      BY <1>1, <3>1, <3>3
    <3> QED
      BY <3>2, <3>3
  <2>3. CASE i \notin R /\ j \notin R
    <3>1. r[i] = a[i] /\ r[j] = a[j] /\ i \in 1 .. m - 1 /\ j \in 1 .. m - 1 /\ i # j
      BY <1>1, <1>2, <1>4, <2>3
    <3> QED
      BY <3>1
  <2> QED
    BY <2>1, <2>2, <2>3
<1>5. \A i, j \in 1 .. m : r[i] = r[j] => i = j
  <2> SUFFICES ASSUME NEW i \in 1 .. m, NEW j \in 1 .. m, r[i] = r[j] PROVE i = j
    OBVIOUS
  <2>1. ~(i < j) /\ ~(j < i)
    BY <1>4
  <2> QED
    BY <2>1
<1>6. ASSUME NEW i \in 1 .. m PROVE r[i] = k \/ \E j \in 1 .. m - 1 : r[i] = a[j]
  <2>1. CASE i \in R
    BY <1>1, <1>2, <2>1
  <2>2. CASE i \notin R
    BY <1>1, <1>2, <2>2
  <2> QED
    BY <2>1, <2>2
<1>7. ASSUME NEW j \in 1 .. m - 1 PROVE \E i \in 1 .. m : r[i] = a[j]
  <2>1. j \in 1 .. m /\ j # m
    OBVIOUS
  <2>2. CASE j \notin R
    BY <1>1, <2>1, <2>2
  <2>3. CASE j \in R
    <3>1. PICK c \in R : c \div 2 = j
      BY <1>1, <2>1, <2>3
    <3> QED
      BY <1>1, <1>2, <2>3, <3>1
  <2> QED
    BY <2>2, <2>3
<1>8. \E i \in 1 .. m : r[i] = k
  <2>1. R \in SUBSET Nat /\ R # {}
    BY <1>1, <1>2
  <2>2. PICK i \in R : \A j \in R : i <= j
    BY <2>1, LeastNat
  <2>3. i \in 1 .. m
    BY <1>2
  <2>4. i \div 2 \notin R
    BY <2>2, <2>3
  <2> QED
    BY <1>1, <2>3, <2>4
<1> QED
  BY <1>5, <1>6, <1>7, <1>8 DEF Added

(* ... and keeps the order.                                                *)
LEMMA RisenInOrder ==
  ASSUME NEW m \in Nat \ {0}, NEW key \in [Doms -> Nat], NEW k \in Doms, NEW a, NEW r,
         \A i \in 1 .. m - 1 : a[i] \in Doms,
         \A i \in 2 .. m - 1 : key[a[i \div 2]] <= key[a[i]],
         Risen(a, r, key, k, m)
  PROVE  \A i \in 2 .. m : key[r[i \div 2]] <= key[r[i]]
<1>1. PICK R \in SUBSET (1 .. m) :
        /\ m \in R
        /\ \A i \in R \ {m} : key[k] < key[a[i]]
        /\ \A i \in R : i \div 2 \in R => r[i] = a[i \div 2]
        /\ \A i \in R : i \div 2 \notin R => r[i] = k /\ (i > 1 => key[a[i \div 2]] <= key[k])
        /\ \A i \in (1 .. m) \ R : r[i] = a[i]
  BY DEF Risen
<1>2. key[k] \in Nat /\ \A i \in 1 .. m - 1 : key[a[i]] \in Nat
  OBVIOUS
<1> SUFFICES ASSUME NEW i \in 2 .. m PROVE key[r[i \div 2]] <= key[r[i]]
  OBVIOUS
<1> DEFINE f == i \div 2
<1>3. /\ f \in 1 .. m - 1 /\ f \in 1 .. m /\ f # m /\ i \in 1 .. m /\ i > 1
      /\ (i # m => i \in 2 .. m - 1 /\ i \in 1 .. m - 1)
      /\ (f \div 2 \in R => f \in 2 .. m - 1 /\ f \div 2 \in 1 .. m - 1)
  OBVIOUS
<1>4. i \notin R => i # m /\ r[i] = a[i] /\ key[a[f]] <= key[a[i]]
  BY <1>1, <1>3
(* The father's contents are now no later than they were.                  *)
<1>5. f \in R => key[r[f]] <= key[a[f]]
  <2> SUFFICES ASSUME f \in R PROVE key[r[f]] <= key[a[f]]
    OBVIOUS
  <2>1. CASE f \div 2 \in R
    BY <1>1, <1>3, <2>1
  <2>2. CASE f \div 2 \notin R
    <3>1. r[f] = k /\ key[k] < key[a[f]]
      BY <1>1, <1>3, <2>2
    <3> QED
      BY <1>2, <1>3, <3>1
  <2> QED
    BY <2>1, <2>2
<1>6. f \in R => key[r[f]] \in Nat
  <2>1. CASE f \div 2 \in R
    BY <1>1, <1>2, <1>3, <2>1
  <2>2. CASE f \div 2 \notin R
    BY <1>1, <1>2, <2>2
  <2> QED
    BY <2>1, <2>2
<1> HIDE DEF f
<1>7. CASE i \in R /\ f \in R
  BY <1>1, <1>5, <1>7 DEF f
<1>8. CASE i \in R /\ f \notin R
  <2>1. r[i] = k /\ r[f] = a[f] /\ key[a[f]] <= key[k]
    BY <1>1, <1>3, <1>8 DEF f
  <2> QED
    BY <2>1 DEF f
<1>9. CASE i \notin R /\ f \in R
  <2>1. key[r[f]] <= key[a[f]] /\ key[a[f]] <= key[a[i]] /\ r[i] = a[i] /\ i \in 1 .. m - 1
    BY <1>3, <1>4, <1>5, <1>9
  <2>2. key[r[f]] \in Nat /\ key[a[f]] \in Nat /\ key[a[i]] \in Nat
    BY <1>2, <1>3, <1>6, <1>9, <2>1
  <2>3. key[r[f]] <= key[a[i]]
    BY <2>1, <2>2
  <2> QED
    BY <2>1, <2>3 DEF f
<1>10. CASE i \notin R /\ f \notin R
  <2>1. r[f] = a[f] /\ r[i] = a[i] /\ key[a[f]] <= key[a[i]]
    BY <1>1, <1>3, <1>4, <1>10
  <2> QED
    BY <2>1 DEF f
<1> QED
  BY <1>7, <1>8, <1>9, <1>10

(* HEAP_insert of a domain that is not there.                              *)
LEMMA InsertKeeps ==
  ASSUME NEW h, IsHeap(h), NEW key \in [Doms -> Nat], NEW k \in Doms \ Elements(h)
  PROVE  /\ IsHeap(Insert(h, key, k))
         /\ Elements(Insert(h, key, k)) = Elements(h) \cup {k}
         /\ InOrder(h, key) => InOrder(Insert(h, key, k), key)
<1> DEFINE b == h.array
           n == h.nelem
           m == n + 1
           g == Insert(h, key, k)
<1>1. n \in Nat /\ m \in Nat \ {0} /\ m - 1 = n /\ MaxElem \in Nat /\ m <= MaxElem
  <2>1. n \in Nat /\ n < Cardinality(Doms)
    BY FewElements DEF IsHeap
  <2>2. Cardinality(Doms) \in Nat /\ Cardinality(Doms) < MaxElem /\ MaxElem \in Nat
    BY FS_CardinalityType, TimerAssumption DEF TimerAssumption
  <2> QED
    BY <2>1, <2>2
<1>2. b \in [Cells -> Doms \cup {None}] /\ h = [array |-> b, nelem |-> n]
  BY DEF IsHeap
<1>3. /\ \A i \in 1 .. n : b[i] \in Doms
      /\ \A i, j \in 1 .. n : b[i] = b[j] => i = j
  BY DEF IsHeap
<1>4. \A i \in 1 .. n : b[i] # k
  BY DEF Elements
<1>5. InOrder(h, key) => \A i \in 2 .. n : key[b[i \div 2]] <= key[b[i]]
  BY DEF InOrder
<1>6. Elements(h) = {b[i] : i \in 1 .. n}
  BY DEF Elements
<1> HIDE DEF b, n, m
<1>7. PICK r \in [Cells -> Doms \cup {None}] :
        /\ Insert([array |-> b, nelem |-> m - 1], key, k) = [array |-> r, nelem |-> m]
        /\ Risen(b, r, key, k, m)
  BY <1>1, <1>2, <1>3, <1>4, InsertRises
<1>8. g = [array |-> r, nelem |-> m]
  BY <1>1, <1>2, <1>7
<1> HIDE DEF g
<1>9. Added(b, r, k, m)
  BY <1>1, <1>3, <1>4, <1>7, RisenAdded
<1>10. g.array = r /\ g.nelem = m
  BY <1>8
<1>11. InOrder(h, key) => InOrder(g, key)
  <2> SUFFICES ASSUME InOrder(h, key) PROVE InOrder(g, key)
    OBVIOUS
  <2>1. \A i \in 2 .. m : key[r[i \div 2]] <= key[r[i]]
    BY <1>1, <1>3, <1>5, <1>7, RisenInOrder
  <2> QED
    BY <1>10, <2>1 DEF InOrder
<1>12. IsHeap(g)
  <2>1. g \in [array : [Cells -> Doms \cup {None}], nelem : Nat]
    BY <1>1, <1>8
  <2>2. \A i \in 1 .. g.nelem : g.array[i] \in Doms
    BY <1>1, <1>3, <1>9, <1>10 DEF Added
  <2>3. \A i, j \in 1 .. g.nelem : g.array[i] = g.array[j] => i = j
    BY <1>9, <1>10 DEF Added
  <2>4. g.nelem <= MaxElem
    BY <1>1, <1>10
  <2> QED
    BY <2>1, <2>2, <2>3, <2>4 DEF IsHeap
<1>13. Elements(g) = Elements(h) \cup {k}
  <2>1. Elements(g) = {r[i] : i \in 1 .. m}
    BY <1>10 DEF Elements
  <2>2. {r[i] : i \in 1 .. m} = {b[i] : i \in 1 .. n} \cup {k}
    BY <1>1, <1>9 DEF Added
  <2> QED
    BY <1>6, <2>1, <2>2
<1> QED
  BY <1>11, <1>12, <1>13 DEF g

LEMMA OrderKept ==
  ASSUME NEW h, IsHeap(h), NEW key, InOrder(h, key),
         NEW key2, \A d \in Elements(h) : key2[d] = key[d]
  PROVE  InOrder(h, key2)
<1> SUFFICES ASSUME NEW i \in 2 .. h.nelem
             PROVE  key2[h.array[i \div 2]] <= key2[h.array[i]]
  BY DEF InOrder
<1>1. i \in 1 .. h.nelem /\ i \div 2 \in 1 .. h.nelem
  BY DEF IsHeap
<1>2. h.array[i] \in Elements(h) /\ h.array[i \div 2] \in Elements(h)
  BY <1>1 DEF Elements
<1> QED
  BY <1>2 DEF InOrder

-----------------------------------------------------------------------------
(* The timers.                                                             *)

TimeOK ==
  /\ now \in Nat
  /\ hwtime \in [Doms -> Nat]
  /\ period \in [Doms -> Nat]
  /\ deadline \in Nat \cup {Off}

HeapOK == IsHeap(heap)

(* Outside timer_handler, whoever waits is waited for.                     *)
InTime ==
  ~handling => \A d \in Armed : /\ deadline # Off
                                /\ now <= deadline
                                /\ deadline <= hwtime[d]

Orderly == InOrder(heap, hwtime) /\ InTime

TimerInv == TimeOK /\ HeapOK /\ (misplaced \/ Orderly)

LEMMA Constants ==
  /\ Linux \in Doms /\ None \notin Doms
  /\ LinuxPeriod \in Nat /\ MinInterval \in Nat /\ MaxInterval \in Nat /\ MaxElem \in Nat
  /\ Delays \subseteq Nat /\ Periods \subseteq Nat
BY TimerAssumption DEF TimerAssumption

LEMMA HeapArmed ==
  ASSUME HeapOK
  PROVE  /\ heap.nelem \in Nat /\ Armed \subseteq Doms
         /\ (Least(heap) = None <=> Armed = {})
         /\ Least(heap) # None => /\ heap.nelem > 0 /\ Least(heap) = heap.array[1]
                                  /\ Least(heap) \in Armed
<1>1. heap.nelem \in Nat /\ \A i \in 1 .. heap.nelem : heap.array[i] \in Doms
  BY DEF HeapOK, IsHeap
<1>2. Armed \subseteq Doms
  BY <1>1 DEF Armed, Elements
<1>3. CASE heap.nelem = 0
  <2>1. 1 .. heap.nelem = {} /\ ~(heap.nelem > 0)
    BY <1>3
  <2> QED
    BY <1>1, <1>2, <2>1 DEF Armed, Elements, Least
<1>4. CASE heap.nelem > 0
  <2>1. 1 \in 1 .. heap.nelem
    BY <1>1, <1>4
  <2>2. Least(heap) = heap.array[1] /\ heap.array[1] \in Doms
    BY <1>1, <1>4, <2>1 DEF Least
  <2>3. heap.array[1] \in Armed
    BY <2>1 DEF Armed, Elements
  <2> QED
    BY <1>1, <1>2, <1>4, <2>2, <2>3, Constants
<1> QED
  BY <1>1, <1>3, <1>4

LEMMA FirstOfHeap ==
  ASSUME TimeOK, HeapOK, Orderly
  PROVE  \A d \in Armed : hwtime[heap.array[1]] <= hwtime[d]
BY FirstIsLeast DEF TimeOK, HeapOK, Orderly, Armed, Elements

LEMMA Nothing ==
  /\ IsHeap(EmptyHeap) /\ Elements(EmptyHeap) = {}
  /\ \A key : InOrder(EmptyHeap, key)
<1>1. EmptyHeap.nelem = 0 /\ 1 .. 0 = {} /\ 2 .. 0 = {}
  BY DEF EmptyHeap
<1>2. EmptyHeap \in [array : [Cells -> Doms \cup {None}], nelem : Nat]
  BY DEF EmptyHeap
<1>3. IsHeap(EmptyHeap)
  BY <1>1, <1>2, Constants DEF IsHeap
<1> QED
  BY <1>1, <1>3 DEF InOrder, Elements

LEMMA InitArmed ==
  ASSUME Init
  PROVE  TimeOK /\ HeapOK /\ Armed = {Linux} /\ InOrder(heap, hwtime) /\ ~misplaced
<1>1. TimeOK
  BY Constants DEF Init, TimeOK
<1>2. Linux \in Doms \ Elements(EmptyHeap) /\ hwtime \in [Doms -> Nat]
  BY <1>1, Nothing, Constants DEF TimeOK
<1>3. heap = Insert(EmptyHeap, hwtime, Linux) /\ ~misplaced
  BY DEF Init
<1>4. IsHeap(heap) /\ Elements(heap) = Elements(EmptyHeap) \cup {Linux} /\ InOrder(heap, hwtime)
  BY <1>2, <1>3, Nothing, InsertKeeps
<1> QED
  BY <1>1, <1>3, <1>4, Nothing DEF HeapOK, Armed

LEMMA TimerInit ==
  Init => TimerInv
BY InitArmed DEF TimerInv, Orderly, InTime, Init

LEMMA ExpireStep ==
  ASSUME TimerInv, HandlerExpire
  PROVE  /\ TimerInv'
         /\ \A x \in Armed : x # Least(heap) => x \in Armed' /\ hwtime'[x] = hwtime[x]
<1> DEFINE d == Least(heap)
           rest == RemoveMin(heap, hwtime)
           next == [hwtime EXCEPT ![d] = period[d] + now]
<1>1. /\ d \in Doms /\ d = heap.array[1] /\ heap.nelem > 0
      /\ handling /\ handling' = handling /\ now' = now /\ period' = period /\ deadline' = deadline
      /\ misplaced' = misplaced
      /\ \/ hwtime' = next /\ heap' = Insert(rest, next, d)
         \/ hwtime' = hwtime /\ heap' = rest
  BY HeapArmed DEF TimerInv, HandlerExpire, Expires
<1>2. /\ hwtime \in [Doms -> Nat] /\ period[d] \in Nat /\ now \in Nat
      /\ IsHeap(heap) /\ (misplaced \/ InOrder(heap, hwtime))
  BY <1>1 DEF TimerInv, TimeOK, HeapOK, Orderly
<1>3. /\ IsHeap(rest) /\ Elements(rest) = Elements(heap) \ {d}
      /\ InOrder(heap, hwtime) => InOrder(rest, hwtime)
  BY <1>1, <1>2, RemoveMinKeeps
<1>4. next \in [Doms -> Nat] /\ \A x \in Doms : x # d => next[x] = hwtime[x]
  BY <1>1, <1>2
<1> HIDE DEF rest, next, d
<1>5. \A x \in Elements(rest) : x \in Doms /\ x # d
  BY <1>3, HeapArmed DEF TimerInv, Armed
<1>6. InOrder(heap, hwtime) => InOrder(rest, next)
  BY <1>3, <1>4, <1>5, OrderKept
<1>7. d \in Doms \ Elements(rest)
  BY <1>1, <1>5
<1>8. /\ IsHeap(Insert(rest, next, d)) /\ Elements(Insert(rest, next, d)) = Elements(rest) \cup {d}
      /\ InOrder(rest, next) => InOrder(Insert(rest, next, d), next)
  BY <1>3, <1>4, <1>7, InsertKeeps
<1>9. IsHeap(heap') /\ (misplaced \/ InOrder(heap', hwtime'))
  <2>1. CASE hwtime' = next /\ heap' = Insert(rest, next, d)
    BY <1>2, <1>6, <1>8, <2>1
  <2>2. CASE hwtime' = hwtime /\ heap' = rest
    BY <1>2, <1>3, <2>2
  <2> QED
    BY <1>1, <2>1, <2>2
<1>10. TimeOK'
  BY <1>1, <1>4 DEF TimerInv, TimeOK
<1>11. \A x \in Armed : x # d => x \in Armed' /\ hwtime'[x] = hwtime[x]
  <2> SUFFICES ASSUME NEW x \in Armed, x # d PROVE x \in Armed' /\ hwtime'[x] = hwtime[x]
    OBVIOUS
  <2>1. x \in Elements(rest) /\ x \in Doms
    BY <1>3, <1>5 DEF Armed
  <2>2. CASE hwtime' = next /\ heap' = Insert(rest, next, d)
    BY <1>4, <1>8, <2>1, <2>2 DEF Armed
  <2>3. CASE hwtime' = hwtime /\ heap' = rest
    BY <2>1, <2>3 DEF Armed
  <2> QED
    BY <1>1, <2>2, <2>3
<1>12. TimerInv'
  <2>1. HeapOK' /\ InTime'
    BY <1>1, <1>9 DEF HeapOK, InTime
  <2> QED
    BY <1>1, <1>9, <1>10, <2>1 DEF TimerInv, Orderly
<1> QED
  BY <1>11, <1>12 DEF d

(* Who is in the heap after an expiry was there before.                    *)
LEMMA ExpireArmed ==
  ASSUME TimerInv, HandlerExpire
  PROVE  Armed' \subseteq Armed /\ misplaced' = misplaced
<1> DEFINE d == Least(heap)
           rest == RemoveMin(heap, hwtime)
           next == [hwtime EXCEPT ![d] = period[d] + now]
<1>1. /\ d \in Armed /\ d \in Doms /\ d = heap.array[1] /\ heap.nelem > 0 /\ misplaced' = misplaced
      /\ (heap' = Insert(rest, next, d) \/ heap' = rest)
  BY HeapArmed DEF TimerInv, HandlerExpire, Expires
<1>2. /\ IsHeap(heap) /\ hwtime \in [Doms -> Nat] /\ next \in [Doms -> Nat]
  BY <1>1 DEF TimerInv, TimeOK, HeapOK
<1>3. IsHeap(rest) /\ Elements(rest) = Armed \ {d}
  BY <1>1, <1>2, RemoveMinKeeps DEF Armed
<1> HIDE DEF rest, next, d
<1>4. d \in Doms \ Elements(rest)
  BY <1>1, <1>3
<1>5. Elements(Insert(rest, next, d)) = Elements(rest) \cup {d}
  BY <1>2, <1>3, <1>4, InsertKeeps
<1>6. Armed' \subseteq Armed
  BY <1>1, <1>3, <1>5 DEF Armed
<1> QED
  BY <1>1, <1>6

LEMMA ProgramStep ==
  ASSUME TimerInv, HandlerProgram
  PROVE  TimerInv'
<1> DEFINE d == Least(heap)
<1>1. /\ ~Expires(d) /\ heap' = heap /\ hwtime' = hwtime /\ now' = now /\ period' = period
      /\ misplaced' = misplaced
      /\ deadline' = IF d = None THEN deadline
                     ELSE IF hwtime[d] - now < MaxInterval THEN hwtime[d]
                     ELSE now + MaxInterval
  BY DEF HandlerProgram
<1>2. now \in Nat /\ hwtime \in [Doms -> Nat] /\ deadline \in Nat \cup {Off}
  BY DEF TimerInv, TimeOK
<1>3. Armed' = Armed /\ HeapOK' /\ (InOrder(heap', hwtime') <=> InOrder(heap, hwtime))
  BY <1>1 DEF TimerInv, HeapOK, Armed
<1>4. d # None => d \in Doms /\ hwtime[d] \in Nat
  BY <1>2, HeapArmed DEF TimerInv
<1>5. TimeOK'
  <2>1. deadline' \in Nat \cup {Off}
    BY <1>1, <1>2, <1>4, Constants
  <2> QED
    BY <1>1, <1>2, <2>1 DEF TimerInv, TimeOK
<1>6. ASSUME Orderly PROVE InTime'
  <2>1. CASE d = None
    <3>1. Armed = {}
      BY <2>1, HeapArmed DEF TimerInv
    <3> QED
      BY <1>3, <3>1 DEF InTime
  <2>2. CASE d # None
    <3>1. d = heap.array[1] /\ \A x \in Armed : hwtime[d] <= hwtime[x] /\ hwtime[x] \in Nat
      BY <1>2, <1>6, <2>2, HeapArmed, FirstOfHeap DEF TimerInv
    <3> HIDE DEF d
    <3>2. now + MinInterval < hwtime[d]
      BY <1>1, <1>2, <1>4, <2>2, Constants DEF Expires
    <3>3. deadline' \in Nat /\ now <= deadline' /\ deadline' <= hwtime[d]
      BY <1>1, <1>2, <1>4, <2>2, <3>2, Constants
    <3>4. deadline' # Off
      BY <3>3 DEF Off
    <3>5. \A x \in Armed : deadline' <= hwtime[x]
      BY <1>4, <2>2, <3>1, <3>3
    <3> QED
      BY <1>1, <1>3, <3>3, <3>4, <3>5 DEF InTime
  <2> QED
    BY <2>1, <2>2
<1> QED
  BY <1>1, <1>3, <1>5, <1>6 DEF TimerInv, Orderly

LEMMA SetStep ==
  ASSUME TimerInv, NEW d \in Doms, NEW delay \in Nat, NEW every \in Nat,
         SetTimer(d, delay, every)
  PROVE  TimerInv' /\ Armed' = Armed \cup {d} /\ hwtime'[d] = delay + now
<1> DEFINE expiry == [hwtime EXCEPT ![d] = delay + now]
           rest == RemoveElement(heap, hwtime, d)
<1>1. /\ hwtime' = expiry /\ heap' = Insert(rest, expiry, d)
      /\ period' = [period EXCEPT ![d] = every] /\ handling' /\ now' = now /\ deadline' = deadline
      /\ misplaced' = (misplaced \/ Misplaces(heap, hwtime, d))
  BY DEF SetTimer
<1>2. /\ hwtime \in [Doms -> Nat] /\ now \in Nat /\ delay \in Nat /\ every \in Nat
      /\ IsHeap(heap)
  BY Constants DEF TimerInv, TimeOK, HeapOK
<1>3. /\ IsHeap(rest) /\ Elements(rest) = Elements(heap) \ {d}
      /\ InOrder(heap, hwtime) /\ ~Misplaces(heap, hwtime, d) => InOrder(rest, hwtime)
  BY <1>2, RemoveElementKeeps
<1>4. expiry \in [Doms -> Nat] /\ \A x \in Doms : x # d => expiry[x] = hwtime[x]
  BY <1>2
<1>5. TimeOK'
  BY <1>1, <1>2, <1>4 DEF TimerInv, TimeOK
<1> HIDE DEF rest, expiry
<1>6. d \in Doms \ Elements(rest) /\ \A x \in Elements(rest) : x \in Doms /\ x # d
  BY <1>3, HeapArmed DEF TimerInv, Armed
<1>7. InOrder(rest, hwtime) => InOrder(rest, expiry)
  BY <1>3, <1>4, <1>6, OrderKept
<1>8. /\ IsHeap(heap') /\ Elements(heap') = Elements(rest) \cup {d}
      /\ InOrder(rest, expiry) => InOrder(heap', expiry)
  BY <1>1, <1>3, <1>4, <1>6, InsertKeeps
<1>9. HeapOK' /\ Armed' = Armed \cup {d}
  BY <1>3, <1>8 DEF HeapOK, Armed
<1>10. ~misplaced' => Orderly'
  <2> SUFFICES ASSUME ~misplaced' PROVE Orderly'
    OBVIOUS
  <2>1. ~misplaced /\ ~Misplaces(heap, hwtime, d)
    BY <1>1
  <2>2. InOrder(heap', hwtime')
    BY <1>1, <1>3, <1>7, <1>8, <2>1 DEF TimerInv, Orderly
  <2> QED
    BY <1>1, <2>2 DEF Orderly, InTime
<1>11. hwtime'[d] = delay + now
  BY <1>1, <1>2 DEF expiry
<1> QED
  BY <1>5, <1>9, <1>10, <1>11 DEF TimerInv

LEMMA RemoveStep ==
  ASSUME TimerInv, NEW d \in Doms, RemoveTimer(d)
  PROVE  TimerInv'
<1>1. /\ heap' = RemoveElement(heap, hwtime, d)
      /\ misplaced' = (misplaced \/ Misplaces(heap, hwtime, d))
      /\ UNCHANGED <<now, hwtime, period, deadline, handling>>
  BY DEF RemoveTimer
<1>2. /\ IsHeap(heap') /\ Elements(heap') = Elements(heap) \ {d}
      /\ InOrder(heap, hwtime) /\ ~Misplaces(heap, hwtime, d) => InOrder(heap', hwtime)
  BY <1>1, RemoveElementKeeps DEF TimerInv, TimeOK, HeapOK
<1>3. HeapOK' /\ Armed' \subseteq Armed
  BY <1>2 DEF HeapOK, Armed
<1>4. TimeOK'
  BY <1>1 DEF TimerInv, TimeOK
<1>5. ~misplaced' => Orderly'
  <2> SUFFICES ASSUME ~misplaced' PROVE Orderly'
    OBVIOUS
  <2>1. Orderly /\ ~Misplaces(heap, hwtime, d)
    BY <1>1 DEF TimerInv
  <2>2. InOrder(heap', hwtime')
    BY <1>1, <1>2, <2>1 DEF Orderly
  <2>3. InTime'
    BY <1>1, <1>3, <2>1 DEF Orderly, InTime
  <2> QED
    BY <2>2, <2>3 DEF Orderly
<1> QED
  BY <1>3, <1>4, <1>5 DEF TimerInv

LEMMA TimerNext ==
  TimerInv /\ [Next]_vars => TimerInv'
<1> SUFFICES ASSUME TimerInv, [Next]_vars PROVE TimerInv'
  OBVIOUS
<1>1. CASE HandlerExpire
  BY <1>1, ExpireStep
<1>2. CASE HandlerProgram
  BY <1>2, ProgramStep
<1>3. CASE TimerIrq
  <2>1. TimeOK'
    BY <1>3 DEF TimerIrq, TimerInv, TimeOK
  <2>2. HeapOK' /\ InTime' /\ (misplaced' \/ InOrder(heap, hwtime)')
    BY <1>3 DEF TimerIrq, TimerInv, HeapOK, Orderly, InTime
  <2> QED
    BY <2>1, <2>2 DEF TimerInv, Orderly
<1>4. CASE Tick
  <2>1. /\ ~handling /\ deadline # now /\ now' = now + 1
        /\ UNCHANGED <<heap, hwtime, period, deadline, handling, misplaced>>
    BY <1>4 DEF Tick
  <2>2. TimeOK' /\ HeapOK' /\ Armed' = Armed
    BY <2>1 DEF TimerInv, TimeOK, HeapOK, Armed
  <2>3. ASSUME Orderly PROVE Orderly'
    <3>1. \A d \in Armed : deadline # Off /\ now <= deadline /\ deadline <= hwtime[d]
      BY <2>1, <2>3 DEF Orderly, InTime
    <3>2. \A d \in Armed : now + 1 <= deadline
      BY <2>1, <3>1 DEF TimerInv, TimeOK
    <3> QED
      BY <2>1, <2>2, <2>3, <3>1, <3>2 DEF Orderly, InTime
  <2> QED
    BY <2>1, <2>2, <2>3 DEF TimerInv
<1>5. ASSUME NEW d \in Doms \ {Linux}, NEW delay \in Delays, NEW every \in Periods,
             SetTimer(d, delay, every)
      PROVE  TimerInv'
  BY <1>5, Constants, SetStep
<1>6. ASSUME NEW d \in Doms \ {Linux}, RemoveTimer(d)
      PROVE  TimerInv'
  BY <1>6, RemoveStep
<1>7. CASE UNCHANGED vars
  BY <1>7 DEF vars, TimerInv, TimeOK, HeapOK, Orderly, InTime, Armed
<1> QED
  BY <1>1, <1>2, <1>3, <1>4, <1>5, <1>6, <1>7 DEF Next

LEMMA TimerInvariant ==
  Spec => []TimerInv
<1> QED
  BY TimerInit, TimerNext, PTL DEF Spec

(* Nothing that is set, replaced, served or removed brings a domain into   *)
(* timer_heap a second time.                                               *)
THEOREM NeverTwiceInHeap ==
  Spec => []InsertedOnce
<1>1. TimerInv => InsertedOnce
  BY DEF TimerInv, HeapOK, IsHeap, InsertedOnce
<1> QED
  BY <1>1, TimerInvariant, PTL

(* The root of timer_heap is the next to expire, for any number of domains *)
(* and all they ask for, as long as no removal has put the last element    *)
(* below a greater father.                                                 *)
THEOREM RootExpiresFirst ==
  Spec => []LeastIsFirst
<1>1. TimerInv => LeastIsFirst
  BY FirstOfHeap DEF TimerInv, LeastIsFirst
<1> QED
  BY <1>1, TimerInvariant, PTL

(* No domain waits for a timer beyond its expiry: outside timer_handler    *)
(* the hardware timer is set, for no later than the first, with the same   *)
(* exception.                                                              *)
THEOREM NobodyWaitsTooLong ==
  Spec => []NeverLate
<1>1. TimerInv => NeverLate
  <2> SUFFICES ASSUME TimerInv, ~handling, ~misplaced, NEW d \in Armed PROVE now <= hwtime[d]
    BY DEF NeverLate
  <2>1. now \in Nat /\ deadline \in Nat \cup {Off} /\ hwtime[d] \in Nat
    BY HeapArmed DEF TimerInv, TimeOK
  <2>2. deadline # Off /\ now <= deadline /\ deadline <= hwtime[d]
    BY DEF TimerInv, Orderly, InTime
  <2> QED
    BY <2>1, <2>2
<1> QED
  BY <1>1, TimerInvariant, PTL

(* The exception needs six domains: with up to five, heapify's sinking is  *)
(* enough after HEAP_remove_element, and both of the above hold always.    *)
THEOREM FiveKeepOrder ==
  ASSUME Cardinality(Doms) <= 5
  PROVE  Spec => []~misplaced
<1>1. Init => ~misplaced
  BY DEF Init
<1>2. ASSUME TimerInv, ~misplaced PROVE \A d : ~Misplaces(heap, hwtime, d)
  <2>1. IsHeap(heap) /\ hwtime \in [Doms -> Nat] /\ InOrder(heap, hwtime)
    BY <1>2 DEF TimerInv, TimeOK, HeapOK, Orderly
  <2>2. heap.nelem <= 5
    <3>1. heap.nelem \in Nat /\ heap.nelem <= Cardinality(Doms) /\ Cardinality(Doms) \in Nat
      BY <2>1, FewElements, FS_CardinalityType, TimerAssumption DEF IsHeap, TimerAssumption
    <3> QED
      BY <3>1
  <2> QED
    BY <2>1, <2>2, FiveStay
<1>3. TimerInv /\ ~misplaced /\ [Next]_vars => ~misplaced'
  BY <1>2 DEF Next, HandlerExpire, HandlerProgram, TimerIrq, Tick, SetTimer, RemoveTimer, vars
<1> QED
  BY <1>1, <1>3, TimerInvariant, PTL DEF Spec

-----------------------------------------------------------------------------
(* PaRTiKle: PkTime.                                                       *)

Entries == \A q \in queue : DOMAIN q = {"timer", "value", "interval"}

Once == \A q, r \in queue : q.timer = r.timer => q = r

QueueInv == Entries /\ Once /\ ArmedIsQueued

LEMMA QueueInit == TimeInit => QueueInv
  BY DEF TimeInit, KernelInit, QueueInv, Entries, Once, ArmedIsQueued

(* arm_timer, of a timer that is in the heap or not.                       *)
LEMMA ArmKeeps ==
  ASSUME QueueInv, NEW k, NEW v, NEW i, ArmTimer(k, v, i)
  PROVE  QueueInv'
<1> DEFINE e == [timer |-> k, value |-> v + now, interval |-> i]
<1>1. /\ queue' = {q \in queue : q.timer # k} \cup {e}
      /\ armed' = armed \cup {k}
  BY DEF ArmTimer, Without
<1>2. e.timer = k /\ DOMAIN e = {"timer", "value", "interval"}
  OBVIOUS
<1> HIDE DEF e
<1>3. Entries'
  BY <1>1, <1>2 DEF QueueInv, Entries
<1>4. Once'
  BY <1>1, <1>2 DEF QueueInv, Once
<1>5. armed' = {q.timer : q \in queue'}
  BY <1>1, <1>2 DEF QueueInv, ArmedIsQueued
<1> QED BY <1>3, <1>4, <1>5 DEF QueueInv, ArmedIsQueued

(* free_ktimer, and disarming in timer_settime.                            *)
LEMMA DisarmKeeps ==
  ASSUME QueueInv, NEW k, queue' = Without(k), armed' = armed \ {k}
  PROVE  QueueInv'
  BY DEF QueueInv, Entries, Once, ArmedIsQueued, Without

(* A timer that is due acts: it leaves the heap, or is put in again.       *)
LEMMA ActKeeps ==
  ASSUME QueueInv, UpdateAct
  PROVE  QueueInv'
<1>1. PICK q \in queue :
        \/ /\ queue' = (queue \ {q}) \cup {[q EXCEPT !.value = q.interval + now]}
           /\ armed' = armed
        \/ queue' = queue \ {q} /\ armed' = armed \ {q.timer}
  BY DEF UpdateAct, DueNow, First
<1>2. CASE queue' = queue \ {q} /\ armed' = armed \ {q.timer}
  BY <1>2 DEF QueueInv, Entries, Once, ArmedIsQueued
<1>3. CASE /\ queue' = (queue \ {q}) \cup {[q EXCEPT !.value = q.interval + now]}
           /\ armed' = armed
  <2> DEFINE e == [q EXCEPT !.value = q.interval + now]
  <2>1. e.timer = q.timer /\ DOMAIN e = {"timer", "value", "interval"}
    BY DEF QueueInv, Entries
  <2>2. queue' = (queue \ {q}) \cup {e}
    BY <1>3
  <2> HIDE DEF e
  <2>3. Entries' /\ Once'
    BY <2>1, <2>2 DEF QueueInv, Entries, Once
  <2>4. armed' = {r.timer : r \in queue'}
    BY <1>3, <2>1, <2>2 DEF QueueInv, ArmedIsQueued
  <2> QED BY <2>3, <2>4 DEF QueueInv, ArmedIsQueued
<1> QED BY <1>1, <1>2, <1>3

LEMMA QueueNext == QueueInv /\ [TimeNext]_timeVars => QueueInv'
<1> SUFFICES ASSUME QueueInv, [TimeNext]_timeVars PROVE QueueInv'
  OBVIOUS
<1>1. UNCHANGED <<queue, armed>> => QueueInv'
  BY DEF QueueInv, Entries, Once, ArmedIsQueued
<1>2. CASE UpdateAct
  BY <1>2, ActKeeps
<1>3. CASE UpdateEnd \/ Update \/ ClockIrq
  BY <1>1, <1>3 DEF UpdateEnd, Update, ClockIrq, ptimer, kernel
<1>4. ASSUME NEW d \in Naps, SleepFor(d) PROVE QueueInv'
  BY <1>4, ArmKeeps DEF SleepFor
<1>5. CASE Slept
  BY <1>1, <1>5 DEF Slept, ptimer
<1>6. ASSUME NEW k \in PosixTimers, TimerCreate(k) PROVE QueueInv'
  BY <1>1, <1>6 DEF TimerCreate, kernel
<1>7. ASSUME NEW k \in PosixTimers, TimerDelete(k) \/ SetTime(k) PROVE QueueInv'
  BY <1>7, DisarmKeeps DEF TimerDelete, SetTime, TakeOut
<1>8. ASSUME NEW k \in PosixTimers, SetTimeOn(k) PROVE QueueInv'
  <2>1. CASE UNCHANGED ptimer
    BY <1>1, <2>1 DEF ptimer
  <2>2. ASSUME NEW v \in Naps, NEW i \in Rounds, ArmTimer(k, v, i) PROVE QueueInv'
    BY <2>2, ArmKeeps
  <2> QED BY <1>8, <2>1, <2>2 DEF SetTimeOn
<1>9. ASSUME NEW t \in Threads, Kill(t) \/ DeviceIrq(t) PROVE QueueInv'
  BY <1>1, <1>9 DEF Kill, DeviceIrq, ptimer
<1>10. ASSUME NEW t \in Threads, StartThread(t) PROVE QueueInv'
  BY <1>1, <1>10 DEF StartThread, Create
<1>11. CASE AwaitDevice
  BY <1>1, <1>11 DEF AwaitDevice, ptimer
<1>12. CASE XmHandler \/ TimePasses
  BY <1>1, <1>12 DEF XmHandler, TimePasses, ptimer, kernel
<1>13. CASE UNCHANGED timeVars
  BY <1>1, <1>13 DEF timeVars, kernel, ptimer
<1> QED
  BY <1>2, <1>3, <1>4, <1>5, <1>6, <1>7, <1>8, <1>9, <1>10, <1>11, <1>12, <1>13
  DEF TimeNext

(* However threads sleep, are woken, create, set, stop and delete timers,  *)
(* between and during the runs of update_hwtimer, TIMER_ARMED says of each *)
(* timer of time.c whether it is in the heap.                              *)
THEOREM ArmedTellsTruth == TimeSpec => []ArmedIsQueued
<1>1. QueueInv => ArmedIsQueued
  BY DEF QueueInv
<1> QED BY <1>1, QueueInit, QueueNext, PTL DEF TimeSpec

-----------------------------------------------------------------------------
(* Nobody sleeps beyond its time.                                          *)

(* A thread has armed a timer and has not called update_hwtimer yet.       *)
Between == {<<"asleep">>, <<"program">>}

Undisturbed == \A t \in Threads : at[t] \notin Between

(* Who runs is a thread that is ready, or the idle thread.                 *)
RunsThread == Ordered(sched) /\ current \in Threads \cup {Idle} /\ DOMAIN at = Threads

(* Whoever a timer activates is a thread.                                  *)
Owned ==
  /\ DOMAIN owner = Timers
  /\ \A t \in Threads : owner[t] = t
  /\ \A q \in queue : q.timer \in Timers /\ owner[q.timer] \in Threads
  /\ \A t \in Threads, k \in PosixTimers : at[t] = <<"arm", k>> => owner[k] = t

Times == \A q \in queue : q.value \in Nat /\ q.interval \in Nat

Punctual == \A q \in queue : now < q.value + PkMin

(* XtratuM has been asked for an event that comes in time, or has raised   *)
(* it already.                                                             *)
Asked ==
  \/ queue = {} \/ event
  \/ RT \in Armed /\ \A q \in queue : hwtime[RT] < q.value + PkMin

Served == updating = "no" /\ ~twice /\ ~loose /\ Undisturbed => Punctual /\ Asked

(* XtratuM's heap keeps its order: it holds two domains at most.           *)
FewAsk == ~misplaced /\ Armed \subseteq {Linux, RT}

SleepInv == QueueInv /\ TimerInv /\ FewAsk /\ RunsThread /\ Owned /\ Times /\ Served

LEMMA PkConstants ==
  /\ RT \in Doms \ {Linux} /\ PkMin \in Nat \ {0}
  /\ Naps \subseteq Nat \ {0} /\ Rounds \subseteq Nat
  /\ Threads \cap PosixTimers = {} /\ Timers = Threads \cup PosixTimers
  /\ Idle \notin Threads
BY TimeAssumption, KernelAssumption DEF TimeAssumption, KernelAssumption, Timers

LEMMA Places ==
  /\ User \notin Between /\ <<"slept">> \notin Between /\ \A k : <<"arm", k>> \notin Between
  /\ <<"asleep">> \in Between /\ <<"program">> \in Between
  /\ \A k : <<"arm", k>> # User /\ <<"arm", k>> # <<"slept">>
  /\ \A k : <<"arm", k>> # <<"asleep">> /\ <<"arm", k>> # <<"program">>
  /\ \A j, k : <<"arm", j>> = <<"arm", k>> => j = k
BY DEF User, Between

LEMMA SleepInit == TimeInit => SleepInv
<1> SUFFICES ASSUME TimeInit PROVE SleepInv
  OBVIOUS
<1>1. QueueInv /\ TimerInv /\ FewAsk
  BY QueueInit, TimerInit, InitArmed DEF TimeInit, FewAsk
<1>2. RunsThread
  <2>1. KernelInv
    BY KernelInitInv DEF TimeInit
  <2> QED
    BY <2>1 DEF KernelInv, RunsThread, TimeInit, KernelInit
<1>3. Owned
  BY Places, PkConstants DEF TimeInit, KernelInit, Owned
<1>4. Times /\ Punctual /\ Asked
  BY DEF TimeInit, Times, Punctual, Asked
<1> QED
  BY <1>1, <1>2, <1>3, <1>4 DEF SleepInv, Served

(* The running thread is one; it moves to `where'.                         *)
LEMMA RunsOne ==
  ASSUME RunsThread, NEW where, Running(where)
  PROVE  current \in Threads /\ at[current] = where
BY DEF RunsThread, Running

LEMMA Moves ==
  ASSUME RunsThread, current \in Threads, NEW where, at' = [at EXCEPT ![current] = where]
  PROVE  DOMAIN at' = Threads /\ at'[current] = where /\ \A t \in Threads : t # current => at'[t] = at[t]
BY DEF RunsThread

LEMMA RunsNext ==
  ASSUME RunsThread, Owned, [TimeNext]_timeVars
  PROVE  RunsThread'
<1>1. ASSUME NEW where, Proceed(sched, where) PROVE RunsThread'
  BY <1>1 DEF Proceed, RunsThread
<1>2. ASSUME NEW k, Ordered(k), NEW where, Proceed(k, where) PROVE RunsThread'
  BY <1>2 DEF Proceed, RunsThread
<1>3. ASSUME NEW k, Ordered(k), NEW where, Reschedule(k, where) PROVE RunsThread'
  BY <1>3, HeadIsHighest DEF Reschedule, RunsThread
<1>4. ASSUME UNCHANGED <<sched, current, at>> PROVE RunsThread'
  BY <1>4 DEF RunsThread
<1>5. ASSUME NEW t \in Threads
      PROVE  Ordered(Activated(sched, t)) /\ Ordered(Suspended(sched, t))
  BY ActivatedOrdered, SuspendedOrdered DEF RunsThread
<1>6. CASE UpdateAct
  <2>1. PICK q \in queue : sched' = Activated(sched, owner[q.timer]) /\ UNCHANGED <<current, at>>
    BY <1>6 DEF UpdateAct, DueNow, First
  <2> QED
    BY <1>5, <2>1 DEF Owned, RunsThread
<1>7. CASE UpdateEnd
  <2>1. CASE Proceed(sched, <<"slept">>) \/ Proceed(sched, User)
    BY <1>1, <2>1
  <2>2. CASE current' \in {HeadOfHighest(sched), current} /\ UNCHANGED <<sched, at>>
    BY <2>2, HeadIsHighest DEF RunsThread
  <2> QED
    BY <1>7, <2>1, <2>2 DEF UpdateEnd, Updated
<1>8. CASE Update \/ ClockIrq
  BY <1>4, <1>8 DEF Update, ClockIrq, kernel
<1>9. ASSUME NEW d \in Naps, SleepFor(d) PROVE RunsThread'
  BY <1>2, <1>5, <1>9, RunsOne DEF SleepFor
<1>10. CASE Slept
  BY <1>3, <1>10 DEF Slept, RunsThread
<1>11. ASSUME NEW k \in PosixTimers, TimerCreate(k) \/ TimerDelete(k) PROVE RunsThread'
  BY <1>4, <1>11 DEF TimerCreate, TimerDelete, kernel
<1>12. ASSUME NEW k \in PosixTimers, SetTime(k) \/ SetTimeOn(k) PROVE RunsThread'
  BY <1>1, <1>12 DEF SetTime, SetTimeOn
<1>13. ASSUME NEW t \in Threads, Kill(t) PROVE RunsThread'
  BY <1>2, <1>5, <1>13 DEF Kill
<1>14. ASSUME NEW t \in Threads, DeviceIrq(t) PROVE RunsThread'
  <2>1. Ordered(sched') /\ current' = HeadOfHighest(sched') /\ at' = at
    BY <1>5, <1>14 DEF DeviceIrq
  <2> QED
    BY <2>1, HeadIsHighest DEF RunsThread
<1>15. ASSUME NEW t \in Threads, StartThread(t) PROVE RunsThread'
  BY <1>3, <1>15, CreatedOrdered DEF StartThread, Create, RunsThread
<1>16. CASE AwaitDevice
  BY <1>3, <1>5, <1>16, RunsOne DEF AwaitDevice
<1>17. CASE XmHandler \/ TimePasses \/ UNCHANGED timeVars
  BY <1>4, <1>17 DEF XmHandler, TimePasses, timeVars, kernel
<1> QED
  BY <1>6, <1>7, <1>8, <1>9, <1>10, <1>11, <1>12, <1>13, <1>14, <1>15, <1>16, <1>17
  DEF TimeNext

LEMMA OwnedNext ==
  ASSUME RunsThread, Owned, [TimeNext]_timeVars
  PROVE  Owned'
<1>1. ASSUME owner' = owner, current \in Threads,
             \A q \in queue' : q.timer \in Timers /\ owner[q.timer] \in Threads,
             NEW where, at' = [at EXCEPT ![current] = where],
             \A k \in PosixTimers : where = <<"arm", k>> => owner[k] = current
      PROVE  Owned'
  BY <1>1, Moves DEF Owned
<1>2. ASSUME owner' = owner, at' = at, \A q \in queue' : q.timer \in Timers /\ owner[q.timer] \in Threads
      PROVE  Owned'
  BY <1>2 DEF Owned
<1>3. \A q \in queue : q.timer \in Timers /\ owner[q.timer] \in Threads
  BY DEF Owned
<1>4. ASSUME UNCHANGED <<owner, queue>>, current \in Threads,
             NEW where \in {User} \cup Between \cup {<<"slept">>}, at' = [at EXCEPT ![current] = where]
      PROVE  Owned'
  BY <1>1, <1>3, <1>4, Places DEF Between
<1>5. ASSUME NEW k, NEW v, NEW i, ArmTimer(k, v, i), k \in Timers, owner[k] \in Threads
      PROVE  owner' = owner /\ \A q \in queue' : q.timer \in Timers /\ owner[q.timer] \in Threads
  BY <1>3, <1>5 DEF ArmTimer, Without
<1>6. CASE UpdateAct
  <2>1. PICK q \in queue : /\ UNCHANGED <<owner, at>>
                           /\ queue' \subseteq (queue \cup {[q EXCEPT !.value = q.interval + now]})
    BY <1>6 DEF UpdateAct, DueNow, First
  <2>2. [q EXCEPT !.value = q.interval + now].timer = q.timer
    OBVIOUS
  <2> QED
    BY <1>2, <1>3, <2>1, <2>2
<1>7. CASE UpdateEnd
  <2>1. UNCHANGED <<owner, queue>>
    BY <1>7 DEF UpdateEnd, ptimer
  <2>2. ASSUME NEW where \in {User, <<"slept">>}, Proceed(sched, where) PROVE Owned'
    BY <2>1, <2>2, <1>3, Places DEF Proceed, Owned, RunsThread
  <2>3. CASE at' = at
    BY <1>2, <1>3, <2>1, <2>3
  <2> QED
    BY <1>7, <2>2, <2>3 DEF UpdateEnd, Updated
<1>8. CASE Update \/ ClockIrq
  BY <1>2, <1>3, <1>8 DEF Update, ClockIrq, kernel, ptimer
<1>9. ASSUME NEW d \in Naps, SleepFor(d) PROVE Owned'
  <2>1. current \in Threads /\ ArmTimer(current, d, 0) /\ at' = [at EXCEPT ![current] = <<"asleep">>]
    BY <1>9, RunsOne DEF SleepFor, Proceed
  <2>2. current \in Timers /\ owner[current] \in Threads
    BY <2>1, PkConstants DEF Owned
  <2> QED
    BY <1>1, <1>5, <2>1, <2>2, Places
<1>10. CASE Slept
  <2>1. current \in Threads /\ at' = [at EXCEPT ![current] = User] /\ UNCHANGED <<owner, queue>>
    BY <1>10, RunsOne DEF Slept, Reschedule, ptimer
  <2> QED
    BY <1>4, <2>1
<1>11. ASSUME NEW k \in PosixTimers, TimerCreate(k) PROVE Owned'
  <2>1. /\ current \in Threads /\ owner[k] = Idle /\ owner' = [owner EXCEPT ![k] = current]
        /\ at' = at /\ queue' = queue
    BY <1>11, RunsOne DEF TimerCreate, kernel
  <2>2. k \notin Threads /\ k \in DOMAIN owner
    BY PkConstants DEF Owned
  <2> QED
    BY <2>1, <2>2, PkConstants DEF Owned
<1>12. ASSUME NEW k \in PosixTimers, TimerDelete(k) PROVE Owned'
  <2>1. /\ current \in Threads /\ at[current] = User /\ owner[k] = current
        /\ owner' = [owner EXCEPT ![k] = Idle] /\ at' = at /\ queue' = Without(k)
    BY <1>12, RunsOne DEF TimerDelete, TakeOut
  <2>2. k \notin Threads /\ k \in DOMAIN owner
    BY PkConstants DEF Owned
  <2>3. \A q \in queue' : q \in queue /\ q.timer # k
    BY <2>1 DEF Without
  <2>4. DOMAIN owner' = Timers /\ \A j \in Timers : j # k => owner'[j] = owner[j]
    BY <2>1, <2>2 DEF Owned
  <2>5. \A t \in Threads : t \in Timers /\ t # k
    BY <2>2, PkConstants
  <2>6. \A t \in Threads : at[t] # <<"arm", k>>
    <3> SUFFICES ASSUME NEW t \in Threads, at[t] = <<"arm", k>> PROVE FALSE
      OBVIOUS
    <3>1. owner[k] = t
      BY DEF Owned
    <3> QED
      BY <2>1, <3>1, Places
  <2>7. \A t \in Threads, j \in PosixTimers : at'[t] = <<"arm", j>> => owner'[j] = t
    BY <2>1, <2>4, <2>6, PkConstants DEF Owned
  <2>8. \A q \in queue' : q.timer \in Timers /\ owner'[q.timer] \in Threads
    BY <2>3, <2>4 DEF Owned
  <2> QED
    BY <2>4, <2>5, <2>7, <2>8 DEF Owned
<1>13. ASSUME NEW k \in PosixTimers, SetTime(k) PROVE Owned'
  <2>1. /\ current \in Threads /\ owner[k] = current /\ owner' = owner
        /\ at' = [at EXCEPT ![current] = <<"arm", k>>] /\ queue' = Without(k)
    BY <1>13, RunsOne DEF SetTime, TakeOut, Proceed
  <2>2. \A q \in queue' : q.timer \in Timers /\ owner[q.timer] \in Threads
    BY <1>3, <2>1 DEF Without
  <2>3. \A j \in PosixTimers : <<"arm", k>> = <<"arm", j>> => owner[j] = current
    BY <2>1, Places
  <2> QED
    BY <1>1, <2>1, <2>2, <2>3
<1>14. ASSUME NEW k \in PosixTimers, SetTimeOn(k) PROVE Owned'
  <2>1. current \in Threads /\ owner[k] = current /\ k \in Timers
    BY <1>14, RunsOne, PkConstants DEF SetTimeOn, Owned
  <2>2. ASSUME NEW v, NEW i, ArmTimer(k, v, i), Proceed(sched, <<"program">>) PROVE Owned'
    BY <1>1, <1>5, <2>1, <2>2, Places DEF Proceed
  <2>3. CASE Proceed(sched, User) /\ UNCHANGED ptimer
    BY <1>4, <2>1, <2>3 DEF Proceed, ptimer
  <2> QED
    BY <1>14, <2>2, <2>3 DEF SetTimeOn
<1>15. ASSUME NEW t \in Threads, Kill(t) PROVE Owned'
  <2>1. current \in Threads /\ at' = [at EXCEPT ![current] = User] /\ UNCHANGED <<owner, queue>>
    BY <1>15, RunsOne DEF Kill, Proceed, ptimer
  <2> QED
    BY <1>4, <2>1
<1>16. ASSUME NEW t \in Threads, DeviceIrq(t) PROVE Owned'
  BY <1>2, <1>3, <1>16 DEF DeviceIrq, ptimer
<1>17. ASSUME NEW t \in Threads, StartThread(t) PROVE Owned'
  <2>1. current \in Threads /\ at' = [at EXCEPT ![current] = User] /\ UNCHANGED <<owner, queue>>
    BY <1>17, RunsOne DEF StartThread, Create, Reschedule
  <2> QED
    BY <1>4, <2>1
<1>18. CASE AwaitDevice
  <2>1. current \in Threads /\ at' = [at EXCEPT ![current] = User] /\ UNCHANGED <<owner, queue>>
    BY <1>18, RunsOne DEF AwaitDevice, Reschedule, ptimer
  <2> QED
    BY <1>4, <2>1
<1>19. CASE XmHandler \/ TimePasses \/ UNCHANGED timeVars
  BY <1>2, <1>3, <1>19 DEF XmHandler, TimePasses, timeVars, kernel, ptimer
<1> QED
  BY <1>6, <1>7, <1>8, <1>9, <1>10, <1>11, <1>12, <1>13, <1>14, <1>15, <1>16, <1>17, <1>18, <1>19
  DEF TimeNext

LEMMA TimesNext ==
  ASSUME QueueInv, TimerInv, Times, [TimeNext]_timeVars
  PROVE  Times'
<1>1. ASSUME queue' \subseteq queue PROVE Times'
  BY <1>1 DEF Times
<1>2. ASSUME NEW k, NEW v \in Nat, NEW i \in Nat, ArmTimer(k, v, i) PROVE Times'
  <2> DEFINE e == [timer |-> k, value |-> v + now, interval |-> i]
  <2>1. queue' \subseteq queue \cup {e}
    BY <1>2 DEF ArmTimer, Without
  <2>2. e.value \in Nat /\ e.interval \in Nat
    BY DEF TimerInv, TimeOK
  <2> HIDE DEF e
  <2> QED
    BY <2>1, <2>2 DEF Times
<1>3. CASE UpdateAct
  <2>1. PICK q \in queue : queue' \subseteq queue \cup {[q EXCEPT !.value = q.interval + now]}
    BY <1>3 DEF UpdateAct, DueNow, First
  <2> DEFINE e == [q EXCEPT !.value = q.interval + now]
  <2>2. e.value = q.interval + now /\ e.interval = q.interval
    BY DEF QueueInv, Entries
  <2>3. e.value \in Nat /\ e.interval \in Nat
    BY <2>2 DEF TimerInv, TimeOK, Times
  <2> HIDE DEF e
  <2> QED
    BY <2>1, <2>3 DEF Times, e
<1>4. CASE UpdateEnd \/ Update \/ ClockIrq
  BY <1>1, <1>4 DEF UpdateEnd, Update, ClockIrq, ptimer
<1>5. ASSUME NEW d \in Naps, SleepFor(d) PROVE Times'
  BY <1>2, <1>5, PkConstants DEF SleepFor
<1>6. CASE Slept
  BY <1>1, <1>6 DEF Slept, ptimer
<1>7. ASSUME NEW k \in PosixTimers, TimerCreate(k) \/ TimerDelete(k) \/ SetTime(k) PROVE Times'
  BY <1>1, <1>7 DEF TimerCreate, TimerDelete, SetTime, TakeOut, Without
<1>8. ASSUME NEW k \in PosixTimers, SetTimeOn(k) PROVE Times'
  BY <1>1, <1>2, <1>8, PkConstants DEF SetTimeOn, ptimer
<1>9. ASSUME NEW t \in Threads, Kill(t) \/ DeviceIrq(t) \/ StartThread(t) PROVE Times'
  BY <1>1, <1>9 DEF Kill, DeviceIrq, StartThread, ptimer
<1>10. CASE AwaitDevice \/ XmHandler \/ TimePasses \/ UNCHANGED timeVars
  BY <1>1, <1>10 DEF AwaitDevice, XmHandler, TimePasses, timeVars, ptimer
<1> QED
  BY <1>3, <1>4, <1>5, <1>6, <1>7, <1>8, <1>9, <1>10 DEF TimeNext

(* set_timer_sys, as update_hwtimer calls it, asks for the first timer.    *)
LEMMA AskedInTime ==
  ASSUME TimerInv, Times, DueNow = {}, AskXtratuM, queue' = queue
  PROVE  TimerInv' /\ Punctual' /\ (queue = {} \/ (RT \in Armed' /\ \A q \in queue : hwtime'[RT] < q.value + PkMin))
<1>1. now \in Nat /\ PkMin \in Nat \ {0}
  BY PkConstants DEF TimerInv, TimeOK
<1>2. CASE queue = {} /\ UNCHANGED vars
  BY <1>2, TimerNext DEF Punctual
<1>3. ASSUME NEW q \in First,
             SetTimer(RT, IF q.value - now < PkMin THEN PkMin ELSE q.value - now, 0)
      PROVE  TimerInv' /\ Punctual' /\ RT \in Armed' /\ \A r \in queue : hwtime'[RT] < r.value + PkMin
  <2> DEFINE delay == IF q.value - now < PkMin THEN PkMin ELSE q.value - now
  <2>1. q \in queue /\ q.value \in Nat /\ \A r \in queue : q.value <= r.value /\ r.value \in Nat
    BY DEF First, Times
  <2>2. now < q.value
    BY <1>1, <2>1 DEF DueNow
  <2>3. delay \in Nat /\ \A r \in queue : delay + now < r.value + PkMin /\ now < r.value + PkMin
    BY <1>1, <2>1, <2>2
  <2>4. SetTimer(RT, delay, 0) /\ RT \in Doms /\ 0 \in Nat
    BY <1>3, PkConstants
  <2> HIDE DEF delay
  <2>5. TimerInv' /\ RT \in Armed' /\ hwtime'[RT] = delay + now
    BY <2>3, <2>4, SetStep
  <2>6. now' = now
    BY <2>4 DEF SetTimer
  <2> QED
    BY <2>3, <2>5, <2>6 DEF Punctual
<1> QED
  BY <1>2, <1>3 DEF AskXtratuM, Punctual

LEMMA TimerKept ==
  ASSUME TimerInv, Times, [TimeNext]_timeVars
  PROVE  TimerInv'
<1>1. ASSUME UNCHANGED vars PROVE TimerInv'
  BY <1>1, TimerNext
<1>2. CASE UpdateEnd
  BY <1>2, AskedInTime DEF UpdateEnd, ptimer
<1>3. CASE XmHandler \/ TimePasses
  BY <1>3, TimerNext DEF XmHandler, TimePasses, Next
<1>4. CASE UpdateAct \/ Update \/ ClockIrq \/ Slept \/ AwaitDevice \/ UNCHANGED timeVars
  BY <1>1, <1>4 DEF UpdateAct, Update, ClockIrq, Slept, AwaitDevice, timeVars
<1>5. ASSUME NEW d \in Naps, SleepFor(d) PROVE TimerInv'
  BY <1>1, <1>5 DEF SleepFor
<1>6. ASSUME NEW k \in PosixTimers, TimerCreate(k) \/ TimerDelete(k) \/ SetTime(k) \/ SetTimeOn(k)
      PROVE  TimerInv'
  BY <1>1, <1>6 DEF TimerCreate, TimerDelete, SetTime, SetTimeOn
<1>7. ASSUME NEW t \in Threads, Kill(t) \/ DeviceIrq(t) \/ StartThread(t) PROVE TimerInv'
  BY <1>1, <1>7 DEF Kill, DeviceIrq, StartThread
<1> QED
  BY <1>2, <1>3, <1>4, <1>5, <1>6, <1>7 DEF TimeNext

(* Linux and RT are the only ones to have a timer of XtratuM's.            *)
LEMMA FewNext ==
  ASSUME TimerInv, Times, FewAsk, [TimeNext]_timeVars
  PROVE  FewAsk'
<1>1. ASSUME UNCHANGED vars PROVE FewAsk'
  BY <1>1 DEF FewAsk, vars, Armed
<1>2. ASSUME NEW delay \in Nat, SetTimer(RT, delay, 0) PROVE FewAsk'
  <2>1. IsHeap(heap) /\ hwtime \in [Doms -> Nat] /\ InOrder(heap, hwtime)
    BY DEF TimerInv, TimeOK, HeapOK, Orderly, FewAsk
  <2>2. heap.nelem <= 5
    <3>1. \A i \in 1 .. heap.nelem : heap.array[i] \in {Linux, RT}
      BY DEF FewAsk, Armed, Elements
    <3>2. /\ heap.nelem \in Nat
          /\ \A i, j \in 1 .. heap.nelem : heap.array[i] = heap.array[j] => i = j
      BY <2>1 DEF IsHeap
    <3> SUFFICES ASSUME heap.nelem >= 3 PROVE FALSE
      BY <3>2
    <3>3. 1 \in 1 .. heap.nelem /\ 2 \in 1 .. heap.nelem /\ 3 \in 1 .. heap.nelem
      BY <3>2
    <3> QED
      BY <3>1, <3>2, <3>3
  <2>3. ~Misplaces(heap, hwtime, RT)
    BY <2>1, <2>2, FiveStay
  <2>4. Armed' = Armed \cup {RT}
    BY <1>2, PkConstants, SetStep
  <2>5. misplaced' = (misplaced \/ Misplaces(heap, hwtime, RT))
    BY <1>2 DEF SetTimer
  <2> QED
    BY <2>3, <2>4, <2>5 DEF FewAsk
<1>3. CASE UpdateEnd
  <2>1. ASSUME NEW q \in First, DueNow = {} PROVE q.value - now \in Nat
    <3>1. q.value \in Nat /\ now \in Nat
      BY <2>1 DEF First, Times, TimerInv, TimeOK
    <3>2. ~(q.value <= now)
      BY <2>1 DEF DueNow
    <3> QED
      BY <3>1, <3>2
  <2>2. ASSUME NEW q \in First, DueNow = {}
        PROVE  (IF q.value - now < PkMin THEN PkMin ELSE q.value - now) \in Nat
    BY <2>1, <2>2, PkConstants
  <2> QED
    BY <1>1, <1>2, <1>3, <2>2 DEF UpdateEnd, AskXtratuM
<1>4. CASE XmHandler
  <2>1. CASE HandlerExpire
    BY <2>1, ExpireArmed DEF FewAsk
  <2>2. CASE HandlerProgram \/ TimerIrq
    BY <2>2 DEF HandlerProgram, TimerIrq, FewAsk, Armed
  <2> QED
    BY <1>4, <2>1, <2>2 DEF XmHandler
<1>5. CASE TimePasses
  BY <1>5 DEF TimePasses, Tick, FewAsk, Armed
<1>6. CASE UpdateAct \/ Update \/ ClockIrq \/ Slept \/ AwaitDevice \/ UNCHANGED timeVars
  BY <1>1, <1>6 DEF UpdateAct, Update, ClockIrq, Slept, AwaitDevice, timeVars
<1>7. ASSUME NEW d \in Naps, SleepFor(d) PROVE FewAsk'
  BY <1>1, <1>7 DEF SleepFor
<1>8. ASSUME NEW k \in PosixTimers, TimerCreate(k) \/ TimerDelete(k) \/ SetTime(k) \/ SetTimeOn(k)
      PROVE  FewAsk'
  BY <1>1, <1>8 DEF TimerCreate, TimerDelete, SetTime, SetTimeOn
<1>9. ASSUME NEW t \in Threads, Kill(t) \/ DeviceIrq(t) \/ StartThread(t) PROVE FewAsk'
  BY <1>1, <1>9 DEF Kill, DeviceIrq, StartThread
<1> QED
  BY <1>3, <1>4, <1>5, <1>6, <1>7, <1>8, <1>9 DEF TimeNext

(* Time passes: no timer has been due when it does.                        *)
LEMMA PassKeeps ==
  ASSUME SleepInv, TimePasses
  PROVE  Served'
<1>1. /\ ~handling /\ deadline # now /\ now' = now + 1 /\ updating = "no"
      /\ ~(event /\ DueNow # {})
      /\ UNCHANGED <<heap, hwtime, at, queue, twice, loose, event, updating>>
  BY DEF TimePasses, Tick, kernel, ptimer
<1> SUFFICES ASSUME ~twice, ~loose, Undisturbed PROVE Punctual' /\ Asked'
  BY <1>1 DEF Served, Undisturbed
<1>2. Punctual /\ Asked /\ Times /\ TimerInv /\ InTime
  BY <1>1 DEF SleepInv, Served, TimerInv, FewAsk, Orderly
<1>3. now \in Nat /\ PkMin \in Nat \ {0} /\ deadline \in Nat \cup {Off}
  BY <1>2, PkConstants DEF TimerInv, TimeOK
<1>4. Asked'
  BY <1>1, <1>2 DEF Asked, Armed
<1>5. CASE queue = {}
  BY <1>1, <1>4, <1>5 DEF Punctual
<1>6. CASE queue # {} /\ event
  <2>1. DueNow = {}
    BY <1>1, <1>6
  <2> DEFINE S == {q.value : q \in queue}
  <2>2. S \in SUBSET Nat /\ S # {}
    BY <1>2, <1>6 DEF Times
  <2>3. PICK v \in S : \A w \in S : v <= w
    BY <2>2, LeastNat
  <2>4. PICK q \in queue : q.value = v
    OBVIOUS
  <2>5. \A r \in queue : q.value <= r.value
    BY <2>3, <2>4
  <2>6. q \in First
    BY <2>5 DEF First
  <2>7. now < q.value
    BY <1>2, <1>3, <2>1, <2>6 DEF DueNow, Times
  <2>8. \A r \in queue : r.value \in Nat /\ q.value \in Nat
    BY <1>2 DEF Times
  <2> HIDE DEF S
  <2>9. \A r \in queue : now + 1 < r.value + PkMin
    BY <1>3, <2>5, <2>7, <2>8
  <2> QED
    BY <1>1, <1>4, <2>9 DEF Punctual
<1>7. CASE queue # {} /\ ~event
  <2>1. RT \in Armed /\ \A q \in queue : hwtime[RT] < q.value + PkMin
    BY <1>2, <1>7 DEF Asked
  <2>2. deadline # Off /\ now <= deadline /\ deadline <= hwtime[RT]
    BY <1>1, <1>2, <2>1 DEF InTime
  <2>3. hwtime[RT] \in Nat /\ \A q \in queue : q.value \in Nat
    BY <1>2, PkConstants DEF TimerInv, TimeOK, Times
  <2>4. \A q \in queue : now + 1 < q.value + PkMin
    BY <1>1, <1>3, <2>1, <2>2, <2>3
  <2> QED
    BY <1>1, <1>4, <2>4 DEF Punctual
<1> QED
  BY <1>5, <1>6, <1>7

(* XtratuM serves timers: RT's by its event, and others.                   *)
LEMMA HandlerKeeps ==
  ASSUME SleepInv, XmHandler
  PROVE  Served'
<1>1. /\ now' = now /\ UNCHANGED <<at, queue, twice, loose, updating>>
      /\ \/ HandlerExpire /\ event' = (event \/ Least(heap) = RT)
         \/ UNCHANGED <<heap, hwtime, event>>
  BY DEF XmHandler, HandlerExpire, HandlerProgram, TimerIrq, kernel, ptimer
<1> SUFFICES ASSUME updating = "no", ~twice, ~loose, Undisturbed PROVE Punctual' /\ Asked'
  BY <1>1 DEF Served, Undisturbed
<1>2. Punctual /\ Asked /\ TimerInv
  BY DEF SleepInv, Served
<1>3. Punctual'
  BY <1>1, <1>2 DEF Punctual
<1>4. CASE UNCHANGED <<heap, hwtime, event>>
  BY <1>1, <1>2, <1>3, <1>4 DEF Asked, Armed
<1>5. CASE HandlerExpire /\ event' = (event \/ Least(heap) = RT)
  <2>1. \A x \in Armed : x # Least(heap) => x \in Armed' /\ hwtime'[x] = hwtime[x]
    BY <1>2, <1>5, ExpireStep
  <2> QED
    BY <1>1, <1>2, <1>3, <1>5, <2>1 DEF Asked
<1> QED
  BY <1>1, <1>4, <1>5

LEMMA ServedNext ==
  ASSUME SleepInv, [TimeNext]_timeVars
  PROVE  Served'
<1>1. ASSUME UNCHANGED <<vars, event, twice, updating>>, loose => loose',
             queue' \subseteq queue, Undisturbed' => Undisturbed
      PROVE  Served'
  BY <1>1 DEF SleepInv, Served, Punctual, Asked, Armed, vars
<1>2. ASSUME updating' # "no" PROVE Served'
  BY <1>2 DEF Served
<1>3. RunsThread /\ Times /\ TimerInv
  BY DEF SleepInv
<1>4. ASSUME NEW from, Running(from), from \notin Between,
             NEW where, at' = [at EXCEPT ![current] = where]
      PROVE  (Undisturbed' => Undisturbed) /\ (where \in Between => ~Undisturbed')
  <2>1. current \in Threads /\ at[current] = from
    BY <1>3, <1>4, RunsOne
  <2> QED
    BY <1>3, <1>4, <2>1, Moves DEF Undisturbed
<1>5. CASE UpdateAct \/ Update \/ ClockIrq
  BY <1>2, <1>5 DEF UpdateAct, Update, ClockIrq
<1>6. CASE UpdateEnd
  <2>1. Punctual' /\ (queue = {} \/ (RT \in Armed' /\ \A q \in queue : hwtime'[RT] < q.value + PkMin))
    BY <1>3, <1>6, AskedInTime DEF UpdateEnd, ptimer
  <2>2. Asked'
    BY <1>6, <2>1 DEF Asked, UpdateEnd, ptimer
  <2> QED
    BY <2>1, <2>2 DEF Served
<1>7. ASSUME NEW d \in Naps, SleepFor(d) PROVE Served'
  BY <1>4, <1>7, Places DEF SleepFor, Proceed, Served
<1>8. CASE Slept
  BY <1>1, <1>4, <1>8, Places DEF Slept, Reschedule, ptimer
<1>9. ASSUME NEW k \in PosixTimers, TimerCreate(k) \/ TimerDelete(k) PROVE Served'
  BY <1>1, <1>9 DEF TimerCreate, TimerDelete, TakeOut, kernel, Without, Undisturbed
<1>10. ASSUME NEW k \in PosixTimers, SetTime(k) PROVE Served'
  BY <1>1, <1>4, <1>10, Places DEF SetTime, TakeOut, Proceed, Without
<1>11. ASSUME NEW k \in PosixTimers, SetTimeOn(k) PROVE Served'
  <2>1. CASE Proceed(sched, <<"program">>)
    BY <1>4, <1>11, <2>1, Places DEF SetTimeOn, Proceed, Served
  <2>2. CASE Proceed(sched, User) /\ UNCHANGED ptimer
    BY <1>1, <1>4, <1>11, <2>2, Places DEF SetTimeOn, Proceed, ptimer
  <2> QED
    BY <1>11, <2>1, <2>2 DEF SetTimeOn
<1>12. ASSUME NEW t \in Threads, Kill(t) PROVE Served'
  BY <1>1, <1>4, <1>12, Places DEF Kill, Proceed, ptimer
<1>13. ASSUME NEW t \in Threads, DeviceIrq(t) PROVE Served'
  BY <1>1, <1>13 DEF DeviceIrq, ptimer, Undisturbed
<1>14. ASSUME NEW t \in Threads, StartThread(t) PROVE Served'
  BY <1>1, <1>4, <1>14, Places DEF StartThread, Create, Reschedule
<1>15. CASE AwaitDevice
  BY <1>1, <1>4, <1>15, Places DEF AwaitDevice, Reschedule, ptimer
<1>16. CASE XmHandler \/ TimePasses
  BY <1>16, HandlerKeeps, PassKeeps
<1>17. CASE UNCHANGED timeVars
  BY <1>1, <1>17 DEF timeVars, kernel, ptimer, Undisturbed
<1> QED
  BY <1>5, <1>6, <1>7, <1>8, <1>9, <1>10, <1>11, <1>12, <1>13, <1>14, <1>15, <1>16, <1>17
  DEF TimeNext

LEMMA SleepInvariant == TimeSpec => []SleepInv
<1>1. SleepInv /\ [TimeNext]_timeVars => SleepInv'
  BY QueueNext, TimerKept, FewNext, RunsNext, OwnedNext, TimesNext, ServedNext DEF SleepInv
<1> QED
  BY <1>1, SleepInit, PTL DEF TimeSpec

(* Outside XtratuM's handler and update_hwtimer, every timer is less than  *)
(* get_min_interval_xmtimer beyond its time: that much set_hwtimer_xmtimer *)
(* asks for at least.  A thread that was interrupted between arm_timer and *)
(* its update_hwtimer is excepted, as in OnTime.                           *)
THEOREM LateByLessThanMin ==
  TimeSpec => [](InRT /\ Undisturbed => \A q \in queue : now < q.value + PkMin)
<1>1. SleepInv => (InRT /\ Undisturbed => \A q \in queue : now < q.value + PkMin)
  BY DEF SleepInv, Served, Punctual, InRT
<1> QED
  BY <1>1, SleepInvariant, PTL

(* In units of that interval nobody sleeps, and no timer is silent, beyond *)
(* its time.                                                               *)
THEOREM NobodySleepsTooLong ==
  ASSUME PkMin = 1
  PROVE  TimeSpec => []OnTime
<1>1. SleepInv => OnTime
  <2> SUFFICES ASSUME SleepInv, InRT, Undisturbed, NEW q \in queue PROVE now <= q.value
    BY DEF OnTime, Undisturbed, Between
  <2>1. now < q.value + PkMin /\ now \in Nat /\ q.value \in Nat
    BY DEF SleepInv, Served, Punctual, InRT, TimerInv, TimeOK, Times
  <2> QED
    BY <2>1
<1> QED
  BY <1>1, SleepInvariant, PTL
=============================================================================
