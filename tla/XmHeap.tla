------------------------------- MODULE XmHeap -------------------------------
(***************************************************************************)
(* timer_heap: the domains with a timer, in a binary heap by expiry.  A    *)
(* heap is a record of `array' and `nelem'; `key' is the hwtime of each    *)
(* domain, which the heap reads through its pointers.                      *)
(***************************************************************************)
EXTENDS Integers

CONSTANTS
  Doms,   (* the domains                                                   *)
  None,   (* NULL                                                          *)
  MaxElem (* bound: one cell more than the heap ever uses                  *)

Cells == 1 .. MaxElem

EmptyHeap == [array |-> [i \in Cells |-> None], nelem |-> 0]

Elements(h) == {h.array[i] : i \in 1 .. h.nelem}

(* Replacing array[i] by v.                                                *)
Put(h, i, v) == [h EXCEPT !.array[i] = v]

(* The smaller child.                                                      *)
Chosen(h, key, i) ==
  IF key[h.array[2 * i + 1]] < key[h.array[2 * i]]
  THEN 2 * i + 1 ELSE 2 * i

(* heapify: array[top] sinks to the place of its smaller child until it is *)
(* smaller than both, along these cells.                                   *)
Path(h, key, top) ==
  LET v == h.array[top]
      Passes[i \in Cells] ==
        \/ i = top
        \/ /\ i > top
           /\ 2 * (i \div 2) <= h.nelem
           /\ Passes[i \div 2]
           /\ i = Chosen(h, key, i \div 2)
           /\ ~(key[v] < key[h.array[i]])
  IN  Passes

Heapify(h, key, top) ==
  LET Passes == Path(h, key, top)
      Below(i) == {c \in Cells : c \div 2 = i /\ c > 1 /\ Passes[c]}
  IN  [h EXCEPT !.array = [i \in Cells |->
        IF ~Passes[i] THEN h.array[i]
        ELSE IF Below(i) = {} THEN h.array[top]
        ELSE h.array[CHOOSE c \in Below(i) : TRUE]]]

(* HEAP_min                                                                *)
Least(h) == IF h.nelem > 0 THEN h.array[1] ELSE None

(* HEAP_remove_min, of a heap that is not empty.                           *)
RemoveMin(h, key) ==
  Heapify([Put(h, 1, h.array[h.nelem]) EXCEPT !.nelem = @ - 1], key, 1)

(* Mutant: the search stops before the last element.                       *)
RemoveButLast(h, key, k) ==
  IF h.nelem < 2 \/ \A j \in 1 .. h.nelem - 1 : h.array[j] # k THEN h
  ELSE LET i == CHOOSE j \in 1 .. h.nelem - 1 : h.array[j] = k
       IN  Heapify([Put(h, i, h.array[h.nelem]) EXCEPT !.nelem = @ - 1], key, i)

(* HEAP_remove_element: the last element takes the place of k and sinks.   *)
RemoveElement(h, key, k) ==
  IF k \notin Elements(h) THEN h
  ELSE IF h.nelem = 1 THEN [Put(h, 1, None) EXCEPT !.nelem = 0]
  ELSE LET i == CHOOSE j \in 1 .. h.nelem : h.array[j] = k
       IN  Heapify([Put(h, i, h.array[h.nelem]) EXCEPT !.nelem = @ - 1], key, i)

(* The last element has a greater father where k was, and does not rise.   *)
Misplaces(h, key, k) ==
  \E i \in 2 .. h.nelem :
    h.array[i] = k /\ key[h.array[h.nelem]] < key[h.array[i \div 2]]

(* Mutant: k is put behind the last element and stays there.               *)
InsertLast(h, key, k) ==
  LET g == RemoveElement(h, key, k)
  IN  [Put(g, g.nelem + 1, k) EXCEPT !.nelem = @ + 1]

(* The cells that k passes on its way up from behind the last element:     *)
(* those of fathers that are larger.                                       *)
Rising(h, key, k) ==
  LET last == h.nelem + 1
      Rises[i \in 1 .. last] ==
        \/ i = last
        \/ /\ key[k] < key[h.array[i]]
           /\ \E c \in {2 * i, 2 * i + 1} : c <= last /\ Rises[c]
  IN  Rises

(* HEAP_insert: any other instance of k is removed, then k rises.          *)
Insert(h, key, k) ==
  LET g == RemoveElement(h, key, k)
      last == g.nelem + 1
      Rises == Rising(g, key, k)
  IN  [array |-> [i \in Cells |->
         IF i > last \/ ~Rises[i] THEN g.array[i]
         ELSE IF i > 1 /\ Rises[i \div 2] THEN g.array[i \div 2]
         ELSE k],
       nelem |-> last]
=============================================================================
