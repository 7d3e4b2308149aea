----------------------------- MODULE XmDomList -----------------------------
(***************************************************************************)
(* The list of domains, xm_domain_list: a doubly linked list of nodes that *)
(* insert_domain_list keeps sorted by priority, 0 being the highest.  A    *)
(* list is a value; the module that has one as its state says when a node  *)
(* is inserted and removed.                                                *)
(***************************************************************************)
EXTENDS Integers, Sequences, FiniteSets

CONSTANTS
  Nodes,    (* the memory a domain_t can be in; vmalloc reuses it          *)
  Nil,      (* NULL                                                        *)
  Root,     (* the node of Linux, the root domain                          *)
  RootPrio, (* min_priority ()                                             *)
  Prios     (* priorities that domains are loaded with                     *)

ASSUME DomListAssumption ==
  /\ IsFiniteSet(Nodes) /\ Root \in Nodes /\ Nil \notin Nodes
  /\ RootPrio \in Nat /\ Prios \subseteq 0 .. RootPrio

(* A list: its head and what each node has in next, prev and priority.     *)
Lists == [head : Nodes \cup {Nil},
          next : [Nodes -> Nodes \cup {Nil}],
          prev : [Nodes -> Nodes \cup {Nil}],
          prio : [Nodes -> 0 .. RootPrio]]

(* xm_init: the root domain alone.                                         *)
RootList == [head |-> Root,
             next |-> [n \in Nodes |-> Nil],
             prev |-> [n \in Nodes |-> Nil],
             prio |-> [n \in Nodes |-> RootPrio]]

(* The nodes that a walk along next meets, in its order: those that        *)
(* search_domain_id_list finds.                                            *)
Walk(l) ==
  LET after == [m \in Nodes \cup {Nil} |-> IF m = Nil THEN Nil ELSE l.next[m]]
      met[i \in 1 .. Cardinality(Nodes)] == IF i = 1 THEN l.head ELSE after[met[i - 1]]
      length == Cardinality({i \in 1 .. Cardinality(Nodes) : met[i] # Nil})
  IN  [i \in 1 .. length |-> met[i]]

(* A pointer of a node is set, if there is a node.                         *)
Linked(f, n, m) == IF n = Nil THEN f ELSE [f EXCEPT ![n] = m]

(* Mutant: a node comes before those of its own priority.                  *)
StopEarly(l, p) ==
  LET w == Walk(l)
      stops == {i \in DOMAIN w : p <= l.prio[w[i]] \/ i = Len(w)}
  IN  w[CHOOSE i \in stops : \A j \in stops : i <= j]

(* Where the walk of insert_domain_list stops: at the first node of a      *)
(* lower priority than p, or at the last node.                             *)
Stop(l, p) ==
  LET w == Walk(l)
      stops == {i \in DOMAIN w : p < l.prio[w[i]] \/ i = Len(w)}
  IN  w[CHOOSE i \in stops : \A j \in stops : i <= j]

(* insert_domain_list of a node of priority p, whose pointers memset has   *)
(* cleared, into a list that is not empty.                                 *)
Inserted(l, n, p) ==
  LET q == Stop(l, p)
  IN  IF p < l.prio[q]
      THEN [head |-> IF l.head = q THEN n ELSE l.head,
            next |-> Linked([l.next EXCEPT ![n] = q], l.prev[q], n),
            prev |-> [l.prev EXCEPT ![n] = l.prev[q], ![q] = n],
            prio |-> [l.prio EXCEPT ![n] = p]]
      ELSE [head |-> l.head,
            next |-> [l.next EXCEPT ![n] = l.next[q], ![q] = n],
            prev |-> Linked([l.prev EXCEPT ![n] = q], l.next[q], n),
            prio |-> [l.prio EXCEPT ![n] = p]]

(* Mutant: the node that follows keeps its prev.                           *)
RemovedForward(l, n) ==
  [l EXCEPT !.head = IF @ = n THEN l.next[n] ELSE @,
            !.next = Linked(@, l.prev[n], l.next[n])]

(* remove_domain_list, and the node's memory given back: what it holds is  *)
(* written as cleared.                                                     *)
Removed(l, n) ==
  [head |-> IF l.head = n THEN l.next[n] ELSE l.head,
   next |-> [Linked(l.next, l.prev[n], l.next[n]) EXCEPT ![n] = Nil],
   prev |-> [Linked(l.prev, l.next[n], l.prev[n]) EXCEPT ![n] = Nil],
   prio |-> [l.prio EXCEPT ![n] = RootPrio]]
=============================================================================
