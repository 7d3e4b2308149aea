---------------------------- MODULE DomainOrder ----------------------------
(***************************************************************************)
(* What the list of domains promises to the scheduler: the domains in the  *)
(* order of their priorities, those of one priority in the order in which  *)
(* they were loaded, and nothing lost when one comes or goes.              *)
(***************************************************************************)
EXTENDS Integers, Sequences

CONSTANTS Domains, First, Priorities, LowestPrio

VARIABLE order  (* the domains with their priorities, the highest first    *)

Init == order = <<[dom |-> First, prio |-> LowestPrio]>>

Listed == {order[i].dom : i \in DOMAIN order}

(* d goes behind every domain of its priority or a higher one.             *)
Insert(d, p) ==
  /\ d \notin Listed
  /\ \E k \in 0 .. Len(order) :
       /\ \A i \in 1 .. k : order[i].prio <= p
       /\ \A i \in k + 1 .. Len(order) : p < order[i].prio
       /\ order' = SubSeq(order, 1, k) \o <<[dom |-> d, prio |-> p]>>
                   \o SubSeq(order, k + 1, Len(order))

Remove(d) ==
  /\ d # First
  /\ \E k \in 1 .. Len(order) :
       /\ order[k].dom = d
       /\ order' = SubSeq(order, 1, k - 1) \o SubSeq(order, k + 1, Len(order))

Next == \E d \in Domains : (\E p \in Priorities : Insert(d, p)) \/ Remove(d)

Spec == Init /\ [][Next]_order
=============================================================================
