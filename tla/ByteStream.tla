----------------------------- MODULE ByteStream -----------------------------
(***************************************************************************)
(* What a FIFO promises: a stream of numbered bytes of which `queue' is    *)
(* under way.  A write adds the next bytes, a read takes the first ones,   *)
(* a flush drops what is under way.                                        *)
(***************************************************************************)
EXTENDS Naturals, Sequences

CONSTANT Capacity

VARIABLES
  queue, (* the bytes written and not yet read                             *)
  sent,  (* the number of bytes written                                    *)
  out    (* what the last read returned                                    *)

vars == <<queue, sent, out>>

Init ==
  /\ queue = <<>>
  /\ sent = 0
  /\ out = <<>>

Write(n) ==
  /\ n <= Capacity - Len(queue)
  /\ queue' = queue \o [i \in 1 .. n |-> sent + i]
  /\ sent' = sent + n
  /\ UNCHANGED out

Read(n) ==
  /\ n <= Len(queue)
  /\ out' = SubSeq(queue, 1, n)
  /\ queue' = SubSeq(queue, n + 1, Len(queue))
  /\ UNCHANGED sent

Flush ==
  /\ queue' = <<>>
  /\ UNCHANGED <<sent, out>>

Next == (\E n \in 0 .. Capacity : Write(n) \/ Read(n)) \/ Flush

Spec == Init /\ [][Next]_vars
=============================================================================
