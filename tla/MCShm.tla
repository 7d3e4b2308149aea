------------------------------- MODULE MCShm -------------------------------
(***************************************************************************)
(* An instance of XmShm for TLC.                                           *)
(***************************************************************************)
EXTENDS XmShm

CONSTANTS n0, n1

MCNames == {n0, n1}
MCTraceNames == <<n0>>
MCFileNames == {n1}

(* Bound: only segment 0 is made smaller.  What a truncation leaves behind *)
(* lies in the page tables of that segment's clients.                      *)
OneCut == \A s \in Segs : s > 0 => seg[s].size \in {0, MaxPages}
=============================================================================
