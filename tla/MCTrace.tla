------------------------------ MODULE MCTrace ------------------------------
(***************************************************************************)
(* Instances of XmTrace for TLC.                                           *)
(***************************************************************************)
EXTENDS XmTrace
=============================================================================
