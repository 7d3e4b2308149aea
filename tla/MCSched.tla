------------------------------- MODULE MCSched -------------------------------
(***************************************************************************)
(* Instances of XmSched for TLC.                                           *)
(***************************************************************************)
EXTENDS XmSched
=============================================================================
