------------------------------- MODULE MCFifo -------------------------------
(***************************************************************************)
(* Instances of XmFifo for TLC.                                            *)
(***************************************************************************)
EXTENDS XmFifo
=============================================================================
