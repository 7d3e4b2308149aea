------------------------------ MODULE MCTimer ------------------------------
(***************************************************************************)
(* An instance of XmTimer for TLC.                                         *)
(***************************************************************************)
EXTENDS XmTimer
=============================================================================
