------------------------------- MODULE MCTime -------------------------------
(***************************************************************************)
(* Instances of PkTime for TLC.                                            *)
(***************************************************************************)
EXTENDS PkTime

(* The main thread is the lower one.                                       *)
OthersHigher == [t \in Threads |-> IF t = Main THEN Lowest ELSE 0]
=============================================================================
