------------------------------- MODULE MCSem -------------------------------
(***************************************************************************)
(* Instances of PkSem for TLC.                                             *)
(***************************************************************************)
EXTENDS PkSem

(* Created without attributes, all threads have MIN_SCHED_PRIORITY.        *)
AllLow == [t \in Threads |-> Lowest]

=============================================================================
