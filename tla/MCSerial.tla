------------------------------ MODULE MCSerial ------------------------------
(***************************************************************************)
(* An instance of XmSerial for TLC: line 0 belongs to Linux, line 1 to a   *)
(* domain above the driver.                                                *)
(***************************************************************************)
EXTENDS XmSerial

MCLines == {0, 1}
MCAbove == {1}
MCPrio == [v \in MCLines |-> 1 - v]
MCMaxBytes == [v \in MCLines |-> 4 - 3 * v]
MCWrites == [v \in MCLines |-> IF v = 0 THEN {2} ELSE {1}]

(* One of Linux's bytes could be line 1's number; line 1 sends zeros, as   *)
(* swrite.c does.                                                          *)
MCData(v, n) == IF v = 0 THEN (IF n = 2 THEN 1 ELSE 65) ELSE 0
=============================================================================
