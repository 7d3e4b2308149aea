----------------------------- MODULE MCObjects -----------------------------
(***************************************************************************)
(* An instance of XmVuart, and of XmLoad below it, for TLC.                *)
(***************************************************************************)
EXTENDS XmVuart, TLC

CONSTANTS L, a, b, c

MCNodes == {L, a, b, c}
MCPrios == {0, 1}
MCDevices == <<"fifo", "serial">>
MCSymmetry == Permutations({a, b, c})
=============================================================================
