----------------------------- MODULE MCThreads -----------------------------
(***************************************************************************)
(* Instances of PkThreads for TLC.                                         *)
(***************************************************************************)
EXTENDS PkThreads

CONSTANT Recursive  (* the recursive mutexes *)

OthersAlike == Permutations(Threads \ {Main})

(* Priorities and mutexes.  The default initializer of a mutex protects it *)
(* with ceiling 0.                                                         *)
OthersAbove == [t \in Threads |-> IF t = Main THEN Lowest ELSE Lowest - 1]
AllHighCeiling == [m \in Mutexes |-> 0]
Kinds == [m \in Mutexes |-> IF m \in Recursive THEN "recursive" ELSE "normal"]
=============================================================================
