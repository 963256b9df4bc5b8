----------------------- MODULE MCIncrementalJournal -----------------------
(* Two processes, two foreign keys with two definitions each, two          *)
(* configurations.                                                         *)
EXTENDS IncrementalJournal, TLC

CONSTANTS p, q, v1, v2
MCProcs == {p, q}
MCFks == {"f", "g"}
MCSourceDef == [f \in MCFks |-> v1]
Symmetry == Permutations(MCProcs)
===========================================================================
