---------------------------- MODULE RunStatusMC ----------------------------
(* Small instances of RunStatus.                                           *)
EXTENDS RunStatus, TLC

CONSTANTS c1, c2

Symmetry == Permutations(Caller)
=============================================================================
