--------------------------- MODULE WriterGuardMC ---------------------------
(* Small instances of WriterGuard.                                         *)
EXTENDS WriterGuard, TLC

CONSTANTS a1, a2, g1, g2

Symmetry == Permutations(Admission) \union Permutations(GitCommand)
=============================================================================
