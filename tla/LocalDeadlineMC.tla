-------------------------- MODULE LocalDeadlineMC --------------------------
(* Small instance of LocalDeadline.                                        *)
EXTENDS LocalDeadline, TLC

CONSTANTS t1, t2

Symmetry == Permutations(Thread)
=============================================================================
