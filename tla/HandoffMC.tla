----------------------------- MODULE HandoffMC -----------------------------
(* Small instance of Handoff: two issuer objects that retain one deadline. *)
EXTENDS Handoff

CONSTANTS i1, i2
=============================================================================
