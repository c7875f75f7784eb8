------------------------- MODULE LeaseOverlapCheck -------------------------
(***************************************************************************)
(* find_overlaps against what the documents say a conflict is: the claim   *)
(* of a lease in force and the claim of another that is submitted later.   *)
(***************************************************************************)
EXTENDS LeaseOverlap

CONSTANTS
    \* The claims that leases carry.
    ComparedClaim,
    NothingYet

ASSUME ComparedAssumption == ComparedClaim \subseteq ClaimDocument

VARIABLES held, submitted

ComparisonInit == held \in ComparedClaim /\ submitted = NothingYet

Submit ==
    /\ submitted = NothingYet
    /\ submitted' \in ComparedClaim
    /\ UNCHANGED held

Comparison == ComparisonInit /\ [][Submit]_<<held, submitted>>

-----------------------------------------------------------------------------
\* find_overlaps reports a conflict exactly when the two claims access one same
\* thing and one of them writes it: nothing shared is missed (_sets,
\* _merge_access, _combined_repository_access, _paths_overlap), and observers
\* are never kept apart.
OverlapExact ==
    submitted # NothingYet =>
        (ClaimsConflict(submitted, held) <=> DocumentedConflict(submitted, held))

\* The finalization exception (_validate_coordination_self_write): a claim that
\* may write its coordination repository excludes every other lease that uses
\* the same coordination repository, whatever else that lease claims.
SelfWriteExcludesParticipants ==
    submitted # NothingYet =>
        (/\ ReplaceableClaim(submitted) /\ IsCoordinationSelfWrite(submitted)
         /\ held.coordination_repository = submitted.coordination_repository
         => ClaimsConflict(submitted, held))
=============================================================================
