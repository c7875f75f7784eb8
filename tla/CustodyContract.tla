-------------------------- MODULE CustodyContract --------------------------
(***************************************************************************)
(* What the lock root promises to its users, without mutex, scans, locks   *)
(* or decisions: each lease id goes through at most one life, one          *)
(* generation at a time, and no two leases in force claim conflicting      *)
(* resources.                                                              *)
(***************************************************************************)
EXTENDS LeaseOverlap

CONSTANTS LeaseId, Claim, MaxGeneration

VARIABLE custody

Absent == [state |-> "ABSENT", generation |-> 0]
InForce(c, g) == [state |-> "ACTIVE", generation |-> g, claim |-> c]
Ended(c, g) == [state |-> "RELEASED", generation |-> g, claim |-> c]

\* No other lease in force conflicts with claim c.
Admissible(l, c) ==
    \A m \in LeaseId \ {l} :
        custody[m].state = "ACTIVE" => ~ClaimsConflict(c, custody[m].claim)

ContractInit == custody = [l \in LeaseId |-> Absent]

Grant(l, c) ==
    /\ custody[l] = Absent
    /\ AcquirableClaim(c)
    /\ Admissible(l, c)
    /\ custody' = [custody EXCEPT ![l] = InForce(c, 1)]

Change(l, c) ==
    /\ custody[l].state = "ACTIVE"
    /\ ReplaceableClaim(c)
    /\ c.schema = custody[l].claim.schema
    /\ Admissible(l, c)
    /\ custody' = [custody EXCEPT ![l] = InForce(c, custody[l].generation + 1)]

End(l) ==
    /\ custody[l].state = "ACTIVE"
    /\ custody' = [custody EXCEPT ![l] = Ended(custody[l].claim, custody[l].generation + 1)]

\* One lease id moves at a time.
ContractNext ==
    \E l \in LeaseId :
        /\ custody'[l] # custody[l]
        /\ End(l) \/ \E c \in Claim : Grant(l, c) \/ Change(l, c)

ContractSpec == ContractInit /\ [][ContractNext]_custody
=============================================================================
