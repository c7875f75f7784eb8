-------------------------- MODULE CustodyObstacles --------------------------
(***************************************************************************)
(* What stands against an admission under way: evidence that does not      *)
(* verify, an instant its authority is not made for, a lease that reserves *)
(* what it claims.  Each may come and go while the operation runs, and the *)
(* operation looks for it at several points (leases.py: the calls of       *)
(* _verify_bound_lease_decision and _validate_release_authority, the       *)
(* overlap scan, before_publish).  This module runs LeaseCustody and       *)
(* remembers which obstacles have stood without a break since before the   *)
(* operation looked for them for the last time.                            *)
(***************************************************************************)
EXTENDS LeaseCustody

\* An obstacle in the way of a process: the record of a lease, or something the
\* matter with its own candidate.
Obstacle ==
    [process : Process, kind : {"lease"}, lease : LeaseId]
        \union [process : Process, kind : {"evidence", "time"}]

VARIABLE
    \* The obstacles that have stood since before the last look for them.
    standing

\* The candidate's decision chain does not verify.
EvidenceGone(p) ==
    LET candidate == job[p].candidate
    IN  /\ job[p].op = "release" => IsV2(candidate)
        /\ \E k \in 1 .. candidate.generation : <<candidate.lease_id, k>> \in revoked

\* A lease to be acquired has expired, or a release carries the authority for the
\* other side of the expiry.
WrongTime(p) ==
    LET candidate == job[p].candidate
        expired == clock > candidate.expires
    IN  /\ IsV2(candidate)
        /\ \/ job[p].op = "acquire" /\ expired
           \/ /\ job[p].op = "release"
              /\ candidate.release_authority = IF expired THEN "NORMAL" ELSE "STALE_RECOVERY"

\* Another lease reserves something the candidate's claim conflicts with: it is in
\* force, or half published, or its terminal evidence has gone after its release.
Reserved(p, l) ==
    LET candidate == job[p].candidate
        r == records[l]
    IN  /\ job[p].op # "release"
        /\ l # candidate.lease_id /\ r # NoRecord
        /\ \/ r.state = "ACTIVE" \/ l \in torn
           \/ IsV2(r) /\ \E k \in 1 .. r.generation : <<l, k>> \in revoked
        /\ DocumentedConflict(candidate.claim, r.claim)

Underway == {"prepared"} \union (CriticalSection \ {"leaving", "unguarded"})
Stands(o) ==
    /\ pc[o.process] \in Underway
    /\ \/ o.kind = "evidence" /\ EvidenceGone(o.process)
       \/ o.kind = "time" /\ WrongTime(o.process)
       \/ o.kind = "lease" /\ Reserved(o.process, o.lease)

\* The operation has yet to look for the last time: for leases it does so in the
\* scan, for evidence before it archives or stages, for the time as it stages (a
\* release looks for its evidence once more then).
LookAhead(o) ==
    LET p == o.process
    IN  \/ pc[p] \in {"prepared", "admitted", "examined", "guarded"}
        \/ o.kind # "lease" /\ pc[p] = "scanned"
        \/ o.kind = "time" /\ pc[p] = "verified"
        \/ o.kind = "evidence" /\ pc[p] = "verified" /\ job[p].op = "release"

TrackedInit == Init /\ standing = {}
Track == standing' = {o \in Obstacle : Stands(o)' /\ (o \in standing \/ LookAhead(o)')}
TrackedNext == Next /\ Track
TrackedSpec == TrackedInit /\ [][TrackedNext]_<<vars, standing>>

\* acquire, replace, release: no record is published over an obstacle that stood
\* all the time since before the last look for it, whatever came and went
\* meanwhile: expiry, evidence edited while the admission is under way, evidence
\* of another lease that is lost after its release.
NothingStoodInTheWay ==
    [][records' # records => \A o \in standing : o.process # mutex]_<<vars, standing>>
=============================================================================
