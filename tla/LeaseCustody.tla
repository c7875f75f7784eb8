---------------------------- MODULE LeaseCustody ----------------------------
(***************************************************************************)
(* Lease admission over a shared lock root (leases.py with the admission   *)
(* mutex and atomic publication of util.py).  Several processes acquire,   *)
(* replace and release lease records.  Each operation is cut where another *)
(* process, the clock, the evidence files or a crash can intervene:        *)
(*                                                                         *)
(*   prepared -> admitted -> examined -> guarded -> scanned -> verified    *)
(*     -> (archiving -> archived) -> staged -> (linked) -> leaving         *)
(*     -> unguarded -> idle                                                *)
(*                                                                         *)
(* Everything from "admitted" to "unguarded" runs inside the mutex         *)
(* directory.  A lease operation that raises leaves through "leaving".     *)
(***************************************************************************)
EXTENDS LeaseOverlap

CONSTANTS
    \* The processes that call acquire, replace and release.
    Process,
    \* Lease ids, distinct under casefold.
    LeaseId,
    \* The claims candidate documents may carry.
    Claim,
    \* Expiry instants candidate documents may carry.
    Expiry,
    \* The largest generation a document may carry (2^53 - 1 in the code).
    MaxGeneration,
    \* The last instant the clock reaches.
    Horizon,
    \* How many evidence documents may be invalid at once.
    RevocationBound,
    NoRecord, NoJob, NoClaim, Free, Orphan

ASSUME ClaimAssumption == Claim \subseteq ClaimDocument
ASSUME TimeAssumption == Horizon \in Nat /\ Expiry \subseteq Nat
ASSUME GenerationAssumption == MaxGeneration \in Nat \ {0}
VARIABLES
    \* The lease record file of each lease id.
    records,
    \* Record files that still have the temporary name as a second hard link.
    torn,
    \* lease-history/<lease>/<generation>.json.
    archive,
    \* Archive files with a second hard link.
    tornArchive,
    \* .repo-set-admission.mutex: absent, held by a live process, or left behind.
    mutex,
    \* The Git admission locks of each writer worktree, taken as one.
    gitLock,
    \* Decision documents (per lease and generation) that do not verify now.
    revoked,
    \* UTC wall clock.
    clock,
    \* Where each process is in its operation.
    pc,
    \* The operation and candidate document of each process.
    job,
    \* The current record each process read under the mutex.
    seen

store == <<records, torn, archive, tornArchive>>
locks == <<mutex, gitLock>>
environment == <<revoked, clock>>
control == <<pc, job, seen>>
vars == <<records, torn, archive, tornArchive, mutex, gitLock, revoked, clock,
          pc, job, seen>>

Generation == 1 .. MaxGeneration

\* "follows" identifies the claim the predecessor decision authorised; a
\* decision is identified by its generation and the claim it covers.
Record ==
    [lease_id : LeaseId, state : {"ACTIVE", "RELEASED"}, generation : Generation,
     claim : Claim, follows : Claim \union {NoClaim}, expires : Nat,
     release_authority : {"NONE", "NORMAL", "STALE_RECOVERY"}, released : Nat]

Operation == {"acquire", "replace", "release"}
Job == [op : Operation, candidate : Record]

ASSUME ModelValueAssumption ==
    /\ Free \notin Process /\ Orphan \notin Process /\ Free # Orphan
    /\ NoRecord \notin Record /\ NoJob \notin Job

CriticalSection ==
    {"admitted", "examined", "guarded", "scanned", "verified", "archiving",
     "archived", "staged", "linked", "leaving", "unguarded"}
GuardedSection ==
    {"guarded", "scanned", "verified", "archiving", "archived", "staged",
     "linked", "leaving"}
PC == {"idle", "prepared"} \union CriticalSection

-----------------------------------------------------------------------------
(* Documents.                                                              *)

ActiveCandidate(l, g, c, f, e) ==
    [lease_id |-> l, state |-> "ACTIVE", generation |-> g, claim |-> c,
     follows |-> f, expires |-> e, release_authority |-> "NONE", released |-> 0]

TerminalCandidate(r, authority, t) ==
    [lease_id |-> r.lease_id, state |-> "RELEASED", generation |-> r.generation + 1,
     claim |-> r.claim, follows |-> r.follows, expires |-> r.expires,
     release_authority |-> authority, released |-> t]

IsV2(r) == r.claim.schema = "v2"

\* _validate_v2_lifecycle on a terminal document.
TerminalLifecycle(r) ==
    IsV2(r) =>
        \/ r.release_authority = "NORMAL" /\ r.released <= r.expires
        \/ r.release_authority = "STALE_RECOVERY" /\ r.released > r.expires

\* verify_decision: the document of generation g and its whole predecessor
\* chain down to sequence 1 are accepted and match their companions.
DecisionVerified(l, g) == \A k \in 1 .. g : <<l, k>> \notin revoked

\* _terminal_record_is_valid: v1 structurally, v2 with its evidence.
TerminalRecordIsValid(r) ==
    IsV2(r) => r.released <= clock /\ DecisionVerified(r.lease_id, r.generation)

\* What a record still reserves for the overlap scan: everything, unless it is
\* an ordinary, valid terminal record.  (Faulty variants: expiry frees a lease; a
\* terminal record frees it whatever has become of its evidence.)
HoldsUntilExpiry(l) ==
    /\ records[l] # NoRecord
    /\ records[l].state = "ACTIVE" => clock <= records[l].expires
    /\ ~ /\ records[l].state = "RELEASED"
         /\ l \notin torn
         /\ TerminalRecordIsValid(records[l])
HoldsUntilReleased(l) ==
    /\ records[l] # NoRecord
    /\ ~ (records[l].state = "RELEASED" /\ l \notin torn)
HoldsResources(l) ==
    /\ records[l] # NoRecord
    /\ ~ /\ records[l].state = "RELEASED"
         /\ l \notin torn
         /\ TerminalRecordIsValid(records[l])

\* find_overlaps: other holders the candidate conflicts with, and a record
\* that reserves the same lease id (which replacement excludes by path).
FindOverlaps(candidate, excluding) ==
    {l \in LeaseId \ excluding :
        \/ HoldsResources(l) /\ ClaimsConflict(candidate.claim, records[l].claim)
        \/ records[l] # NoRecord /\ l = candidate.lease_id}

\* _writer_git_lock_paths: the worktree an ACTIVE v2 document (or a v1
\* coordination self-write) binds.
GuardedWriters(r) ==
    IF IsV2(r) \/ IsCoordinationSelfWrite(r.claim) THEN Writers(r.claim) ELSE {}

-----------------------------------------------------------------------------
(* Authority.                                                              *)

\* The ACTIVE record whose worktree the operation of p binds.
Bound(p, current) == IF job[p].op = "release" THEN current ELSE job[p].candidate

\* (Faulty variant: any accepted decision for the generation will do.)
UnchainedAuthority(candidate, current) ==
    DecisionVerified(candidate.lease_id, candidate.generation)
ReplacementAuthority(candidate, current) ==
    /\ DecisionVerified(candidate.lease_id, candidate.generation)
    /\ IsV2(candidate) => candidate.follows = current.claim

\* Which terminal authority the current instant calls for.
RequiredAuthority(r) == IF clock > r.expires THEN "STALE_RECOVERY" ELSE "NORMAL"

ReleaseAuthorityAtAnyInstant(candidate, current) ==
    IsV2(current) => DecisionVerified(candidate.lease_id, candidate.generation)
ReleaseAuthority(candidate, current) ==
    IsV2(current) =>
        /\ candidate.released <= clock
        /\ candidate.release_authority = RequiredAuthority(current)
        /\ DecisionVerified(candidate.lease_id, candidate.generation)

Authorised(p, current) ==
    LET candidate == job[p].candidate
    IN  CASE job[p].op = "acquire" -> DecisionVerified(candidate.lease_id, 1)
          [] job[p].op = "replace" -> ReplacementAuthority(candidate, current)
          [] job[p].op = "release" -> ReleaseAuthority(candidate, current)

\* _require_unexpired_acquisition: only v2, only acquisition.
Unexpired(candidate) == IsV2(candidate) => clock <= candidate.expires

\* before_publish of the atomic write.  (Faulty variant: a release has none.)
AcquisitionCheck(p) ==
    job[p].op = "acquire" => Unexpired(job[p].candidate)
PublicationCheck(p) ==
    CASE job[p].op = "acquire" -> Unexpired(job[p].candidate)
      [] job[p].op = "replace" -> TRUE
      [] job[p].op = "release" -> ReleaseAuthority(job[p].candidate, seen[p])

\* The record file read under the mutex: an ordinary single-link entry that is
\* ACTIVE at the expected generation, of the candidate's schema.  (Faulty
\* variant: expected_generation is ignored.)
AnyActiveRecord(p) ==
    LET r == records[job[p].candidate.lease_id]
    IN  r # NoRecord /\ r.state = "ACTIVE"
CurrentMatches(p) ==
    LET candidate == job[p].candidate
        r == records[candidate.lease_id]
    IN  /\ r # NoRecord
        /\ candidate.lease_id \notin torn
        /\ r.state = "ACTIVE"
        /\ r.generation + 1 = candidate.generation
        /\ r.claim.schema = candidate.claim.schema

\* A v2 replacement keeps the coordination repository; a terminal candidate
\* keeps every resource, the expiry and the decision of the current record.
PreservesIdentity(candidate, current) ==
    IF candidate.state = "RELEASED"
    THEN /\ candidate.claim = current.claim
         /\ candidate.follows = current.follows
         /\ candidate.expires = current.expires
    ELSE IsV2(candidate) =>
            candidate.claim.coordination_repository = current.claim.coordination_repository

EntryUnchanged(p) ==
    job[p].op = "acquire" \/ records[job[p].candidate.lease_id] = seen[p]

GitLocksFree(r) == \A w \in GuardedWriters(r) : gitLock[w] = Free

\* The operations that verify the writer binding once more before the guard:
\* acquire did so before the mutex, a v1 release does so only under the guard.
BoundBeforeGuard(p, current) ==
    job[p].op = "replace" \/ (job[p].op = "release" /\ IsV2(current))

-----------------------------------------------------------------------------
TypeOK ==
    /\ records \in [LeaseId -> Record \union {NoRecord}]
    /\ torn \subseteq LeaseId
    /\ archive \in [LeaseId -> [Generation -> Record \union {NoRecord}]]
    /\ tornArchive \subseteq LeaseId \X Generation
    /\ mutex \in Process \union {Free, Orphan}
    /\ gitLock \in [Repository -> Process \union {Free, Orphan}]
    /\ revoked \subseteq LeaseId \X Generation
    /\ clock \in Nat
    /\ pc \in [Process -> PC]
    /\ job \in [Process -> Job \union {NoJob}]
    /\ seen \in [Process -> Record \union {NoRecord}]

Init ==
    /\ records = [l \in LeaseId |-> NoRecord]
    /\ torn = {}
    /\ archive = [l \in LeaseId |-> [g \in Generation |-> NoRecord]]
    /\ tornArchive = {}
    /\ mutex = Free
    /\ gitLock = [w \in Repository |-> Free]
    /\ revoked = {}
    /\ clock = 0
    /\ pc = [p \in Process |-> "idle"]
    /\ job = [p \in Process |-> NoJob]
    /\ seen = [p \in Process |-> NoRecord]

Goto(p, label) == pc' = [pc EXCEPT ![p] = label]

-----------------------------------------------------------------------------
(* Preparation: candidate documents are drafted from what the caller       *)
(* observed, and validated before the mutex.                               *)

Draft(p, op, candidate) ==
    /\ pc[p] = "idle"
    /\ job' = [job EXCEPT ![p] = [op |-> op, candidate |-> candidate]]
    /\ Goto(p, "prepared")
    /\ UNCHANGED <<store, locks, environment, seen>>

PrepareAcquire(p) ==
    \E l \in LeaseId, c \in Claim, e \in Expiry :
        LET candidate == ActiveCandidate(l, 1, c, NoClaim, e)
        IN  /\ AcquirableClaim(c)
            /\ Unexpired(candidate)
            /\ DecisionVerified(l, 1)
            /\ GitLocksFree(candidate)
            /\ Draft(p, "acquire", candidate)

PrepareReplaceWithoutLimit(p) ==
    \E l \in LeaseId, c \in Claim, f \in Claim, e \in Expiry :
        /\ records[l] # NoRecord
        /\ ReplaceableClaim(c)
        /\ Draft(p, "replace",
                 ActiveCandidate(l, records[l].generation + 1, c, f, e))
PrepareReplace(p) ==
    \E l \in LeaseId, c \in Claim, f \in Claim, e \in Expiry :
        /\ records[l] # NoRecord
        /\ records[l].generation < MaxGeneration
        /\ ReplaceableClaim(c)
        /\ Draft(p, "replace",
                 ActiveCandidate(l, records[l].generation + 1, c, f, e))

PrepareRelease(p) ==
    \E l \in LeaseId, authority \in {"NORMAL", "STALE_RECOVERY", "NONE"}, t \in 0 .. Horizon :
        /\ records[l] # NoRecord
        /\ records[l].generation < MaxGeneration
        /\ (authority = "NONE") = ~IsV2(records[l])
        /\ TerminalLifecycle(TerminalCandidate(records[l], authority, t))
        /\ Draft(p, "release", TerminalCandidate(records[l], authority, t))

-----------------------------------------------------------------------------
(* The admission mutex.                                                    *)

\* (Faulty variant: an existing mutex directory is accepted.)
EnterRegardless(p) ==
    /\ pc[p] = "prepared"
    /\ mutex' = p
    /\ Goto(p, "admitted")
    /\ UNCHANGED <<store, gitLock, environment, job, seen>>
Enter(p) ==
    /\ pc[p] = "prepared"
    /\ mutex = Free
    /\ mutex' = p
    /\ Goto(p, "admitted")
    /\ UNCHANGED <<store, gitLock, environment, job, seen>>

\* mkdir found the directory: the operation fails at once, it does not wait.
Refused(p) ==
    /\ pc[p] = "prepared"
    /\ mutex # Free
    /\ Goto(p, "idle")
    /\ job' = [job EXCEPT ![p] = NoJob]
    /\ UNCHANGED <<store, locks, environment, seen>>

\* The mutex directory is removed.
Exit(p) ==
    /\ pc[p] = "unguarded"
    /\ mutex' = Free
    /\ Goto(p, "idle")
    /\ job' = [job EXCEPT ![p] = NoJob]
    /\ seen' = [seen EXCEPT ![p] = NoRecord]
    /\ UNCHANGED <<store, gitLock, environment>>

-----------------------------------------------------------------------------
(* Inside the mutex.                                                       *)

\* Read the current record (replace, release) and check it, the candidate, the
\* authority and, still without locks, the writer binding.
Examine(p) ==
    LET current == records[job[p].candidate.lease_id]
    IN  /\ pc[p] = "admitted"
        /\ job[p].op # "acquire" =>
              CurrentMatches(p) /\ PreservesIdentity(job[p].candidate, current)
        /\ seen' = [seen EXCEPT ![p] = IF job[p].op = "acquire" THEN NoRecord ELSE current]
        /\ Authorised(p, current)
        /\ BoundBeforeGuard(p, current) => GitLocksFree(Bound(p, current))
        /\ Goto(p, "examined")
        /\ UNCHANGED <<store, locks, environment, job>>

\* _writer_git_admission_guard enters.  (Faulty variant: it creates no lock.)
SkipGuard(p) ==
    /\ pc[p] = "examined"
    /\ Goto(p, "guarded")
    /\ UNCHANGED <<store, locks, environment, job, seen>>
Guard(p) ==
    /\ pc[p] = "examined"
    /\ GitLocksFree(Bound(p, seen[p]))
    /\ gitLock' = [w \in Repository |->
                      IF w \in GuardedWriters(Bound(p, seen[p])) THEN p ELSE gitLock[w]]
    /\ Goto(p, "guarded")
    /\ UNCHANGED <<store, mutex, environment, job, seen>>

\* The overlap scan; a release re-validates its authority instead.
Scan(p) ==
    LET candidate == job[p].candidate
    IN  /\ pc[p] = "guarded"
        /\ CASE job[p].op = "acquire" -> FindOverlaps(candidate, {}) = {}
             [] job[p].op = "replace" -> FindOverlaps(candidate, {candidate.lease_id}) = {}
             [] job[p].op = "release" -> Authorised(p, seen[p])
        /\ Goto(p, "scanned")
        /\ UNCHANGED <<store, locks, environment, job, seen>>

\* Authority again, and the record file is still the one read.  (Faulty variant:
\* the authority is not looked at again.)
VerifyEntry(p) ==
    /\ pc[p] = "scanned"
    /\ EntryUnchanged(p)
    /\ Goto(p, "verified")
    /\ UNCHANGED <<store, locks, environment, job, seen>>
Verify(p) ==
    /\ pc[p] = "scanned"
    /\ Authorised(p, seen[p])
    /\ EntryUnchanged(p)
    /\ Goto(p, "verified")
    /\ UNCHANGED <<store, locks, environment, job, seen>>

\* _preserve_previous_candidate: create the archive entry of the current
\* generation, or find the identical ordinary file already there.  (Faulty
\* variant: the candidate is archived over what is there.)
OverwriteArchive(p) ==
    LET l == seen[p].lease_id
        g == seen[p].generation
    IN  /\ pc[p] = "verified"
        /\ job[p].op = "replace" /\ IsV2(seen[p])
        /\ archive' = [archive EXCEPT ![l][g] = job[p].candidate]
        /\ Goto(p, "archived")
        /\ UNCHANGED <<records, torn, tornArchive, locks, environment, job, seen>>
Archive(p) ==
    LET l == seen[p].lease_id
        g == seen[p].generation
    IN  /\ pc[p] = "verified"
        /\ job[p].op = "replace" /\ IsV2(seen[p])
        /\ \/ /\ archive[l][g] = NoRecord
              /\ archive' = [archive EXCEPT ![l][g] = seen[p]]
              /\ tornArchive' = tornArchive \union {<<l, g>>}
              /\ Goto(p, "archiving")
           \/ /\ archive[l][g] = seen[p]
              /\ <<l, g>> \notin tornArchive
              /\ Goto(p, "archived")
              /\ UNCHANGED <<archive, tornArchive>>
        /\ UNCHANGED <<records, torn, locks, environment, job, seen>>

SettleArchive(p) ==
    /\ pc[p] = "archiving"
    /\ tornArchive' = tornArchive \ {<<seen[p].lease_id, seen[p].generation>>}
    /\ Goto(p, "archived")
    /\ UNCHANGED <<records, torn, archive, locks, environment, job, seen>>

\* The temporary file is flushed and the before_publish callback runs.
Stage(p) ==
    /\ \/ pc[p] = "verified" /\ ~(job[p].op = "replace" /\ IsV2(seen[p]))
       \/ pc[p] = "archived" /\ EntryUnchanged(p)
    /\ PublicationCheck(p)
    /\ Goto(p, "staged")
    /\ UNCHANGED <<store, locks, environment, job, seen>>

\* os.link for a new record, os.replace for an existing one.
Publish(p) ==
    LET candidate == job[p].candidate
        l == candidate.lease_id
    IN  /\ pc[p] = "staged"
        /\ records' = [records EXCEPT ![l] = candidate]
        /\ IF job[p].op = "acquire"
           THEN records[l] = NoRecord /\ torn' = torn \union {l} /\ Goto(p, "linked")
           ELSE UNCHANGED torn /\ Goto(p, "leaving")
        /\ UNCHANGED <<archive, tornArchive, locks, environment, job, seen>>

\* The temporary name is unlinked.
Settle(p) ==
    /\ pc[p] = "linked"
    /\ torn' = torn \ {job[p].candidate.lease_id}
    /\ Goto(p, "leaving")
    /\ UNCHANGED <<records, archive, tornArchive, locks, environment, job, seen>>

\* Any check that fails or I/O that raises, before or after publication.  (Faulty
\* variant: an admission that meets a Git lock waits until it has gone.)
AbortPatiently(p) ==
    /\ pc[p] \in CriticalSection \ {"leaving", "unguarded"}
    /\ pc[p] = "examined" => GitLocksFree(Bound(p, seen[p]))
    /\ Goto(p, "leaving")
    /\ UNCHANGED <<store, locks, environment, job, seen>>
Abort(p) ==
    /\ pc[p] \in CriticalSection \ {"leaving", "unguarded"}
    /\ Goto(p, "leaving")
    /\ UNCHANGED <<store, locks, environment, job, seen>>

\* The guard removes the Git locks it owns.
Unguard(p) ==
    /\ pc[p] = "leaving"
    /\ gitLock' = [w \in Repository |-> IF gitLock[w] = p THEN Free ELSE gitLock[w]]
    /\ Goto(p, "unguarded")
    /\ UNCHANGED <<store, mutex, environment, job, seen>>

-----------------------------------------------------------------------------
(* Crashes, operators, evidence, time.                                     *)

\* The process dies: its mutex directory and Git locks stay where they are.
Crash(p) ==
    /\ pc[p] # "idle"
    /\ Goto(p, "idle")
    /\ job' = [job EXCEPT ![p] = NoJob]
    /\ seen' = [seen EXCEPT ![p] = NoRecord]
    /\ mutex' = IF mutex = p THEN Orphan ELSE mutex
    /\ gitLock' = [w \in Repository |-> IF gitLock[w] = p THEN Orphan ELSE gitLock[w]]
    /\ UNCHANGED <<store, environment>>

\* A human clears a mutex after proving that no admission is active.
ClearMutex ==
    /\ mutex = Orphan
    /\ mutex' = Free
    /\ UNCHANGED <<store, gitLock, environment, control>>

\* A human removes the Git locks a crash left behind.
ClearGitLocks ==
    /\ \E w \in Repository : gitLock[w] = Orphan
    /\ gitLock' = [w \in Repository |-> IF gitLock[w] = Orphan THEN Free ELSE gitLock[w]]
    /\ UNCHANGED <<store, mutex, environment, control>>

\* A decision, its Markdown companion or an outcome file is edited, or put back.
Revoke ==
    /\ Cardinality(revoked) < RevocationBound
    /\ \E l \in LeaseId, g \in Generation : revoked' = revoked \union {<<l, g>>}
    /\ UNCHANGED <<store, locks, clock, control>>

Restore ==
    /\ revoked # {}
    /\ revoked' = {}
    /\ UNCHANGED <<store, locks, clock, control>>

Tick ==
    /\ clock < Horizon
    /\ clock' = clock + 1
    /\ UNCHANGED <<store, locks, revoked, control>>

-----------------------------------------------------------------------------
Prepare(p) == PrepareAcquire(p) \/ PrepareReplace(p) \/ PrepareRelease(p)

\* What a live process does once it has started.
Proceed(p) ==
    \/ Enter(p) \/ Refused(p) \/ Examine(p) \/ Guard(p) \/ Scan(p) \/ Verify(p)
    \/ Archive(p) \/ SettleArchive(p) \/ Stage(p) \/ Publish(p) \/ Settle(p)
    \/ Abort(p) \/ Unguard(p) \/ Exit(p)

Next ==
    \/ \E p \in Process : Prepare(p) \/ Proceed(p) \/ Crash(p)
    \/ ClearMutex \/ ClearGitLocks \/ Revoke \/ Restore \/ Tick

Spec == Init /\ [][Next]_vars

\* A running Python process keeps executing: it never waits for another one.
KeepsRunning(p) == WF_vars(Proceed(p))
FairSpec == Spec /\ \A p \in Process : KeepsRunning(p)

-----------------------------------------------------------------------------
(* Properties.                                                             *)

\* Mutual exclusion of leases.py: two lease records in force never access one
\* same repository, branch, file or scope with one of them excluding the other,
\* whatever the interleaving, crash, mutex clearing or evidence drift (acquire
\* and replace, the scan under admission_mutex, find_overlaps).
ActiveClaimsDisjoint ==
    \A l, m \in LeaseId :
        /\ l # m
        /\ records[l] # NoRecord /\ records[l].state = "ACTIVE"
        /\ records[m] # NoRecord /\ records[m].state = "ACTIVE"
        => ~DocumentedConflict(records[l].claim, records[m].claim)

\* The mutex serialises: a process between mkdir and rmdir owns the directory,
\* and a Git lock is held only by the process that owns the directory or is
\* left over from a crash.
AdmissionSerialised ==
    /\ \A p \in Process : pc[p] \in CriticalSection <=> mutex = p
    /\ \A w \in Repository : gitLock[w] \in Process => pc[gitLock[w]] \in GuardedSection

\* Last ACTIVE generation of a lease: a terminal record ends the one before it.
LastActiveGeneration(r) == IF r.state = "ACTIVE" THEN r.generation ELSE r.generation - 1

\* The candidate a v2 lease had at generation g, as ProtectedCustodyVerifier
\* and the terminal checks recover it: from the archive, or from the record.
CandidateAt(l, g) ==
    IF g = LastActiveGeneration(records[l]) THEN records[l] ELSE archive[l][g]

\* Custody lineage (replace, _preserve_previous_candidate): every earlier
\* candidate of a v2 lease can still be recovered, and each one was authorised
\* by a decision that follows its predecessor's.
LineageConnected ==
    \A l \in LeaseId :
        records[l] # NoRecord /\ IsV2(records[l]) =>
            \A g \in 1 .. LastActiveGeneration(records[l]) :
                /\ CandidateAt(l, g) # NoRecord
                /\ g > 1 => CandidateAt(l, g).follows = CandidateAt(l, g - 1).claim
                /\ g < LastActiveGeneration(records[l]) =>
                      archive[l][g].state = "ACTIVE" /\ archive[l][g].generation = g

\* release: the terminal authority tells the truth about the expiry of the
\* lease, and a record never claims a release in the future.
TerminalAuthorityTruthful ==
    \A l \in LeaseId :
        records[l] # NoRecord /\ IsV2(records[l]) /\ records[l].state = "RELEASED" =>
            /\ records[l].released <= clock
            /\ records[l].release_authority = "STALE_RECOVERY" <=>
                  records[l].released > records[l].expires

\* The generation fence: a record file only ever comes into being at generation
\* 1 or moves from ACTIVE to the next generation, so of two callers expecting
\* the same generation one fails, and a terminal record is final.
GenerationFence ==
    [][\A l \in LeaseId : records'[l] # records[l] =>
          IF records[l] = NoRecord
          THEN records'[l].generation = 1 /\ records'[l].state = "ACTIVE"
          ELSE /\ records[l].state = "ACTIVE"
               /\ records'[l].generation = records[l].generation + 1
               /\ records'[l].claim.schema = records[l].claim.schema]_vars

\* A record changes only by the live owner of the mutex, while it holds the Git
\* locks of the worktree the old or new ACTIVE record writes to: after a crash
\* nothing is admitted until a human has cleared the mutex.
PublishedUnderLocks ==
    [][\A l \in LeaseId : records'[l] # records[l] =>
          /\ mutex \in Process
          /\ LET r == IF records'[l].state = "ACTIVE" THEN records'[l] ELSE records[l]
             IN  \A w \in GuardedWriters(r) : gitLock[w] = mutex]_vars

\* lease-history entries are immutable: what is archived stays as it is.
ArchiveImmutable ==
    [][\A l \in LeaseId, g \in Generation :
          archive[l][g] # NoRecord => archive'[l][g] = archive[l][g]]_vars

\* An admission ends: a process that entered the mutex leaves it or dies, so that
\* each is outside again and again; it waits neither for a Git lock nor for
\* evidence that might come back.
AdmissionEnds ==
    \A p \in Process : []<>(pc[p] \notin CriticalSection)

\* The lock root implements the contract: hide everything but the state,
\* generation and claim of each record.
Custody ==
    [l \in LeaseId |->
        IF records[l] = NoRecord
        THEN [state |-> "ABSENT", generation |-> 0]
        ELSE [state |-> records[l].state, generation |-> records[l].generation,
              claim |-> records[l].claim]]

Contract == INSTANCE CustodyContract WITH custody <- Custody

ImplementsContract == Contract!ContractSpec
=============================================================================
