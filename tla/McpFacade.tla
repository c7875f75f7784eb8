------------------------------ MODULE McpFacade ------------------------------
(***************************************************************************)
(* The MCP facade (mcp_server.py): admit_writer and release_writer calls   *)
(* of several server processes on one lock root, beside direct callers.    *)
(* The core operations are what CustodyContract promises of them (which    *)
(* LeaseCustody implements): one publication at some moment, or none, and  *)
(* then a return or an exception.  One call:                               *)
(*                                                                         *)
(*   idle -> before -> fencing -> staging -> running -> cleaning           *)
(*        -> (reload ->) confirming | after -> idle                        *)
(*                                                                         *)
(* The fence is the directory .mcp-operation.pending in the lock root; the *)
(* candidate snapshot lies in a staging directory of the server's choice.  *)
(* A custody state is observed in two reads, of status and of digest.      *)
(***************************************************************************)
EXTENDS CustodyContract

CONSTANTS
    \* The calls of the mutating tools.
    Facade,
    StagingRoot,
    \* The staging root of the server that serves a call.
    StagingOf,
    Nothing, Free, Orphan

ASSUME FacadeAssumption ==
    /\ StagingOf \in [Facade -> StagingRoot]
    /\ Free \notin Facade /\ Orphan \notin Facade /\ Free # Orphan
ASSUME BoundAssumption == MaxGeneration \in Nat \ {0}

VARIABLES
    \* .mcp-operation.pending: absent, held by a call, or left behind.
    fence,
    \* The snapshot directory in each staging root, likewise.
    staging,
    \* Where each call is.
    phase,
    \* The lease and the candidate of the call.
    lease, asked,
    \* The custody observed before the mutation, and the observation under way.
    before, look,
    \* How the core ended: "none" if it was not entered.
    core,
    \* The call has published its candidate.
    published,
    \* The disposition of the last call.
    answer

call == <<phase, lease, asked, before, look, core, published, answer>>
vars == <<custody, fence, staging, call>>
observed == <<before, look>>
outcome == <<core, published, answer>>
subject == <<lease, asked>>

Phase == {"idle", "before", "fencing", "staging", "running", "cleaning", "reload",
          "confirming", "after"}
Looking == {"before", "confirming", "after"}
Known == {"ACTIVE", "STALE_ACTIVE", "ACTIVE_LEGACY", "TERMINAL_RELEASED"}

Candidate ==
    {InForce(c, 1) : c \in {d \in Claim : d.schema = "v2"}}
        \union {Ended(c, g) : c \in Claim, g \in 2 .. MaxGeneration}
IsAdmission(f) == asked[f].state = "ACTIVE"

Observation(status, generation, digest) ==
    [status |-> status, generation |-> generation, digest |-> digest]
Unknown == Observation("UNKNOWN_FAIL_CLOSED", 0, Nothing)
NotThere == Observation("ABSENT", 0, Nothing)

\* observe: the ownership status of a valid record, which may have expired.
Statuses(r) ==
    IF r.state = "RELEASED" THEN {"TERMINAL_RELEASED"}
    ELSE IF r.claim.schema = "v1" THEN {"ACTIVE_LEGACY"} ELSE {"ACTIVE", "STALE_ACTIVE"}

FacadeInit ==
    /\ ContractInit
    /\ fence = Free
    /\ staging = [s \in StagingRoot |-> Free]
    /\ phase = [f \in Facade |-> "idle"]
    /\ lease = [f \in Facade |-> Nothing]
    /\ asked = [f \in Facade |-> Nothing]
    /\ before = [f \in Facade |-> Nothing]
    /\ look = [f \in Facade |-> Nothing]
    /\ core = [f \in Facade |-> "none"]
    /\ published = [f \in Facade |-> FALSE]
    /\ answer = [f \in Facade |-> "none"]

To(f, label) == phase' = [phase EXCEPT ![f] = label]

\* The call returns and forgets what it knew.
Answer(f, disposition) ==
    /\ To(f, "idle")
    /\ answer' = [answer EXCEPT ![f] = disposition]
    /\ lease' = [lease EXCEPT ![f] = Nothing]
    /\ asked' = [asked EXCEPT ![f] = Nothing]
    /\ before' = [before EXCEPT ![f] = Nothing]
    /\ look' = [look EXCEPT ![f] = Nothing]
    /\ core' = [core EXCEPT ![f] = "none"]
    /\ published' = [published EXCEPT ![f] = FALSE]

-----------------------------------------------------------------------------
(* Observing custody.                                                      *)

\* A tool is called, and its documents are loaded and checked.
Ask(f) ==
    /\ phase[f] = "idle"
    /\ \E l \in LeaseId, c \in Candidate :
          /\ lease' = [lease EXCEPT ![f] = l]
          /\ asked' = [asked EXCEPT ![f] = c]
    /\ To(f, "before")
    /\ answer' = [answer EXCEPT ![f] = "none"]
    /\ UNCHANGED <<custody, fence, staging, observed, core, published>>

\* The documents of the call are not usable.
RefuseDocuments(f) ==
    /\ phase[f] = "before"
    /\ look[f] = Nothing
    /\ Answer(f, "REFUSED")
    /\ UNCHANGED <<custody, fence, staging>>

\* state: observe, or nothing is there.
ReadStatus(f) ==
    LET r == custody[lease[f]]
    IN  /\ phase[f] \in Looking
        /\ look[f] = Nothing
        /\ \/ /\ r = Absent
              /\ look' = [look EXCEPT ![f] = NotThere]
           \/ /\ r # Absent
              /\ \E status \in Statuses(r) :
                    look' = [look EXCEPT ![f] = Observation(status, r.generation, Nothing)]
        /\ UNCHANGED <<custody, fence, staging, phase, subject, before, outcome>>

\* The status has been read, the digest has not.
HalfLooked(f) == look[f] # Nothing /\ look[f].status \in Known /\ look[f].digest = Nothing

\* state: the digest of what is there by now.
ReadDigest(f) ==
    /\ phase[f] \in Looking
    /\ HalfLooked(f)
    /\ look' = [look EXCEPT ![f].digest = custody[lease[f]]]
    /\ UNCHANGED <<custody, fence, staging, phase, subject, before, outcome>>

\* state: a read fails, the entry is not an ordinary one, or its evidence does
\* not verify.
ReadFails(f) ==
    /\ phase[f] \in Looking
    /\ look[f] # Nothing => HalfLooked(f)
    /\ look' = [look EXCEPT ![f] = Unknown]
    /\ UNCHANGED <<custody, fence, staging, phase, subject, before, outcome>>

\* Both reads of the observation are done.
Looked(f) == look[f] # Nothing /\ ~HalfLooked(f)

\* Custody before the mutation: unknown ends the call.
TakeStock(f) ==
    /\ phase[f] = "before"
    /\ Looked(f)
    /\ \/ look[f] = Unknown /\ Answer(f, "UNCERTAIN")
       \/ /\ look[f] # Unknown
          /\ To(f, "fencing")
          /\ before' = [before EXCEPT ![f] = look[f]]
          /\ look' = [look EXCEPT ![f] = Nothing]
          /\ UNCHANGED <<subject, outcome>>
    /\ UNCHANGED <<custody, fence, staging>>

-----------------------------------------------------------------------------
(* candidate_snapshot.                                                     *)

\* mkdir of the fence.  (Faulty variant: an existing directory is accepted.)
TakeAnyFence(f) ==
    /\ phase[f] = "fencing"
    /\ fence' = f
    /\ To(f, "staging")
    /\ UNCHANGED <<custody, staging, subject, observed, outcome>>
TakeFence(f) ==
    /\ phase[f] = "fencing"
    /\ fence = Free
    /\ fence' = f
    /\ To(f, "staging")
    /\ UNCHANGED <<custody, staging, subject, observed, outcome>>

\* The fence is there already: reconciliation required.
FenceExists(f) ==
    /\ phase[f] = "fencing"
    /\ fence # Free
    /\ Answer(f, "UNCERTAIN")
    /\ UNCHANGED <<custody, fence, staging>>

\* mkdir of the lock root or of the fence fails.
FenceFails(f) ==
    /\ phase[f] = "fencing"
    /\ Answer(f, "REFUSED")
    /\ UNCHANGED <<custody, fence, staging>>

\* A snapshot of an earlier operation lies in the staging root: the fence just
\* created is preserved.
LeftoverFound(f) ==
    /\ phase[f] = "staging"
    /\ staging[StagingOf[f]] # Free
    /\ fence' = Orphan
    /\ Answer(f, "UNCERTAIN")
    /\ UNCHANGED <<custody, staging>>

\* The snapshot directory, the metadata and the snapshot are written, and the
\* core is entered.
Snapshot(f) ==
    /\ phase[f] = "staging"
    /\ staging[StagingOf[f]] = Free
    /\ staging' = [staging EXCEPT ![StagingOf[f]] = f]
    /\ To(f, "running")
    /\ UNCHANGED <<custody, fence, subject, observed, outcome>>

\* A write fails before the core is entered: before the staging root is looked
\* at, or with a directory in it.
SnapshotFails(f) ==
    /\ phase[f] = "staging"
    /\ \/ /\ staging[StagingOf[f]] = Free
          /\ staging' = [staging EXCEPT ![StagingOf[f]] = f]
       \/ UNCHANGED staging
    /\ To(f, "cleaning")
    /\ UNCHANGED <<custody, fence, subject, observed, outcome>>

\* What follows the cleanup: a refusal if the core was not entered, the
\* judgement of a failure, or the confirmation of a success.
Onward(f) ==
    \/ core[f] = "none" /\ Answer(f, "REFUSED")
    \/ /\ core[f] # "none"
       /\ To(f, IF core[f] = "raised" THEN "after"
                ELSE IF IsAdmission(f) THEN "reload" ELSE "confirming")
       /\ UNCHANGED <<subject, observed, outcome>>

\* The snapshot, its directory, the metadata and the fence are removed.
CleanUp(f) ==
    /\ phase[f] = "cleaning"
    /\ fence' = Free
    /\ staging' = [s \in StagingRoot |-> IF staging[s] = f THEN Free ELSE staging[s]]
    /\ Onward(f)
    /\ UNCHANGED custody

\* The cleanup stops at some file, or a directory cannot be synced:
\* reconciliation required.  The fence is the last to go.  (Faulty variant: it
\* is the first.)
FenceFirst(f) ==
    /\ phase[f] = "cleaning"
    /\ \E kept \in {Free, Orphan} :
          /\ fence' = kept
          /\ staging' = [s \in StagingRoot |-> IF staging[s] = f THEN Orphan ELSE staging[s]]
    /\ Answer(f, "UNCERTAIN")
    /\ UNCHANGED custody
CleanUpFails(f) ==
    /\ phase[f] = "cleaning"
    /\ \E kept \in {Free, Orphan} :
          /\ staging' = [s \in StagingRoot |-> IF staging[s] = f THEN kept ELSE staging[s]]
          /\ fence' \in {kept, Orphan}
    /\ Answer(f, "UNCERTAIN")
    /\ UNCHANGED custody

-----------------------------------------------------------------------------
(* The core operation on the snapshot.                                     *)

\* acquire or release publishes the candidate.
Publish(f) ==
    LET l == lease[f]
    IN  /\ phase[f] = "running"
        /\ IF IsAdmission(f) THEN Grant(l, asked[f].claim) ELSE End(l)
        /\ custody'[l] = asked[f]
        /\ published' = [published EXCEPT ![f] = TRUE]
        /\ UNCHANGED <<fence, staging, phase, subject, observed, core, answer>>

\* (Faulty variant: an operation that raised counts as done if the record is
\* there.)
Swallow(f) ==
    /\ phase[f] = "running"
    /\ custody[lease[f]] # Absent
    /\ core' = [core EXCEPT ![f] = "returned"]
    /\ To(f, "cleaning")
    /\ UNCHANGED <<custody, fence, staging, subject, observed, published, answer>>
CoreReturns(f) ==
    /\ phase[f] = "running"
    /\ published[f]
    /\ core' = [core EXCEPT ![f] = "returned"]
    /\ To(f, "cleaning")
    /\ UNCHANGED <<custody, fence, staging, subject, observed, published, answer>>

\* Anything may raise before the publication, and the settling of the record or
\* the release of locks after it.
CoreRaises(f) ==
    /\ phase[f] = "running"
    /\ core' = [core EXCEPT ![f] = "raised"]
    /\ To(f, "cleaning")
    /\ UNCHANGED <<custody, fence, staging, subject, observed, published, answer>>

-----------------------------------------------------------------------------
(* Judging the outcome.                                                    *)

\* The admitted record is read again and is the candidate.
Reload(f) ==
    /\ phase[f] = "reload"
    /\ \/ /\ custody[lease[f]] = asked[f]
          /\ To(f, "confirming")
          /\ UNCHANGED <<subject, observed, outcome>>
       \/ custody[lease[f]] # asked[f] /\ Answer(f, "UNCERTAIN")
    /\ UNCHANGED <<custody, fence, staging>>

ReloadFails(f) ==
    /\ phase[f] = "reload"
    /\ To(f, "after")
    /\ UNCHANGED <<custody, fence, staging, subject, observed, outcome>>

\* The custody observed at the end is what the tool promised.
Promised(f) == IF IsAdmission(f) THEN "ACTIVE" ELSE "TERMINAL_RELEASED"
Confirm(f) ==
    /\ phase[f] = "confirming"
    /\ Looked(f)
    /\ Answer(f, IF look[f].status = Promised(f) THEN "OK" ELSE "UNCERTAIN")
    /\ UNCHANGED <<custody, fence, staging>>

\* mutation_failure: only custody that is known and the same as before is
\* answered by a refusal.  (Faulty variant: what is unknown counts as unchanged.)
JudgeKnown(f) ==
    /\ phase[f] = "after"
    /\ Looked(f)
    /\ Answer(f, IF look[f] \in {before[f], Unknown} THEN "REFUSED" ELSE "UNCERTAIN")
    /\ UNCHANGED <<custody, fence, staging>>
Judge(f) ==
    /\ phase[f] = "after"
    /\ Looked(f)
    /\ Answer(f, IF look[f] = before[f] /\ look[f] # Unknown THEN "REFUSED" ELSE "UNCERTAIN")
    /\ UNCHANGED <<custody, fence, staging>>

-----------------------------------------------------------------------------
\* The server dies: fence and snapshot stay.
Crash(f) ==
    /\ phase[f] # "idle"
    /\ fence' = IF fence = f THEN Orphan ELSE fence
    /\ staging' = [s \in StagingRoot |-> IF staging[s] = f THEN Orphan ELSE staging[s]]
    /\ Answer(f, "none")
    /\ UNCHANGED custody

\* A human removes what was left, in any order.
ClearFence ==
    /\ fence = Orphan
    /\ fence' = Free
    /\ UNCHANGED <<custody, staging, call>>

ClearStaging ==
    /\ \E s \in StagingRoot : staging[s] = Orphan /\ staging' = [staging EXCEPT ![s] = Free]
    /\ UNCHANGED <<custody, fence, call>>

\* A direct caller of acquire, replace or release publishes.
PublishDirectly ==
    /\ \E l \in LeaseId :
          /\ custody[l].generation < MaxGeneration
          /\ End(l) \/ \E c \in Claim : Grant(l, c) \/ Change(l, c)
    /\ UNCHANGED <<fence, staging, call>>

-----------------------------------------------------------------------------
\* What a live server does once a call has started.
Serve(f) ==
    \/ RefuseDocuments(f) \/ ReadStatus(f) \/ ReadDigest(f) \/ ReadFails(f) \/ TakeStock(f)
    \/ TakeFence(f) \/ FenceExists(f) \/ FenceFails(f) \/ LeftoverFound(f)
    \/ Snapshot(f) \/ SnapshotFails(f) \/ CleanUp(f) \/ CleanUpFails(f)
    \/ Publish(f) \/ CoreReturns(f) \/ CoreRaises(f)
    \/ Reload(f) \/ ReloadFails(f) \/ Confirm(f) \/ Judge(f)

FacadeNext ==
    \/ \E f \in Facade : Ask(f) \/ Serve(f) \/ Crash(f)
    \/ ClearFence \/ ClearStaging \/ PublishDirectly

FacadeSpec == FacadeInit /\ [][FacadeNext]_vars

-----------------------------------------------------------------------------
(* Properties.                                                             *)

\* mutation_failure: an answer REFUSED means that the call published nothing,
\* whatever direct callers did to the same lease between its two observations.
RefusedChangedNothing ==
    [][\A f \in Facade : phase[f] # "idle" /\ answer'[f] = "REFUSED" => ~published[f]]_vars

\* admit_writer and release_writer: an answer OK means that this call published
\* its candidate.  A released lease is terminal as asked; an admitted one is
\* still the candidate's, or was since replaced or released by a direct caller.
ConfirmedWasPublished ==
    [][\A f \in Facade : phase[f] # "idle" /\ answer'[f] = "OK" =>
          /\ published[f]
          /\ \/ custody[lease[f]] = asked[f]
             \/ IsAdmission(f) /\ custody[lease[f]].generation > 1]_vars

\* The operation fence: a call inside the core owns the fence and its snapshot,
\* so there is at most one, whatever staging roots the servers chose.
MutationFenced ==
    \A f \in Facade : phase[f] = "running" =>
        fence = f /\ staging[StagingOf[f]] = f

\* candidate_snapshot: what a dead or unresolved operation left is never taken
\* over by a call, and a call that opens its fence again has removed its own
\* snapshot: an open fence hides nothing but what a human left there.
UnresolvedKept ==
    [][/\ fence = Orphan /\ fence' # Orphan => UNCHANGED call
       /\ \A f \in Facade : fence = f /\ fence' = Free =>
             \A s \in StagingRoot : staging'[s] \in {Free, staging[s]} \ {f}]_vars
=============================================================================
