--------------------------- MODULE McpFacadeProofs ---------------------------
(***************************************************************************)
(* Proofs about McpFacade, for any number of calls, servers, leases and    *)
(* claims.  A publication raises the generation of its lease and nothing   *)
(* lowers it: the custody observed before a call is below what its own     *)
(* publication left, so an equal observation afterwards proves that the    *)
(* call published nothing.                                                 *)
(***************************************************************************)
EXTENDS McpFacade, TLAPS

Entry == {Absent} \union {InForce(c, g) : c \in Claim, g \in Nat}
            \union {Ended(c, g) : c \in Claim, g \in Nat}
Status == Known \union {"ABSENT", "UNKNOWN_FAIL_CLOSED"}
Seen == [status : Status, generation : Nat, digest : Entry \union {Nothing}]

Types ==
    /\ custody \in [LeaseId -> Entry]
    /\ staging \in [StagingRoot -> Facade \union {Free, Orphan}]
    /\ phase \in [Facade -> Phase]
    /\ lease \in [Facade -> LeaseId \union {Nothing}]
    /\ asked \in [Facade -> Candidate \union {Nothing}]
    /\ before \in [Facade -> Seen \union {Nothing}]
    /\ look \in [Facade -> Seen \union {Nothing}]
    /\ core \in [Facade -> {"none", "raised", "returned"}]
    /\ published \in [Facade -> BOOLEAN]
    /\ answer \in [Facade -> {"none", "OK", "REFUSED", "UNCERTAIN"}]

Unentered == {"idle", "before", "fencing", "staging"}
Blind == {"fencing", "staging", "running", "cleaning", "reload"}
Mutating == Blind \union {"confirming", "after"}

\* The published candidate is still there, or an admission was followed up.
Followed(f) ==
    \/ custody[lease[f]] = asked[f]
    \/ asked[f].state = "ACTIVE" /\ custody[lease[f]].generation > 1

\* What a call knows of itself and of its lease.
CallInv(f) ==
    /\ phase[f] # "idle" =>
          lease[f] \in LeaseId /\ asked[f] \in Candidate /\ answer[f] = "none"
    /\ phase[f] \in Unentered => published[f] = FALSE
    /\ phase[f] \in Unentered \union {"running"} => core[f] = "none"
    /\ phase[f] = "cleaning" /\ core[f] = "none" => published[f] = FALSE
    /\ phase[f] \in {"reload", "confirming"} => core[f] = "returned"
    /\ core[f] = "returned" => published[f] = TRUE
    /\ phase[f] \in Blind \union {"idle"} => look[f] = Nothing
    /\ phase[f] \in Looking /\ look[f] # Nothing =>
          look[f] \in Seen /\ look[f].generation <= custody[lease[f]].generation
    /\ phase[f] \in Mutating =>
          before[f] \in Seen /\ before[f].generation <= custody[lease[f]].generation
    /\ published[f] = TRUE =>
          before[f].generation < custody[lease[f]].generation /\ Followed(f)
    /\ phase[f] = "after" /\ published[f] = TRUE /\ look[f] \notin {Nothing, Unknown} =>
          before[f].generation < look[f].generation

\* Who owns the fence and the staging directories.
FenceInv(f) ==
    /\ phase[f] \in {"staging", "running", "cleaning"} => fence = f
    /\ phase[f] = "running" => staging[StagingOf[f]] = f

FInv == Types /\ \A f \in Facade : CallInv(f) /\ FenceInv(f)

-----------------------------------------------------------------------------
(* Custody moves forward.                                                  *)

\* What one publication does to the lease it is about and to the others.
Moves(l) ==
    /\ custody' \in [LeaseId -> Entry]
    /\ custody[l].state # "RELEASED"
    /\ custody'[l].generation = custody[l].generation + 1
    /\ \A m \in LeaseId \ {l} : custody'[m] = custody[m]

LEMMA EntryFacts ==
    ASSUME NEW e \in Entry
    PROVE  /\ e.generation \in Nat
           /\ e.state \in {"ABSENT", "ACTIVE", "RELEASED"}
           /\ e.state = "ABSENT" => e = Absent
           /\ e.state = "ACTIVE" => e.claim \in Claim
BY DEF Entry, Absent, InForce, Ended

LEMMA GrantMoves ==
    ASSUME Types, NEW l \in LeaseId, NEW c \in Claim, Grant(l, c)
    PROVE  Moves(l) /\ custody'[l].state = "ACTIVE" /\ custody'[l].generation = 1
<1>1. InForce(c, 1) \in Entry
  BY DEF Entry
<1>2. custody' = [custody EXCEPT ![l] = InForce(c, 1)] /\ custody[l] = Absent
  BY DEF Grant
<1> QED
  BY <1>1, <1>2 DEF Moves, Types, Absent, InForce

LEMMA ChangeMoves ==
    ASSUME Types, NEW l \in LeaseId, NEW c \in Claim, Change(l, c)
    PROVE  Moves(l)
<1>1. custody[l] \in Entry /\ custody[l].generation \in Nat
  BY EntryFacts DEF Types
<1>2. InForce(c, custody[l].generation + 1) \in Entry
  BY <1>1 DEF Entry
<1>3. /\ custody' = [custody EXCEPT ![l] = InForce(c, custody[l].generation + 1)]
      /\ custody[l].state = "ACTIVE"
  BY DEF Change
<1> QED
  BY <1>1, <1>2, <1>3 DEF Moves, Types, InForce

LEMMA EndMoves ==
    ASSUME Types, NEW l \in LeaseId, End(l)
    PROVE  Moves(l)
<1>1. custody[l] \in Entry /\ custody[l].state = "ACTIVE"
  BY DEF Types, End
<1>2. custody[l].generation \in Nat /\ custody[l].claim \in Claim
  BY <1>1, EntryFacts
<1>3. Ended(custody[l].claim, custody[l].generation + 1) \in Entry
  BY <1>2 DEF Entry
<1>4. custody' =
          [custody EXCEPT ![l] = Ended(custody[l].claim, custody[l].generation + 1)]
  BY DEF End
<1> QED
  BY <1>1, <1>2, <1>3, <1>4 DEF Moves, Types, Ended

\* What candidates are.
LEMMA CandidateFacts ==
    ASSUME NEW a \in Candidate
    PROVE  /\ a.state = "ACTIVE" => a.generation = 1 /\ a.claim \in Claim
           /\ a.state \in {"ACTIVE", "RELEASED"}
           /\ a.generation \in Nat
BY DEF Candidate, InForce, Ended

LEMMA PublishMoves ==
    ASSUME Types, NEW f \in Facade, CallInv(f), Publish(f)
    PROVE  lease[f] \in LeaseId /\ Moves(lease[f]) /\ custody'[lease[f]] = asked[f]
<1>1. lease[f] \in LeaseId /\ asked[f] \in Candidate
  BY DEF CallInv, Publish
<1>2. CASE IsAdmission(f)
  BY <1>1, <1>2, CandidateFacts, GrantMoves DEF Publish, IsAdmission
<1>3. CASE ~IsAdmission(f)
  BY <1>1, <1>3, EndMoves DEF Publish
<1> QED
  BY <1>2, <1>3

\* Custody stays, or one lease moves.
Forward == custody' = custody \/ \E l \in LeaseId : Moves(l)

LEMMA StepForward ==
    ASSUME FInv, [FacadeNext]_vars
    PROVE  Forward
<1>1. CASE \E f \in Facade : Publish(f)
  BY <1>1, PublishMoves DEF FInv, Forward
<1>2. CASE PublishDirectly
  BY <1>2, GrantMoves, ChangeMoves, EndMoves DEF PublishDirectly, FInv, Forward
<1>3. CASE ~PublishDirectly /\ ~\E f \in Facade : Publish(f)
  BY <1>3 DEF Forward, FacadeNext, vars, Ask, Serve, Crash, ClearFence, ClearStaging,
     RefuseDocuments, ReadStatus, ReadDigest, ReadFails, TakeStock, TakeFence, FenceExists,
     FenceFails, LeftoverFound, Snapshot, SnapshotFails, CleanUp, CleanUpFails,
     CoreReturns, CoreRaises, Reload, ReloadFails, Confirm, Judge
<1> QED
  BY <1>1, <1>2, <1>3

\* A call at rest keeps what it knows while custody moves forward.
LEMMA Bystander ==
    ASSUME Types, Forward, NEW f \in Facade, CallInv(f),
           phase'[f] = phase[f], lease'[f] = lease[f], asked'[f] = asked[f],
           before'[f] = before[f], look'[f] = look[f], core'[f] = core[f],
           published'[f] = published[f], answer'[f] = answer[f]
    PROVE  CallInv(f)'
<1>1. CASE custody' = custody
  BY <1>1 DEF CallInv, Followed, Seen
<1>2. ASSUME NEW l \in LeaseId, Moves(l) PROVE CallInv(f)'
  <2>1. CASE phase[f] = "idle"
    BY <2>1 DEF CallInv, Unentered, Blind, Mutating, Looking
  <2>2. CASE phase[f] # "idle"
    <3>1. lease[f] \in LeaseId /\ asked[f] \in Candidate
      BY <2>2 DEF CallInv
    <3>2. custody[lease[f]].generation \in Nat /\ custody'[lease[f]].generation \in Nat
      BY <3>1, <1>2, EntryFacts DEF Types, Moves
    <3>3. \/ custody'[lease[f]] = custody[lease[f]]
          \/ /\ lease[f] = l
             /\ custody'[lease[f]].generation = custody[lease[f]].generation + 1
      BY <3>1, <1>2 DEF Moves
    <3>4. custody[lease[f]].generation <= custody'[lease[f]].generation
      BY <3>2, <3>3
    <3>5. Followed(f) => Followed(f)'
      <4>1. CASE lease[f] # l
        BY <4>1, <3>1, <1>2 DEF Followed, Moves
      <4>2. CASE lease[f] = l /\ custody[lease[f]] = asked[f]
        <5>1. asked[f].state # "RELEASED"
          BY <4>2, <1>2 DEF Moves
        <5>2. asked[f].state = "ACTIVE" /\ asked[f].generation = 1
          BY <5>1, <3>1, CandidateFacts
        <5>3. custody'[lease[f]].generation = 2
          BY <5>2, <4>2, <1>2 DEF Moves
        <5> QED
          BY <5>2, <5>3 DEF Followed
      <4>3. CASE asked[f].state = "ACTIVE" /\ custody[lease[f]].generation > 1
        BY <4>3, <3>2, <3>4 DEF Followed
      <4> QED
        BY <4>1, <4>2, <4>3 DEF Followed
    <3>6. before[f] \in Seen => before[f].generation \in Nat
      BY DEF Seen
    <3>7. phase[f] \in Mutating =>
              before[f] \in Seen /\ before[f].generation <= custody'[lease[f]].generation
      BY <3>2, <3>4, <3>6 DEF CallInv
    <3>8. ASSUME published[f] = TRUE
          PROVE  before[f].generation < custody'[lease[f]].generation /\ Followed(f)'
      <4>1. before[f].generation < custody[lease[f]].generation /\ Followed(f)
        BY <3>8 DEF CallInv
      <4>2. phase[f] \in Mutating
        BY <3>8 DEF CallInv, Mutating, Blind, Unentered, Types, Phase
      <4>3. before[f].generation \in Nat
        BY <4>2, <3>6 DEF CallInv
      <4> QED
        BY <4>1, <4>3, <3>2, <3>4, <3>5
    <3>9. phase[f] \in Looking /\ look[f] # Nothing =>
              look[f] \in Seen /\ look[f].generation <= custody'[lease[f]].generation
      <4>1. look[f] \in Seen => look[f].generation \in Nat
        BY DEF Seen
      <4> QED
        BY <4>1, <3>2, <3>4 DEF CallInv
    <3> QED
      BY <3>7, <3>8, <3>9 DEF CallInv
  <2> QED
    BY <2>1, <2>2
<1> QED
  BY <1>1, <1>2 DEF Forward

-----------------------------------------------------------------------------
(* Types.                                                                  *)

LEMMA InitFInv == FacadeInit => FInv
<1> SUFFICES ASSUME FacadeInit PROVE FInv
  OBVIOUS
<1>1. custody \in [LeaseId -> Entry]
  BY DEF FacadeInit, ContractInit, Entry
<1>2. Types
  BY <1>1 DEF FacadeInit, Types, Phase
<1>3. \A f \in Facade : CallInv(f) /\ FenceInv(f)
  BY DEF FacadeInit, CallInv, FenceInv, Unentered, Blind, Mutating, Looking
<1> QED
  BY <1>2, <1>3 DEF FInv

\* The types of what belongs to the calls.
CallTypes ==
    /\ phase \in [Facade -> Phase]
    /\ lease \in [Facade -> LeaseId \union {Nothing}]
    /\ asked \in [Facade -> Candidate \union {Nothing}]
    /\ before \in [Facade -> Seen \union {Nothing}]
    /\ look \in [Facade -> Seen \union {Nothing}]
    /\ core \in [Facade -> {"none", "raised", "returned"}]
    /\ published \in [Facade -> BOOLEAN]
    /\ answer \in [Facade -> {"none", "OK", "REFUSED", "UNCERTAIN"}]

LEMMA AnswerTyped ==
    ASSUME CallTypes, NEW f \in Facade,
           NEW disposition \in {"none", "OK", "REFUSED", "UNCERTAIN"},
           Answer(f, disposition)
    PROVE  CallTypes'
BY DEF CallTypes, Answer, To, Phase

LEMMA ObservationTyped ==
    ASSUME NEW status \in Status, NEW g \in Nat, NEW d \in Entry \union {Nothing}
    PROVE  Observation(status, g, d) \in Seen
BY DEF Observation, Seen

LEMMA LookTyped ==
    ASSUME Types, NEW f \in Facade, CallInv(f), ReadStatus(f) \/ ReadDigest(f) \/ ReadFails(f)
    PROVE  CallTypes'
<1>1. CASE ReadStatus(f)
  <2>1. custody[lease[f]] \in Entry
    BY <1>1 DEF ReadStatus, CallInv, Looking, Types
  <2>2. \A status \in Statuses(custody[lease[f]]) :
            Observation(status, custody[lease[f]].generation, Nothing) \in Seen
    <3>1. custody[lease[f]].state \in {"ABSENT", "ACTIVE", "RELEASED"}
      BY <2>1, EntryFacts
    <3>2. Statuses(custody[lease[f]]) \subseteq Status
      BY DEF Statuses, Status, Known
    <3> QED
      BY <2>1, <3>2, EntryFacts, ObservationTyped
  <2>3. NotThere \in Seen
    BY DEF NotThere, Observation, Seen, Status
  <2>4. look' \in [Facade -> Seen \union {Nothing}]
    BY <1>1, <2>2, <2>3 DEF ReadStatus, Types
  <2> QED
    BY <1>1, <2>4 DEF ReadStatus, Types, CallTypes, subject, outcome
<1>2. CASE ReadDigest(f)
  <2>1. custody[lease[f]] \in Entry
    BY <1>2 DEF ReadDigest, CallInv, Looking, Types
  <2>2. look[f] \in Seen
    BY <1>2 DEF ReadDigest, HalfLooked, Types
  <2>3. [look[f] EXCEPT !.digest = custody[lease[f]]] \in Seen
    BY <2>1, <2>2 DEF Seen
  <2>4. look' \in [Facade -> Seen \union {Nothing}]
    BY <1>2, <2>3 DEF ReadDigest, Types
  <2> QED
    BY <1>2, <2>4 DEF ReadDigest, Types, CallTypes, subject, outcome
<1>3. CASE ReadFails(f)
  <2>1. Unknown \in Seen
    BY DEF Unknown, Observation, Seen, Status
  <2> QED
    BY <1>3, <2>1 DEF ReadFails, Types, CallTypes, subject, outcome
<1> QED
  BY <1>1, <1>2, <1>3

LEMMA TypesStep == FInv /\ [FacadeNext]_vars => Types'
<1> SUFFICES ASSUME FInv, [FacadeNext]_vars PROVE Types'
  OBVIOUS
<1> USE DEF FInv
<1>1. custody' \in [LeaseId -> Entry]
  BY StepForward DEF Forward, Moves, Types
<1>2. staging' \in [StagingRoot -> Facade \union {Free, Orphan}]
  <2>1. CASE UNCHANGED staging
    BY <2>1 DEF Types
  <2>2. ASSUME NEW f \in Facade, Snapshot(f) \/ SnapshotFails(f) \/ CleanUp(f) \/ CleanUpFails(f)
                                 \/ Crash(f)
        PROVE  staging' \in [StagingRoot -> Facade \union {Free, Orphan}]
    BY <2>2, FacadeAssumption DEF Types, Snapshot, SnapshotFails, CleanUp, CleanUpFails, Crash
  <2>3. CASE ClearStaging
    BY <2>3 DEF ClearStaging, Types
  <2> QED
    BY <2>1, <2>2, <2>3 DEF FacadeNext, Serve, vars, Ask, RefuseDocuments, ReadStatus, ReadDigest, ReadFails, TakeStock, TakeFence, FenceExists,
     FenceFails, LeftoverFound, Publish, CoreReturns, CoreRaises, Reload, ReloadFails, Confirm, Judge, ClearFence, PublishDirectly
<1>3. CallTypes'
  <2>1. CallTypes
    BY DEF Types, CallTypes
  <2>2. CASE UNCHANGED call
    BY <2>1, <2>2 DEF call, CallTypes
  <2>3. ASSUME NEW f \in Facade, NEW disposition \in {"none", "OK", "REFUSED", "UNCERTAIN"},
               Answer(f, disposition)
        PROVE  CallTypes'
    BY <2>1, <2>3, AnswerTyped
  <2>4. ASSUME NEW f \in Facade, Ask(f)
        PROVE  CallTypes'
    BY <2>1, <2>4 DEF Ask, To, CallTypes, Phase, observed
  <2>5. ASSUME NEW f \in Facade, ReadStatus(f) \/ ReadDigest(f) \/ ReadFails(f)
        PROVE  CallTypes'
    BY <2>5, LookTyped
  <2>6. ASSUME NEW f \in Facade, TakeStock(f) PROVE CallTypes'
    <3>1. CASE Answer(f, "UNCERTAIN")
      BY <3>1, <2>3
    <3>2. CASE ~Answer(f, "UNCERTAIN")
      BY <2>1, <2>6, <3>2 DEF TakeStock, To, CallTypes, Phase, subject, outcome
    <3> QED
      BY <3>1, <3>2
  <2>7. ASSUME NEW f \in Facade,
               TakeFence(f) \/ Snapshot(f) \/ SnapshotFails(f) \/ CoreReturns(f) \/ CoreRaises(f)
                 \/ ReloadFails(f)
        PROVE  CallTypes'
    BY <2>1, <2>7 DEF TakeFence, Snapshot, SnapshotFails, CoreReturns, CoreRaises, ReloadFails,
       To, CallTypes, Phase, subject, observed, outcome
  <2>8. ASSUME NEW f \in Facade, CleanUp(f) \/ Reload(f) PROVE CallTypes'
    <3>1. CASE Answer(f, "REFUSED") \/ Answer(f, "UNCERTAIN")
      BY <3>1, <2>3
    <3>2. CASE ~(Answer(f, "REFUSED") \/ Answer(f, "UNCERTAIN"))
      BY <2>1, <2>8, <3>2 DEF CleanUp, Onward, Reload, To, CallTypes, Phase, subject, observed, outcome
    <3> QED
      BY <3>1, <3>2
  <2>9. ASSUME NEW f \in Facade, Publish(f) PROVE CallTypes'
    BY <2>1, <2>9 DEF Publish, CallTypes, subject, observed
  <2>10. ASSUME NEW f \in Facade,
               RefuseDocuments(f) \/ FenceExists(f) \/ FenceFails(f) \/ LeftoverFound(f)
                 \/ CleanUpFails(f) \/ Confirm(f) \/ Judge(f) \/ Crash(f)
        PROVE  CallTypes'
    BY <2>3, <2>10 DEF RefuseDocuments, FenceExists, FenceFails, LeftoverFound, CleanUpFails,
       Confirm, Judge, Crash
  <2>11. CASE ClearFence \/ ClearStaging \/ PublishDirectly \/ UNCHANGED vars
    BY <2>2, <2>11 DEF ClearFence, ClearStaging, PublishDirectly, vars
  <2> QED
    BY <2>4, <2>5, <2>6, <2>7, <2>8, <2>9, <2>10, <2>11 DEF FacadeNext, Serve
<1> QED
  BY <1>1, <1>2, <1>3 DEF Types, CallTypes

-----------------------------------------------------------------------------
(* What a call knows.                                                      *)

LEMMA AnswerCall ==
    ASSUME Types, NEW f \in Facade, NEW d, Answer(f, d)
    PROVE  CallInv(f)'
BY DEF Types, Answer, To, CallInv, Unentered, Blind, Mutating, Looking

\* A call that only looks.
LEMMA LookCall ==
    ASSUME FInv, NEW f \in Facade, ReadStatus(f) \/ ReadDigest(f) \/ ReadFails(f)
    PROVE  CallInv(f)'
<1>1. /\ phase[f] \in Looking /\ CallInv(f) /\ custody[lease[f]] \in Entry
      /\ UNCHANGED <<custody, phase, subject, before, outcome>>
  BY DEF FInv, Types, CallInv, Looking, ReadStatus, ReadDigest, ReadFails
<1>2. custody[lease[f]].generation \in Nat
  BY <1>1, EntryFacts
<1>3. Types'
  <2>1. CallTypes'
    BY LookTyped DEF FInv
  <2> QED
    BY <2>1 DEF FInv, Types, CallTypes, ReadStatus, ReadDigest, ReadFails
<1>4. ASSUME look'[f] # Nothing
      PROVE  /\ look'[f] \in Seen
             /\ look'[f].generation <= custody[lease[f]].generation
             /\ look'[f] # Unknown /\ published[f] = TRUE /\ phase[f] = "after" =>
                   before[f].generation < look'[f].generation
  <2>1. look'[f] \in Seen
    BY <1>3, <1>4 DEF Types
  <2>2. CASE ReadStatus(f)
    <3>1. look'[f].generation = custody[lease[f]].generation
      BY <2>2 DEF ReadStatus, NotThere, Observation, Absent, FInv, Types
    <3> QED
      BY <3>1, <2>1, <1>1, <1>2 DEF CallInv
  <2>3. CASE ReadDigest(f)
    <3>1. look[f] # Nothing /\ look[f] # Unknown /\ look[f] \in Seen
      BY <2>3 DEF ReadDigest, HalfLooked, Unknown, Observation, Known, FInv, Types
    <3>2. look'[f].generation = look[f].generation
      BY <2>3, <3>1 DEF ReadDigest, FInv, Types, Seen
    <3> QED
      BY <3>1, <3>2, <2>1, <1>1 DEF CallInv
  <2>4. CASE ReadFails(f)
    <3>1. look'[f] = Unknown
      BY <2>4 DEF ReadFails, FInv, Types
    <3> QED
      BY <3>1, <2>1, <1>2 DEF Unknown, Observation
  <2> QED
    BY <2>2, <2>3, <2>4
<1>5. phase[f] \notin Blind \union {"idle"}
  BY <1>1 DEF Looking, Blind
<1> QED
  BY <1>1, <1>4, <1>5 DEF CallInv, Followed, subject, outcome

LEMMA PublishCall ==
    ASSUME FInv, NEW f \in Facade, Publish(f)
    PROVE  CallInv(f)'
<1>1. CallInv(f) /\ Types /\ phase[f] = "running"
  BY DEF FInv, Publish
<1>2. lease[f] \in LeaseId /\ Moves(lease[f]) /\ custody'[lease[f]] = asked[f]
  BY <1>1, PublishMoves
<1>3. /\ custody[lease[f]].generation \in Nat
      /\ custody'[lease[f]].generation = custody[lease[f]].generation + 1
  BY <1>1, <1>2, EntryFacts DEF Moves, Types
<1>4. /\ before[f] \in Seen /\ before[f].generation \in Nat
      /\ before[f].generation <= custody[lease[f]].generation
  BY <1>1 DEF CallInv, Mutating, Blind, Seen
<1>5. /\ UNCHANGED <<phase, subject, observed, core, answer>>
      /\ published'[f] = TRUE
  BY <1>1 DEF Publish, Types
<1>6. before[f].generation < custody'[lease[f]].generation
  BY <1>3, <1>4
<1>7. before[f].generation <= custody'[lease[f]].generation
  BY <1>3, <1>4
<1>8. "running" \notin Looking \union Unentered /\ "running" \in Blind \cap Mutating
  BY DEF Looking, Unentered, Blind, Mutating
<1> QED
  BY <1>1, <1>2, <1>4, <1>5, <1>6, <1>7, <1>8 DEF CallInv, Followed, subject, observed

\* The steps of a call that move it along without touching custody.
LEMMA MoveCall ==
    ASSUME FInv, NEW f \in Facade,
           \/ TakeFence(f) \/ Snapshot(f) \/ SnapshotFails(f) \/ CleanUp(f)
           \/ CoreReturns(f) \/ CoreRaises(f) \/ Reload(f) \/ ReloadFails(f)
    PROVE  CallInv(f)'
<1>1. CallInv(f) /\ Types
  BY DEF FInv
<1>2. CASE Answer(f, "REFUSED") \/ Answer(f, "UNCERTAIN")
  BY <1>1, <1>2, AnswerCall
<1>3. CASE TakeFence(f) \/ Snapshot(f) \/ SnapshotFails(f)
  BY <1>1, <1>3 DEF TakeFence, Snapshot, SnapshotFails, To, Types, subject, observed, outcome,
     CallInv, Followed, Unentered, Blind, Mutating, Looking
<1>4. CASE CoreReturns(f) \/ CoreRaises(f) \/ ReloadFails(f)
  BY <1>1, <1>4 DEF CoreReturns, CoreRaises, ReloadFails, To, Types, subject, observed, outcome,
     CallInv, Followed, Unentered, Blind, Mutating, Looking
<1>5. CASE CleanUp(f) /\ ~Answer(f, "REFUSED")
  BY <1>1, <1>5 DEF CleanUp, Onward, To, Types, subject, observed, outcome,
     CallInv, Followed, Unentered, Blind, Mutating, Looking
<1>6. CASE Reload(f) /\ ~Answer(f, "UNCERTAIN")
  BY <1>1, <1>6 DEF Reload, To, Types, subject, observed, outcome,
     CallInv, Followed, Unentered, Blind, Mutating, Looking
<1> QED
  BY <1>2, <1>3, <1>4, <1>5, <1>6

LEMMA StockCall ==
    ASSUME FInv, NEW f \in Facade, TakeStock(f)
    PROVE  CallInv(f)'
<1>1. CallInv(f) /\ Types
  BY DEF FInv
<1>2. CASE Answer(f, "UNCERTAIN")
  BY <1>1, <1>2, AnswerCall
<1>3. CASE ~Answer(f, "UNCERTAIN")
  BY <1>1, <1>3 DEF TakeStock, Looked, To, Types, subject, outcome,
     CallInv, Followed, Unentered, Blind, Mutating, Looking
<1> QED
  BY <1>2, <1>3

LEMMA OwnCall ==
    ASSUME FInv, NEW f \in Facade, Ask(f) \/ Serve(f) \/ Crash(f)
    PROVE  CallInv(f)'
<1>1. ASSUME NEW d, Answer(f, d) PROVE CallInv(f)'
  BY <1>1, AnswerCall DEF FInv
<1>2. CASE Ask(f)
  <2>1. Types /\ CallInv(f) /\ phase[f] = "idle"
    BY <1>2 DEF FInv, Ask
  <2>2. published[f] = FALSE /\ core[f] = "none"
    BY <2>1 DEF CallInv, Unentered
  <2>3. /\ phase'[f] = "before" /\ lease'[f] \in LeaseId /\ asked'[f] \in Candidate
        /\ answer'[f] = "none" /\ look' = look /\ core' = core /\ published' = published
    BY <1>2, <2>1 DEF Ask, To, Types, observed
  <2>4. look[f] = Nothing
    BY <2>1 DEF CallInv
  <2> QED
    BY <2>2, <2>3, <2>4 DEF CallInv, Unentered, Blind, Mutating, Looking
<1>3. CASE ReadStatus(f) \/ ReadDigest(f) \/ ReadFails(f)
  BY <1>3, LookCall
<1>4. CASE TakeStock(f)
  BY <1>4, StockCall
<1>5. CASE Publish(f)
  BY <1>5, PublishCall
<1>6. CASE \/ TakeFence(f) \/ Snapshot(f) \/ SnapshotFails(f) \/ CleanUp(f)
           \/ CoreReturns(f) \/ CoreRaises(f) \/ Reload(f) \/ ReloadFails(f)
  BY <1>6, MoveCall
<1>7. CASE \/ RefuseDocuments(f) \/ FenceExists(f) \/ FenceFails(f) \/ LeftoverFound(f)
           \/ CleanUpFails(f) \/ Confirm(f) \/ Judge(f) \/ Crash(f)
  BY <1>1, <1>7 DEF RefuseDocuments, FenceExists, FenceFails, LeftoverFound, CleanUpFails,
     Confirm, Judge, Crash
<1> QED
  BY <1>2, <1>3, <1>4, <1>5, <1>6, <1>7 DEF Serve

-----------------------------------------------------------------------------
(* What the other calls do.                                                *)

\* A step of call g leaves what belongs to call f alone.
Apart(f) ==
    /\ phase'[f] = phase[f] /\ lease'[f] = lease[f] /\ asked'[f] = asked[f]
    /\ before'[f] = before[f] /\ look'[f] = look[f] /\ core'[f] = core[f]
    /\ published'[f] = published[f] /\ answer'[f] = answer[f]

LEMMA OthersApart ==
    ASSUME Types, NEW f \in Facade, NEW g \in Facade, g # f, Ask(g) \/ Serve(g) \/ Crash(g)
    PROVE  Apart(f)
<1>1. ASSUME NEW d, Answer(g, d) PROVE Apart(f)
  BY <1>1 DEF Answer, To, Apart, Types
<1>2. CASE \/ RefuseDocuments(g) \/ FenceExists(g) \/ FenceFails(g) \/ LeftoverFound(g)
           \/ CleanUpFails(g) \/ Confirm(g) \/ Judge(g) \/ Crash(g)
  BY <1>1, <1>2 DEF RefuseDocuments, FenceExists, FenceFails, LeftoverFound, CleanUpFails,
     Confirm, Judge, Crash
<1>3. CASE Ask(g) \/ ReadStatus(g) \/ ReadDigest(g) \/ ReadFails(g) \/ Publish(g)
  BY <1>3 DEF Ask, ReadStatus, ReadDigest, ReadFails, Publish, To, Apart, Types,
     subject, observed, outcome
<1>4. CASE TakeFence(g) \/ Snapshot(g) \/ SnapshotFails(g) \/ CoreReturns(g) \/ CoreRaises(g)
           \/ ReloadFails(g)
  BY <1>4 DEF TakeFence, Snapshot, SnapshotFails, CoreReturns, CoreRaises, ReloadFails, To,
     Apart, Types, subject, observed, outcome
<1>5. CASE TakeStock(g) \/ CleanUp(g) \/ Reload(g)
  <2>1. CASE Answer(g, "REFUSED") \/ Answer(g, "UNCERTAIN")
    BY <1>1, <2>1
  <2>2. CASE ~(Answer(g, "REFUSED") \/ Answer(g, "UNCERTAIN"))
    BY <1>5, <2>2 DEF TakeStock, CleanUp, Onward, Reload, To, Apart, Types,
       subject, observed, outcome
  <2> QED
    BY <2>1, <2>2
<1> QED
  BY <1>2, <1>3, <1>4, <1>5 DEF Serve

\* The phases of a call inside the fence.
Fenced == {"staging", "running", "cleaning"}

LEMMA OwnFence ==
    ASSUME FInv, NEW f \in Facade, Ask(f) \/ Serve(f) \/ Crash(f)
    PROVE  FenceInv(f)'
<1>1. ASSUME NEW d, Answer(f, d) PROVE FenceInv(f)'
  BY <1>1 DEF Answer, To, FenceInv, FInv, Types
<1>2. CASE \/ RefuseDocuments(f) \/ FenceExists(f) \/ FenceFails(f) \/ LeftoverFound(f)
           \/ CleanUpFails(f) \/ Confirm(f) \/ Judge(f) \/ Crash(f)
  BY <1>1, <1>2 DEF RefuseDocuments, FenceExists, FenceFails, LeftoverFound, CleanUpFails,
     Confirm, Judge, Crash
<1>3. CASE Ask(f) \/ ReadStatus(f) \/ ReadDigest(f) \/ ReadFails(f) \/ Publish(f)
  BY <1>3 DEF Ask, ReadStatus, ReadDigest, ReadFails, Publish, To, FInv, Types, FenceInv
<1>4. CASE TakeFence(f) \/ Snapshot(f) \/ SnapshotFails(f) \/ CoreReturns(f) \/ CoreRaises(f)
           \/ ReloadFails(f)
  BY <1>4, FacadeAssumption DEF TakeFence, Snapshot, SnapshotFails, CoreReturns, CoreRaises,
     ReloadFails, To, FInv, Types, FenceInv
<1>5. CASE TakeStock(f) \/ CleanUp(f) \/ Reload(f)
  <2>1. CASE Answer(f, "REFUSED") \/ Answer(f, "UNCERTAIN")
    BY <1>1, <2>1
  <2>2. CASE ~(Answer(f, "REFUSED") \/ Answer(f, "UNCERTAIN"))
    BY <1>5, <2>2 DEF TakeStock, CleanUp, Onward, Reload, To, FInv, Types, FenceInv
  <2> QED
    BY <2>1, <2>2
<1> QED
  BY <1>2, <1>3, <1>4, <1>5 DEF Serve

\* Another call finds the fence taken: it cannot be inside it as well.
LEMMA OthersFence ==
    ASSUME FInv, NEW f \in Facade, NEW g \in Facade, g # f, Ask(g) \/ Serve(g) \/ Crash(g)
    PROVE  FenceInv(f)'
<1>1. phase'[f] = phase[f] /\ FenceInv(f) /\ FenceInv(g) /\ f # Free
  BY OthersApart, FacadeAssumption DEF FInv, Apart
<1>2. CASE phase[f] \notin Fenced
  BY <1>1, <1>2 DEF FenceInv, Fenced
<1>3. CASE phase[f] \in Fenced
  <2>1. fence = f /\ phase[g] \notin Fenced
    BY <1>1, <1>3 DEF FenceInv, Fenced
  <2>2. ~TakeFence(g)
    BY <2>1, <1>1 DEF TakeFence
  <2>3. \/ UNCHANGED <<fence, staging>>
        \/ Crash(g)
    BY <2>1, <2>2 DEF Fenced, Serve, Ask, RefuseDocuments, ReadStatus, ReadDigest, ReadFails,
       TakeStock, FenceExists, FenceFails, LeftoverFound, Snapshot, SnapshotFails, CleanUp,
       CleanUpFails, Publish, CoreReturns, CoreRaises, Reload, ReloadFails, Confirm, Judge
  <2>4. CASE UNCHANGED <<fence, staging>>
    BY <1>1, <2>4 DEF FenceInv
  <2>5. CASE Crash(g)
    BY <1>1, <2>1, <2>5, FacadeAssumption DEF Crash, FenceInv, FInv, Types
  <2> QED
    BY <2>3, <2>4, <2>5
<1> QED
  BY <1>2, <1>3

LEMMA NextFInv == FInv /\ [FacadeNext]_vars => FInv'
<1> SUFFICES ASSUME FInv, [FacadeNext]_vars PROVE FInv'
  OBVIOUS
<1>1. Types /\ Types' /\ Forward
  BY TypesStep, StepForward DEF FInv
<1>2. ASSUME NEW f \in Facade, NEW g \in Facade, Ask(g) \/ Serve(g) \/ Crash(g)
      PROVE  CallInv(f)' /\ FenceInv(f)'
  <2>1. CASE g = f
    BY <1>2, <2>1, OwnCall, OwnFence
  <2>2. CASE g # f
    <3>1. Apart(f) /\ CallInv(f)
      BY <1>1, <1>2, <2>2, OthersApart DEF FInv
    <3>2. CallInv(f)'
      BY <1>1, <3>1, Bystander DEF Apart
    <3>3. FenceInv(f)'
      BY <1>2, <2>2, OthersFence
    <3> QED
      BY <3>2, <3>3
  <2> QED
    BY <2>1, <2>2
<1>3. ASSUME NEW f \in Facade, UNCHANGED call
      PROVE  CallInv(f)'
  BY <1>1, <1>3, Bystander DEF FInv, call
<1>4. ASSUME NEW f \in Facade,
             ClearFence \/ ClearStaging \/ PublishDirectly \/ UNCHANGED vars
      PROVE  FenceInv(f)'
  <2>1. FenceInv(f) /\ phase' = phase
    BY <1>4 DEF FInv, ClearFence, ClearStaging, PublishDirectly, vars, call
  <2>2. CASE ClearFence
    BY <2>1, <2>2, FacadeAssumption DEF ClearFence, FenceInv
  <2>3. CASE ClearStaging
    BY <2>1, <2>3, FacadeAssumption DEF ClearStaging, FenceInv, FInv, Types
  <2>4. CASE PublishDirectly \/ UNCHANGED vars
    BY <2>1, <2>4 DEF PublishDirectly, vars, FenceInv
  <2> QED
    BY <1>4, <2>2, <2>3, <2>4
<1>5. ASSUME NEW f \in Facade PROVE CallInv(f)' /\ FenceInv(f)'
  <2>1. CASE ClearFence \/ ClearStaging \/ PublishDirectly \/ UNCHANGED vars
    BY <2>1, <1>3, <1>4 DEF ClearFence, ClearStaging, PublishDirectly, vars
  <2> QED
    BY <2>1, <1>2 DEF FacadeNext
<1> QED
  BY <1>1, <1>5 DEF FInv

LEMMA Inductive == FacadeSpec => []FInv
BY InitFInv, NextFInv, PTL DEF FacadeSpec

-----------------------------------------------------------------------------
(* The properties.                                                         *)

\* mutation_failure, for any number of calls, leases, claims and generations:
\* a call that is answered REFUSED has published nothing.
THEOREM RefusedTruthful == FacadeSpec => RefusedChangedNothing
<1>1. ASSUME FInv, [FacadeNext]_vars,
             NEW f \in Facade, phase[f] # "idle", answer'[f] = "REFUSED"
      PROVE  published[f] = FALSE
  <2>1. CallInv(f) /\ Types /\ answer[f] = "none"
    BY <1>1 DEF FInv, CallInv
  <2>2. \/ RefuseDocuments(f) \/ FenceFails(f) \/ CleanUp(f) \/ Judge(f)
    <3>1. answer'[f] # answer[f]
      BY <1>1, <2>1
    <3>2. Ask(f) \/ Serve(f) \/ Crash(f)
      BY <1>1, <2>1, <3>1, OthersApart DEF FacadeNext, Apart, ClearFence, ClearStaging,
         PublishDirectly, vars, call
    <3>3. ASSUME NEW d, d # "REFUSED", Answer(f, d) PROVE FALSE
      BY <1>1, <2>1, <3>3 DEF Answer, Types
    <3>4. ~Ask(f) /\ ~Crash(f)
      BY <1>1, <3>3 DEF Ask, Crash
    <3>5. ~FenceExists(f) /\ ~LeftoverFound(f) /\ ~CleanUpFails(f) /\ ~Confirm(f)
      BY <3>3 DEF FenceExists, LeftoverFound, CleanUpFails, Confirm
    <3>6. ~TakeStock(f) /\ ~Reload(f)
      BY <3>1, <3>3 DEF TakeStock, Reload, outcome
    <3> QED
      BY <3>1, <3>2, <3>4, <3>5, <3>6 DEF Serve, ReadStatus, ReadDigest, ReadFails, TakeFence,
         Snapshot, SnapshotFails, Publish, CoreReturns, CoreRaises, ReloadFails, outcome
  <2>3. CASE RefuseDocuments(f) \/ FenceFails(f)
    BY <2>1, <2>3 DEF RefuseDocuments, FenceFails, CallInv, Unentered
  <2>4. CASE CleanUp(f)
    <3>1. core[f] = "none"
      BY <1>1, <2>1, <2>4 DEF CleanUp, Onward, outcome
    <3> QED
      BY <2>1, <2>4, <3>1 DEF CleanUp, CallInv, Types
  <2>5. CASE Judge(f)
    <3>1. look[f] = before[f] /\ look[f] # Unknown
      BY <1>1, <2>1, <2>5 DEF Judge, Answer, Types
    <3>2. before[f] \in Seen /\ before[f].generation \in Nat /\ look[f] # Nothing
      BY <2>1, <2>5 DEF Judge, Looked, CallInv, Mutating, Seen
    <3>3. ~(before[f].generation < look[f].generation)
      BY <3>1, <3>2
    <3> QED
      BY <2>1, <2>5, <3>1, <3>2, <3>3 DEF Judge, CallInv, Types
  <2> QED
    BY <2>2, <2>3, <2>4, <2>5
<1>2. FInv /\ [FacadeNext]_vars =>
          [\A f \in Facade : phase[f] # "idle" /\ answer'[f] = "REFUSED" => ~published[f]]_vars
  BY <1>1
<1> QED
  BY <1>2, Inductive, PTL DEF FacadeSpec, RefusedChangedNothing

\* admit_writer and release_writer: a call that is answered OK has published its
\* candidate, and a release that is answered OK has ended the lease.
THEOREM ConfirmedTruthful == FacadeSpec => ConfirmedWasPublished
<1>1. ASSUME FInv, [FacadeNext]_vars,
             NEW f \in Facade, phase[f] # "idle", answer'[f] = "OK"
      PROVE  published[f] = TRUE /\ Followed(f)
  <2>1. CallInv(f) /\ Types /\ answer[f] = "none"
    BY <1>1 DEF FInv, CallInv
  <2>2. Confirm(f)
    <3>1. answer'[f] # answer[f]
      BY <1>1, <2>1
    <3>2. Ask(f) \/ Serve(f) \/ Crash(f)
      BY <1>1, <2>1, <3>1, OthersApart DEF FacadeNext, Apart, ClearFence, ClearStaging,
         PublishDirectly, vars, call
    <3>3. ASSUME NEW d, d # "OK", Answer(f, d) PROVE FALSE
      BY <1>1, <2>1, <3>3 DEF Answer, Types
    <3>4. ~Ask(f) /\ ~Crash(f)
      BY <1>1, <3>3 DEF Ask, Crash
    <3>5. /\ ~RefuseDocuments(f) /\ ~FenceExists(f) /\ ~FenceFails(f) /\ ~LeftoverFound(f)
          /\ ~CleanUpFails(f) /\ ~Judge(f)
      BY <3>3 DEF RefuseDocuments, FenceExists, FenceFails, LeftoverFound, CleanUpFails, Judge
    <3>6. ~TakeStock(f) /\ ~Reload(f) /\ ~CleanUp(f)
      BY <3>1, <3>3 DEF TakeStock, Reload, CleanUp, Onward, outcome
    <3> QED
      BY <3>1, <3>2, <3>4, <3>5, <3>6 DEF Serve, ReadStatus, ReadDigest, ReadFails, TakeFence,
         Snapshot, SnapshotFails, Publish, CoreReturns, CoreRaises, ReloadFails, outcome
  <2> QED
    BY <2>1, <2>2 DEF Confirm, CallInv
<1>2. FInv /\ [FacadeNext]_vars =>
          [\A f \in Facade : phase[f] # "idle" /\ answer'[f] = "OK" =>
              /\ published[f]
              /\ \/ custody[lease[f]] = asked[f]
                 \/ IsAdmission(f) /\ custody[lease[f]].generation > 1]_vars
  BY <1>1 DEF Followed, IsAdmission
<1> QED
  BY <1>2, Inductive, PTL DEF FacadeSpec, ConfirmedWasPublished

\* The operation fence, for any number of calls and staging roots: a call inside
\* the core owns the fence and its snapshot.
THEOREM FenceExcludes == FacadeSpec => []MutationFenced
<1>1. FInv => MutationFenced
  BY DEF FInv, FenceInv, MutationFenced
<1> QED
  BY <1>1, Inductive, PTL

\* candidate_snapshot: no call takes over what an earlier one left, and an open
\* fence hides no snapshot of the call that opened it.
THEOREM LeftoversKept == FacadeSpec => UnresolvedKept
<1>1. ASSUME FInv, [FacadeNext]_vars, fence = Orphan, fence' # Orphan
      PROVE  UNCHANGED call
  <2>1. ASSUME NEW f \in Facade, Ask(f) \/ Serve(f) \/ Crash(f) PROVE FALSE
    <3>1. fence # f /\ fence # Free /\ FenceInv(f)
      BY <1>1, FacadeAssumption DEF FInv
    <3> QED
      BY <1>1, <2>1, <3>1 DEF FenceInv, Serve, Ask, RefuseDocuments, ReadStatus, ReadDigest,
         ReadFails, TakeStock, TakeFence, FenceExists, FenceFails, LeftoverFound, Snapshot,
         SnapshotFails, CleanUp, CleanUpFails, Publish, CoreReturns, CoreRaises, Reload,
         ReloadFails, Confirm, Judge, Crash
  <2> QED
    BY <1>1, <2>1 DEF FacadeNext, ClearFence, ClearStaging, PublishDirectly, vars
<1>2. ASSUME FInv, [FacadeNext]_vars, NEW f \in Facade, fence = f, fence' = Free,
             NEW s \in StagingRoot
      PROVE  staging'[s] \in {Free, staging[s]} \ {f}
  <2>1. f # Free /\ f # Orphan /\ Free # Orphan
    BY FacadeAssumption
  <2>2. PICK g \in Facade : CleanUp(g) \/ CleanUpFails(g)
    <3>1. PICK g \in Facade : Ask(g) \/ Serve(g) \/ Crash(g)
      BY <1>2, <2>1 DEF FacadeNext, ClearFence, ClearStaging, PublishDirectly, vars
    <3> QED
      BY <1>2, <2>1, <3>1 DEF Serve, Ask, RefuseDocuments, ReadStatus, ReadDigest,
         ReadFails, TakeStock, TakeFence, FenceExists, FenceFails, LeftoverFound, Snapshot,
         SnapshotFails, Publish, CoreReturns, CoreRaises, Reload, ReloadFails, Confirm, Judge,
         Crash
  <2>3. g = f
    BY <1>2, <2>2 DEF CleanUp, CleanUpFails, FInv, FenceInv
  <2> QED
    BY <1>2, <2>1, <2>2, <2>3 DEF CleanUp, CleanUpFails
<1>3. FInv /\ [FacadeNext]_vars =>
          [/\ fence = Orphan /\ fence' # Orphan => UNCHANGED call
           /\ \A f \in Facade : fence = f /\ fence' = Free =>
                 \A s \in StagingRoot : staging'[s] \in {Free, staging[s]} \ {f}]_vars
  BY <1>1, <1>2
<1> QED
  BY <1>3, Inductive, PTL DEF FacadeSpec, UnresolvedKept

\* The facade moves leases by the actions of the contract and not otherwise, so
\* with direct callers beside it the contract is kept.
LEMMA FacadeKeepsContract == FacadeSpec => ContractSpec
<1>1. FacadeInit => ContractInit
  BY DEF FacadeInit
<1>2. ASSUME FInv, [FacadeNext]_vars PROVE [ContractNext]_custody
  <2>1. ASSUME NEW l \in LeaseId, Moves(l) PROVE custody'[l] # custody[l]
    BY <1>2, <2>1, EntryFacts DEF FInv, Types, Moves
  <2>2. CASE \E f \in Facade : Publish(f)
    <3>1. PICK f \in Facade : Publish(f)
      BY <2>2
    <3>2. lease[f] \in LeaseId /\ Moves(lease[f]) /\ asked[f] \in Candidate
      BY <1>2, <3>1, PublishMoves DEF FInv, CallInv, Publish
    <3>3. End(lease[f]) \/ \E c \in Claim : Grant(lease[f], c)
      BY <3>1, <3>2, CandidateFacts DEF Publish, IsAdmission
    <3> QED
      BY <2>1, <3>2, <3>3 DEF ContractNext
  <2>3. CASE PublishDirectly
    <3>1. PICK l \in LeaseId : End(l) \/ \E c \in Claim : Grant(l, c) \/ Change(l, c)
      BY <2>3 DEF PublishDirectly
    <3>2. Moves(l)
      BY <1>2, <3>1, GrantMoves, ChangeMoves, EndMoves DEF FInv
    <3> QED
      BY <2>1, <3>1, <3>2 DEF ContractNext
  <2>4. CASE ~PublishDirectly /\ ~\E f \in Facade : Publish(f)
    BY <1>2, <2>4 DEF FacadeNext, vars, Ask, Serve, Crash, ClearFence, ClearStaging,
       RefuseDocuments, ReadStatus, ReadDigest, ReadFails, TakeStock, TakeFence, FenceExists,
       FenceFails, LeftoverFound, Snapshot, SnapshotFails, CleanUp, CleanUpFails,
       CoreReturns, CoreRaises, Reload, ReloadFails, Confirm, Judge
  <2> QED
    BY <2>2, <2>3, <2>4
<1> QED
  BY <1>1, <1>2, Inductive, PTL DEF FacadeSpec, ContractSpec

-----------------------------------------------------------------------------
(* What the contract is worth: its guards look at one lease id at a time.  *)

ContractExcludes ==
    \A l, m \in LeaseId :
        l # m /\ custody[l].state = "ACTIVE" /\ custody[m].state = "ACTIVE" =>
            ~ClaimsConflict(custody[l].claim, custody[m].claim)

ContractInv == custody = [l \in LeaseId |-> custody[l]] /\ ContractExcludes

LEMMA ConflictSymmetric ==
    ASSUME NEW c, NEW d, ClaimsConflict(c, d)
    PROVE  ClaimsConflict(d, c)
<1>1. ASSUME NEW left, NEW right, MapsConflict(left, right) PROVE MapsConflict(right, left)
  BY <1>1 DEF MapsConflict, AccessConflicts
<1>2. ASSUME NEW left, NEW right, PathsConflict(left, right) PROVE PathsConflict(right, left)
  <2>1. PICK p \in DOMAIN left, q \in DOMAIN right :
            PathsOverlap(p, q) /\ AccessConflicts(left[p], right[q])
    BY <1>2 DEF PathsConflict
  <2>2. PathsOverlap(q, p) /\ AccessConflicts(right[q], left[p])
    BY <2>1 DEF PathsOverlap, AccessConflicts
  <2>. QED
    BY <2>2 DEF PathsConflict
<1>. QED
  BY <1>1, <1>2 DEF ClaimsConflict

\* A claim that is admissible where it enters stays clear of all the others.
LEMMA EntryExcludes ==
    ASSUME ContractInv, NEW l \in LeaseId, NEW c, NEW g, Admissible(l, c),
           custody' = [custody EXCEPT ![l] = InForce(c, g)]
    PROVE  ContractInv'
<1>1. /\ custody' = [m \in LeaseId |-> custody'[m]]
      /\ custody'[l] = InForce(c, g)
      /\ \A m \in LeaseId \ {l} : custody'[m] = custody[m]
  BY DEF ContractInv
<1>2. InForce(c, g).claim = c
  BY DEF InForce
<1>3. ASSUME NEW m \in LeaseId \ {l}, custody[m].state = "ACTIVE"
      PROVE  ~ClaimsConflict(c, custody[m].claim) /\ ~ClaimsConflict(custody[m].claim, c)
  BY <1>3, ConflictSymmetric DEF Admissible
<1>4. ContractExcludes'
  <2>. SUFFICES ASSUME NEW m \in LeaseId, NEW n \in LeaseId, m # n,
                       custody'[m].state = "ACTIVE", custody'[n].state = "ACTIVE"
                PROVE  ~ClaimsConflict(custody'[m].claim, custody'[n].claim)
    BY DEF ContractExcludes
  <2>1. CASE m = l
    BY <1>1, <1>2, <1>3, <2>1
  <2>2. CASE n = l
    BY <1>1, <1>2, <1>3, <2>2
  <2>3. CASE m # l /\ n # l
    BY <1>1, <2>3 DEF ContractInv, ContractExcludes
  <2>. QED
    BY <2>1, <2>2, <2>3
<1>. QED
  BY <1>1, <1>4 DEF ContractInv

\* The contract keeps leases in force apart, for any leases, claims and
\* generations.
LEMMA ContractInductive == ContractSpec => []ContractInv
<1>1. ContractInit => ContractInv
  BY DEF ContractInit, ContractInv, ContractExcludes, Absent
<1>2. ASSUME ContractInv, ContractNext PROVE ContractInv'
  <2>1. PICK l \in LeaseId : End(l) \/ \E c \in Claim : Grant(l, c) \/ Change(l, c)
    BY <1>2 DEF ContractNext
  <2>2. CASE End(l)
    <3>1. /\ custody' = [m \in LeaseId |-> custody'[m]]
          /\ custody'[l].state # "ACTIVE"
          /\ \A m \in LeaseId \ {l} : custody'[m] = custody[m]
      BY <1>2, <2>2 DEF ContractInv, End, Ended
    <3>. QED
      BY <1>2, <3>1 DEF ContractInv, ContractExcludes
  <2>3. CASE \E c \in Claim : Grant(l, c) \/ Change(l, c)
    BY <1>2, <2>3, EntryExcludes DEF Grant, Change
  <2>. QED
    BY <2>1, <2>2, <2>3
<1>3. ContractInv /\ UNCHANGED custody => ContractInv'
  BY DEF ContractInv, ContractExcludes
<1>. QED
  BY <1>1, <1>2, <1>3, PTL DEF ContractSpec

\* Whatever facade calls and direct callers do together, fail or crash, leases
\* in force do not conflict (mcp_server.py, leases.py: acquire, replace, find_overlaps).
THEOREM FacadeLeasesExclude == FacadeSpec => []ContractExcludes
<1>1. ContractInv => ContractExcludes
  BY DEF ContractInv
<1>. QED
  BY <1>1, FacadeKeepsContract, ContractInductive, PTL
=============================================================================
