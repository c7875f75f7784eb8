------------------------------ MODULE Handoff ------------------------------
(***************************************************************************)
(* The source handoff over one local pipe (windows_issuer.py,              *)
(* windows_capability.py).  Issuer objects share one retained deadline and *)
(* may call claim_once; the one that gets the attempt serves a single      *)
(* client session: claim, acknowledgement, heartbeats, binding of the      *)
(* writer, then the four stages in CHECKPOINT_ORDER with watchdogs between *)
(* them.  Before each reply the issuer verifies the protected custody and, *)
(* once the writer is bound, the writer's process and Job.                 *)
(*                                                                         *)
(*   issuer: ready -> claimed -> listening -> reading <-> checking         *)
(*                    -> leaving -> returned (or failed, refused)          *)
(*   client: off -> sending -> awaiting -> idle <-> ... -> closed          *)
(*                                                                         *)
(* A frame crosses the pipe whole; a reply names the frame it answers.     *)
(***************************************************************************)
EXTENDS Naturals, Sequences

CONSTANTS
    \* Issuer objects that retain the same deadline.
    Issuer,
    \* IO_WAIT_MS and FRAME_WAIT_SECONDS, in seconds.
    IoWait, FrameWait,
    \* Seconds from the start to the deadline of the intent.
    Lifetime,
    NoServer

ASSUME WaitAssumption ==
    /\ IoWait \in Nat \ {0} /\ FrameWait \in Nat /\ IoWait <= FrameWait
    /\ Lifetime \in Nat
ASSUME ServerAssumption == NoServer \notin Issuer

VARIABLES
    \* LocalDeadline of the issuers: attempt consumed, hold latched.
    consumed, issuerHold,
    \* Where each claim_once is, the part of the dialogue it is in, the frame it
    \* is answering and what it has checked for it.
    pc, phase, answering, checked,
    \* The pipe: the issuer that owns the first instance, whether the client's
    \* end is open, and the frames under way in each direction.
    server, attached, toIssuer, toClient,
    \* WindowsHandoffSession: what it does, with which frame; _binding, _next.
    client, request, bound, next,
    \* Hold latched in the client's own LocalDeadline.
    clientHold,
    \* Seconds to the deadline; how long each side has waited for a frame; the
    \* sides that gave up waiting for one.
    remaining, age, timedOut,
    \* Whether lease, decision and worktree verify now; whether the writer
    \* process and its Job do.
    custody, writer,
    \* Auxiliary: what the issuer has checked since the client last began; how
    \* often the client passed the binding or a stage under a latched hold.
    evidence, late

attempt == <<consumed, issuerHold>>
issuing == <<pc, phase, answering, checked>>
pipe == <<server, attached, toIssuer, toClient>>
session == <<client, request, bound, next, clientHold>>
waiting == <<age, timedOut>>
world == <<remaining, custody, writer>>
auxiliary == <<evidence, late>>
vars == <<consumed, issuerHold, pc, phase, answering, checked, server, attached,
          toIssuer, toClient, client, request, bound, next, clientHold, age, timedOut,
          remaining, custody, writer, evidence, late>>

CHECKPOINT_ORDER == <<"resume", "effect_publication", "receipt", "dag_ack">>
Stage == {"resume", "effect_publication", "receipt", "dag_ack"}
Checkpoint == Stage \union {"watchdog"}
Frame == Checkpoint \union {"claim", "ack", "heartbeat", "bind"}

\* The parts of the dialogue: claim, acknowledgement, binding, four stages, end.
ClaimPhase == 0
AckPhase == 1
BindPhase == 2
StagePhase(k) == 2 + k
EndPhase == 7
Phase == 0 .. 7

Side == {"issuer", "client"}
Evidence == {"custody", "writer"}

Running == {"claimed", "listening", "reading", "checking", "leaving"}

TypeOK ==
    /\ consumed \in BOOLEAN /\ issuerHold \in BOOLEAN
    /\ pc \in [Issuer -> Running \union {"ready", "refused", "returned", "failed"}]
    /\ phase \in [Issuer -> Phase]
    /\ answering \in [Issuer -> Frame]
    /\ checked \in [Issuer -> SUBSET Evidence]
    /\ server \in Issuer \union {NoServer} /\ attached \in BOOLEAN
    /\ toIssuer \in Seq(Frame) /\ toClient \in Seq(Frame)
    /\ client \in {"off", "sending", "awaiting", "idle", "closed"}
    /\ request \in Frame
    /\ bound \in BOOLEAN /\ next \in 0 .. 4 /\ clientHold \in BOOLEAN
    /\ remaining \in 0 .. Lifetime
    /\ age \in [Side -> 0 .. FrameWait] /\ timedOut \subseteq Side
    /\ custody \in BOOLEAN /\ writer \in BOOLEAN
    /\ evidence \subseteq Evidence /\ late \in Nat

Init ==
    /\ consumed = FALSE /\ issuerHold = FALSE
    /\ pc = [i \in Issuer |-> "ready"]
    /\ phase = [i \in Issuer |-> ClaimPhase]
    /\ answering = [i \in Issuer |-> "claim"]
    /\ checked = [i \in Issuer |-> {}]
    /\ server = NoServer /\ attached = FALSE
    /\ toIssuer = <<>> /\ toClient = <<>>
    /\ client = "off" /\ request = "claim"
    /\ bound = FALSE /\ next = 0 /\ clientHold = FALSE
    /\ remaining = Lifetime
    /\ age = [s \in Side |-> 0] /\ timedOut = {}
    /\ custody \in BOOLEAN /\ writer \in BOOLEAN
    /\ evidence = {} /\ late = 0

Goto(i, label) == pc' = [pc EXCEPT ![i] = label]
Waits(side) == age' = [age EXCEPT ![side] = 0]

-----------------------------------------------------------------------------
(* The issuer.                                                             *)

\* consume_issuer_claim: the first caller gets the attempt, any other raises.
\* (Faulty variants: the attempt is not burnt; the second caller's error
\* invalidates the deadline like any other.)
ClaimUnburnt(i) ==
    /\ pc[i] = "ready"
    /\ Goto(i, "claimed")
    /\ UNCHANGED <<attempt, phase, answering, checked, pipe, session, waiting, world, auxiliary>>
Claim(i) ==
    /\ pc[i] = "ready"
    /\ consumed' = TRUE
    /\ Goto(i, IF consumed THEN "refused" ELSE "claimed")
    /\ UNCHANGED <<issuerHold, phase, answering, checked, pipe, session, waiting, world,
                   auxiliary>>

DeadlinePasses == ~issuerHold /\ remaining > 0

\* The admission check passes and the first pipe instance is created.
Open(i) ==
    /\ pc[i] = "claimed"
    /\ DeadlinePasses
    /\ server = NoServer
    /\ server' = i
    /\ Goto(i, "listening")
    /\ Waits("issuer")
    /\ UNCHANGED <<attempt, phase, answering, checked, attached, toIssuer, toClient,
                   session, timedOut, world, auxiliary>>

\* ConnectNamedPipe finds the client and the peer is the pinned one.
Connect(i) ==
    /\ pc[i] = "listening"
    /\ attached
    /\ Goto(i, "reading")
    /\ Waits("issuer")
    /\ UNCHANGED <<attempt, phase, answering, checked, pipe, session, timedOut, world, auxiliary>>

\* The frames claim_once accepts at each point of the dialogue.
Expected(p) ==
    IF p = ClaimPhase THEN {"claim"}
    ELSE IF p = AckPhase THEN {"ack"}
    ELSE IF p = BindPhase THEN {"heartbeat", "bind"}
    ELSE {"watchdog", CHECKPOINT_ORDER[p - 2]}

\* read_frame: the next frame is one of those expected here.
Read(i) ==
    /\ pc[i] = "reading"
    /\ toIssuer # <<>>
    /\ Head(toIssuer) \in Expected(phase[i])
    /\ toIssuer' = Tail(toIssuer)
    /\ answering' = [answering EXCEPT ![i] = Head(toIssuer)]
    /\ checked' = [checked EXCEPT ![i] = {}]
    /\ Goto(i, "checking")
    /\ UNCHANGED <<attempt, phase, server, attached, toClient, session, waiting, world, auxiliary>>

\* What has to be checked before a frame is answered.
Needed(f) == IF f \in Checkpoint \union {"bind"} THEN Evidence ELSE {"custody"}

\* The writer is observed before the custody when it is bound, after it at a
\* checkpoint.
CustodyDue(i) == "custody" \notin checked[i] /\ (answering[i] = "bind" => "writer" \in checked[i])
WriterDue(i) ==
    /\ "writer" \in Needed(answering[i]) \ checked[i]
    /\ answering[i] # "bind" => "custody" \in checked[i]

\* WindowsProtectedCustodyVerifier.verify, between two deadline checks.
VerifyCustody(i) ==
    /\ pc[i] = "checking"
    /\ CustodyDue(i)
    /\ custody /\ DeadlinePasses
    /\ checked' = [checked EXCEPT ![i] = @ \union {"custody"}]
    /\ evidence' = evidence \union {"custody"}
    /\ UNCHANGED <<attempt, pc, phase, answering, pipe, session, waiting, world, late>>

\* WindowsWriterInspector.observe on the duplicated handles, likewise.
ObserveWriter(i) ==
    /\ pc[i] = "checking"
    /\ WriterDue(i)
    /\ writer /\ DeadlinePasses
    /\ checked' = [checked EXCEPT ![i] = @ \union {"writer"}]
    /\ evidence' = evidence \union {"writer"}
    /\ UNCHANGED <<attempt, pc, phase, answering, pipe, session, waiting, world, late>>

\* The dialogue moves on, except after heartbeats and watchdogs.  (Faulty
\* variant: a watchdog is counted as the stage it stands before.)
PhaseAfterEveryFrame(p, f) == IF f = "heartbeat" THEN p ELSE p + 1
PhaseAfter(p, f) == IF f \in {"heartbeat", "watchdog"} THEN p ELSE p + 1

\* All checks passed: the reply is written (an acknowledgement has none), and
\* the next frame is awaited.
Reply(i) ==
    /\ pc[i] = "checking"
    /\ Needed(answering[i]) \subseteq checked[i]
    /\ answering[i] # "ack" => attached
    /\ toClient' = IF answering[i] = "ack" THEN toClient ELSE Append(toClient, answering[i])
    /\ phase' = [phase EXCEPT ![i] = PhaseAfter(phase[i], answering[i])]
    /\ Goto(i, IF answering[i] = "dag_ack" THEN "leaving" ELSE "reading")
    /\ Waits("issuer")
    /\ UNCHANGED <<attempt, answering, checked, server, attached, toIssuer, session, timedOut,
                   world, auxiliary>>

\* The server end closes; the client may or may not still read what was sent.
CloseServer(i) ==
    IF server = i
    THEN /\ server' = NoServer
         /\ toIssuer' = <<>>
         /\ toClient' \in {toClient, <<>>}
         /\ UNCHANGED attached
    ELSE UNCHANGED pipe

\* claim_once raises: the retained deadline is invalidated for good.
Fail(i) ==
    /\ issuerHold' = TRUE
    /\ CloseServer(i)
    /\ Goto(i, "failed")
    /\ UNCHANGED <<consumed, phase, answering, checked, session, age, world, auxiliary>>

\* A check or an I/O operation that the present state makes fail.
Reject(i) ==
    /\ \/ pc[i] = "claimed" /\ (~DeadlinePasses \/ server # NoServer)
       \/ pc[i] = "reading" /\ toIssuer = <<>> /\ ~attached
       \/ pc[i] = "reading" /\ toIssuer # <<>> /\ Head(toIssuer) \notin Expected(phase[i])
       \/ pc[i] = "checking" /\ CustodyDue(i) /\ ~(custody /\ DeadlinePasses)
       \/ pc[i] = "checking" /\ WriterDue(i) /\ ~(writer /\ DeadlinePasses)
       \/ /\ pc[i] = "checking" /\ Needed(answering[i]) \subseteq checked[i]
          /\ answering[i] # "ack" /\ ~attached
    /\ Fail(i)
    /\ UNCHANGED timedOut

\* No client, or no frame, within the wait of one overlapped operation; the
\* wait of a whole frame is longer but never reached without data.  (Faulty
\* variant: only a wait for the client is bounded.)
ConnectTimeout(i) ==
    /\ pc[i] = "listening" /\ ~attached
    /\ age["issuer"] >= IoWait
    /\ Fail(i)
    /\ UNCHANGED timedOut
Timeout(i) ==
    /\ \/ pc[i] = "listening" /\ ~attached
       \/ pc[i] = "reading" /\ toIssuer = <<>> /\ attached
    /\ age["issuer"] >= IoWait
    /\ Fail(i)
    /\ timedOut' = IF pc[i] = "reading" THEN timedOut \union {"issuer"} ELSE timedOut

\* Anything else that raises, or the death of the issuer process.
Break(i) ==
    /\ pc[i] \in Running
    /\ Fail(i)
    /\ UNCHANGED timedOut

\* The last acknowledgement is written: the peer is looked up once more, then
\* the pipe closes.  With the client gone the lookup may go either way.
Leave(i) ==
    /\ pc[i] = "leaving"
    /\ CloseServer(i)
    /\ \/ Goto(i, "returned") /\ UNCHANGED issuerHold
       \/ ~attached /\ Goto(i, "failed") /\ issuerHold' = TRUE
    /\ UNCHANGED <<consumed, phase, answering, checked, session, waiting, world, auxiliary>>

-----------------------------------------------------------------------------
(* The client.                                                             *)

\* The pipe is opened and the server is the pinned issuer.
ClientConnect ==
    /\ client = "off"
    /\ server # NoServer
    /\ remaining > 0
    /\ attached' = TRUE
    /\ client' = "sending" /\ request' = "claim"
    /\ UNCHANGED <<attempt, issuing, server, toIssuer, toClient, bound, next, clientHold,
                   waiting, world, auxiliary>>

\* The pipe cannot be opened; the caller may try again with the held deadline.
ClientRefused ==
    /\ client = "off"
    /\ clientHold' = TRUE
    /\ UNCHANGED <<attempt, issuing, pipe, client, request, bound, next, waiting, world, auxiliary>>

\* The owner calls pre_spawn_watchdog, bind or checkpoint in order.  Only bind
\* and checkpoint observe the writer, and with it the client's own deadline.
\* (Faulty variant: only bind does.)
BeginUnobserved(f) ==
    /\ client = "idle"
    /\ remaining > 0
    /\ \/ f = "heartbeat" /\ ~bound
       \/ f = "bind" /\ ~bound /\ writer /\ ~clientHold
       \/ bound /\ next < 4 /\ f \in {"watchdog", CHECKPOINT_ORDER[next + 1]}
    /\ client' = "sending" /\ request' = f
    /\ evidence' = {}
    /\ UNCHANGED <<attempt, issuing, pipe, bound, next, clientHold, waiting, world, late>>
Begin(f) ==
    /\ client = "idle"
    /\ remaining > 0
    /\ \/ f = "heartbeat" /\ ~bound
       \/ f = "bind" /\ ~bound /\ writer /\ ~clientHold
       \/ /\ bound /\ next < 4
          /\ f \in {"watchdog", CHECKPOINT_ORDER[next + 1]}
          /\ writer /\ ~clientHold
    /\ client' = "sending" /\ request' = f
    /\ evidence' = {}
    /\ UNCHANGED <<attempt, issuing, pipe, bound, next, clientHold, waiting, world, late>>

\* The acknowledgement of the handoff is sent without waiting for an answer.
Send ==
    /\ client = "sending"
    /\ server # NoServer
    /\ toIssuer' = Append(toIssuer, request)
    /\ client' = IF request = "ack" THEN "idle" ELSE "awaiting"
    /\ Waits("client")
    /\ UNCHANGED <<attempt, issuing, server, attached, toClient, request, bound, next,
                   clientHold, timedOut, world, auxiliary>>

\* The client end closes; the issuer may or may not still read what was sent.
CloseClient ==
    /\ client' = "closed"
    /\ attached' = FALSE
    /\ toClient' = <<>>
    /\ toIssuer' \in {toIssuer, <<>>}
    /\ UNCHANGED server

\* The reply is the expected one and the deadline is still ahead.
Accept ==
    /\ client = "awaiting"
    /\ toClient # <<>> /\ Head(toClient) = request
    /\ remaining > 0
    /\ bound' = (bound \/ request = "bind")
    /\ next' = IF request \in Stage THEN next + 1 ELSE next
    /\ request' = IF request = "claim" THEN "ack" ELSE request
    /\ IF request = "dag_ack"
       THEN CloseClient
       ELSE /\ toClient' = Tail(toClient)
            /\ client' = IF request = "claim" THEN "sending" ELSE "idle"
            /\ UNCHANGED <<server, attached, toIssuer>>
    /\ late' = IF clientHold /\ request \in Stage \union {"bind"} THEN late + 1 ELSE late
    /\ UNCHANGED <<attempt, issuing, clientHold, waiting, world, evidence>>

\* No reply within the wait of one operation: the session is lost.  (Faulty
\* variant: the pipe stays open and the caller may go on.)
GiveUpReply ==
    /\ client = "awaiting" /\ toClient = <<>> /\ server # NoServer
    /\ age["client"] >= IoWait
    /\ timedOut' = timedOut \union {"client"}
    /\ client' = "idle"
    /\ UNCHANGED <<attempt, issuing, pipe, request, bound, next, clientHold, age, world, auxiliary>>
ClientTimeout ==
    /\ client = "awaiting" /\ toClient = <<>> /\ server # NoServer
    /\ age["client"] >= IoWait
    /\ timedOut' = timedOut \union {"client"}
    /\ CloseClient
    /\ clientHold' = TRUE
    /\ UNCHANGED <<attempt, issuing, request, bound, next, age, world, auxiliary>>

\* The session closes early: the owner closes it or calls out of order, a check
\* or an I/O operation raises, the reply is another one, the process dies.
ClientClose ==
    /\ client \in {"sending", "awaiting", "idle"}
    /\ CloseClient
    /\ clientHold' = TRUE
    /\ UNCHANGED <<attempt, issuing, request, bound, next, waiting, world, auxiliary>>

\* A thread that does not own the session uses it: the client's deadline is
\* invalidated, the session stays open.
StrayThread ==
    /\ client \in {"sending", "awaiting", "idle"} /\ (client # "idle" => request \notin {"claim", "ack"})
    /\ clientHold' = TRUE
    /\ UNCHANGED <<attempt, issuing, pipe, client, request, bound, next, waiting, world, auxiliary>>

-----------------------------------------------------------------------------
(* The world.                                                              *)

Smaller(m, n) == IF m < n THEN m ELSE n

\* A second passes; waits are counted up to FrameWait.
Tick ==
    /\ remaining' = IF remaining = 0 THEN 0 ELSE remaining - 1
    /\ age' = [s \in Side |-> Smaller(age[s] + 1, FrameWait)]
    /\ UNCHANGED <<attempt, issuing, pipe, session, timedOut, custody, writer, auxiliary>>

\* Lease, decision, worktree or archive change; the writer process or Job does.
CustodyChanges ==
    /\ custody' = ~custody
    /\ UNCHANGED <<attempt, issuing, pipe, session, waiting, remaining, writer, auxiliary>>

WriterChanges ==
    /\ writer' = ~writer
    /\ UNCHANGED <<attempt, issuing, pipe, session, waiting, remaining, custody, auxiliary>>

-----------------------------------------------------------------------------
\* What a running claim_once does of its own.
Serve(i) ==
    \/ Open(i) \/ Connect(i) \/ Read(i) \/ VerifyCustody(i) \/ ObserveWriter(i)
    \/ Reply(i) \/ Reject(i) \/ Timeout(i) \/ Leave(i)

ClientStep ==
    \/ ClientConnect \/ ClientRefused \/ (\E f \in Frame : Begin(f)) \/ Send \/ Accept
    \/ ClientTimeout \/ ClientClose \/ StrayThread

Next ==
    \/ \E i \in Issuer : Claim(i) \/ Serve(i) \/ Break(i)
    \/ ClientStep
    \/ Tick \/ CustodyChanges \/ WriterChanges

Spec == Init /\ [][Next]_vars

\* The running issuer keeps executing, and time passes; nothing is asked of
\* the client.
KeepsRunning(i) == WF_vars(Serve(i))
FairSpec == Spec /\ (\A i \in Issuer : KeepsRunning(i)) /\ WF_vars(Tick)

-----------------------------------------------------------------------------
(* Properties.                                                             *)

Attempted(i) == pc[i] \notin {"ready", "refused"}

\* One attempt per retained intent: of all issuer objects at most one gets past
\* consume_issuer_claim, and the deadline they share is held only by its failure
\* (a second claim is refused without disturbing the first).
SingleAttempt ==
    /\ \A i, j \in Issuer : Attempted(i) /\ Attempted(j) => i = j
    /\ issuerHold => \E i \in Issuer : pc[i] = "failed"

\* Issuer and client agree on the stages: the client has bound its writer or
\* passed a stage only if claim_once has acknowledged it, and the issuer is at
\* most the one acknowledgement ahead that the client is waiting for or lost.
StagesAgree ==
    /\ bound => \E i \in Issuer : phase[i] >= StagePhase(next + 1)
    /\ \A i \in Issuer : phase[i] > StagePhase(1) =>
          /\ bound
          /\ phase[i] <= StagePhase(next + 2)
          /\ phase[i] = StagePhase(next + 2) =>
                client = "closed" \/ (client = "awaiting" /\ request = CHECKPOINT_ORDER[next + 1])

\* Whatever the client passes rests on checks the issuer made after the client
\* asked: no acknowledgement of an earlier request can be taken for it
\* (checkpoint, bind; watchdog acknowledgements are byte for byte the same).
PassedOnFreshEvidence ==
    [][bound' # bound \/ next' # next \/ (client = "awaiting" /\ client' = "idle" /\ request = "watchdog")
          => evidence = Evidence]_vars

\* A latched client deadline stops the session: at most the one binding or stage
\* that was under way when another thread, a failure or an earlier refused
\* attempt latched it is still passed (WindowsWriterInspector.observe before
\* each write, no second look at the deadline after the reply).
HoldStopsSession == late <= 1

\* A claim waits for nothing but the client's connection or next frame, and for
\* that no longer than IoWait: in every other state of claim_once it can take a
\* step of its own, whatever client, custody, writer and deadline do meanwhile.
StillWaits(i) ==
    /\ \/ pc[i] = "listening" /\ ~attached
       \/ pc[i] = "reading" /\ toIssuer = <<>> /\ attached
    /\ age["issuer"] < IoWait
ClaimNeverStuck ==
    \A i \in Issuer : pc[i] \in Running /\ ~StillWaits(i) => ENABLED <<Serve(i)>>_vars

\* claim_once ends: no silent, slow or chattering client keeps it for ever.
ClaimEnds ==
    \A i \in Issuer : pc[i] = "claimed" ~> pc[i] \in {"returned", "failed"}

\* The documented wait for a frame: a side gives up only after FrameWait
\* seconds without one.
FrameWaitHonoured ==
    [][\A s \in Side : s \in timedOut' \ timedOut => age[s] >= FrameWait]_vars

\* What the two ends see of it: the claim that serves, the session, and how many
\* of the binding and the four stages claim_once acknowledged and the client
\* passed.
ClaimSeen ==
    IF server # NoServer THEN "serving"
    ELSE IF \E i \in Issuer : pc[i] \in {"returned", "failed"} THEN "over" ELSE "unclaimed"
OwnerSeen ==
    CASE client = "off" -> "away"
      [] client = "closed" -> "gone"
      [] OTHER -> "present"
Acknowledged ==
    CHOOSE n \in 0 .. 5 : /\ \A i \in Issuer : phase[i] <= BindPhase + n
                          /\ n = 0 \/ \E i \in Issuer : phase[i] = BindPhase + n
Passed == IF bound THEN next + 1 ELSE 0

Contract ==
    INSTANCE HandoffContract WITH
        Milestones <- 5, claim <- ClaimSeen, owner <- OwnerSeen,
        acknowledged <- Acknowledged, passed <- Passed

\* The handoff implements its contract (claim_once, WindowsHandoffSession): each
\* milestone is acknowledged once, after the one before was passed, and passed
\* once, after it was acknowledged, by one claim that never serves again.
ImplementsHandoffContract == Contract!ContractSpec
=============================================================================
