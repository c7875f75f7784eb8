--------------------------- MODULE HandoffProofs ---------------------------
(***************************************************************************)
(* The handoff for any number of issuer objects: one attempt per retained  *)
(* intent, a latched client deadline stops the session, and client and     *)
(* issuer stay in step, on evidence gathered since the client asked, as    *)
(* HandoffContract promises.                                               *)
(***************************************************************************)
EXTENDS Handoff, SequenceTheorems, TLAPS

\* What the attempt rests on: the flag is burnt by whoever passes it, and the
\* deadline is latched only by the failure of a running claim.
AttemptInv ==
    /\ consumed \in BOOLEAN
    /\ pc \in [Issuer -> Running \union {"ready", "refused", "returned", "failed"}]
    /\ \A i \in Issuer : Attempted(i) => consumed
    /\ SingleAttempt

LEMMA InitAttemptInv == Init => AttemptInv
BY DEF Init, AttemptInv, SingleAttempt, Attempted

\* A step in which one running claim moves on, and latches the deadline only by
\* failing, keeps the attempt single.
LEMMA RunningStep ==
    ASSUME AttemptInv, NEW i \in Issuer, Attempted(i),
           NEW label \in Running \union {"returned", "failed"}, Goto(i, label),
           UNCHANGED consumed, label = "failed" \/ (pc[i] # "failed" /\ UNCHANGED issuerHold)
    PROVE  AttemptInv'
<1>1. /\ pc' \in [Issuer -> Running \union {"ready", "refused", "returned", "failed"}]
      /\ \A j \in Issuer : Attempted(j)' => Attempted(j)
  BY DEF AttemptInv, Goto, Attempted, Running
<1>2. issuerHold' => \E j \in Issuer : pc'[j] = "failed"
  <2>1. CASE label = "failed"
    BY <2>1 DEF AttemptInv, Goto
  <2>2. CASE pc[i] # "failed" /\ UNCHANGED issuerHold
    BY <2>2 DEF AttemptInv, SingleAttempt, Goto
  <2>. QED
    BY <2>1, <2>2
<1>. QED
  BY <1>1, <1>2 DEF AttemptInv, SingleAttempt

LEMMA NextAttemptInv == AttemptInv /\ [Next]_vars => AttemptInv'
<1>. SUFFICES ASSUME AttemptInv, [Next]_vars PROVE AttemptInv'
  OBVIOUS
<1>1. CASE UNCHANGED <<consumed, issuerHold, pc>>
  BY <1>1 DEF AttemptInv, SingleAttempt, Attempted
<1>2. ASSUME NEW i \in Issuer, Claim(i) PROVE AttemptInv'
  <2>1. pc' = [pc EXCEPT ![i] = IF consumed THEN "refused" ELSE "claimed"] /\ consumed'
        /\ UNCHANGED issuerHold /\ pc[i] = "ready"
    BY <1>2 DEF Claim, Goto
  <2>2. pc' \in [Issuer -> Running \union {"ready", "refused", "returned", "failed"}]
    BY <2>1 DEF AttemptInv, Running
  <2>3. ~consumed => \A j \in Issuer : Attempted(j)' => j = i
    BY <2>1 DEF AttemptInv, Attempted
  <2>4. consumed => \A j \in Issuer : Attempted(j)' => Attempted(j)
    BY <2>1 DEF AttemptInv, Attempted
  <2>5. issuerHold' => \E j \in Issuer : pc'[j] = "failed"
    BY <2>1 DEF AttemptInv, SingleAttempt
  <2>. QED
    BY <2>1, <2>2, <2>3, <2>4, <2>5 DEF AttemptInv, SingleAttempt
<1>3. ASSUME NEW i \in Issuer, Serve(i) \/ Break(i) PROVE AttemptInv'
  <2>1. CASE VerifyCustody(i) \/ ObserveWriter(i)
    BY <1>1, <2>1 DEF VerifyCustody, ObserveWriter, attempt
  <2>2. CASE Open(i)
    BY <2>2, RunningStep DEF Open, Attempted, Running, attempt
  <2>3. CASE Connect(i)
    BY <2>3, RunningStep DEF Connect, Attempted, Running, attempt
  <2>4. CASE Read(i)
    BY <2>4, RunningStep DEF Read, Attempted, Running, attempt
  <2>5. CASE Reply(i)
    <3>1. /\ pc[i] = "checking" /\ UNCHANGED <<consumed, issuerHold>>
          /\ Goto(i, IF answering[i] = "dag_ack" THEN "leaving" ELSE "reading")
      BY <2>5 DEF Reply, attempt
    <3>. QED
      BY <3>1, RunningStep DEF Attempted, Running
  <2>6. CASE Reject(i)
    <3>1. /\ pc[i] \in {"claimed", "reading", "checking"} /\ UNCHANGED consumed
          /\ Goto(i, "failed")
      BY <2>6 DEF Reject, Fail
    <3>. QED
      BY <3>1, RunningStep DEF Attempted
  <2>7. CASE Timeout(i)
    <3>1. pc[i] \in {"listening", "reading"} /\ UNCHANGED consumed /\ Goto(i, "failed")
      BY <2>7 DEF Timeout, Fail
    <3>. QED
      BY <3>1, RunningStep DEF Attempted
  <2>8. CASE Break(i)
    <3>1. pc[i] \in Running /\ UNCHANGED consumed /\ Goto(i, "failed")
      BY <2>8 DEF Break, Fail
    <3>. QED
      BY <3>1, RunningStep DEF Attempted, Running
  <2>9. CASE Leave(i)
    <3>1. pc[i] = "leaving" /\ UNCHANGED consumed
      BY <2>9 DEF Leave
    <3>2. CASE Goto(i, "returned") /\ UNCHANGED issuerHold
      BY <3>1, <3>2, RunningStep DEF Attempted
    <3>3. CASE Goto(i, "failed")
      BY <3>1, <3>3, RunningStep DEF Attempted
    <3>. QED
      BY <2>9, <3>2, <3>3 DEF Leave
  <2>. QED
    BY <1>3, <2>1, <2>2, <2>3, <2>4, <2>5, <2>6, <2>7, <2>8, <2>9 DEF Serve
<1>4. CASE ClientStep
  BY <1>1, <1>4
     DEF ClientStep, ClientConnect, ClientRefused, Begin, Send, Accept, ClientTimeout,
         ClientClose, StrayThread, attempt, issuing
<1>5. CASE Tick \/ CustodyChanges \/ WriterChanges
  BY <1>1, <1>5 DEF Tick, CustodyChanges, WriterChanges, attempt, issuing
<1>6. CASE UNCHANGED vars
  BY <1>1, <1>6 DEF vars
<1>. QED
  BY <1>2, <1>3, <1>4, <1>5, <1>6 DEF Next

\* One attempt per retained intent, for any number of issuer objects.
THEOREM OneAttempt == Spec => []SingleAttempt
<1>1. AttemptInv => SingleAttempt
  BY DEF AttemptInv
<1>. QED
  BY <1>1, InitAttemptInv, NextAttemptInv, PTL DEF Spec

-----------------------------------------------------------------------------
\* After one late pass the writer is bound and nothing is under way any more.
LateInv ==
    /\ late \in {0, 1}
    /\ bound \in BOOLEAN
    /\ late = 1 => clientHold /\ bound /\ client \in {"idle", "closed"}
    \* A stage is under way only when the writer is bound.
    /\ client \in {"sending", "awaiting"} /\ request \in Stage => bound

\* Steps of the issuer and of the world leave the session and its count alone.
LEMMA OthersStep ==
    ASSUME LateInv, UNCHANGED <<session, late>>
    PROVE  LateInv'
BY DEF LateInv, session

\* Once a hold is latched only a heartbeat begins, and none once bound.
LEMMA BeginStep ==
    ASSUME LateInv, NEW f \in Frame, Begin(f)
    PROVE  LateInv'
<1>1. /\ client = "idle" /\ client' = "sending" /\ request' = f
      /\ UNCHANGED <<bound, clientHold, late>>
      /\ late = 0
      /\ f \in Stage => bound
  BY DEF Begin, LateInv, Stage, CHECKPOINT_ORDER
<1>. QED
  BY <1>1 DEF LateInv

\* A binding or stage accepted under a hold is the first one, and the session is
\* idle or closed after it.
LEMMA AcceptStep == LateInv /\ Accept => LateInv'
<1>. SUFFICES ASSUME LateInv, Accept PROVE LateInv'
  OBVIOUS
<1>1. /\ client = "awaiting" /\ late = 0 /\ UNCHANGED clientHold
      /\ bound' = (bound \/ request = "bind")
      /\ late' = IF clientHold /\ request \in Stage \union {"bind"} THEN late + 1 ELSE late
      /\ request' = IF request = "claim" THEN "ack" ELSE request
  BY DEF Accept, LateInv
<1>2. client' = IF request = "dag_ack" THEN "closed" ELSE IF request = "claim" THEN "sending" ELSE "idle"
  BY DEF Accept, CloseClient
<1>3. late' \in {0, 1} /\ bound' \in BOOLEAN
  BY <1>1 DEF LateInv
<1>4. late' = 1 => clientHold /\ request \in Stage \union {"bind"}
  BY <1>1
<1>5. request \in Stage \union {"bind"} => bound' /\ client' \in {"idle", "closed"}
  BY <1>1, <1>2 DEF LateInv, Stage
<1>6. client' \in {"sending", "awaiting"} => request' = "ack"
  BY <1>1, <1>2
<1>. QED
  BY <1>1, <1>3, <1>4, <1>5, <1>6 DEF LateInv, Stage

LEMMA NextLateInv == LateInv /\ [Next]_vars => LateInv'
<1>. SUFFICES ASSUME LateInv, [Next]_vars PROVE LateInv'
  OBVIOUS
<1>1. CASE \E i \in Issuer : Claim(i) \/ Serve(i) \/ Break(i)
  BY <1>1, OthersStep
     DEF Claim, Serve, Break, Open, Connect, Read, VerifyCustody, ObserveWriter, Reply,
         Reject, Timeout, Leave, Fail, auxiliary
<1>2. CASE ClientConnect \/ ClientRefused \/ Send \/ ClientTimeout \/ ClientClose \/ StrayThread
  BY <1>2 DEF ClientConnect, ClientRefused, Send, ClientTimeout, ClientClose, CloseClient,
              StrayThread, LateInv, Stage, auxiliary
<1>3. CASE \E f \in Frame : Begin(f)
  BY <1>3, BeginStep
<1>4. CASE Accept
  BY <1>4, AcceptStep
<1>5. CASE Tick \/ CustodyChanges \/ WriterChanges \/ UNCHANGED vars
  BY <1>5, OthersStep DEF Tick, CustodyChanges, WriterChanges, vars, session, auxiliary
<1>. QED
  BY <1>1, <1>2, <1>3, <1>4, <1>5 DEF Next, ClientStep

\* Whatever latched the client's deadline, at most the step under way still
\* passes, for any number of issuers and any waits.
THEOREM HoldIsObserved == Spec => []HoldStopsSession
<1>1. Init => LateInv
  <2>. SUFFICES ASSUME Init PROVE LateInv
    OBVIOUS
  <2>1. late = 0 /\ bound = FALSE /\ client = "off"
    BY DEF Init
  <2>2. late \in {0, 1} /\ late # 1 /\ client \notin {"sending", "awaiting"}
    BY <2>1
  <2>3. bound \in BOOLEAN
    BY <2>1
  <2>. QED
    BY <2>2, <2>3 DEF LateInv
<1>2. LateInv => HoldStopsSession
  BY DEF LateInv, HoldStopsSession
<1>. QED
  BY <1>1, <1>2, NextLateInv, PTL DEF Spec

-----------------------------------------------------------------------------
(* The dialogue.  At any moment the session and the claim that serves it   *)
(* are in one of a few shapes, told apart by where the client's frame and, *)
(* before it, the unanswered acknowledgement are.                          *)

Serving == {"listening", "reading", "checking", "leaving"}
Over == {"returned", "failed"}
Alive == {"sending", "awaiting", "idle"}

\* The phase the claim reaches before it reads the client's present frame, or
\* the next one when the client is idle.
Base ==
    IF request = "claim" THEN ClaimPhase
    ELSE IF client = "sending" /\ request = "ack" THEN AckPhase
    ELSE IF bound THEN StagePhase(next + 1) ELSE BindPhase

\* The client on its own: what it may ask for, and where.
SessionInv ==
    /\ client \in Alive \union {"off", "closed"}
    /\ attached <=> client \in Alive
    /\ bound \in BOOLEAN /\ next \in 0 .. 4 /\ (~bound => next = 0)
    /\ bound => request \in Checkpoint \union {"bind"}
    /\ client = "off" => ~bound /\ toIssuer = <<>> /\ toClient = <<>>
    /\ client = "idle" => request # "claim"
    /\ client \in {"sending", "awaiting"} => request \in Expected(Base) /\ Base < EndPhase
    /\ client = "awaiting" => request # "ack"
    /\ evidence \subseteq Evidence

\* Each claim on its own: it reads only what it expects where it is.
ClaimInv ==
    /\ phase \in [Issuer -> Phase]
    /\ answering \in [Issuer -> Frame]
    /\ checked \in [Issuer -> SUBSET Evidence]
    /\ server \in Issuer \union {NoServer}
    /\ \A i \in Issuer :
          /\ pc[i] \in Serving <=> server = i
          /\ pc[i] \notin Serving \union Over => phase[i] = ClaimPhase
          /\ pc[i] = "listening" => phase[i] = ClaimPhase
          /\ pc[i] \in {"reading", "checking"} => phase[i] < EndPhase
          /\ pc[i] = "checking" => answering[i] \in Expected(phase[i])
    /\ client # "off" => \E i \in Issuer : pc[i] \in Serving \union Over

\* Nothing was asked: all was answered, or the acknowledgement is under way.
Resting(i) ==
    /\ client \in {"sending", "idle"} /\ toIssuer = <<>> /\ toClient = <<>>
    /\ pc[i] \in {"listening", "reading"} /\ phase[i] = Base
AckUnread(i) ==
    /\ client \in {"sending", "idle"} /\ toIssuer = <<"ack">> /\ toClient = <<>>
    /\ pc[i] = "reading" /\ phase[i] = AckPhase /\ Base = BindPhase
AckRead(i) ==
    /\ client \in {"sending", "idle"} /\ toIssuer = <<>> /\ toClient = <<>>
    /\ pc[i] = "checking" /\ answering[i] = "ack"
    /\ phase[i] = AckPhase /\ Base = BindPhase

\* The client awaits an answer: its frame is unread, is being checked, or was
\* answered on evidence gathered since it asked.
Asked(i) ==
    /\ client = "awaiting" /\ toIssuer = <<request>> /\ toClient = <<>>
    /\ pc[i] \in {"listening", "reading"} /\ phase[i] = Base
AskedBeforeAckRead(i) ==
    /\ client = "awaiting" /\ toIssuer = Append(<<"ack">>, request) /\ toClient = <<>>
    /\ pc[i] = "reading" /\ phase[i] = AckPhase /\ Base = BindPhase
AskedDuringAck(i) ==
    /\ client = "awaiting" /\ toIssuer = <<request>> /\ toClient = <<>>
    /\ pc[i] = "checking" /\ answering[i] = "ack"
    /\ phase[i] = AckPhase /\ Base = BindPhase
UnderCheck(i) ==
    /\ client = "awaiting" /\ toIssuer = <<>> /\ toClient = <<>>
    /\ pc[i] = "checking" /\ answering[i] = request /\ phase[i] = Base
    /\ checked[i] \subseteq evidence
Answered(i) ==
    /\ client = "awaiting" /\ toIssuer = <<>> /\ toClient = <<request>>
    /\ pc[i] = IF request = "dag_ack" THEN "leaving" ELSE "reading"
    /\ phase[i] = PhaseAfter(Base, request)
    /\ Needed(request) \subseteq evidence

OpenShape(i) ==
    \/ Resting(i) \/ AckUnread(i) \/ AckRead(i)
    \/ Asked(i) \/ AskedBeforeAckRead(i) \/ AskedDuringAck(i)
    \/ UnderCheck(i) \/ Answered(i)

\* The claim is over and the client does not know it yet.
Near(i) ==
    \/ phase[i] = Base
    \/ phase[i] = AckPhase /\ Base = BindPhase
    \/ client = "awaiting" /\ phase[i] = PhaseAfter(Base, request)
OverShape(i) ==
    /\ toIssuer = <<>>
    /\ \/ toClient = <<>> /\ Near(i)
       \/ /\ client = "awaiting" /\ toClient = <<request>>
          /\ phase[i] = PhaseAfter(Base, request) /\ Needed(request) \subseteq evidence

\* The client is gone: how far the claim had come with it.
Fits(i) ==
    /\ ~bound => phase[i] <= StagePhase(1)
    /\ bound => phase[i] \in {StagePhase(next + 1), StagePhase(next + 2)}

Dialogue(i) ==
    /\ client = "off" => phase[i] = ClaimPhase /\ pc[i] \in {"listening"} \union Over
    /\ client \in Alive => IF server = i THEN OpenShape(i) ELSE OverShape(i)
    /\ client = "closed" => Fits(i)
DialogueInv == \A i \in Issuer : pc[i] \in Serving \union Over => Dialogue(i)

HandoffInv == AttemptInv /\ SessionInv /\ ClaimInv /\ DialogueInv

USE DEF StagePhase, ClaimPhase, AckPhase, BindPhase, EndPhase, Phase

\* What claim_once accepts where.
LEMMA ExpectedFacts ==
    /\ Expected(0) = {"claim"} /\ Expected(1) = {"ack"} /\ Expected(2) = {"heartbeat", "bind"}
    /\ \A p \in 3 .. 6 : \E k \in 1 .. 4 :
          /\ p = k + 2 /\ Expected(p) = {"watchdog", CHECKPOINT_ORDER[k]}
          /\ CHECKPOINT_ORDER[k] \in Stage
          /\ CHECKPOINT_ORDER[k] = "dag_ack" <=> k = 4
<1>1. Expected(0) = {"claim"} /\ Expected(1) = {"ack"} /\ Expected(2) = {"heartbeat", "bind"}
  BY DEF Expected
<1>2. ASSUME NEW k \in 1 .. 4
      PROVE  /\ CHECKPOINT_ORDER[k] \in Stage
             /\ CHECKPOINT_ORDER[k] = "dag_ack" <=> k = 4
  <2>1. k = 1 \/ k = 2 \/ k = 3 \/ k = 4
    OBVIOUS
  <2>. QED
    BY <2>1 DEF CHECKPOINT_ORDER, Stage
<1>3. ASSUME NEW p \in 3 .. 6
      PROVE  \E k \in 1 .. 4 : p = k + 2 /\ Expected(p) = {"watchdog", CHECKPOINT_ORDER[k]}
  <2>1. p - 2 \in 1 .. 4 /\ p = (p - 2) + 2 /\ p \notin {0, 1, 2}
    OBVIOUS
  <2>2. Expected(p) = {"watchdog", CHECKPOINT_ORDER[p - 2]}
    BY <2>1 DEF Expected
  <2>. QED
    BY <2>1, <2>2
<1>. QED
  BY <1>1, <1>2, <1>3

\* Where the client stands.
LEMMA BaseFacts ==
    ASSUME SessionInv
    PROVE  /\ Base \in Phase
           /\ bound => Base = next + 3
           /\ ~bound => Base = IF request = "claim" THEN 0
                               ELSE IF client = "sending" /\ request = "ack" THEN 1 ELSE 2
<1>1. next \in 0 .. 4 /\ bound \in BOOLEAN
  BY DEF SessionInv
<1>2. bound => request \notin {"claim", "ack"}
  BY DEF SessionInv, Checkpoint, Stage
<1>. QED
  BY <1>1, <1>2 DEF Base

\* What the client may ask for, or await the answer to.
LEMMA RequestFacts ==
    ASSUME SessionInv, client \in {"sending", "awaiting"}
    PROVE  \/ request = "claim" /\ ~bound /\ Base = 0
           \/ request = "ack" /\ ~bound /\ Base = 1 /\ client = "sending"
           \/ request \in {"heartbeat", "bind"} /\ ~bound /\ Base = 2
           \/ /\ bound /\ next \in 0 .. 3 /\ Base = next + 3
              /\ \/ request = "watchdog"
                 \/ /\ request = CHECKPOINT_ORDER[next + 1] /\ request \in Stage
                    /\ request = "dag_ack" <=> next = 3
<1>1. request \in Expected(Base) /\ Base < 7 /\ next \in 0 .. 4
  BY DEF SessionInv
<1>2. CASE bound
  <2>1. Base = next + 3 /\ next \in 0 .. 3
    BY <1>1, <1>2, BaseFacts
  <2>2. PICK k \in 1 .. 4 : /\ Base = k + 2 /\ Expected(Base) = {"watchdog", CHECKPOINT_ORDER[k]}
                            /\ CHECKPOINT_ORDER[k] \in Stage
                            /\ CHECKPOINT_ORDER[k] = "dag_ack" <=> k = 4
    <3>1. Base \in 3 .. 6
      BY <2>1
    <3>. QED
      BY <3>1, ExpectedFacts
  <2>3. k = next + 1
    BY <2>1, <2>2
  <2>. QED
    BY <1>1, <1>2, <2>1, <2>2, <2>3
<1>3. CASE ~bound
  <2>1. Base = IF request = "claim" THEN 0
               ELSE IF client = "sending" /\ request = "ack" THEN 1 ELSE 2
    BY <1>3, BaseFacts
  <2>2. Base = 2 => request \in {"heartbeat", "bind"}
    BY <1>1, ExpectedFacts
  <2>. QED
    BY <1>3, <2>1, <2>2
<1>. QED
  BY <1>2, <1>3

\* What the answer to the awaited frame means.
LEMMA AnswerFacts ==
    ASSUME SessionInv, client = "awaiting"
    PROVE  /\ request = "claim" => ~bound /\ Base = 0 /\ PhaseAfter(Base, request) = 1
           /\ request = "heartbeat" => ~bound /\ Base = 2 /\ PhaseAfter(Base, request) = 2
           /\ request = "bind" => ~bound /\ Base = 2 /\ PhaseAfter(Base, request) = 3
           /\ request = "watchdog" =>
                 bound /\ next \in 0 .. 3 /\ Base = next + 3 /\ PhaseAfter(Base, request) = next + 3
           /\ request \in Stage =>
                 /\ bound /\ next \in 0 .. 3 /\ Base = next + 3
                 /\ request = CHECKPOINT_ORDER[next + 1] /\ PhaseAfter(Base, request) = next + 4
                 /\ request = "dag_ack" <=> next = 3
           /\ request \in {"claim", "heartbeat", "bind", "watchdog"} \union Stage
<1>1. request # "ack"
  BY DEF SessionInv
<1>. QED
  BY <1>1, RequestFacts DEF PhaseAfter, Stage

\* Two frames on the way: the acknowledgement is read first.
LEMMA FirstOfTwo ==
    ASSUME NEW S, NEW e \in S, NEW f \in S
    PROVE  /\ Append(<<e>>, f) # <<>>
           /\ Head(Append(<<e>>, f)) = e
           /\ Tail(Append(<<e>>, f)) = <<f>>
<1>1. /\ <<e>> \in Seq(S) /\ <<e>> # <<>> /\ Head(<<e>>) = e /\ Tail(<<e>>) = <<>>
      /\ Append(<<>>, f) = <<f>>
  OBVIOUS
<1>2. Append(<<e>>, f) # <<>>
  BY <1>1, AppendProperties
<1>3. /\ Head(Append(<<e>>, f)) = IF <<e>> = <<>> THEN f ELSE Head(<<e>>)
      /\ Tail(Append(<<e>>, f)) = IF <<e>> = <<>> THEN <<>> ELSE Append(Tail(<<e>>), f)
  BY <1>1, HeadTailAppend
<1>. QED
  BY <1>1, <1>2, <1>3

\* While the client is there, the claim is where the client is, one unread
\* acknowledgement behind, or one answer ahead.
LEMMA ShapesNear ==
    ASSUME NEW i \in Issuer, client \in Alive,
           IF server = i THEN OpenShape(i) ELSE OverShape(i)
    PROVE  Near(i)
BY DEF OpenShape, OverShape, Near, Resting, AckUnread, AckRead, Asked, AskedBeforeAckRead,
   AskedDuringAck, UnderCheck, Answered

LEMMA NearFits ==
    ASSUME SessionInv, NEW i \in Issuer, Near(i)
    PROVE  /\ Fits(i)
           /\ bound /\ phase[i] = next + 4 =>
                 client = "awaiting" /\ request = CHECKPOINT_ORDER[next + 1]
<1>0. next \in 0 .. 4
  BY DEF SessionInv
<1>1. CASE phase[i] = Base
  BY <1>0, <1>1, BaseFacts DEF Fits
<1>2. CASE phase[i] = 1 /\ Base = 2
  BY <1>0, <1>2, BaseFacts DEF Fits
<1>3. CASE client = "awaiting" /\ phase[i] = PhaseAfter(Base, request)
  BY <1>0, <1>3, AnswerFacts DEF Fits
<1>. QED
  BY <1>1, <1>2, <1>3 DEF Near

-----------------------------------------------------------------------------
(* The client's steps.                                                     *)

\* The owner asks for the next thing; what was checked before no longer counts.
LEMMA BeginKeeps ==
    ASSUME HandoffInv, NEW f \in Frame, Begin(f)
    PROVE  SessionInv' /\ ClaimInv' /\ DialogueInv'
<1>1. /\ client = "idle" /\ client' = "sending" /\ request' = f /\ evidence' = {}
      /\ UNCHANGED <<pc, phase, answering, checked, server, attached, toIssuer, toClient,
                     bound, next>>
      /\ \/ f = "heartbeat" /\ ~bound
         \/ f = "bind" /\ ~bound
         \/ bound /\ next < 4 /\ f \in {"watchdog", CHECKPOINT_ORDER[next + 1]}
  BY DEF Begin, issuing, pipe
<1>2. SessionInv /\ ClaimInv /\ DialogueInv /\ next \in 0 .. 4
  BY DEF HandoffInv, SessionInv
<1>3. request # "claim" /\ attached
  BY <1>1, <1>2 DEF SessionInv, Alive
<1>4. /\ Base = IF bound THEN next + 3 ELSE 2
      /\ f \in Expected(Base) /\ Base < 7
      /\ f \notin {"claim", "ack"}
      /\ bound => f \in Checkpoint
  <2>1. Base = IF bound THEN next + 3 ELSE 2
    BY <1>1, <1>2, <1>3, BaseFacts DEF SessionInv
  <2>2. CASE ~bound
    BY <1>1, <2>1, <2>2, ExpectedFacts
  <2>3. CASE bound
    <3>1. next < 4 /\ Base \in 3 .. 6
      BY <1>1, <1>2, <2>1, <2>3
    <3>2. PICK k \in 1 .. 4 : /\ Base = k + 2 /\ Expected(Base) = {"watchdog", CHECKPOINT_ORDER[k]}
                              /\ CHECKPOINT_ORDER[k] \in Stage
      BY <3>1, ExpectedFacts
    <3>3. k = next + 1
      BY <1>2, <2>1, <2>3, <3>2
    <3>4. f = "watchdog" \/ f = CHECKPOINT_ORDER[k]
      BY <1>1, <2>3, <3>3
    <3>5. f \in Expected(Base) /\ f \in Checkpoint
      BY <3>2, <3>4 DEF Checkpoint
    <3>6. f \notin {"claim", "ack"}
      BY <3>5 DEF Checkpoint, Stage
    <3>. QED
      BY <2>1, <3>1, <3>5, <3>6
  <2>. QED
    BY <2>2, <2>3, <2>1
<1>5. Base' = Base
  BY <1>1, <1>2, <1>3, <1>4 DEF Base
<1>6. SessionInv'
  BY <1>1, <1>2, <1>3, <1>4, <1>5 DEF SessionInv, Alive
<1>7. ClaimInv'
  BY <1>1, <1>2 DEF ClaimInv
<1>8. ASSUME NEW i \in Issuer, pc[i] \in Serving \union Over PROVE Dialogue(i)'
  <2>1. IF server = i THEN OpenShape(i) ELSE OverShape(i)
    BY <1>1, <1>2, <1>8 DEF DialogueInv, Dialogue, Alive
  <2>2. CASE server = i
    <3>1. Resting(i) \/ AckUnread(i) \/ AckRead(i)
      BY <1>1, <2>1, <2>2 DEF OpenShape, Asked, AskedBeforeAckRead, AskedDuringAck, UnderCheck,
         Answered
    <3>2. OpenShape(i)'
      BY <1>1, <1>5, <3>1 DEF OpenShape, Resting, AckUnread, AckRead
    <3>. QED
      BY <1>1, <2>2, <3>2 DEF Dialogue
  <2>3. CASE server # i
    <3>1. toIssuer = <<>> /\ toClient = <<>> /\ Near(i)
      BY <1>1, <2>1, <2>3 DEF OverShape
    <3>2. OverShape(i)'
      BY <1>1, <1>5, <3>1 DEF OverShape, Near
    <3>. QED
      BY <1>1, <2>3, <3>2 DEF Dialogue
  <2>. QED
    BY <2>2, <2>3
<1>. QED
  BY <1>1, <1>6, <1>7, <1>8 DEF DialogueInv

\* The frame goes out; an acknowledgement is not waited for.
LEMMA SendKeeps ==
    ASSUME HandoffInv, Send
    PROVE  SessionInv' /\ ClaimInv' /\ DialogueInv'
<1>1. /\ client = "sending" /\ server # NoServer
      /\ toIssuer' = Append(toIssuer, request)
      /\ client' = IF request = "ack" THEN "idle" ELSE "awaiting"
      /\ UNCHANGED <<pc, phase, answering, checked, server, attached, toClient, request,
                     bound, next, evidence>>
  BY DEF Send, issuing, auxiliary
<1>2. AttemptInv /\ SessionInv /\ ClaimInv /\ DialogueInv /\ attached
  BY <1>1 DEF HandoffInv, SessionInv, Alive
<1>3. /\ request # "ack" => Base' = Base
      /\ request = "ack" => ~bound /\ Base = 1 /\ Base' = 2
  BY <1>1, <1>2, RequestFacts DEF Base
<1>4. SessionInv'
  <2>1. CASE request = "ack"
    BY <1>1, <1>2, <1>3, <2>1 DEF SessionInv, Alive
  <2>2. CASE request # "ack"
    BY <1>1, <1>2, <1>3, <2>2 DEF SessionInv, Alive
  <2>. QED
    BY <2>1, <2>2
<1>5. ClaimInv'
  BY <1>1, <1>2 DEF ClaimInv
<1>6. ASSUME NEW i \in Issuer, pc[i] \in Serving \union Over PROVE Dialogue(i)'
  <2>1. server = i
    <3>1. server \in Issuer /\ pc[server] \in Serving
      BY <1>1, <1>2 DEF ClaimInv
    <3>. QED
      BY <1>2, <1>6, <3>1 DEF AttemptInv, SingleAttempt, Attempted, Serving, Over
  <2>2. Resting(i) \/ AckUnread(i) \/ AckRead(i)
    BY <1>1, <1>2, <1>6, <2>1 DEF DialogueInv, Dialogue, Alive, OpenShape, Asked,
       AskedBeforeAckRead, AskedDuringAck, UnderCheck, Answered
  <2>3. CASE request = "ack"
    <3>1. Resting(i) /\ phase[i] = 1
      BY <1>3, <2>2, <2>3 DEF AckUnread, AckRead, Resting
    <3>2. pc[i] = "reading"
      BY <1>2, <3>1 DEF Resting, ClaimInv
    <3>3. toIssuer' = <<"ack">> /\ toClient = <<>>
      BY <1>1, <2>3, <3>1 DEF Resting
    <3>4. AckUnread(i)'
      BY <1>1, <1>3, <2>3, <3>1, <3>2, <3>3 DEF AckUnread
    <3>. QED
      BY <1>1, <2>1, <2>3, <3>4 DEF Dialogue, OpenShape
  <2>4. CASE request # "ack"
    <3>1. CASE Resting(i)
      <4>1. toIssuer' = <<request>>
        BY <1>1, <3>1 DEF Resting
      <4>2. Asked(i)'
        BY <1>1, <1>3, <2>4, <3>1, <4>1 DEF Resting, Asked
      <4>. QED
        BY <1>1, <2>1, <2>4, <4>2 DEF Dialogue, OpenShape
    <3>2. CASE AckUnread(i)
      <4>1. toIssuer' = Append(<<"ack">>, request)
        BY <1>1, <3>2 DEF AckUnread
      <4>2. AskedBeforeAckRead(i)'
        BY <1>1, <1>3, <2>4, <3>2, <4>1 DEF AckUnread, AskedBeforeAckRead
      <4>. QED
        BY <1>1, <2>1, <2>4, <4>2 DEF Dialogue, OpenShape
    <3>3. CASE AckRead(i)
      <4>1. toIssuer' = <<request>>
        BY <1>1, <3>3 DEF AckRead
      <4>2. AskedDuringAck(i)'
        BY <1>1, <1>3, <2>4, <3>3, <4>1 DEF AckRead, AskedDuringAck
      <4>. QED
        BY <1>1, <2>1, <2>4, <4>2 DEF Dialogue, OpenShape
    <3>. QED
      BY <2>2, <3>1, <3>2, <3>3
  <2>. QED
    BY <2>3, <2>4
<1>. QED
  BY <1>1, <1>4, <1>5, <1>6 DEF DialogueInv

\* The client end closes: how far the claim had come fits what was passed.
LEMMA CloseKeeps ==
    ASSUME HandoffInv, client \in Alive, CloseClient, UNCHANGED <<issuing, request, bound, next, evidence>>
    PROVE  SessionInv' /\ ClaimInv' /\ DialogueInv'
<1>1. /\ client' = "closed" /\ ~attached'
      /\ UNCHANGED <<pc, phase, answering, checked, server, request, bound, next, evidence>>
  BY DEF CloseClient, issuing
<1>2. SessionInv /\ ClaimInv /\ DialogueInv
  BY DEF HandoffInv
<1>3. SessionInv'
  BY <1>1, <1>2 DEF SessionInv, Alive
<1>4. ClaimInv'
  BY <1>1, <1>2 DEF ClaimInv, Alive
<1>5. ASSUME NEW i \in Issuer, pc[i] \in Serving \union Over PROVE Dialogue(i)'
  <2>1. Fits(i)
    BY <1>2, <1>5, ShapesNear, NearFits DEF DialogueInv, Dialogue
  <2>2. Fits(i)'
    BY <1>1, <2>1 DEF Fits
  <2>. QED
    BY <1>1, <2>2 DEF Dialogue, Alive
<1>. QED
  BY <1>1, <1>3, <1>4, <1>5 DEF DialogueInv

\* A client finds the pipe open: nothing has been said yet.
LEMMA ConnectKeeps ==
    ASSUME HandoffInv, ClientConnect
    PROVE  SessionInv' /\ ClaimInv' /\ DialogueInv'
<1>1. /\ client = "off" /\ server # NoServer /\ attached'
      /\ client' = "sending" /\ request' = "claim"
      /\ UNCHANGED <<pc, phase, answering, checked, server, toIssuer, toClient, bound, next,
                     evidence>>
  BY DEF ClientConnect, issuing, auxiliary
<1>2. AttemptInv /\ SessionInv /\ ClaimInv /\ DialogueInv
  BY DEF HandoffInv
<1>3. Base' = 0
  BY <1>1 DEF Base
<1>4. SessionInv'
  BY <1>1, <1>2, <1>3, ExpectedFacts DEF SessionInv, Alive
<1>5. server \in Issuer /\ pc[server] \in Serving
  BY <1>1, <1>2 DEF ClaimInv
<1>6. ClaimInv'
  BY <1>1, <1>2, <1>5 DEF ClaimInv
<1>7. ASSUME NEW i \in Issuer, pc[i] \in Serving \union Over PROVE Dialogue(i)'
  <2>1. server = i
    BY <1>2, <1>5, <1>7 DEF AttemptInv, SingleAttempt, Attempted, Serving, Over
  <2>2. pc[i] = "listening" /\ phase[i] = 0
    BY <1>1, <1>2, <1>5, <1>7, <2>1 DEF DialogueInv, Dialogue, Serving, Over
  <2>3. Resting(i)'
    BY <1>1, <1>2, <1>3, <2>2 DEF Resting, SessionInv
  <2>. QED
    BY <1>1, <2>1, <2>3 DEF Dialogue, OpenShape
<1>. QED
  BY <1>1, <1>4, <1>6, <1>7 DEF DialogueInv

\* The answer is taken: the client moves to where the claim already is.
LEMMA AcceptKeeps ==
    ASSUME HandoffInv, Accept
    PROVE  SessionInv' /\ ClaimInv' /\ DialogueInv'
<1>1. /\ client = "awaiting" /\ toClient # <<>> /\ Head(toClient) = request
      /\ bound' = (bound \/ request = "bind")
      /\ next' = IF request \in Stage THEN next + 1 ELSE next
      /\ request' = IF request = "claim" THEN "ack" ELSE request
      /\ UNCHANGED <<pc, phase, answering, checked, server, evidence>>
  BY DEF Accept, issuing, CloseClient
<1>2. /\ request # "dag_ack" =>
            /\ toClient' = Tail(toClient)
            /\ client' = IF request = "claim" THEN "sending" ELSE "idle"
            /\ UNCHANGED <<attached, toIssuer>>
      /\ request = "dag_ack" => client' = "closed" /\ ~attached'
  BY DEF Accept, CloseClient
<1>3. /\ SessionInv /\ ClaimInv /\ DialogueInv /\ attached
      /\ next \in 0 .. 4 /\ bound \in BOOLEAN /\ (~bound => next = 0)
  BY <1>1 DEF HandoffInv, SessionInv, Alive
<1>4. request \in Stage =>
          /\ bound /\ next \in 0 .. 3 /\ PhaseAfter(Base, request) = next + 4
          /\ request = "dag_ack" <=> next = 3
  <2>1. SessionInv /\ client = "awaiting"
    BY <1>1, <1>3
  <2>. QED
    BY <2>1, AnswerFacts
<1>5. bound => bound'
  BY <1>1, <1>3
<1>6. /\ next' \in 0 .. 4 /\ bound' \in BOOLEAN /\ (~bound' => next' = 0)
      /\ bound' => request' \in Checkpoint \union {"bind"}
  BY <1>1, <1>3, AnswerFacts DEF SessionInv, Checkpoint, Stage
<1>7. request # "dag_ack" => Base' = PhaseAfter(Base, request) /\ Base' < 7
  <2>1. CASE request = "claim"
    <3>1. Base' = 1
      BY <1>1, <1>2, <2>1 DEF Base
    <3>. QED
      BY <1>1, <1>3, <2>1, <3>1, AnswerFacts
  <2>2. CASE request \in {"heartbeat", "bind", "watchdog"}
    <3>1. Base' = IF bound' THEN next + 3 ELSE 2
      BY <1>1, <1>2, <2>2 DEF Base, Stage
    <3>2. request = "heartbeat" => ~bound'
      BY <1>1, <1>3, AnswerFacts
    <3>3. request = "bind" => bound' /\ next = 0
      BY <1>1, <1>3, AnswerFacts
    <3>4. request = "watchdog" => bound'
      BY <1>1, <1>3, AnswerFacts
    <3>. QED
      BY <1>1, <1>3, <2>2, <3>1, <3>2, <3>3, <3>4, AnswerFacts
  <2>3. CASE request \in Stage /\ request # "dag_ack"
    <3>1. bound /\ next \in 0 .. 2 /\ PhaseAfter(Base, request) = next + 4
      BY <1>4, <2>3
    <3>2. next' = next + 1 /\ bound'
      BY <1>1, <1>5, <2>3, <3>1
    <3>3. Base' = next' + 3
      BY <1>1, <1>2, <2>3, <3>1, <3>2 DEF Base, Stage
    <3>. QED
      BY <3>1, <3>2, <3>3
  <2>. QED
    BY <1>1, <1>3, <2>1, <2>2, <2>3, AnswerFacts
<1>8. SessionInv'
  <2>1. CASE request = "claim"
    <3>1. Base' = 1
      BY <1>1, <1>2, <2>1 DEF Base
    <3>. QED
      BY <1>1, <1>2, <1>3, <1>6, <2>1, <3>1, ExpectedFacts DEF SessionInv, Alive
  <2>2. CASE request # "claim" /\ request # "dag_ack"
    BY <1>1, <1>2, <1>3, <1>6, <2>2 DEF SessionInv, Alive
  <2>3. CASE request = "dag_ack"
    BY <1>1, <1>2, <1>3, <1>6, <2>3 DEF SessionInv, Alive
  <2>. QED
    BY <2>1, <2>2, <2>3
<1>9. ClaimInv'
  <2>1. client # "off" /\ client' # "off"
    BY <1>1, <1>2
  <2>. QED
    BY <1>1, <1>3, <2>1 DEF ClaimInv
<1>10. ASSUME NEW i \in Issuer, pc[i] \in Serving \union Over PROVE Dialogue(i)'
  <2>1. IF server = i THEN OpenShape(i) ELSE OverShape(i)
    BY <1>1, <1>3, <1>10 DEF DialogueInv, Dialogue, Alive
  <2>2. /\ toIssuer = <<>> /\ toClient = <<request>> /\ phase[i] = PhaseAfter(Base, request)
        /\ server = i => pc[i] = IF request = "dag_ack" THEN "leaving" ELSE "reading"
    BY <1>1, <2>1 DEF OpenShape, OverShape, Resting, AckUnread, AckRead, Asked,
       AskedBeforeAckRead, AskedDuringAck, UnderCheck, Answered
  <2>3. CASE request = "dag_ack"
    <3>0. request \in Stage
      BY <2>3 DEF Stage
    <3>1. next = 3 /\ bound /\ phase[i] = next + 4
      BY <1>4, <2>2, <2>3, <3>0
    <3>2. bound'
      BY <1>5, <3>1
    <3>3. next' = 4 /\ phase'[i] = 7
      BY <1>1, <3>0, <3>1
    <3>4. Fits(i)'
      BY <3>2, <3>3 DEF Fits
    <3>. QED
      BY <1>2, <2>3, <3>4 DEF Dialogue, Alive
  <2>4. CASE request # "dag_ack"
    <3>1. toIssuer' = <<>> /\ toClient' = <<>> /\ phase'[i] = Base'
      BY <1>1, <1>2, <1>7, <2>2, <2>4
    <3>2. client' \in {"sending", "idle"}
      BY <1>2, <2>4
    <3>3. server = i => Resting(i)'
      BY <1>1, <2>2, <2>4, <3>1, <3>2 DEF Resting
    <3>4. OverShape(i)'
      BY <3>1 DEF OverShape, Near
    <3>. QED
      BY <1>1, <3>2, <3>3, <3>4 DEF Dialogue, OpenShape
  <2>. QED
    BY <2>3, <2>4
<1>. QED
  BY <1>1, <1>8, <1>9, <1>10 DEF DialogueInv

-----------------------------------------------------------------------------
(* The claim's steps.                                                      *)

\* Only one claim ever serves: the pipe is its own or nobody's.
LEMMA SoleClaim ==
    ASSUME HandoffInv, NEW i \in Issuer, Attempted(i)
    PROVE  /\ \A j \in Issuer : j # i => pc[j] \notin Serving \union Over
           /\ server \in {i, NoServer}
           /\ client # "off" => pc[i] \in Serving \union Over
<1>1. AttemptInv /\ ClaimInv
  BY DEF HandoffInv
<1>2. ASSUME NEW j \in Issuer, j # i PROVE pc[j] \notin Serving \union Over
  <2>1. ~Attempted(j)
    BY <1>1, <1>2 DEF AttemptInv, SingleAttempt
  <2>. QED
    BY <2>1 DEF Attempted, Serving, Over
<1>. QED
  BY <1>1, <1>2 DEF ClaimInv

\* A step of the claim that leaves the client as it is, and fits it.
LEMMA IssuerMoves ==
    ASSUME HandoffInv, NEW i \in Issuer, Attempted(i),
           NEW label \in Serving \union Over, Goto(i, label),
           UNCHANGED <<client, attached, request, bound, next>>,
           phase' \in [Issuer -> Phase], answering' \in [Issuer -> Frame],
           checked' \in [Issuer -> SUBSET Evidence],
           \A j \in Issuer : j # i => phase'[j] = phase[j],
           server' = IF label \in Serving THEN i ELSE NoServer,
           label = "listening" => phase'[i] = ClaimPhase,
           label \in {"reading", "checking"} => phase'[i] < EndPhase,
           label = "checking" => answering'[i] \in Expected(phase'[i]),
           evidence' \subseteq Evidence,
           client = "off" => toIssuer' = <<>> /\ toClient' = <<>>,
           Dialogue(i)'
    PROVE  SessionInv' /\ ClaimInv' /\ DialogueInv'
<1>1. AttemptInv /\ SessionInv /\ ClaimInv /\ DialogueInv
  BY DEF HandoffInv
<1>2. \A j \in Issuer : j # i => pc[j] \notin Serving \union Over
  BY SoleClaim
<1>3. pc'[i] = label /\ \A j \in Issuer : j # i => pc'[j] = pc[j]
  BY <1>1 DEF AttemptInv, Goto
<1>4. SessionInv'
  <2>1. Base' = Base
    BY DEF Base
  <2>. QED
    BY <1>1, <2>1 DEF SessionInv
<1>5. ClaimInv'
  <2>1. server' \in {i, NoServer} /\ (label \in Serving <=> server' = i)
    BY ServerAssumption
  <2>2. ASSUME NEW j \in Issuer
        PROVE  /\ pc'[j] \in Serving <=> server' = j
               /\ pc'[j] \notin Serving \union Over => phase'[j] = ClaimPhase
               /\ pc'[j] = "listening" => phase'[j] = ClaimPhase
               /\ pc'[j] \in {"reading", "checking"} => phase'[j] < EndPhase
               /\ pc'[j] = "checking" => answering'[j] \in Expected(phase'[j])
    <3>1. CASE j = i
      BY <1>3, <2>1, <3>1
    <3>2. CASE j # i
      <4>1. pc'[j] = pc[j] /\ pc[j] \notin Serving \union Over /\ phase'[j] = phase[j]
        BY <1>2, <1>3, <3>2
      <4>2. phase[j] = ClaimPhase /\ server' # j
        BY <1>1, <2>1, <3>2, <4>1, ServerAssumption DEF ClaimInv
      <4>. QED
        BY <4>1, <4>2 DEF Serving
    <3>. QED
      BY <3>1, <3>2
  <2>3. \E j \in Issuer : pc'[j] \in Serving \union Over
    BY <1>3
  <2>4. server' \in Issuer \union {NoServer}
    BY <2>1
  <2>. QED
    BY <2>2, <2>3, <2>4 DEF ClaimInv
<1>6. ASSUME NEW j \in Issuer, pc'[j] \in Serving \union Over PROVE Dialogue(j)'
  <2>1. j = i
    BY <1>2, <1>3, <1>6
  <2>. QED
    BY <2>1
<1>. QED
  BY <1>4, <1>5, <1>6 DEF DialogueInv

\* The claim ends: what it had said fits what the client knows.
LEMMA EndKeeps ==
    ASSUME HandoffInv, NEW i \in Issuer, pc[i] \in Running, CloseServer(i),
           NEW label \in Over, Goto(i, label),
           UNCHANGED <<phase, answering, checked, client, request, bound, next, evidence>>
    PROVE  SessionInv' /\ ClaimInv' /\ DialogueInv'
<1>1. AttemptInv /\ SessionInv /\ ClaimInv /\ DialogueInv /\ Attempted(i)
  BY DEF HandoffInv, Attempted, Running
<1>2. server \in {i, NoServer} /\ (client # "off" => pc[i] \in Serving \union Over)
  BY <1>1, SoleClaim
<1>3. UNCHANGED attached /\ server' = NoServer
  BY <1>2 DEF CloseServer, pipe
<1>4. client = "off" => toIssuer' = <<>> /\ toClient' = <<>>
  BY <1>1 DEF SessionInv, CloseServer, pipe
<1>5. pc'[i] = label
  BY <1>1 DEF AttemptInv, Goto
<1>6. pc[i] \notin Over
  BY DEF Running, Over
<1>7. Dialogue(i)'
  <2>1. CASE client = "off"
    <3>1. phase[i] = 0
      BY <1>1, <2>1 DEF ClaimInv, DialogueInv, Dialogue
    <3>. QED
      BY <1>5, <2>1, <3>1 DEF Dialogue, Alive
  <2>2. CASE client \in Alive
    <3>1. pc[i] \in Serving /\ server = i
      BY <1>1, <1>2, <1>6, <2>2 DEF Alive, ClaimInv
    <3>2. OpenShape(i)
      BY <1>1, <2>2, <3>1 DEF DialogueInv, Dialogue, Alive
    <3>3. Near(i)
      BY <2>2, <3>1, <3>2, ShapesNear
    <3>4. toIssuer' = <<>> /\ toClient' \in {toClient, <<>>}
      BY <3>1 DEF CloseServer
    <3>5. toClient = <<>> \/ Answered(i)
      BY <3>2 DEF OpenShape, Resting, AckUnread, AckRead, Asked, AskedBeforeAckRead,
         AskedDuringAck, UnderCheck
    <3>6. Base' = Base
      BY DEF Base
    <3>7. OverShape(i)'
      <4>1. CASE toClient' = <<>>
        BY <3>3, <3>4, <3>6, <4>1 DEF OverShape, Near
      <4>2. CASE toClient' = toClient /\ Answered(i)
        BY <3>4, <3>6, <4>2 DEF OverShape, Answered
      <4>. QED
        BY <3>4, <3>5, <4>1, <4>2
    <3>8. server' # i
      BY <1>3, ServerAssumption
    <3>. QED
      BY <2>2, <3>7, <3>8 DEF Dialogue, Alive
  <2>3. CASE client = "closed"
    <3>1. Fits(i)
      BY <1>1, <1>2, <2>3 DEF DialogueInv, Dialogue
    <3>2. Fits(i)'
      BY <3>1 DEF Fits
    <3>. QED
      BY <2>3, <3>2 DEF Dialogue, Alive
  <2>. QED
    BY <1>1, <2>1, <2>2, <2>3 DEF SessionInv
<1>8. /\ phase' \in [Issuer -> Phase] /\ answering' \in [Issuer -> Frame]
      /\ checked' \in [Issuer -> SUBSET Evidence] /\ evidence' \subseteq Evidence
      /\ \A j \in Issuer : j # i => phase'[j] = phase[j]
  BY <1>1 DEF ClaimInv, SessionInv
<1>9. label \in Serving \union Over /\ label \notin Serving
  BY DEF Serving, Over
<1>10. label \notin {"listening", "reading", "checking"}
  BY DEF Over
<1>. QED
  BY <1>1, <1>3, <1>4, <1>7, <1>8, <1>9, <1>10, IssuerMoves

\* The pipe opens only before any client: nothing has been said.
LEMMA OpenKeeps ==
    ASSUME HandoffInv, NEW i \in Issuer, Open(i)
    PROVE  SessionInv' /\ ClaimInv' /\ DialogueInv'
<1>1. /\ pc[i] = "claimed" /\ server' = i /\ Goto(i, "listening")
      /\ UNCHANGED <<phase, answering, checked, attached, toIssuer, toClient, client,
                     request, bound, next, evidence>>
  BY DEF Open, session, auxiliary
<1>2. AttemptInv /\ SessionInv /\ ClaimInv /\ Attempted(i)
  BY <1>1 DEF HandoffInv, Attempted
<1>3. client = "off" /\ phase[i] = 0 /\ pc'[i] = "listening"
  BY <1>1, <1>2, SoleClaim DEF Serving, Over, ClaimInv, AttemptInv, Goto
<1>4. Dialogue(i)'
  BY <1>1, <1>3 DEF Dialogue, Alive
<1>5. /\ phase' \in [Issuer -> Phase] /\ answering' \in [Issuer -> Frame]
      /\ checked' \in [Issuer -> SUBSET Evidence] /\ evidence' \subseteq Evidence
      /\ toIssuer' = <<>> /\ toClient' = <<>>
  BY <1>1, <1>2, <1>3 DEF ClaimInv, SessionInv
<1>6. "listening" \in Serving
  BY DEF Serving
<1>. QED
  BY <1>1, <1>2, <1>3, <1>4, <1>5, <1>6, IssuerMoves

\* The client is found: the claim starts to read.
LEMMA FoundKeeps ==
    ASSUME HandoffInv, NEW i \in Issuer, Connect(i)
    PROVE  SessionInv' /\ ClaimInv' /\ DialogueInv'
<1>1. /\ pc[i] = "listening" /\ attached /\ Goto(i, "reading")
      /\ UNCHANGED <<phase, answering, checked, server, attached, toIssuer, toClient, client,
                     request, bound, next, evidence>>
  BY DEF Connect, session, auxiliary, pipe
<1>2. AttemptInv /\ SessionInv /\ ClaimInv /\ DialogueInv /\ Attempted(i)
  BY <1>1 DEF HandoffInv, Attempted
<1>3. client \in Alive /\ phase[i] = 0 /\ server = i /\ pc'[i] = "reading"
  BY <1>1, <1>2 DEF SessionInv, ClaimInv, Serving, AttemptInv, Goto
<1>4. OpenShape(i)
  BY <1>1, <1>2, <1>3 DEF DialogueInv, Dialogue, Serving, Alive
<1>5. Resting(i) \/ Asked(i)
  BY <1>1, <1>4 DEF OpenShape, AckUnread, AckRead, AskedBeforeAckRead, AskedDuringAck,
     UnderCheck, Answered
<1>6. Base' = Base
  BY <1>1 DEF Base
<1>7. Resting(i)' \/ Asked(i)'
  BY <1>1, <1>3, <1>5, <1>6 DEF Resting, Asked
<1>8. Dialogue(i)'
  BY <1>1, <1>3, <1>7 DEF Dialogue, OpenShape, Alive
<1>9. /\ phase' \in [Issuer -> Phase] /\ answering' \in [Issuer -> Frame]
      /\ checked' \in [Issuer -> SUBSET Evidence] /\ evidence' \subseteq Evidence
      /\ client # "off"
  BY <1>1, <1>2, <1>3 DEF ClaimInv, SessionInv, Alive
<1>10. "reading" \in Serving
  BY DEF Serving
<1>. QED
  BY <1>1, <1>2, <1>3, <1>8, <1>9, <1>10, IssuerMoves

\* The next frame is taken up: the acknowledgement, or what the client awaits.
LEMMA ReadKeeps ==
    ASSUME HandoffInv, NEW i \in Issuer, Read(i)
    PROVE  SessionInv' /\ ClaimInv' /\ DialogueInv'
<1>1. /\ pc[i] = "reading" /\ Goto(i, "checking")
      /\ toIssuer # <<>> /\ Head(toIssuer) \in Expected(phase[i])
      /\ toIssuer' = Tail(toIssuer)
      /\ answering' = [answering EXCEPT ![i] = Head(toIssuer)]
      /\ checked' = [checked EXCEPT ![i] = {}]
      /\ UNCHANGED <<phase, server, attached, toClient, client, request, bound, next, evidence>>
  BY DEF Read, session, auxiliary
<1>2. AttemptInv /\ SessionInv /\ ClaimInv /\ DialogueInv /\ Attempted(i)
  BY <1>1 DEF HandoffInv, Attempted
<1>3. /\ client # "off" /\ phase[i] \in Phase /\ phase[i] < 7 /\ server = i
      /\ pc'[i] = "checking"
  BY <1>1, <1>2 DEF SessionInv, ClaimInv, Serving, AttemptInv, Goto
<1>4. Head(toIssuer) \in Frame
  <2>1. CASE phase[i] \in {0, 1, 2}
    BY <1>1, <2>1, ExpectedFacts DEF Frame
  <2>2. CASE phase[i] \in 3 .. 6
    BY <1>1, <2>2, ExpectedFacts DEF Frame, Checkpoint
  <2>. QED
    BY <1>3, <2>1, <2>2
<1>5. /\ answering' \in [Issuer -> Frame] /\ checked' \in [Issuer -> SUBSET Evidence]
      /\ answering'[i] = Head(toIssuer) /\ checked'[i] = {}
  BY <1>1, <1>2, <1>4 DEF ClaimInv
<1>6. Base' = Base
  BY <1>1 DEF Base
<1>7. Dialogue(i)'
  <2>1. CASE client \in Alive
    <3>1. AckUnread(i) \/ Asked(i) \/ AskedBeforeAckRead(i)
      BY <1>1, <1>2, <1>3, <2>1 DEF DialogueInv, Dialogue, Serving, Alive, OpenShape, Resting,
         AckRead, AskedDuringAck, UnderCheck, Answered
    <3>2. CASE AckUnread(i)
      <4>1. toIssuer' = <<>> /\ answering'[i] = "ack"
        BY <1>1, <1>5, <3>2 DEF AckUnread
      <4>. QED
        BY <1>1, <1>3, <1>6, <2>1, <3>2, <4>1 DEF AckUnread, AckRead, Dialogue, OpenShape, Alive
    <3>3. CASE Asked(i)
      <4>1. toIssuer' = <<>> /\ answering'[i] = request
        BY <1>1, <1>5, <3>3 DEF Asked
      <4>2. UnderCheck(i)'
        BY <1>1, <1>3, <1>5, <1>6, <3>3, <4>1 DEF Asked, UnderCheck
      <4>. QED
        BY <1>1, <1>3, <2>1, <4>2 DEF Dialogue, OpenShape, Alive
    <3>4. CASE AskedBeforeAckRead(i)
      <4>1. request \in Frame /\ "ack" \in Frame
        BY <1>2, <3>4, AnswerFacts DEF AskedBeforeAckRead, Frame, Checkpoint
      <4>2. toIssuer' = <<request>> /\ answering'[i] = "ack"
        BY <1>1, <1>5, <3>4, <4>1, FirstOfTwo DEF AskedBeforeAckRead
      <4>3. AskedDuringAck(i)'
        BY <1>1, <1>3, <1>6, <3>4, <4>2 DEF AskedBeforeAckRead, AskedDuringAck
      <4>. QED
        BY <1>1, <1>3, <2>1, <4>3 DEF Dialogue, OpenShape, Alive
    <3>. QED
      BY <3>1, <3>2, <3>3, <3>4
  <2>2. CASE client = "closed"
    <3>1. Fits(i)
      BY <1>1, <1>2, <2>2 DEF DialogueInv, Dialogue, Serving
    <3>2. Fits(i)'
      BY <1>1, <3>1 DEF Fits
    <3>. QED
      BY <1>1, <2>2, <3>2 DEF Dialogue, Alive
  <2>. QED
    BY <1>2, <1>3, <2>1, <2>2 DEF SessionInv
<1>8. phase' \in [Issuer -> Phase] /\ evidence' \subseteq Evidence
  BY <1>1, <1>2 DEF ClaimInv, SessionInv
<1>9. "checking" \in Serving
  BY DEF Serving
<1>10. answering'[i] \in Expected(phase'[i])
  BY <1>1, <1>5
<1>. QED
  BY <1>1, <1>2, <1>3, <1>5, <1>7, <1>8, <1>9, <1>10, IssuerMoves

\* What the claim checks for a frame counts as evidence from then on.
LEMMA CheckKeeps ==
    ASSUME HandoffInv, NEW i \in Issuer, VerifyCustody(i) \/ ObserveWriter(i)
    PROVE  SessionInv' /\ ClaimInv' /\ DialogueInv'
<1>1. /\ pc[i] = "checking"
      /\ UNCHANGED <<pc, phase, answering, server, attached, toIssuer, toClient, client,
                     request, bound, next>>
      /\ \E part \in Evidence : /\ checked' = [checked EXCEPT ![i] = @ \union {part}]
                                /\ evidence' = evidence \union {part}
  BY DEF VerifyCustody, ObserveWriter, session, pipe, Evidence
<1>2. PICK part \in Evidence : /\ checked' = [checked EXCEPT ![i] = @ \union {part}]
                               /\ evidence' = evidence \union {part}
  BY <1>1
<1>3. AttemptInv /\ SessionInv /\ ClaimInv /\ DialogueInv /\ Attempted(i)
  BY <1>1 DEF HandoffInv, Attempted
<1>4. /\ checked' \in [Issuer -> SUBSET Evidence] /\ checked'[i] = checked[i] \union {part}
      /\ evidence' \subseteq Evidence
  BY <1>2, <1>3 DEF ClaimInv, SessionInv
<1>5. /\ client # "off" /\ server = i /\ phase[i] < 7 /\ answering[i] \in Expected(phase[i])
      /\ Goto(i, "checking")
  <2>1. server = i /\ phase[i] < 7 /\ answering[i] \in Expected(phase[i])
    BY <1>1, <1>3 DEF ClaimInv, Serving
  <2>2. client # "off"
    BY <1>1, <1>3 DEF DialogueInv, Dialogue, Serving, Over
  <2>3. Goto(i, "checking")
    BY <1>1, <1>3 DEF AttemptInv, Goto
  <2>. QED
    BY <2>1, <2>2, <2>3
<1>6. Base' = Base
  BY <1>1 DEF Base
<1>7. Dialogue(i)'
  <2>1. CASE client \in Alive
    <3>1. AckRead(i) \/ AskedDuringAck(i) \/ UnderCheck(i)
      BY <1>1, <1>3, <1>5, <2>1 DEF DialogueInv, Dialogue, Serving, Alive, OpenShape, Resting,
         AckUnread, Asked, AskedBeforeAckRead, Answered
    <3>2. AckRead(i)' \/ AskedDuringAck(i)' \/ UnderCheck(i)'
      BY <1>1, <1>2, <1>4, <1>6, <3>1 DEF AckRead, AskedDuringAck, UnderCheck
    <3>. QED
      BY <1>1, <1>5, <2>1, <3>2 DEF Dialogue, OpenShape, Alive
  <2>2. CASE client = "closed"
    <3>1. Fits(i)
      BY <1>1, <1>3, <2>2 DEF DialogueInv, Dialogue, Serving
    <3>2. Fits(i)'
      BY <1>1, <3>1 DEF Fits
    <3>. QED
      BY <1>1, <2>2, <3>2 DEF Dialogue, Alive
  <2>. QED
    BY <1>3, <1>5, <2>1, <2>2 DEF SessionInv
<1>8. phase' \in [Issuer -> Phase] /\ answering' \in [Issuer -> Frame]
  BY <1>1, <1>3 DEF ClaimInv
<1>9. "checking" \in Serving
  BY DEF Serving
<1>. QED
  BY <1>1, <1>3, <1>4, <1>5, <1>7, <1>8, <1>9, IssuerMoves

\* Answering an expected frame stays within the dialogue, and only the last
\* acknowledgement ends it.
LEMMA ReplyPhase ==
    ASSUME NEW p \in Phase, p < EndPhase, NEW f \in Expected(p)
    PROVE  /\ PhaseAfter(p, f) \in Phase
           /\ f # "dag_ack" => PhaseAfter(p, f) < EndPhase
           /\ f = "ack" => p = AckPhase /\ PhaseAfter(p, f) = BindPhase
<1>1. CASE p \in {0, 1, 2}
  BY <1>1, ExpectedFacts DEF PhaseAfter
<1>2. CASE p \in 3 .. 6
  <2>1. PICK k \in 1 .. 4 : /\ p = k + 2 /\ Expected(p) = {"watchdog", CHECKPOINT_ORDER[k]}
                            /\ CHECKPOINT_ORDER[k] \in Stage
                            /\ CHECKPOINT_ORDER[k] = "dag_ack" <=> k = 4
    BY <1>2, ExpectedFacts
  <2>2. f # "ack" /\ (f = "watchdog" \/ f = CHECKPOINT_ORDER[k])
    BY <2>1 DEF Stage
  <2>3. CASE f = "watchdog"
    <3>1. PhaseAfter(p, f) = p
      BY <2>3 DEF PhaseAfter
    <3>. QED
      BY <2>2, <3>1
  <2>4. CASE f = CHECKPOINT_ORDER[k]
    <3>1. PhaseAfter(p, f) = p + 1
      BY <2>1, <2>4 DEF PhaseAfter, Stage
    <3>2. f # "dag_ack" => p < 6
      BY <2>1, <2>4
    <3>. QED
      BY <1>2, <2>2, <3>1, <3>2
  <2>. QED
    BY <2>2, <2>3, <2>4
<1>. QED
  BY <1>1, <1>2

\* The answer goes out, and rests on what was checked since the client asked.
LEMMA ReplyKeeps ==
    ASSUME HandoffInv, NEW i \in Issuer, Reply(i)
    PROVE  SessionInv' /\ ClaimInv' /\ DialogueInv'
<1>1. /\ pc[i] = "checking" /\ Needed(answering[i]) \subseteq checked[i]
      /\ answering[i] # "ack" => attached
      /\ toClient' = IF answering[i] = "ack" THEN toClient ELSE Append(toClient, answering[i])
      /\ phase' = [phase EXCEPT ![i] = PhaseAfter(phase[i], answering[i])]
      /\ Goto(i, IF answering[i] = "dag_ack" THEN "leaving" ELSE "reading")
      /\ UNCHANGED <<answering, checked, server, attached, toIssuer, client, request, bound,
                     next, evidence>>
  BY DEF Reply, session, auxiliary
<1>2. AttemptInv /\ SessionInv /\ ClaimInv /\ DialogueInv /\ Attempted(i)
  BY <1>1 DEF HandoffInv, Attempted
<1>3. /\ client # "off" /\ server = i /\ phase[i] \in Phase /\ phase[i] < 7
      /\ answering[i] \in Expected(phase[i])
  <2>1. server = i /\ phase[i] \in Phase /\ phase[i] < 7 /\ answering[i] \in Expected(phase[i])
    BY <1>1, <1>2 DEF ClaimInv, Serving
  <2>2. client # "off"
    BY <1>1, <1>2 DEF DialogueInv, Dialogue, Serving, Over
  <2>. QED
    BY <2>1, <2>2
<1>4. /\ PhaseAfter(phase[i], answering[i]) \in Phase
      /\ answering[i] # "dag_ack" => PhaseAfter(phase[i], answering[i]) < 7
      /\ answering[i] = "ack" => phase[i] = 1 /\ PhaseAfter(phase[i], answering[i]) = 2
  BY <1>3, ReplyPhase
<1>. DEFINE label == IF answering[i] = "dag_ack" THEN "leaving" ELSE "reading"
<1>6. /\ phase' \in [Issuer -> Phase] /\ phase'[i] = PhaseAfter(phase[i], answering[i])
      /\ pc'[i] = label
  BY <1>1, <1>2, <1>4 DEF ClaimInv, AttemptInv, Goto
<1>7. Base' = Base
  BY <1>1 DEF Base
<1>8. Dialogue(i)'
  <2>1. CASE client \in Alive
    <3>1. AckRead(i) \/ AskedDuringAck(i) \/ UnderCheck(i)
      BY <1>1, <1>2, <1>3, <2>1 DEF DialogueInv, Dialogue, Serving, Alive, OpenShape, Resting,
         AckUnread, Asked, AskedBeforeAckRead, Answered
    <3>2. CASE AckRead(i)
      <4>1. phase'[i] = 2 /\ toClient' = toClient /\ pc'[i] = "reading"
        BY <1>1, <1>4, <1>6, <3>2 DEF AckRead
      <4>2. Resting(i)'
        BY <1>1, <1>7, <3>2, <4>1 DEF AckRead, Resting
      <4>. QED
        BY <1>1, <1>3, <2>1, <4>2 DEF Dialogue, OpenShape, Alive
    <3>3. CASE AskedDuringAck(i)
      <4>1. phase'[i] = 2 /\ toClient' = toClient /\ pc'[i] = "reading"
        BY <1>1, <1>4, <1>6, <3>3 DEF AskedDuringAck
      <4>2. Asked(i)'
        BY <1>1, <1>7, <3>3, <4>1 DEF AskedDuringAck, Asked
      <4>. QED
        BY <1>1, <1>3, <2>1, <4>2 DEF Dialogue, OpenShape, Alive
    <3>4. CASE UnderCheck(i)
      <4>1. answering[i] = request /\ request # "ack"
        BY <1>2, <3>4 DEF UnderCheck, SessionInv
      <4>2. toClient' = <<request>>
        BY <1>1, <3>4, <4>1 DEF UnderCheck
      <4>3. Needed(request) \subseteq evidence
        BY <1>1, <3>4, <4>1 DEF UnderCheck
      <4>4. Answered(i)'
        BY <1>1, <1>6, <1>7, <3>4, <4>1, <4>2, <4>3 DEF UnderCheck, Answered
      <4>. QED
        BY <1>1, <1>3, <2>1, <4>4 DEF Dialogue, OpenShape, Alive
    <3>. QED
      BY <3>1, <3>2, <3>3, <3>4
  <2>2. CASE client = "closed"
    <3>1. Fits(i)
      BY <1>1, <1>2, <2>2 DEF DialogueInv, Dialogue, Serving
    <3>2. answering[i] = "ack"
      BY <1>1, <1>2, <2>2 DEF SessionInv, Alive
    <3>3. phase[i] = 1 /\ phase'[i] = 2
      BY <1>4, <1>6, <3>2
    <3>4. ~bound
      BY <1>2, <3>1, <3>3 DEF Fits, SessionInv
    <3>5. Fits(i)'
      BY <1>1, <3>3, <3>4 DEF Fits
    <3>. QED
      BY <1>1, <2>2, <3>5 DEF Dialogue, Alive
  <2>. QED
    BY <1>2, <1>3, <2>1, <2>2 DEF SessionInv
<1>9. /\ answering' \in [Issuer -> Frame] /\ checked' \in [Issuer -> SUBSET Evidence]
      /\ evidence' \subseteq Evidence
      /\ \A j \in Issuer : j # i => phase'[j] = phase[j]
  BY <1>1, <1>2 DEF ClaimInv, SessionInv
<1>10. label \in Serving /\ label \notin {"listening", "checking"}
  BY DEF Serving
<1>11. label = "reading" => phase'[i] < 7
  BY <1>4, <1>6
<1>12. Goto(i, label) /\ server' = i
  BY <1>1, <1>3
<1>. HIDE DEF label
<1>. QED
  BY <1>1, <1>2, <1>3, <1>6, <1>8, <1>9, <1>10, <1>11, <1>12, IssuerMoves

\* Steps that touch neither the session nor the claim that serves it.
LEMMA StandStill ==
    ASSUME HandoffInv, UNCHANGED <<pc, phase, answering, checked, server, attached, toIssuer,
                                   toClient, client, request, bound, next, evidence>>
    PROVE  SessionInv' /\ ClaimInv' /\ DialogueInv'
<1>1. SessionInv /\ ClaimInv /\ DialogueInv
  BY DEF HandoffInv
<1>2. SessionInv' /\ ClaimInv'
  BY <1>1 DEF SessionInv, ClaimInv, Base
<1>3. ASSUME NEW i \in Issuer, pc[i] \in Serving \union Over PROVE Dialogue(i)'
  <2>1. Dialogue(i)
    BY <1>1, <1>3 DEF DialogueInv
  <2>2. /\ OpenShape(i) => OpenShape(i)'
        /\ OverShape(i) => OverShape(i)'
        /\ Fits(i) => Fits(i)'
    <3>1. Base' = Base
      BY DEF Base
    <3>2. OpenShape(i) => OpenShape(i)'
      BY <3>1 DEF OpenShape, Resting, AckUnread, AckRead, Asked, AskedBeforeAckRead,
         AskedDuringAck, UnderCheck, Answered
    <3>3. OverShape(i) => OverShape(i)'
      BY <3>1 DEF OverShape, Near
    <3>. QED
      BY <3>2, <3>3 DEF Fits
  <2>. QED
    BY <2>1, <2>2 DEF Dialogue
<1>. QED
  BY <1>2, <1>3 DEF DialogueInv

\* A claim is made: the one that gets the attempt has said nothing yet.
LEMMA ClaimKeeps ==
    ASSUME HandoffInv, NEW i \in Issuer, Claim(i)
    PROVE  SessionInv' /\ ClaimInv' /\ DialogueInv'
<1>1. /\ pc[i] = "ready" /\ Goto(i, IF consumed THEN "refused" ELSE "claimed")
      /\ UNCHANGED <<phase, answering, checked, server, attached, toIssuer, toClient, client,
                     request, bound, next, evidence>>
  BY DEF Claim, session, auxiliary, pipe
<1>2. AttemptInv /\ SessionInv /\ ClaimInv /\ DialogueInv
  BY DEF HandoffInv
<1>3. \A j \in Issuer : /\ j # i => pc'[j] = pc[j]
                        /\ pc'[i] \in {"refused", "claimed"}
  BY <1>1, <1>2 DEF AttemptInv, Goto
<1>4. SessionInv'
  BY <1>1, <1>2 DEF SessionInv, Base
<1>5. pc[i] \notin Serving \union Over /\ pc'[i] \notin Serving \union Over
  BY <1>1, <1>3 DEF Serving, Over
<1>6. ClaimInv'
  <2>1. ASSUME NEW j \in Issuer
        PROVE  /\ pc'[j] \in Serving <=> server = j
               /\ pc'[j] \notin Serving \union Over => phase[j] = ClaimPhase
               /\ pc'[j] = "listening" => phase[j] = ClaimPhase
               /\ pc'[j] \in {"reading", "checking"} => phase[j] < EndPhase
               /\ pc'[j] = "checking" => answering[j] \in Expected(phase[j])
    <3>1. CASE j = i
      BY <1>2, <1>3, <1>5, <3>1 DEF ClaimInv, Serving
    <3>2. CASE j # i
      BY <1>2, <1>3, <3>2 DEF ClaimInv
    <3>. QED
      BY <3>1, <3>2
  <2>2. client # "off" => \E j \in Issuer : pc'[j] \in Serving \union Over
    BY <1>2, <1>3, <1>5 DEF ClaimInv
  <2>. QED
    BY <1>1, <1>2, <2>1, <2>2 DEF ClaimInv
<1>7. ASSUME NEW j \in Issuer, pc'[j] \in Serving \union Over PROVE Dialogue(j)'
  <2>1. j # i /\ pc'[j] = pc[j]
    BY <1>3, <1>5, <1>7
  <2>2. Dialogue(j)
    BY <1>2, <1>7, <2>1 DEF DialogueInv
  <2>3. Base' = Base
    BY <1>1 DEF Base
  <2>4. OpenShape(j) => OpenShape(j)'
    BY <1>1, <2>1, <2>3 DEF OpenShape, Resting, AckUnread, AckRead, Asked, AskedBeforeAckRead,
       AskedDuringAck, UnderCheck, Answered
  <2>5. (OverShape(j) => OverShape(j)') /\ (Fits(j) => Fits(j)')
    BY <1>1, <2>3 DEF OverShape, Near, Fits
  <2>. QED
    BY <1>1, <2>1, <2>2, <2>4, <2>5 DEF Dialogue
<1>. QED
  BY <1>4, <1>6, <1>7 DEF DialogueInv

-----------------------------------------------------------------------------
(* The dialogue holds throughout, and what follows from it.                *)

LEMMA InitHandoffInv == Init => HandoffInv
<1>. SUFFICES ASSUME Init PROVE HandoffInv
  OBVIOUS
<1>1. \A i \in Issuer : pc[i] \notin Serving \union Over /\ phase[i] = 0
  BY DEF Init, Serving, Over
<1>2. SessionInv
  <2>1. /\ client = "off" /\ attached = FALSE /\ bound = FALSE /\ next = 0
        /\ toIssuer = <<>> /\ toClient = <<>> /\ evidence = {}
    BY DEF Init
  <2>2. client \notin Alive /\ client # "closed" /\ client \notin {"idle", "sending", "awaiting"}
    BY <2>1 DEF Alive
  <2>3. ~attached /\ ~bound /\ bound \in BOOLEAN
    BY <2>1
  <2>4. next \in 0 .. 4 /\ evidence \subseteq Evidence
    BY <2>1
  <2>5. client \in Alive \union {"off", "closed"} /\ (attached <=> client \in Alive)
    BY <2>1, <2>2, <2>3
  <2>6. toIssuer = <<>> /\ toClient = <<>> /\ next = 0
    BY <2>1
  <2>. QED
    BY <2>2, <2>3, <2>4, <2>5, <2>6 DEF SessionInv
<1>3. ClaimInv
  <2>1. phase \in [Issuer -> Phase] /\ answering \in [Issuer -> Frame]
        /\ checked \in [Issuer -> SUBSET Evidence]
    BY DEF Init, Frame
  <2>2. server = NoServer /\ client = "off"
    BY DEF Init
  <2>3. \A i \in Issuer : pc[i] \notin {"listening", "reading", "checking"} /\ server # i
    BY <1>1, <2>2, ServerAssumption DEF Serving
  <2>. QED
    BY <1>1, <2>1, <2>2, <2>3 DEF ClaimInv
<1>4. DialogueInv
  BY <1>1 DEF DialogueInv
<1>. QED
  BY <1>2, <1>3, <1>4, InitAttemptInv DEF HandoffInv

LEMMA NextHandoffInv == HandoffInv /\ [Next]_vars => HandoffInv'
<1>. SUFFICES ASSUME HandoffInv, [Next]_vars PROVE SessionInv' /\ ClaimInv' /\ DialogueInv'
  BY NextAttemptInv DEF HandoffInv
<1>1. ASSUME NEW i \in Issuer, Claim(i) \/ Serve(i) \/ Break(i)
      PROVE  SessionInv' /\ ClaimInv' /\ DialogueInv'
  <2>1. CASE Claim(i)
    BY <2>1, ClaimKeeps
  <2>2. CASE Open(i)
    BY <2>2, OpenKeeps
  <2>3. CASE Connect(i)
    BY <2>3, FoundKeeps
  <2>4. CASE Read(i)
    BY <2>4, ReadKeeps
  <2>5. CASE VerifyCustody(i) \/ ObserveWriter(i)
    BY <2>5, CheckKeeps
  <2>6. CASE Reply(i)
    BY <2>6, ReplyKeeps
  <2>7. CASE Reject(i) \/ Timeout(i) \/ Break(i)
    <3>1. pc[i] \in Running /\ Fail(i)
      BY <2>7 DEF Reject, Timeout, Break, Running
    <3>2. /\ CloseServer(i) /\ Goto(i, "failed")
          /\ UNCHANGED <<phase, answering, checked, client, request, bound, next, evidence>>
      BY <3>1 DEF Fail, session, auxiliary
    <3>3. "failed" \in Over
      BY DEF Over
    <3>. QED
      BY <3>1, <3>2, <3>3, EndKeeps
  <2>8. CASE Leave(i)
    <3>1. /\ pc[i] = "leaving" /\ CloseServer(i)
          /\ Goto(i, "returned") \/ Goto(i, "failed")
          /\ UNCHANGED <<phase, answering, checked, client, request, bound, next, evidence>>
      BY <2>8 DEF Leave, session, auxiliary
    <3>2. pc[i] \in Running /\ "failed" \in Over /\ "returned" \in Over
      BY <3>1 DEF Running, Over
    <3>. QED
      BY <3>1, <3>2, EndKeeps
  <2>. QED
    BY <1>1, <2>1, <2>2, <2>3, <2>4, <2>5, <2>6, <2>7, <2>8 DEF Serve
<1>2. CASE ClientStep
  <2>1. CASE ClientConnect
    BY <2>1, ConnectKeeps
  <2>2. CASE ClientRefused \/ StrayThread
    BY <2>2, StandStill DEF ClientRefused, StrayThread, issuing, pipe, auxiliary
  <2>3. CASE \E f \in Frame : Begin(f)
    BY <2>3, BeginKeeps
  <2>4. CASE Send
    BY <2>4, SendKeeps
  <2>5. CASE Accept
    BY <2>5, AcceptKeeps
  <2>6. CASE ClientTimeout \/ ClientClose
    <3>1. /\ client \in Alive /\ CloseClient
          /\ UNCHANGED <<issuing, request, bound, next, evidence>>
      BY <2>6 DEF ClientTimeout, ClientClose, Alive, auxiliary
    <3>. QED
      BY <3>1, CloseKeeps
  <2>. QED
    BY <1>2, <2>1, <2>2, <2>3, <2>4, <2>5, <2>6 DEF ClientStep
<1>3. CASE Tick \/ CustodyChanges \/ WriterChanges \/ UNCHANGED vars
  BY <1>3, StandStill DEF Tick, CustodyChanges, WriterChanges, vars, issuing, pipe, session,
     auxiliary
<1>. QED
  BY <1>1, <1>2, <1>3 DEF Next

\* Issuer and client agree on the stages, for any number of issuers, whatever
\* is lost when either end closes.
THEOREM StagesInStep == Spec => []StagesAgree
<1>1. HandoffInv => StagesAgree
  <2>. SUFFICES ASSUME HandoffInv PROVE StagesAgree
    OBVIOUS
  <2>1. SessionInv /\ ClaimInv /\ DialogueInv /\ next \in 0 .. 4
    BY DEF HandoffInv, SessionInv
  <2>2. ASSUME NEW i \in Issuer, pc[i] \in Serving \union Over, client # "off"
        PROVE  /\ Fits(i)
               /\ bound /\ phase[i] = next + 4 =>
                     client = "closed" \/ (client = "awaiting" /\ request = CHECKPOINT_ORDER[next + 1])
    <3>1. CASE client \in Alive
      BY <2>1, <2>2, <3>1, ShapesNear, NearFits DEF DialogueInv, Dialogue
    <3>2. CASE client = "closed"
      BY <2>1, <2>2, <3>2 DEF DialogueInv, Dialogue
    <3>. QED
      BY <2>1, <2>2, <3>1, <3>2 DEF SessionInv
  <2>3. bound => \E i \in Issuer : phase[i] >= StagePhase(next + 1)
    <3>. SUFFICES ASSUME bound PROVE \E i \in Issuer : phase[i] >= StagePhase(next + 1)
      OBVIOUS
    <3>1. client # "off"
      BY <2>1 DEF SessionInv
    <3>2. PICK i \in Issuer : pc[i] \in Serving \union Over
      BY <2>1, <3>1 DEF ClaimInv
    <3>3. phase[i] \in {next + 3, next + 4}
      BY <2>1, <2>2, <3>1, <3>2 DEF Fits
    <3>. QED
      BY <2>1, <3>3
  <2>4. ASSUME NEW i \in Issuer, phase[i] > StagePhase(1)
        PROVE  /\ bound
               /\ phase[i] <= StagePhase(next + 2)
               /\ phase[i] = StagePhase(next + 2) =>
                     client = "closed" \/ (client = "awaiting" /\ request = CHECKPOINT_ORDER[next + 1])
    <3>1. pc[i] \in Serving \union Over /\ phase[i] \in 0 .. 7
      BY <2>1, <2>4 DEF ClaimInv
    <3>2. client # "off"
      BY <2>1, <2>4, <3>1 DEF DialogueInv, Dialogue
    <3>3. Fits(i)
      BY <2>2, <3>1, <3>2
    <3>4. bound
      BY <2>1, <2>4, <3>1, <3>3 DEF Fits, SessionInv
    <3>5. phase[i] <= next + 4
      BY <2>1, <3>3, <3>4 DEF Fits
    <3>. QED
      BY <2>1, <2>2, <3>1, <3>2, <3>4, <3>5
  <2>. QED
    BY <2>3, <2>4 DEF StagesAgree
<1>. QED
  BY <1>1, InitHandoffInv, NextHandoffInv, PTL DEF Spec

\* Only an answer moves the session on, and an answer under way rests on what
\* was checked after its frame was begun.
LEMMA PassStep ==
    ASSUME HandoffInv, [Next]_vars,
           \/ bound' # bound \/ next' # next
           \/ client = "awaiting" /\ client' = "idle" /\ request = "watchdog"
    PROVE  evidence = Evidence
<1>1. ASSUME UNCHANGED <<bound, next>>, client' = client \/ client' # "idle" \/ client # "awaiting"
      PROVE  FALSE
  BY <1>1
<1>2. Accept
  <2>1. CASE \E i \in Issuer : Claim(i) \/ Serve(i) \/ Break(i)
    BY <1>1, <2>1 DEF Claim, Serve, Break, Open, Connect, Read, VerifyCustody, ObserveWriter,
       Reply, Reject, Timeout, Leave, Fail, session
  <2>2. CASE ClientConnect \/ ClientRefused \/ Send \/ ClientTimeout \/ ClientClose \/ StrayThread
    BY <1>1, <2>2 DEF ClientConnect, ClientRefused, Send, ClientTimeout, ClientClose, CloseClient,
       StrayThread
  <2>3. CASE \E f \in Frame : Begin(f)
    BY <1>1, <2>3 DEF Begin
  <2>4. CASE Tick \/ CustodyChanges \/ WriterChanges \/ UNCHANGED vars
    BY <1>1, <2>4 DEF Tick, CustodyChanges, WriterChanges, vars, session
  <2>. QED
    BY <2>1, <2>2, <2>3, <2>4 DEF Next, ClientStep
<1>3. /\ client = "awaiting" /\ toClient # <<>>
      /\ bound' = (bound \/ request = "bind")
      /\ next' = IF request \in Stage THEN next + 1 ELSE next
  BY <1>2 DEF Accept
<1>4. SessionInv /\ ClaimInv /\ DialogueInv /\ bound \in BOOLEAN
  BY DEF HandoffInv, SessionInv
<1>5. request \in Checkpoint \union {"bind"}
  BY <1>3, <1>4 DEF Checkpoint
<1>6. PICK i \in Issuer : pc[i] \in Serving \union Over
  BY <1>3, <1>4 DEF ClaimInv
<1>7. IF server = i THEN OpenShape(i) ELSE OverShape(i)
  BY <1>3, <1>4, <1>6 DEF DialogueInv, Dialogue, Alive
<1>8. Needed(request) \subseteq evidence
  BY <1>3, <1>7 DEF OpenShape, OverShape, Resting, AckUnread, AckRead, Asked,
     AskedBeforeAckRead, AskedDuringAck, UnderCheck, Answered
<1>. QED
  BY <1>4, <1>5, <1>8 DEF Needed, SessionInv

\* Whatever the client passes rests on checks made after it asked: no answer to
\* an earlier request is ever taken for it.
THEOREM PassesRestOnFreshEvidence == Spec => PassedOnFreshEvidence
<1>1. HandoffInv /\ [Next]_vars =>
        [bound' # bound \/ next' # next \/ (client = "awaiting" /\ client' = "idle" /\ request = "watchdog")
            => evidence = Evidence]_vars
  BY PassStep
<1>. QED
  BY <1>1, InitHandoffInv, NextHandoffInv, PTL DEF Spec, PassedOnFreshEvidence

-----------------------------------------------------------------------------
(* The handoff implements its contract.                                    *)

\* What was acknowledged, without the choice: how far the furthest claim is.
AcknowledgedIs ==
    /\ Acknowledged \in 0 .. 5
    /\ \A i \in Issuer : phase[i] <= 2 + Acknowledged
    /\ Acknowledged = 0 \/ \E i \in Issuer : phase[i] = 2 + Acknowledged

LEMMA AcknowledgedFacts == HandoffInv => AcknowledgedIs
<1>. SUFFICES ASSUME HandoffInv
              PROVE  \E n \in 0 .. 5 : /\ \A i \in Issuer : phase[i] <= 2 + n
                                       /\ n = 0 \/ \E i \in Issuer : phase[i] = 2 + n
  BY DEF Acknowledged, AcknowledgedIs
<1>1. /\ phase \in [Issuer -> 0 .. 7] /\ AttemptInv
      /\ \A i \in Issuer : pc[i] \notin Serving \union Over => phase[i] = 0
  BY DEF HandoffInv, ClaimInv
<1>2. CASE \A i \in Issuer : phase[i] <= 2
  BY <1>2
<1>3. CASE \E i \in Issuer : phase[i] > 2
  <2>1. PICK i \in Issuer : phase[i] > 2
    BY <1>3
  <2>2. \A j \in Issuer : j # i => phase[j] = 0
    BY <1>1, <2>1 DEF AttemptInv, SingleAttempt, Attempted, Serving, Over
  <2>3. phase[i] \in 3 .. 7
    BY <1>1, <2>1
  <2>4. phase[i] - 2 \in 0 .. 5 /\ phase[i] = 2 + (phase[i] - 2)
    BY <2>3
  <2>5. ASSUME NEW j \in Issuer PROVE phase[j] <= 2 + (phase[i] - 2)
    <3>1. CASE j = i
      BY <2>3, <3>1
    <3>2. CASE j # i
      BY <2>2, <2>3, <3>2
    <3>. QED
      BY <3>1, <3>2
  <2>. QED
    BY <2>4, <2>5
<1>. QED
  BY <1>1, <1>2, <1>3

\* The claim that got through is the one both ends see.
SeenIs ==
    /\ \A i \in Issuer : pc[i] \in Serving \union Over =>
          /\ ClaimSeen = IF pc[i] \in Serving THEN "serving" ELSE "over"
          /\ Acknowledged = IF phase[i] > 2 THEN phase[i] - 2 ELSE 0
    /\ (\A i \in Issuer : pc[i] \notin Serving \union Over) =>
          ClaimSeen = "unclaimed" /\ Acknowledged = 0

LEMMA SeenFacts == HandoffInv => SeenIs
<1>. SUFFICES ASSUME HandoffInv PROVE SeenIs
  OBVIOUS
<1>1. /\ phase \in [Issuer -> 0 .. 7] /\ AttemptInv
      /\ server \in Issuer \union {NoServer}
      /\ \A i \in Issuer : pc[i] \notin Serving \union Over => phase[i] = 0
      /\ \A i \in Issuer : pc[i] \in Serving <=> server = i
  BY DEF HandoffInv, ClaimInv
<1>2. /\ Acknowledged \in 0 .. 5
      /\ \A i \in Issuer : phase[i] <= 2 + Acknowledged
      /\ Acknowledged = 0 \/ \E i \in Issuer : phase[i] = 2 + Acknowledged
  BY AcknowledgedFacts DEF AcknowledgedIs
<1>3. ASSUME NEW i \in Issuer, pc[i] \in Serving \union Over
      PROVE  /\ ClaimSeen = IF pc[i] \in Serving THEN "serving" ELSE "over"
             /\ Acknowledged = IF phase[i] > 2 THEN phase[i] - 2 ELSE 0
  <2>1. \A j \in Issuer : j # i => phase[j] = 0 /\ pc[j] \notin Serving
    BY <1>1, <1>3 DEF AttemptInv, SingleAttempt, Attempted, Serving, Over
  <2>2. pc[i] \notin Serving => server = NoServer /\ pc[i] \in Over
    BY <1>1, <1>3, <2>1
  <2>3. ClaimSeen = IF pc[i] \in Serving THEN "serving" ELSE "over"
    BY <1>1, <2>2, ServerAssumption DEF ClaimSeen, Over
  <2>4. phase[i] \in 0 .. 7 /\ phase[i] <= 2 + Acknowledged
    BY <1>1, <1>2
  <2>5. Acknowledged = 0 \/ phase[i] = 2 + Acknowledged
    BY <1>2, <2>1
  <2>. QED
    BY <1>2, <2>3, <2>4, <2>5
<1>4. ASSUME \A i \in Issuer : pc[i] \notin Serving \union Over
      PROVE  ClaimSeen = "unclaimed" /\ Acknowledged = 0
  <2>1. server = NoServer /\ \A i \in Issuer : phase[i] = 0 /\ pc[i] \notin Over
    BY <1>1, <1>4
  <2>2. ClaimSeen = "unclaimed"
    BY <2>1 DEF ClaimSeen, Over
  <2>. QED
    BY <1>2, <2>1, <2>2
<1>. QED
  BY <1>3, <1>4 DEF SeenIs

\* A step that leaves the phases alone acknowledges nothing.
LEMMA AcknowledgedStays ==
    ASSUME HandoffInv, HandoffInv', UNCHANGED phase
    PROVE  UNCHANGED Acknowledged
<1>1. HandoffInv' => AcknowledgedIs'
  BY AcknowledgedFacts, PTL
<1>2. AcknowledgedIs /\ AcknowledgedIs'
  BY <1>1, AcknowledgedFacts
<1>3. \A i \in Issuer : phase[i] \in 0 .. 7
  BY DEF HandoffInv, ClaimInv
<1>4. \A m, n \in 0 .. 5 :
          /\ \A i \in Issuer : phase[i] <= 2 + m /\ phase[i] <= 2 + n
          /\ m = 0 \/ \E i \in Issuer : phase[i] = 2 + m
          /\ n = 0 \/ \E i \in Issuer : phase[i] = 2 + n
          => m = n
  BY <1>3
<1>5. UNCHANGED phase
  OBVIOUS
<1>. QED
  BY <1>2, <1>4, <1>5 DEF AcknowledgedIs

\* What each end sees of a step in which the other end does nothing.
LEMMA ClientStill ==
    ASSUME UNCHANGED <<client, bound, next>>
    PROVE  UNCHANGED OwnerSeen /\ UNCHANGED Passed
BY DEF OwnerSeen, Passed

LEMMA IssuerStill ==
    ASSUME HandoffInv, HandoffInv', UNCHANGED <<pc, phase, server>>
    PROVE  UNCHANGED ClaimSeen /\ UNCHANGED Acknowledged
<1>1. UNCHANGED ClaimSeen
  BY DEF ClaimSeen
<1>. QED
  BY <1>1, AcknowledgedStays

seen == <<ClaimSeen, OwnerSeen, Acknowledged, Passed>>

\* The claim ends, before it served or after.
LEMMA EndRefines ==
    ASSUME HandoffInv, HandoffInv', NEW i \in Issuer, pc[i] \in Running,
           NEW label \in Over, Goto(i, label), UNCHANGED <<phase, client, bound, next>>
    PROVE  Contract!End
<1>1. SeenIs /\ SeenIs'
  <2>1. HandoffInv' => SeenIs'
    BY SeenFacts, PTL
  <2>. QED
    BY <2>1, SeenFacts
<1>2. pc'[i] = label /\ label \notin Serving
  BY DEF HandoffInv, AttemptInv, Goto, Serving, Over
<1>3. ClaimSeen' = "over"
  BY <1>1, <1>2 DEF SeenIs
<1>4. ClaimSeen \in {"unclaimed", "serving"}
  <2>1. CASE pc[i] \in Serving
    BY <1>1, <2>1 DEF SeenIs
  <2>2. CASE pc[i] \notin Serving
    <3>1. Attempted(i) /\ pc[i] \notin Serving \union Over
      BY <2>2 DEF Attempted, Running, Serving, Over
    <3>2. \A j \in Issuer : pc[j] \notin Serving \union Over
      BY <3>1, SoleClaim
    <3>. QED
      BY <1>1, <3>2 DEF SeenIs
  <2>. QED
    BY <2>1, <2>2
<1>. QED
  BY <1>3, <1>4, ClientStill, AcknowledgedStays DEF Contract!End

\* The pipe is opened: the claim serves, once.
LEMMA OpenRefines ==
    ASSUME HandoffInv, HandoffInv', NEW i \in Issuer, Open(i)
    PROVE  Contract!Serve
<1>1. /\ pc[i] = "claimed" /\ server' = i /\ UNCHANGED <<phase, client, bound, next>>
  BY DEF Open, session
<1>2. ClaimSeen' = "serving"
  BY <1>1, ServerAssumption DEF ClaimSeen
<1>3. Attempted(i) /\ pc[i] \notin Serving \union Over
  BY <1>1 DEF Attempted, Serving, Over
<1>4. \A j \in Issuer : pc[j] \notin Serving \union Over
  BY <1>3, SoleClaim
<1>5. ClaimSeen = "unclaimed"
  BY <1>4, SeenFacts DEF SeenIs
<1>. QED
  BY <1>1, <1>2, <1>5, ClientStill, AcknowledgedStays DEF Contract!Serve

\* An answer acknowledges the milestone the client waits to pass, or nothing.
LEMMA ReplyRefines ==
    ASSUME HandoffInv, HandoffInv', NEW i \in Issuer, Reply(i)
    PROVE  Contract!Acknowledge \/ UNCHANGED seen
<1>1. /\ pc[i] = "checking" /\ (answering[i] # "ack" => attached)
      /\ phase' = [phase EXCEPT ![i] = PhaseAfter(phase[i], answering[i])]
      /\ Goto(i, IF answering[i] = "dag_ack" THEN "leaving" ELSE "reading")
      /\ UNCHANGED <<server, client, bound, next>>
  BY DEF Reply, session
<1>2. AttemptInv /\ SessionInv /\ ClaimInv /\ DialogueInv
  BY DEF HandoffInv
<1>3. pc[i] \in Serving /\ pc'[i] \in Serving /\ server = i
  BY <1>1, <1>2 DEF AttemptInv, Goto, Serving, ClaimInv
<1>4. /\ phase[i] \in 0 .. 6 /\ answering[i] \in Expected(phase[i])
      /\ phase'[i] = PhaseAfter(phase[i], answering[i])
  BY <1>1, <1>2 DEF ClaimInv
<1>5. SeenIs /\ SeenIs'
  <2>1. HandoffInv' => SeenIs'
    BY SeenFacts, PTL
  <2>. QED
    BY <2>1, SeenFacts
<1>6. /\ ClaimSeen = "serving" /\ ClaimSeen' = "serving"
      /\ Acknowledged = IF phase[i] > 2 THEN phase[i] - 2 ELSE 0
      /\ Acknowledged' = IF phase'[i] > 2 THEN phase'[i] - 2 ELSE 0
  BY <1>3, <1>5 DEF SeenIs
<1>7. UNCHANGED OwnerSeen /\ UNCHANGED Passed
  BY <1>1, ClientStill
<1>8. CASE phase'[i] = phase[i] \/ phase'[i] <= 2
  <2>1. UNCHANGED Acknowledged
    <3>1. CASE phase'[i] = phase[i]
      BY <1>6, <3>1
    <3>2. CASE phase'[i] <= 2 /\ phase'[i] = phase[i] + 1
      <4>1. ~(phase[i] > 2) /\ ~(phase'[i] > 2)
        BY <1>4, <3>2
      <4>. QED
        BY <1>6, <4>1
    <3>3. phase'[i] \in {phase[i], phase[i] + 1}
      BY <1>4 DEF PhaseAfter
    <3>. QED
      BY <1>8, <3>1, <3>2, <3>3
  <2>. QED
    BY <1>6, <1>7, <2>1 DEF seen
<1>9. CASE phase'[i] # phase[i] /\ ~(phase'[i] <= 2)
  <2>1. phase'[i] = phase[i] + 1 /\ phase[i] >= 2 /\ answering[i] \notin {"heartbeat", "watchdog"}
    BY <1>4, <1>9 DEF PhaseAfter
  <2>2. answering[i] # "ack"
    BY <1>4, <2>1, ReplyPhase
  <2>3. client \in Alive
    BY <1>1, <1>2, <2>2 DEF SessionInv
  <2>4. UnderCheck(i)
    BY <1>1, <1>2, <1>3, <2>2, <2>3 DEF DialogueInv, Dialogue, Alive, OpenShape, Resting,
       AckUnread, AckRead, Asked, AskedBeforeAckRead, AskedDuringAck, Answered
  <2>5. /\ answering[i] = request /\ phase[i] = Base /\ client = "awaiting"
    BY <2>4 DEF UnderCheck
  <2>6. Passed \in 0 .. 4 /\ Acknowledged = Passed
    <3>1. CASE bound
      <4>1. next \in 0 .. 3 /\ phase[i] = next + 3
        BY <1>2, <2>5, <3>1, RequestFacts
      <4>. QED
        BY <1>6, <3>1, <4>1 DEF Passed
    <3>2. CASE ~bound
      <4>1. ~(phase[i] > 2)
        BY <1>2, <2>5, <3>2, RequestFacts
      <4>. QED
        BY <1>6, <3>2, <4>1 DEF Passed
    <3>. QED
      BY <3>1, <3>2
  <2>7. Acknowledged' = Acknowledged + 1
    BY <1>4, <1>6, <2>1
  <2>8. OwnerSeen = "present"
    BY <2>5 DEF OwnerSeen
  <2>9. Contract!Acknowledge
    BY <1>6, <1>7, <2>6, <2>7, <2>8 DEF Contract!Acknowledge
  <2>. QED
    BY <2>9
<1>. QED
  BY <1>8, <1>9

\* An answer passes the milestone it is the answer to, or nothing.
LEMMA AcceptRefines ==
    ASSUME HandoffInv, HandoffInv', Accept
    PROVE  Contract!Pass \/ UNCHANGED seen
<1>1. /\ client = "awaiting" /\ toClient # <<>>
      /\ bound' = (bound \/ request = "bind")
      /\ next' = IF request \in Stage THEN next + 1 ELSE next
      /\ UNCHANGED <<pc, phase, server>>
      /\ client' = IF request = "dag_ack" THEN "closed" ELSE IF request = "claim" THEN "sending" ELSE "idle"
  BY DEF Accept, issuing, CloseClient
<1>2. SessionInv /\ ClaimInv /\ DialogueInv /\ next \in 0 .. 4 /\ (~bound => next = 0)
  BY DEF HandoffInv, SessionInv
<1>3. PICK i \in Issuer : pc[i] \in Serving \union Over
  BY <1>1, <1>2 DEF ClaimInv
<1>4. phase[i] = PhaseAfter(Base, request)
  <2>1. IF server = i THEN OpenShape(i) ELSE OverShape(i)
    BY <1>1, <1>2, <1>3 DEF DialogueInv, Dialogue, Alive
  <2>. QED
    BY <1>1, <2>1 DEF OpenShape, OverShape, Resting, AckUnread, AckRead, Asked,
       AskedBeforeAckRead, AskedDuringAck, UnderCheck, Answered
<1>5. Acknowledged = IF phase[i] > 2 THEN phase[i] - 2 ELSE 0
  BY <1>3, SeenFacts DEF SeenIs
<1>6. UNCHANGED ClaimSeen /\ UNCHANGED Acknowledged
  BY <1>1, IssuerStill
<1>7. OwnerSeen = "present" /\ OwnerSeen' = IF request = "dag_ack" THEN "gone" ELSE "present"
  BY <1>1 DEF OwnerSeen
<1>8. CASE request \in {"claim", "heartbeat", "watchdog"}
  <2>1. request \notin Stage /\ request # "bind"
    BY <1>8 DEF Stage
  <2>2. (bound' <=> bound) /\ next' = next /\ request # "dag_ack"
    BY <1>1, <2>1 DEF Stage
  <2>3. UNCHANGED Passed
    BY <2>2 DEF Passed
  <2>. QED
    BY <1>6, <1>7, <2>2, <2>3 DEF seen
<1>9. CASE request = "bind"
  <2>1. ~bound /\ next = 0 /\ phase[i] = 3
    BY <1>1, <1>2, <1>4, <1>9, AnswerFacts
  <2>2. bound' /\ next' = 0 /\ request # "dag_ack"
    BY <1>1, <1>9, <2>1 DEF Stage
  <2>3. Passed = 0 /\ Passed' = 1 /\ Acknowledged = 1
    BY <1>5, <2>1, <2>2 DEF Passed
  <2>4. Contract!Pass
    BY <1>6, <1>7, <2>2, <2>3 DEF Contract!Pass
  <2>. QED
    BY <2>4
<1>10. CASE request \in Stage
  <2>1. bound /\ next \in 0 .. 3 /\ phase[i] = next + 4 /\ (request = "dag_ack" <=> next = 3)
    BY <1>1, <1>2, <1>4, <1>10, AnswerFacts
  <2>2. bound' /\ next' = next + 1
    BY <1>1, <1>10, <2>1
  <2>3. Passed = next + 1 /\ Passed' = next + 2 /\ Acknowledged = next + 2
    BY <1>5, <2>1, <2>2 DEF Passed
  <2>4. Contract!Pass
    BY <1>6, <1>7, <2>1, <2>3 DEF Contract!Pass
  <2>. QED
    BY <2>4
<1>. QED
  BY <1>1, <1>2, <1>8, <1>9, <1>10, AnswerFacts

\* Every step of an issuer is a step of the contract or none of its business.
LEMMA IssuerRefines ==
    ASSUME HandoffInv, HandoffInv', NEW i \in Issuer, Claim(i) \/ Serve(i) \/ Break(i)
    PROVE  Contract!ContractNext \/ UNCHANGED seen
<1>1. CASE Claim(i)
  <2>1. pc[i] = "ready" /\ UNCHANGED <<phase, server, client, bound, next>>
        /\ Goto(i, IF consumed THEN "refused" ELSE "claimed")
    BY <1>1 DEF Claim, pipe, session
  <2>2. \A j \in Issuer : pc'[j] \in {"returned", "failed"} <=> pc[j] \in {"returned", "failed"}
    BY <2>1 DEF HandoffInv, AttemptInv, Goto
  <2>3. UNCHANGED ClaimSeen
    BY <2>1, <2>2 DEF ClaimSeen
  <2>. QED
    BY <2>1, <2>3, ClientStill, AcknowledgedStays DEF seen
<1>2. CASE Open(i)
  BY <1>2, OpenRefines DEF Contract!ContractNext
<1>3. CASE Connect(i) \/ Read(i) \/ VerifyCustody(i) \/ ObserveWriter(i)
  <2>1. /\ pc[i] \in Serving /\ UNCHANGED <<phase, server, client, bound, next>>
    BY <1>3 DEF Connect, Read, VerifyCustody, ObserveWriter, pipe, session, Serving
  <2>2. server # NoServer
    BY <2>1, ServerAssumption DEF HandoffInv, ClaimInv
  <2>3. UNCHANGED ClaimSeen
    BY <2>1, <2>2 DEF ClaimSeen
  <2>. QED
    BY <2>1, <2>3, ClientStill, AcknowledgedStays DEF seen
<1>4. CASE Reply(i)
  BY <1>4, ReplyRefines DEF Contract!ContractNext
<1>5. CASE Reject(i) \/ Timeout(i) \/ Break(i)
  <2>1. pc[i] \in Running /\ Fail(i)
    BY <1>5 DEF Reject, Timeout, Break, Running
  <2>2. Goto(i, "failed") /\ "failed" \in Over /\ UNCHANGED <<phase, client, bound, next>>
    BY <2>1 DEF Fail, session, Over
  <2>. QED
    BY <2>1, <2>2, EndRefines DEF Contract!ContractNext
<1>6. CASE Leave(i)
  <2>1. pc[i] \in Running /\ UNCHANGED <<phase, client, bound, next>>
    BY <1>6 DEF Leave, session, Running
  <2>2. "failed" \in Over /\ "returned" \in Over
    BY DEF Over
  <2>3. Goto(i, "returned") \/ Goto(i, "failed")
    BY <1>6 DEF Leave
  <2>4. Goto(i, "returned") => Contract!End
    BY <2>1, <2>2, EndRefines
  <2>5. Goto(i, "failed") => Contract!End
    BY <2>1, <2>2, EndRefines
  <2>. QED
    BY <2>3, <2>4, <2>5 DEF Contract!ContractNext
<1>. QED
  BY <1>1, <1>2, <1>3, <1>4, <1>5, <1>6 DEF Serve

\* Every step of the client, likewise.
LEMMA ClientRefines ==
    ASSUME HandoffInv, HandoffInv', ClientStep
    PROVE  Contract!ContractNext \/ UNCHANGED seen
<1>1. CASE ClientConnect
  <2>1. /\ client = "off" /\ client' = "sending" /\ server # NoServer
        /\ UNCHANGED <<pc, phase, server, bound, next>>
    BY <1>1 DEF ClientConnect, issuing
  <2>2. OwnerSeen = "away" /\ OwnerSeen' = "present" /\ ClaimSeen = "serving"
    BY <2>1 DEF OwnerSeen, ClaimSeen
  <2>3. UNCHANGED Passed
    BY <2>1 DEF Passed
  <2>. QED
    BY <2>1, <2>2, <2>3, IssuerStill DEF Contract!ContractNext, Contract!Arrive
<1>2. CASE ClientRefused \/ StrayThread
  BY <1>2, ClientStill, IssuerStill DEF ClientRefused, StrayThread, issuing, pipe, seen
<1>3. CASE Send \/ \E f \in Frame : Begin(f)
  <2>1. /\ client \in Alive /\ client' \in Alive
        /\ UNCHANGED <<pc, phase, server, bound, next>>
    BY <1>3 DEF Send, Begin, issuing, pipe, Alive
  <2>2. UNCHANGED OwnerSeen /\ UNCHANGED Passed
    BY <2>1 DEF OwnerSeen, Passed, Alive
  <2>. QED
    BY <2>1, <2>2, IssuerStill DEF seen
<1>4. CASE Accept
  BY <1>4, AcceptRefines DEF Contract!ContractNext
<1>5. CASE ClientTimeout \/ ClientClose
  <2>1. /\ client \in Alive /\ client' = "closed"
        /\ UNCHANGED <<pc, phase, server, bound, next>>
    BY <1>5 DEF ClientTimeout, ClientClose, CloseClient, issuing, Alive
  <2>2. OwnerSeen = "present" /\ OwnerSeen' = "gone" /\ UNCHANGED Passed
    BY <2>1 DEF OwnerSeen, Passed, Alive
  <2>. QED
    BY <2>1, <2>2, IssuerStill DEF Contract!ContractNext, Contract!Depart
<1>. QED
  BY <1>1, <1>2, <1>3, <1>4, <1>5 DEF ClientStep

\* The handoff implements its contract, for any number of issuers and any waits:
\* one claim acknowledges each milestone once, after the one before was passed,
\* and the client passes each once, after it was acknowledged.
THEOREM HandoffRefinement == Spec => ImplementsHandoffContract
<1>1. Init => Contract!ContractInit
  <2>1. ASSUME Init PROVE Contract!ContractInit
    <3>1. /\ client = "off" /\ ~bound
          /\ \A i \in Issuer : pc[i] \notin Serving \union Over
      BY <2>1 DEF Init, Serving, Over
    <3>2. ClaimSeen = "unclaimed" /\ Acknowledged = 0
      BY <2>1, <3>1, InitHandoffInv, SeenFacts DEF SeenIs
    <3>3. OwnerSeen = "away" /\ Passed = 0
      BY <3>1 DEF OwnerSeen, Passed
    <3>. QED
      BY <3>2, <3>3 DEF Contract!ContractInit
  <2>. QED
    BY <2>1
<1>2. HandoffInv /\ HandoffInv' /\ [Next]_vars => [Contract!ContractNext]_(Contract!promised)
  <2>1. ASSUME HandoffInv, HandoffInv', [Next]_vars PROVE Contract!ContractNext \/ UNCHANGED seen
    <3>1. CASE \E i \in Issuer : Claim(i) \/ Serve(i) \/ Break(i)
      BY <2>1, <3>1, IssuerRefines
    <3>2. CASE ClientStep
      BY <2>1, <3>2, ClientRefines
    <3>3. CASE Tick \/ CustodyChanges \/ WriterChanges \/ UNCHANGED vars
      BY <2>1, <3>3, ClientStill, IssuerStill DEF Tick, CustodyChanges, WriterChanges, vars,
         issuing, pipe, session, seen
    <3>. QED
      BY <2>1, <3>1, <3>2, <3>3 DEF Next
  <2>. QED
    BY <2>1 DEF seen, Contract!promised
<1>. QED
  BY <1>1, <1>2, InitHandoffInv, NextHandoffInv, PTL
     DEF Spec, ImplementsHandoffContract, Contract!ContractSpec

-----------------------------------------------------------------------------
(* A claim ends.  Once the deadline has passed nothing is verified any more, *)
(* so of a running claim only a few steps are left: reply to a frame that    *)
(* was checked in time, read one more, reject it.  Each is taken because it  *)
(* can be taken as soon as the wait before it has run out.                   *)

IsRunning(i) == pc[i] \in Running
IsOver(i) == pc[i] \in Over

\* The wait i may be in has run out.
Ripe(i) == pc[i] \in {"listening", "reading"} => age["issuer"] >= IoWait

\* Time passes: the deadline arrives, and no wait stays below its limit for ever.
\* Both follow from the fairness of Tick, by counting seconds.
DeadlineArrives == <>(remaining = 0)
WaitRunsOut(i) == []<>Ripe(i)
TimePasses == DeadlineArrives /\ \A i \in Issuer : WaitRunsOut(i)

ClocksInv ==
    /\ age \in [Side -> Nat]
    /\ remaining \in Nat
    /\ HandoffInv

LEMMA InitClocksInv == Init => ClocksInv
BY InitHandoffInv, WaitAssumption DEF Init, ClocksInv

LEMMA NextClocksInv == ClocksInv /\ [Next]_vars => ClocksInv'
<1>. SUFFICES ASSUME ClocksInv, [Next]_vars PROVE age' \in [Side -> Nat] /\ remaining' \in Nat
  BY NextHandoffInv DEF ClocksInv
<1>1. CASE Tick
  BY <1>1, WaitAssumption DEF ClocksInv, Tick, Smaller
<1>2. CASE CustodyChanges \/ WriterChanges \/ UNCHANGED vars
  BY <1>2 DEF ClocksInv, CustodyChanges, WriterChanges, vars, waiting
<1>3. CASE ClientStep
  BY <1>3 DEF ClientStep, ClientConnect, ClientRefused, Begin, Send, Accept, ClientTimeout,
     ClientClose, StrayThread, ClocksInv, Waits, waiting, world
<1>4. CASE \E i \in Issuer : Claim(i) \/ Serve(i) \/ Break(i)
  BY <1>4 DEF Claim, Serve, Break, Open, Connect, Read, VerifyCustody, ObserveWriter, Reply, Reject,
     Timeout, Leave, Fail, ClocksInv, Waits, waiting, world
<1>. QED
  BY <1>1, <1>2, <1>3, <1>4 DEF Next

\* Steps a running claim can still take after the deadline, at most.
StepsLeft(i) ==
    IF pc[i] = "claimed" THEN 6
    ELSE IF pc[i] = "listening" THEN 5
    ELSE IF pc[i] = "checking" /\ Needed(answering[i]) \subseteq checked[i] THEN 4
    ELSE IF pc[i] = "reading" THEN 3
    ELSE IF pc[i] = "checking" THEN 2
    ELSE IF pc[i] = "leaving" THEN 1
    ELSE 0
Within(i, k) == remaining = 0 /\ IsRunning(i) /\ StepsLeft(i) <= k

\* Only its own steps move a running claim.
LEMMA OthersLeave ==
    ASSUME ClocksInv, [Next]_vars, NEW i \in Issuer, IsRunning(i), ~Serve(i), ~IsOver(i)'
    PROVE  /\ pc'[i] = pc[i] /\ answering'[i] = answering[i] /\ checked'[i] = checked[i]
           /\ age'["issuer"] = age["issuer"] \/ Tick
<1>1. /\ pc \in [Issuer -> Running \union {"ready", "refused", "returned", "failed"}]
      /\ \A j \in Issuer : Attempted(j) /\ Attempted(i) => i = j
      /\ "issuer" \in Side /\ age \in [Side -> Nat]
  BY DEF ClocksInv, HandoffInv, AttemptInv, SingleAttempt, Side
<1>2. ASSUME NEW j \in Issuer, Claim(j) \/ Serve(j) \/ Break(j)
      PROVE  Claim(j) /\ j # i
  <2>1. Attempted(i)
    BY DEF IsRunning, Running, Attempted
  <2>2. Serve(j) \/ Break(j) => Attempted(j)
    BY DEF Serve, Break, Open, Connect, Read, VerifyCustody, ObserveWriter, Reply, Reject, Timeout,
       Leave, Attempted, Running
  <2>3. ~Break(i)
    BY <1>1 DEF Break, Fail, Goto, IsOver, Over
  <2>4. ~Claim(i)
    BY DEF Claim, IsRunning, Running
  <2>. QED
    BY <1>1, <1>2, <2>1, <2>2, <2>3, <2>4
<1>3. CASE \E j \in Issuer : Claim(j) \/ Serve(j) \/ Break(j)
  <2>1. PICK j \in Issuer : Claim(j) /\ j # i
    BY <1>2, <1>3
  <2>. QED
    BY <1>1, <2>1 DEF Claim, Goto, waiting
<1>4. CASE ClientStep
  <2>1. UNCHANGED issuing
    BY <1>4 DEF ClientStep, ClientConnect, ClientRefused, Begin, Send, Accept, ClientTimeout,
       ClientClose, StrayThread
  <2>2. age'["issuer"] = age["issuer"]
    BY <1>1, <1>4 DEF ClientStep, ClientConnect, ClientRefused, Begin, Send, Accept, ClientTimeout,
       ClientClose, StrayThread, Waits, waiting
  <2>. QED
    BY <2>1, <2>2 DEF issuing
<1>5. CASE Tick \/ CustodyChanges \/ WriterChanges \/ UNCHANGED vars
  BY <1>5 DEF Tick, CustodyChanges, WriterChanges, vars, issuing, waiting
<1>. QED
  BY <1>3, <1>4, <1>5 DEF Next

\* A wait that has run out stays so until the claim takes a step.
LEMMA RipeStays ==
    ASSUME NEW i \in Issuer
    PROVE  ClocksInv /\ IsRunning(i) /\ Ripe(i) /\ [Next]_vars =>
               Ripe(i)' \/ IsOver(i)' \/ <<Serve(i)>>_vars
<1>. SUFFICES ASSUME ClocksInv, IsRunning(i), Ripe(i), [Next]_vars, ~IsOver(i)',
                     ~Serve(i) \/ UNCHANGED vars
              PROVE  Ripe(i)'
  OBVIOUS
<1>1. /\ pc'[i] = pc[i]
      /\ age'["issuer"] = age["issuer"] \/ Tick
  BY OthersLeave DEF vars
<1>2. CASE Tick
  <2>1. age'["issuer"] = Smaller(age["issuer"] + 1, FrameWait) /\ age["issuer"] \in Nat
    BY <1>2 DEF Tick, Side, ClocksInv
  <2>. QED
    BY <1>1, <2>1, WaitAssumption DEF Ripe, Smaller
<1>. QED
  BY <1>1, <1>2 DEF Ripe

\* The seconds to the deadline only run down, and stay at none.
LEMMA RemainingStep == remaining = 0 /\ [Next]_vars => remaining' = 0
BY DEF Next, Claim, Serve, Break, Open, Connect, Read, VerifyCustody, ObserveWriter, Reply, Reject,
   Timeout, Leave, Fail, ClientStep, ClientConnect, ClientRefused, Begin, Send, Accept,
   ClientTimeout, ClientClose, StrayThread, Tick, CustodyChanges, WriterChanges, vars, world

\* A step of a running claim keeps it running or ends it.
LEMMA ServeGoesOn ==
    ASSUME ClocksInv, NEW i \in Issuer, Serve(i), ~IsOver(i)'
    PROVE  IsRunning(i)'
<1>1. pc \in [Issuer -> Running \union {"ready", "refused", "returned", "failed"}]
  BY DEF ClocksInv, HandoffInv, AttemptInv
<1>2. CASE VerifyCustody(i) \/ ObserveWriter(i)
  BY <1>2 DEF VerifyCustody, ObserveWriter, IsRunning, Running
<1>3. CASE Open(i) \/ Connect(i) \/ Read(i) \/ Reply(i)
  BY <1>1, <1>3 DEF Open, Connect, Read, Reply, Goto, IsRunning, Running
<1>4. CASE Reject(i) \/ Timeout(i) \/ Leave(i)
  BY <1>1, <1>4 DEF Reject, Timeout, Leave, Fail, Goto, IsOver, Over
<1>. QED
  BY <1>2, <1>3, <1>4 DEF Serve

\* After the deadline every step of a running claim is one of the last few.
LEMMA ServeAdvances ==
    ASSUME ClocksInv, remaining = 0, NEW i \in Issuer, Serve(i), IsRunning(i)'
    PROVE  StepsLeft(i)' < StepsLeft(i)
<1>1. pc \in [Issuer -> Running \union {"ready", "refused", "returned", "failed"}]
  BY DEF ClocksInv, HandoffInv, AttemptInv
<1>2. ~DeadlinePasses
  BY DEF DeadlinePasses
<1>3. CASE Open(i) \/ VerifyCustody(i) \/ ObserveWriter(i)
  BY <1>2, <1>3 DEF Open, VerifyCustody, ObserveWriter
<1>4. CASE Reject(i) \/ Timeout(i) \/ Leave(i)
  BY <1>1, <1>4 DEF Reject, Timeout, Leave, Fail, Goto, IsRunning, Running
<1>5. CASE Connect(i)
  BY <1>1, <1>5 DEF Connect, Goto, StepsLeft
<1>6. CASE Read(i)
  <2>1. pc[i] = "reading" /\ pc'[i] = "checking"
    BY <1>1, <1>6 DEF Read, Goto
  <2>2. checked'[i] = {} /\ "custody" \in Needed(answering'[i])
    BY <1>6 DEF Read, Needed, Evidence, ClocksInv, HandoffInv, ClaimInv
  <2>. QED
    BY <2>1, <2>2 DEF StepsLeft
<1>7. CASE Reply(i)
  <2>1. /\ pc[i] = "checking" /\ Needed(answering[i]) \subseteq checked[i]
        /\ pc'[i] \in {"leaving", "reading"}
    BY <1>1, <1>7 DEF Reply, Goto
  <2>. QED
    BY <2>1 DEF StepsLeft
<1>. QED
  BY <1>3, <1>4, <1>5, <1>6, <1>7 DEF Serve

\* One step of the countdown.
LEMMA Countdown ==
    ASSUME NEW i \in Issuer, NEW k \in Nat, NEW m \in Nat, m = k + 1
    PROVE  ClocksInv /\ Within(i, m) /\ [Next]_vars =>
               /\ Within(i, m)' \/ IsOver(i)'
               /\ <<Serve(i)>>_vars => Within(i, k)' \/ IsOver(i)'
<1>. SUFFICES ASSUME ClocksInv, Within(i, m), [Next]_vars, ~IsOver(i)'
              PROVE  Within(i, m)' /\ (<<Serve(i)>>_vars => Within(i, k)')
  OBVIOUS
<1>1. remaining = 0 /\ IsRunning(i) /\ StepsLeft(i) <= m
  BY DEF Within
<1>2. StepsLeft(i) \in 0 .. 6 /\ StepsLeft(i)' \in 0 .. 6
  BY DEF StepsLeft
<1>3. remaining' = 0
  BY <1>1, RemainingStep
<1>4. CASE Serve(i)
  <2>1. pc' \in [Issuer -> Running \union {"ready", "refused", "returned", "failed"}]
    BY NextClocksInv DEF ClocksInv, HandoffInv, AttemptInv
  <2>2. IsRunning(i)'
    BY <1>4, ServeGoesOn
  <2>3. StepsLeft(i)' < StepsLeft(i)
    BY <1>1, <1>4, <2>2, ServeAdvances
  <2>4. StepsLeft(i)' <= m /\ StepsLeft(i)' <= k
    BY <1>1, <1>2, <2>3
  <2>. QED
    BY <1>3, <2>2, <2>4 DEF Within
<1>5. CASE ~Serve(i)
  <2>1. pc'[i] = pc[i] /\ answering'[i] = answering[i] /\ checked'[i] = checked[i]
    BY <1>1, <1>5, OthersLeave
  <2>2. IsRunning(i)' /\ StepsLeft(i)' = StepsLeft(i)
    BY <1>1, <2>1 DEF IsRunning, StepsLeft
  <2>. QED
    BY <1>1, <1>3, <1>5, <2>2 DEF Within
<1>. QED
  BY <1>4, <1>5

\* A running claim runs on or is over.
LEMMA RunsOn ==
    ASSUME NEW i \in Issuer
    PROVE  ClocksInv /\ IsRunning(i) /\ [Next]_vars => IsRunning(i)' \/ IsOver(i)'
<1>. SUFFICES ASSUME ClocksInv, IsRunning(i), [Next]_vars, ~IsOver(i)' PROVE IsRunning(i)'
  OBVIOUS
<1>1. CASE ~Serve(i)
  BY <1>1, OthersLeave DEF IsRunning
<1>. QED
  BY <1>1, ServeGoesOn

CanServe(i) == IsRunning(i) /\ Ripe(i) => ENABLED <<Serve(i)>>_vars

\* Six steps at most, once the deadline has arrived.
LEMMA RunEnds ==
    ASSUME NEW i \in Issuer
    PROVE  Spec /\ KeepsRunning(i) /\ []CanServe(i) /\ DeadlineArrives /\ WaitRunsOut(i)
               => (IsRunning(i) ~> IsOver(i))
<1>1. ClocksInv /\ Within(i, 1) /\ [Next]_vars =>
          /\ Within(i, 1)' \/ IsOver(i)'
          /\ <<Serve(i)>>_vars => Within(i, 0)' \/ IsOver(i)'
  BY Countdown
<1>2. ClocksInv /\ Within(i, 2) /\ [Next]_vars =>
          /\ Within(i, 2)' \/ IsOver(i)'
          /\ <<Serve(i)>>_vars => Within(i, 1)' \/ IsOver(i)'
  BY Countdown
<1>3. ClocksInv /\ Within(i, 3) /\ [Next]_vars =>
          /\ Within(i, 3)' \/ IsOver(i)'
          /\ <<Serve(i)>>_vars => Within(i, 2)' \/ IsOver(i)'
  BY Countdown
<1>4. ClocksInv /\ Within(i, 4) /\ [Next]_vars =>
          /\ Within(i, 4)' \/ IsOver(i)'
          /\ <<Serve(i)>>_vars => Within(i, 3)' \/ IsOver(i)'
  BY Countdown
<1>5. ClocksInv /\ Within(i, 5) /\ [Next]_vars =>
          /\ Within(i, 5)' \/ IsOver(i)'
          /\ <<Serve(i)>>_vars => Within(i, 4)' \/ IsOver(i)'
  BY Countdown
<1>6. ClocksInv /\ Within(i, 6) /\ [Next]_vars =>
          /\ Within(i, 6)' \/ IsOver(i)'
          /\ <<Serve(i)>>_vars => Within(i, 5)' \/ IsOver(i)'
  BY Countdown
<1>7. /\ IsRunning(i) /\ remaining = 0 => Within(i, 6)
      /\ Within(i, 0) => FALSE
      /\ Within(i, 1) \/ Within(i, 2) \/ Within(i, 3) \/ Within(i, 4) \/ Within(i, 5) \/ Within(i, 6)
            => IsRunning(i)
  BY DEF Within, StepsLeft, IsRunning, Running
<1>8. remaining = 0 /\ [Next]_vars => (remaining = 0)'
  BY RemainingStep
<1>9. ClocksInv /\ IsRunning(i) /\ [Next]_vars => IsRunning(i)' \/ IsOver(i)'
  BY RunsOn
<1>10. ClocksInv /\ IsRunning(i) /\ Ripe(i) /\ [Next]_vars =>
           Ripe(i)' \/ IsOver(i)' \/ <<Serve(i)>>_vars
  BY RipeStays
<1>. QED
  BY <1>1, <1>2, <1>3, <1>4, <1>5, <1>6, <1>7, <1>8, <1>9, <1>10, InitClocksInv, NextClocksInv,
     PTL DEF Spec, KeepsRunning, CanServe, DeadlineArrives, WaitRunsOut

\* A claim ends, for any number of issuers and any waits, if time passes and the
\* issuer keeps running: from ClaimNeverStuck, which concerns ENABLED and is
\* model-checked.
THEOREM ClaimsEnd == FairSpec /\ []ClaimNeverStuck /\ TimePasses => ClaimEnds
<1>1. ASSUME NEW i \in Issuer
      PROVE  Spec /\ KeepsRunning(i) /\ []ClaimNeverStuck /\ DeadlineArrives /\ WaitRunsOut(i) =>
                 (pc[i] = "claimed" ~> pc[i] \in {"returned", "failed"})
  <2>1. ClaimNeverStuck /\ ClocksInv => CanServe(i)
    BY WaitAssumption DEF ClaimNeverStuck, CanServe, StillWaits, Ripe, IsRunning, ClocksInv, Side
  <2>2. Spec => []ClocksInv
    BY InitClocksInv, NextClocksInv, PTL DEF Spec
  <2>3. Spec /\ KeepsRunning(i) /\ []CanServe(i) /\ DeadlineArrives /\ WaitRunsOut(i)
            => (IsRunning(i) ~> IsOver(i))
    BY RunEnds
  <2>4. /\ pc[i] = "claimed" => IsRunning(i)
        /\ IsOver(i) <=> pc[i] \in {"returned", "failed"}
    BY DEF IsRunning, Running, IsOver, Over
  <2>. QED
    BY <2>1, <2>2, <2>3, <2>4, PTL
<1>2. FairSpec => Spec /\ (\A i \in Issuer : KeepsRunning(i))
  BY PTL DEF FairSpec
<1>. QED
  BY <1>1, <1>2 DEF TimePasses, ClaimEnds
=============================================================================
