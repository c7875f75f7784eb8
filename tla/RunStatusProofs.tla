-------------------------- MODULE RunStatusProofs --------------------------
(***************************************************************************)
(* However many callers race, every version of the status file replays:    *)
(* the copy a caller works on replays, so what it writes does.             *)
(***************************************************************************)
EXTENDS RunStatus, TLAPS

\* What a caller knows of the copy it read.
CopyReplays ==
    \A c \in Caller : pc[c] \in {"loaded", "decided"} =>
        /\ call[c].read \in Document
        /\ Replays(call[c].read)
        /\ call[c].target \in LEGAL_TRANSITIONS[call[c].read.state]
        /\ call[c].read.generation = call[c].expected_generation
        /\ call[c].expected_generation < MaxGeneration
        /\ pc[c] = "decided" =>
              call[c].decision = PRIVILEGED(call[c].read.state, call[c].target)

\* A request leaves room for one more generation.
RequestBounded ==
    \A c \in Caller : pc[c] # "idle" => call[c].expected_generation < MaxGeneration

RInv == TypeOK /\ HistoryReplays /\ CopyReplays /\ RequestBounded

-----------------------------------------------------------------------------
\* A legal entry appended to a history that replays gives one that replays.
LEMMA AppendReplays ==
    ASSUME NEW read \in Document, Replays(read), NEW target \in RunState,
           target \in LEGAL_TRANSITIONS[read.state]
    PROVE  Replays([state |-> target, generation |-> read.generation + 1,
                    history |-> Append(read.history,
                        [from |-> read.state, to |-> target,
                         generation |-> read.generation + 1,
                         decision |-> PRIVILEGED(read.state, target)])])
<1>. DEFINE entry == [from |-> read.state, to |-> target,
                      generation |-> read.generation + 1,
                      decision |-> PRIVILEGED(read.state, target)]
            h == read.history
            n == Len(h)
            longer == Append(h, entry)
<1>1. h \in Seq(HistoryEntry) /\ n \in Nat
  BY DEF Document
<1>2. /\ Len(longer) = n + 1
      /\ longer[n + 1] = entry
      /\ \A i \in 1 .. n : longer[i] = h[i]
  BY <1>1
<1>3. read.generation = n + 1 /\ read.state = StateBefore(h, n + 1)
  BY DEF Replays
<1>4. \A i \in 1 .. n + 1 : StateBefore(longer, i) = StateBefore(h, i)
  BY <1>1, <1>2 DEF StateBefore
<1>5. \A i \in 1 .. n : EntryLegal(longer, i)
  BY <1>1, <1>2, <1>4 DEF Replays, EntryLegal
<1>6. EntryLegal(longer, n + 1)
  BY <1>1, <1>2, <1>3, <1>4 DEF EntryLegal
<1>7. StateBefore(longer, n + 2) = target
  BY <1>1, <1>2 DEF StateBefore
<1>. HIDE DEF longer
<1>8. \A i \in 1 .. Len(longer) : EntryLegal(longer, i)
  BY <1>1, <1>2, <1>5, <1>6
<1>9. /\ read.generation + 1 = Len(longer) + 1
      /\ target = StateBefore(longer, Len(longer) + 1)
  BY <1>1, <1>2, <1>3, <1>7
<1>10. Replays([state |-> target, generation |-> read.generation + 1, history |-> longer])
  BY <1>8, <1>9 DEF Replays
<1>. QED
  BY <1>10 DEF longer

LEMMA InitRInv == Init => RInv
<1>. SUFFICES ASSUME Init PROVE RInv
  OBVIOUS
<1>1. TypeOK
  BY GenerationBound DEF Init, TypeOK, Document, Call, Generation, RunState,
     LEGAL_TRANSITIONS, HistoryEntry
<1>2. HistoryReplays
  BY DEF Init, HistoryReplays, Replays, StateBefore
<1>3. CopyReplays /\ RequestBounded
  BY DEF Init, CopyReplays, RequestBounded
<1>. QED
  BY <1>1, <1>2, <1>3 DEF RInv

LEMMA NextRInv == RInv /\ [Next]_vars => RInv'
<1>. SUFFICES ASSUME RInv, [Next]_vars PROVE RInv'
  OBVIOUS
<1>. USE DEF Goto
<1>0. TypeOK /\ HistoryReplays /\ CopyReplays /\ RequestBounded
  BY DEF RInv
<1>1. ASSUME NEW c \in Caller, Request(c) PROVE RInv'
  <2>1. PICK target \in RunState, g \in 1 .. MaxGeneration - 1 :
           call' = [call EXCEPT ![c] = [target |-> target, expected_generation |-> g,
                                        read |-> NoDocument, decision |-> {}]]
    BY <1>1 DEF Request
  <2>2. /\ g \in Generation /\ g < MaxGeneration
        /\ [target |-> target, expected_generation |-> g,
            read |-> NoDocument, decision |-> {}] \in Call
    BY GenerationBound DEF Generation, Call
  <2>3. TypeOK'
    BY <1>0, <1>1, <2>1, <2>2 DEF TypeOK, Request
  <2>4. HistoryReplays' /\ CopyReplays' /\ RequestBounded'
    BY <1>0, <1>1, <2>1, <2>2 DEF TypeOK, Request, HistoryReplays, CopyReplays, RequestBounded
  <2>. QED
    BY <2>3, <2>4 DEF RInv
<1>2. ASSUME NEW c \in Caller, Load(c) PROVE RInv'
  <2>1. call' = [call EXCEPT ![c].read = status] /\ call[c] \in Call /\ status \in Document
    BY <1>0, <1>2 DEF Load, TypeOK
  <2>2. [call[c] EXCEPT !.read = status] \in Call
    BY <2>1 DEF Call
  <2>3. TypeOK'
    BY <1>0, <1>2, <2>1, <2>2 DEF Load, TypeOK
  <2>4. HistoryReplays' /\ RequestBounded'
    BY <1>0, <1>2, <2>1 DEF Load, HistoryReplays, RequestBounded, TypeOK, Call
  <2>5. CopyReplays'
    BY <1>0, <1>2, <2>1
       DEF Load, HistoryReplays, CopyReplays, RequestBounded, TypeOK, Call
  <2>. QED
    BY <2>3, <2>4, <2>5 DEF RInv
<1>3. ASSUME NEW c \in Caller, Decide(c) PROVE RInv'
  <2>. DEFINE required == PRIVILEGED(call[c].read.state, call[c].target)
  <2>1. call' = [call EXCEPT ![c].decision = required] /\ call[c] \in Call
    BY <1>0, <1>3 DEF Decide, TypeOK
  <2>2. required \subseteq DecisionAction
    BY DEF PRIVILEGED, DecisionAction
  <2>3. [call[c] EXCEPT !.decision = required] \in Call
    BY <2>1, <2>2 DEF Call
  <2>4. TypeOK'
    BY <1>0, <1>3, <2>1, <2>3 DEF Decide, TypeOK
  <2>5. HistoryReplays' /\ RequestBounded'
    BY <1>0, <1>3, <2>1 DEF Decide, HistoryReplays, RequestBounded, TypeOK, Call
  <2>6. CopyReplays'
    BY <1>0, <1>3, <2>1 DEF Decide, CopyReplays, TypeOK, Call
  <2>. QED
    BY <2>4, <2>5, <2>6 DEF RInv
<1>4. ASSUME NEW c \in Caller, Write(c) PROVE RInv'
  <2>. DEFINE read == call[c].read
              entry == [from |-> read.state, to |-> call[c].target,
                        generation |-> read.generation + 1,
                        decision |-> PRIVILEGED(read.state, call[c].target)]
  <2>1. /\ read \in Document /\ Replays(read) /\ call[c].target \in RunState
        /\ call[c].target \in LEGAL_TRANSITIONS[read.state]
        /\ read.generation = call[c].expected_generation
        /\ read.generation < MaxGeneration
        /\ call[c].decision = PRIVILEGED(read.state, call[c].target)
    BY <1>0, <1>4 DEF Write, CopyReplays, TypeOK, Call
  <2>2. status' = [state |-> call[c].target, generation |-> read.generation + 1,
                   history |-> Append(read.history, entry)]
    BY <1>4, <2>1 DEF Write
  <2>3. HistoryReplays'
    BY <2>1, <2>2, AppendReplays DEF HistoryReplays
  <2>4. read.generation + 1 \in Generation
    BY <2>1, GenerationBound DEF Document, Generation
  <2>5. entry \in HistoryEntry
    BY <2>1, <2>4 DEF HistoryEntry, Document, PRIVILEGED, DecisionAction
  <2>6. status' \in Document
    BY <2>1, <2>2, <2>4, <2>5 DEF Document
  <2>7. call' = [call EXCEPT ![c].read = NoDocument] /\ call[c] \in Call
    BY <1>0, <1>4 DEF Write, TypeOK
  <2>8. [call[c] EXCEPT !.read = NoDocument] \in Call
    BY <2>7 DEF Call
  <2>9. TypeOK'
    BY <1>0, <1>4, <2>6, <2>7, <2>8 DEF Write, TypeOK
  <2>10. CopyReplays' /\ RequestBounded'
    BY <1>0, <1>4, <2>7 DEF Write, CopyReplays, RequestBounded, TypeOK, Call
  <2>. QED
    BY <2>3, <2>9, <2>10 DEF RInv
<1>5. ASSUME NEW c \in Caller, Raise(c) PROVE RInv'
  <2>1. call' = [call EXCEPT ![c].read = NoDocument] /\ call[c] \in Call
    BY <1>0, <1>5 DEF Raise, TypeOK
  <2>2. [call[c] EXCEPT !.read = NoDocument] \in Call
    BY <2>1 DEF Call
  <2>3. TypeOK'
    BY <1>0, <1>5, <2>1, <2>2 DEF Raise, TypeOK
  <2>4. HistoryReplays' /\ CopyReplays' /\ RequestBounded'
    BY <1>0, <1>5, <2>1 DEF Raise, HistoryReplays, CopyReplays, RequestBounded, TypeOK, Call
  <2>. QED
    BY <2>3, <2>4 DEF RInv
<1>6. CASE DecisionsChange
  BY <1>0, <1>6 DEF DecisionsChange, RInv, TypeOK, HistoryReplays, CopyReplays, RequestBounded
<1>7. CASE UNCHANGED vars
  BY <1>0, <1>7 DEF vars, RInv, TypeOK, HistoryReplays, CopyReplays, RequestBounded
<1>. QED
  BY <1>1, <1>2, <1>3, <1>4, <1>5, <1>6, <1>7 DEF Next

\* Every version of status.json replays from PLANNED, for any number of callers
\* racing on the file.
THEOREM EveryVersionReplays == Spec => []HistoryReplays
<1>1. RInv => HistoryReplays
  BY DEF RInv
<1>. QED
  BY <1>1, InitRInv, NextRInv, PTL DEF Spec

\* A write from a copy that is still the file's content follows the graph, for
\* any number of callers: only a stale copy can undo another transition.
THEOREM CurrentCopies == Spec => CurrentCopyFollowsGraph
<1>1. RInv /\ [Next]_vars =>
        [\A c \in Caller :
            pc[c] = "decided" /\ status' # status /\ pc'[c] = "idle" /\ call[c].read = status
                => FollowsGraph]_vars
  <2>1. SUFFICES ASSUME RInv, Next, NEW c \in Caller, pc[c] = "decided",
                        status' # status, pc'[c] = "idle", call[c].read = status
                 PROVE  FollowsGraph
    BY DEF vars
  <2>2. Write(c)
    <3>1. PICK d \in Caller : Write(d)
      BY <2>1 DEF Next, Request, Load, Decide, Raise, DecisionsChange
    <3>2. d = c
      BY <2>1, <3>1 DEF Write, Goto, RInv, TypeOK
    <3>. QED
      BY <3>1, <3>2
  <2>. DEFINE entry == [from |-> status.state, to |-> call[c].target,
                        generation |-> call[c].expected_generation + 1,
                        decision |-> call[c].decision]
  <2>3. /\ status \in Document
        /\ call[c].target \in LEGAL_TRANSITIONS[status.state]
        /\ status.generation = call[c].expected_generation
    BY <2>1 DEF RInv, TypeOK, CopyReplays
  <2>4. status' = [state |-> call[c].target, generation |-> status.generation + 1,
                   history |-> Append(status.history, entry)]
    BY <2>1, <2>2, <2>3 DEF Write
  <2>5. status.history \in Seq(HistoryEntry)
    BY <2>3 DEF Document
  <2>6. SubSeq(Append(status.history, entry), 1, Len(status.history)) = status.history
    BY <2>5
  <2>. QED
    BY <2>3, <2>4, <2>6 DEF FollowsGraph
<1>. QED
  BY <1>1, InitRInv, NextRInv, PTL DEF Spec, CurrentCopyFollowsGraph
=============================================================================
