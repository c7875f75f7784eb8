----------------------------- MODULE RunStatus -----------------------------
(***************************************************************************)
(* The lifecycle of a coordination run (status.py): callers of             *)
(* transition_status read status.json, check the requested transition      *)
(* against what they read, verify the decision a privileged transition     *)
(* needs, and replace the file.  No lock is taken, so each of these is a   *)
(* step of its own.                                                        *)
(***************************************************************************)
EXTENDS Naturals, Sequences

CONSTANTS
    \* Processes that call transition_status on the run.
    Caller,
    \* A bound of the model on the generations callers reach.
    MaxGeneration,
    \* No document read.
    NoDocument

ASSUME GenerationBound == MaxGeneration \in Nat \ {0}

VARIABLES
    \* The status.json document.
    status,
    \* Actions for which no accepted decision verifies at this moment.
    withdrawn,
    \* Where each caller is.
    pc,
    \* What each caller asked for and the document it read.
    call

vars == <<status, withdrawn, pc, call>>

LEGAL_TRANSITIONS ==
    [PLANNED |-> {"ADMITTED", "ABORTED"},
     ADMITTED |-> {"RUNNING", "ABORTED"},
     RUNNING |-> {"BLOCKED", "OWNER_ACTION_REQUIRED", "COMPLETE", "ABORTED"},
     BLOCKED |-> {"RUNNING", "OWNER_ACTION_REQUIRED", "ABORTED"},
     OWNER_ACTION_REQUIRED |-> {"RUNNING", "ABORTED"},
     COMPLETE |-> {},
     ABORTED |-> {}]

RunState == DOMAIN LEGAL_TRANSITIONS

\* The decision action a transition needs, none for most.
PRIVILEGED(from, to) ==
    CASE from = "PLANNED" /\ to = "ADMITTED" -> {"status:admit"}
      [] from \in {"BLOCKED", "OWNER_ACTION_REQUIRED"} /\ to = "RUNNING" -> {"status:resume"}
      [] OTHER -> {}

DecisionAction == {"status:admit", "status:resume"}
Generation == 1 .. MaxGeneration

\* "decision" tells which decision action the entry's decision_ref stands for.
HistoryEntry ==
    [from : RunState, to : RunState, generation : Generation,
     decision : SUBSET DecisionAction]

Document == [state : RunState, generation : Generation, history : Seq(HistoryEntry)]
Call == [target : RunState, expected_generation : Generation,
         read : Document \union {NoDocument}, decision : SUBSET DecisionAction]

TypeOK ==
    /\ status \in Document
    /\ withdrawn \subseteq DecisionAction
    /\ pc \in [Caller -> {"idle", "called", "loaded", "decided"}]
    /\ call \in [Caller -> Call]

\* init_run writes status.json at PLANNED, generation 1, without history.
Init ==
    /\ status = [state |-> "PLANNED", generation |-> 1, history |-> <<>>]
    /\ withdrawn = {}
    /\ pc = [c \in Caller |-> "idle"]
    /\ call = [c \in Caller |->
                  [target |-> "PLANNED", expected_generation |-> 1,
                   read |-> NoDocument, decision |-> {}]]

-----------------------------------------------------------------------------
Goto(c, label) == pc' = [pc EXCEPT ![c] = label]

Request(c) ==
    /\ pc[c] = "idle"
    /\ \E target \in RunState, g \in 1 .. MaxGeneration - 1 :
          call' = [call EXCEPT ![c] = [target |-> target, expected_generation |-> g,
                                       read |-> NoDocument, decision |-> {}]]
    /\ Goto(c, "called")
    /\ UNCHANGED <<status, withdrawn>>

\* Read the file and check the request against the copy.  (Faulty variant: the
\* graph is not checked.)
LoadAnyTarget(c) ==
    /\ pc[c] = "called"
    /\ status.generation = call[c].expected_generation
    /\ call' = [call EXCEPT ![c].read = status]
    /\ Goto(c, "loaded")
    /\ UNCHANGED <<status, withdrawn>>
Load(c) ==
    /\ pc[c] = "called"
    /\ call[c].target \in LEGAL_TRANSITIONS[status.state]
    /\ status.generation = call[c].expected_generation
    /\ call' = [call EXCEPT ![c].read = status]
    /\ Goto(c, "loaded")
    /\ UNCHANGED <<status, withdrawn>>

\* A privileged transition verifies its decision document.  (Faulty variant:
\* resuming needs none.)
DecideAdmissionOnly(c) ==
    LET required == PRIVILEGED(call[c].read.state, call[c].target) \ {"status:resume"}
    IN  /\ pc[c] = "loaded"
        /\ required \intersect withdrawn = {}
        /\ call' = [call EXCEPT ![c].decision = required]
        /\ Goto(c, "decided")
        /\ UNCHANGED <<status, withdrawn>>
Decide(c) ==
    LET required == PRIVILEGED(call[c].read.state, call[c].target)
    IN  /\ pc[c] = "loaded"
        /\ required \intersect withdrawn = {}
        /\ call' = [call EXCEPT ![c].decision = required]
        /\ Goto(c, "decided")
        /\ UNCHANGED <<status, withdrawn>>

\* write_json_atomic replaces the file with the updated copy.
Write(c) ==
    LET read == call[c].read
        entry == [from |-> read.state, to |-> call[c].target,
                  generation |-> call[c].expected_generation + 1,
                  decision |-> call[c].decision]
    IN  /\ pc[c] = "decided"
        /\ status' = [state |-> call[c].target,
                      generation |-> call[c].expected_generation + 1,
                      history |-> Append(read.history, entry)]
        /\ Goto(c, "idle")
        /\ call' = [call EXCEPT ![c].read = NoDocument]
        /\ UNCHANGED withdrawn

\* A check fails, I/O raises, or the caller dies: nothing is written.
Raise(c) ==
    /\ pc[c] # "idle"
    /\ Goto(c, "idle")
    /\ call' = [call EXCEPT ![c].read = NoDocument]
    /\ UNCHANGED <<status, withdrawn>>

\* Decisions are edited, superseded or accepted.
DecisionsChange ==
    /\ \E w \in SUBSET DecisionAction : w # withdrawn /\ withdrawn' = w
    /\ UNCHANGED <<status, pc, call>>

Next ==
    \/ \E c \in Caller : Request(c) \/ Load(c) \/ Decide(c) \/ Write(c) \/ Raise(c)
    \/ DecisionsChange

Spec == Init /\ [][Next]_vars

-----------------------------------------------------------------------------
\* A document whose history leads, entry by entry, from PLANNED to its state.
StateBefore(h, i) == IF i = 1 THEN "PLANNED" ELSE h[i - 1].to

EntryLegal(h, i) ==
    /\ h[i].from = StateBefore(h, i)
    /\ h[i].to \in LEGAL_TRANSITIONS[h[i].from]
    /\ h[i].generation = i + 1
    /\ h[i].decision = PRIVILEGED(h[i].from, h[i].to)

Replays(document) ==
    /\ \A i \in 1 .. Len(document.history) : EntryLegal(document.history, i)
    /\ document.generation = Len(document.history) + 1
    /\ document.state = StateBefore(document.history, Len(document.history) + 1)

\* The history of the status file replays: every entry is a legal transition to
\* the next generation, it starts where the one before ended, the last one is
\* where the document stands, and admissions and resumptions carry their
\* decision.  It holds of every version of the file, however callers race
\* (transition_status builds each version from one copy).
HistoryReplays == Replays(status)

\* A step of the file along the graph: one legal transition from what it held,
\* to the next generation, keeping the history it had.
FollowsGraph ==
    /\ status'.state \in LEGAL_TRANSITIONS[status.state]
    /\ status'.generation = status.generation + 1
    /\ SubSeq(status'.history, 1, Len(status.history)) = status.history

\* Legal graph and optimistic generation: whenever the file changes, it follows
\* the graph (what transition_status promises to its caller).
StatusFollowsGraph == [][status' # status => FollowsGraph]_vars

\* The weaker promise that the code keeps: a caller whose copy is still what the
\* file holds when it writes follows the graph, whoever else races.
CurrentCopyFollowsGraph ==
    [][\A c \in Caller :
          pc[c] = "decided" /\ status' # status /\ pc'[c] = "idle" /\ call[c].read = status
              => FollowsGraph]_vars
=============================================================================
