-------------------------- MODULE HandoffContract --------------------------
(***************************************************************************)
(* What the handoff promises to its two ends, without frames, checks or    *)
(* waits: one claim serves one session, once; the binding and the stages   *)
(* are acknowledged one at a time, each only after the previous one was    *)
(* passed and while the client is there; and the client passes each only   *)
(* after it was acknowledged, and is done after the last.                  *)
(***************************************************************************)
EXTENDS Naturals

CONSTANTS
    \* How many milestones there are: the binding and the stages.
    Milestones

VARIABLES
    \* The one claim of the retained intent; the owner of the session.
    claim, owner,
    \* Milestones acknowledged by the claim, and passed by the owner.
    acknowledged, passed

promised == <<claim, owner, acknowledged, passed>>

ContractInit == claim = "unclaimed" /\ owner = "away" /\ acknowledged = 0 /\ passed = 0

Serve ==
    /\ claim = "unclaimed"
    /\ claim' = "serving"
    /\ UNCHANGED <<owner, acknowledged, passed>>

\* The claim ends, or fails before it serves; it never serves again.
End ==
    /\ claim \in {"unclaimed", "serving"}
    /\ claim' = "over"
    /\ UNCHANGED <<owner, acknowledged, passed>>

Arrive ==
    /\ owner = "away" /\ claim = "serving"
    /\ owner' = "present"
    /\ UNCHANGED <<claim, acknowledged, passed>>

Acknowledge ==
    /\ claim = "serving" /\ owner = "present"
    /\ acknowledged = passed /\ passed < Milestones
    /\ acknowledged' = acknowledged + 1
    /\ UNCHANGED <<claim, owner, passed>>

\* The claim may be over by now: what it acknowledged still counts.
Pass ==
    /\ owner = "present" /\ acknowledged = passed + 1
    /\ passed' = passed + 1
    /\ owner' = IF passed' = Milestones THEN "gone" ELSE "present"
    /\ UNCHANGED <<claim, acknowledged>>

Depart ==
    /\ owner = "present"
    /\ owner' = "gone"
    /\ UNCHANGED <<claim, acknowledged, passed>>

ContractNext == Serve \/ End \/ Arrive \/ Acknowledge \/ Pass \/ Depart

ContractSpec == ContractInit /\ [][ContractNext]_promised
=============================================================================
