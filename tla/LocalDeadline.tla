--------------------------- MODULE LocalDeadline ---------------------------
(***************************************************************************)
(* The elapsed-time deadline of local_time.py.  Threads poll one object;   *)
(* each poll samples the host counters (interrupt time, unbiased interrupt *)
(* time, interrupt time again) under the object's lock and judges the      *)
(* sample against the anchor taken at construction and the last sample     *)
(* that passed.  The first doubt is latched for good.                      *)
(*                                                                         *)
(*   idle -> before -> unbiased -> after -> judging -> idle                *)
(***************************************************************************)
EXTENDS Integers

CONSTANTS
    \* Threads that share the object.
    Thread,
    \* Sampling uncertainty: TICKS_PER_SECOND // 50.
    Tolerance,
    \* Longest time between two passing samples: 5 * TICKS_PER_SECOND.
    MaxGap,
    \* Longest time from anchor to deadline, in ticks.
    Duration,
    \* Bounds of the model: the last tick, and counter faults.
    MaxTick, MaxRegressions,
    Free, NoHold

ASSUME TickAssumption ==
    Tolerance \in Nat /\ MaxGap \in Nat /\ Duration \in Nat /\ Tolerance < Duration
ASSUME FreeAssumption == Free \notin Thread

VARIABLES
    \* The host: interrupt time, how much of it was spent asleep, whether boot
    \* and process are still the ones of the anchor, counter faults so far.
    interrupt, slept, witness, regressions,
    \* LocalIntent: the anchor sample and the deadline.
    anchor, deadline,
    \* The last sample that passed, and the latched reason.
    last, hold,
    \* threading.Lock, and what each thread is doing and has sampled.
    lock, pc, sample

host == <<interrupt, slept, witness, regressions>>
intent == <<anchor, deadline>>
vars == <<interrupt, slept, witness, regressions, anchor, deadline, last, hold,
          lock, pc, sample>>

\* A HostSample.  "slept" is auxiliary: the host's sleep when "unbiased" was read.
HostSample ==
    [before : Nat, unbiased : Int, after : Nat, same_host : BOOLEAN, slept : Nat]

Hold ==
    {"INTENT_OR_CHECKPOINT", "READ_FAILED", "SAMPLE_UNCERTAIN", "HOST_CHANGED",
     "COUNTER_REGRESSION", "SUSPEND_OR_GAP", "EXPIRED", "INVALIDATED"}

ASSUME HoldAssumption == NoHold \notin Hold

TypeOK ==
    /\ interrupt \in Nat /\ slept \in Nat
    /\ witness \in BOOLEAN /\ regressions \in Nat
    /\ anchor \in HostSample /\ last \in HostSample /\ deadline \in Nat
    /\ hold \in Hold \union {NoHold}
    /\ lock \in Thread \union {Free}
    /\ pc \in [Thread -> {"idle", "before", "unbiased", "after", "judging"}]
    /\ sample \in [Thread -> HostSample]

\* HostSample.validate.
Valid(s) == s.unbiased <= s.after /\ s.before <= s.after /\ s.after - s.before <= Tolerance

\* The object is constructed: the anchor was read in at most Tolerance ticks,
\* the deadline is the duration or an earlier cap that is still ahead.
Init ==
    /\ \E width, middle, asleep \in 0 .. Tolerance :
          /\ asleep <= middle /\ middle <= width
          /\ anchor = [before |-> 0, unbiased |-> middle - asleep, after |-> width,
                       same_host |-> TRUE, slept |-> asleep]
          /\ interrupt = width
          /\ slept \in asleep .. asleep + (width - middle)
    /\ deadline \in anchor.after + 1 .. anchor.before + Duration
    /\ witness = TRUE
    /\ regressions = 0
    /\ last = anchor
    /\ hold = NoHold
    /\ lock = Free
    /\ pc = [t \in Thread |-> "idle"]
    /\ sample = [t \in Thread |-> anchor]

Goto(t, label) == pc' = [pc EXCEPT ![t] = label]

-----------------------------------------------------------------------------
(* check                                                                   *)

\* The lock is taken and no hold is latched; a latched hold is raised again
\* and changes nothing.  (Faulty variant: sampling does not wait for the lock.)
EnterRegardless(t) ==
    /\ pc[t] = "idle"
    /\ hold = NoHold
    /\ lock' = t
    /\ Goto(t, "before")
    /\ UNCHANGED <<host, intent, last, hold, sample>>
Enter(t) ==
    /\ pc[t] = "idle"
    /\ lock = Free
    /\ hold = NoHold
    /\ lock' = t
    /\ Goto(t, "before")
    /\ UNCHANGED <<host, intent, last, hold, sample>>

\* A step of the check raises: the reason is latched, the lock released.
Latch(t, reason) ==
    /\ hold' = reason
    /\ lock' = Free
    /\ Goto(t, "idle")
    /\ sample' = [sample EXCEPT ![t] = anchor]
    /\ UNCHANGED <<host, intent, last>>

WrongIntent(t) == pc[t] = "before" /\ Latch(t, "INTENT_OR_CHECKPOINT")

ReadFails(t) == pc[t] \in {"before", "unbiased", "after"} /\ Latch(t, "READ_FAILED")

ReadBefore(t) ==
    /\ pc[t] = "before"
    /\ sample' = [sample EXCEPT ![t].before = interrupt]
    /\ Goto(t, "unbiased")
    /\ UNCHANGED <<host, intent, last, hold, lock>>

ReadUnbiased(t) ==
    /\ pc[t] = "unbiased"
    /\ sample' = [sample EXCEPT ![t].unbiased = interrupt - slept, ![t].slept = slept]
    /\ Goto(t, "after")
    /\ UNCHANGED <<host, intent, last, hold, lock>>

\* The second interrupt time, then the boot and process witnesses.
ReadAfter(t) ==
    /\ pc[t] = "after"
    /\ sample' = [sample EXCEPT ![t].after = interrupt, ![t].same_host = witness]
    /\ Goto(t, "judging")
    /\ UNCHANGED <<host, intent, last, hold, lock>>

\* The sleep bias moved, as far as the sampling windows can tell.  (Faulty
\* variant: moved since the last sample that passed.)
BiasMovedSinceLast(s) ==
    \/ s.before - s.unbiased > last.after - last.unbiased + Tolerance
    \/ s.after - s.unbiased < last.before - last.unbiased - Tolerance
BiasMoved(s) ==
    \/ s.before - s.unbiased > anchor.after - anchor.unbiased + Tolerance
    \/ s.after - s.unbiased < anchor.before - anchor.unbiased - Tolerance

\* The checks in the code's order: the first that fails names the hold.
Finding(s) ==
    IF ~Valid(s) THEN "SAMPLE_UNCERTAIN"
    ELSE IF ~s.same_host THEN "HOST_CHANGED"
    ELSE IF s.before < last.after \/ s.unbiased < last.unbiased THEN "COUNTER_REGRESSION"
    ELSE IF s.after - last.before > MaxGap \/ BiasMoved(s) THEN "SUSPEND_OR_GAP"
    ELSE IF s.after >= deadline THEN "EXPIRED"
    ELSE NoHold

Reject(t) ==
    /\ pc[t] = "judging"
    /\ Finding(sample[t]) # NoHold
    /\ Latch(t, Finding(sample[t]))

Pass(t) ==
    /\ pc[t] = "judging"
    /\ Finding(sample[t]) = NoHold
    /\ last' = sample[t]
    /\ lock' = Free
    /\ Goto(t, "idle")
    /\ sample' = [sample EXCEPT ![t] = anchor]
    /\ UNCHANGED <<host, intent, hold>>

\* invalidate: waits for the lock; the first reason stays.  (Faulty variant:
\* the last one does.)
InvalidateAgain(t) ==
    /\ pc[t] = "idle"
    /\ lock = Free
    /\ hold' = "INVALIDATED"
    /\ UNCHANGED <<host, intent, last, lock, pc, sample>>
Invalidate(t) ==
    /\ pc[t] = "idle"
    /\ lock = Free
    /\ hold = NoHold
    /\ hold' = "INVALIDATED"
    /\ UNCHANGED <<host, intent, last, lock, pc, sample>>

-----------------------------------------------------------------------------
(* The host.                                                               *)

\* A tick passes, awake or asleep.
Tick ==
    /\ interrupt < MaxTick
    /\ interrupt' = interrupt + 1
    /\ slept' \in {slept, slept + 1}
    /\ UNCHANGED <<witness, regressions, intent, last, hold, lock, pc, sample>>

\* Another boot or process shows through the reader (fork, restored image).
HostChanges ==
    /\ witness
    /\ witness' = FALSE
    /\ UNCHANGED <<interrupt, slept, regressions, intent, last, hold, lock, pc, sample>>

\* The counters go back.
Regress ==
    /\ regressions < MaxRegressions
    /\ regressions' = regressions + 1
    /\ interrupt' \in slept .. interrupt - 1
    /\ UNCHANGED <<slept, witness, intent, last, hold, lock, pc, sample>>

-----------------------------------------------------------------------------
Check(t) ==
    \/ Enter(t) \/ WrongIntent(t) \/ ReadFails(t)
    \/ ReadBefore(t) \/ ReadUnbiased(t) \/ ReadAfter(t) \/ Reject(t) \/ Pass(t)

Next ==
    \/ \E t \in Thread : Check(t) \/ Invalidate(t)
    \/ Tick \/ HostChanges \/ Regress

Spec == Init /\ [][Next]_vars

-----------------------------------------------------------------------------
\* Sleep cannot be hidden from the deadline, not even in slices too short for
\* any one check: as long as the counters never went back, whoever passes does
\* so within three sampling tolerances of sleep since the anchor (check judges
\* the bias against the anchor, not against the last sample).
SleepBounded ==
    regressions = 0 => last.slept - anchor.slept <= 3 * Tolerance

\* Polling threads never make each other hold: a regression is reported only
\* when the counters really went back (the sample is read under the lock that
\* orders it with the last one).
RegressionIsReal ==
    hold = "COUNTER_REGRESSION" => regressions > 0

\* A hold is permanent, keeps its first reason, and nothing passes after it.
HoldLatched ==
    [][hold # NoHold => hold' = hold /\ last' = last]_vars
=============================================================================
