------------------------ MODULE LocalDeadlineProofs ------------------------
(* Theorems about LocalDeadline, for any number of polling threads, any     *)
(* tolerance, gap and duration, and a host that runs for ever.              *)
EXTENDS LocalDeadline, TLAPS

\* Sampling is exclusive, and it only happens while nothing is latched.
Exclusive ==
    \A t \in Thread : pc[t] # "idle" => lock = t /\ hold = NoHold

\* The anchor reading encloses the instant its unbiased time was read.
AnchorEncloses ==
    /\ anchor.before <= anchor.unbiased + anchor.slept
    /\ anchor.unbiased + anchor.slept <= anchor.after
    /\ anchor.after - anchor.before <= Tolerance

\* Counters that never went back: the last sample is behind the host.
LastBehind ==
    regressions = 0 =>
        last.after <= interrupt /\ last.unbiased + slept <= interrupt

\* ... and a sample in the making lies between the last one and the host.
SampleBetween ==
    regressions = 0 => \A t \in Thread :
        /\ pc[t] \in {"unbiased", "after", "judging"} =>
              last.after <= sample[t].before /\ sample[t].before <= interrupt
        /\ pc[t] \in {"after", "judging"} =>
              /\ last.unbiased <= sample[t].unbiased
              /\ sample[t].unbiased + slept <= interrupt
              /\ sample[t].before <= sample[t].unbiased + sample[t].slept
              /\ sample[t].unbiased + sample[t].slept <= interrupt
        /\ pc[t] = "judging" =>
              /\ sample[t].unbiased + sample[t].slept <= sample[t].after
              /\ sample[t].after <= interrupt

IInv ==
    /\ TypeOK
    /\ Exclusive
    /\ AnchorEncloses
    /\ LastBehind
    /\ SampleBetween
    /\ SleepBounded
    /\ RegressionIsReal

-----------------------------------------------------------------------------
\* A finding is one of the reasons, or none.
LEMMA FindingTyped == ASSUME NEW s PROVE Finding(s) \in Hold \union {NoHold}
BY DEF Finding, Hold

\* A sample that passes is valid, shows no sleep the windows do not hide, and
\* is not behind the last one.
LEMMA PassingSample ==
    ASSUME NEW s, Finding(s) = NoHold
    PROVE  /\ Valid(s) /\ ~BiasMoved(s)
           /\ ~(s.before < last.after) /\ ~(s.unbiased < last.unbiased)
BY HoldAssumption DEF Finding, Hold

\* Only a sample behind the last one is reported as a regression.
LEMMA RegressionFinding ==
    ASSUME NEW s, Finding(s) = "COUNTER_REGRESSION"
    PROVE  s.before < last.after \/ s.unbiased < last.unbiased
BY HoldAssumption DEF Finding, Hold

-----------------------------------------------------------------------------
\* The constructor establishes the invariant.
LEMMA Initially == Init => IInv
<1>1. SUFFICES ASSUME Init PROVE IInv
  OBVIOUS
<1>2. PICK width, middle, asleep \in 0 .. Tolerance :
        /\ asleep <= middle /\ middle <= width
        /\ anchor = [before |-> 0, unbiased |-> middle - asleep, after |-> width,
                     same_host |-> TRUE, slept |-> asleep]
        /\ interrupt = width
        /\ slept \in asleep .. asleep + (width - middle)
  BY <1>1 DEF Init
<1>3. anchor \in HostSample
  BY <1>2, TickAssumption DEF HostSample
<1>4. TypeOK
  BY <1>1, <1>2, <1>3, TickAssumption DEF Init, TypeOK, HostSample
<1>5. Exclusive /\ SampleBetween /\ RegressionIsReal
  BY <1>1, HoldAssumption DEF Init, Exclusive, SampleBetween, RegressionIsReal, Hold
<1>6. AnchorEncloses /\ LastBehind /\ SleepBounded
  BY <1>1, <1>2, TickAssumption DEF Init, AnchorEncloses, LastBehind, SleepBounded
<1> QED
  BY <1>4, <1>5, <1>6 DEF IInv

\* Every step keeps the types.
LEMMA TypeStep == TypeOK /\ [Next]_vars => TypeOK'
<1>0. SUFFICES ASSUME TypeOK, [Next]_vars PROVE TypeOK'
  OBVIOUS
<1>1. ASSUME NEW t \in Thread, NEW reason \in Hold, Latch(t, reason) PROVE TypeOK'
  BY <1>0, <1>1 DEF Latch, TypeOK, Goto, host, intent
<1>2. ASSUME NEW t \in Thread, Enter(t) \/ Invalidate(t) PROVE TypeOK'
  BY <1>0, <1>2 DEF Enter, Invalidate, TypeOK, Goto, host, intent, Hold
<1>3. ASSUME NEW t \in Thread, WrongIntent(t) \/ ReadFails(t) PROVE TypeOK'
  BY <1>1, <1>3 DEF WrongIntent, ReadFails, Hold
<1>4. ASSUME NEW t \in Thread, ReadBefore(t) \/ ReadUnbiased(t) \/ ReadAfter(t) PROVE TypeOK'
  <2>1. sample' \in [Thread -> HostSample]
    BY <1>0, <1>4 DEF ReadBefore, ReadUnbiased, ReadAfter, TypeOK, HostSample
  <2> QED
    BY <1>0, <1>4, <2>1 DEF ReadBefore, ReadUnbiased, ReadAfter, TypeOK, Goto, host, intent
<1>5. ASSUME NEW t \in Thread, Reject(t) PROVE TypeOK'
  BY <1>1, <1>5, FindingTyped DEF Reject
<1>6. ASSUME NEW t \in Thread, Pass(t) PROVE TypeOK'
  BY <1>0, <1>6 DEF Pass, TypeOK, Goto, host, intent
<1>7. CASE Tick
  BY <1>0, <1>7 DEF Tick, TypeOK, intent
<1>8. CASE HostChanges
  <2>1. witness' \in BOOLEAN
    BY <1>8, Zenon DEF HostChanges
  <2>2. UNCHANGED <<interrupt, slept, regressions, anchor, deadline, last, hold, lock, pc, sample>>
    BY <1>8, Zenon DEF HostChanges, intent
  <2> QED
    BY <1>0, <2>1, <2>2 DEF TypeOK
<1>9. CASE Regress
  BY <1>0, <1>9 DEF Regress, TypeOK, intent
<1>10. CASE UNCHANGED vars
  BY <1>0, <1>10 DEF vars, TypeOK
<1> QED
  BY <1>0, <1>2, <1>3, <1>4, <1>5, <1>6, <1>7, <1>8, <1>9, <1>10 DEF Next, Check

\* Every step keeps the sampling exclusive.
LEMMA ExclusiveStep == TypeOK /\ Exclusive /\ [Next]_vars => Exclusive'
<1>0. SUFFICES ASSUME TypeOK, Exclusive, [Next]_vars PROVE Exclusive'
  OBVIOUS
<1>1. ASSUME NEW t \in Thread, NEW reason, pc[t] # "idle", Latch(t, reason) PROVE Exclusive'
  BY <1>0, <1>1 DEF Latch, Goto, TypeOK, Exclusive
<1>2. ASSUME NEW t \in Thread, Enter(t) \/ Invalidate(t) PROVE Exclusive'
  BY <1>0, <1>2, FreeAssumption DEF Enter, Invalidate, Goto, TypeOK, Exclusive
<1>3. ASSUME NEW t \in Thread, WrongIntent(t) \/ ReadFails(t) \/ Reject(t) PROVE Exclusive'
  BY <1>1, <1>3 DEF WrongIntent, ReadFails, Reject
<1>4. ASSUME NEW t \in Thread, ReadBefore(t) \/ ReadUnbiased(t) \/ ReadAfter(t) PROVE Exclusive'
  BY <1>0, <1>4 DEF ReadBefore, ReadUnbiased, ReadAfter, Goto, TypeOK, Exclusive
<1>5. ASSUME NEW t \in Thread, Pass(t) PROVE Exclusive'
  BY <1>0, <1>5 DEF Pass, Goto, TypeOK, Exclusive
<1>6. CASE Tick \/ HostChanges \/ Regress \/ UNCHANGED vars
  BY <1>0, <1>6 DEF Tick, HostChanges, Regress, vars, Exclusive
<1> QED
  BY <1>0, <1>2, <1>3, <1>4, <1>5, <1>6 DEF Next, Check

\* Every step keeps the samples in order while the counters do not go back.
LEMMA OrderStep ==
    TypeOK /\ Exclusive /\ LastBehind /\ SampleBetween /\ [Next]_vars
        => LastBehind' /\ SampleBetween'
<1>0. SUFFICES ASSUME TypeOK, Exclusive, LastBehind, SampleBetween, [Next]_vars
               PROVE  LastBehind' /\ SampleBetween'
  OBVIOUS
<1>1. ASSUME NEW t \in Thread, NEW reason, Latch(t, reason)
      PROVE  LastBehind' /\ SampleBetween'
  BY <1>0, <1>1 DEF Latch, Goto, host, intent, TypeOK, LastBehind, SampleBetween
<1>2. ASSUME NEW t \in Thread, Enter(t) \/ Invalidate(t) PROVE LastBehind' /\ SampleBetween'
  BY <1>0, <1>2 DEF Enter, Invalidate, Goto, host, intent, TypeOK, LastBehind, SampleBetween
<1>3. ASSUME NEW t \in Thread, WrongIntent(t) \/ ReadFails(t) \/ Reject(t)
      PROVE  LastBehind' /\ SampleBetween'
  BY <1>1, <1>3 DEF WrongIntent, ReadFails, Reject
<1>4. ASSUME NEW t \in Thread, ReadBefore(t) \/ ReadUnbiased(t) \/ ReadAfter(t)
      PROVE  LastBehind' /\ SampleBetween'
  <2>1. LastBehind'
    BY <1>0, <1>4 DEF ReadBefore, ReadUnbiased, ReadAfter, host, LastBehind
  <2>2. CASE ReadBefore(t)
    BY <1>0, <2>1, <2>2 DEF ReadBefore, Goto, host, TypeOK, HostSample, LastBehind, SampleBetween
  <2>3. CASE ReadUnbiased(t)
    BY <1>0, <2>1, <2>3 DEF ReadUnbiased, Goto, host, TypeOK, HostSample, LastBehind, SampleBetween
  <2>4. CASE ReadAfter(t)
    BY <1>0, <2>1, <2>4 DEF ReadAfter, Goto, host, TypeOK, HostSample, LastBehind, SampleBetween
  <2> QED
    BY <1>4, <2>1, <2>2, <2>3, <2>4
<1>5. ASSUME NEW t \in Thread, Pass(t) PROVE LastBehind' /\ SampleBetween'
  <2>1. \A u \in Thread : pc'[u] = "idle"
    BY <1>0, <1>5 DEF Pass, Goto, TypeOK, Exclusive
  <2>2. SampleBetween'
    BY <2>1 DEF SampleBetween
  <2>3. LastBehind'
    BY <1>0, <1>5 DEF Pass, host, LastBehind, SampleBetween
  <2> QED
    BY <2>2, <2>3
<1>6. CASE Tick
  <2>1. UNCHANGED <<regressions, last, pc, sample>>
    BY <1>6 DEF Tick
  <2>2. interrupt' = interrupt + 1 /\ (slept' = slept \/ slept' = slept + 1)
    BY <1>6 DEF Tick
  <2>3. interrupt \in Nat /\ slept \in Nat
    BY <1>0 DEF TypeOK
  <2>4. LastBehind'
    <3>1. last.after \in Nat /\ last.unbiased \in Int
      BY <1>0 DEF TypeOK, HostSample
    <3> QED
      BY <1>0, <2>1, <2>2, <2>3, <3>1 DEF LastBehind
  <2>5. SampleBetween'
    <3>1. \A t \in Thread : /\ sample[t].before \in Nat /\ sample[t].unbiased \in Int
                            /\ sample[t].after \in Nat /\ sample[t].slept \in Nat
      BY <1>0 DEF TypeOK, HostSample
    <3> QED
      BY <1>0, <2>1, <2>2, <2>3, <3>1 DEF SampleBetween
  <2> QED
    BY <2>4, <2>5
<1>7. CASE Regress
  <2>1. regressions' # 0
    BY <1>0, <1>7 DEF Regress, TypeOK
  <2> QED
    BY <2>1 DEF LastBehind, SampleBetween
<1>8. CASE HostChanges \/ UNCHANGED vars
  BY <1>0, <1>8 DEF HostChanges, vars, LastBehind, SampleBetween
<1> QED
  BY <1>0, <1>2, <1>3, <1>4, <1>5, <1>6, <1>7, <1>8 DEF Next, Check

\* Counter faults are only ever added.
LEMMA RegressionsGrow == TypeOK /\ [Next]_vars => (regressions' = 0 => regressions = 0)
                                                /\ (regressions > 0 => regressions' > 0)
<1>1. SUFFICES ASSUME TypeOK, [Next]_vars PROVE regressions' \in {regressions, regressions + 1}
  BY DEF TypeOK
<1>2. CASE Regress
  BY <1>2 DEF Regress
<1>3. CASE Tick \/ HostChanges \/ UNCHANGED vars
  BY <1>3 DEF Tick, HostChanges, vars
<1>4. ASSUME NEW t \in Thread, Check(t) \/ Invalidate(t) PROVE regressions' = regressions
  BY <1>4 DEF Check, Enter, WrongIntent, ReadFails, Latch, ReadBefore, ReadUnbiased,
     ReadAfter, Reject, Pass, Invalidate, host
<1> QED
  BY <1>1, <1>2, <1>3, <1>4 DEF Next

\* Every step keeps the bound on hidden sleep.
LEMMA SleepStep ==
    IInv /\ [Next]_vars => AnchorEncloses' /\ SleepBounded'
<1>0. SUFFICES ASSUME IInv, [Next]_vars PROVE AnchorEncloses' /\ SleepBounded'
  OBVIOUS
<1>1. anchor' = anchor
  BY <1>0 DEF Next, Check, Enter, WrongIntent, ReadFails, Latch, ReadBefore, ReadUnbiased,
     ReadAfter, Reject, Pass, Invalidate, Tick, HostChanges, Regress, vars, intent
<1>2. AnchorEncloses'
  BY <1>0, <1>1 DEF IInv, AnchorEncloses
<1>3. ASSUME NEW t \in Thread, Pass(t), regressions = 0
      PROVE  sample[t].slept - anchor.slept <= 3 * Tolerance
  <2>1. Valid(sample[t]) /\ ~BiasMoved(sample[t])
    BY <1>3, PassingSample DEF Pass
  <2>2. pc[t] = "judging"
    BY <1>3 DEF Pass
  <2>3. sample[t] \in HostSample /\ anchor \in HostSample
    BY <1>0 DEF IInv, TypeOK
  <2>4. /\ sample[t].unbiased + sample[t].slept <= sample[t].after
        /\ sample[t].before <= sample[t].unbiased + sample[t].slept
    BY <1>0, <1>3, <2>2 DEF IInv, SampleBetween
  <2>5. /\ sample[t].after - sample[t].before <= Tolerance
        /\ ~(sample[t].before - sample[t].unbiased
                > anchor.after - anchor.unbiased + Tolerance)
    BY <2>1 DEF Valid, BiasMoved
  <2> QED
    BY <1>0, <2>3, <2>4, <2>5, TickAssumption DEF IInv, AnchorEncloses, HostSample
<1>4. ASSUME last' = last PROVE SleepBounded'
  BY <1>0, <1>1, <1>4, RegressionsGrow DEF IInv, SleepBounded
<1>5. ASSUME NEW t \in Thread, Pass(t) PROVE SleepBounded'
  BY <1>1, <1>3, <1>5 DEF Pass, host, SleepBounded
<1>6. last' = last \/ \E t \in Thread : Pass(t)
  BY <1>0 DEF Next, Check, Enter, WrongIntent, ReadFails, Latch, ReadBefore, ReadUnbiased,
     ReadAfter, Reject, Invalidate, Tick, HostChanges, Regress, vars
<1> QED
  BY <1>2, <1>4, <1>5, <1>6

\* Every step keeps reported regressions real.
LEMMA RegressionStep == IInv /\ [Next]_vars => RegressionIsReal'
<1>0. SUFFICES ASSUME IInv, [Next]_vars PROVE RegressionIsReal'
  OBVIOUS
<1>1. CASE hold' = hold
  BY <1>0, <1>1, RegressionsGrow DEF IInv, RegressionIsReal, TypeOK
<1>2. ASSUME NEW t \in Thread, Reject(t) PROVE RegressionIsReal'
  <2>1. SUFFICES ASSUME Finding(sample[t]) = "COUNTER_REGRESSION", regressions = 0
                 PROVE  FALSE
    BY <1>0, <1>2 DEF Reject, Latch, host, RegressionIsReal, IInv, TypeOK
  <2>2. sample[t].before < last.after \/ sample[t].unbiased < last.unbiased
    BY <2>1, RegressionFinding
  <2>3. last.after <= sample[t].before /\ last.unbiased <= sample[t].unbiased
    BY <1>0, <1>2, <2>1 DEF IInv, SampleBetween, Reject
  <2>4. sample[t] \in HostSample /\ last \in HostSample
    BY <1>0 DEF IInv, TypeOK
  <2> QED
    BY <2>2, <2>3, <2>4 DEF HostSample
<1>3. CASE hold' \in {"INTENT_OR_CHECKPOINT", "READ_FAILED", "INVALIDATED"}
  BY <1>3 DEF RegressionIsReal
<1>4. \/ hold' = hold
      \/ hold' \in {"INTENT_OR_CHECKPOINT", "READ_FAILED", "INVALIDATED"}
      \/ \E t \in Thread : Reject(t)
  BY <1>0 DEF Next, Check, Enter, WrongIntent, ReadFails, Latch, ReadBefore, ReadUnbiased,
     ReadAfter, Pass, Invalidate, Tick, HostChanges, Regress, vars, host
<1> QED
  BY <1>1, <1>2, <1>3, <1>4

-----------------------------------------------------------------------------
\* The inductive invariant holds in every reachable state.
THEOREM Invariance == Spec => []IInv
<1>1. IInv /\ [Next]_vars => IInv'
  BY TypeStep, ExclusiveStep, OrderStep, SleepStep, RegressionStep DEF IInv
<1> QED
  BY Initially, <1>1, PTL DEF Spec

\* Whatever the number of threads and the width of the tolerance, sleep hidden
\* from the deadline stays below three tolerances (LocalDeadline.check).
THEOREM SleepIsBounded == Spec => []SleepBounded
<1>1. IInv => SleepBounded
  BY DEF IInv
<1> QED
  BY Invariance, <1>1, PTL

\* Concurrent pollers never latch a regression that did not happen.
THEOREM RegressionsAreReal == Spec => []RegressionIsReal
<1>1. IInv => RegressionIsReal
  BY DEF IInv
<1> QED
  BY Invariance, <1>1, PTL

\* A latched hold is final: it keeps its reason and no sample passes after it.
THEOREM HoldIsFinal == Spec => HoldLatched
<1>1. IInv /\ [Next]_vars => [hold # NoHold => hold' = hold /\ last' = last]_vars
  <2>1. SUFFICES ASSUME IInv, [Next]_vars, hold # NoHold PROVE hold' = hold /\ last' = last
    OBVIOUS
  <2>2. \A t \in Thread : pc[t] = "idle"
    BY <2>1 DEF IInv, Exclusive
  <2>3. CASE UNCHANGED vars
    BY <2>3 DEF vars
  <2>4. CASE Tick \/ HostChanges \/ Regress
    BY <2>4 DEF Tick, HostChanges, Regress
  <2>5. ASSUME NEW t \in Thread, Check(t) \/ Invalidate(t) PROVE FALSE
    BY <2>1, <2>2, <2>5 DEF Check, Enter, WrongIntent, ReadFails, ReadBefore, ReadUnbiased,
       ReadAfter, Reject, Pass, Invalidate
  <2> QED
    BY <2>1, <2>3, <2>4, <2>5 DEF Next
<1> QED
  BY Invariance, <1>1, PTL DEF Spec, HoldLatched
=============================================================================
