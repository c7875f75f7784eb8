------------------------- MODULE WriterGuardProofs -------------------------
(***************************************************************************)
(* Until an operator removes the lock of a live process, the guard        *)
(* freezes the worktree: for every number of lock files, admissions and    *)
(* Git commands, what an admission verified is still true when it          *)
(* publishes.                                                              *)
(***************************************************************************)
EXTENDS WriterGuard, TLAPS

\* A lock an admission created is still its own.
HandlesOwned == \A a \in Admission : \A f \in handles[a] : lockFile[f] = a

\* How many locks an admission has, by where it is.
HandlesComplete ==
    \A a \in Admission :
        /\ pc[a] = "locking" => at[a] \in LockFile /\ handles[a] = 1 .. at[a] - 1
        /\ pc[a] \in Guarding => handles[a] = LockFile
        /\ pc[a] \in {"validating", "revalidating"} => at[a] \in LockFile
        /\ pc[a] = "idle" => handles[a] = {}
        /\ pc[a] \in {"cleanup", "unlinking"} =>
              at[a] \in 0 .. LockCount /\ handles[a] \subseteq 1 .. at[a]
        /\ pc[a] = "unlinking" => at[a] \in handles[a]

\* The parts verified so far are the bound ones.
PartsVerified ==
    \A a \in Admission :
        /\ pc[a] = "validating" => \A f \in 1 .. at[a] - 1 : binding[f] = "bound"
        /\ pc[a] \in Guarding \ {"validating"} => \A f \in LockFile : binding[f] = "bound"

\* An admission about to unlink a file that is no longer its own was undermined.
WindowKnown ==
    \A a \in Admission : pc[a] = "unlinking" /\ lockFile[at[a]] # a => a \in undermined

\* What holds even when an operator removes locks in use.
BookInv == TypeOK /\ NoLockLeaks /\ HandlesComplete /\ WindowKnown

\* What holds until an operator removes a lock in use.
Undisturbed == HandlesOwned /\ PartsVerified

GInv == BookInv /\ (forced = 0 => Undisturbed)

-----------------------------------------------------------------------------
USE DEF Move

LEMMA InitGInv == Init => GInv
<1>. SUFFICES ASSUME Init PROVE GInv
  OBVIOUS
<1>1. TypeOK
  BY LockAssumption DEF Init, TypeOK, PC, Guarding, LockFile
<1>2. HandlesOwned /\ NoLockLeaks /\ HandlesComplete /\ WindowKnown /\ PartsVerified
  BY OwnerAssumption
     DEF Init, Guarding, HandlesOwned, NoLockLeaks, HandlesComplete, WindowKnown, PartsVerified
<1>. QED
  BY <1>1, <1>2 DEF GInv, BookInv, Undisturbed

\* Every step of an admission that calls Move goes to a label and a lock number.
LEMMA MoveTyped ==
    ASSUME BookInv, NEW a \in Admission, NEW label \in PC, NEW i \in 0 .. LockCount + 1,
           Move(a, label, i)
    PROVE  pc' \in [Admission -> PC] /\ at' \in [Admission -> 0 .. LockCount + 1]
  BY DEF BookInv, TypeOK

LEMMA AbandonedTyped ==
    ASSUME BookInv, NEW a \in Admission, lockFile' = Abandoned(a)
    PROVE  lockFile' \in [LockFile -> Admission \union GitCommand \union {Absent, Orphan}]
  BY DEF BookInv, TypeOK, Abandoned

LEMMA GTypeStep == BookInv /\ [Next]_vars => TypeOK'
<1>. SUFFICES ASSUME BookInv, [Next]_vars PROVE TypeOK'
  OBVIOUS
<1>0. TypeOK /\ HandlesComplete
  BY DEF BookInv
<1>. USE DEF TypeOK, cleanupVars
<1>2. ASSUME NEW a \in Admission, Begin(a) PROVE TypeOK'
  <2>1. "locking" \in PC /\ 1 \in 0 .. LockCount + 1
    BY LockAssumption DEF PC
  <2>2. pc' \in [Admission -> PC] /\ at' \in [Admission -> 0 .. LockCount + 1]
    BY <1>2, <2>1, MoveTyped DEF Begin
  <2>. QED
    BY <1>0, <1>2, <2>2, AbandonedTyped DEF Begin
<1>3. ASSUME NEW a \in Admission, TakeLock(a) PROVE TypeOK'
  <2>1. at[a] \in LockFile
    BY <1>0, <1>3 DEF TakeLock, HandlesComplete
  <2>2. PICK label \in PC, i \in 0 .. LockCount + 1 : Move(a, label, i)
    BY <1>3, <2>1, LockAssumption DEF TakeLock, NextLock, LockFile, PC, Guarding
  <2>3. pc' \in [Admission -> PC] /\ at' \in [Admission -> 0 .. LockCount + 1]
    BY <2>2, MoveTyped
  <2>. QED
    BY <1>0, <1>3, <2>1, <2>3 DEF TakeLock
<1>4. ASSUME NEW a \in Admission, TakeLockFails(a) PROVE TypeOK'
  <2>1. at[a] \in LockFile
    BY <1>0, <1>4 DEF TakeLockFails, HandlesComplete
  <2>2. "cleanup" \in PC /\ LockCount \in 0 .. LockCount + 1 /\ at[a] \in 0 .. LockCount
    BY <2>1, LockAssumption DEF PC, LockFile
  <2>3. pc' \in [Admission -> PC] /\ at' \in [Admission -> 0 .. LockCount + 1]
    BY <1>4, <2>2, MoveTyped DEF TakeLockFails
  <2>4. /\ lockFile' \in [LockFile -> Admission \union GitCommand \union {Absent, Orphan}]
        /\ handles' \in [Admission -> SUBSET LockFile]
        /\ unmarked' \in [Admission -> 0 .. LockCount]
    BY <1>0, <1>4, <2>1, <2>2 DEF TakeLockFails
  <2>. QED
    BY <1>0, <1>4, <2>3, <2>4 DEF TakeLockFails
<1>5. ASSUME NEW a \in Admission, Validate(a) PROVE TypeOK'
  <2>1. PICK label \in PC, i \in 0 .. LockCount + 1 : Move(a, label, i)
    BY <1>0, <1>5, LockAssumption DEF Validate, PC, Guarding
  <2>2. pc' \in [Admission -> PC] /\ at' \in [Admission -> 0 .. LockCount + 1]
    BY <2>1, MoveTyped
  <2>. QED
    BY <1>0, <1>5, <2>2 DEF Validate
<1>6. ASSUME NEW a \in Admission, Scanned(a) \/ Publish(a) \/ Leave(a) \/ End(a) PROVE TypeOK'
  <2>1. PICK label \in PC, i \in 0 .. LockCount + 1 : Move(a, label, i)
    BY <1>6, LockAssumption DEF Scanned, Publish, Leave, End, PC, Guarding
  <2>2. pc' \in [Admission -> PC] /\ at' \in [Admission -> 0 .. LockCount + 1]
    BY <2>1, MoveTyped
  <2>3. /\ unmarked' \in [Admission -> 0 .. LockCount]
        /\ UNCHANGED <<lockFile, binding, handles, reported, undermined, git, forced>>
    BY <1>0, <1>6, LockAssumption DEF Scanned, Publish, Leave, End
  <2>. QED
    BY <1>0, <2>2, <2>3
<1>7. ASSUME NEW a \in Admission, CheckLock(a) \/ UnlinkLock(a) PROVE TypeOK'
  <2>0. at[a] \in 0 .. LockCount + 1 /\ (CheckLock(a) => at[a] <= LockCount)
    BY <1>0 DEF CheckLock, HandlesComplete
  <2>1. at[a] \in LockFile
    <3>1. CASE CheckLock(a)
      BY <2>0, <3>1, LockAssumption DEF CheckLock, LockFile
    <3>2. CASE UnlinkLock(a)
      BY <1>0, <3>2 DEF UnlinkLock, HandlesComplete
    <3>. QED
      BY <1>7, <3>1, <3>2
  <2>2. PICK label \in PC, i \in 0 .. LockCount + 1 : Move(a, label, i)
    <3>1. /\ "cleanup" \in PC /\ "unlinking" \in PC
          /\ at[a] \in 0 .. LockCount + 1 /\ at[a] - 1 \in 0 .. LockCount + 1
      BY <2>1, LockAssumption DEF PC, LockFile
    <3>2. Move(a, "cleanup", at[a] - 1) \/ Move(a, "unlinking", at[a])
      BY <1>7 DEF CheckLock, UnlinkLock, SkipLock, PassLock, Report
    <3>. HIDE DEF Move
    <3>. QED
      BY <3>1, <3>2
  <2>3. pc' \in [Admission -> PC] /\ at' \in [Admission -> 0 .. LockCount + 1]
    BY <2>2, MoveTyped
  <2>4. /\ handles' \in [Admission -> SUBSET LockFile]
        /\ reported' \in [Admission -> SUBSET LockFile]
    BY <1>0, <1>7, <2>1 DEF CheckLock, UnlinkLock, SkipLock, PassLock, Report
  <2>5. /\ lockFile' \in [LockFile -> Admission \union GitCommand \union {Absent, Orphan}]
        /\ undermined' \subseteq Admission
        /\ UNCHANGED <<binding, unmarked, git, forced>>
    BY <1>0, <1>7, <2>1 DEF CheckLock, UnlinkLock, AboutToUnlink
  <2>. QED
    BY <1>0, <2>3, <2>4, <2>5
<1>8. ASSUME NEW a \in Admission, Crash(a) PROVE TypeOK'
  <2>1. "idle" \in PC /\ 0 \in 0 .. LockCount + 1 /\ 0 \in 0 .. LockCount
    BY LockAssumption DEF PC
  <2>2. pc' \in [Admission -> PC] /\ at' \in [Admission -> 0 .. LockCount + 1]
    BY <1>8, <2>1, MoveTyped DEF Crash
  <2>. QED
    BY <1>0, <1>8, <2>1, <2>2, AbandonedTyped DEF Crash
<1>9. ASSUME NEW g \in GitCommand, GitLock(g) \/ GitChange(g) \/ GitUnlock(g) PROVE TypeOK'
  <2>1. CASE GitLock(g)
    BY <1>0, <2>1, LockAssumption DEF GitLock, LockFile
  <2>2. CASE GitChange(g)
    BY <1>0, <2>2 DEF GitChange
  <2>3. CASE GitUnlock(g)
    <3>1. lockFile' \in [LockFile -> Admission \union GitCommand \union {Absent, Orphan}]
      BY <1>0, <2>3 DEF GitUnlock
    <3>2. git' \in [GitCommand -> 0 .. LockCount]
      BY <1>0, <2>3, LockAssumption DEF GitUnlock
    <3>. QED
      BY <1>0, <2>3, <3>1, <3>2 DEF GitUnlock
  <2>. QED
    BY <1>9, <2>1, <2>2, <2>3
<1>10. CASE ClearLeftover \/ ForceRemove
  BY <1>0, <1>10 DEF ClearLeftover, ForceRemove, AboutToUnlink
<1>11. CASE UNCHANGED vars
  BY <1>0, <1>11 DEF vars
<1>. QED
  BY <1>2, <1>3, <1>4, <1>5, <1>6, <1>7, <1>8, <1>9, <1>10, <1>11 DEF Next, Proceed

\* The books an admission keeps of its locks stay complete, and no lock outlives
\* them in silence, whatever fails and whatever operators do.
LEMMA BookStep ==
    ASSUME BookInv, [Next]_vars
    PROVE  NoLockLeaks' /\ HandlesComplete'
<1>. USE DEF LockFile, Guarding, cleanupVars
<1>0. TypeOK /\ NoLockLeaks /\ HandlesComplete
  BY DEF BookInv
<1>. DEFINE Goal == NoLockLeaks' /\ HandlesComplete'
<1>. USE LockAssumption, OwnerAssumption
<1>a. ASSUME \A b \in Admission : \A k \in LockFile : lockFile'[k] = b =>
                (k \in handles'[b] /\ pc'[b] # "idle") \/ k \in reported'[b]
      PROVE  NoLockLeaks'
  BY <1>a DEF NoLockLeaks
<1>b. ASSUME NEW a \in Admission, NEW k \in LockFile, lockFile[k] = a
      PROVE  (k \in handles[a] /\ pc[a] # "idle") \/ k \in reported[a]
  BY <1>0, <1>b DEF NoLockLeaks
<1>1. ASSUME NEW a \in Admission, Begin(a) PROVE Goal
  <2>1. /\ \A k \in LockFile : /\ lockFile'[k] # a
                               /\ lockFile'[k] \in Admission => lockFile'[k] = lockFile[k]
        /\ \A b \in Admission \ {a} :
              /\ reported'[b] = reported[b] /\ handles'[b] = handles[b]
              /\ pc'[b] = pc[b] /\ at'[b] = at[b]
        /\ handles'[a] = {} /\ pc'[a] = "locking" /\ at'[a] = 1
    BY <1>0, <1>1 DEF Begin, Abandoned, TypeOK, HandlesComplete
  <2>2. NoLockLeaks'
    BY <1>a, <1>b, <2>1
  <2>3. HandlesComplete'
    <3>1. at'[a] \in LockFile /\ 1 .. at'[a] - 1 = {}
      BY <2>1
    <3>2. handles'[a] = 1 .. at'[a] - 1
      BY <2>1, <3>1
    <3>3. pc'[a] = "locking" /\ pc'[a] \notin Guarding /\ pc'[a] # "idle"
      BY <2>1
    <3>4. ASSUME NEW b \in Admission
          PROVE  /\ pc'[b] = "locking" => at'[b] \in LockFile /\ handles'[b] = 1 .. at'[b] - 1
                 /\ pc'[b] \in Guarding => handles'[b] = LockFile
                 /\ pc'[b] \in {"validating", "revalidating"} => at'[b] \in LockFile
                 /\ pc'[b] = "idle" => handles'[b] = {}
                 /\ pc'[b] \in {"cleanup", "unlinking"} =>
                       at'[b] \in 0 .. LockCount /\ handles'[b] \subseteq 1 .. at'[b]
                 /\ pc'[b] = "unlinking" => at'[b] \in handles'[b]
      <4>1. CASE b = a
        BY <3>1, <3>2, <3>3, <4>1
      <4>2. CASE b # a
        BY <1>0, <2>1, <4>2 DEF HandlesComplete
      <4>. QED
        BY <4>1, <4>2
    <3>. QED
      BY <3>4 DEF HandlesComplete
  <2>. QED
    BY <2>2, <2>3
<1>2. ASSUME NEW a \in Admission, TakeLock(a) PROVE Goal
  <2>. DEFINE f == at[a]
  <2>1. /\ f \in LockFile /\ handles[a] = 1 .. f - 1 /\ pc[a] = "locking"
        /\ lockFile[f] = Absent
    BY <1>0, <1>2 DEF TakeLock, HandlesComplete
  <2>2. /\ handles' = [handles EXCEPT ![a] = (1 .. f - 1) \union {f}]
        /\ (1 .. f - 1) \union {f} = 1 .. f
    BY <1>2, <2>1 DEF TakeLock
  <2>3. /\ handles'[a] = 1 .. f
        /\ \A b \in Admission \ {a} : handles'[b] = handles[b]
    BY <1>0, <2>2 DEF TypeOK
  <2>4. /\ \A b \in Admission \ {a} : pc'[b] = pc[b] /\ at'[b] = at[b]
        /\ UNCHANGED reported
    BY <1>0, <1>2 DEF TakeLock, NextLock, TypeOK
  <2>5. /\ lockFile'[f] = a
        /\ \A k \in LockFile \ {f} : lockFile'[k] = lockFile[k]
    BY <1>0, <1>2, <2>1 DEF TakeLock, TypeOK
  <2>6. \/ f = LockCount /\ pc'[a] = "validating" /\ at'[a] = 1
        \/ f < LockCount /\ pc'[a] = "locking" /\ at'[a] = f + 1
    BY <1>0, <1>2, <2>1 DEF TakeLock, NextLock, TypeOK
  <2>7. NoLockLeaks'
    <3>1. ASSUME NEW b \in Admission, NEW k \in LockFile, lockFile'[k] = b
          PROVE  (k \in handles'[b] /\ pc'[b] # "idle") \/ k \in reported'[b]
      <4>1. CASE k = f
        BY <2>3, <2>5, <2>6, <3>1, <4>1
      <4>2. CASE k # f
        BY <1>b, <2>1, <2>3, <2>4, <2>5, <2>6, <3>1, <4>2
      <4>. QED
        BY <4>1, <4>2
    <3>. QED
      BY <1>a, <3>1
  <2>8. HandlesComplete'
    BY <1>0, <2>1, <2>3, <2>4, <2>6 DEF HandlesComplete
  <2>. QED
    BY <2>7, <2>8
<1>3. ASSUME NEW a \in Admission, TakeLockFails(a) PROVE Goal
  <2>. DEFINE f == at[a]
  <2>1. /\ f \in LockFile /\ handles[a] = 1 .. f - 1 /\ pc[a] = "locking"
        /\ UNCHANGED reported
    BY <1>0, <1>3 DEF TakeLockFails, HandlesComplete
  <2>2. /\ pc'[a] = "cleanup" /\ at'[a] = LockCount
        /\ \A b \in Admission \ {a} :
              pc'[b] = pc[b] /\ at'[b] = at[b] /\ handles'[b] = handles[b]
    BY <1>0, <1>3 DEF TakeLockFails, TypeOK
  <2>3. /\ \A k \in LockFile \ {f} : lockFile'[k] = lockFile[k]
        /\ \/ lockFile'[f] = a /\ handles'[a] = (1 .. f - 1) \union {f}
           \/ lockFile'[f] = Orphan /\ handles'[a] = 1 .. f - 1
    BY <1>0, <1>3, <2>1 DEF TakeLockFails, TypeOK
  <2>4. /\ handles'[a] \subseteq 1 .. LockCount /\ handles[a] \subseteq handles'[a]
        /\ LockCount \in 0 .. LockCount
    BY <2>1, <2>3
  <2>5. NoLockLeaks'
    <3>1. ASSUME NEW b \in Admission, NEW k \in LockFile, lockFile'[k] = b
          PROVE  (k \in handles'[b] /\ pc'[b] # "idle") \/ k \in reported'[b]
      <4>1. CASE k = f
        BY <2>1, <2>2, <2>3, <3>1, <4>1
      <4>2. CASE k # f
        BY <1>b, <2>1, <2>2, <2>3, <2>4, <3>1, <4>2
      <4>. QED
        BY <4>1, <4>2
    <3>. QED
      BY <1>a, <3>1
  <2>6. HandlesComplete'
    BY <1>0, <2>2, <2>4 DEF HandlesComplete
  <2>. QED
    BY <2>5, <2>6
<1>4. ASSUME NEW a \in Admission, Validate(a) PROVE Goal
  <2>1. /\ UNCHANGED <<lockFile, handles, reported>>
        /\ \A b \in Admission \ {a} : pc'[b] = pc[b] /\ at'[b] = at[b]
        /\ pc[a] \in Guarding
    BY <1>0, <1>4 DEF Validate, TypeOK
  <2>2. \/ pc'[a] \in {"scanning", "publishing"}
        \/ pc'[a] \in {"validating", "revalidating"} /\ at'[a] \in LockFile
    BY <1>0, <1>4 DEF Validate, TypeOK, HandlesComplete
  <2>3. NoLockLeaks'
    BY <1>a, <1>b, <2>1, <2>2
  <2>4. HandlesComplete'
    BY <1>0, <2>1, <2>2 DEF HandlesComplete
  <2>. QED
    BY <2>3, <2>4
<1>5. ASSUME NEW a \in Admission, Scanned(a) \/ Publish(a) \/ Leave(a) PROVE Goal
  <2>1. CASE Scanned(a) \/ Publish(a)
    <3>1. /\ UNCHANGED <<lockFile, handles, reported>>
          /\ \A b \in Admission \ {a} : pc'[b] = pc[b] /\ at'[b] = at[b]
          /\ pc[a] \in Guarding /\ pc'[a] \in {"revalidating", "published"}
          /\ pc'[a] = "revalidating" => at'[a] = 1 /\ 1 \in LockFile
      BY <1>0, <2>1 DEF Scanned, Publish, TypeOK
    <3>2. NoLockLeaks'
      BY <1>a, <1>b, <3>1
    <3>3. HandlesComplete'
      BY <1>0, <3>1 DEF HandlesComplete
    <3>. QED
      BY <3>2, <3>3
  <2>2. CASE Leave(a)
    <3>1. /\ pc' = [pc EXCEPT ![a] = "cleanup"] /\ at' = [at EXCEPT ![a] = LockCount]
          /\ UNCHANGED <<lockFile, handles, reported>> /\ handles[a] \subseteq 1 .. LockCount
      BY <1>0, <2>2 DEF Leave, HandlesComplete
    <3>. QED
      BY <1>0, <3>1 DEF TypeOK, NoLockLeaks, HandlesComplete
  <2>. QED
    BY <1>5, <2>1, <2>2
<1>6. ASSUME NEW a \in Admission, CheckLock(a) \/ UnlinkLock(a) PROVE Goal
  <2>. DEFINE f == at[a]
  <2>0. /\ pc[a] \in {"cleanup", "unlinking"}
        /\ \A b \in Admission \ {a} :
              /\ reported'[b] = reported[b] /\ handles'[b] = handles[b]
              /\ pc'[b] = pc[b] /\ at'[b] = at[b]
    BY <1>0, <1>6 DEF CheckLock, UnlinkLock, SkipLock, PassLock, Report, TypeOK
  <2>1. f \in LockFile /\ handles[a] \subseteq 1 .. f
    <3>1. CASE CheckLock(a)
      BY <1>0, <2>0, <3>1 DEF CheckLock, HandlesComplete
    <3>2. CASE UnlinkLock(a)
      BY <1>0, <2>0, <3>2 DEF UnlinkLock, HandlesComplete, TypeOK
    <3>. QED
      BY <1>6, <3>1, <3>2
  <2>2. \A k \in LockFile : lockFile'[k] = lockFile[k] \/ lockFile'[k] = Absent
    BY <1>0, <1>6, <2>1 DEF CheckLock, UnlinkLock, TypeOK
  <2>3. /\ \/ pc'[a] = "cleanup" /\ at'[a] = f - 1 /\ handles'[a] = handles[a] \ {f}
           \/ pc'[a] = "unlinking" /\ at'[a] = f /\ handles'[a] = handles[a] /\ f \in handles[a]
        /\ reported[a] \subseteq reported'[a]
        /\ f \in handles[a] \ handles'[a] => lockFile'[f] = Absent \/ f \in reported'[a]
    <3>1. CASE CheckLock(a)
      BY <1>0, <2>0, <2>1, <3>1 DEF CheckLock, SkipLock, PassLock, Report, TypeOK
    <3>2. CASE UnlinkLock(a)
      BY <1>0, <2>0, <2>1, <3>2 DEF UnlinkLock, Report, TypeOK
    <3>. QED
      BY <1>6, <3>1, <3>2
  <2>4. NoLockLeaks'
    <3>1. ASSUME NEW b \in Admission, NEW k \in LockFile, lockFile'[k] = b
          PROVE  (k \in handles'[b] /\ pc'[b] # "idle") \/ k \in reported'[b]
      <4>0. lockFile[k] = b
        BY <2>2, <3>1
      <4>1. CASE b = a
        BY <1>b, <2>3, <3>1, <4>0, <4>1
      <4>2. CASE b # a
        BY <1>b, <2>0, <3>1, <4>0, <4>2
      <4>. QED
        BY <4>1, <4>2
    <3>. QED
      BY <1>a, <3>1
  <2>5. HandlesComplete'
    <3>1. f - 1 \in 0 .. LockCount /\ handles[a] \ {f} \subseteq 1 .. f - 1 /\ f \in 0 .. LockCount
      BY <2>1
    <3>. QED
      BY <1>0, <2>0, <2>1, <2>3, <3>1 DEF HandlesComplete
  <2>. QED
    BY <2>4, <2>5
<1>7. ASSUME NEW a \in Admission, End(a) PROVE Goal
  BY <1>0, <1>7 DEF End, TypeOK, NoLockLeaks, HandlesComplete
<1>8. ASSUME NEW a \in Admission, Crash(a) PROVE Goal
  <2>1. /\ \A k \in LockFile : /\ lockFile'[k] # a
                               /\ lockFile'[k] \in Admission => lockFile'[k] = lockFile[k]
        /\ \A b \in Admission \ {a} :
              /\ reported'[b] = reported[b] /\ handles'[b] = handles[b]
              /\ pc'[b] = pc[b] /\ at'[b] = at[b]
        /\ handles'[a] = {} /\ pc'[a] = "idle" /\ at'[a] = 0
    BY <1>0, <1>8 DEF Crash, Abandoned, TypeOK
  <2>2. NoLockLeaks'
    BY <1>a, <1>b, <2>1
  <2>3. HandlesComplete'
    BY <1>0, <2>1 DEF HandlesComplete
  <2>. QED
    BY <2>2, <2>3
<1>9. ASSUME NEW g \in GitCommand, GitLock(g) PROVE Goal
  BY <1>0, <1>9 DEF GitLock, TypeOK, NoLockLeaks, HandlesComplete
<1>10. ASSUME NEW g \in GitCommand, GitChange(g) PROVE Goal
  BY <1>0, <1>10 DEF GitChange, TypeOK, NoLockLeaks, HandlesComplete
<1>11. ASSUME NEW g \in GitCommand, GitUnlock(g) PROVE Goal
  BY <1>0, <1>11 DEF GitUnlock, TypeOK, NoLockLeaks, HandlesComplete
<1>12. CASE ClearLeftover
  BY <1>0, <1>12 DEF ClearLeftover, TypeOK, NoLockLeaks, HandlesComplete
<1>13. CASE ForceRemove
  BY <1>0, <1>13 DEF ForceRemove, TypeOK, NoLockLeaks, HandlesComplete
<1>14. CASE UNCHANGED vars
  BY <1>0, <1>14 DEF vars, TypeOK, NoLockLeaks, HandlesComplete
<1>. QED
  BY <1>1, <1>2, <1>3, <1>4, <1>5, <1>6, <1>7, <1>8, <1>9, <1>10, <1>11, <1>12, <1>13, <1>14
     DEF Next, Proceed

\* Whoever loses its file between check and unlink is on record.
LEMMA WindowStep ==
    ASSUME BookInv, [Next]_vars
    PROVE  WindowKnown'
<1>. USE DEF LockFile, cleanupVars
<1>0. TypeOK /\ HandlesComplete /\ WindowKnown
  BY DEF BookInv
<1>. USE LockAssumption, OwnerAssumption DEF TypeOK, WindowKnown
<1>1. ASSUME NEW a \in Admission,
             Begin(a) \/ Validate(a) \/ Scanned(a) \/ Publish(a) \/ Leave(a) \/ End(a)
      PROVE  WindowKnown'
  <2>1. /\ pc'[a] # "unlinking" /\ UNCHANGED undermined
        /\ \A b \in Admission \ {a} : pc'[b] = pc[b] /\ at'[b] = at[b]
        /\ \A k \in LockFile : lockFile[k] \in Admission \ {a} => lockFile'[k] = lockFile[k]
    BY <1>0, <1>1 DEF Begin, Validate, Scanned, Publish, Leave, End, Abandoned
  <2>. QED
    BY <1>0, <2>1 DEF HandlesComplete
<1>2. ASSUME NEW a \in Admission, TakeLock(a) \/ TakeLockFails(a) PROVE WindowKnown'
  <2>1. /\ pc'[a] # "unlinking" /\ UNCHANGED undermined
        /\ \A b \in Admission \ {a} : pc'[b] = pc[b] /\ at'[b] = at[b]
        /\ \A k \in LockFile : lockFile[k] \in Admission => lockFile'[k] = lockFile[k]
    BY <1>0, <1>2 DEF TakeLock, TakeLockFails, NextLock
  <2>. QED
    BY <1>0, <2>1 DEF HandlesComplete
<1>3. ASSUME NEW a \in Admission, CheckLock(a) PROVE WindowKnown'
  <2>1. /\ UNCHANGED <<lockFile, undermined>>
        /\ pc'[a] = "unlinking" => lockFile[at'[a]] = a
        /\ \A b \in Admission \ {a} : pc'[b] = pc[b] /\ at'[b] = at[b]
    BY <1>0, <1>3 DEF CheckLock, SkipLock, PassLock, Report
  <2>. QED
    BY <1>0, <2>1
<1>4. ASSUME NEW a \in Admission, UnlinkLock(a) PROVE WindowKnown'
  <2>1. /\ pc'[a] = "cleanup"
        /\ \A b \in Admission \ {a} : pc'[b] = pc[b] /\ at'[b] = at[b]
        /\ undermined \ {a} \subseteq undermined'
    BY <1>0, <1>4 DEF UnlinkLock, Report
  <2>2. \/ UNCHANGED lockFile
        \/ /\ \A k \in LockFile : k # at[a] => lockFile'[k] = lockFile[k]
           /\ AboutToUnlink(at[a]) \ {a} \subseteq undermined'
    BY <1>0, <1>4 DEF UnlinkLock
  <2>. QED
    BY <1>0, <2>1, <2>2 DEF HandlesComplete, AboutToUnlink
<1>5. ASSUME NEW a \in Admission, Crash(a) PROVE WindowKnown'
  <2>1. /\ pc'[a] # "unlinking" /\ undermined' = undermined \ {a}
        /\ \A b \in Admission \ {a} : pc'[b] = pc[b] /\ at'[b] = at[b]
        /\ \A k \in LockFile : lockFile[k] \in Admission \ {a} => lockFile'[k] = lockFile[k]
    BY <1>0, <1>5 DEF Crash, Abandoned
  <2>. QED
    BY <1>0, <2>1 DEF HandlesComplete
<1>6. ASSUME NEW g \in GitCommand, GitLock(g) \/ GitChange(g) \/ GitUnlock(g) PROVE WindowKnown'
  <2>1. /\ UNCHANGED <<pc, at, undermined>>
        /\ \A k \in LockFile : lockFile[k] \in Admission => lockFile'[k] = lockFile[k]
    BY <1>0, <1>6 DEF GitLock, GitChange, GitUnlock
  <2>. QED
    BY <1>0, <2>1 DEF HandlesComplete
<1>7. CASE ClearLeftover
  <2>1. /\ UNCHANGED <<pc, at, undermined>>
        /\ \A k \in LockFile : lockFile[k] \in Admission /\ pc[lockFile[k]] # "idle"
              => lockFile'[k] = lockFile[k]
    BY <1>0, <1>7 DEF ClearLeftover
  <2>. QED
    BY <1>0, <2>1 DEF HandlesComplete
<1>8. CASE ForceRemove
  <2>1. PICK f \in LockFile : /\ lockFile' = [lockFile EXCEPT ![f] = Absent]
                              /\ undermined' = undermined \union AboutToUnlink(f)
    BY <1>8 DEF ForceRemove
  <2>2. UNCHANGED <<pc, at>>
    BY <1>8 DEF ForceRemove
  <2>. QED
    BY <1>0, <2>1, <2>2 DEF HandlesComplete, AboutToUnlink
<1>9. CASE UNCHANGED vars
  BY <1>0, <1>9 DEF vars
<1>. QED
  BY <1>1, <1>2, <1>3, <1>4, <1>5, <1>6, <1>7, <1>8, <1>9 DEF Next, Proceed

\* Only a forced removal takes a lock away from the live admission that owns it.
LEMMA OwnershipStep ==
    ASSUME BookInv, HandlesOwned, [Next]_vars, ~ForceRemove
    PROVE  HandlesOwned'
<1>. USE DEF LockFile, Guarding, cleanupVars
<1>0. TypeOK /\ HandlesOwned /\ NoLockLeaks /\ HandlesComplete
  BY DEF BookInv
<1>. USE LockAssumption, OwnerAssumption DEF TypeOK, HandlesOwned
<1>1. ASSUME NEW a \in Admission, Validate(a) \/ Scanned(a) \/ Publish(a) \/ Leave(a) \/ End(a)
      PROVE  HandlesOwned'
  <2>1. UNCHANGED <<lockFile, handles>>
    BY <1>1 DEF Validate, Scanned, Publish, Leave, End
  <2>. QED
    BY <1>0, <2>1
<1>2. ASSUME NEW a \in Admission, Begin(a) \/ Crash(a) PROVE HandlesOwned'
  <2>1. /\ handles'[a] = {}
        /\ \A b \in Admission \ {a} : handles'[b] = handles[b]
        /\ \A k \in LockFile : lockFile[k] # a => lockFile'[k] = lockFile[k]
    BY <1>0, <1>2 DEF Begin, Crash, Abandoned, HandlesComplete
  <2>. QED
    BY <1>0, <2>1
<1>3. ASSUME NEW a \in Admission, TakeLock(a) \/ TakeLockFails(a) PROVE HandlesOwned'
  <2>. DEFINE f == at[a]
  <2>1. /\ f \in LockFile /\ handles[a] = 1 .. f - 1 /\ lockFile[f] = Absent
    BY <1>0, <1>3 DEF TakeLock, TakeLockFails, HandlesComplete
  <2>2. /\ \/ lockFile'[f] = a /\ handles'[a] = (1 .. f - 1) \union {f}
           \/ handles'[a] = 1 .. f - 1
        /\ \A b \in Admission \ {a} : handles'[b] = handles[b]
        /\ \A k \in LockFile \ {f} : lockFile'[k] = lockFile[k]
    BY <1>0, <1>3, <2>1 DEF TakeLock, TakeLockFails
  <2>3. ASSUME NEW b \in Admission, NEW k \in handles[b]
        PROVE  k \in LockFile \ {f} /\ lockFile[k] = b /\ lockFile'[k] = b
    BY <1>0, <2>1, <2>2
  <2>4. ASSUME NEW b \in Admission \ {a}, NEW k \in handles[b] PROVE lockFile'[k] = b
    BY <2>3
  <2>5. ASSUME NEW k \in handles'[a] PROVE lockFile'[k] = a
    BY <2>1, <2>2, <2>3
  <2>. QED
    BY <2>2, <2>4, <2>5
<1>4. ASSUME NEW a \in Admission, CheckLock(a) PROVE HandlesOwned'
  <2>1. /\ UNCHANGED lockFile
        /\ \A b \in Admission : handles'[b] \subseteq handles[b]
    BY <1>0, <1>4 DEF CheckLock, SkipLock, PassLock, Report
  <2>. QED
    BY <1>0, <2>1
<1>5. ASSUME NEW a \in Admission, UnlinkLock(a) PROVE HandlesOwned'
  <2>. DEFINE f == at[a]
  <2>1. /\ f \in LockFile
        /\ handles'[a] = handles[a] \ {f}
        /\ \A b \in Admission \ {a} : handles'[b] = handles[b]
        /\ \A k \in LockFile \ {f} : lockFile'[k] = lockFile[k]
    BY <1>0, <1>5 DEF UnlinkLock, Report, HandlesComplete
  <2>2. lockFile[f] = a
    <3>1. f \in handles[a]
      BY <1>0, <1>5 DEF UnlinkLock, HandlesComplete
    <3>. QED
      BY <1>0, <3>1
  <2>3. ASSUME NEW b \in Admission, NEW k \in handles'[b] PROVE lockFile'[k] = b
    <3>1. k \in handles[b] /\ lockFile[k] = b /\ k \in LockFile
      BY <1>0, <2>1, <2>3
    <3>2. k # f
      BY <2>1, <2>2, <2>3, <3>1
    <3>. QED
      BY <2>1, <3>1, <3>2
  <2>. QED
    BY <2>3
<1>6. ASSUME NEW g \in GitCommand, GitLock(g) \/ GitChange(g) \/ GitUnlock(g) PROVE HandlesOwned'
  BY <1>0, <1>6 DEF GitLock, GitChange, GitUnlock
<1>7. CASE ClearLeftover
  BY <1>0, <1>7 DEF ClearLeftover, HandlesComplete
<1>8. CASE UNCHANGED vars
  BY <1>0, <1>8 DEF vars
<1>. QED
  BY <1>1, <1>2, <1>3, <1>4, <1>5, <1>6, <1>7, <1>8 DEF Next, Proceed

LEMMA VerifiedStep ==
    ASSUME BookInv, HandlesOwned, PartsVerified, [Next]_vars
    PROVE  PartsVerified'
<1>. USE DEF LockFile, Guarding, cleanupVars
<1>0. TypeOK /\ HandlesOwned /\ HandlesComplete /\ PartsVerified
  BY DEF BookInv
<1>. USE LockAssumption, OwnerAssumption DEF TypeOK, PartsVerified
<1>1. ASSUME NEW a \in Admission, Begin(a) \/ Leave(a) \/ End(a) PROVE PartsVerified'
  <2>1. /\ pc'[a] \in {"locking", "cleanup", "idle"} /\ UNCHANGED binding
        /\ \A b \in Admission \ {a} : pc'[b] = pc[b] /\ at'[b] = at[b]
    BY <1>0, <1>1 DEF Begin, Leave, End
  <2>. QED
    BY <1>0, <2>1
<1>2. ASSUME NEW a \in Admission, TakeLock(a) \/ TakeLockFails(a) PROVE PartsVerified'
  <2>1. /\ (pc'[a] = "validating" /\ at'[a] = 1) \/ pc'[a] \in {"locking", "cleanup"}
        /\ \A b \in Admission \ {a} : pc'[b] = pc[b] /\ at'[b] = at[b]
        /\ UNCHANGED binding
    BY <1>0, <1>2 DEF TakeLock, TakeLockFails, NextLock
  <2>2. SUFFICES ASSUME NEW b \in Admission
                 PROVE  /\ pc'[b] = "validating" => \A k \in 1 .. at'[b] - 1 : binding'[k] = "bound"
                        /\ pc'[b] \in Guarding \ {"validating"} =>
                              \A k \in LockFile : binding'[k] = "bound"
    OBVIOUS
  <2>3. CASE b = a
    BY <2>1, <2>3
  <2>4. CASE b # a
    BY <1>0, <2>1, <2>4
  <2>. QED
    BY <2>3, <2>4
<1>3. ASSUME NEW a \in Admission, Validate(a) PROVE PartsVerified'
  <2>1. /\ UNCHANGED binding
        /\ \A b \in Admission \ {a} : pc'[b] = pc[b] /\ at'[b] = at[b]
        /\ binding[at[a]] = "bound" /\ at[a] \in LockFile
    BY <1>0, <1>3 DEF Validate, PartVerified, HandlesComplete
  <2>2. \/ pc[a] = "validating" /\ at[a] = LockCount /\ pc'[a] = "scanning"
        \/ pc[a] = "revalidating" /\ pc'[a] \in {"revalidating", "publishing"}
        \/ pc[a] = "validating" /\ pc'[a] = "validating" /\ at'[a] = at[a] + 1
    BY <1>0, <1>3 DEF Validate
  <2>3. pc'[a] = "validating" => \A k \in 1 .. at'[a] - 1 : binding[k] = "bound"
    BY <1>0, <2>1, <2>2
  <2>4. pc'[a] \in Guarding \ {"validating"} => \A k \in LockFile : binding[k] = "bound"
    BY <1>0, <2>1, <2>2
  <2>. QED
    BY <1>0, <2>1, <2>3, <2>4
<1>4. ASSUME NEW a \in Admission, Scanned(a) \/ Publish(a) PROVE PartsVerified'
  BY <1>0, <1>4 DEF Scanned, Publish
<1>5. ASSUME NEW a \in Admission, CheckLock(a) \/ UnlinkLock(a) \/ Crash(a) PROVE PartsVerified'
  <2>1. /\ pc'[a] \in {"cleanup", "unlinking", "idle"} /\ UNCHANGED binding
        /\ \A b \in Admission \ {a} : pc'[b] = pc[b] /\ at'[b] = at[b]
    BY <1>0, <1>5 DEF CheckLock, UnlinkLock, SkipLock, PassLock, Report, Crash
  <2>. QED
    BY <1>0, <2>1
<1>6. ASSUME NEW g \in GitCommand, GitLock(g) \/ GitUnlock(g) PROVE PartsVerified'
  BY <1>0, <1>6 DEF GitLock, GitUnlock
<1>7. ASSUME NEW g \in GitCommand, GitChange(g) PROVE PartsVerified'
  <2>1. \A a \in Admission : pc[a] \notin Guarding
    BY <1>0, <1>7 DEF GitChange, HandlesOwned, HandlesComplete
  <2>. QED
    BY <1>7, <2>1 DEF GitChange
<1>8. CASE ClearLeftover \/ ForceRemove \/ UNCHANGED vars
  BY <1>0, <1>8 DEF ClearLeftover, ForceRemove, vars
<1>. QED
  BY <1>1, <1>2, <1>3, <1>4, <1>5, <1>6, <1>7, <1>8 DEF Next, Proceed

\* Once a lock in use was removed, that is never forgotten.
LEMMA ForcedStep ==
    ASSUME BookInv, [Next]_vars, forced' = 0
    PROVE  forced = 0 /\ ~ForceRemove
<1>1. forced \in Nat
  BY DEF BookInv, TypeOK
<1>2. ~ForceRemove
  BY <1>1 DEF ForceRemove
<1>3. UNCHANGED forced
  BY <1>2 DEF Next, Proceed, vars, Begin, TakeLock, TakeLockFails, Validate, Scanned, Publish,
       Leave, CheckLock, UnlinkLock, End, Crash, GitLock, GitChange, GitUnlock, ClearLeftover
<1>. QED
  BY <1>2, <1>3

LEMMA GInvStep == GInv /\ [Next]_vars => GInv'
<1>. SUFFICES ASSUME GInv, [Next]_vars PROVE GInv'
  OBVIOUS
<1>1. BookInv'
  BY GTypeStep, BookStep, WindowStep DEF GInv, BookInv
<1>2. ASSUME forced' = 0 PROVE Undisturbed'
  BY <1>2, ForcedStep, OwnershipStep, VerifiedStep DEF GInv, Undisturbed
<1>. QED
  BY <1>1, <1>2 DEF GInv

-----------------------------------------------------------------------------
\* Until an operator removes a lock in use, the worktree a published lease binds
\* is the one that was verified, until the guard lets go.
THEOREM GuardFreezesWorktree == Spec => []BindingHolds
<1>1. GInv => BindingHolds
  <2>1. PartsVerified => \A a \in Admission : pc[a] \in {"publishing", "published"} =>
                            \A f \in LockFile : binding[f] = "bound"
    BY DEF PartsVerified, Guarding
  <2>. QED
    BY <2>1 DEF GInv, Undisturbed, BindingHolds
<1>. QED
  BY <1>1, GInvStep, InitGInv, PTL DEF Spec

\* Until an operator removes a lock in use, admissions of different lock roots
\* never guard one worktree together.
THEOREM GuardExcludes == Spec => []GuardExclusive
<1>1. GInv => GuardExclusive
  <2>1. 1 \in LockFile
    BY LockAssumption DEF LockFile
  <2>. QED
    BY <2>1 DEF GInv, Undisturbed, BookInv, HandlesOwned, HandlesComplete, GuardExclusive
<1>. QED
  BY <1>1, GInvStep, InitGInv, PTL DEF Spec

\* Whatever fails and whatever operators remove, no lock file is left in silence.
THEOREM NoLeak == Spec => []NoLockLeaks
<1>1. Init => BookInv
  BY InitGInv DEF GInv
<1>2. BookInv /\ [Next]_vars => BookInv'
  BY GTypeStep, BookStep, WindowStep DEF BookInv
<1>3. BookInv => NoLockLeaks
  BY DEF BookInv
<1>. QED
  BY <1>1, <1>2, <1>3, PTL DEF Spec

\* The step of an owner, or of nobody but an undermined admission, is the only one
\* but an operator's that removes a lock file.
LockGoes(f) ==
    \/ lockFile[f] \notin Admission \union GitCommand
    \/ \E g \in GitCommand : lockFile[f] = g /\ git'[g] # git[g]
    \/ \E b \in Admission :
          lockFile[f] = b /\ (pc[b] = "idle" \/ pc'[b] # pc[b] \/ forced' # forced)
    \/ \E a \in undermined : pc[a] = "unlinking" /\ at[a] = f

LEMMA ForeignStep ==
    ASSUME BookInv, [Next]_vars, NEW f \in LockFile, lockFile'[f] # lockFile[f]
    PROVE  LockGoes(f)
<1>0. TypeOK /\ HandlesComplete /\ WindowKnown
  BY DEF BookInv
<1>. USE LockAssumption, OwnerAssumption DEF TypeOK, LockGoes, cleanupVars
<1>1. ASSUME NEW a \in Admission,
             Validate(a) \/ Scanned(a) \/ Publish(a) \/ Leave(a) \/ CheckLock(a) \/ End(a)
      PROVE  LockGoes(f)
  BY <1>1 DEF Validate, Scanned, Publish, Leave, CheckLock, End
<1>2. ASSUME NEW a \in Admission, TakeLock(a) \/ TakeLockFails(a) PROVE LockGoes(f)
  <2>1. lockFile[f] = Absent
    BY <1>0, <1>2 DEF TakeLock, TakeLockFails
  <2>. QED
    BY <2>1
<1>3. ASSUME NEW a \in Admission, Begin(a) \/ Crash(a) PROVE LockGoes(f)
  <2>1. lockFile[f] = a /\ (pc[a] = "idle" \/ pc'[a] # pc[a])
    BY <1>0, <1>3 DEF Begin, Crash, Abandoned
  <2>. QED
    BY <2>1
<1>4. ASSUME NEW a \in Admission, UnlinkLock(a) PROVE LockGoes(f)
  <2>1. f = at[a] /\ pc[a] = "unlinking" /\ pc'[a] = "cleanup"
    BY <1>0, <1>4 DEF UnlinkLock
  <2>2. lockFile[f] # a => a \in undermined
    BY <1>0, <2>1 DEF WindowKnown
  <2>. QED
    BY <2>1, <2>2
<1>5. ASSUME NEW g \in GitCommand, GitLock(g) \/ GitChange(g) \/ GitUnlock(g) PROVE LockGoes(f)
  <2>1. CASE GitLock(g)
    BY <1>0, <2>1 DEF GitLock
  <2>2. CASE GitChange(g)
    BY <2>2 DEF GitChange
  <2>3. CASE GitUnlock(g)
    <3>1. lockFile[f] = g /\ git'[g] # git[g]
      BY <1>0, <2>3 DEF GitUnlock
    <3>. QED
      BY <3>1
  <2>. QED
    BY <1>5, <2>1, <2>2, <2>3
<1>6. CASE ClearLeftover
  BY <1>0, <1>6 DEF ClearLeftover
<1>7. CASE ForceRemove
  BY <1>0, <1>7 DEF ForceRemove
<1>8. CASE UNCHANGED vars
  BY <1>8 DEF vars
<1>. QED
  BY <1>1, <1>2, <1>3, <1>4, <1>5, <1>6, <1>7, <1>8 DEF Next, Proceed

\* Whatever fails, nobody loses a lock file to an admission's cleanup unless that
\* admission's own lock was removed between its check and its unlink.
THEOREM OthersKeepTheirLocks == Spec => ForeignLocksUntouched
<1>1. Init => BookInv
  BY InitGInv DEF GInv
<1>2. BookInv /\ [Next]_vars => BookInv'
  BY GTypeStep, BookStep, WindowStep DEF BookInv
<1>3. BookInv /\ [Next]_vars => [\A f \in LockFile : lockFile'[f] # lockFile[f] => LockGoes(f)]_vars
  BY ForeignStep
<1>4. BookInv /\ [Next]_vars =>
        [\A f \in LockFile : lockFile'[f] # lockFile[f] =>
          \/ lockFile[f] \notin Admission \union GitCommand
          \/ \E g \in GitCommand : lockFile[f] = g /\ git'[g] # git[g]
          \/ \E b \in Admission :
                lockFile[f] = b /\ (pc[b] = "idle" \/ pc'[b] # pc[b] \/ forced' # forced)
          \/ \E a \in undermined : pc[a] = "unlinking" /\ at[a] = f]_vars
  BY <1>3 DEF LockGoes
<1>. QED
  BY <1>1, <1>2, <1>4, PTL DEF Spec, ForeignLocksUntouched
=============================================================================
