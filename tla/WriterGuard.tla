---------------------------- MODULE WriterGuard ----------------------------
(***************************************************************************)
(* The Git admission guard of leases.py: an admission that binds a writer  *)
(* worktree creates every Git lock file of that worktree, one after the    *)
(* other, verifies the worktree while it owns them, scans, verifies again, *)
(* publishes, and removes the locks in reverse order: each is checked, and *)
(* then unlinked by its path.  Whatever fails on the way is reported and   *)
(* the file left.  Git commands, and admissions of other lock roots        *)
(* (another admission mutex), use the same lock files.                     *)
(*                                                                         *)
(*   idle -> locking -> validating -> scanning -> revalidating             *)
(*        -> publishing -> published -> (cleanup -> unlinking)* -> cleanup *)
(*        -> idle                                                          *)
(***************************************************************************)
EXTENDS Naturals

CONSTANTS
    \* Admissions binding the worktree, each under its own lock root.
    Admission,
    \* Git commands on the worktree.
    GitCommand,
    \* The lock files, numbered in the order _writer_git_lock_paths sorts them;
    \* file i guards part i of the binding (HEAD, branch tip, index, config, ...).
    LockCount,
    \* How many times an operator removes a lock of a live process.
    ForcedRemovals,
    Absent, Orphan

ASSUME LockAssumption == LockCount \in Nat \ {0}
ASSUME OwnerAssumption ==
    /\ Admission \intersect GitCommand = {}
    /\ Absent \notin Admission \union GitCommand
    /\ Orphan \notin Admission \union GitCommand
    /\ Absent # Orphan

VARIABLES
    \* Who created the lock file that exists at each path.
    lockFile,
    \* Whether each part of the worktree is what the lease document binds.
    binding,
    pc,
    \* The next lock file each admission creates, checks or removes.
    at,
    \* The locks each admission created, knows of and has not tried to remove.
    handles,
    \* The lock whose marker each admission failed to write out, or 0.
    unmarked,
    \* The locks the error of each admission's last call names as left behind.
    reported,
    \* History: the admissions whose lock was removed under them after they had
    \* checked it and before they unlink it.
    undermined,
    \* What each Git command is doing: 0, or the part it has locked.
    git,
    forced

vars == <<lockFile, binding, pc, at, handles, unmarked, reported, undermined, git, forced>>
cleanupVars == <<unmarked, reported, undermined>>

LockFile == 1 .. LockCount
Guarding == {"validating", "scanning", "revalidating", "publishing", "published"}
PC == Guarding \union {"idle", "locking", "cleanup", "unlinking"}

TypeOK ==
    /\ lockFile \in [LockFile -> Admission \union GitCommand \union {Absent, Orphan}]
    /\ binding \in [LockFile -> {"bound", "moved"}]
    /\ pc \in [Admission -> PC]
    /\ at \in [Admission -> 0 .. LockCount + 1]
    /\ handles \in [Admission -> SUBSET LockFile]
    /\ unmarked \in [Admission -> 0 .. LockCount]
    /\ reported \in [Admission -> SUBSET LockFile]
    /\ undermined \subseteq Admission
    /\ git \in [GitCommand -> 0 .. LockCount]
    /\ forced \in Nat

Init ==
    /\ lockFile = [f \in LockFile |-> Absent]
    /\ binding \in [LockFile -> {"bound", "moved"}]
    /\ pc = [a \in Admission |-> "idle"]
    /\ at = [a \in Admission |-> 0]
    /\ handles = [a \in Admission |-> {}]
    /\ unmarked = [a \in Admission |-> 0]
    /\ reported = [a \in Admission |-> {}]
    /\ undermined = {}
    /\ git = [g \in GitCommand |-> 0]
    /\ forced = 0

Move(a, label, i) ==
    /\ pc' = [pc EXCEPT ![a] = label]
    /\ at' = [at EXCEPT ![a] = i]

-----------------------------------------------------------------------------
\* The file stays, and no live admission stands behind it any more.
Abandoned(a) == [f \in LockFile |-> IF lockFile[f] = a THEN Orphan ELSE lockFile[f]]

Begin(a) ==
    /\ pc[a] = "idle"
    /\ Move(a, "locking", 1)
    /\ lockFile' = Abandoned(a)
    /\ reported' = [reported EXCEPT ![a] = {}]
    /\ UNCHANGED <<binding, handles, unmarked, undermined, git, forced>>

NextLock(a) ==
    IF at[a] = LockCount THEN Move(a, "validating", 1) ELSE Move(a, "locking", at[a] + 1)

\* Create the next lock file exclusively and write its marker.  (Faulty variant:
\* a file that exists is passed over.)
TakeLockIfFree(a) ==
    /\ pc[a] = "locking"
    /\ IF lockFile[at[a]] = Absent
       THEN /\ lockFile' = [lockFile EXCEPT ![at[a]] = a]
            /\ handles' = [handles EXCEPT ![a] = @ \union {at[a]}]
       ELSE UNCHANGED <<lockFile, handles>>
    /\ NextLock(a)
    /\ UNCHANGED <<binding, cleanupVars, git, forced>>
TakeLock(a) ==
    /\ pc[a] = "locking"
    /\ lockFile[at[a]] = Absent
    /\ lockFile' = [lockFile EXCEPT ![at[a]] = a]
    /\ handles' = [handles EXCEPT ![a] = @ \union {at[a]}]
    /\ NextLock(a)
    /\ UNCHANGED <<binding, cleanupVars, git, forced>>

\* The file is created and its marker cannot be written or synced: the marker is
\* complete all the same, or it is not.  Or its status cannot be read and the
\* guard raises before it has recorded the file.
TakeLockFails(a) ==
    /\ pc[a] = "locking"
    /\ lockFile[at[a]] = Absent
    /\ \/ /\ lockFile' = [lockFile EXCEPT ![at[a]] = a]
          /\ handles' = [handles EXCEPT ![a] = @ \union {at[a]}]
          /\ \E m \in {0, at[a]} : unmarked' = [unmarked EXCEPT ![a] = m]
       \/ /\ lockFile' = [lockFile EXCEPT ![at[a]] = Orphan]
          /\ UNCHANGED <<handles, unmarked>>
    /\ Move(a, "cleanup", LockCount)
    /\ UNCHANGED <<binding, reported, undermined, git, forced>>

\* _validate_writer_binding under the guard: part f of the worktree is the bound
\* one and the lock file at f is still the one created.  (Faulty variant: only
\* the locks are looked at, the worktree was verified before.)
LockIsOwn(a) == lockFile[at[a]] = a
PartVerified(a) == binding[at[a]] = "bound" /\ lockFile[at[a]] = a

Validate(a) ==
    /\ \/ pc[a] = "validating" /\ at[a] = LockCount /\ Move(a, "scanning", 0)
       \/ pc[a] = "revalidating" /\ at[a] = LockCount /\ Move(a, "publishing", 0)
       \/ /\ pc[a] \in {"validating", "revalidating"}
          /\ at[a] < LockCount
          /\ Move(a, pc[a], at[a] + 1)
    /\ PartVerified(a)
    /\ UNCHANGED <<lockFile, binding, handles, cleanupVars, git, forced>>

\* The overlap scan of the lock root, between the two validations.
Scanned(a) ==
    /\ pc[a] = "scanning"
    /\ Move(a, "revalidating", 1)
    /\ UNCHANGED <<lockFile, binding, handles, cleanupVars, git, forced>>

Publish(a) ==
    /\ pc[a] = "publishing"
    /\ Move(a, "published", 0)
    /\ UNCHANGED <<lockFile, binding, handles, cleanupVars, git, forced>>

\* The guard's body ends or raises (a lock exists, a finding, an overlap, I/O).
Leave(a) ==
    /\ pc[a] \in Guarding \union {"locking"}
    /\ Move(a, "cleanup", LockCount)
    /\ UNCHANGED <<lockFile, binding, handles, cleanupVars, git, forced>>

\* Reverse cleanup.  A lock that cannot be closed, stated or read, that is gone,
\* or whose identity or marker is not the one recorded, is reported and left.  One
\* step at the read of the marker: a file that is the created one then was so at
\* the stat before.  (Faulty variants: any file at the path passes; an error is
\* swallowed.)
Report(a, f) ==
    /\ reported' = [reported EXCEPT ![a] = @ \union {f}]
    /\ handles' = [handles EXCEPT ![a] = @ \ {f}]
    /\ Move(a, "cleanup", f - 1)
SkipLock(a, f) ==
    /\ f \notin handles[a]
    /\ Move(a, "cleanup", f - 1)
    /\ UNCHANGED <<handles, reported>>
PassLock(a, f) ==
    /\ f \in handles[a]
    /\ Move(a, "unlinking", f)
    /\ UNCHANGED <<handles, reported>>
CheckLockExists(a) ==
    LET f == at[a]
    IN  /\ pc[a] = "cleanup" /\ f > 0
        /\ \/ SkipLock(a, f)
           \/ PassLock(a, f) /\ lockFile[f] # Absent
           \/ f \in handles[a] /\ Report(a, f)
        /\ UNCHANGED <<lockFile, binding, unmarked, undermined, git, forced>>
CheckLockQuietly(a) ==
    LET f == at[a]
    IN  /\ pc[a] = "cleanup" /\ f > 0
        /\ \/ PassLock(a, f) /\ lockFile[f] = a /\ unmarked[a] # f
           \/ /\ handles' = [handles EXCEPT ![a] = @ \ {f}]
              /\ Move(a, "cleanup", f - 1)
              /\ UNCHANGED reported
        /\ UNCHANGED <<lockFile, binding, unmarked, undermined, git, forced>>
CheckLock(a) ==
    LET f == at[a]
    IN  /\ pc[a] = "cleanup" /\ f > 0
        /\ \/ SkipLock(a, f)
           \/ PassLock(a, f) /\ lockFile[f] = a /\ unmarked[a] # f
           \/ f \in handles[a] /\ Report(a, f)
        /\ UNCHANGED <<lockFile, binding, unmarked, undermined, git, forced>>

\* The live admissions that are about to unlink their file at f.
AboutToUnlink(f) == {b \in Admission : pc[b] = "unlinking" /\ at[b] = f /\ lockFile[f] = b}

\* path.unlink() takes whatever is at the path by now, or fails and is reported.
UnlinkLock(a) ==
    LET f == at[a]
    IN  /\ pc[a] = "unlinking"
        /\ \/ /\ lockFile[f] # Absent
              /\ lockFile' = [lockFile EXCEPT ![f] = Absent]
              /\ undermined' = (undermined \union AboutToUnlink(f)) \ {a}
              /\ handles' = [handles EXCEPT ![a] = @ \ {f}]
              /\ Move(a, "cleanup", f - 1)
              /\ UNCHANGED reported
           \/ /\ Report(a, f)
              /\ undermined' = undermined \ {a}
              /\ UNCHANGED lockFile
        /\ UNCHANGED <<binding, unmarked, git, forced>>

\* The errors are raised, or added to the one the guard's body raised.
End(a) ==
    /\ pc[a] = "cleanup" /\ at[a] = 0
    /\ Move(a, "idle", 0)
    /\ unmarked' = [unmarked EXCEPT ![a] = 0]
    /\ UNCHANGED <<lockFile, binding, handles, reported, undermined, git, forced>>

\* The process dies; its lock files stay.
Crash(a) ==
    /\ pc[a] # "idle"
    /\ Move(a, "idle", 0)
    /\ lockFile' = Abandoned(a)
    /\ handles' = [handles EXCEPT ![a] = {}]
    /\ unmarked' = [unmarked EXCEPT ![a] = 0]
    /\ reported' = [reported EXCEPT ![a] = {}]
    /\ undermined' = undermined \ {a}
    /\ UNCHANGED <<binding, git, forced>>

-----------------------------------------------------------------------------
(* Git and the operator, as the guard takes them to behave.                *)

\* A Git command changes a part of the worktree under that part's lock file.
GitLock(g) ==
    /\ git[g] = 0
    /\ \E f \in LockFile :
          /\ lockFile[f] = Absent
          /\ lockFile' = [lockFile EXCEPT ![f] = g]
          /\ git' = [git EXCEPT ![g] = f]
    /\ UNCHANGED <<binding, pc, at, handles, cleanupVars, forced>>

GitChange(g) ==
    /\ git[g] # 0
    /\ lockFile[git[g]] = g
    /\ \E b \in {"bound", "moved"} : binding' = [binding EXCEPT ![git[g]] = b]
    /\ UNCHANGED <<lockFile, pc, at, handles, cleanupVars, git, forced>>

GitUnlock(g) ==
    /\ git[g] # 0
    /\ lockFile' = IF lockFile[git[g]] = g THEN [lockFile EXCEPT ![git[g]] = Absent] ELSE lockFile
    /\ git' = [git EXCEPT ![g] = 0]
    /\ UNCHANGED <<binding, pc, at, handles, cleanupVars, forced>>

\* A human clears a lock left by a crash, or one an admission said it left.
ClearLeftover ==
    /\ \E f \in LockFile :
          /\ \/ lockFile[f] = Orphan
             \/ lockFile[f] \in Admission /\ pc[lockFile[f]] = "idle"
          /\ lockFile' = [lockFile EXCEPT ![f] = Absent]
    /\ UNCHANGED <<binding, pc, at, handles, cleanupVars, git, forced>>

\* A human takes the lock of a live admission for a stale one.
ForceRemove ==
    /\ forced < ForcedRemovals
    /\ forced' = forced + 1
    /\ \E f \in LockFile :
          /\ lockFile[f] \in Admission /\ pc[lockFile[f]] # "idle"
          /\ lockFile' = [lockFile EXCEPT ![f] = Absent]
          /\ undermined' = undermined \union AboutToUnlink(f)
    /\ UNCHANGED <<binding, pc, at, handles, unmarked, reported, git>>

-----------------------------------------------------------------------------
Proceed(a) ==
    \/ TakeLock(a) \/ TakeLockFails(a) \/ Validate(a) \/ Scanned(a) \/ Publish(a)
    \/ Leave(a) \/ CheckLock(a) \/ UnlinkLock(a) \/ End(a)

Next ==
    \/ \E a \in Admission : Begin(a) \/ Proceed(a) \/ Crash(a)
    \/ \E g \in GitCommand : GitLock(g) \/ GitChange(g) \/ GitUnlock(g)
    \/ ClearLeftover \/ ForceRemove

Spec == Init /\ [][Next]_vars

-----------------------------------------------------------------------------
\* What the published lease says of the worktree is true when it is published
\* and stays true until the guard lets go, whatever Git does meanwhile (the two
\* validations under the guard, and publication before its release), as long as
\* no operator has taken a lock in use away.
BindingHolds ==
    forced = 0 =>
        \A a \in Admission : pc[a] \in {"publishing", "published"} =>
            \A f \in LockFile : binding[f] = "bound"

\* Two admissions under different lock roots, which share no mutex, never guard
\* the same worktree together, as long as no operator has taken a lock in use
\* away.
GuardExclusive ==
    forced = 0 =>
        \A a, b \in Admission : pc[a] \in Guarding /\ pc[b] \in Guarding => a = b

\* No lock file is left behind in silence: what an admission created and has not
\* removed, by the end or while it cleans up, is still to be removed or named in
\* the error it raises, whichever of creating, writing, closing, checking and
\* unlinking failed.  (What a crash leaves, or a creation that failed before the
\* file was recorded, stays until a human removes it.)
NoLockLeaks ==
    \A a \in Admission, f \in LockFile : lockFile[f] = a =>
        \/ f \in handles[a] /\ pc[a] # "idle"
        \/ f \in reported[a]

\* No step but its owner's or an operator's removes the lock file of a Git command
\* or of a running admission, unless it is the unlink of an admission whose own
\* lock at that path was removed between its check and its unlink (by an operator,
\* or by another admission in the same position).  A lock taken away before the
\* check costs nobody else theirs.
ForeignLocksUntouched ==
    [][\A f \in LockFile : lockFile'[f] # lockFile[f] =>
          \/ lockFile[f] \notin Admission \union GitCommand
          \/ \E g \in GitCommand : lockFile[f] = g /\ git'[g] # git[g]
          \/ \E b \in Admission :
                lockFile[f] = b /\ (pc[b] = "idle" \/ pc'[b] # pc[b] \/ forced' # forced)
          \/ \E a \in undermined : pc[a] = "unlinking" /\ at[a] = f]_vars
=============================================================================
