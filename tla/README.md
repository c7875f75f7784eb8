# Formal model of the coordination loop harness

TLA+ modules, TLC configurations and TLAPS proofs for
`src/coordination_loop_harness/`. Paths of the form `leases.py:1480` are relative
to that package. `PROJECT.json` maps each definition to the lines it stands for
and lists the runs, the faulty variants that show each property can fail, the
hazards and the theorems.

## 1. The system

The harness coordinates runs of agents that write to several Git repositories. It
keeps everything in files: *leases* in a lock root, *runs* with a status document,
*decisions* that authorise changes, *audits* and *bundles*. There is no server:
every command is a process that reads files, checks them, and writes files. On
Windows an *issuer* process also hands a source over to a *writer* process through
a local pipe.

| Component | State | Operations | Made correct by |
|---|---|---|---|
| Lease admission (`leases.py`) | `<id>.lease.json`, `lease-history/<id>/<g>.json` | `acquire`, `replace`, `release` | leases in force do not conflict; one generation at a time; terminal is final; lineage recoverable; terminal authority truthful |
| Resource claims (`leases.py`) | none, an algebra on documents | `_sets`, `find_overlaps` | reports exactly the conflicts; finalising writer excludes participants |
| Git admission guard (`leases.py`) | `*.lock` files of the bound worktree | enter, validate, reverse cleanup | the worktree does not move while bound; no leaked and no foreign lock removed |
| Admission mutex, atomic writes (`util.py`) | `.repo-set-admission.mutex`, temporary names | `admission_mutex`, `write_json_atomic` | serialises admissions; a crash blocks until a human clears |
| Lease observation (`leases.py`) | none | `observe` | an invalid terminal record still reserves |
| Protected custody verification (`leases.py`, `windows_custody.py`) | none | two inventories around a lineage walk | accepts only what was true all at once |
| Run status (`status.py`) | `status.json` | `transition_status` | legal graph, generation, decision for privileged transitions |
| Run creation (`runs.py`) | a directory of documents, the manifest last | `init_run` | behind a manifest stands one creation's run |
| Local elapsed deadline (`local_time.py`) | anchor, last sample, latched hold | `check`, `invalidate`, `consume_issuer_claim` | sleep cannot hide; holds are real and final |
| Decision verification (`decisions.py`) | none | `verify_decision` | whole predecessor chain accepted |
| Issuer and handoff (`windows_issuer.py`, `windows_capability.py`) | attempt, dialogue, pipe, client session | `claim_once`, `pre_spawn_watchdog`, `bind`, `checkpoint`, `close` | one attempt; both sides agree; fresh evidence behind each stage; it ends |
| MCP facade (`mcp_server.py`) | `.mcp-operation.pending`, staging | `admit_writer`, `release_writer` over the lease operations | the answers are true; leftovers block until reconciled |
| Writer observation, Windows security | none | reads of processes, Jobs, tokens, ACLs | - |
| Audits (`audit.py`) | a Markdown report and a JSON record | `record_audit` | the record binds its own report |
| Bundle seal (`bundles.py`) | `bundle-seal.json` | `seal_bundle`, `verify_bundle` | what verifies was there all at once |
| Bootstrap and template sync (`bootstrap.py`) | managed files, provenance | `bootstrap_repository` | consistent after a partial failure |
| Blockers, bindings, model and schema validation, writer custody observations, command line | none that outlives a call | - | - |

**Interaction.** Lease operations call overlap, decision verification and the
guard, all inside the admission mutex and around one atomic publication. Status
transitions call decision verification, but take no lock. The facade calls lease
operations inside a fence of its own. The issuer calls custody verification, which
reads the lock root, and writer observation, and checks one deadline object before
and after each; client sessions do the same with theirs. Processes share nothing
but files; threads of one process share a deadline and a session.

**What is hard.** Several processes on one lock root, several lock roots on one
worktree, Git beside both; crashes between any two file operations, with human
clearing afterwards; leases expiring and evidence edited during an operation;
read-check-write on `status.json` without a lock; verifications that read many files
beside their writers; several files written one after the other; sampling host counters from
several threads on a host that sleeps; two processes with timeouts of their own
and acknowledgements that look alike. `PROJECT.json` lists each hazard at its line.

## 2. Modules

| Module | What it models |
|---|---|
| `LeaseOverlap` | the resource algebra: access maps, READ/WRITE merging, coordination repository, nested paths, the validators' conditions on a claim; and, independently of the maps, what the documents call a conflict (`DocumentedConflict`) |
| `LeaseOverlapCheck`, `LeaseOverlapMC` | a claim held and a claim submitted beside it, and whether the two notions of conflict agree on them; the pairs TLC enumerates |
| `CustodyContract` | abstract specification: what the lock root promises, three actions (grant, change, end) |
| `LeaseCustody` (EXTENDS `LeaseOverlap`, INSTANCEs the contract) | `acquire`, `replace`, `release`, mutex, publication, archive, clock, evidence, crashes, operators |
| `CustodyObstacles` (EXTENDS `LeaseCustody`) | what stands in the way of each operation under way, and since when |
| `LeaseCustodyMC`, `CustodyAdmissionMC`, `LeaseCustodyProofs` | instances, without and with the obstacles; theorems |
| `CustodyReading` (EXTENDS `LeaseCustody`), `-MC`, `-Proofs` | the protected verifier entry by entry, beside everything `LeaseCustody` does |
| `McpFacade` (EXTENDS `CustodyContract`), `-MC`, `-Proofs` | facade servers and direct callers over the contract of the lock root |
| `RunRecords`, `-MC`, `-Proofs` | creations, audits, seals and verifications of one run, file by file |
| `WriterGuard`, `-MC`, `-Proofs` | the Git lock files of one worktree, one by one, against Git commands and other lock roots |
| `RunStatus`, `-MC`, `-Proofs` | `transition_status` step by step |
| `LocalDeadline`, `-MC`, `-Proofs` | `LocalDeadline.check` and `invalidate` on a running, sleeping, faulty host |
| `HandoffContract` | abstract specification: what the handoff promises its two ends, six actions on four variables |
| `Handoff` (INSTANCEs its contract), `-MC`, `-Proofs` | issuer objects and one client session over a pipe |

Operators marked *faulty variant* in a module are not part of its specification.
Each is a plausible mistake in the definition that follows it, kept to show that the
property it breaks is able to fail.

### LeaseCustody

One process per caller, one `pc` value per place where another process, the clock,
an edit or a crash can come between:

    prepared -> admitted -> examined -> guarded -> scanned -> verified
      -> (archiving -> archived) -> staged -> (linked) -> leaving -> unguarded -> idle

`Enter`/`Refused`/`Exit` are the `mkdir`/`rmdir` of the mutex, a try-lock. `Examine`
reads the record and makes the checks before the guard, `Scan` and `Verify` those
under it, `Archive` and `SettleArchive` are `_preserve_previous_candidate`, `Stage`
is the temporary file with `before_publish`, `Publish` the link or replace, `Settle`
the unlink of the temporary name, `Abort` any exception, `Unguard` the removal of
the Git locks. The variables `records`, `torn`, `archive`, `tornArchive` are files
and their second hard links; `job` and `seen` are local variables of the operation.

Abstractions:
- the Git locks of a writer's worktree are one lock here; `WriterGuard` takes them apart;
- a decision is identified by its generation and the claim it covers, so `follows`
  names the claim the predecessor decision authorised; a decision, its companion and
  the outcome files verify or do not (`revoked`), at each reading anew;
- candidate documents are drafted from what the caller observed when it prepared
  them, which may be out of date when the mutex is entered;
- publication is the POSIX branch (link then unlink); temporary files of dead
  processes and a mutex directory exchanged under its owner are left out;
- the wall clock never goes back;
- an operator clears only a mutex that a dead process left, as `docs/leases.md`
  and `docs/REPOSITORY_OWNERSHIP_V2.md` require;
- names are canonical already (casefolding, absolute paths).

`CustodyObstacles` adds one variable to these steps. An *obstacle* of an operation is
missing evidence of its candidate, an instant for which its authority is not made, or
another lease that reserves what it claims: in force, half published, or terminal with
evidence that has gone since. Obstacles come and go at any moment. The code looks for
each several times, and promises nothing about what appears after the last look: for
leases the scan, for evidence the check before it archives and stages (a release looks once
more as it stages), for the time `before_publish`. `standing` holds the obstacles that have
been there without a break since before that look, and `NothingStoodInTheWay` says that no
record is published over one of them. A recheck that is left out, or a scan that takes a
released record for free whatever has become of its evidence, violates it.

### CustodyReading

`ProtectedCustodyVerifier.verify` takes no lock. It takes an inventory of the lock root
and of the repository, one entry after the other (`Take`), tests that the mutex is absent
(`MutexTest`), walks from the current record over the archive and the decisions
(`ReadCurrent`, `ReadDecision`, `WalkBack`), reads the record again (`Reread`), repeats
the inventories (`Retake`) and accepts if nothing differs. `stale` holds the entries to
which something happened after the first inventory took them; an entry's stamp (inode,
size, times, links) never returns to an earlier value, so the second inventory finds
exactly the stale ones. `point` is auxiliary: every entry at the mutex test. The property
is that acceptance was true of that moment. `Beside` is every step of `LeaseCustody`, and
edits of decisions as revoking and restoring.

Abstractions: ownership, permissions and link checks are whether an entry is ordinary; a
regular change of a decision, its companion or an outcome is one to the decision's entry;
archives of other leases are not inventoried; the Windows variant takes other stamps for
the same test, and its look at the Git binding is left out.

### McpFacade

The core is not modelled again: `EXTENDS CustodyContract` gives the facade what
`LeaseCustody` is proved to implement, one publication at some moment or none, and then a
return or an exception (`Publish`, `CoreReturns`, `CoreRaises`). A call observes custody in
two reads, status and digest (`ReadStatus`, `ReadDigest`), creates the fence
(`TakeFence`), the snapshot (`Snapshot`), runs the core, cleans up snapshot before fence
(`CleanUp`), and then either reloads and confirms or judges what the failure changed
(`Judge`). A server may die at any step; people clear the fence and the snapshots it left;
`PublishDirectly` is a caller that does not use the facade, on the same lease at the same
time. `published` is auxiliary.

One thing the model makes visible: an OK admission returns `authority`, observed after
the document was reloaded, beside the reloaded document. If a direct caller replaces the
lease in between, the two are of different generations.

### RunRecords

Creations, audits, seals and verifications are calls of one module, because they share
the files of a run. What a program sees of a file is whether it is there and what it
holds, one of a small set of texts that may recur: a file can be changed and put back, or
removed and written again with the same bytes. A hash tells texts apart and nothing else
(`SameHash`), so such a file verifies, as it does in the code. Which version a file is and who
made it are history, by which the properties say what should be true.
`CheckTarget` and `CreateTarget` go through the targets of `init_run` one by one, JSON
files only if absent (`Exclusive`), Markdown whatever is there. `CheckAudit`,
`WriteReport`, `HashReport`, `Withdraw` and `CreateRecord` are `record_audit`; `Look`,
`HashEntry` and `HashBinding` the three passes that `seal_bundle` and `verify_bundle`
have in common. `Stop` is any refusal, failing I/O or death. People edit complete runs and
audits, remove files of an audit, and clear what an ended creation without a manifest left.

`VerifiedWasWhole` excepts the one case that hashes cannot show: a file that somebody wrote
with the very sealed bytes after the seal was loaded and before it was read. Every other
sealed file held its sealed bytes at the loading.

Abstractions: targets are checked in the order they are written; a Markdown file that is
half written is a version of its own, and one read while it is being written is read
before or after; the secret scan either refuses or does not; links are refusals; other
directories and `.gitkeep` are left out. `sole` and `began` are auxiliary.

`AuditStands` speaks of calls that no other `record_audit` on the same audit id
overlapped (`sole`). Of two that overlap, both may pass the existence check; the second
report replaces the first, and a record may then bind the report of the other call. The
record is still published only once, and `verify_audit` compares hashes, so what it
accepts is a record of a report that is there.

### WriterGuard

Each admission is under its own lock root, so the mutex does not order them. The
lock files are numbered in the code's sorted order, file `f` guards part `f` of the
binding. Git changes a part only while it owns that part's lock file; removal of a
whole worktree and editors are outside. `ForceRemove` is an operator who takes the
lock of a live admission for a stale one.

Everything about one lock file may fail, and the model keeps the failures. Creation may
fail after the file exists (`TakeLockFails`): the marker is incomplete, so that the
cleanup will not recognise the file, or the guard raises at `fstat` before it has recorded
it, which leaves an orphan as a crash does. The cleanup closes, stats and reads a lock
(`CheckLock`), and then unlinks it by path (`UnlinkLock`); a failing step leaves the file
and adds it to the error (`Report`, the set `reported`). Between the two steps the file at
the path may be exchanged, and the unlink takes whatever is there: if an operator removes
the admission's lock in that window and Git takes the path, the code deletes Git's lock.
The property grants exactly this case, by the auxiliary variable `undermined`, and no
other. Stat and read are one step: identity and marker are never reused, so a file that
is the created one at the read was so at the stat.

### RunStatus

`Request`, `Load` (read and check), `Decide` (privileged decision), `Write` are
separate steps, because no lock holds them together. `HistoryEntry.decision` stands
for the decision reference the code stores.

### LocalDeadline

One check is five steps, since the host advances between the three counter reads.
`slept` in a sample is auxiliary: the sleep of the host when the unbiased counter
was read. The witnesses (boot, process, counter source) are one Boolean.

### Handoff

The issuer side is `claim_once`, cut at every frame and check; the client side is
`request_source_handoff` and `WindowsHandoffSession`. Frames cross whole, and a reply
names the frame it answers (its key set and stage); tokens, handles and identifiers
are right or not, and a wrong one ends the session as any failing check does
(`Break`, `ClientClose`). When an end closes, what it had sent may still be read or
may be lost. The deadline of each side is reduced to what the dialogue sees of it:
latched or not, and seconds left. `custody` and `writer` say whether verification
would succeed at this moment and change at any moment. `evidence` is auxiliary: what
the issuer has checked since the client last began a request; `late` counts what the
client passes under a latched hold. Three details of the
code that shape the model: `pre_spawn_watchdog` does not look at the client's latched
deadline; a stage already under way when a foreign thread latches the deadline may
still be passed; and the issuer may fail at its last peer lookup after the client has
completed.

`HandoffContract` leaves the frames, checks and waits out: a claim that serves once, an
owner who arrives and departs once, and two counters, milestones acknowledged and
milestones passed (the binding and the four stages). The refinement mapping reads the
claim off `server` and `pc`, the owner off `client`, what was acknowledged off the
furthest `phase`, and what was passed off `bound` and `next`.

## 3. Runs

| Run | Question | Result |
|---|---|---|
| `lease_overlap` | does `find_overlaps` report exactly the conflicts the documents describe, for v1 and v2? | holds |
| `custody_admission` | two processes, two lease ids; a reader and a coordination self-write; expiry; evidence coming and going: exclusion, serialisation, terminal authority, publication under all locks and over no obstacle, refinement of the contract | holds |
| `custody_lineage` | one lease id, three generations, evidence coming and going: types, fence, archive, lineage, and every admission ends | holds |
| `custody_reading` | is what the protected verifier accepts true all at once? | holds |
| `mcp_facade` | two servers and a direct caller: one fenced mutation at a time, true answers, leftovers kept | holds |
| `run_records` | three calls of any kind on one run, and people who may put files back: whole runs, audits that stand, sound verification | holds |
| `status_race` | two racing callers: history replays; a caller with a current copy follows the graph | holds |
| `status_overwrite` | does the status file follow the graph? | violated, finding 1 |
| `writer_guard` | two lock roots and two Git commands, one forced removal, failing I/O: binding holds and one guard at a time until the removal; no lock left in silence, and none of others removed but in the window between check and unlink, even then | holds |
| `local_deadline` | two polling threads: sleep bounded, regressions real, holds final | holds |
| `handoff` | two issuers and a client: one attempt, agreement, fresh evidence, holds observed, no claim ever stuck, termination, refinement of `HandoffContract` | holds |
| `handoff_frame_wait` | is the documented frame wait honoured? | violated, finding 2 |

**Bounds.** `MaxGeneration`, `Horizon`, `RevocationBound`, `ForcedRemovals`,
`MaxTick`, `MaxRegressions`, `Lifetime` are bounds of the instances; each is a
constant and appears in a guard.
- Overlap is decided pairwise and resource by resource, so pairs of claims over two
  repositories, a coordination repository, three nested or disjoint paths, one branch
  and one scope contain every way in which two claims can meet.
- Two processes and two lease ids are enough for every race of the admission, whose
  properties are about pairs. One expiry instant (0) and `Horizon = 1` give "before"
  and "after" for each check. `custody_admission` goes to generation 2, so that
  replace, release, and both after a crash happen, with two claims that meet in different
  ways, READ and the coordination self-write, and one piece of evidence missing at any
  moment. Historical v1 claims are in `custody_reading` and, pair by pair, in `lease_overlap`.
  `custody_lineage` goes to generation 3, so that the archive holds two links of a chain, with
  one revocation at any moment and the same clock; it has no symmetry, because of the
  liveness property. The theorems hold for every `RevocationBound`.
- `custody_reading` has one admission process, which is all the mutex lets in at a time,
  crashes and successors included, two generations (a current record and one archived
  candidate), a v2 and a v1 claim, one expiry and one revocation. Three generations take
  four minutes and show nothing new; the theorem holds for any number.
- `mcp_facade`: two calls with staging roots of their own meet at the fence, one lease,
  an admission and a release of two generations, v1 and v2 claims.
- `run_records`: three calls are a writer, a sealing and a verifying call, or two racing
  creations and a third after them. Three created files are two JSON files, the manifest
  one of them, and a Markdown file that pairs with the other. Two texts and `MaxEdits = 2`
  are a file changed and put back, or two files changed between two reads.
- `status_race` and `status_overwrite` go to generation 5: admission, start, block and
  resumption, so that both kinds of decision occur in one history.
- `writer_guard` has three lock files for two admissions and two Git commands:
  partial acquisition, a refusal in the middle and reverse cleanup all occur; one forced
  removal lets a Git lock appear at a path the guard will clean up.
- `local_deadline`: tolerance 1, gap 3, duration 5, six ticks: the sleep bias passes
  the tolerance by slices, the deadline is reached and passed.
- `handoff`: `IoWait = 1`, `FrameWait = 3` as in the code, `Lifetime = 3`. Waits are
  counted up to `FrameWait` and the lifetime down to 0, so time itself is unbounded.

**Deadlock.** It is checked where somebody can always move: the custody, reading, facade,
guard and handoff runs. `RunStatus` stops when the run is terminal; `LocalDeadline` at a
latched hold and the last tick; `RunRecords` when all calls have ended and no file may be
changed any more; `LeaseOverlapMC` after one pair. These say `CHECK_DEADLOCK FALSE`.

**Symmetry** permutes processes, callers, threads, lease ids, admissions, calls, texts and Git
commands, in runs without liveness only.

**Fairness.** `custody_lineage` assumes that a process that has started keeps
executing (weak fairness of `Proceed(p)`) and nothing else: it never waits for another
one, because the mutex and the Git locks are taken or refused at once. No fairness is
assumed of crashes, operators, evidence or the clock. `handoff` assumes that the issuer
keeps executing and that seconds pass; nothing is asked of the client, which may be
silent, slow or chattering. In both modules the fairness of one process or issuer is
named `KeepsRunning`. What it is worth depends on a step being possible whenever it is
needed. Inside the mutex that is plain from the guards: any check may raise (`Abort`), and
`Unguard` and `Exit` ask for nothing. A claim may wait, for the client's connection or its
next frame and for nothing else, and `ClaimNeverStuck` says with ENABLED, in every state
and not only in fair behaviours, that it waits no longer than `IoWait`.

## 4. Findings

1. *Status transitions overwrite each other* (`status_overwrite`, `status.py:108`).
   `transition_status` checks the graph and the expected generation against a copy and
   replaces the file without a lock. Two callers with the same expected generation both
   succeed, and the second one's version replaces the first's at the same generation.
   `docs/command-reference.md:31-32` says the command enforces the graph and the
   optimistic generation. What does hold is proved: every version replays
   (`HistoryReplays`), and a caller whose copy is still current follows the graph
   (`CurrentCopyFollowsGraph`).
2. *The frame wait is one second, not three* (`handoff_frame_wait`,
   `windows_capability.py:308`). `read_frame` computes a cutoff of three seconds, but
   the overlapped read under it gives up after `IO_WAIT_MS = 1000`.
   `docs/WINDOWS_LOCAL_HANDOFF_CONTRACT.md:100-101` promises the three-second wait.

## 5. Proofs

Proved for every value of the constants that satisfies the named assumptions.

**LeaseCustodyProofs.** `Invariance` proves an inductive invariant, from which follow
`TypeCorrect`, `Serialisation`, `LeasesExclude`, `FinalizerAlone`, `FenceHolds`,
`ArchiveFrozen`, `PublicationGuarded` and `Refinement` (`Spec => ImplementsContract`).
Exclusion alone is not inductive: at the step that publishes, the reason no conflict
arises is a scan made several steps earlier. The invariant therefore carries, for a
process from "scanned" to publication, that its candidate conflicts with no other record
in force, that the process owns the mutex, that the mutex has one owner, and that the
record it replaces is the one it read. Since records change only under the mutex, no
other process can disturb the first fact, whatever evidence and clock do. `Abort`,
`Crash` and the operators' actions preserve it because the scan result is tied to `pc`.

The scan speaks of access maps, `LeasesExclude` of things accessed. `OverlapFaithful`
joins them: for all claims, `ClaimsConflict` is `DocumentedConflict`. Per kind of thing a
lemma says which things a map names and which it takes (`Merged`: WRITE absorbs READ);
for files, two paths are comparable iff some path lies below both (`PathsMeet`).
`FinalizerAlone` is its consequence for the coordination repository. `ComparisonExact`
and `SelfWriteExcludes` state the two properties of `LeaseOverlapCheck`, for any set of
claims in the place of those TLC enumerates.

Three more theorems build on this invariant. For `LineageKept` an operation past its
examination has a candidate that follows the claim of the record it read (`Decided`), and
a v2 replacement past its archive step has that record in `lease-history` (`Preserved`);
since archived candidates never change and the record read is still current, publication
extends the chain, and a crash before it leaves the chain as it was. For
`ReleasesTruthful` a drafted release names STALE_RECOVERY exactly when it lies past the
expiry (`ReleaseLifecycle`), the authority check finds that time in the past, and the
clock does not go back. `PublishedUnobstructed` (`TrackedSpec => NothingStoodInTheWay`)
takes the looks one at a time: `MovesOn` says from where an operation goes where, `ScanLooks`,
`VerifyLooks`, `StageLooks` and `LooksInTime` that the step which looks for the last time
passes only if the obstacle is absent, and `StandingStep` that afterwards an obstacle does not
enter `standing`; so at the publication none of the publishing process is there.

Assumptions: claims are well-typed, paths are sequences of strings, the clock bound and
expiries are naturals, the sentinels are distinct from documents and processes.

**CustodyReadingProofs.** `AcceptanceSound`, for any admissions, leases and generations.
What the verifier reads after the mutex test holds at that point for every entry to which
nothing has happened since the first inventory (`Standing`); an acceptance has found all
entries standing. Holding the current record and the archive together needs one fact
about writers: between the test and the second inventory a publication changes the stamp
of the lock root.

**McpFacadeProofs.** `RefusedTruthful`, `ConfirmedTruthful`, `FenceExcludes`,
`LeftoversKept` and `FacadeLeasesExclude`. The generation of a lease never goes down,
and the publication of a call raises it above what the call observed before; so an equal
observation afterwards proves that it published nothing, whoever else published.
`FacadeLeasesExclude` is a theorem about the contract: each of its guards looks at the
one lease id that moves, which keeps all leases in force apart (`ContractInductive`). It
carries over to the facade because the facade moves leases by the contract's actions and
not otherwise, which is how the model is built (the lemma `FacadeKeepsContract`) and
says nothing about the facade's own code.

**RunRecordsProofs.** `RunsAreWhole`, `AuditsStand`, `VerificationSound`, for any number
of calls, files and pairs. A creation that has written its first file is the only one,
since that file is published if absent; an audit without company knows what the report
is, and while its record stands no other call passes the existence check. For the seal:
what the verifying call hashed of a file is the file as it was when the seal was loaded or
a later version (`BeganInv`); in the first case equal hashes say that it held the sealed
bytes then, in the second somebody wrote it since, with those bytes. A file the listing did
not find was gone at the loading or has changed since.

**WriterGuardProofs.** `GuardFreezesWorktree` and `GuardExcludes`, for any number of lock
files, admissions and Git commands, up to the first forced removal, as the properties
say. The invariant is that until then an admission past its lock loop owns every lock
file, and that what it has validated so far is bound. `NoLeak` and `OthersKeepTheirLocks` do
not depend on it: the books an admission keeps of the locks it created (`BookInv`) stay
complete whatever operators do. `OthersKeepTheirLocks` adds that an admission about to
unlink a file that is not its own is on record as undermined (`WindowKnown`).

**RunStatusProofs.** `EveryVersionReplays` and `CurrentCopies`, for any number of callers:
the copy each caller holds replays to its state, and what it decided belongs to the
transition it asked for.

**LocalDeadlineProofs.** `SleepIsBounded`, `RegressionsAreReal`, `HoldIsFinal`, for any
tolerance, gap and duration: while the counters never went back, each sampled counter
lies between the host's values at the start of the check and now, and the bias of a
passing sample is within a tolerance of the anchor's.

**HandoffProofs.** `OneAttempt`, `HoldIsObserved`, `StagesInStep` and
`PassesRestOnFreshEvidence`, for any number of issuer objects and any waits. The first
rests on the attempt being burnt by whoever gets past the claim; the second on the
observation before each write: after one pass under a latched hold the writer is bound
and nothing is under way, so nothing begins again.

The other two share an invariant on the dialogue. While the client is there, client,
frame queues and the one running claim are together in one of eight shapes
(`OpenShape`), told apart by where the client's frame is (not sent, unread, under check,
answered) and whether the acknowledgement, which the client does not wait for, is still
in front of it. When the claim is over, what is left of its last answer fits the client
(`OverShape`); when the client is gone, the phase fits what it passed (`Fits`). `Base`
names the phase the client stands at, and each shape puts the claim there, one
acknowledgement behind or one answer ahead, which is `StagesAgree`. That an answer under
way rests on fresh checks is a part of the shape "answered": the claim's checks are
within the evidence gathered since the client began, because no frame of a request is
ever left in a queue when the next one begins.

`HandoffRefinement` shows from the same invariant that `Handoff` implements
`HandoffContract`. The invariant fixes what the mapping shows (`SeenIs`): of all claims
at most one has a phase, and the milestones acknowledged are its phase less two. Opening
the pipe is the contract's `Serve`, any end of a claim its `End`; an answer that moves
the phase past the binding comes out of the shape "under check", where both counters
agree, and is `Acknowledge`; an answer that moves the session on comes out of
"answered", one ahead, and is `Pass`. Every other step stutters.

**Liveness.** `AdmissionsEnd` and `ClaimsEnd` prove the two liveness properties for any
number of processes or issuers, from the fairness of `FairSpec` and from premises that
the prover cannot establish. The premise of both is that nothing is ever stuck, which
speaks of ENABLED: `NeverStuck` for admissions, which holds by the guards (every step in
the mutex may raise), and `ClaimNeverStuck`, an invariant that the run checks. What is
proved is the rest of the argument. In the mutex a process has at most eleven steps to
go (`StepsLeft`); its own step brings it nearer (`ProceedAdvances`), nobody else moves
it except by its death (`OthersLeave`), so fairness takes it out.

A claim may run as long as the client keeps it busy before the deadline: from then on
nothing is verified any more, and at most six steps are left, the longest being to reply
to a frame that was checked in time, to read one more and to reject it
(`ServeAdvances`). Between them it may wait, and a wait that has run out stays so until
the claim moves (`RipeStays`: the issuer's clock is reset by the claim alone). So
`ClaimsEnd` has one more premise, `TimePasses`: the deadline arrives, and no wait stays
below its limit for ever. In `FairSpec` both follow from the fairness of `Tick`, by
induction over the seconds, which the prover cannot do over temporal formulas; TLC
checks `ClaimEnds` without this premise.

**Model-checked only.** `ClaimNeverStuck`, which the prover cannot treat because of
ENABLED, and that time passes in the handoff. Every other
property of the passing runs is stated by a theorem, the two liveness properties under
the premises above.

## 6. Plan

In the order of what the program depends on most; done: `LeaseOverlap`, `LeaseCustody`
and `CustodyContract` with refinement; `RunStatus`; `WriterGuard`; `LocalDeadline`;
`Handoff`; `CustodyReading`; `McpFacade`; `RunRecords`; `HandoffContract` with
refinement; `CustodyObstacles`; the theorems of section 5, liveness included. Worth adding:
proofs of the two ENABLED premises and of `TimePasses`, once the prover can do them.

## 7. Not modelled

- I/O that only reads (Git and gh commands, processes, Jobs, tokens, ACLs): it enters as a
  verdict that may change at any moment.
- Schema evaluation, document formatting, canonical JSON and path canonicalisation.
- Writer custody observations: the evaluator returns "not permitted" on every path.
- The predecessor walk of `verify_decision` as a loop: it reads immutable-by-convention
  documents, keeps nothing, and its callers see one verdict, which is what they use.
- Bootstrap and template sync: a compatibility interface that `docs/architecture.md:28`
  and `docs/CLH_CLT_BOUNDARY.md:15` call frozen and outside the product. It writes the
  managed files one by one and the provenance last (`bootstrap.py:320`); a crash in
  between is met by the next run as conflicts, which it refuses to overwrite.
- `render_attach` beyond an edit of one file of a run; `verify_audit`, `list_leases` and
  the inspecting MCP tools, which only read.
- Blockers, goal binding and harness model validation: pure checks that tests enumerate.
- The list of uncertain overlapped operations (`windows_capability.py:312`): it needs a
  driver that never completes a cancelled operation.
- Windows publication (new records are moved into place without a second link, a special
  case of the POSIX steps), a mutex directory exchanged under its owner, clocks set back.
