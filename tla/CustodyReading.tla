--------------------------- MODULE CustodyReading ---------------------------
(***************************************************************************)
(* ProtectedCustodyVerifier.verify (leases.py) and its Windows variant     *)
(* (windows_custody.py) beside the admissions of LeaseCustody.  The        *)
(* verifier takes no lock.  It reads many files one after the other        *)
(* between two inventories of the lock root and of the repository, and     *)
(* accepts only if every entry is the same in both:                        *)
(*                                                                         *)
(*   idle -> inventory -> surveyed -> quiet -> walking -> rereading        *)
(*        -> accepted                                                      *)
(*                                                                         *)
(* An entry's stamp (inode, size, times, links) never comes back to an     *)
(* earlier value, so an inventory is the same for an entry exactly when    *)
(* nothing has happened to the entry since it was first taken.             *)
(***************************************************************************)
EXTENDS LeaseCustody

CONSTANTS
    \* The lease whose custody is verified.
    Subject,
    NoPoint

ASSUME SubjectAssumption == Subject \in LeaseId

VARIABLES
    \* Where the verifier is.
    step,
    \* The entries the current inventory has still to take.
    todo,
    \* The entries something happened to since the first inventory took them.
    stale,
    \* The record the caller holds in serialised form.
    expected,
    \* The candidate the lineage walk is at.
    walk,
    \* The decision of its chain that is verified next; 0 when all are.
    chain,
    \* Auxiliary: every entry at the moment of the mutex test.
    point

verifier == <<step, todo, stale, expected, walk, chain, point>>

Root == <<"root", 0>>
RecordFile == <<"record", 0>>
History == <<"history", 0>>
ArchiveFile(g) == <<"archive", g>>
DecisionFile(g) == <<"decision", g>>

LockEntry == {Root, RecordFile, History} \union {ArchiveFile(g) : g \in Generation}
RepoEntry == {DecisionFile(g) : g \in Generation}
Entry == LockEntry \union RepoEntry

\* The directory an entry is found in.
Parent(e) == CASE e = RecordFile \/ e = History -> {Root}
               [] e \in {ArchiveFile(g) : g \in Generation} -> {History}
               [] OTHER -> {}

\* What the stamp of an entry depends on.  The lock root changes with the mutex
\* directory and with every link, unlink and replacement of a record in it.
Look(e) ==
    CASE e = Root -> [busy |-> mutex # Free, records |-> records, torn |-> torn]
      [] e = RecordFile -> [file |-> records[Subject], torn |-> Subject \in torn]
      [] e = History -> {g \in Generation : archive[Subject][g] # NoRecord}
      [] e[1] = "archive" ->
            [file |-> archive[Subject][e[2]], torn |-> <<Subject, e[2]>> \in tornArchive]
      [] e[1] = "decision" -> [accepted |-> <<Subject, e[2]>> \notin revoked]

\* A regular file of the lock root with a second hard link is refused.
Ordinary(e) ==
    /\ e = RecordFile => Subject \notin torn
    /\ \A g \in Generation : e = ArchiveFile(g) => <<Subject, g>> \notin tornArchive

ReadingInit ==
    /\ Init
    /\ step = "idle"
    /\ todo = {}
    /\ stale = {}
    /\ expected = NoRecord
    /\ walk = 0
    /\ chain = 0
    /\ point = NoPoint

-----------------------------------------------------------------------------
\* verify is called with the serialised authority of a record published before.
\* (An outdated one is refused as soon as the record is read.)
Call ==
    /\ step = "idle"
    /\ records[Subject] # NoRecord
    /\ step' = "inventory"
    /\ todo' = Entry
    /\ expected' = records[Subject]
    /\ UNCHANGED <<stale, walk, chain, point>>

\* The next entry in the order of an inventory: directories before what they
\* hold, the lock root before the repository.
NextEntry(e) ==
    /\ e \in todo
    /\ Parent(e) \intersect todo = {}
    /\ e \in RepoEntry => LockEntry \intersect todo = {}

\* _protected_tree, first time: one more entry is taken.
Take ==
    /\ step = "inventory"
    /\ \E e \in todo :
          /\ NextEntry(e)
          /\ Ordinary(e)
          /\ todo' = todo \ {e}
          /\ step' = IF todo = {e} THEN "surveyed" ELSE "inventory"
    /\ UNCHANGED <<stale, expected, walk, chain, point>>

\* No admission is in progress.  (Faulty variant: the test is left out.)
SkipMutexTest ==
    /\ step = "surveyed"
    /\ step' = "quiet"
    /\ point' = [e \in Entry |-> Look(e)]
    /\ UNCHANGED <<todo, stale, expected, walk, chain>>
MutexTest ==
    /\ step = "surveyed"
    /\ mutex = Free
    /\ step' = "quiet"
    /\ point' = [e \in Entry |-> Look(e)]
    /\ UNCHANGED <<todo, stale, expected, walk, chain>>

\* The current record is the one the caller holds, and ACTIVE v2.
ReadCurrent ==
    /\ step = "quiet"
    /\ records[Subject] = expected
    /\ Subject \notin torn
    /\ expected.state = "ACTIVE" /\ IsV2(expected)
    /\ step' = "walking"
    /\ walk' = expected.generation
    /\ chain' = expected.generation
    /\ UNCHANGED <<todo, stale, expected, point>>

\* _verify_bound_lease_decision: the decision of the candidate, and then its
\* predecessors one after the other, are accepted.
ReadDecision ==
    /\ step = "walking" /\ chain > 0
    /\ <<Subject, chain>> \notin revoked
    /\ chain' = chain - 1
    /\ UNCHANGED <<step, todo, stale, expected, walk, point>>

\* The candidate the walk is at, which the one before it is compared with.
Candidate == IF walk = expected.generation THEN expected ELSE archive[Subject][walk]

\* previous is what the decision of its successor says it follows.
Precedes(previous, g, next) ==
    /\ previous.lease_id = Subject
    /\ previous.generation = g
    /\ previous.state = "ACTIVE"
    /\ IsV2(previous)
    /\ next.follows = previous.claim
    /\ previous.claim.coordination_repository = next.claim.coordination_repository

\* One historical candidate: it exists and its successor follows it.
WalkBack ==
    LET g == walk - 1
    IN  /\ step = "walking" /\ chain = 0 /\ g > 0
        /\ archive[Subject][g] # NoRecord
        /\ Precedes(archive[Subject][g], g, Candidate)
        /\ walk' = g
        /\ chain' = g
        /\ UNCHANGED <<step, todo, stale, expected, point>>

\* The walk is over and the record is still the same entry.
Reread ==
    /\ step = "walking" /\ chain = 0 /\ walk = 1
    /\ RecordFile \notin stale
    /\ step' = "rereading"
    /\ todo' = Entry
    /\ UNCHANGED <<stale, expected, walk, chain, point>>

\* _protected_tree, second time: an entry must be what it was the first time.
\* (Faulty variant: the second inventory only lists the entries.)
RetakeAnything ==
    /\ step = "rereading"
    /\ \E e \in todo : NextEntry(e) /\ Ordinary(e) /\ todo' = todo \ {e}
    /\ UNCHANGED <<step, stale, expected, walk, chain, point>>
Retake ==
    /\ step = "rereading"
    /\ \E e \in todo :
          /\ NextEntry(e)
          /\ Ordinary(e)
          /\ e \notin stale
          /\ todo' = todo \ {e}
    /\ UNCHANGED <<step, stale, expected, walk, chain, point>>

\* _require_unexpired_acquisition, and the snapshot is returned.
Accept ==
    /\ step = "rereading" /\ todo = {}
    /\ Unexpired(expected)
    /\ step' = "accepted"
    /\ UNCHANGED <<todo, stale, expected, walk, chain, point>>

\* A check fails, a file cannot be read, or the answer has been returned.
Leave ==
    /\ step # "idle"
    /\ step' = "idle"
    /\ todo' = {}
    /\ stale' = {}
    /\ expected' = NoRecord
    /\ walk' = 0
    /\ chain' = 0
    /\ point' = NoPoint

Verifying ==
    \/ Call \/ Take \/ MutexTest \/ ReadCurrent \/ ReadDecision \/ WalkBack
    \/ Reread \/ Retake \/ Accept \/ Leave

\* The entries the first inventory has taken and the verifier still relies on.
Tracked ==
    IF step = "inventory" THEN Entry \ todo ELSE IF step = "idle" THEN {} ELSE Entry

\* An admission, a crash, an operator or an edit moves on beside the verifier.
Beside ==
    /\ Next
    /\ stale' = stale \union {e \in Tracked : Look(e)' # Look(e)}
    /\ UNCHANGED <<step, todo, expected, walk, chain, point>>

ReadingNext == (Verifying /\ UNCHANGED vars) \/ Beside

ReadingSpec == ReadingInit /\ [][ReadingNext]_<<vars, verifier>>

-----------------------------------------------------------------------------
\* What the caller's record says of its own lineage, at the moment "point".
CandidateThen(g) ==
    IF g = expected.generation THEN expected ELSE point[ArchiveFile(g)].file

\* verify reads one file after the other while admissions and edits go on, yet
\* what it accepts was true all at once: at one moment no admission was in
\* progress, the record was the caller's, every earlier candidate was archived
\* and followed by the next one, and every decision of the chain was accepted.
AcceptedWasTrue ==
    step = "accepted" =>
        /\ ~point[Root].busy
        /\ point[RecordFile].file = expected
        /\ expected.state = "ACTIVE"
        /\ \A g \in 1 .. expected.generation - 1 :
              /\ point[ArchiveFile(g)].file # NoRecord
              /\ Precedes(point[ArchiveFile(g)].file, g, CandidateThen(g + 1))
        /\ \A g \in 1 .. expected.generation : point[DecisionFile(g)].accepted
=============================================================================
