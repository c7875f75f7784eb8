------------------------ MODULE CustodyReadingProofs ------------------------
(***************************************************************************)
(* Proofs about CustodyReading, for every set of processes, leases, claims *)
(* and every bound.  The moment at which everything accepted was true is   *)
(* the mutex test: an entry that both inventories found the same has not   *)
(* changed since, so what was read of it later was already so then.        *)
(***************************************************************************)
EXTENDS CustodyReading, LeaseCustodyProofs

Tested == {"quiet", "walking", "rereading", "accepted"}
Read == {"walking", "rereading", "accepted"}

\* The entries that are still, or were when the second inventory took them,
\* what they were at the mutex test.
Standing ==
    {e \in Entry : e \notin stale \/ (step \in {"rereading", "accepted"} /\ e \notin todo)}

PointKept ==
    step \in Tested =>
        /\ \A e \in Entry : e \notin stale => Look(e) = point[e]
        /\ point[Root].busy = FALSE

RecordHeld ==
    step \in Read =>
        /\ expected.state = "ACTIVE"
        /\ RecordFile \in Standing => point[RecordFile].file = expected

DecisionsHeld ==
    step \in Read =>
        \A g \in 1 .. expected.generation :
            (g > chain \/ walk < expected.generation) /\ DecisionFile(g) \in Standing =>
                point[DecisionFile(g)].accepted = TRUE

ArchivesHeld ==
    step \in Read =>
        \A g \in walk .. expected.generation - 1 :
            ArchiveFile(g) \in Standing =>
                /\ point[ArchiveFile(g)].file # NoRecord
                /\ g + 1 = expected.generation \/ ArchiveFile(g + 1) \in Standing =>
                      Precedes(point[ArchiveFile(g)].file, g, CandidateThen(g + 1))

WalkPlaced ==
    /\ step # "idle" => expected \in Record
    /\ step \in Read => walk \in 1 .. expected.generation /\ chain \in 0 .. walk
    /\ step \in {"rereading", "accepted"} => walk = 1 /\ chain = 0
    /\ step = "accepted" => todo = {}

Held == PointKept /\ RecordHeld /\ DecisionsHeld /\ ArchivesHeld /\ WalkPlaced
RInv == IInv /\ Held

-----------------------------------------------------------------------------
(* Entries.                                                                *)

\* What the stamps of the entries tell.
LEMMA Looks ==
    /\ Look(Root).busy = (mutex # Free)
    /\ Look(RecordFile).file = records[Subject]
    /\ \A g \in Generation :
          /\ Look(ArchiveFile(g)).file = archive[Subject][g]
          /\ Look(DecisionFile(g)).accepted = (<<Subject, g>> \notin revoked)
BY DEF Look, Root, RecordFile, History, ArchiveFile, DecisionFile

\* The named entries are entries.
LEMMA Entries ==
    /\ Root \in Entry /\ RecordFile \in Entry
    /\ \A g \in Generation : ArchiveFile(g) \in Entry /\ DecisionFile(g) \in Entry
BY DEF Entry, LockEntry, RepoEntry

\* The verifier itself writes nothing.
LEMMA LookFixed ==
    ASSUME UNCHANGED vars, NEW e
    PROVE  Look(e)' = Look(e)
BY DEF Look, vars

\* Once the mutex was tested, an entry beside stays as it was or becomes stale.
LEMMA BesideStale ==
    ASSUME Beside, step \in Tested
    PROVE  /\ stale \subseteq stale'
           /\ \A e \in Entry : e \notin stale' => Look(e)' = Look(e)
BY DEF Beside, Tracked, Tested

\* The generations of the caller's record are generations.
LEMMA Generations ==
    ASSUME expected \in Record
    PROVE  expected.generation \in Generation
BY DEF Record

-----------------------------------------------------------------------------
(* The steps of the verifier, and the steps beside it.                     *)

LEMMA InitRInv == ReadingInit => RInv
<1> SUFFICES ASSUME ReadingInit PROVE RInv
  OBVIOUS
<1>1. IInv
  BY InitIInv DEF ReadingInit
<1>2. Held
  BY DEF ReadingInit, Held, PointKept, RecordHeld, DecisionsHeld, ArchivesHeld,
         WalkPlaced, Tested, Read
<1> QED
  BY <1>1, <1>2 DEF RInv

LEMMA CustodyStep == IInv /\ [ReadingNext]_<<vars, verifier>> => IInv'
<1>1. ASSUME [ReadingNext]_<<vars, verifier>> PROVE [Next]_vars
  BY <1>1 DEF ReadingNext, Beside, vars
<1> QED
  BY <1>1, NextIInv

\* Before the mutex test, and after the verifier has left, there is nothing to
\* keep but the type of the caller's record.
LEMMA EarlyStep ==
    ASSUME RInv, UNCHANGED vars, Call \/ Take \/ Leave
    PROVE  Held'
<1>1. step' \notin Tested
  BY DEF Call, Take, Leave, Tested
<1>2. WalkPlaced'
  <2>1. CASE Call
    BY <2>1, SubjectAssumption DEF Call, RInv, IInv, TypeOK, WalkPlaced, Read
  <2>2. CASE Take
    BY <2>2, <1>1 DEF Take, RInv, Held, WalkPlaced, Read, Tested
  <2>3. CASE Leave
    BY <2>3 DEF Leave, WalkPlaced, Read
  <2> QED
    BY <2>1, <2>2, <2>3
<1> QED
  BY <1>1, <1>2 DEF Held, PointKept, RecordHeld, DecisionsHeld, ArchivesHeld, Tested, Read

LEMMA TestStep ==
    ASSUME RInv, UNCHANGED vars, MutexTest
    PROVE  Held'
<1>1. \A e \in Entry : point'[e] = Look(e) /\ Look(e)' = Look(e)
  BY LookFixed DEF MutexTest
<1>2. point'[Root].busy = FALSE
  BY <1>1, Looks, Entries DEF MutexTest
<1>3. step' = "quiet" /\ step = "surveyed" /\ expected' = expected
  BY DEF MutexTest
<1>4. PointKept'
  BY <1>1, <1>2 DEF PointKept
<1>5. WalkPlaced'
  BY <1>3 DEF RInv, Held, WalkPlaced, Read
<1> QED
  BY <1>3, <1>4, <1>5 DEF Held, RecordHeld, DecisionsHeld, ArchivesHeld, Read

LEMMA ReadCurrentStep ==
    ASSUME RInv, UNCHANGED vars, ReadCurrent
    PROVE  Held'
<1>1. /\ step = "quiet" /\ step' = "walking"
      /\ UNCHANGED <<todo, stale, expected, point>>
      /\ records[Subject] = expected /\ expected.state = "ACTIVE"
      /\ walk' = expected.generation /\ chain' = expected.generation
  BY DEF ReadCurrent
<1>2. expected \in Record /\ expected.generation \in Generation
  BY <1>1, Generations DEF RInv, Held, WalkPlaced
<1>3. PointKept'
  BY <1>1, LookFixed DEF RInv, Held, PointKept, Tested
<1>4. RecordHeld'
  <2>1. ASSUME RecordFile \in Standing' PROVE point[RecordFile].file = expected
    <3>1. RecordFile \notin stale
      BY <2>1, <1>1 DEF Standing
    <3>2. Look(RecordFile) = point[RecordFile]
      BY <3>1, <1>1, Entries DEF RInv, Held, PointKept, Tested
    <3> QED
      BY <3>2, <1>1, Looks
  <2> QED
    BY <1>1, <2>1 DEF RecordHeld, RecordFile
<1>5. DecisionsHeld' /\ ArchivesHeld'
  BY <1>1, <1>2 DEF DecisionsHeld, ArchivesHeld, Generation
<1>6. WalkPlaced'
  BY <1>1, <1>2 DEF WalkPlaced, Generation
<1> QED
  BY <1>3, <1>4, <1>5, <1>6 DEF Held

LEMMA ReadDecisionStep ==
    ASSUME RInv, UNCHANGED vars, ReadDecision
    PROVE  Held'
<1>1. /\ step = "walking" /\ chain > 0 /\ chain' = chain - 1
      /\ UNCHANGED <<step, todo, stale, expected, walk, point>>
      /\ <<Subject, chain>> \notin revoked
  BY DEF ReadDecision
<1>2. /\ expected \in Record /\ expected.generation \in Generation
      /\ walk \in 1 .. expected.generation /\ chain \in 0 .. walk
  BY <1>1, Generations DEF RInv, Held, WalkPlaced, Read
<1>3. Standing' = Standing
  BY <1>1 DEF Standing
<1>4. PointKept' /\ RecordHeld'
  BY <1>1, <1>3, LookFixed DEF RInv, Held, PointKept, RecordHeld, RecordFile
<1>5. ArchivesHeld'
  BY <1>1, <1>3 DEF RInv, Held, ArchivesHeld, ArchiveFile, CandidateThen, Precedes
<1>6. WalkPlaced'
  BY <1>1, <1>2 DEF WalkPlaced
<1>7. DecisionsHeld'
  <2> SUFFICES ASSUME NEW g \in 1 .. expected.generation,
                      g > chain - 1 \/ walk < expected.generation,
                      DecisionFile(g) \in Standing
               PROVE  point[DecisionFile(g)].accepted = TRUE
    BY <1>1, <1>3 DEF DecisionsHeld, DecisionFile
  <2>1. CASE g = chain
    <3>1. g \in Generation
      BY <1>2, GenerationAssumption DEF Generation
    <3>2. DecisionFile(g) \in Entry /\ DecisionFile(g) \notin stale
      BY <3>1, <1>1, Entries DEF Standing
    <3>3. Look(DecisionFile(g)) = point[DecisionFile(g)]
      BY <3>2, <1>1 DEF RInv, Held, PointKept, Tested
    <3>4. Look(DecisionFile(g)).accepted = (<<Subject, g>> \notin revoked)
      BY <3>1, Looks
    <3> QED
      BY <3>3, <3>4, <2>1, <1>1
  <2>2. CASE g # chain
    <3>1. g > chain \/ walk < expected.generation
      BY <2>2, <1>2
    <3> QED
      BY <3>1, <1>1 DEF RInv, Held, DecisionsHeld, Read
  <2> QED
    BY <2>1, <2>2
<1> QED
  BY <1>4, <1>5, <1>6, <1>7 DEF Held

LEMMA WalkBackStep ==
    ASSUME RInv, UNCHANGED vars, WalkBack
    PROVE  Held'
<1> DEFINE k == walk - 1
<1>1. /\ step = "walking" /\ chain = 0 /\ k > 0
      /\ UNCHANGED <<step, todo, stale, expected, point>>
      /\ walk' = k /\ chain' = k
      /\ archive[Subject][k] # NoRecord
      /\ Precedes(archive[Subject][k], k, Candidate)
  BY DEF WalkBack
<1>2. /\ expected \in Record /\ expected.generation \in Generation
      /\ walk \in 1 .. expected.generation
  BY <1>1, Generations DEF RInv, Held, WalkPlaced, Read
<1>3. k \in 1 .. expected.generation - 1 /\ k \in Generation /\ walk = k + 1
      /\ walk \in Generation
  BY <1>1, <1>2, GenerationAssumption DEF Generation
<1>4. Standing' = Standing
  BY <1>1 DEF Standing
<1>5. PointKept' /\ RecordHeld'
  BY <1>1, <1>4, LookFixed DEF RInv, Held, PointKept, RecordHeld, RecordFile
<1>6. WalkPlaced'
  <2>1. expected.generation \in Nat
    BY <1>2, GenerationAssumption DEF Generation
  <2>2. walk' \in 1 .. expected'.generation /\ chain' \in 0 .. walk'
    BY <2>1, <1>1, <1>3
  <2>3. step' = "walking" /\ expected' \in Record
    BY <1>1, <1>2
  <2> QED
    BY <2>2, <2>3 DEF WalkPlaced
<1>7. DecisionsHeld'
  BY <1>1, <1>2, <1>4 DEF RInv, Held, DecisionsHeld, DecisionFile, Read
<1>8. \A g \in Generation : ArchiveFile(g) \in Standing =>
          point[ArchiveFile(g)].file = archive[Subject][g]
  <2> SUFFICES ASSUME NEW g \in Generation, ArchiveFile(g) \in Standing
               PROVE  point[ArchiveFile(g)].file = archive[Subject][g]
    OBVIOUS
  <2>1. ArchiveFile(g) \in Entry /\ ArchiveFile(g) \notin stale
    BY <1>1, Entries DEF Standing
  <2>2. Look(ArchiveFile(g)) = point[ArchiveFile(g)]
    BY <2>1, <1>1 DEF RInv, Held, PointKept, Tested
  <2> QED
    BY <2>2, Looks
<1>9. ArchivesHeld'
  <2> SUFFICES ASSUME NEW g \in k .. expected.generation - 1, ArchiveFile(g) \in Standing
               PROVE  /\ point[ArchiveFile(g)].file # NoRecord
                      /\ g + 1 = expected.generation \/ ArchiveFile(g + 1) \in Standing =>
                            Precedes(point[ArchiveFile(g)].file, g, CandidateThen(g + 1))
    BY <1>1, <1>4 DEF ArchivesHeld, ArchiveFile, CandidateThen, Precedes
  <2>1. CASE g = k
    <3>1. point[ArchiveFile(g)].file = archive[Subject][k]
      BY <2>1, <1>3, <1>8
    <3>2. g + 1 = expected.generation \/ ArchiveFile(g + 1) \in Standing =>
              CandidateThen(g + 1) = Candidate
      BY <2>1, <1>3, <1>8 DEF CandidateThen, Candidate
    <3> QED
      BY <2>1, <3>1, <3>2, <1>1
  <2>2. CASE g # k
    <3>1. g \in walk .. expected.generation - 1
      BY <2>2, <1>2, <1>3
    <3> QED
      BY <3>1, <1>1 DEF RInv, Held, ArchivesHeld, Read
  <2> QED
    BY <2>1, <2>2
<1> QED
  BY <1>5, <1>6, <1>7, <1>9 DEF Held

\* The second inventory: an entry it has taken need not be fresh any longer.
LEMMA SecondInventoryStep ==
    ASSUME RInv, UNCHANGED vars, Reread \/ Retake \/ Accept
    PROVE  Held'
<1>1. /\ UNCHANGED <<stale, expected, walk, chain, point>>
      /\ step \in Read /\ step' \in {"rereading", "accepted"}
  BY DEF Reread, Retake, Accept, Read
<1>2. Standing' = Standing
  <2>1. CASE Reread
    BY <2>1 DEF Reread, Standing
  <2>2. CASE Retake
    BY <2>2 DEF Retake, Standing
  <2>3. CASE Accept
    BY <2>3 DEF Accept, Standing
  <2> QED
    BY <2>1, <2>2, <2>3
<1>3. PointKept' /\ RecordHeld'
  BY <1>1, <1>2, LookFixed
     DEF RInv, Held, PointKept, RecordHeld, RecordFile, Root, Tested, Read
<1>4. DecisionsHeld'
  BY <1>1, <1>2 DEF RInv, Held, DecisionsHeld, DecisionFile, Read
<1>5. ArchivesHeld'
  BY <1>1, <1>2 DEF RInv, Held, ArchivesHeld, ArchiveFile, CandidateThen, Precedes, Read
<1>6. WalkPlaced'
  <2>1. CASE Reread
    BY <2>1 DEF Reread, RInv, Held, WalkPlaced, Read
  <2>2. CASE Retake
    BY <2>2 DEF Retake, RInv, Held, WalkPlaced, Read
  <2>3. CASE Accept
    BY <2>3 DEF Accept, RInv, Held, WalkPlaced, Read
  <2> QED
    BY <2>1, <2>2, <2>3
<1> QED
  BY <1>3, <1>4, <1>5, <1>6 DEF Held

LEMMA BesideStep ==
    ASSUME RInv, Beside
    PROVE  Held'
<1>1. UNCHANGED <<step, todo, expected, walk, chain, point>>
  BY DEF Beside
<1>2. CASE step \in Tested
  <2>1. stale \subseteq stale' /\ \A e \in Entry : e \notin stale' => Look(e)' = Look(e)
    BY <1>2, BesideStale
  <2>2. Standing' \subseteq Standing
    BY <2>1, <1>1 DEF Standing
  <2>3. PointKept'
    BY <2>1, <1>1 DEF RInv, Held, PointKept, Root
  <2>4. RecordHeld'
    BY <2>2, <1>1 DEF RInv, Held, RecordHeld, RecordFile
  <2>5. DecisionsHeld'
    BY <2>2, <1>1 DEF RInv, Held, DecisionsHeld, DecisionFile
  <2>6. ArchivesHeld'
    BY <2>2, <1>1 DEF RInv, Held, ArchivesHeld, ArchiveFile, CandidateThen, Precedes
  <2>7. WalkPlaced'
    BY <1>1 DEF RInv, Held, WalkPlaced
  <2> QED
    BY <2>3, <2>4, <2>5, <2>6, <2>7 DEF Held
<1>3. CASE step \notin Tested
  BY <1>1, <1>3 DEF RInv, Held, PointKept, RecordHeld, DecisionsHeld, ArchivesHeld,
     WalkPlaced, Tested, Read
<1> QED
  BY <1>2, <1>3

LEMMA StutterStep ==
    ASSUME RInv, UNCHANGED <<vars, verifier>>
    PROVE  Held'
<1>1. UNCHANGED <<step, todo, stale, expected, walk, chain, point>> /\ UNCHANGED vars
  BY DEF verifier
<1>2. Standing' = Standing
  BY <1>1 DEF Standing
<1>3. PointKept' /\ RecordHeld' /\ WalkPlaced'
  BY <1>1, <1>2, LookFixed DEF RInv, Held, PointKept, RecordHeld, RecordFile, Root, WalkPlaced
<1>4. DecisionsHeld' /\ ArchivesHeld'
  BY <1>1, <1>2 DEF RInv, Held, DecisionsHeld, ArchivesHeld, DecisionFile, ArchiveFile,
     CandidateThen, Precedes
<1> QED
  BY <1>3, <1>4 DEF Held

LEMMA NextRInv == RInv /\ [ReadingNext]_<<vars, verifier>> => RInv'
<1> SUFFICES ASSUME RInv, [ReadingNext]_<<vars, verifier>> PROVE RInv'
  OBVIOUS
<1>1. IInv'
  BY CustodyStep DEF RInv
<1>2. Held'
  <2>1. CASE Verifying /\ UNCHANGED vars
    BY <2>1, EarlyStep, TestStep, ReadCurrentStep, ReadDecisionStep, WalkBackStep,
       SecondInventoryStep DEF Verifying
  <2>2. CASE Beside
    BY <2>2, BesideStep
  <2>3. CASE UNCHANGED <<vars, verifier>>
    BY <2>3, StutterStep
  <2> QED
    BY <2>1, <2>2, <2>3 DEF ReadingNext
<1> QED
  BY <1>1, <1>2 DEF RInv

\* The second inventory is complete: everything read was so at the mutex test.
LEMMA AcceptedHeld == RInv => AcceptedWasTrue
<1> SUFFICES ASSUME RInv, step = "accepted" PROVE AcceptedWasTrue
  BY DEF AcceptedWasTrue
<1>1. Standing = Entry
  BY DEF RInv, Held, WalkPlaced, Standing
<1>2. /\ expected \in Record /\ expected.generation \in Generation
      /\ walk = 1 /\ chain = 0
  BY Generations DEF RInv, Held, WalkPlaced
<1>3. point[Root].busy = FALSE
  BY DEF RInv, Held, PointKept, Tested
<1>4. point[RecordFile].file = expected /\ expected.state = "ACTIVE"
  BY <1>1, Entries DEF RInv, Held, RecordHeld, Read
<1>5. \A g \in 1 .. expected.generation - 1 :
          /\ point[ArchiveFile(g)].file # NoRecord
          /\ Precedes(point[ArchiveFile(g)].file, g, CandidateThen(g + 1))
  <2> TAKE g \in 1 .. expected.generation - 1
  <2>1. g \in Generation /\ (g + 1 = expected.generation \/ g + 1 \in Generation)
    BY <1>2, GenerationAssumption DEF Generation
  <2>2. g \in walk .. expected.generation - 1
    BY <1>2
  <2> QED
    BY <1>1, <2>1, <2>2, Entries DEF RInv, Held, ArchivesHeld, Read
<1>6. \A g \in 1 .. expected.generation : point[DecisionFile(g)].accepted = TRUE
  <2> TAKE g \in 1 .. expected.generation
  <2>1. g \in Generation /\ g > chain
    BY <1>2, GenerationAssumption DEF Generation
  <2> QED
    BY <1>1, <2>1, Entries DEF RInv, Held, DecisionsHeld, Read
<1> QED
  BY <1>3, <1>4, <1>5, <1>6 DEF AcceptedWasTrue

\* What ProtectedCustodyVerifier accepts was true all at once at its mutex test,
\* for every number of admissions, edits and crashes beside the reading.
THEOREM AcceptanceSound == ReadingSpec => []AcceptedWasTrue
<1>1. ReadingInit => RInv
  BY InitRInv
<1>2. RInv /\ [ReadingNext]_<<vars, verifier>> => RInv'
  BY NextRInv
<1>3. RInv => AcceptedWasTrue
  BY AcceptedHeld
<1> QED
  BY <1>1, <1>2, <1>3, PTL DEF ReadingSpec
=============================================================================
