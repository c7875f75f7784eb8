-------------------------- MODULE RunRecordsProofs --------------------------
(***************************************************************************)
(* Proofs about RunRecords, for any number of calls, files and pairs, and  *)
(* any order of the directories, whatever is written.  The argument about  *)
(* verifications: what a call has hashed of a file is the file as it was   *)
(* when the call began, or a later version of it; and a file the call did  *)
(* not list was absent when the call began or has changed since.           *)
(***************************************************************************)
EXTENDS RunRecords, TLAPS

Hashes == [File -> Content \union {Nothing}]
Phase == Auditing \union
    {"new", "ended", "checked", "creating", "created", "listing", "entries", "bindings",
     "accepted"}
Sealing == [entry : Hashes, again : Hashes]

\* The call-local part.
CallTypes ==
    /\ phase \in [Call -> Phase]
    /\ index \in [Call -> Nat]
    /\ sole \in [Call -> BOOLEAN]
    /\ left \in [Call -> SUBSET File]
    /\ list \in [Call -> SUBSET File]
    /\ entry \in [Call -> Hashes]
    /\ again \in [Call -> Hashes]
    /\ loaded \in [Call -> Sealing \union {Nothing}]
    /\ began \in [Call -> [File -> Content] \union {Nothing}]
    /\ \A p \in Call :
          /\ phase[p] \in {"checked", "creating"} => index[p] \in Step
          /\ phase[p] = "new" => index[p] = 1
          /\ phase[p] = "hashed" => entry[p][Report] \in Versions({Nothing})
Types ==
    /\ file \in [File -> Content]
    /\ file[Report].about = Nothing
    /\ seal \in Sealing \union {Nothing}
    /\ CallTypes

-----------------------------------------------------------------------------
(* The invariants.                                                         *)

\* A creation that has written a file is the only one; all it wrote is there.
Begun(p) == phase[p] = "creating" /\ index[p] > 1
RunInv ==
    /\ WholeRun
    /\ \A p \in Call : Begun(p) =>
          /\ ~file[Manifest].there
          /\ \A i \in Step : i < index[p] =>
                file[Created[i]].there /\ file[Created[i]].by = p
          /\ \A q \in Call : Begun(q) => q = p

\* An audit without company knows its report; a record it left keeps others out.
Past == {"unwritten", "written", "hashed"}
Stands(bound) == file[Report] = bound \/ file[Report].by = Human
AuditInv ==
    /\ \A p \in Call : sole[p] = TRUE =>
          /\ phase[p] \in Auditing
          /\ \A q \in Call : phase[q] \in Auditing => q = p
          /\ phase[p] = "written" => file[Report].by \in {p, Human}
          /\ phase[p] = "hashed" =>
                entry[p][Report].by \in {p, Human} /\ Stands(entry[p][Report])
    /\ file[Record].there = TRUE /\ file[Record].about # Nothing
            /\ file[Record].about.sole = TRUE =>
          /\ \A q \in Call : phase[q] \notin Past
          /\ file[Record].about.bound.by \in {file[Record].by, Human}
          /\ Stands(file[Record].about.bound)

\* m is what file x was at some time, or is.
Precedes(m, n) == m \in Content /\ m.version <= n.version /\ (m.version = n.version => m = n)
\* Since the call began, file x was absent or changed.
Gone(p, x) == began[p][x].there = FALSE \/ began[p][x].version < file[x].version
BeganInv == \A p \in Call : loaded[p] # Nothing => began[p] \in [File -> Content]
CallInv(p) ==
    /\ phase[p] = "new" => \A x \in File : entry[p][x] = Nothing
    /\ \A x \in File : entry[p][x] # Nothing => entry[p][x].there = TRUE
    /\ phase[p] = "entries" => \A x \in list[p] : x \in left[p] \/ entry[p][x] # Nothing
    /\ phase[p] = "bindings" => \A x \in list[p] : entry[p][x] # Nothing
    /\ loaded[p] # Nothing =>
          \A x \in File :
              /\ Precedes(began[p][x], file[x])
              /\ entry[p][x] # Nothing => Precedes(began[p][x], entry[p][x])
              /\ phase[p] = "listing" => x \in left[p] \union list[p] \/ Gone(p, x)
              /\ phase[p] \in {"entries", "bindings"} => x \in list[p] \/ Gone(p, x)

VersionInv == BeganInv /\ \A p \in Call : CallInv(p)
RInv == Types /\ RunInv /\ AuditInv /\ VersionInv

-----------------------------------------------------------------------------
(* Files and their versions.                                               *)

LEMMA FileFacts ==
    /\ Step \subseteq Nat /\ 1 \in Step /\ Last \in Step
    /\ Report \in File /\ Record \in File /\ Report # Record
    /\ \A i \in Step : Created[i] \in File /\ Created[i] \notin {Report, Record}
    /\ Manifest \in File /\ Manifest \notin {Report, Record}
BY CreatedAssumption DEF Step, File, Manifest

LEMMA ContentFacts ==
    ASSUME NEW m \in Content
    PROVE  /\ m.version \in Nat /\ m.there \in BOOLEAN
           /\ m.by \in Call \union {Human} /\ m.about \in Binding \union {Nothing}
           /\ m # Nothing
           /\ m.about = Nothing => m \in Versions({Nothing})
BY NothingAssumption DEF Content, Versions

LEMMA MadeContent ==
    ASSUME NEW t \in BOOLEAN, NEW h \in Text \union {Nothing}, NEW v \in Nat,
           NEW w \in Call \union {Human}, NEW a \in Binding \union {Nothing}
    PROVE  [there |-> t, text |-> h, version |-> v + 1, by |-> w, about |-> a] \in Content
BY DEF Content, Versions

\* One file may get a next version, made by who.
Changes(x, who) ==
    /\ file' = [file EXCEPT ![x] = file'[x]]
    /\ file'[x] \in Content
    /\ file'[x].version = file[x].version + 1
    /\ file'[x].by = who

LEMMA WrittenChanges ==
    ASSUME Types, NEW x \in File, NEW text \in Text, NEW who \in Call \union {Human},
           NEW about \in Binding \union {Nothing},
           file' = [file EXCEPT ![x] = Written(x, text, who, about)]
    PROVE  Changes(x, who) /\ file'[x].there = TRUE /\ file'[x].about = about
<1>1. file \in [File -> Content] /\ file[x].version \in Nat
  BY ContentFacts DEF Types
<1>2. file'[x] = [there |-> TRUE, text |-> text, version |-> file[x].version + 1,
                  by |-> who, about |-> about]
  BY <1>1 DEF Written
<1>3. file' = [file EXCEPT ![x] = file'[x]]
  BY <1>1, <1>2 DEF Written
<1>4. file'[x] \in Content
  <2>1. [there |-> TRUE, text |-> text, version |-> file[x].version + 1,
         by |-> who, about |-> about] \in Content
    BY <1>1, MadeContent
  <2> QED
    BY <1>2, <2>1
<1> QED
  BY <1>2, <1>3, <1>4 DEF Changes

LEMMA RemovedChanges ==
    ASSUME Types, NEW x \in File, NEW who \in Call \union {Human},
           file' = [file EXCEPT ![x] = Removed(x, who)]
    PROVE  Changes(x, who) /\ file'[x].there = FALSE /\ file'[x].about = Nothing
<1>1. file \in [File -> Content] /\ file[x].version \in Nat
  BY ContentFacts DEF Types
<1>2. file'[x] = [there |-> FALSE, text |-> Nothing, version |-> file[x].version + 1,
                  by |-> who, about |-> Nothing]
  BY <1>1 DEF Removed, Missing
<1>3. file' = [file EXCEPT ![x] = file'[x]]
  BY <1>1, <1>2 DEF Removed, Missing
<1>4. file'[x] \in Content
  <2>1. [there |-> FALSE, text |-> Nothing, version |-> file[x].version + 1,
         by |-> who, about |-> Nothing] \in Content
    BY <1>1, MadeContent
  <2> QED
    BY <1>2, <2>1
<1> QED
  BY <1>2, <1>3, <1>4 DEF Changes

\* Every file of a step stays or gets a next version.
Forward ==
    /\ file' \in [File -> Content]
    /\ \A x \in File :
          file'[x] = file[x] \/ file'[x].version = file[x].version + 1

LEMMA ChangesForward ==
    ASSUME Types, NEW x \in File, NEW who \in Call \union {Human}, Changes(x, who)
    PROVE  Forward
BY DEF Types, Changes, Forward

\* What the audit calls write.
LEMMA RecordedBinding ==
    ASSUME Types, NEW p \in Call, phase[p] = "hashed"
    PROVE  /\ [bound |-> entry[p][Report], sole |-> sole[p]] \in Binding
           /\ [bound |-> entry[p][Report], sole |-> sole[p]] # Nothing
<1>1. entry[p][Report] \in Versions({Nothing})
  BY DEF Types, CallTypes
<1>2. sole[p] \in BOOLEAN
  BY DEF Types, CallTypes
<1>3. [bound |-> entry[p][Report], sole |-> sole[p]] \in Binding
  BY <1>1, <1>2, Zenon DEF Binding
<1> QED
  BY <1>3, NothingAssumption

LEMMA StepForward ==
    ASSUME Types, Next
    PROVE  Forward
<1>1. ASSUME NEW p \in Call, CreateTarget(p) PROVE Forward
  <2>1. Created[index[p]] \in File
    BY <1>1, FileFacts DEF Types, CallTypes, CreateTarget
  <2>2. PICK text \in Text :
           file' = [file EXCEPT ![Created[index[p]]] = Written(Created[index[p]], text, p, Nothing)]
    BY <1>1 DEF CreateTarget
  <2> QED
    BY <2>1, <2>2, WrittenChanges, ChangesForward
<1>2. ASSUME NEW p \in Call, WriteReport(p) PROVE Forward
  BY <1>2, FileFacts, WrittenChanges, ChangesForward DEF WriteReport
<1>3. ASSUME NEW p \in Call, Withdraw(p) PROVE Forward
  BY <1>3, FileFacts, RemovedChanges, ChangesForward DEF Withdraw
<1>4. ASSUME NEW p \in Call, CreateRecord(p) PROVE Forward
  <2>1. PICK text \in Text : phase[p] = "hashed" /\
           file' = [file EXCEPT ![Record] =
                      Written(Record, text, p, [bound |-> entry[p][Report], sole |-> sole[p]])]
    BY <1>4 DEF CreateRecord
  <2> QED
    BY <2>1, RecordedBinding, FileFacts, WrittenChanges, ChangesForward
<1>5. CASE Edit
  BY <1>5, WrittenChanges, ChangesForward DEF Edit
<1>6. CASE RemoveAudit \/ Remove
  BY <1>6, FileFacts, RemovedChanges, ChangesForward DEF RemoveAudit, Remove
<1>7. CASE file' = file
  BY <1>7 DEF Forward, Types
<1>8. ASSUME NEW p \in Call,
             \/ Stop(p) \/ StartRun(p) \/ CheckTarget(p) \/ StartAudit(p) \/ CheckAudit(p)
             \/ HashReport(p) \/ StartSeal(p) \/ StartVerify(p) \/ Look(p) \/ Listed(p)
             \/ HashEntry(p) \/ Hashed(p) \/ HashBinding(p) \/ PublishSeal(p) \/ Accept(p)
      PROVE  Forward
  <2>1. file' = file
    BY <1>8 DEF Stop, StartRun, CheckTarget, StartAudit, CheckAudit, HashReport, StartSeal,
       StartVerify, Look, Listed, HashEntry, Hashed, HashBinding, PublishSeal, Accept
  <2> QED
    BY <2>1, <1>7
<1> QED
  BY <1>1, <1>2, <1>3, <1>4, <1>5, <1>6, <1>8 DEF Next

LEMMA ReportPlain ==
    ASSUME Types, Next
    PROVE  file'[Report].about = Nothing
<1>1. file[Report].about = Nothing /\ file \in [File -> Content]
  BY DEF Types
<1>2. ASSUME NEW p \in Call, CreateTarget(p) PROVE file'[Report] = file[Report]
  <2>1. Created[index[p]] \in File /\ Created[index[p]] # Report
    BY <1>2, FileFacts DEF Types, CallTypes, CreateTarget
  <2>2. PICK x \in File :
           /\ x # Report
           /\ \E text \in Text : file' = [file EXCEPT ![x] = Written(x, text, p, Nothing)]
    BY <1>2, <2>1 DEF CreateTarget
  <2>3. Changes(x, p)
    BY <2>2, WrittenChanges
  <2> QED
    BY <1>1, <2>2, <2>3, FileFacts DEF Changes
<1>3. ASSUME NEW p \in Call, WriteReport(p) PROVE file'[Report].about = Nothing
  <2>1. PICK text \in Text : file' = [file EXCEPT ![Report] = Written(Report, text, p, Nothing)]
    BY <1>3 DEF WriteReport
  <2> QED
    BY <2>1, FileFacts, WrittenChanges
<1>4. ASSUME NEW p \in Call, Withdraw(p) PROVE file'[Report].about = Nothing
  BY <1>4, FileFacts, RemovedChanges DEF Withdraw
<1>5. ASSUME NEW p \in Call, CreateRecord(p) PROVE file'[Report] = file[Report]
  BY <1>1, <1>5, FileFacts DEF CreateRecord
<1>6. CASE Edit
  <2>1. PICK x \in File, text \in Text :
           file' = [file EXCEPT ![x] = Written(x, text, Human, Nothing)]
    BY <1>6 DEF Edit
  <2> QED
    <3>1. file'[x].about = Nothing
      BY <2>1, WrittenChanges
    <3> QED
      BY <1>1, <2>1, <3>1, FileFacts
<1>7. CASE RemoveAudit \/ Remove
  <2>1. PICK x \in File : file' = [file EXCEPT ![x] = Removed(x, Human)]
    BY <1>7, FileFacts DEF RemoveAudit, Remove
  <2> QED
    BY <1>1, <2>1, FileFacts, RemovedChanges DEF Changes
<1>8. CASE file' = file
  BY <1>1, <1>8
<1> QED
  BY <1>1, <1>2, <1>3, <1>4, <1>5, <1>6, <1>7, <1>8
  DEF Next, Stop, StartRun, CheckTarget, StartAudit, CheckAudit, HashReport, StartSeal,
     StartVerify, Look, Listed, HashEntry, Hashed, HashBinding, PublishSeal, Accept

-----------------------------------------------------------------------------
(* Types.                                                                  *)

LEMMA UnhashedFacts == Unhashed \in Hashes /\ \A x \in File : Unhashed[x] = Nothing
BY DEF Unhashed, Hashes

\* What a call is when it has ended, the others being as they were.
LEMMA EndTypes ==
    ASSUME CallTypes, NEW p \in Call, End(p)
    PROVE  CallTypes'
BY UnhashedFacts DEF CallTypes, End, To, Phase

LEMMA OnwardTypes ==
    ASSUME CallTypes, NEW p \in Call, phase[p] \in {"checked", "creating"},
           NEW label \in {"creating", "created"}, Onward(p, label),
           UNCHANGED <<sole, memory>>
    PROVE  CallTypes'
<1>1. index[p] \in Step /\ index[p] \in Nat /\ Last \in Nat
  BY CreatedAssumption DEF CallTypes
<1>2. CASE index[p] = Last
  <2>1. phase' = [phase EXCEPT ![p] = label] /\ index' = [index EXCEPT ![p] = 1]
    BY <1>2 DEF Onward, To
  <2> QED
    BY <2>1, FileFacts DEF CallTypes, memory, Phase
<1>3. CASE index[p] # Last
  <2>1. phase' = phase /\ index' = [index EXCEPT ![p] = index[p] + 1]
    BY <1>3 DEF Onward
  <2>2. index[p] + 1 \in Step /\ index[p] + 1 \in Nat
    BY <1>1, <1>3 DEF Step
  <2> QED
    BY <2>1, <2>2 DEF CallTypes, memory
<1> QED
  BY <1>2, <1>3

LEMMA TypesStep ==
    ASSUME Types, Next
    PROVE  Types'
<1>1. file' \in [File -> Content] /\ file'[Report].about = Nothing
  BY StepForward, ReportPlain DEF Forward
<1>2. seal' \in Sealing \union {Nothing}
  <2>1. ASSUME NEW p \in Call, PublishSeal(p) PROVE seal' \in Sealing
    BY <2>1 DEF PublishSeal, Types, CallTypes, Sealing
  <2> QED
    BY <2>1 DEF Types, Next, Stop, StartRun, CheckTarget, CreateTarget, StartAudit,
       CheckAudit, WriteReport, HashReport, Withdraw, CreateRecord, StartSeal, StartVerify,
       Look, Listed, HashEntry, Hashed, HashBinding, Accept, Edit, RemoveAudit, Remove
<1>3. CallTypes'
  <2> USE DEF Types
  <2>1. ASSUME NEW p \in Call, Stop(p) \/ Withdraw(p) \/ CreateRecord(p) \/ PublishSeal(p)
        PROVE  CallTypes'
    BY <2>1, EndTypes DEF Stop, Withdraw, CreateRecord, PublishSeal
  <2>2. ASSUME NEW p \in Call, CheckTarget(p) PROVE CallTypes'
    BY <2>2, OnwardTypes DEF CheckTarget
  <2>3. ASSUME NEW p \in Call, CreateTarget(p) PROVE CallTypes'
    BY <2>3, OnwardTypes DEF CreateTarget
  <2>4. ASSUME NEW p \in Call, StartRun(p) PROVE CallTypes'
    BY <2>4, FileFacts DEF CallTypes, StartRun, To, memory, Phase
  <2>5. ASSUME NEW p \in Call, StartAudit(p) PROVE CallTypes'
    <3>1. sole' \in [Call -> BOOLEAN]
      BY <2>5, Zenon DEF StartAudit
    <3> QED
      BY <2>5, <3>1 DEF CallTypes, StartAudit, To, memory, Phase, Auditing
  <2>6. ASSUME NEW p \in Call, CheckAudit(p) PROVE CallTypes'
    <3>1. phase[p] = "checking" /\ UNCHANGED <<sole, memory>>
      BY <2>6 DEF CheckAudit
    <3>2. \/ phase' = phase /\ index' = [index EXCEPT ![p] = 2]
          \/ phase' = [phase EXCEPT ![p] = "unwritten"] /\ index' = [index EXCEPT ![p] = 1]
      BY <2>6 DEF CheckAudit, To
    <3>3. CASE phase' = phase /\ index' = [index EXCEPT ![p] = 2]
      BY <3>1, <3>3 DEF CallTypes, memory
    <3>4. CASE phase' = [phase EXCEPT ![p] = "unwritten"] /\ index' = [index EXCEPT ![p] = 1]
      BY <3>1, <3>4 DEF CallTypes, memory, Phase, Auditing
    <3> QED
      BY <3>2, <3>3, <3>4
  <2>7. ASSUME NEW p \in Call, WriteReport(p) PROVE CallTypes'
    BY <2>7 DEF CallTypes, WriteReport, To, memory, Phase, Auditing
  <2>8. ASSUME NEW p \in Call, HashReport(p) PROVE CallTypes'
    <3>1. file[Report] \in Versions({Nothing}) /\ file[Report] \in Content
      BY FileFacts, ContentFacts
    <3>2. entry' \in [Call -> Hashes] /\ entry'[p][Report] = file[Report]
          /\ \A q \in Call \ {p} : entry'[q] = entry[q]
      BY <2>8, <3>1, FileFacts DEF HashReport, CallTypes, Hashes
    <3> QED
      BY <2>8, <3>1, <3>2 DEF CallTypes, HashReport, To, Phase, Auditing
  <2>9. ASSUME NEW p \in Call, StartSeal(p) PROVE CallTypes'
    BY <2>9 DEF CallTypes, StartSeal, To, Phase
  <2>10. ASSUME NEW p \in Call, StartVerify(p) PROVE CallTypes'
    BY <2>10 DEF CallTypes, StartVerify, To, Phase
  <2>11. ASSUME NEW p \in Call, Look(p) PROVE CallTypes'
    <3>1. PICK x \in File :
             /\ left' = [left EXCEPT ![p] = @ \ {x}]
             /\ list' = [list EXCEPT ![p] = IF file[x].there THEN @ \union {x} ELSE @]
      BY <2>11 DEF Look
    <3>2. left' \in [Call -> SUBSET File]
      BY <3>1 DEF CallTypes
    <3>3. list' \in [Call -> SUBSET File]
      BY <3>1 DEF CallTypes
    <3> QED
      BY <2>11, <3>2, <3>3 DEF CallTypes, Look
  <2>12. ASSUME NEW p \in Call, Listed(p) PROVE CallTypes'
    BY <2>12 DEF CallTypes, Listed, To, Phase
  <2>13. ASSUME NEW p \in Call, HashEntry(p) PROVE CallTypes'
    <3>1. entry' \in [Call -> Hashes]
      BY <2>13 DEF HashEntry, CallTypes, Hashes
    <3>2. UNCHANGED <<phase, index, sole, list, again, loaded, began>>
      BY <2>13 DEF HashEntry
    <3>3. left' \in [Call -> SUBSET File]
      <4>1. PICK x \in File : left' = [left EXCEPT ![p] = @ \ {x}]
        BY <2>13 DEF HashEntry
      <4> QED
        BY <4>1 DEF CallTypes
    <3>4. \A q \in Call : phase[q] = "hashed" => entry'[q] = entry[q]
      BY <2>13 DEF HashEntry, CallTypes
    <3> QED
      BY <3>1, <3>2, <3>3, <3>4 DEF CallTypes
  <2>14. ASSUME NEW p \in Call, Hashed(p) PROVE CallTypes'
    BY <2>14 DEF CallTypes, Hashed, To, Phase, Paired
  <2>15. ASSUME NEW p \in Call, HashBinding(p) PROVE CallTypes'
    <3>1. PICK x \in File :
             /\ left' = [left EXCEPT ![p] = @ \ {x}]
             /\ again' = [again EXCEPT ![p][x] = file[x]]
      BY <2>15 DEF HashBinding
    <3>2. left' \in [Call -> SUBSET File]
      BY <3>1 DEF CallTypes
    <3>3. again' \in [Call -> Hashes]
      BY <3>1 DEF CallTypes, Hashes
    <3> QED
      BY <2>15, <3>2, <3>3 DEF CallTypes, HashBinding
  <2>16. ASSUME NEW p \in Call, Accept(p) PROVE CallTypes'
    BY <2>16 DEF CallTypes, Accept, To, memory, Phase
  <2>17. CASE Edit \/ RemoveAudit \/ Remove
    BY <2>17 DEF CallTypes, Edit, RemoveAudit, Remove, memory
  <2> QED
    BY <2>1, <2>2, <2>3, <2>4, <2>5, <2>6, <2>7, <2>8, <2>9, <2>10, <2>11, <2>12, <2>13,
       <2>14, <2>15, <2>16, <2>17 DEF Next
<1> QED
  BY <1>1, <1>2, <1>3 DEF Types

-----------------------------------------------------------------------------
(* Run creation.                                                           *)

\* No call writes its first file, and those that have one stay where they are.
Calm == \A q \in Call : Begun(q)' => Begun(q) /\ index'[q] = index[q]

LEMMA StepCalm ==
    ASSUME Types, Next, ~\E p \in Call : CreateTarget(p)
    PROVE  Calm
<1> USE DEF Types, CallTypes, Calm, Begun
<1>1. ASSUME NEW p \in Call, Stop(p) \/ Withdraw(p) \/ CreateRecord(p) \/ PublishSeal(p)
      PROVE  Calm
  <2>1. phase' = [phase EXCEPT ![p] = "ended"] /\ index' = [index EXCEPT ![p] = 1]
    BY <1>1 DEF Stop, Withdraw, CreateRecord, PublishSeal, End, To
  <2> QED
    BY <2>1
<1>2. ASSUME NEW p \in Call, CheckTarget(p) PROVE Calm
  <2>1. phase[p] = "checked"
        /\ \/ phase' = [phase EXCEPT ![p] = "creating"] /\ index' = [index EXCEPT ![p] = 1]
           \/ phase' = phase /\ index' = [index EXCEPT ![p] = @ + 1]
    BY <1>2 DEF CheckTarget, Onward, To
  <2> QED
    BY <2>1
<1>3. ASSUME NEW p \in Call, CheckAudit(p) PROVE Calm
  <2>1. phase[p] = "checking"
        /\ \/ phase' = phase /\ index' = [index EXCEPT ![p] = 2]
           \/ phase' = [phase EXCEPT ![p] = "unwritten"] /\ index' = [index EXCEPT ![p] = 1]
    BY <1>3 DEF CheckAudit, To
  <2> QED
    BY <2>1
<1>4. ASSUME NEW p \in Call,
             \/ StartRun(p) \/ StartAudit(p) \/ WriteReport(p) \/ HashReport(p)
             \/ StartSeal(p) \/ StartVerify(p) \/ Look(p) \/ Listed(p) \/ HashEntry(p)
             \/ Hashed(p) \/ HashBinding(p) \/ Accept(p)
      PROVE  Calm
  <2>1. index' = index /\ \E label \in Phase \ {"creating"} :
                              phase' = phase \/ phase' = [phase EXCEPT ![p] = label]
    BY <1>4 DEF StartRun, StartAudit, WriteReport, HashReport, StartSeal, StartVerify, Look,
       Listed, HashEntry, Hashed, HashBinding, Accept, To, Phase, Auditing
  <2> QED
    BY <2>1
<1>5. CASE Edit \/ RemoveAudit \/ Remove
  BY <1>5 DEF Edit, RemoveAudit, Remove
<1> QED
  BY <1>1, <1>2, <1>3, <1>4, <1>5 DEF Next

\* The files of the run stay as they are.
LEMMA RunKept ==
    ASSUME Types, RunInv, Calm, \A i \in Step : file'[Created[i]] = file[Created[i]]
    PROVE  RunInv'
<1>1. file'[Manifest] = file[Manifest]
  BY FileFacts DEF Manifest
<1> QED
  BY <1>1, FileFacts DEF RunInv, WholeRun, Calm, Manifest, Types, CallTypes

LEMMA EditKeepsRun ==
    ASSUME Types, RunInv, Calm, Edit
    PROVE  RunInv'
<1>1. PICK x \in File, text \in Text :
         /\ x \in {Report, Record} \/ file[Manifest].there
         /\ file[x].there /\ file' = [file EXCEPT ![x] = Written(x, text, Human, Nothing)]
  BY DEF Edit
<1>2. Changes(x, Human) /\ file'[x].there = TRUE
  BY <1>1, WrittenChanges
<1>3. CASE x \in {Report, Record}
  BY <1>1, <1>3, FileFacts, RunKept DEF Types
<1>4. CASE file[Manifest].there
  <2>1. ~\E p \in Call : Begun(p)'
    BY <1>4 DEF RunInv, Calm
  <2>2. \A i \in Step : file'[Created[i]].there = TRUE
                      /\ (file'[Created[i]].by = file[Created[i]].by
                            \/ file'[Created[i]].by = Human)
    BY <1>1, <1>2, <1>4, FileFacts DEF RunInv, WholeRun, Types, Changes
  <2>3. file'[Manifest].by = file[Manifest].by \/ file'[Manifest].by = Human
    BY <2>2, FileFacts DEF Manifest
  <2> QED
    BY <1>4, <2>1, <2>2, <2>3 DEF RunInv, WholeRun
<1> QED
  BY <1>1, <1>3, <1>4

LEMMA RemoveAuditKeepsRun ==
    ASSUME Types, RunInv, Calm, RemoveAudit
    PROVE  RunInv'
<1>1. PICK x \in {Report, Record} : file' = [file EXCEPT ![x] = Removed(x, Human)]
  BY DEF RemoveAudit
<1> QED
  BY <1>1, FileFacts, RunKept DEF Types

LEMMA RemoveKeepsRun ==
    ASSUME Types, RunInv, Calm, Remove
    PROVE  RunInv'
<1>1. PICK x \in File :
         /\ ~file[Manifest].there /\ phase[file[x].by] = "ended" /\ file[x].there
         /\ file' = [file EXCEPT ![x] = Removed(x, Human)]
  BY DEF Remove
<1>2. file'[Manifest] = file[Manifest]
  BY <1>1, FileFacts DEF Types
<1>3. ASSUME NEW p \in Call, Begun(p)'
      PROVE  /\ \A i \in Step : i < index'[p] =>
                    file'[Created[i]].there /\ file'[Created[i]].by = p
             /\ \A q \in Call : Begun(q)' => q = p
  <2>1. Begun(p) /\ index'[p] = index[p]
    BY <1>3 DEF Calm
  <2>2. ASSUME NEW i \in Step, i < index[p] PROVE file'[Created[i]] = file[Created[i]]
    <3>1. file[Created[i]].by = p /\ phase[p] = "creating"
      BY <2>1, <2>2 DEF RunInv, Begun
    <3>2. Created[i] # x
      BY <3>1, <1>1
    <3> QED
      BY <3>2, <1>1, FileFacts DEF Types
  <2> QED
    BY <2>1, <2>2, FileFacts DEF RunInv, Calm
<1> QED
  BY <1>1, <1>2, <1>3 DEF RunInv, WholeRun

LEMMA CreateKeepsRun ==
    ASSUME Types, RunInv, NEW p \in Call, CreateTarget(p)
    PROVE  RunInv'
<1> DEFINE x == Created[index[p]]
<1>1. /\ phase[p] = "creating" /\ index[p] \in Step /\ index[p] \in Nat
      /\ x \in File /\ (x \in Exclusive => ~file[x].there)
  BY FileFacts DEF CreateTarget, Types, CallTypes
<1>2. PICK text \in Text : file' = [file EXCEPT ![x] = Written(x, text, p, Nothing)]
  BY DEF CreateTarget
<1>3. file'[x].there = TRUE /\ file'[x].by = p
  <2>1. x \in File
    BY <1>1
  <2> HIDE DEF x
  <2>2. Changes(x, p) /\ file'[x].there = TRUE
    BY <1>2, <2>1, WrittenChanges
  <2> QED
    BY <2>2 DEF Changes
<1>4. \A i \in Step : i # index[p] => file'[Created[i]] = file[Created[i]]
  BY <1>1, <1>2, CreatedAssumption, FileFacts DEF Types
<1>5. ~file[Manifest].there
  <2>1. CASE index[p] = 1
    BY <1>1, <2>1, FileFacts, CreatedAssumption DEF RunInv, WholeRun
  <2>2. CASE index[p] # 1
    BY <1>1, <2>2 DEF RunInv, Begun, Step
  <2> QED
    BY <2>1, <2>2
<1>6. ASSUME NEW q \in Call, Begun(q) PROVE q = p
  <2>1. file[Created[1]].there
    BY <1>6, FileFacts DEF RunInv, Begun
  <2>2. index[p] # 1
    BY <1>1, <2>1, CreatedAssumption
  <2>3. Begun(p)
    BY <1>1, <2>2 DEF Begun, Step
  <2> QED
    BY <1>6, <2>3 DEF RunInv
<1>7. \A i \in Step : i < index[p] => file[Created[i]].there /\ file[Created[i]].by = p
  BY <1>1, FileFacts DEF RunInv, Begun, Step
<1>8. \A q \in Call \ {p} : phase'[q] = phase[q] /\ index'[q] = index[q]
  BY DEF CreateTarget, Onward, To, Types, CallTypes
<1>9. CASE index[p] = Last
  <2>1. phase'[p] = "created"
    BY <1>9 DEF CreateTarget, Onward, To, Types, CallTypes
  <2>2. ~\E q \in Call : Begun(q)'
    BY <1>6, <1>8, <2>1 DEF Begun
  <2>3. \A i \in Step : file'[Created[i]].there /\ file'[Created[i]].by = p
    BY <1>1, <1>3, <1>4, <1>7, <1>9 DEF Step
  <2>4. file'[Manifest].by = p
    BY <1>3, <1>9 DEF Manifest
  <2> QED
    BY <2>2, <2>3, <2>4 DEF RunInv, WholeRun
<1>10. CASE index[p] # Last
  <2>1. phase'[p] = "creating" /\ index'[p] = index[p] + 1
    BY <1>1, <1>10 DEF CreateTarget, Onward, Types, CallTypes
  <2>2. file'[Manifest] = file[Manifest]
    BY <1>4, <1>10, FileFacts DEF Manifest
  <2>3. \A i \in Step : i < index[p] + 1 => file'[Created[i]].there /\ file'[Created[i]].by = p
    <3>1. ASSUME NEW i \in Step, i < index[p] + 1 PROVE i < index[p] \/ i = index[p]
      BY <1>1, <3>1, FileFacts
    <3>2. \A i \in Step : i < index[p] => i # index[p]
      BY <1>1, FileFacts
    <3> QED
      BY <1>3, <1>4, <1>7, <3>1, <3>2
  <2>4. \A q \in Call : Begun(q)' => q = p
    BY <1>6, <1>8 DEF Begun
  <2> QED
    BY <1>5, <2>1, <2>2, <2>3, <2>4 DEF RunInv, WholeRun
<1> QED
  BY <1>9, <1>10

LEMMA RunStep ==
    ASSUME Types, RunInv, Next
    PROVE  RunInv'
<1>1. CASE \E p \in Call : CreateTarget(p)
  BY <1>1, CreateKeepsRun
<1>2. CASE ~\E p \in Call : CreateTarget(p)
  <2>1. Calm
    BY <1>2, StepCalm
  <2>2. CASE Edit \/ RemoveAudit \/ Remove
    BY <2>1, <2>2, EditKeepsRun, RemoveAuditKeepsRun, RemoveKeepsRun
  <2>3. CASE \A i \in Step : file'[Created[i]] = file[Created[i]]
    BY <2>1, <2>3, RunKept
  <2>4. ASSUME NEW p \in Call, WriteReport(p) \/ Withdraw(p) \/ CreateRecord(p)
        PROVE  \A i \in Step : file'[Created[i]] = file[Created[i]]
    BY <2>4, FileFacts DEF WriteReport, Withdraw, CreateRecord, Types
  <2> QED
    BY <1>2, <2>2, <2>3, <2>4
    DEF Next, Stop, StartRun, CheckTarget, StartAudit, CheckAudit, HashReport, StartSeal,
        StartVerify, Look, Listed, HashEntry, Hashed, HashBinding, PublishSeal, Accept
<1> QED
  BY <1>1, <1>2

-----------------------------------------------------------------------------
(* Audits.                                                                 *)

\* No call comes nearer to a record, and none without company learns anything.
Quiet ==
    \A q \in Call :
        /\ phase'[q] \in Auditing => phase[q] \in Auditing
        /\ phase'[q] \in Past => phase[q] \in Past
        /\ sole'[q] = TRUE =>
              /\ sole[q] = TRUE /\ phase'[q] \in Auditing
              /\ phase'[q] \in {"written", "hashed"} =>
                    phase'[q] = phase[q] /\ entry'[q][Report] = entry[q][Report]

LEMMA AuditKept ==
    ASSUME AuditInv, Quiet, file'[Report] = file[Report], file'[Record] = file[Record]
    PROVE  AuditInv'
<1>1. \A q \in Call : sole'[q] = TRUE =>
          /\ phase'[q] \in Auditing
          /\ \A r \in Call : phase'[r] \in Auditing => r = q
          /\ phase'[q] = "written" => file'[Report].by \in {q, Human}
          /\ phase'[q] = "hashed" =>
                entry'[q][Report].by \in {q, Human} /\ Stands(entry[q][Report])'
  BY DEF AuditInv, Quiet, Stands
<1>2. file'[Record].there = TRUE /\ file'[Record].about # Nothing
              /\ file'[Record].about.sole = TRUE =>
          /\ \A q \in Call : phase'[q] \notin Past
          /\ file'[Record].about.bound.by \in {file'[Record].by, Human}
          /\ Stands(file[Record].about.bound)'
  BY DEF AuditInv, Quiet, Stands
<1> QED
  BY <1>1, <1>2 DEF AuditInv, Stands, Quiet

\* While such a record stands no call is past the check.
Standing ==
    file[Record].there = TRUE /\ file[Record].about # Nothing
        /\ file[Record].about.sole = TRUE

LEMMA StartAuditKeeps ==
    ASSUME Types, AuditInv, NEW p \in Call, StartAudit(p)
    PROVE  AuditInv'
<1>1. /\ phase[p] = "new" /\ phase' = [phase EXCEPT ![p] = "checking"]
      /\ UNCHANGED <<file, entry>>
  BY DEF StartAudit, To, memory
<1>2. phase'[p] = "checking" /\ \A q \in Call \ {p} : phase'[q] = phase[q]
  BY <1>1 DEF Types, CallTypes
<1>3. sole'[p] = TRUE => \A r \in Call : phase[r] \notin Auditing
  BY Zenon DEF StartAudit
<1>4. \A q \in Call \ {p} : sole'[q] = TRUE => sole[q] = TRUE /\ phase[q] \notin Auditing
  BY Zenon DEF StartAudit, Types, CallTypes
<1>5. \A q \in Call \ {p} : sole'[q] # TRUE
  BY <1>4 DEF AuditInv
<1>6. "checking" \in Auditing /\ "checking" \notin Past
  BY DEF Auditing, Past
<1>7. \A q \in Call : sole'[q] = TRUE =>
          /\ phase'[q] = "checking" /\ \A r \in Call : phase'[r] \in Auditing => r = q
  BY <1>2, <1>3, <1>5
<1>8. \A q \in Call : phase'[q] \in Past => phase[q] \in Past
  BY <1>2, <1>6
<1> QED
  BY <1>1, <1>6, <1>7, <1>8 DEF AuditInv, Stands

LEMMA CheckAuditKeeps ==
    ASSUME Types, AuditInv, NEW p \in Call, CheckAudit(p)
    PROVE  AuditInv'
<1>1. phase[p] = "checking" /\ UNCHANGED <<file, sole, entry>>
  BY DEF CheckAudit, memory
<1>2. \/ phase' = phase
      \/ phase' = [phase EXCEPT ![p] = "unwritten"] /\ ~file[Record].there
  BY DEF CheckAudit, To
<1>3. CASE phase' = phase
  BY <1>1, <1>3, AuditKept DEF Quiet, AuditInv
<1>4. CASE phase' = [phase EXCEPT ![p] = "unwritten"] /\ ~file[Record].there
  <2>1. phase'[p] = "unwritten" /\ \A q \in Call \ {p} : phase'[q] = phase[q]
    BY <1>4 DEF Types, CallTypes
  <2>2. \A q \in Call : phase'[q] \in Auditing <=> phase[q] \in Auditing
    BY <1>1, <2>1 DEF Auditing
  <2>3. file'[Record].there # TRUE
    BY <1>1, <1>4
  <2> QED
    BY <1>1, <2>1, <2>2, <2>3 DEF AuditInv, Stands
<1> QED
  BY <1>2, <1>3, <1>4

\* The call that takes a step past the check is the only one that may be alone.
LEMMA Company ==
    ASSUME AuditInv, NEW p \in Call, phase[p] \in Past
    PROVE  ~Standing /\ \A q \in Call \ {p} : sole[q] # TRUE
<1>1. phase[p] \in Auditing
  BY DEF Past, Auditing
<1> QED
  BY <1>1 DEF AuditInv, Standing

LEMMA WriteReportKeeps ==
    ASSUME Types, AuditInv, NEW p \in Call, WriteReport(p)
    PROVE  AuditInv'
<1>1. PICK text \in Text :
         /\ phase[p] = "unwritten" /\ UNCHANGED <<sole, entry>>
         /\ phase' = [phase EXCEPT ![p] = "written"]
         /\ file' = [file EXCEPT ![Report] = Written(Report, text, p, Nothing)]
  BY DEF WriteReport, memory, To
<1>2. file'[Report].by = p /\ file'[Record] = file[Record]
  <2>1. Changes(Report, p)
    BY <1>1, WrittenChanges, FileFacts
  <2>2. file'[Report].by = p
    BY <2>1 DEF Changes
  <2>3. file'[Record] = file[Record]
    BY <1>1, FileFacts DEF Types
  <2> QED
    BY <2>2, <2>3
<1>3. ~Standing /\ \A q \in Call \ {p} : sole[q] # TRUE
  BY <1>1, Company DEF Past
<1>4. phase'[p] = "written" /\ \A q \in Call \ {p} : phase'[q] = phase[q]
  BY <1>1 DEF Types, CallTypes
<1>5. \A q \in Call : phase'[q] \in Auditing <=> phase[q] \in Auditing
  BY <1>1, <1>4 DEF Auditing
<1> QED
  BY <1>1, <1>2, <1>3, <1>4, <1>5 DEF AuditInv, Stands, Standing

LEMMA HashReportKeeps ==
    ASSUME Types, AuditInv, NEW p \in Call, HashReport(p)
    PROVE  AuditInv'
<1>1. phase[p] = "written" /\ UNCHANGED <<file, sole>>
      /\ phase' = [phase EXCEPT ![p] = "hashed"]
      /\ entry' = [entry EXCEPT ![p][Report] = file[Report]]
  BY DEF HashReport, To
<1>2. entry'[p][Report] = file[Report]
  BY <1>1, FileFacts DEF Types, CallTypes, Hashes
<1>3. ~Standing /\ \A q \in Call \ {p} : sole[q] # TRUE
  BY <1>1, Company DEF Past
<1>4. phase'[p] = "hashed" /\ \A q \in Call \ {p} : phase'[q] = phase[q]
  BY <1>1 DEF Types, CallTypes
<1>5. \A q \in Call : phase'[q] \in Auditing <=> phase[q] \in Auditing
  BY <1>1, <1>4 DEF Auditing
<1> QED
  BY <1>1, <1>2, <1>3, <1>4, <1>5 DEF AuditInv, Stands, Standing

LEMMA EndAudit ==
    ASSUME Types, NEW p \in Call, End(p)
    PROVE  /\ phase'[p] = "ended" /\ sole'[p] = FALSE
           /\ \A q \in Call \ {p} :
                 phase'[q] = phase[q] /\ sole'[q] = sole[q] /\ entry'[q] = entry[q]
BY DEF End, To, Types, CallTypes

LEMMA WithdrawKeeps ==
    ASSUME Types, AuditInv, NEW p \in Call, Withdraw(p)
    PROVE  AuditInv'
<1>1. phase[p] = "hashed" /\ End(p)
      /\ file' = [file EXCEPT ![Report] = Removed(Report, p)]
  BY DEF Withdraw
<1>2. file'[Record] = file[Record]
  BY <1>1, FileFacts DEF Types
<1>3. ~Standing /\ \A q \in Call \ {p} : sole[q] # TRUE
  BY <1>1, Company DEF Past
<1>4. \A q \in Call : sole'[q] # TRUE
  BY <1>1, <1>3, EndAudit
<1> QED
  BY <1>2, <1>3, <1>4 DEF AuditInv, Standing

LEMMA CreateRecordKeeps ==
    ASSUME Types, AuditInv, NEW p \in Call, CreateRecord(p)
    PROVE  AuditInv'
<1> DEFINE about == [bound |-> entry[p][Report], sole |-> sole[p]]
<1>1. PICK text \in Text :
         /\ phase[p] = "hashed" /\ End(p)
         /\ file' = [file EXCEPT ![Record] = Written(Record, text, p, about)]
  BY DEF CreateRecord
<1>2. about \in Binding
  BY <1>1, RecordedBinding
<1>3. file'[Record].by = p /\ file'[Record].about = about
  <2> HIDE DEF about
  <2>1. Changes(Record, p) /\ file'[Record].about = about
    BY <1>1, <1>2, WrittenChanges, FileFacts
  <2> QED
    BY <2>1 DEF Changes
<1>4. file'[Report] = file[Report]
  BY <1>1, FileFacts DEF Types
<1>5. \A q \in Call : sole'[q] # TRUE
  BY <1>1, Company, EndAudit DEF Past
<1>6. ASSUME sole[p] = TRUE
      PROVE  /\ \A q \in Call : phase'[q] \notin Past
             /\ entry[p][Report].by \in {p, Human}
             /\ file'[Report] = entry[p][Report] \/ file'[Report].by = Human
  <2>1. \A q \in Call : phase[q] \in Past => q = p
    BY <1>6 DEF AuditInv, Past, Auditing
  <2>2. \A q \in Call : phase'[q] \notin Past
    BY <1>1, <2>1, EndAudit DEF Past
  <2>3. entry[p][Report].by \in {p, Human} /\ Stands(entry[p][Report])
    BY <1>1, <1>6 DEF AuditInv
  <2> QED
    BY <1>4, <2>2, <2>3 DEF Stands
<1>7. about.bound = entry[p][Report] /\ about.sole = sole[p]
  OBVIOUS
<1> HIDE DEF about
<1> QED
  BY <1>3, <1>4, <1>5, <1>6, <1>7 DEF AuditInv, Stands

LEMMA PeopleKeepAudits ==
    ASSUME Types, AuditInv, Edit \/ RemoveAudit \/ Remove
    PROVE  AuditInv'
<1>1. UNCHANGED <<phase, sole, entry>>
  BY DEF Edit, RemoveAudit, Remove, memory
<1>2. PICK x \in File :
         \/ \E text \in Text : file' = [file EXCEPT ![x] = Written(x, text, Human, Nothing)]
         \/ file' = [file EXCEPT ![x] = Removed(x, Human)]
  BY FileFacts DEF Edit, RemoveAudit, Remove
<1>3. Changes(x, Human) /\ file'[x].about = Nothing
  <2>1. CASE \E text \in Text : file' = [file EXCEPT ![x] = Written(x, text, Human, Nothing)]
    <3>1. PICK text \in Text : file' = [file EXCEPT ![x] = Written(x, text, Human, Nothing)]
      BY <2>1
    <3> QED
      BY <3>1, WrittenChanges
  <2>2. CASE file' = [file EXCEPT ![x] = Removed(x, Human)]
    BY <2>2, RemovedChanges
  <2> QED
    BY <1>2, <2>1, <2>2
<1>4. CASE x = Report
  <2>1. file'[Report].by = Human /\ file'[Record] = file[Record]
    BY <1>3, <1>4, FileFacts DEF Changes, Types
  <2> QED
    BY <1>1, <2>1 DEF AuditInv, Stands
<1>5. CASE x = Record
  <2>1. file'[Record].about = Nothing /\ file'[Report] = file[Report]
    BY <1>3, <1>5, FileFacts DEF Changes, Types
  <2> QED
    BY <1>1, <2>1 DEF AuditInv, Stands
<1>6. CASE x \notin {Report, Record}
  <2>1. file'[Record] = file[Record] /\ file'[Report] = file[Report]
    BY <1>3, <1>6, FileFacts DEF Changes, Types
  <2> QED
    BY <1>1, <2>1 DEF AuditInv, Stands
<1> QED
  BY <1>4, <1>5, <1>6

LEMMA AuditStep ==
    ASSUME Types, AuditInv, Next
    PROVE  AuditInv'
<1>1. ASSUME NEW p \in Call,
             \/ StartAudit(p) \/ CheckAudit(p) \/ WriteReport(p) \/ HashReport(p)
             \/ Withdraw(p) \/ CreateRecord(p)
      PROVE  AuditInv'
  BY <1>1, StartAuditKeeps, CheckAuditKeeps, WriteReportKeeps, HashReportKeeps,
     WithdrawKeeps, CreateRecordKeeps
<1>2. CASE Edit \/ RemoveAudit \/ Remove
  BY <1>2, PeopleKeepAudits
<1>3. ASSUME NEW p \in Call, Stop(p) \/ PublishSeal(p) PROVE AuditInv'
  <2>1. End(p) /\ file' = file
    BY <1>3 DEF Stop, PublishSeal
  <2>2. Quiet
    <3>1. "ended" \notin Auditing /\ "ended" \notin Past
      BY DEF Auditing, Past
    <3> QED
      BY <2>1, <3>1, EndAudit DEF Quiet, AuditInv
  <2> QED
    BY <2>1, <2>2, AuditKept
<1>4. ASSUME NEW p \in Call, CreateTarget(p) \/ CheckTarget(p) PROVE AuditInv'
  <2>1. phase[p] \in {"checked", "creating"} /\ UNCHANGED <<sole, entry>>
        /\ \/ phase' = phase
           \/ \E label \in {"creating", "created"} : phase' = [phase EXCEPT ![p] = label]
    BY <1>4 DEF CreateTarget, CheckTarget, Onward, To, memory
  <2>2. Quiet
    BY <2>1 DEF Quiet, AuditInv, Auditing, Past, Types, CallTypes
  <2>3. file'[Report] = file[Report] /\ file'[Record] = file[Record]
    BY <1>4, FileFacts DEF CreateTarget, CheckTarget, Types, CallTypes
  <2> QED
    BY <2>2, <2>3, AuditKept
<1>5. ASSUME NEW p \in Call,
             \/ StartRun(p) \/ StartSeal(p) \/ StartVerify(p) \/ Look(p) \/ Listed(p)
             \/ HashEntry(p) \/ Hashed(p) \/ HashBinding(p) \/ Accept(p)
      PROVE  AuditInv'
  <2>1. phase[p] \notin Auditing /\ UNCHANGED <<file, sole>>
        /\ \/ phase' = phase
           \/ \E label \in Phase \ Auditing : phase' = [phase EXCEPT ![p] = label]
    BY <1>5 DEF StartRun, StartSeal, StartVerify, Look, Listed, HashEntry, Hashed,
       HashBinding, Accept, To, Phase, Auditing
  <2>2. \A q \in Call \ {p} : entry'[q] = entry[q]
    BY <1>5 DEF StartRun, StartSeal, StartVerify, Look, Listed, HashEntry, Hashed,
       HashBinding, Accept, memory, Types, CallTypes
  <2>3. sole[p] # TRUE
    BY <2>1 DEF AuditInv
  <2>4. phase'[p] \notin Auditing /\ \A q \in Call \ {p} : phase'[q] = phase[q]
    BY <2>1 DEF Types, CallTypes
  <2>5. Past \subseteq Auditing
    BY DEF Past, Auditing
  <2>6. Quiet
    BY <2>1, <2>2, <2>3, <2>4, <2>5 DEF Quiet, AuditInv
  <2> QED
    BY <2>1, <2>6, AuditKept
<1> QED
  BY <1>1, <1>2, <1>3, <1>4, <1>5 DEF Next

-----------------------------------------------------------------------------
(* Seals.                                                                  *)

LEMMA PrecedesForward ==
    ASSUME Types, Forward, NEW x \in File, NEW m, Precedes(m, file[x])
    PROVE  Precedes(m, file'[x])
<1>1. m.version \in Nat /\ file[x].version \in Nat
  BY ContentFacts DEF Precedes, Types
<1> QED
  BY <1>1 DEF Precedes, Forward

LEMMA PrecedesItself ==
    ASSUME NEW m \in Content
    PROVE  Precedes(m, m)
BY ContentFacts DEF Precedes

\* Only who listed the files needs to know what is left.
Same(q) ==
    /\ list'[q] = list[q] /\ entry'[q] = entry[q]
    /\ loaded'[q] = loaded[q] /\ began'[q] = began[q]
    /\ phase'[q] \in {"new", "listing", "entries", "bindings"} => phase'[q] = phase[q]
    /\ phase'[q] \in {"listing", "entries"} => left'[q] = left[q]

LEMMA CallKept ==
    ASSUME Types, Forward, BeganInv, NEW q \in Call, CallInv(q), Same(q)
    PROVE  CallInv(q)'
<1>1. ASSUME NEW x \in File, loaded[q] # Nothing
      PROVE  /\ Precedes(began[q][x], file'[x])
             /\ Gone(q, x) => Gone(q, x)'
  <2>1. began[q][x] \in Content /\ file[x] \in Content
    BY <1>1 DEF BeganInv, Types
  <2>2. Precedes(began[q][x], file'[x])
    BY <1>1, PrecedesForward DEF CallInv
  <2>3. began[q][x].version \in Nat /\ file[x].version \in Nat
    BY <2>1, ContentFacts
  <2>4. began[q][x].version < file[x].version => began[q][x].version < file'[x].version
    BY <2>3 DEF Forward
  <2>5. began'[q] = began[q]
    BY DEF Same
  <2> QED
    BY <2>2, <2>4, <2>5 DEF Gone
<1> QED
  BY <1>1 DEF CallInv, Same

\* A call that has ended knows nothing.
LEMMA CallEnded ==
    ASSUME Types, NEW p \in Call, End(p)
    PROVE  CallInv(p)' /\ \A q \in Call \ {p} : Same(q)
<1>1. /\ phase'[p] = "ended" /\ entry'[p] = Unhashed /\ loaded'[p] = Nothing
  BY DEF End, To, Types, CallTypes
<1>2. \A q \in Call \ {p} : Same(q)
  BY DEF End, To, Types, CallTypes, Same
<1> QED
  BY <1>1, <1>2, UnhashedFacts DEF CallInv

LEMMA HashReportSeals ==
    ASSUME Types, BeganInv, NEW p \in Call, CallInv(p), HashReport(p)
    PROVE  CallInv(p)' /\ \A q \in Call \ {p} : Same(q)
<1>1. /\ file' = file /\ loaded' = loaded /\ began' = began /\ phase'[p] = "hashed"
      /\ \A q \in Call \ {p} : Same(q)
  BY DEF HashReport, To, Types, CallTypes, Same
<1>2. entry'[p] = [entry[p] EXCEPT ![Report] = file[Report]] /\ entry[p] \in Hashes
  BY DEF HashReport, Types, CallTypes
<1>3. \A x \in File : entry'[p][x] = entry[p][x] \/ entry'[p][x] = file[x]
  BY <1>2, FileFacts DEF Hashes
<1>4. entry'[p][Report] = file[Report] /\ file[Report].there = TRUE
      /\ \A x \in File \ {Report} : entry'[p][x] = entry[p][x]
  <2>1. file[Report].there /\ file[Report].there \in BOOLEAN
    BY FileFacts, ContentFacts DEF HashReport, Types
  <2> QED
    BY <1>2, <2>1, FileFacts DEF Hashes
<1> QED
  BY <1>1, <1>3, <1>4 DEF CallInv

LEMMA StartSealSeals ==
    ASSUME Types, NEW p \in Call, CallInv(p), StartSeal(p)
    PROVE  CallInv(p)' /\ \A q \in Call \ {p} : Same(q)
<1>1. /\ UNCHANGED <<file, loaded, began, entry>>
      /\ phase'[p] = "listing" /\ left'[p] = File
      /\ \A q \in Call \ {p} : Same(q)
  BY DEF StartSeal, To, Types, CallTypes, Same
<1> QED
  BY <1>1 DEF CallInv

LEMMA StartVerifySeals ==
    ASSUME Types, BeganInv, NEW p \in Call, CallInv(p), StartVerify(p)
    PROVE  CallInv(p)' /\ \A q \in Call \ {p} : Same(q)
<1>1. /\ UNCHANGED <<file, entry>> /\ loaded'[p] = seal /\ began'[p] = file
      /\ seal # Nothing /\ phase[p] = "new" /\ phase'[p] = "listing" /\ left'[p] = File
      /\ \A q \in Call \ {p} : Same(q)
  BY DEF StartVerify, To, Types, CallTypes, Same
<1>2. \A x \in File : entry'[p][x] = Nothing
  BY <1>1 DEF CallInv
<1>3. \A x \in File : Precedes(file[x], file[x])
  BY PrecedesItself DEF Types
<1> QED
  BY <1>1, <1>2, <1>3 DEF CallInv

\* A file that was there when the call began and is not now has changed.
LEMMA LookSeals ==
    ASSUME Types, BeganInv, NEW p \in Call, CallInv(p), Look(p)
    PROVE  CallInv(p)' /\ \A q \in Call \ {p} : Same(q)
<1>1. /\ UNCHANGED <<file, entry, loaded, began, phase>> /\ phase[p] = "listing"
  BY DEF Look
<1>2. PICK x \in File :
         /\ left' = [left EXCEPT ![p] = @ \ {x}]
         /\ list' = [list EXCEPT ![p] = IF file[x].there THEN @ \union {x} ELSE @]
  BY DEF Look
<1>3. \A q \in Call \ {p} : Same(q)
  BY <1>1, <1>2 DEF Same, Types, CallTypes
<1>4. /\ \A y \in File \ {x} :
            y \in left[p] \union list[p] => y \in left'[p] \union list'[p]
      /\ file[x].there => x \in list'[p]
  BY <1>2 DEF Types, CallTypes
<1>5. ASSUME ~file[x].there, loaded[p] # Nothing PROVE Gone(p, x)
  <2>1. Precedes(began[p][x], file[x]) /\ began[p][x] \in Content /\ file[x] \in Content
    BY <1>5 DEF CallInv, BeganInv, Types
  <2>2. began[p][x].version < file[x].version \/ began[p][x] = file[x]
    BY <2>1, ContentFacts DEF Precedes
  <2>3. file[x].there = FALSE
    BY <1>5, <2>1, ContentFacts
  <2> QED
    BY <2>2, <2>3 DEF Gone
<1>6. ASSUME NEW y \in File, loaded[p] # Nothing
      PROVE  y \in left'[p] \union list'[p] \/ Gone(p, y)
  BY <1>1, <1>4, <1>5, <1>6 DEF CallInv
<1> QED
  BY <1>1, <1>3, <1>6 DEF CallInv, Gone

LEMMA ListedSeals ==
    ASSUME Types, NEW p \in Call, CallInv(p), Listed(p)
    PROVE  CallInv(p)' /\ \A q \in Call \ {p} : Same(q)
<1>1. /\ UNCHANGED <<file, list, loaded, began, entry>>
      /\ phase[p] = "listing" /\ left[p] = {}
      /\ phase'[p] = "entries" /\ left'[p] = list[p]
      /\ \A q \in Call \ {p} : Same(q)
  BY DEF Listed, To, Types, CallTypes, Same
<1> QED
  BY <1>1 DEF CallInv, Gone

LEMMA HashEntrySeals ==
    ASSUME Types, BeganInv, NEW p \in Call, CallInv(p), HashEntry(p)
    PROVE  CallInv(p)' /\ \A q \in Call \ {p} : Same(q)
<1>1. UNCHANGED <<file, list, loaded, began, phase>> /\ phase[p] = "entries"
  BY DEF HashEntry
<1>2. PICK x \in File :
         /\ left' = [left EXCEPT ![p] = @ \ {x}]
         /\ entry' = [entry EXCEPT ![p][x] = file[x]]
         /\ file[x].there
  BY DEF HashEntry
<1>3. \A q \in Call \ {p} : Same(q)
  BY <1>1, <1>2 DEF Same, Types, CallTypes
<1>4. entry'[p] = [entry[p] EXCEPT ![x] = file[x]] /\ entry[p] \in Hashes
      /\ left'[p] = left[p] \ {x}
  BY <1>2 DEF Types, CallTypes
<1>5. entry'[p][x] = file[x] /\ \A y \in File \ {x} : entry'[p][y] = entry[p][y]
  BY <1>4 DEF Hashes
<1>6. file[x] # Nothing /\ file[x].there = TRUE
  BY <1>2, ContentFacts DEF Types
<1>7. \A y \in File : entry'[p][y] # Nothing => entry'[p][y].there = TRUE
  BY <1>5, <1>6 DEF CallInv
<1>8. ASSUME NEW y \in list[p] PROVE y \in left'[p] \/ entry'[p][y] # Nothing
  <2>1. y \in File
    BY DEF Types, CallTypes
  <2> QED
    BY <1>1, <1>4, <1>5, <1>6, <2>1 DEF CallInv
<1>9. ASSUME NEW y \in File, loaded[p] # Nothing, entry'[p][y] # Nothing
      PROVE  Precedes(began[p][y], entry'[p][y])
  BY <1>5, <1>9 DEF CallInv
<1> QED
  BY <1>1, <1>3, <1>7, <1>8, <1>9 DEF CallInv, Gone

LEMMA HashedSeals ==
    ASSUME Types, NEW p \in Call, CallInv(p), Hashed(p)
    PROVE  CallInv(p)' /\ \A q \in Call \ {p} : Same(q)
<1>1. /\ UNCHANGED <<file, list, loaded, began, entry>>
      /\ phase[p] = "entries" /\ left[p] = {} /\ phase'[p] = "bindings"
      /\ \A q \in Call \ {p} : Same(q)
  BY DEF Hashed, To, Types, CallTypes, Same
<1> QED
  BY <1>1 DEF CallInv, Gone

LEMMA BeganStep ==
    ASSUME Types, BeganInv, Next
    PROVE  BeganInv'
<1>1. ASSUME NEW p \in Call, StartVerify(p)
      PROVE  \A q \in Call : loaded'[q] # Nothing => began'[q] \in [File -> Content]
  <2>1. began'[p] = file /\ file \in [File -> Content]
    BY <1>1 DEF StartVerify, Types, CallTypes
  <2>2. \A q \in Call \ {p} : loaded'[q] = loaded[q] /\ began'[q] = began[q]
    BY <1>1 DEF StartVerify, Types, CallTypes
  <2> QED
    BY <2>1, <2>2 DEF BeganInv
<1>2. ASSUME NEW p \in Call, End(p)
      PROVE  \A q \in Call : loaded'[q] # Nothing => began'[q] \in [File -> Content]
  BY <1>2 DEF End, BeganInv, Types, CallTypes
<1>3. CASE loaded' = loaded /\ began' = began
  BY <1>3 DEF BeganInv
<1> QED
  BY <1>1, <1>2, <1>3
  DEF Next, Stop, StartRun, CheckTarget, CreateTarget, StartAudit, CheckAudit, WriteReport,
      HashReport, Withdraw, CreateRecord, StartSeal, Look, Listed, HashEntry, Hashed,
      HashBinding, PublishSeal, Accept, Edit, RemoveAudit, Remove, memory, BeganInv

LEMMA VersionStep ==
    ASSUME Types, VersionInv, Next
    PROVE  VersionInv'
<1> USE DEF VersionInv
<1>1. Forward /\ BeganInv'
  BY StepForward, BeganStep
<1>2. \A q \in Call : Same(q) => CallInv(q)'
  BY <1>1, CallKept
<1>3. ASSUME NEW p \in Call,
             \/ Stop(p) \/ Withdraw(p) \/ CreateRecord(p) \/ HashReport(p) \/ StartSeal(p)
             \/ StartVerify(p) \/ Look(p) \/ Listed(p) \/ HashEntry(p) \/ Hashed(p)
             \/ PublishSeal(p)
      PROVE  CallInv(p)' /\ \A q \in Call \ {p} : Same(q)
  <2>1. ASSUME Stop(p) \/ Withdraw(p) \/ CreateRecord(p) \/ PublishSeal(p)
        PROVE  CallInv(p)' /\ \A q \in Call \ {p} : Same(q)
    BY <2>1, CallEnded DEF Stop, Withdraw, CreateRecord, PublishSeal
  <2> QED
    BY <1>3, <2>1, HashReportSeals, StartSealSeals, StartVerifySeals, LookSeals, ListedSeals,
       HashEntrySeals, HashedSeals
<1>4. ASSUME NEW p \in Call,
             \/ StartRun(p) \/ CheckTarget(p) \/ CreateTarget(p) \/ StartAudit(p)
             \/ CheckAudit(p) \/ WriteReport(p) \/ HashBinding(p) \/ Accept(p)
      PROVE  \A q \in Call : Same(q)
  <2>1. /\ UNCHANGED <<list, entry, loaded, began>>
        /\ left' = left \/ (phase[p] = "bindings" /\ \E s : left' = [left EXCEPT ![p] = s])
        /\ \/ phase' = phase
           \/ \E label \in Phase \ {"new", "listing", "entries", "bindings"} :
                 phase' = [phase EXCEPT ![p] = label]
    BY <1>4 DEF StartRun, CheckTarget, CreateTarget, StartAudit, CheckAudit, WriteReport,
       HashBinding, Accept, Onward, To, memory, Phase, Auditing
  <2> QED
    BY <2>1 DEF Same, Types, CallTypes
<1>5. CASE Edit \/ RemoveAudit \/ Remove
  <2>1. \A q \in Call : Same(q)
    BY <1>5 DEF Edit, RemoveAudit, Remove, memory, Same
  <2> QED
    BY <1>1, <1>2, <2>1
<1> QED
  BY <1>1, <1>2, <1>3, <1>4, <1>5 DEF Next

-----------------------------------------------------------------------------
(* The theorems.                                                           *)

LEMMA InitRInv == Init => RInv
<1> SUFFICES ASSUME Init PROVE RInv
  OBVIOUS
<1>1. /\ \A p \in Call : phase[p] = "new" /\ index[p] = 1 /\ sole[p] = FALSE
                          /\ loaded[p] = Nothing /\ entry[p] = Unhashed
      /\ \A x \in File : file[x] = Missing(0, Human)
      /\ seal = Nothing
  BY DEF Init
<1>2. Missing(0, Human).there = FALSE /\ Missing(0, Human).about = Nothing
      /\ Missing(0, Human) \in Content
  BY DEF Missing, Content, Versions
<1>3. Types
  <2>1. CallTypes
    BY UnhashedFacts DEF Init, CallTypes, Phase
  <2>2. file \in [File -> Content]
    BY <1>2 DEF Init
  <2> QED
    BY <1>1, <1>2, <2>1, <2>2, FileFacts DEF Types
<1>4. RunInv
  BY <1>1, <1>2, FileFacts DEF RunInv, WholeRun, Begun
<1>5. AuditInv
  BY <1>1, <1>2, FileFacts DEF AuditInv
<1>6. VersionInv
  BY <1>1, UnhashedFacts DEF VersionInv, BeganInv, CallInv
<1> QED
  BY <1>3, <1>4, <1>5, <1>6 DEF RInv

LEMMA StepRInv == RInv /\ [Next]_vars => RInv'
<1> SUFFICES ASSUME RInv, [Next]_vars PROVE RInv'
  OBVIOUS
<1>1. CASE Next
  BY <1>1, TypesStep, RunStep, AuditStep, VersionStep DEF RInv
<1>2. CASE UNCHANGED vars
  <2>1. Types'
    BY <1>2 DEF RInv, vars, memory, Types, CallTypes
  <2>2. RunInv'
    BY <1>2 DEF RInv, vars, RunInv, WholeRun, Begun
  <2>3. AuditInv'
    BY <1>2 DEF RInv, vars, memory, AuditInv, Stands
  <2>4. VersionInv'
    BY <1>2 DEF RInv, vars, memory, VersionInv, BeganInv, CallInv, Gone
  <2> QED
    BY <2>1, <2>2, <2>3, <2>4 DEF RInv
<1> QED
  BY <1>1, <1>2

\* The strengthening of all three parts holds throughout: it is inductive.
THEOREM RecordsKept == Spec => []RInv
BY InitRInv, StepRInv, PTL DEF Spec

\* init_run: whoever races for a run id and whatever failed creations left, the
\* files behind a manifest are of one creation.
THEOREM RunsAreWhole == Spec => []WholeRun
<1>1. RInv => WholeRun
  BY DEF RInv, RunInv
<1> QED
  BY <1>1, RecordsKept, PTL

\* record_audit: the record of a call without company binds its own report.
THEOREM AuditsStand == Spec => []AuditStands
<1>1. RInv => AuditStands
  BY DEF RInv, AuditInv, AuditStands, Stands
<1> QED
  BY <1>1, RecordsKept, PTL

LEMMA AcceptedWasWhole ==
    ASSUME Types, VersionInv, NEW p \in Call, Accept(p), NEW x \in File
    PROVE  /\ loaded[p].entry[x] # Nothing =>
                 \/ began[p][x].there /\ SameHash(began[p][x], loaded[p].entry[x])
                 \/ /\ entry[p][x] # Nothing
                    /\ began[p][x].version < entry[p][x].version
                    /\ SameHash(entry[p][x], loaded[p].entry[x])
           /\ file[x].there /\ file[x] = began[p][x] => loaded[p].entry[x] # Nothing
<1>1. phase[p] = "bindings" /\ loaded[p] # Nothing /\ SameHash(entry[p][x], loaded[p].entry[x])
  BY DEF Accept, Matches
<1>2. CallInv(p) /\ began[p][x] \in Content /\ file[x] \in Content
      /\ entry[p][x] \in Content \union {Nothing}
  BY <1>1 DEF VersionInv, BeganInv, Types, CallTypes, Hashes
<1>3. ASSUME loaded[p].entry[x] # Nothing
      PROVE  \/ began[p][x].there /\ SameHash(began[p][x], loaded[p].entry[x])
             \/ /\ entry[p][x] # Nothing
                /\ began[p][x].version < entry[p][x].version
                /\ SameHash(entry[p][x], loaded[p].entry[x])
  <2>1. entry[p][x] # Nothing /\ entry[p][x] \in Content
    BY <1>1, <1>2, <1>3 DEF SameHash
  <2>2. Precedes(began[p][x], entry[p][x]) /\ entry[p][x].there = TRUE
    BY <1>1, <1>2, <2>1 DEF CallInv
  <2>3. began[p][x].version < entry[p][x].version \/ began[p][x] = entry[p][x]
    BY <1>2, <2>1, <2>2, ContentFacts DEF Precedes
  <2> QED
    BY <1>1, <2>1, <2>2, <2>3
<1>4. ASSUME file[x].there, file[x] = began[p][x] PROVE loaded[p].entry[x] # Nothing
  <2>1. began[p][x].there # FALSE
    BY <1>4, <1>2, ContentFacts
  <2>2. ~(began[p][x].version < file[x].version)
    BY <1>4, <1>2, ContentFacts
  <2>3. x \in list[p]
    BY <1>1, <1>2, <2>1, <2>2 DEF CallInv, Gone
  <2>4. entry[p][x] # Nothing
    BY <1>1, <1>2, <2>3 DEF CallInv
  <2> QED
    BY <1>1, <2>4 DEF SameHash
<1> QED
  BY <1>3, <1>4

LEMMA OnlyAcceptAccepts ==
    ASSUME Types, [Next]_vars, NEW p \in Call,
           phase[p] # "accepted", phase'[p] = "accepted"
    PROVE  Accept(p)
<1>1. phase' # phase
  OBVIOUS
<1>2. ASSUME NEW q \in Call, NEW label, label # "accepted",
             phase' = [phase EXCEPT ![q] = label]
      PROVE  FALSE
  BY <1>2 DEF Types, CallTypes
<1>3. ASSUME NEW q \in Call, Accept(q) PROVE q = p
  BY <1>3 DEF Accept, To, Types, CallTypes
<1>4. ASSUME NEW q \in Call,
             \/ Stop(q) \/ StartRun(q) \/ StartAudit(q) \/ WriteReport(q) \/ HashReport(q)
             \/ Withdraw(q) \/ CreateRecord(q) \/ StartSeal(q) \/ StartVerify(q) \/ Listed(q)
             \/ Hashed(q) \/ PublishSeal(q)
      PROVE  \E label : label # "accepted" /\ phase' = [phase EXCEPT ![q] = label]
  BY <1>4 DEF Stop, StartRun, StartAudit, WriteReport, HashReport, Withdraw, CreateRecord,
     StartSeal, StartVerify, Listed, Hashed, PublishSeal, To, End
<1>5. ASSUME NEW q \in Call, CheckTarget(q) \/ CreateTarget(q) \/ CheckAudit(q)
      PROVE  \E label : label # "accepted" /\ phase' = [phase EXCEPT ![q] = label]
  BY <1>1, <1>5 DEF CheckTarget, CreateTarget, CheckAudit, Onward, To
<1>6. ASSUME NEW q \in Call, Look(q) \/ HashEntry(q) \/ HashBinding(q) PROVE FALSE
  BY <1>1, <1>6 DEF Look, HashEntry, HashBinding
<1>7. CASE Edit \/ RemoveAudit \/ Remove \/ UNCHANGED vars
  BY <1>1, <1>7 DEF Edit, RemoveAudit, Remove, vars
<1> QED
  BY <1>2, <1>3, <1>4, <1>5, <1>6, <1>7 DEF Next

\* verify_bundle: what it accepts was true all at once when it loaded the seal,
\* although the verification reads the files one by one: unless somebody has
\* written a file with the sealed bytes since.
THEOREM VerificationSound == Spec => VerifiedWasWhole
<1> DEFINE Sound ==
        \A p \in Call : phase[p] # "accepted" /\ phase'[p] = "accepted" =>
          \A x \in File :
              /\ loaded[p].entry[x] # Nothing =>
                    \/ began[p][x].there /\ SameHash(began[p][x], loaded[p].entry[x])
                    \/ /\ entry[p][x] # Nothing
                       /\ began[p][x].version < entry[p][x].version
                       /\ SameHash(entry[p][x], loaded[p].entry[x])
              /\ file[x].there /\ file[x] = began[p][x] => loaded[p].entry[x] # Nothing
<1>1. RInv /\ [Next]_vars => Sound
  BY OnlyAcceptAccepts, AcceptedWasWhole DEF RInv
<1>2. RInv /\ [Next]_vars => [Sound]_vars
  BY <1>1
<1> QED
  BY <1>2, RecordsKept, PTL DEF Spec, VerifiedWasWhole
=============================================================================
