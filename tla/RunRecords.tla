----------------------------- MODULE RunRecords -----------------------------
(***************************************************************************)
(* The durable files of one run: init_run creates them (runs.py),          *)
(* record_audit adds the two files of an audit (audit.py), seal_bundle     *)
(* hashes what is there into the seal and verify_bundle compares it with   *)
(* what is there by then (bundles.py).  None of these takes a lock: every  *)
(* look at a file and every write is a step.  A call may stop after any of *)
(* them, by an error or with its process; people edit files, and remove    *)
(* what failed calls left.                                                 *)
(***************************************************************************)
EXTENDS Naturals

CONSTANTS
    \* Calls of the four operations, by any processes.
    Call,
    \* The number of files init_run writes, and the files in the order it writes
    \* them, the manifest last.
    Last, Created,
    \* Those it may only create, never overwrite (the JSON files).
    Exclusive,
    \* The Markdown and the JSON file of an audit.
    Report, Record,
    \* The pairs <<json, markdown>> of the same name.
    Companions,
    \* Where a file comes in the enumeration of the directories, and by its name.
    ListingPlace, NamePlace,
    \* What a file may hold: the bytes, as far as their hash tells them apart.
    Text,
    \* A bound of the model on what people edit, and remove of audits.
    MaxEdits,
    Human, Nothing

Step == 1 .. Last
File == {Created[i] : i \in Step} \union {Report, Record}

ASSUME CreatedAssumption ==
    /\ Last \in Nat \ {0}
    /\ DOMAIN Created = Step
    /\ \A i, j \in Step : Created[i] = Created[j] => i = j
    /\ \A i \in Step : Created[i] \notin {Report, Record}
    /\ Report # Record
    /\ Created[1] \in Exclusive /\ Created[Last] \in Exclusive
ASSUME ActorAssumption == Human \notin Call
ASSUME EditBound == MaxEdits \in Nat

\* What a file is: whether it is there and what it holds.  That is all a program
\* can see of it; which version it is, who made it and, of an audit record, what it
\* was made about are history, kept to state what should be true.
Versions(about) ==
    [there : BOOLEAN, text : Text \union {Nothing},
     version : Nat, by : Call \union {Human}, about : about]
Binding == [bound : Versions({Nothing}), sole : BOOLEAN]
Content == Versions(Binding \union {Nothing})

ASSUME NothingAssumption == Nothing \notin Content \union Binding

VARIABLES
    \* Each file.
    file,
    \* How often people edited a file or removed one of an audit.
    edits,
    \* The seal of the run.
    seal,
    \* Where each call is.
    phase,
    \* The next target of init_run or of the audit's existence check.
    index,
    \* The call is the only one on its audit since it started.
    sole,
    \* Files to be visited, and the files listed.
    left, list,
    \* What was hashed of each file: for the entries, and again for the bindings.
    entry, again,
    \* The seal under verification, and the files when it was loaded.
    loaded, began

memory == <<left, list, entry, again, loaded, began>>
vars == <<file, edits, seal, phase, index, sole, memory>>

Manifest == Created[Last]
Auditing == {"unwritten", "written", "hashed", "checking"}

Unhashed == [x \in File |-> Nothing]
Missing(version, who) ==
    [there |-> FALSE, text |-> Nothing, version |-> version, by |-> who, about |-> Nothing]
\* Any content, be it one the file had before.
Written(x, text, who, about) ==
    [there |-> TRUE, text |-> text, version |-> file[x].version + 1, by |-> who, about |-> about]
Removed(x, who) == Missing(file[x].version + 1, who)

Init ==
    /\ file = [x \in File |-> Missing(0, Human)]
    /\ edits = 0
    /\ seal = Nothing
    /\ phase = [p \in Call |-> "new"]
    /\ index = [p \in Call |-> 1]
    /\ sole = [p \in Call |-> FALSE]
    /\ left = [p \in Call |-> {}]
    /\ list = [p \in Call |-> {}]
    /\ entry = [p \in Call |-> Unhashed]
    /\ again = [p \in Call |-> Unhashed]
    /\ loaded = [p \in Call |-> Nothing]
    /\ began = [p \in Call |-> Nothing]

To(p, label) == phase' = [phase EXCEPT ![p] = label]

\* The call returns, raises or dies, and forgets what it knew.
End(p) ==
    /\ To(p, "ended")
    /\ index' = [index EXCEPT ![p] = 1]
    /\ sole' = [sole EXCEPT ![p] = FALSE]
    /\ left' = [left EXCEPT ![p] = {}]
    /\ list' = [list EXCEPT ![p] = {}]
    /\ entry' = [entry EXCEPT ![p] = Unhashed]
    /\ again' = [again EXCEPT ![p] = Unhashed]
    /\ loaded' = [loaded EXCEPT ![p] = Nothing]
    /\ began' = [began EXCEPT ![p] = Nothing]

\* A check fails, I/O raises, or the process dies: what is written stays.
Stop(p) ==
    /\ phase[p] \notin {"new", "ended"}
    /\ End(p)
    /\ UNCHANGED <<file, edits, seal>>

-----------------------------------------------------------------------------
(* init_run.                                                               *)

StartRun(p) ==
    /\ phase[p] = "new"
    /\ To(p, "checked")
    /\ UNCHANGED <<file, edits, seal, index, sole, memory>>

Onward(p, label) ==
    IF index[p] = Last
    THEN To(p, label) /\ index' = [index EXCEPT ![p] = 1]
    ELSE UNCHANGED phase /\ index' = [index EXCEPT ![p] = @ + 1]

\* One target does not exist.
CheckTarget(p) ==
    /\ phase[p] = "checked"
    /\ ~file[Created[index[p]]].there
    /\ Onward(p, "creating")
    /\ UNCHANGED <<file, edits, seal, sole, memory>>

\* JSON files are published if absent, Markdown is written whatever is there.
\* (Faulty variant: everything is written whatever is there.)
OverwriteTarget(p) ==
    LET x == Created[index[p]]
    IN  /\ phase[p] = "creating"
        /\ \E text \in Text : file' = [file EXCEPT ![x] = Written(x, text, p, Nothing)]
        /\ Onward(p, "created")
        /\ UNCHANGED <<edits, seal, sole, memory>>
CreateTarget(p) ==
    LET x == Created[index[p]]
    IN  /\ phase[p] = "creating"
        /\ x \in Exclusive => ~file[x].there
        /\ \E text \in Text : file' = [file EXCEPT ![x] = Written(x, text, p, Nothing)]
        /\ Onward(p, "created")
        /\ UNCHANGED <<edits, seal, sole, memory>>

-----------------------------------------------------------------------------
(* record_audit.                                                           *)

StartAudit(p) ==
    /\ phase[p] = "new"
    /\ To(p, "checking")
    /\ sole' = [q \in Call |-> IF q = p THEN \A r \in Call : phase[r] \notin Auditing
                               ELSE sole[q] /\ phase[q] \notin Auditing]
    /\ UNCHANGED <<file, edits, seal, index, memory>>

\* Neither file of the audit exists, looked at one after the other.  (Faulty
\* variant: only the report is looked at.)
CheckReport(p) ==
    /\ phase[p] = "checking"
    /\ ~file[Report].there
    /\ To(p, "unwritten")
    /\ UNCHANGED <<file, edits, seal, index, sole, memory>>
CheckAudit(p) ==
    /\ phase[p] = "checking"
    /\ IF index[p] = 1
       THEN /\ ~file[Report].there
            /\ index' = [index EXCEPT ![p] = 2]
            /\ UNCHANGED phase
       ELSE /\ ~file[Record].there
            /\ index' = [index EXCEPT ![p] = 1]
            /\ To(p, "unwritten")
    /\ UNCHANGED <<file, edits, seal, sole, memory>>

\* The Markdown report is written, whatever is there.
WriteReport(p) ==
    /\ phase[p] = "unwritten"
    /\ \E text \in Text :
          file' = [file EXCEPT ![Report] = Written(Report, text, p, Nothing)]
    /\ To(p, "written")
    /\ UNCHANGED <<edits, seal, index, sole, memory>>

\* The report is read again for its hash.
HashReport(p) ==
    /\ phase[p] = "written"
    /\ file[Report].there
    /\ entry' = [entry EXCEPT ![p][Report] = file[Report]]
    /\ To(p, "hashed")
    /\ UNCHANGED <<file, edits, seal, index, sole, left, list, again, loaded, began>>

\* The record does not validate: the report is removed again.
Withdraw(p) ==
    /\ phase[p] = "hashed"
    /\ file[Report].there
    /\ file' = [file EXCEPT ![Report] = Removed(Report, p)]
    /\ End(p)
    /\ UNCHANGED <<edits, seal>>

\* The record is published if absent.
CreateRecord(p) ==
    /\ phase[p] = "hashed"
    /\ ~file[Record].there
    /\ \E text \in Text :
          file' = [file EXCEPT ![Record] =
                     Written(Record, text, p, [bound |-> entry[p][Report], sole |-> sole[p]])]
    /\ End(p)
    /\ UNCHANGED <<edits, seal>>

-----------------------------------------------------------------------------
(* seal_bundle and verify_bundle.                                          *)

StartSeal(p) ==
    /\ phase[p] = "new"
    /\ To(p, "listing")
    /\ left' = [left EXCEPT ![p] = File]
    /\ UNCHANGED <<file, edits, seal, index, sole, list, entry, again, loaded, began>>

\* verify_bundle loads the seal.
StartVerify(p) ==
    /\ phase[p] = "new"
    /\ seal # Nothing
    /\ To(p, "listing")
    /\ left' = [left EXCEPT ![p] = File]
    /\ loaded' = [loaded EXCEPT ![p] = seal]
    /\ began' = [began EXCEPT ![p] = file]
    /\ UNCHANGED <<file, edits, seal, index, sole, list, entry, again>>

\* Files are visited in a fixed order.
Foremost(place, files, x) == x \in files /\ \A y \in files : place[x] <= place[y]

\* _durable_files: a file is there or not when its directory is read.
Look(p) ==
    /\ phase[p] = "listing"
    /\ \E x \in File :
          /\ Foremost(ListingPlace, left[p], x)
          /\ left' = [left EXCEPT ![p] = @ \ {x}]
          /\ list' = [list EXCEPT ![p] = IF file[x].there THEN @ \union {x} ELSE @]
    /\ UNCHANGED <<file, edits, seal, phase, index, sole, entry, again, loaded, began>>

Listed(p) ==
    /\ phase[p] = "listing"
    /\ left[p] = {}
    /\ loaded[p] = Nothing => list[p] # {}
    /\ To(p, "entries")
    /\ left' = [left EXCEPT ![p] = list[p]]
    /\ UNCHANGED <<file, edits, seal, index, sole, list, entry, again, loaded, began>>

\* _entry: one file is hashed.
HashEntry(p) ==
    /\ phase[p] = "entries"
    /\ \E x \in File :
          /\ Foremost(NamePlace, left[p], x)
          /\ file[x].there
          /\ left' = [left EXCEPT ![p] = @ \ {x}]
          /\ entry' = [entry EXCEPT ![p][x] = file[x]]
    /\ UNCHANGED <<file, edits, seal, phase, index, sole, list, again, loaded, began>>

\* Files whose companion is listed as well.
Paired(files) ==
    {x \in files : \E y \in files : <<x, y>> \in Companions \/ <<y, x>> \in Companions}

Hashed(p) ==
    /\ phase[p] = "entries"
    /\ left[p] = {}
    /\ To(p, "bindings")
    /\ left' = [left EXCEPT ![p] = Paired(list[p])]
    /\ UNCHANGED <<file, edits, seal, index, sole, list, entry, again, loaded, began>>

\* _bindings: one file of a pair is hashed again.
HashBinding(p) ==
    /\ phase[p] = "bindings"
    /\ \E x \in File :
          /\ Foremost(NamePlace, left[p], x)
          /\ file[x].there
          /\ left' = [left EXCEPT ![p] = @ \ {x}]
          /\ again' = [again EXCEPT ![p][x] = file[x]]
    /\ UNCHANGED <<file, edits, seal, phase, index, sole, list, entry, loaded, began>>

\* The seal is replaced.
PublishSeal(p) ==
    /\ phase[p] = "bindings"
    /\ left[p] = {}
    /\ loaded[p] = Nothing
    /\ seal' = [entry |-> entry[p], again |-> again[p]]
    /\ End(p)
    /\ UNCHANGED <<file, edits>>

\* The files are those of the seal, with the same hashes, and so are the bindings.
\* A hash tells contents apart, not the times they were written.  (Faulty variant:
\* only files on both sides are compared.)
SameHash(m, n) ==
    \/ m = Nothing /\ n = Nothing
    \/ m # Nothing /\ n # Nothing /\ m.text = n.text
MatchesCommon(p) ==
    \A x \in list[p] :
        loaded[p].entry[x] # Nothing =>
            /\ SameHash(entry[p][x], loaded[p].entry[x])
            /\ loaded[p].again[x] # Nothing => SameHash(loaded[p].again[x], entry[p][x])
Matches(p) ==
    /\ \A x \in File : SameHash(entry[p][x], loaded[p].entry[x])
    /\ \A x \in Paired(list[p]) : SameHash(loaded[p].again[x], entry[p][x])

Accept(p) ==
    /\ phase[p] = "bindings"
    /\ left[p] = {}
    /\ loaded[p] # Nothing
    /\ Matches(p)
    /\ To(p, "accepted")
    /\ UNCHANGED <<file, edits, seal, index, sole, memory>>

-----------------------------------------------------------------------------
(* People.                                                                 *)

\* A file of a complete run, or of an audit, is edited (a status transition is
\* an edit as well), perhaps to what it was before.
Edit ==
    /\ edits < MaxEdits
    /\ edits' = edits + 1
    /\ \E x \in File, text \in Text :
          /\ file[x].there
          /\ x \in {Report, Record} \/ file[Manifest].there
          /\ file' = [file EXCEPT ![x] = Written(x, text, Human, Nothing)]
    /\ UNCHANGED <<seal, phase, index, sole, memory>>

\* The files of an audit are removed, one by one.
RemoveAudit ==
    /\ edits < MaxEdits
    /\ edits' = edits + 1
    /\ \E x \in {Report, Record} :
          /\ file[x].there
          /\ file' = [file EXCEPT ![x] = Removed(x, Human)]
    /\ UNCHANGED <<seal, phase, index, sole, memory>>

\* So is what an ended creation without a manifest left.
Remove ==
    /\ \E x \in File \ {Report, Record} :
          /\ file[x].there
          /\ ~file[Manifest].there
          /\ phase[file[x].by] = "ended"
          /\ file' = [file EXCEPT ![x] = Removed(x, Human)]
    /\ UNCHANGED <<edits, seal, phase, index, sole, memory>>

Next ==
    \/ \E p \in Call :
          \/ Stop(p)
          \/ StartRun(p) \/ CheckTarget(p) \/ CreateTarget(p)
          \/ StartAudit(p) \/ CheckAudit(p) \/ WriteReport(p) \/ HashReport(p)
          \/ Withdraw(p) \/ CreateRecord(p)
          \/ StartSeal(p) \/ StartVerify(p) \/ Look(p) \/ Listed(p) \/ HashEntry(p)
          \/ Hashed(p) \/ HashBinding(p) \/ PublishSeal(p) \/ Accept(p)
    \/ Edit \/ RemoveAudit \/ Remove

Spec == Init /\ [][Next]_vars

-----------------------------------------------------------------------------
(* Properties.                                                             *)

\* init_run: behind a manifest stand all files of the run, each from the call
\* that wrote the manifest unless a person has edited it since, however many
\* calls raced for the run id and whatever failed ones left.
WholeRun ==
    file[Manifest].there =>
        \A i \in Step :
            /\ file[Created[i]].there
            /\ file[Created[i]].by \in {file[Manifest].by, Human} \/ file[Manifest].by = Human

\* record_audit: the record of a call that no other call on the audit overlapped
\* binds that call's own report, and as long as people keep their hands off the
\* report it is what the record binds.
AuditStands ==
    LET record == file[Record]
    IN  record.there /\ record.about # Nothing /\ record.about.sole =>
            /\ record.about.bound.by \in {record.by, Human}
            /\ file[Report] = record.about.bound \/ file[Report].by = Human

\* verify_bundle: if it accepts, the seal was true all at once when it was
\* loaded, although the sealing call read the files one by one beside writers:
\* every sealed file held the sealed bytes then - except a file that somebody wrote
\* with these very bytes between the loading and the reading, which no hash can
\* show - and no file that stayed as it was from then to the end is missing.
VerifiedWasWhole ==
    [][\A p \in Call : phase[p] # "accepted" /\ phase'[p] = "accepted" =>
          \A x \in File :
              /\ loaded[p].entry[x] # Nothing =>
                    \/ began[p][x].there /\ SameHash(began[p][x], loaded[p].entry[x])
                    \/ /\ entry[p][x] # Nothing
                       /\ began[p][x].version < entry[p][x].version
                       /\ SameHash(entry[p][x], loaded[p].entry[x])
              /\ file[x].there /\ file[x] = began[p][x] => loaded[p].entry[x] # Nothing]_vars
=============================================================================
