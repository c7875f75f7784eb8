------------------------- MODULE LeaseCustodyProofs -------------------------
(***************************************************************************)
(* Proofs about LeaseCustody and the obstacles to its operations, for      *)
(* every set of processes, leases, claims and every bound.  The inductive  *)
(* invariant follows an operation through its critical section: what it    *)
(* read is still the current record, what it scanned is still free of      *)
(* conflicts, and it still owns its Git locks.                             *)
(***************************************************************************)
EXTENDS CustodyObstacles, LeaseOverlapCheck, SequenceTheorems, TLAPS

InFlight ==
    {"examined", "guarded", "scanned", "verified", "archiving", "archived", "staged"}
AfterScan == {"scanned", "verified", "archiving", "archived", "staged"}
WhileGuarded == {"guarded", "scanned", "verified", "archiving", "archived", "staged"}

\* The candidate of a running operation is the kind of document it publishes.
JobConsistent ==
    \A p \in Process : pc[p] # "idle" =>
        /\ job[p] \in Job
        /\ job[p].op = "acquire" =>
              /\ job[p].candidate.state = "ACTIVE"
              /\ job[p].candidate.generation = 1
              /\ AcquirableClaim(job[p].candidate.claim)
        /\ job[p].op = "replace" =>
              /\ job[p].candidate.state = "ACTIVE"
              /\ ReplaceableClaim(job[p].candidate.claim)
        /\ job[p].op = "release" => job[p].candidate.state = "RELEASED"

\* What replace and release read under the mutex is still the current record.
SeenCurrent ==
    \A p \in Process : pc[p] \in InFlight /\ job[p].op # "acquire" =>
        /\ seen[p] = records[job[p].candidate.lease_id]
        /\ seen[p] \in Record
        /\ seen[p].state = "ACTIVE"
        /\ seen[p].generation + 1 = job[p].candidate.generation
        /\ seen[p].claim.schema = job[p].candidate.claim.schema
        /\ job[p].op = "release" => job[p].candidate.claim = seen[p].claim

\* What the overlap scan established still holds.
ScanCurrent ==
    \A p \in Process : pc[p] \in AfterScan /\ job[p].op # "release" =>
        /\ \A m \in LeaseId \ {job[p].candidate.lease_id} :
              records[m] # NoRecord /\ records[m].state = "ACTIVE" =>
                 ~ClaimsConflict(job[p].candidate.claim, records[m].claim)
        /\ job[p].op = "acquire" => records[job[p].candidate.lease_id] = NoRecord

\* The Git locks of the bound worktree are owned until publication.
LocksOwned ==
    \A p \in Process : pc[p] \in WhileGuarded =>
        \A w \in GuardedWriters(Bound(p, seen[p])) \intersect Repository : gitLock[w] = p

\* find_overlaps reports nothing between records in force.
RecordsDisjoint ==
    \A l, m \in LeaseId :
        /\ l # m
        /\ records[l] # NoRecord /\ records[l].state = "ACTIVE"
        /\ records[m] # NoRecord /\ records[m].state = "ACTIVE"
        => ~ClaimsConflict(records[l].claim, records[m].claim)

IInv ==
    /\ TypeOK
    /\ AdmissionSerialised
    /\ JobConsistent
    /\ SeenCurrent
    /\ ScanCurrent
    /\ RecordsDisjoint

-----------------------------------------------------------------------------
(* Overlap is symmetric: it does not matter which lease came first.        *)

\* find_overlaps: comparing a candidate with a held lease or the held lease
\* with the candidate finds the same conflicts.
LEMMA ConflictSymmetric ==
    ASSUME NEW c, NEW d, ClaimsConflict(c, d)
    PROVE  ClaimsConflict(d, c)
<1>1. ASSUME NEW f, NEW g, MapsConflict(f, g) PROVE MapsConflict(g, f)
  BY <1>1 DEF MapsConflict, AccessConflicts
<1>2. ASSUME NEW f, NEW g, PathsConflict(f, g) PROVE PathsConflict(g, f)
  BY <1>2 DEF PathsConflict, AccessConflicts, PathsOverlap
<1>. QED
  BY <1>1, <1>2 DEF ClaimsConflict

-----------------------------------------------------------------------------
(* Overlap against the documents: what find_overlaps reports is what the   *)
(* documents call a conflict.  Per kind of thing, the access map of a      *)
(* claim says which things it names and which of them it excludes others   *)
(* from.                                                                   *)

Names(c, kind, thing) == \E a \in Uses(c) : a.kind = kind /\ a.of = thing
Takes(c, kind, thing) == \E a \in Uses(c) : a.kind = kind /\ a.of = thing /\ Excludes(c, a)

\* A merged map names what some entry names, and WRITE absorbs READ.
LEMMA Merged ==
    ASSUME NEW I, NEW E \in SUBSET (I \X Mode), NEW id
    PROVE  /\ id \in DOMAIN MergeAccess(E) <=> \E m \in Mode : <<id, m>> \in E
           /\ id \in DOMAIN MergeAccess(E) =>
                 (MergeAccess(E)[id] = "WRITE" <=> <<id, "WRITE">> \in E)
           /\ id \in DOMAIN MergeAccess(E) => MergeAccess(E)[id] \in Mode
<1>1. DOMAIN MergeAccess(E) = {e[1] : e \in E}
  BY DEF MergeAccess
<1>2. \A e \in E : e = <<e[1], e[2]>> /\ e[2] \in Mode
  OBVIOUS
<1>3. id \in {e[1] : e \in E} <=> \E m \in Mode : <<id, m>> \in E
  <2>1. ASSUME id \in {e[1] : e \in E} PROVE \E m \in Mode : <<id, m>> \in E
    <3>1. PICK e \in E : id = e[1]
      BY <2>1
    <3>2. <<id, e[2]>> \in E /\ e[2] \in Mode
      BY <1>2, <3>1
    <3>. QED
      BY <3>2
  <2>2. ASSUME NEW m \in Mode, <<id, m>> \in E PROVE id \in {e[1] : e \in E}
    <3>1. <<id, m>>[1] = id
      OBVIOUS
    <3>. QED
      BY <2>2, <3>1
  <2>. QED
    BY <2>1, <2>2
<1>4. id \in DOMAIN MergeAccess(E) =>
          MergeAccess(E)[id] = IF <<id, "WRITE">> \in E THEN "WRITE" ELSE "READ"
  BY DEF MergeAccess
<1>. QED
  BY <1>1, <1>3, <1>4 DEF Mode

\* Two maps conflict when they share a key and one of them writes it.
LEMMA MapsMeet ==
    ASSUME NEW f, NEW g
    PROVE  MapsConflict(f, g) <=>
              \E id : /\ id \in DOMAIN f /\ id \in DOMAIN g
                      /\ f[id] = "WRITE" \/ g[id] = "WRITE"
BY DEF MapsConflict, AccessConflicts

\* Two claims conflict, by the documents, when both name a thing and one takes it.
LEMMA DocumentedMeet ==
    ASSUME NEW c, NEW d
    PROVE  DocumentedConflict(c, d) <=>
              \E kind, thing : \/ Takes(c, kind, thing) /\ Names(d, kind, thing)
                               \/ Names(c, kind, thing) /\ Takes(d, kind, thing)
<1>1. ASSUME DocumentedConflict(c, d)
      PROVE  \E kind, thing : \/ Takes(c, kind, thing) /\ Names(d, kind, thing)
                              \/ Names(c, kind, thing) /\ Takes(d, kind, thing)
  <2>1. PICK a \in Uses(c), b \in Uses(d) :
           a.kind = b.kind /\ a.of = b.of /\ (Excludes(c, a) \/ Excludes(d, b))
    BY <1>1 DEF DocumentedConflict
  <2>2. \/ Takes(c, a.kind, a.of) /\ Names(d, a.kind, a.of)
        \/ Names(c, a.kind, a.of) /\ Takes(d, a.kind, a.of)
    BY <2>1 DEF Takes, Names
  <2>. QED
    BY <2>2
<1>2. ASSUME NEW kind, NEW thing,
             \/ Takes(c, kind, thing) /\ Names(d, kind, thing)
             \/ Names(c, kind, thing) /\ Takes(d, kind, thing)
      PROVE  DocumentedConflict(c, d)
  BY <1>2 DEF DocumentedConflict, Takes, Names
<1>. QED
  BY <1>1, <1>2

\* The four kinds of accesses keep apart.
LEMMA KindsApart ==
    ASSUME NEW c, NEW a
    PROVE  /\ a \in Uses(c) /\ a.kind = "repository" <=> a \in RepositoryUses(c)
           /\ a \in Uses(c) /\ a.kind = "branch" <=> a \in BranchUses(c)
           /\ a \in Uses(c) /\ a.kind = "file" <=> a \in FileUses(c)
           /\ a \in Uses(c) /\ a.kind = "infrastructure" <=> a \in InfrastructureUses(c)
           /\ a \in Uses(c) => a.kind \in {"repository", "branch", "file", "infrastructure"}
<1>2. a \in RepositoryUses(c) => a.kind = "repository"
  BY DEF RepositoryUses, Access
<1>3. a \in BranchUses(c) => a.kind = "branch"
  BY DEF BranchUses, Access
<1>4. a \in FileUses(c) => a.kind = "file"
  BY DEF FileUses
<1>5. a \in InfrastructureUses(c) => a.kind = "infrastructure"
  BY DEF InfrastructureUses, Access
<1>. QED
  BY <1>2, <1>3, <1>4, <1>5 DEF Uses

\* Branches: the map keeps the branch refs that are given.
LEMMA BranchesMeant ==
    ASSUME NEW c \in ClaimDocument, NEW thing
    PROVE  /\ Names(c, "branch", thing) <=> thing \in DOMAIN BranchAccess(c)
           /\ Takes(c, "branch", thing) <=>
                 thing \in DOMAIN BranchAccess(c) /\ BranchAccess(c)[thing] = "WRITE"
<1>. DEFINE S == {i \in c.repositories : i.branch_ref # NoBranch}
            E == {<<<<r.repository, r.branch_ref>>, EffectiveMode(c, r.mode)>> : r \in S}
            I == Repository \X (Branch \union {NoBranch})
<1>1. /\ c.repositories \subseteq RepositoryItem /\ c.schema \in Schema
      /\ \A r \in c.repositories : r.mode \in Mode /\ EffectiveMode(c, r.mode) \in Mode
  BY DEF ClaimDocument, RepositoryItem, EffectiveMode, Mode
<1>2. E \in SUBSET (I \X Mode)
  BY <1>1 DEF RepositoryItem
<1>3. /\ Names(c, "branch", thing) <=> \E r \in S : thing = <<r.repository, r.branch_ref>>
      /\ Takes(c, "branch", thing) <=>
            \E r \in S : thing = <<r.repository, r.branch_ref>> /\ (c.schema = "v1" \/ r.mode = "WRITE")
  <2>1. \A a \in BranchUses(c) : \E r \in S : a.of = <<r.repository, r.branch_ref>> /\ a.mode = r.mode
    BY DEF BranchUses, Access
  <2>2. \A r \in S : \E a \in BranchUses(c) : a.of = <<r.repository, r.branch_ref>> /\ a.mode = r.mode
    <3>1. ASSUME NEW r \in S
          PROVE  \E a \in BranchUses(c) : a.of = <<r.repository, r.branch_ref>> /\ a.mode = r.mode
      <4>1. Access("branch", <<r.repository, r.branch_ref>>, r.mode) \in BranchUses(c)
        BY DEF BranchUses
      <4>. QED
        BY <4>1 DEF Access
    <3>. QED
      BY <3>1
  <2>3. /\ Names(c, "branch", thing) <=> \E a \in BranchUses(c) : a.of = thing
        /\ Takes(c, "branch", thing) <=> \E a \in BranchUses(c) : a.of = thing /\ Excludes(c, a)
    BY KindsApart DEF Names, Takes
  <2>. HIDE DEF S
  <2>4. Names(c, "branch", thing) <=> \E r \in S : thing = <<r.repository, r.branch_ref>>
    BY <2>1, <2>2, <2>3
  <2>5. ASSUME Takes(c, "branch", thing)
        PROVE  \E r \in S : thing = <<r.repository, r.branch_ref>> /\ (c.schema = "v1" \/ r.mode = "WRITE")
    <3>1. PICK a \in BranchUses(c) : a.of = thing /\ Excludes(c, a)
      BY <2>3, <2>5
    <3>2. PICK r \in S : a.of = <<r.repository, r.branch_ref>> /\ a.mode = r.mode
      BY <2>1, <3>1
    <3>. QED
      BY <3>1, <3>2 DEF Excludes
  <2>6. ASSUME NEW r \in S, thing = <<r.repository, r.branch_ref>>, c.schema = "v1" \/ r.mode = "WRITE"
        PROVE  Takes(c, "branch", thing)
    <3>1. PICK a \in BranchUses(c) : a.of = <<r.repository, r.branch_ref>> /\ a.mode = r.mode
      BY <2>2, <2>6
    <3>. QED
      BY <2>3, <2>6, <3>1 DEF Excludes
  <2>. QED
    BY <2>4, <2>5, <2>6
<1>4. /\ (\E m \in Mode : <<thing, m>> \in E) <=> \E r \in S : thing = <<r.repository, r.branch_ref>>
      /\ <<thing, "WRITE">> \in E <=>
            \E r \in S : thing = <<r.repository, r.branch_ref>> /\ EffectiveMode(c, r.mode) = "WRITE"
  BY <1>1
<1>5. \A r \in S : EffectiveMode(c, r.mode) = "WRITE" <=> c.schema = "v1" \/ r.mode = "WRITE"
  BY <1>1 DEF EffectiveMode, Schema
<1>6. BranchAccess(c) = MergeAccess(E)
  BY DEF BranchAccess
<1>. HIDE DEF E, I
<1>7. /\ thing \in DOMAIN MergeAccess(E) <=> \E m \in Mode : <<thing, m>> \in E
      /\ thing \in DOMAIN MergeAccess(E) =>
            (MergeAccess(E)[thing] = "WRITE" <=> <<thing, "WRITE">> \in E)
  BY <1>2, Merged
<1>8. <<thing, "WRITE">> \in E => \E m \in Mode : <<thing, m>> \in E
  BY DEF Mode
<1>. QED
  BY <1>3, <1>4, <1>5, <1>6, <1>7, <1>8

\* Infrastructure scopes are always taken.
LEMMA InfrastructureMeant ==
    ASSUME NEW c \in ClaimDocument, NEW id
    PROVE  /\ Names(c, "infrastructure", <<id>>) <=> id \in DOMAIN InfrastructureAccess(c)
           /\ Takes(c, "infrastructure", <<id>>) <=>
                 id \in DOMAIN InfrastructureAccess(c) /\ InfrastructureAccess(c)[id] = "WRITE"
<1>. DEFINE E == {<<i, "WRITE">> : i \in c.infrastructure_scopes}
<1>1. E \in SUBSET (Infrastructure \X Mode)
  BY DEF ClaimDocument, Mode
<1>2. /\ Names(c, "infrastructure", <<id>>) <=> id \in c.infrastructure_scopes
      /\ Takes(c, "infrastructure", <<id>>) <=> id \in c.infrastructure_scopes
  <2>1. \A a \in InfrastructureUses(c) : \E i \in c.infrastructure_scopes : a.of = <<i>> /\ a.mode = "WRITE"
    BY DEF InfrastructureUses, Access
  <2>2. id \in c.infrastructure_scopes =>
            \E a \in InfrastructureUses(c) : a.of = <<id>> /\ a.mode = "WRITE"
    <3>1. ASSUME id \in c.infrastructure_scopes
          PROVE  Access("infrastructure", <<id>>, "WRITE") \in InfrastructureUses(c)
      BY <3>1 DEF InfrastructureUses
    <3>. QED
      BY <3>1 DEF Access
  <2>4. \A i : <<i>> = <<id>> <=> i = id
    OBVIOUS
  <2>3. /\ Names(c, "infrastructure", <<id>>) <=> \E a \in InfrastructureUses(c) : a.of = <<id>>
        /\ Takes(c, "infrastructure", <<id>>) <=>
              \E a \in InfrastructureUses(c) : a.of = <<id>> /\ Excludes(c, a)
    BY KindsApart DEF Names, Takes
  <2>. QED
    BY <2>1, <2>2, <2>3, <2>4 DEF Excludes
<1>3. \A m : <<id, m>> \in E <=> id \in c.infrastructure_scopes /\ m = "WRITE"
  OBVIOUS
<1>4. InfrastructureAccess(c) = MergeAccess(E)
  BY DEF InfrastructureAccess
<1>. HIDE DEF E
<1>5. /\ id \in DOMAIN MergeAccess(E) <=> \E m \in Mode : <<id, m>> \in E
      /\ id \in DOMAIN MergeAccess(E) => (MergeAccess(E)[id] = "WRITE" <=> <<id, "WRITE">> \in E)
  BY <1>1, Merged
<1>. QED
  BY <1>2, <1>3, <1>4, <1>5 DEF Mode

\* What the repository items of a claim come to.
LEMMA ItemsMeant ==
    ASSUME NEW c \in ClaimDocument, NEW id
    PROVE  /\ id \in DOMAIN RepositoryAccess(c) <=> \E r \in c.repositories : r.repository = id
           /\ id \in DOMAIN RepositoryAccess(c) =>
                 /\ RepositoryAccess(c)[id] \in Mode
                 /\ RepositoryAccess(c)[id] = "WRITE" <=>
                       \E r \in c.repositories :
                          r.repository = id /\ (c.schema = "v1" \/ r.mode = "WRITE")
           /\ id \in DOMAIN RepositoryAccess(c) => id \in Repository
<1>. DEFINE E == {<<r.repository, EffectiveMode(c, r.mode)>> : r \in c.repositories}
<1>1. /\ c.schema \in Schema
      /\ \A r \in c.repositories : /\ r.repository \in Repository /\ r.mode \in Mode
                                   /\ EffectiveMode(c, r.mode) \in Mode
  BY DEF ClaimDocument, RepositoryItem, EffectiveMode, Mode
<1>2. E \in SUBSET (Repository \X Mode)
  BY <1>1
<1>3. /\ (\E m \in Mode : <<id, m>> \in E) <=> \E r \in c.repositories : r.repository = id
      /\ <<id, "WRITE">> \in E <=>
            \E r \in c.repositories : r.repository = id /\ EffectiveMode(c, r.mode) = "WRITE"
  BY <1>1
<1>4. \A r \in c.repositories : EffectiveMode(c, r.mode) = "WRITE" <=> c.schema = "v1" \/ r.mode = "WRITE"
  BY <1>1 DEF EffectiveMode, Schema
<1>5. RepositoryAccess(c) = MergeAccess(E)
  BY DEF RepositoryAccess
<1>. HIDE DEF E
<1>6. /\ id \in DOMAIN MergeAccess(E) <=> \E m \in Mode : <<id, m>> \in E
      /\ id \in DOMAIN MergeAccess(E) => (MergeAccess(E)[id] = "WRITE" <=> <<id, "WRITE">> \in E)
      /\ id \in DOMAIN MergeAccess(E) => MergeAccess(E)[id] \in Mode
  BY <1>2, Merged
<1>. QED
  BY <1>1, <1>3, <1>4, <1>5, <1>6

\* The coordination repository is named by everybody, and taken by the lease
\* that lists it as WRITE and by every historical lease.
LEMMA RepositoriesMeant ==
    ASSUME NEW c \in ClaimDocument, NEW id
    PROVE  /\ Names(c, "repository", <<id>>) <=> id \in DOMAIN CombinedRepositoryAccess(c)
           /\ Takes(c, "repository", <<id>>) <=>
                 id \in DOMAIN CombinedRepositoryAccess(c) /\ CombinedRepositoryAccess(c)[id] = "WRITE"
<1>. DEFINE access == RepositoryAccess(c)
            coordination == c.coordination_repository
            E == {<<k, access[k]>> : k \in DOMAIN access}
                 \union {<<coordination, CoordinationMode(c)>>}
<1>1. c.schema \in Schema /\ coordination \in Repository
  BY DEF ClaimDocument
<1>2. \A k \in DOMAIN access : access[k] \in Mode /\ k \in Repository
  BY ItemsMeant
<1>3. /\ CoordinationMode(c) \in Mode
      /\ CoordinationMode(c) = "WRITE" <=>
            c.schema = "v1" \/ (coordination \in DOMAIN access /\ access[coordination] = "WRITE")
  <2>1. CASE c.schema = "v1"
    BY <2>1 DEF CoordinationMode, Mode
  <2>2. CASE c.schema = "v2" /\ coordination \in DOMAIN access
    <3>1. CoordinationMode(c) = access[coordination]
      BY <2>2 DEF CoordinationMode
    <3>. QED
      BY <1>2, <2>2, <3>1
  <2>3. CASE c.schema = "v2" /\ coordination \notin DOMAIN access
    <3>1. CoordinationMode(c) = "READ"
      BY <2>3 DEF CoordinationMode
    <3>. QED
      BY <2>3, <3>1 DEF Mode
  <2>. QED
    BY <1>1, <2>1, <2>2, <2>3 DEF Schema
<1>4. E \in SUBSET (Repository \X Mode)
  BY <1>1, <1>2, <1>3
<1>5. \A m : <<id, m>> \in E <=> \/ id \in DOMAIN access /\ m = access[id]
                                 \/ id = coordination /\ m = CoordinationMode(c)
  OBVIOUS
<1>6. /\ Names(c, "repository", <<id>>) <=> (\E r \in c.repositories : r.repository = id) \/ id = coordination
      /\ Takes(c, "repository", <<id>>) <=>
            \/ \E r \in c.repositories : r.repository = id /\ (c.schema = "v1" \/ r.mode = "WRITE")
            \/ id = coordination /\ c.schema = "v1"
  <2>1. \A a \in RepositoryUses(c) :
            \/ \E r \in c.repositories : a.of = <<r.repository>> /\ a.mode = r.mode
            \/ a.of = <<coordination>> /\ a.mode = "READ"
    BY DEF RepositoryUses, Access
  <2>2. /\ \A r \in c.repositories :
              \E a \in RepositoryUses(c) : a.of = <<r.repository>> /\ a.mode = r.mode
        /\ \E a \in RepositoryUses(c) : a.of = <<coordination>> /\ a.mode = "READ"
    <3>1. ASSUME NEW r \in c.repositories
          PROVE  \E a \in RepositoryUses(c) : a.of = <<r.repository>> /\ a.mode = r.mode
      <4>1. Access("repository", <<r.repository>>, r.mode) \in RepositoryUses(c)
        BY DEF RepositoryUses
      <4>. QED
        BY <4>1 DEF Access
    <3>2. Access("repository", <<coordination>>, "READ") \in RepositoryUses(c)
      BY DEF RepositoryUses
    <3>. QED
      BY <3>1, <3>2 DEF Access
  <2>6. \A k : <<k>> = <<id>> <=> k = id
    OBVIOUS
  <2>3. /\ Names(c, "repository", <<id>>) <=> \E a \in RepositoryUses(c) : a.of = <<id>>
        /\ Takes(c, "repository", <<id>>) <=>
              \E a \in RepositoryUses(c) : a.of = <<id>> /\ Excludes(c, a)
    BY KindsApart DEF Names, Takes
  <2>. HIDE DEF coordination
  <2>4. Names(c, "repository", <<id>>) <=> (\E r \in c.repositories : r.repository = id) \/ id = coordination
    BY <2>1, <2>2, <2>3, <2>6
  <2>5. Takes(c, "repository", <<id>>) <=>
            \/ \E r \in c.repositories : r.repository = id /\ (c.schema = "v1" \/ r.mode = "WRITE")
            \/ id = coordination /\ c.schema = "v1"
    BY <2>1, <2>2, <2>3, <2>6 DEF Excludes
  <2>. QED
    BY <2>4, <2>5
<1>7. CombinedRepositoryAccess(c) = MergeAccess(E)
  BY DEF CombinedRepositoryAccess
<1>8. /\ id \in DOMAIN access <=> \E r \in c.repositories : r.repository = id
      /\ id \in DOMAIN access =>
            (access[id] = "WRITE" <=>
                \E r \in c.repositories : r.repository = id /\ (c.schema = "v1" \/ r.mode = "WRITE"))
  BY ItemsMeant
<1>. HIDE DEF E, access, coordination
<1>9. /\ id \in DOMAIN MergeAccess(E) <=> \E m \in Mode : <<id, m>> \in E
      /\ id \in DOMAIN MergeAccess(E) => (MergeAccess(E)[id] = "WRITE" <=> <<id, "WRITE">> \in E)
  BY <1>4, Merged
<1>10. id \in DOMAIN MergeAccess(E) <=> id \in DOMAIN access \/ id = coordination
  BY <1>2, <1>3, <1>5, <1>9
<1>11. <<id, "WRITE">> \in E <=> \/ id \in DOMAIN access /\ access[id] = "WRITE"
                                 \/ id = coordination /\ c.schema = "v1"
  BY <1>3, <1>5
<1>. QED
  BY <1>6, <1>7, <1>8, <1>9, <1>10, <1>11

\* A path names every file below it.
LEMMA FilesMeant ==
    ASSUME NEW c \in ClaimDocument, NEW q
    PROVE  /\ Names(c, "file", q) <=> \E p \in DOMAIN PathAccess(c) : q \in Below(p)
           /\ Takes(c, "file", q) <=>
                 \E p \in DOMAIN PathAccess(c) : q \in Below(p) /\ PathAccess(c)[p] = "WRITE"
           /\ DOMAIN PathAccess(c) \subseteq Path
<1>. DEFINE Of(r) == {<<p, EffectiveMode(c, r.mode)>> : p \in r.paths}
            Local == {<<p, "WRITE">> : p \in c.local_scopes}
            E == (UNION {Of(r) : r \in c.repositories}) \union Local
<1>0. \A e : e \in E <=> (\E r \in c.repositories : e \in Of(r)) \/ e \in Local
  <2>. DEFINE Sets == {Of(r) : r \in c.repositories}
  <2>. HIDE DEF Of, Local
  <2>1. ASSUME NEW e, NEW r \in c.repositories, e \in Of(r) PROVE e \in UNION Sets
    <3>1. Of(r) \in Sets
      OBVIOUS
    <3>. HIDE DEF Sets
    <3>. QED
      BY <2>1, <3>1
  <2>2. ASSUME NEW e \in UNION Sets PROVE \E r \in c.repositories : e \in Of(r)
    <3>1. PICK s \in Sets : e \in s
      BY <2>2
    <3>2. PICK r \in c.repositories : s = Of(r)
      BY <3>1
    <3>. QED
      BY <3>1, <3>2
  <2>3. ASSUME NEW e PROVE e \in E <=> e \in UNION Sets \/ e \in Local
    OBVIOUS
  <2>. HIDE DEF E, Sets
  <2>4. ASSUME NEW e PROVE e \in UNION Sets <=> \E r \in c.repositories : e \in Of(r)
    BY <2>1, <2>2
  <2>. QED
    BY <2>3, <2>4
<1>1. /\ c.schema \in Schema /\ c.local_scopes \subseteq Path
      /\ \A r \in c.repositories : /\ r.paths \subseteq Path /\ r.mode \in Mode
                                   /\ EffectiveMode(c, r.mode) \in Mode
  BY DEF ClaimDocument, RepositoryItem, EffectiveMode, Mode
<1>2. E \in SUBSET (Path \X Mode)
  <2>1. \A r \in c.repositories : Of(r) \subseteq Path \X Mode
    BY <1>1
  <2>2. Local \subseteq Path \X Mode
    BY <1>1 DEF Mode
  <2>. HIDE DEF E, Of, Local
  <2>. QED
    BY <1>0, <2>1, <2>2
<1>3. \A p, m : <<p, m>> \in E <=>
                   \/ \E r \in c.repositories : p \in r.paths /\ m = EffectiveMode(c, r.mode)
                   \/ p \in c.local_scopes /\ m = "WRITE"
  <2>1. ASSUME NEW p, NEW m, NEW r
        PROVE  <<p, m>> \in Of(r) <=> p \in r.paths /\ m = EffectiveMode(c, r.mode)
    OBVIOUS
  <2>2. ASSUME NEW p, NEW m
        PROVE  <<p, m>> \in Local <=> p \in c.local_scopes /\ m = "WRITE"
    OBVIOUS
  <2>. HIDE DEF E, Of, Local
  <2>. QED
    BY <1>0, <2>1, <2>2
<1>4. \A r \in c.repositories : EffectiveMode(c, r.mode) = "WRITE" <=> c.schema = "v1" \/ r.mode = "WRITE"
  BY <1>1 DEF EffectiveMode, Schema
<1>5. PathAccess(c) = MergeAccess(E)
  BY DEF PathAccess
<1>6. /\ Names(c, "file", q) <=>
            \E p : /\ q \in Below(p)
                   /\ (\E r \in c.repositories : p \in r.paths) \/ p \in c.local_scopes
      /\ Takes(c, "file", q) <=>
            \E p : /\ q \in Below(p)
                   /\ \/ \E r \in c.repositories : p \in r.paths /\ (c.schema = "v1" \/ r.mode = "WRITE")
                      \/ p \in c.local_scopes
  <2>1. \A a \in FileUses(c) :
            \E p : /\ a.of \in Below(p)
                   /\ \/ \E r \in c.repositories : p \in r.paths /\ a.mode = r.mode
                      \/ p \in c.local_scopes /\ a.mode = "WRITE"
    BY DEF FileUses
  <2>2. ASSUME NEW p, NEW k \in Below(p)
        PROVE  /\ \A r \in c.repositories : p \in r.paths =>
                     \E a \in FileUses(c) : a.of = k /\ a.mode = r.mode
               /\ p \in c.local_scopes => \E a \in FileUses(c) : a.of = k /\ a.mode = "WRITE"
    <3>1. k \in Path
      BY <2>2 DEF Below
    <3>2. ASSUME NEW m \in Mode,
                 \/ \E r \in c.repositories : p \in r.paths /\ m = r.mode
                 \/ p \in c.local_scopes /\ m = "WRITE"
          PROVE  \E a \in FileUses(c) : a.of = k /\ a.mode = m
      <4>1. [kind |-> "file", of |-> k, mode |-> m] \in FileUses(c)
        BY <2>2, <3>1, <3>2 DEF FileUses
      <4>. QED
        BY <4>1
    <3>. QED
      BY <1>1, <3>2 DEF Mode
  <2>3. /\ Names(c, "file", q) <=> \E a \in FileUses(c) : a.of = q
        /\ Takes(c, "file", q) <=> \E a \in FileUses(c) : a.of = q /\ Excludes(c, a)
    BY KindsApart DEF Names, Takes
  <2>. QED
    BY <2>1, <2>2, <2>3 DEF Excludes
<1>. HIDE DEF E
<1>7. ASSUME NEW p
      PROVE  /\ p \in DOMAIN MergeAccess(E) <=> \E m \in Mode : <<p, m>> \in E
             /\ p \in DOMAIN MergeAccess(E) => (MergeAccess(E)[p] = "WRITE" <=> <<p, "WRITE">> \in E)
  BY <1>2, Merged
<1>8. ASSUME NEW p
      PROVE  /\ p \in DOMAIN MergeAccess(E) <=>
                   (\E r \in c.repositories : p \in r.paths) \/ p \in c.local_scopes
             /\ p \in DOMAIN MergeAccess(E) /\ MergeAccess(E)[p] = "WRITE" <=>
                   \/ \E r \in c.repositories : p \in r.paths /\ (c.schema = "v1" \/ r.mode = "WRITE")
                   \/ p \in c.local_scopes
  <2>1. p \in DOMAIN MergeAccess(E) <=>
            (\E r \in c.repositories : p \in r.paths) \/ p \in c.local_scopes
    BY <1>1, <1>3, <1>7 DEF Mode
  <2>2. <<p, "WRITE">> \in E <=>
            \/ \E r \in c.repositories : p \in r.paths /\ (c.schema = "v1" \/ r.mode = "WRITE")
            \/ p \in c.local_scopes
    BY <1>3, <1>4
  <2>. QED
    BY <1>7, <2>1, <2>2
<1>9. DOMAIN MergeAccess(E) \subseteq Path
  BY <1>1, <1>8
<1>. QED
  BY <1>5, <1>6, <1>8, <1>9

\* Two paths overlap when some path, such as the longer of the two, lies below
\* both.
LEMMA PathsMeet ==
    ASSUME NEW p \in Path, NEW q \in Path
    PROVE  PathsOverlap(p, q) <=> \E k : k \in Below(p) /\ k \in Below(q)
<1>1. \A s \in Path : s \in Seq(STRING)
  BY PathAssumption
<1>2. ASSUME NEW s \in Path, NEW t \in Path
      PROVE  IsPathPrefix(s, t) <=> t \in Below(s)
  <2>1. s \in Seq(STRING) /\ t \in Seq(STRING) /\ Len(s) \in Nat /\ Len(t) \in Nat
    BY <1>1, LenProperties
  <2>2. ASSUME Len(s) <= Len(t)
        PROVE  SubSeq(t, 1, Len(s)) = s <=> \A i \in 1 .. Len(s) : t[i] = s[i]
    <3>1. \A i \in 1 .. Len(s) : t[i] \in STRING
      BY <2>1, <2>2
    <3>2. /\ SubSeq(t, 1, Len(s)) \in Seq(STRING)
          /\ Len(SubSeq(t, 1, Len(s))) = IF 1 <= Len(s) THEN Len(s) - 1 + 1 ELSE 0
          /\ \A i \in 1 .. Len(s) - 1 + 1 : SubSeq(t, 1, Len(s))[i] = t[1 + i - 1]
      BY <2>1, <3>1, SubSeqProperties
    <3>3. /\ Len(SubSeq(t, 1, Len(s))) = Len(s)
          /\ \A i \in 1 .. Len(s) : SubSeq(t, 1, Len(s))[i] = t[i]
      BY <2>1, <3>2
    <3>4. ASSUME \A i \in 1 .. Len(s) : t[i] = s[i] PROVE SubSeq(t, 1, Len(s)) = s
      BY <2>1, <3>2, <3>3, <3>4, SeqEqual
    <3>5. ASSUME SubSeq(t, 1, Len(s)) = s PROVE \A i \in 1 .. Len(s) : t[i] = s[i]
      BY <3>3, <3>5
    <3>. QED
      BY <3>4, <3>5
  <2>. QED
    BY <2>2 DEF IsPathPrefix, Below
<1>3. ASSUME PathsOverlap(p, q) PROVE \E k : k \in Below(p) /\ k \in Below(q)
  <2>1. \A s \in Path : s \in Below(s)
    BY <1>1, LenProperties DEF Below
  <2>2. CASE IsPathPrefix(p, q)
    BY <1>2, <2>1, <2>2
  <2>3. CASE IsPathPrefix(q, p)
    BY <1>2, <2>1, <2>3
  <2>. QED
    BY <1>3, <2>2, <2>3 DEF PathsOverlap
<1>4. ASSUME NEW k, k \in Below(p), k \in Below(q) PROVE PathsOverlap(p, q)
  <2>1. Len(p) \in Nat /\ Len(q) \in Nat
    BY <1>1, LenProperties
  <2>2. CASE Len(p) <= Len(q)
    <3>1. \A i \in 1 .. Len(p) : i \in 1 .. Len(q) /\ q[i] = p[i]
      BY <1>4, <2>1, <2>2 DEF Below
    <3>2. q \in Below(p)
      BY <2>2, <3>1 DEF Below
    <3>. QED
      BY <1>2, <3>2 DEF PathsOverlap
  <2>3. CASE Len(q) <= Len(p)
    <3>1. \A i \in 1 .. Len(q) : i \in 1 .. Len(p) /\ p[i] = q[i]
      BY <1>4, <2>1, <2>3 DEF Below
    <3>2. p \in Below(q)
      BY <2>3, <3>1 DEF Below
    <3>. QED
      BY <1>2, <3>2 DEF PathsOverlap
  <2>. QED
    BY <2>1, <2>2, <2>3
<1>. QED
  BY <1>3, <1>4

\* find_overlaps reports exactly what the documents call a conflict, for all
\* claims, v1 and v2, whatever repositories, paths, branches and scopes.
THEOREM OverlapFaithful ==
    ASSUME NEW c \in ClaimDocument, NEW d \in ClaimDocument
    PROVE  ClaimsConflict(c, d) <=> DocumentedConflict(c, d)
<1>. DEFINE Meet(kind, thing) == \/ Takes(c, kind, thing) /\ Names(d, kind, thing)
                                 \/ Names(c, kind, thing) /\ Takes(d, kind, thing)
<1>1. DocumentedConflict(c, d) <=>
          \/ \E id : Meet("repository", <<id>>)
          \/ \E thing : Meet("branch", thing)
          \/ \E id : Meet("infrastructure", <<id>>)
          \/ \E q : Meet("file", q)
  <2>1. ASSUME NEW kind, NEW thing, Meet(kind, thing)
        PROVE  \/ kind = "repository" /\ \E id : thing = <<id>>
               \/ kind = "branch"
               \/ kind = "infrastructure" /\ \E id : thing = <<id>>
               \/ kind = "file"
    <3>1. PICK a \in Uses(c) : a.kind = kind /\ a.of = thing
      BY <2>1 DEF Names, Takes
    <3>2. kind \in {"repository", "branch", "file", "infrastructure"}
      BY <3>1, KindsApart
    <3>3. kind = "repository" => \E id : thing = <<id>>
      BY <3>1, KindsApart DEF RepositoryUses, Access
    <3>4. kind = "infrastructure" => \E id : thing = <<id>>
      BY <3>1, KindsApart DEF InfrastructureUses, Access
    <3>. QED
      BY <3>2, <3>3, <3>4
  <2>2. DocumentedConflict(c, d) <=> \E kind, thing : Meet(kind, thing)
    BY DocumentedMeet
  <2>. HIDE DEF Meet
  <2>. QED
    BY <2>1, <2>2
<1>2. (\E id : Meet("repository", <<id>>)) <=>
          MapsConflict(CombinedRepositoryAccess(c), CombinedRepositoryAccess(d))
  BY RepositoriesMeant, MapsMeet
<1>3. (\E thing : Meet("branch", thing)) <=> MapsConflict(BranchAccess(c), BranchAccess(d))
  BY BranchesMeant, MapsMeet
<1>4. (\E id : Meet("infrastructure", <<id>>)) <=>
          MapsConflict(InfrastructureAccess(c), InfrastructureAccess(d))
  BY InfrastructureMeant, MapsMeet
<1>5. (\E q : Meet("file", q)) <=> PathsConflict(PathAccess(c), PathAccess(d))
  <2>1. /\ DOMAIN PathAccess(c) \subseteq Path /\ DOMAIN PathAccess(d) \subseteq Path
    BY FilesMeant
  <2>2. ASSUME NEW q, Meet("file", q) PROVE PathsConflict(PathAccess(c), PathAccess(d))
    <3>1. PICK s \in DOMAIN PathAccess(c), t \in DOMAIN PathAccess(d) :
             /\ q \in Below(s) /\ q \in Below(t)
             /\ PathAccess(c)[s] = "WRITE" \/ PathAccess(d)[t] = "WRITE"
      BY <2>2, FilesMeant
    <3>2. PathsOverlap(s, t)
      BY <2>1, <3>1, PathsMeet
    <3>. QED
      BY <3>1, <3>2 DEF PathsConflict, AccessConflicts
  <2>3. ASSUME PathsConflict(PathAccess(c), PathAccess(d)) PROVE \E q : Meet("file", q)
    <3>1. PICK s \in DOMAIN PathAccess(c), t \in DOMAIN PathAccess(d) :
             /\ PathsOverlap(s, t)
             /\ PathAccess(c)[s] = "WRITE" \/ PathAccess(d)[t] = "WRITE"
      BY <2>3 DEF PathsConflict, AccessConflicts
    <3>2. PICK q : q \in Below(s) /\ q \in Below(t)
      BY <2>1, <3>1, PathsMeet
    <3>3. /\ Names(c, "file", q) /\ Names(d, "file", q)
          /\ Takes(c, "file", q) \/ Takes(d, "file", q)
      BY <3>1, <3>2, FilesMeant
    <3>. QED
      BY <3>3
  <2>. QED
    BY <2>2, <2>3
<1>. HIDE DEF Meet
<1>. QED
  BY <1>1, <1>2, <1>3, <1>4, <1>5 DEF ClaimsConflict

-----------------------------------------------------------------------------
USE DEF Goto, store, locks, environment, control

\* The empty lock root satisfies the invariant.
LEMMA InitIInv == Init => IInv
<1>. SUFFICES ASSUME Init PROVE IInv
  OBVIOUS
<1>1. TypeOK
  BY DEF Init, TypeOK, PC
<1>2. AdmissionSerialised
  BY ModelValueAssumption DEF Init, AdmissionSerialised, CriticalSection
<1>3. JobConsistent /\ SeenCurrent /\ ScanCurrent
  BY DEF Init, JobConsistent, SeenCurrent, ScanCurrent, InFlight, AfterScan
<1>4. RecordsDisjoint
  BY DEF Init, RecordsDisjoint
<1>. QED
  BY <1>1, <1>2, <1>3, <1>4 DEF IInv

\* The terminal document of a record is a record of the next generation.
LEMMA TerminalTyped ==
    ASSUME NEW r \in Record, r.generation < MaxGeneration, NEW t \in Nat,
           NEW authority \in {"NORMAL", "STALE_RECOVERY", "NONE"}
    PROVE  /\ TerminalCandidate(r, authority, t) \in Record
           /\ TerminalCandidate(r, authority, t).state = "RELEASED"
<1>1. r.generation + 1 \in Generation
  BY GenerationAssumption DEF Record, Generation
<1>. QED
  BY <1>1 DEF TerminalCandidate, Record

\* A drafted candidate is a record, and the kind its operation publishes.
LEMMA DraftTyped ==
    ASSUME IInv, NEW p \in Process, Prepare(p)
    PROVE  \E op \in Operation, candidate \in Record :
              /\ Draft(p, op, candidate)
              /\ op = "acquire" =>
                    /\ candidate.state = "ACTIVE"
                    /\ candidate.generation = 1
                    /\ AcquirableClaim(candidate.claim)
              /\ op = "replace" =>
                    candidate.state = "ACTIVE" /\ ReplaceableClaim(candidate.claim)
              /\ op = "release" => candidate.state = "RELEASED"
<1>. USE DEF Operation
<1>1. CASE PrepareAcquire(p)
  <2>1. PICK l \in LeaseId, c \in Claim, e \in Expiry :
           /\ AcquirableClaim(c)
           /\ Draft(p, "acquire", ActiveCandidate(l, 1, c, NoClaim, e))
    BY <1>1 DEF PrepareAcquire
  <2>2. ActiveCandidate(l, 1, c, NoClaim, e) \in Record
    BY TimeAssumption, GenerationAssumption DEF ActiveCandidate, Record, Generation
  <2>. QED
    BY <2>1, <2>2 DEF ActiveCandidate
<1>2. CASE PrepareReplace(p)
  <2>1. PICK l \in LeaseId, c \in Claim, f \in Claim, e \in Expiry :
           /\ records[l] # NoRecord
           /\ records[l].generation < MaxGeneration
           /\ ReplaceableClaim(c)
           /\ Draft(p, "replace", ActiveCandidate(l, records[l].generation + 1, c, f, e))
    BY <1>2 DEF PrepareReplace
  <2>2. records[l] \in Record
    BY <2>1 DEF IInv, TypeOK
  <2>3. ActiveCandidate(l, records[l].generation + 1, c, f, e) \in Record
    BY <2>1, <2>2, TimeAssumption, GenerationAssumption DEF ActiveCandidate, Record, Generation
  <2>. QED
    BY <2>1, <2>3 DEF ActiveCandidate
<1>3. CASE PrepareRelease(p)
  <2>1. PICK l \in LeaseId, authority \in {"NORMAL", "STALE_RECOVERY", "NONE"}, t \in 0 .. Horizon :
           /\ records[l] # NoRecord
           /\ records[l].generation < MaxGeneration
           /\ Draft(p, "release", TerminalCandidate(records[l], authority, t))
    BY <1>3 DEF PrepareRelease
  <2>2. records[l] \in Record
    BY <2>1 DEF IInv, TypeOK
  <2>3. /\ TerminalCandidate(records[l], authority, t) \in Record
        /\ TerminalCandidate(records[l], authority, t).state = "RELEASED"
    BY <2>1, <2>2, TerminalTyped, TimeAssumption
  <2>. QED
    BY <2>1, <2>3
<1>. QED
  BY <1>1, <1>2, <1>3 DEF Prepare

\* A process that is not idle has a job, with a candidate of its kind.
LEMMA JobOfRunning ==
    ASSUME IInv, NEW p \in Process, pc[p] # "idle"
    PROVE  job[p] \in Job
BY DEF IInv, JobConsistent

\* A replacement or release past its reads works on an ACTIVE record.
LEMMA ReadRecord ==
    ASSUME IInv, NEW p \in Process, pc[p] \in InFlight, job[p].op # "acquire"
    PROVE  seen[p] \in Record /\ seen[p] = records[job[p].candidate.lease_id]
BY DEF IInv, SeenCurrent

-----------------------------------------------------------------------------
(* Each conjunct of the invariant, step by step.                           *)

LEMMA TypeStep == IInv /\ [Next]_vars => TypeOK'
<1>. SUFFICES ASSUME IInv, [Next]_vars PROVE TypeOK'
  OBVIOUS
<1>0. TypeOK
  BY DEF IInv
<1>1. ASSUME NEW p \in Process, Prepare(p) PROVE TypeOK'
  BY <1>0, <1>1, DraftTyped DEF Draft, TypeOK, Job, PC
<1>2. ASSUME NEW p \in Process, Enter(p) PROVE TypeOK'
  BY <1>0, <1>2 DEF Enter, TypeOK, PC, CriticalSection
<1>3. ASSUME NEW p \in Process, Refused(p) PROVE TypeOK'
  BY <1>0, <1>3 DEF Refused, TypeOK, PC
<1>4. ASSUME NEW p \in Process, Examine(p) PROVE TypeOK'
  <2>1. records[job[p].candidate.lease_id] \in Record \union {NoRecord}
    BY <1>0, <1>4, JobOfRunning DEF Examine, TypeOK, Job, Record
  <2>2. seen' \in [Process -> Record \union {NoRecord}]
    <3>1. PICK r \in Record \union {NoRecord} : seen' = [seen EXCEPT ![p] = r]
      BY <1>4, <2>1 DEF Examine
    <3>. QED
      BY <1>0, <3>1 DEF TypeOK
  <2>. QED
    BY <1>0, <1>4, <2>2 DEF Examine, TypeOK, PC, CriticalSection
<1>5. ASSUME NEW p \in Process, Guard(p) PROVE TypeOK'
  BY <1>0, <1>5 DEF Guard, TypeOK, PC, CriticalSection
<1>6. ASSUME NEW p \in Process, Scan(p) \/ Verify(p) PROVE TypeOK'
  BY <1>0, <1>6 DEF Scan, Verify, TypeOK, PC, CriticalSection
<1>7. ASSUME NEW p \in Process, Archive(p) PROVE TypeOK'
  <2>1. seen[p] \in Record
    BY <1>7, ReadRecord DEF Archive, InFlight
  <2>2. PICK l \in LeaseId, g \in Generation :
           \/ /\ archive' = [archive EXCEPT ![l][g] = seen[p]]
              /\ tornArchive' = tornArchive \union {<<l, g>>}
           \/ UNCHANGED <<archive, tornArchive>>
    <3>1. seen[p].lease_id \in LeaseId /\ seen[p].generation \in Generation
      BY <2>1 DEF Record
    <3>2. \/ /\ archive' = [archive EXCEPT ![seen[p].lease_id][seen[p].generation] = seen[p]]
             /\ tornArchive' = tornArchive \union {<<seen[p].lease_id, seen[p].generation>>}
          \/ UNCHANGED <<archive, tornArchive>>
      BY <1>7 DEF Archive
    <3>. QED
      BY <3>1, <3>2
  <2>3. archive' \in [LeaseId -> [Generation -> Record \union {NoRecord}]]
    <3>1. archive[l] \in [Generation -> Record \union {NoRecord}]
      BY <1>0 DEF TypeOK
    <3>2. [archive[l] EXCEPT ![g] = seen[p]] \in [Generation -> Record \union {NoRecord}]
      BY <2>1, <3>1
    <3>3. [archive EXCEPT ![l][g] = seen[p]] = [archive EXCEPT ![l] = [archive[l] EXCEPT ![g] = seen[p]]]
      OBVIOUS
    <3>4. [archive EXCEPT ![l][g] = seen[p]] \in [LeaseId -> [Generation -> Record \union {NoRecord}]]
      BY <1>0, <3>2, <3>3 DEF TypeOK
    <3>. QED
      BY <1>0, <2>2, <3>4 DEF TypeOK
  <2>4. tornArchive' \subseteq LeaseId \X Generation
    BY <1>0, <2>2 DEF TypeOK
  <2>. QED
    BY <1>0, <1>7, <2>3, <2>4 DEF Archive, TypeOK, PC, CriticalSection
<1>8. ASSUME NEW p \in Process, SettleArchive(p) PROVE TypeOK'
  BY <1>0, <1>8 DEF SettleArchive, TypeOK, PC, CriticalSection
<1>9. ASSUME NEW p \in Process, Stage(p) PROVE TypeOK'
  BY <1>0, <1>9 DEF Stage, TypeOK, PC, CriticalSection
<1>10. ASSUME NEW p \in Process, Publish(p) PROVE TypeOK'
  <2>1. job[p].candidate \in Record
    BY <1>10, JobOfRunning DEF Publish, Job
  <2>2. records' \in [LeaseId -> Record \union {NoRecord}] /\ torn' \subseteq LeaseId
    BY <1>0, <1>10, <2>1 DEF Publish, TypeOK, Record
  <2>. QED
    BY <1>0, <1>10, <2>2 DEF Publish, TypeOK, PC, CriticalSection
<1>11. ASSUME NEW p \in Process, Settle(p) \/ Abort(p) PROVE TypeOK'
  BY <1>0, <1>11 DEF Settle, Abort, TypeOK, PC, CriticalSection
<1>12. ASSUME NEW p \in Process, Unguard(p) PROVE TypeOK'
  BY <1>0, <1>12 DEF Unguard, TypeOK, PC, CriticalSection
<1>13. ASSUME NEW p \in Process, Exit(p) PROVE TypeOK'
  BY <1>0, <1>13 DEF Exit, TypeOK, PC
<1>14. ASSUME NEW p \in Process, Crash(p) PROVE TypeOK'
  BY <1>0, <1>14 DEF Crash, TypeOK, PC
<1>15. CASE ClearMutex \/ ClearGitLocks
  BY <1>0, <1>15 DEF ClearMutex, ClearGitLocks, TypeOK
<1>16. CASE Revoke \/ Restore \/ Tick
  BY <1>0, <1>16 DEF Revoke, Restore, Tick, TypeOK
<1>17. CASE UNCHANGED vars
  BY <1>0, <1>17 DEF TypeOK, vars
<1>. QED
  BY <1>1, <1>2, <1>3, <1>4, <1>5, <1>6, <1>7, <1>8, <1>9, <1>10, <1>11, <1>12, <1>13,
     <1>14, <1>15, <1>16, <1>17 DEF Next, Proceed

\* Scan and verification read: only the program counter of the process moves on.
LEMMA CheckEffect ==
    ASSUME TypeOK, NEW p \in Process, Scan(p) \/ Verify(p)
    PROVE  /\ UNCHANGED <<store, locks, environment, job, seen>>
           /\ pc[p] \in {"guarded", "scanned"} /\ pc'[p] \in {"scanned", "verified"}
           /\ \A q \in Process \ {p} : pc'[q] = pc[q]
<1>1. CASE Scan(p)
  <2>1. pc[p] = "guarded" /\ pc' = [pc EXCEPT ![p] = "scanned"]
        /\ UNCHANGED <<store, locks, environment, job, seen>>
    BY <1>1 DEF Scan
  <2>. QED
    BY <2>1 DEF TypeOK
<1>2. CASE Verify(p)
  <2>1. pc[p] = "scanned" /\ pc' = [pc EXCEPT ![p] = "verified"]
        /\ UNCHANGED <<store, locks, environment, job, seen>>
    BY <1>2 DEF Verify
  <2>. QED
    BY <2>1 DEF TypeOK
<1>. QED
  BY <1>1, <1>2

LEMMA AdmissionStep == IInv /\ [Next]_vars => AdmissionSerialised'
<1>. SUFFICES ASSUME IInv, [Next]_vars PROVE AdmissionSerialised'
  OBVIOUS
<1>0. TypeOK /\ AdmissionSerialised
  BY DEF IInv
<1>. USE DEF AdmissionSerialised, TypeOK, CriticalSection, GuardedSection
<1>1. ASSUME NEW p \in Process, Prepare(p) PROVE AdmissionSerialised'
  BY <1>0, <1>1, DraftTyped DEF Draft
<1>2. ASSUME NEW p \in Process, Enter(p) PROVE AdmissionSerialised'
  BY <1>0, <1>2, ModelValueAssumption DEF Enter
<1>3. ASSUME NEW p \in Process, Refused(p) PROVE AdmissionSerialised'
  BY <1>0, <1>3 DEF Refused
<1>4. ASSUME NEW p \in Process, Examine(p) PROVE AdmissionSerialised'
  BY <1>0, <1>4 DEF Examine
<1>5. ASSUME NEW p \in Process, Guard(p) PROVE AdmissionSerialised'
  BY <1>0, <1>5 DEF Guard
<1>6. ASSUME NEW p \in Process, Scan(p) \/ Verify(p) PROVE AdmissionSerialised'
  BY <1>0, <1>6, CheckEffect
<1>7. ASSUME NEW p \in Process, Archive(p) \/ SettleArchive(p) PROVE AdmissionSerialised'
  BY <1>0, <1>7 DEF Archive, SettleArchive
<1>8. ASSUME NEW p \in Process, Stage(p) PROVE AdmissionSerialised'
  BY <1>0, <1>8 DEF Stage
<1>9. ASSUME NEW p \in Process, Publish(p) \/ Settle(p) \/ Abort(p) PROVE AdmissionSerialised'
  BY <1>0, <1>9 DEF Publish, Settle, Abort
<1>10. ASSUME NEW p \in Process, Unguard(p) PROVE AdmissionSerialised'
  BY <1>0, <1>10, ModelValueAssumption DEF Unguard
<1>11. ASSUME NEW p \in Process, Exit(p) PROVE AdmissionSerialised'
  BY <1>0, <1>11, ModelValueAssumption DEF Exit
<1>12. ASSUME NEW p \in Process, Crash(p) PROVE AdmissionSerialised'
  BY <1>0, <1>12, ModelValueAssumption DEF Crash
<1>13. CASE ClearMutex \/ ClearGitLocks
  BY <1>0, <1>13, ModelValueAssumption DEF ClearMutex, ClearGitLocks
<1>14. CASE Revoke \/ Restore \/ Tick \/ UNCHANGED vars
  BY <1>0, <1>14 DEF Revoke, Restore, Tick, vars
<1>. QED
  BY <1>1, <1>2, <1>3, <1>4, <1>5, <1>6, <1>7, <1>8, <1>9, <1>10, <1>11, <1>12, <1>13,
     <1>14 DEF Next, Proceed

LEMMA JobStep == IInv /\ [Next]_vars => JobConsistent'
<1>. SUFFICES ASSUME IInv, [Next]_vars PROVE JobConsistent'
  OBVIOUS
<1>0. TypeOK /\ JobConsistent
  BY DEF IInv
<1>. USE DEF JobConsistent, TypeOK, CriticalSection
<1>1. ASSUME NEW p \in Process, Prepare(p) PROVE JobConsistent'
  <2>1. PICK op \in Operation, candidate \in Record :
           /\ Draft(p, op, candidate)
           /\ op = "acquire" =>
                 /\ candidate.state = "ACTIVE"
                 /\ candidate.generation = 1
                 /\ AcquirableClaim(candidate.claim)
           /\ op = "replace" =>
                 candidate.state = "ACTIVE" /\ ReplaceableClaim(candidate.claim)
           /\ op = "release" => candidate.state = "RELEASED"
    BY <1>1, DraftTyped
  <2>2. [op |-> op, candidate |-> candidate] \in Job
    BY DEF Job
  <2>. QED
    BY <1>0, <2>1, <2>2 DEF Draft
<1>2. ASSUME NEW p \in Process, Enter(p) PROVE JobConsistent'
  BY <1>0, <1>2 DEF Enter
<1>3. ASSUME NEW p \in Process, Refused(p) \/ Exit(p) \/ Crash(p) PROVE JobConsistent'
  BY <1>0, <1>3 DEF Refused, Exit, Crash
<1>4. ASSUME NEW p \in Process, Examine(p) \/ Guard(p) PROVE JobConsistent'
  BY <1>0, <1>4 DEF Examine, Guard
<1>5. ASSUME NEW p \in Process, Scan(p) \/ Verify(p) PROVE JobConsistent'
  BY <1>0, <1>5, CheckEffect
<1>6. ASSUME NEW p \in Process, Archive(p) \/ SettleArchive(p) PROVE JobConsistent'
  BY <1>0, <1>6 DEF Archive, SettleArchive
<1>7. ASSUME NEW p \in Process, Stage(p) PROVE JobConsistent'
  BY <1>0, <1>7 DEF Stage
<1>8. ASSUME NEW p \in Process, Publish(p) \/ Settle(p) \/ Abort(p) \/ Unguard(p)
      PROVE  JobConsistent'
  BY <1>0, <1>8 DEF Publish, Settle, Abort, Unguard
<1>9. CASE ClearMutex \/ ClearGitLocks \/ Revoke \/ Restore \/ Tick \/ UNCHANGED vars
  BY <1>0, <1>9 DEF ClearMutex, ClearGitLocks, Revoke, Restore, Tick, vars
<1>. QED
  BY <1>1, <1>2, <1>3, <1>4, <1>5, <1>6, <1>7, <1>8, <1>9 DEF Next, Proceed

\* Two processes are never in the critical section together.
LEMMA OneInside ==
    ASSUME AdmissionSerialised, NEW p \in Process, NEW q \in Process,
           pc[p] \in CriticalSection, pc[q] \in CriticalSection
    PROVE  p = q
BY DEF AdmissionSerialised

LEMMA SeenStep == IInv /\ [Next]_vars => SeenCurrent'
<1>. SUFFICES ASSUME IInv, [Next]_vars PROVE SeenCurrent'
  OBVIOUS
<1>0. TypeOK /\ AdmissionSerialised /\ JobConsistent /\ SeenCurrent
  BY DEF IInv
<1>. USE DEF SeenCurrent, TypeOK, InFlight
<1>1. ASSUME NEW p \in Process, Prepare(p) PROVE SeenCurrent'
  BY <1>0, <1>1, DraftTyped DEF Draft
<1>2. ASSUME NEW p \in Process, Enter(p) \/ Refused(p) PROVE SeenCurrent'
  BY <1>0, <1>2 DEF Enter, Refused
<1>3. ASSUME NEW p \in Process, Examine(p) PROVE SeenCurrent'
  <2>. DEFINE l == job[p].candidate.lease_id
  <2>1. ASSUME job[p].op # "acquire"
        PROVE  /\ seen'[p] = records[l]
               /\ records[l] \in Record
               /\ records[l].state = "ACTIVE"
               /\ records[l].generation + 1 = job[p].candidate.generation
               /\ records[l].claim.schema = job[p].candidate.claim.schema
               /\ job[p].op = "release" => job[p].candidate.claim = records[l].claim
    <3>1. l \in LeaseId
      BY <1>3, JobOfRunning DEF Examine, Job, Record
    <3>2. job[p].op = "release" => job[p].candidate.state = "RELEASED"
      BY <1>0, <1>3 DEF JobConsistent, Examine
    <3>. QED
      BY <1>0, <1>3, <2>1, <3>1, <3>2 DEF Examine, CurrentMatches, PreservesIdentity
  <2>2. /\ UNCHANGED <<records, job>>
        /\ \A q \in Process \ {p} : pc'[q] = pc[q] /\ seen'[q] = seen[q]
    BY <1>0, <1>3 DEF Examine
  <2>. QED
    BY <1>0, <2>1, <2>2
<1>4. ASSUME NEW p \in Process, Guard(p) PROVE SeenCurrent'
  BY <1>0, <1>4 DEF Guard
<1>5. ASSUME NEW p \in Process, Scan(p) \/ Verify(p) PROVE SeenCurrent'
  BY <1>0, <1>5, CheckEffect
<1>6. ASSUME NEW p \in Process, Archive(p) \/ SettleArchive(p) PROVE SeenCurrent'
  BY <1>0, <1>6 DEF Archive, SettleArchive
<1>7. ASSUME NEW p \in Process, Stage(p) PROVE SeenCurrent'
  BY <1>0, <1>7 DEF Stage
<1>8. ASSUME NEW p \in Process, Publish(p) PROVE SeenCurrent'
  BY <1>0, <1>8, OneInside DEF Publish, CriticalSection
<1>9. ASSUME NEW p \in Process, Settle(p) \/ Abort(p) \/ Unguard(p) PROVE SeenCurrent'
  BY <1>0, <1>9 DEF Settle, Abort, Unguard
<1>10. ASSUME NEW p \in Process, Exit(p) \/ Crash(p) PROVE SeenCurrent'
  BY <1>0, <1>10 DEF Exit, Crash
<1>11. CASE ClearMutex \/ ClearGitLocks \/ Revoke \/ Restore \/ Tick \/ UNCHANGED vars
  BY <1>0, <1>11 DEF ClearMutex, ClearGitLocks, Revoke, Restore, Tick, vars
<1>. QED
  BY <1>1, <1>2, <1>3, <1>4, <1>5, <1>6, <1>7, <1>8, <1>9, <1>10, <1>11 DEF Next, Proceed

\* Only the publication of the process inside the mutex changes a record.
LEMMA RecordsChange ==
    ASSUME IInv, [Next]_vars, records' # records
    PROVE  \E p \in Process : Publish(p)
BY DraftTyped DEF Next, Proceed, vars, Draft, Enter, Refused, Examine, Guard, Scan, Verify,
   Archive, SettleArchive, Stage, Settle, Abort, Unguard, Exit, Crash, ClearMutex,
   ClearGitLocks, Revoke, Restore, Tick

\* find_overlaps found nothing: no lease in force conflicts with the candidate.
LEMMA ScanSound ==
    ASSUME NEW candidate, NEW excluding, FindOverlaps(candidate, excluding) = {},
           NEW m \in LeaseId \ excluding
    PROVE  /\ records[m] # NoRecord /\ records[m].state = "ACTIVE" =>
                 ~ClaimsConflict(candidate.claim, records[m].claim)
           /\ m = candidate.lease_id => records[m] = NoRecord
BY DEF FindOverlaps, HoldsResources

LEMMA ScanStep == IInv /\ [Next]_vars => ScanCurrent'
<1>. SUFFICES ASSUME IInv, [Next]_vars PROVE ScanCurrent'
  OBVIOUS
<1>0. TypeOK /\ AdmissionSerialised /\ ScanCurrent
  BY DEF IInv
<1>. USE DEF ScanCurrent, TypeOK, AfterScan
<1>1. ASSUME NEW p \in Process, Prepare(p) PROVE ScanCurrent'
  BY <1>0, <1>1, DraftTyped DEF Draft
<1>2. ASSUME NEW p \in Process, Enter(p) \/ Refused(p) PROVE ScanCurrent'
  BY <1>0, <1>2 DEF Enter, Refused
<1>3. ASSUME NEW p \in Process, Examine(p) \/ Guard(p) PROVE ScanCurrent'
  BY <1>0, <1>3 DEF Examine, Guard
<1>4. ASSUME NEW p \in Process, Scan(p) PROVE ScanCurrent'
  <2>. DEFINE candidate == job[p].candidate
  <2>1. /\ candidate.lease_id \in LeaseId
        /\ job[p].op \in Operation
    BY <1>4, JobOfRunning DEF Scan, Job, Record
  <2>2. ASSUME job[p].op # "release", NEW m \in LeaseId \ {candidate.lease_id},
               records[m] # NoRecord, records[m].state = "ACTIVE"
        PROVE  ~ClaimsConflict(candidate.claim, records[m].claim)
    <3>1. CASE job[p].op = "acquire"
      BY <1>4, <2>2, <3>1, ScanSound DEF Scan
    <3>2. CASE job[p].op = "replace"
      <4>1. FindOverlaps(candidate, {candidate.lease_id}) = {}
        BY <1>4, <3>2 DEF Scan
      <4>. QED
        BY <2>2, <4>1, ScanSound
    <3>. QED
      BY <2>1, <2>2, <3>1, <3>2 DEF Operation
  <2>3. ASSUME job[p].op = "acquire" PROVE records[candidate.lease_id] = NoRecord
    BY <1>4, <2>1, <2>3, ScanSound DEF Scan
  <2>4. /\ UNCHANGED <<records, job>>
        /\ \A q \in Process \ {p} : pc'[q] = pc[q]
    BY <1>0, <1>4 DEF Scan
  <2>. QED
    BY <1>0, <2>2, <2>3, <2>4
<1>5. ASSUME NEW p \in Process, Verify(p) PROVE ScanCurrent'
  BY <1>0, <1>5 DEF Verify
<1>6. ASSUME NEW p \in Process, Archive(p) \/ SettleArchive(p) PROVE ScanCurrent'
  BY <1>0, <1>6 DEF Archive, SettleArchive
<1>7. ASSUME NEW p \in Process, Stage(p) PROVE ScanCurrent'
  BY <1>0, <1>7 DEF Stage
<1>8. ASSUME NEW p \in Process, Publish(p) PROVE ScanCurrent'
  BY <1>0, <1>8, OneInside DEF Publish, CriticalSection
<1>9. ASSUME NEW p \in Process, Settle(p) \/ Abort(p) \/ Unguard(p) PROVE ScanCurrent'
  BY <1>0, <1>9 DEF Settle, Abort, Unguard
<1>10. ASSUME NEW p \in Process, Exit(p) \/ Crash(p) PROVE ScanCurrent'
  BY <1>0, <1>10 DEF Exit, Crash
<1>11. CASE ClearMutex \/ ClearGitLocks \/ Revoke \/ Restore \/ Tick \/ UNCHANGED vars
  BY <1>0, <1>11 DEF ClearMutex, ClearGitLocks, Revoke, Restore, Tick, vars
<1>. QED
  BY <1>1, <1>2, <1>3, <1>4, <1>5, <1>6, <1>7, <1>8, <1>9, <1>10, <1>11 DEF Next, Proceed

\* What is published: the candidate, with what was read and scanned still true.
LEMMA PublicationFacts ==
    ASSUME IInv, NEW p \in Process, Publish(p)
    PROVE  LET candidate == job[p].candidate
               l == candidate.lease_id
           IN  /\ l \in LeaseId /\ candidate \in Record /\ job[p].op \in Operation
               /\ records' = [records EXCEPT ![l] = candidate]
               /\ records'[l] = candidate
               /\ \A m \in LeaseId \ {l} : records'[m] = records[m]
               /\ job[p].op = "release" <=> candidate.state = "RELEASED"
               /\ job[p].op = "acquire" => records[l] = NoRecord
               /\ job[p].op # "acquire" => seen[p] = records[l]
               /\ mutex = p
<1>1. job[p] \in Job /\ pc[p] = "staged"
  BY JobOfRunning DEF Publish
<1>2. /\ job[p].candidate.lease_id \in LeaseId
      /\ job[p].candidate \in Record
      /\ job[p].op \in Operation
  BY <1>1 DEF Job, Record
<1>3. job[p].op = "release" <=> job[p].candidate.state = "RELEASED"
  BY <1>1, <1>2 DEF IInv, JobConsistent, Operation
<1>4. mutex = p
  BY <1>1 DEF IInv, AdmissionSerialised, CriticalSection
<1>5. job[p].op # "acquire" => seen[p] = records[job[p].candidate.lease_id]
  BY <1>1, ReadRecord DEF InFlight
<1>6. records' = [records EXCEPT ![job[p].candidate.lease_id] = job[p].candidate]
  BY DEF Publish
<1>7. /\ records'[job[p].candidate.lease_id] = job[p].candidate
      /\ \A m \in LeaseId \ {job[p].candidate.lease_id} : records'[m] = records[m]
  BY <1>2, <1>6 DEF IInv, TypeOK
<1>8. job[p].op = "acquire" => records[job[p].candidate.lease_id] = NoRecord
  BY DEF Publish
<1>. QED
  BY <1>2, <1>3, <1>4, <1>5, <1>6, <1>7, <1>8

\* A published ACTIVE candidate conflicts with no other lease in force.
LEMMA PublicationDisjoint ==
    ASSUME IInv, NEW p \in Process, Publish(p), job[p].op # "release",
           NEW m \in LeaseId \ {job[p].candidate.lease_id},
           records[m] # NoRecord, records[m].state = "ACTIVE"
    PROVE  /\ ~ClaimsConflict(job[p].candidate.claim, records[m].claim)
           /\ ~ClaimsConflict(records[m].claim, job[p].candidate.claim)
<1>1. ~ClaimsConflict(job[p].candidate.claim, records[m].claim)
  BY DEF IInv, ScanCurrent, AfterScan, Publish
<1>. QED
  BY <1>1, ConflictSymmetric

LEMMA DisjointStep == IInv /\ [Next]_vars => RecordsDisjoint'
<1>. SUFFICES ASSUME IInv, [Next]_vars PROVE RecordsDisjoint'
  OBVIOUS
<1>0. RecordsDisjoint
  BY DEF IInv
<1>1. CASE records' = records
  BY <1>0, <1>1 DEF RecordsDisjoint
<1>2. CASE records' # records
  <2>1. PICK p \in Process : Publish(p)
    BY <1>2, RecordsChange
  <2>. DEFINE candidate == job[p].candidate
              l == candidate.lease_id
  <2>2. /\ records'[l] = candidate
        /\ \A m \in LeaseId \ {l} : records'[m] = records[m]
        /\ job[p].op = "release" => candidate.state # "ACTIVE"
    BY <2>1, PublicationFacts
  <2>3. SUFFICES ASSUME NEW k \in LeaseId, NEW m \in LeaseId, k # m,
                        records'[k] # NoRecord, records'[k].state = "ACTIVE",
                        records'[m] # NoRecord, records'[m].state = "ACTIVE"
                 PROVE  ~ClaimsConflict(records'[k].claim, records'[m].claim)
    BY DEF RecordsDisjoint
  <2>4. CASE k # l /\ m # l
    BY <1>0, <2>2, <2>3, <2>4 DEF RecordsDisjoint
  <2>5. CASE k = l
    BY <2>1, <2>2, <2>3, <2>5, PublicationDisjoint
  <2>6. CASE m = l
    BY <2>1, <2>2, <2>3, <2>6, PublicationDisjoint
  <2>. QED
    BY <2>4, <2>5, <2>6
<1>. QED
  BY <1>1, <1>2

-----------------------------------------------------------------------------
(* The theorems.                                                           *)

LEMMA NextIInv == IInv /\ [Next]_vars => IInv'
BY TypeStep, AdmissionStep, JobStep, SeenStep, ScanStep, DisjointStep DEF IInv

\* The inductive invariant holds in every reachable state.
THEOREM Invariance == Spec => []IInv
<1>1. Init => IInv
  BY InitIInv
<1>2. IInv /\ [Next]_vars => IInv'
  BY NextIInv
<1>. QED
  BY <1>1, <1>2, PTL DEF Spec

\* Every variable keeps its type, whatever the processes, leases and claims.
THEOREM TypeCorrect == Spec => []TypeOK
<1>1. IInv => TypeOK
  BY DEF IInv
<1>. QED
  BY <1>1, Invariance, PTL

\* admission_mutex serialises admissions: a process past mkdir owns the
\* directory, and Git locks belong to such a process or to a crashed one.
THEOREM Serialisation == Spec => []AdmissionSerialised
<1>1. IInv => AdmissionSerialised
  BY DEF IInv
<1>. QED
  BY <1>1, Invariance, PTL

\* Mutual exclusion of leases: two records in force never access one same thing
\* with one of them excluding the other, for any number of processes, leases and
\* claims, through crashes, mutex clearing and evidence drift.
THEOREM LeasesExclude == Spec => []ActiveClaimsDisjoint
<1>1. IInv => ActiveClaimsDisjoint
  <2>. SUFFICES ASSUME IInv, NEW l \in LeaseId, NEW m \in LeaseId, l # m,
                       records[l] # NoRecord, records[l].state = "ACTIVE",
                       records[m] # NoRecord, records[m].state = "ACTIVE"
                PROVE  ~DocumentedConflict(records[l].claim, records[m].claim)
    BY DEF ActiveClaimsDisjoint
  <2>1. ~ClaimsConflict(records[l].claim, records[m].claim)
    BY DEF IInv, RecordsDisjoint
  <2>2. records[l].claim \in ClaimDocument /\ records[m].claim \in ClaimDocument
    BY ClaimAssumption DEF IInv, TypeOK, Record
  <2>. QED
    BY <2>1, <2>2, OverlapFaithful
<1>. QED
  BY <1>1, Invariance, PTL

\* A claim that may write its coordination repository conflicts with every claim
\* that uses the same coordination repository, whatever else the two claim.
LEMMA SelfWriteConflicts ==
    ASSUME NEW c \in ClaimDocument, NEW d \in ClaimDocument, IsCoordinationSelfWrite(c),
           d.coordination_repository = c.coordination_repository
    PROVE  DocumentedConflict(c, d)
<1>1. PICK r \in c.repositories : r.mode = "WRITE" /\ r.repository = c.coordination_repository
  BY DEF IsCoordinationSelfWrite, Writers
<1>. DEFINE written == Access("repository", <<r.repository>>, r.mode)
            observed == Access("repository", <<d.coordination_repository>>, "READ")
<1>2. written \in Uses(c) /\ observed \in Uses(d)
  BY DEF Uses, RepositoryUses
<1>3. written.kind = observed.kind /\ written.of = observed.of /\ written.mode = "WRITE"
  BY <1>1 DEF Access
<1>. HIDE DEF written, observed
<1>. QED
  BY <1>2, <1>3 DEF DocumentedConflict, Excludes

\* The finalisation exception, over whole behaviours: while a lease in force may
\* write its coordination repository, no other lease in force uses that
\* repository for coordination (_validate_coordination_self_write, find_overlaps).
THEOREM FinalizerAlone ==
    Spec => [](\A l, m \in LeaseId :
                  /\ l # m
                  /\ records[l] # NoRecord /\ records[l].state = "ACTIVE"
                  /\ records[m] # NoRecord /\ records[m].state = "ACTIVE"
                  /\ IsCoordinationSelfWrite(records[l].claim)
                  => records[m].claim.coordination_repository
                        # records[l].claim.coordination_repository)
<1>1. IInv /\ ActiveClaimsDisjoint =>
          \A l, m \in LeaseId :
             /\ l # m
             /\ records[l] # NoRecord /\ records[l].state = "ACTIVE"
             /\ records[m] # NoRecord /\ records[m].state = "ACTIVE"
             /\ IsCoordinationSelfWrite(records[l].claim)
             => records[m].claim.coordination_repository
                   # records[l].claim.coordination_repository
  <2>. SUFFICES ASSUME IInv, ActiveClaimsDisjoint, NEW l \in LeaseId, NEW m \in LeaseId, l # m,
                       records[l] # NoRecord, records[l].state = "ACTIVE",
                       records[m] # NoRecord, records[m].state = "ACTIVE",
                       IsCoordinationSelfWrite(records[l].claim)
                PROVE  records[m].claim.coordination_repository
                          # records[l].claim.coordination_repository
    OBVIOUS
  <2>1. records[l].claim \in ClaimDocument /\ records[m].claim \in ClaimDocument
    BY ClaimAssumption DEF IInv, TypeOK, Record
  <2>2. ~DocumentedConflict(records[l].claim, records[m].claim)
    BY DEF ActiveClaimsDisjoint
  <2>. QED
    BY <2>1, <2>2, SelfWriteConflicts
<1>. QED
  BY <1>1, Invariance, LeasesExclude, PTL

\* The comparison of LeaseOverlapCheck, for any claims.
LEMMA ComparedClaims == Comparison => [](/\ held \in ClaimDocument
                                         /\ submitted \in ClaimDocument \union {NothingYet})
<1>. DEFINE Compared == held \in ClaimDocument /\ submitted \in ClaimDocument \union {NothingYet}
<1>1. ComparisonInit => Compared
  BY ComparedAssumption DEF ComparisonInit
<1>2. Compared /\ [Submit]_<<held, submitted>> => Compared'
  BY ComparedAssumption DEF Submit
<1>. QED
  BY <1>1, <1>2, PTL DEF Comparison

\* Whatever claim is held and whatever is submitted, v1 or v2, find_overlaps
\* reports a conflict exactly when the documents describe one.
THEOREM ComparisonExact == Comparison => []OverlapExact
<1>1. /\ held \in ClaimDocument /\ submitted \in ClaimDocument \union {NothingYet}
      => OverlapExact
  BY OverlapFaithful DEF OverlapExact
<1>. QED
  BY <1>1, ComparedClaims, PTL

\* A submitted claim that may write its coordination repository conflicts with
\* every claim that uses it (_validate_coordination_self_write).
THEOREM SelfWriteExcludes == Comparison => []SelfWriteExcludesParticipants
<1>1. /\ held \in ClaimDocument /\ submitted \in ClaimDocument \union {NothingYet}
      => SelfWriteExcludesParticipants
  BY OverlapFaithful, SelfWriteConflicts DEF SelfWriteExcludesParticipants
<1>. QED
  BY <1>1, ComparedClaims, PTL

-----------------------------------------------------------------------------
(* Action properties.                                                      *)

\* What a publication over an existing record starts from.
LEMMA PublicationFence ==
    ASSUME IInv, NEW p \in Process, Publish(p)
    PROVE  LET candidate == job[p].candidate
               current == records[candidate.lease_id]
           IN  /\ job[p].op = "acquire" =>
                     /\ candidate.generation = 1
                     /\ candidate.state = "ACTIVE"
                     /\ AcquirableClaim(candidate.claim)
               /\ job[p].op = "replace" => ReplaceableClaim(candidate.claim)
               /\ job[p].op = "release" => candidate.claim = current.claim
               /\ job[p].op # "acquire" =>
                     /\ current \in Record
                     /\ current.state = "ACTIVE"
                     /\ candidate.generation = current.generation + 1
                     /\ candidate.claim.schema = current.claim.schema
<1>1. pc[p] = "staged"
  BY DEF Publish
<1>2. /\ job[p].op = "acquire" =>
            /\ job[p].candidate.generation = 1
            /\ job[p].candidate.state = "ACTIVE"
            /\ AcquirableClaim(job[p].candidate.claim)
      /\ job[p].op = "replace" => ReplaceableClaim(job[p].candidate.claim)
  BY <1>1 DEF IInv, JobConsistent
<1>3. job[p].op # "acquire" =>
            /\ records[job[p].candidate.lease_id] \in Record
            /\ records[job[p].candidate.lease_id].state = "ACTIVE"
            /\ job[p].candidate.generation = records[job[p].candidate.lease_id].generation + 1
            /\ job[p].candidate.claim.schema = records[job[p].candidate.lease_id].claim.schema
            /\ job[p].op = "release" =>
                  job[p].candidate.claim = records[job[p].candidate.lease_id].claim
  BY <1>1 DEF IInv, SeenCurrent, InFlight
<1>. QED
  BY <1>2, <1>3

\* The generation fence: a record appears at generation 1 or moves from ACTIVE
\* to the next generation, and a terminal record never changes again.
THEOREM FenceHolds == Spec => GenerationFence
<1>1. ASSUME IInv, [Next]_vars, NEW l \in LeaseId, records'[l] # records[l]
      PROVE  IF records[l] = NoRecord
             THEN records'[l].generation = 1 /\ records'[l].state = "ACTIVE"
             ELSE /\ records[l].state = "ACTIVE"
                  /\ records'[l].generation = records[l].generation + 1
                  /\ records'[l].claim.schema = records[l].claim.schema
  <2>1. PICK p \in Process : Publish(p)
    BY <1>1, RecordsChange
  <2>2. /\ l = job[p].candidate.lease_id
        /\ records'[l] = job[p].candidate
        /\ job[p].op = "acquire" => records[l] = NoRecord
    BY <1>1, <2>1, PublicationFacts
  <2>3. CASE job[p].op = "acquire"
    BY <1>1, <2>1, <2>2, <2>3, PublicationFence
  <2>4. CASE job[p].op # "acquire"
    BY <1>1, <2>1, <2>2, <2>4, PublicationFence, ModelValueAssumption
  <2>. QED
    BY <2>3, <2>4
<1>2. IInv /\ [Next]_vars =>
        [\A l \in LeaseId : records'[l] # records[l] =>
            IF records[l] = NoRecord
            THEN records'[l].generation = 1 /\ records'[l].state = "ACTIVE"
            ELSE /\ records[l].state = "ACTIVE"
                 /\ records'[l].generation = records[l].generation + 1
                 /\ records'[l].claim.schema = records[l].claim.schema]_vars
  BY <1>1
<1>. QED
  BY <1>2, Invariance, PTL DEF Spec, GenerationFence

\* Only the archiving of a replacement writes to lease-history.
LEMMA ArchiveChange ==
    ASSUME IInv, [Next]_vars, archive' # archive
    PROVE  \E p \in Process : Archive(p)
BY DraftTyped DEF Next, Proceed, vars, Draft, Enter, Refused, Examine, Guard, Scan, Verify,
   SettleArchive, Stage, Publish, Settle, Abort, Unguard, Exit, Crash, ClearMutex,
   ClearGitLocks, Revoke, Restore, Tick

\* _preserve_previous_candidate creates an entry; it never writes over one.
LEMMA ArchiveStep ==
    ASSUME IInv, [Next]_vars, NEW l \in LeaseId, NEW g \in Generation,
           archive[l][g] # NoRecord
    PROVE  archive'[l][g] = archive[l][g]
<1>1. CASE archive' = archive
  BY <1>1
<1>2. ASSUME NEW p \in Process, Archive(p), archive' # archive
      PROVE  archive'[l][g] = archive[l][g]
  <2>1. /\ archive[seen[p].lease_id][seen[p].generation] = NoRecord
        /\ archive' = [archive EXCEPT ![seen[p].lease_id][seen[p].generation] = seen[p]]
    BY <1>2 DEF Archive
  <2>2. ~(seen[p].lease_id = l /\ seen[p].generation = g)
    BY <2>1
  <2>3. CASE seen[p].lease_id # l
    BY <2>1, <2>3 DEF IInv, TypeOK
  <2>4. CASE seen[p].lease_id = l /\ seen[p].generation # g
    <3>1. archive' = [archive EXCEPT ![l] = [archive[l] EXCEPT ![seen[p].generation] = seen[p]]]
      BY <2>1, <2>4
    <3>2. archive'[l] = [archive[l] EXCEPT ![seen[p].generation] = seen[p]]
      BY <3>1 DEF IInv, TypeOK
    <3>3. archive[l] \in [Generation -> Record \union {NoRecord}]
      BY DEF IInv, TypeOK
    <3>. QED
      BY <2>4, <3>2, <3>3
  <2>. QED
    BY <2>2, <2>3, <2>4
<1>. QED
  BY <1>1, <1>2, ArchiveChange

\* lease-history entries never change once they exist.
THEOREM ArchiveFrozen == Spec => ArchiveImmutable
<1>1. IInv /\ [Next]_vars =>
        [\A l \in LeaseId, g \in Generation :
            archive[l][g] # NoRecord => archive'[l][g] = archive[l][g]]_vars
  BY ArchiveStep
<1>. QED
  BY <1>1, Invariance, PTL DEF Spec, ArchiveImmutable

-----------------------------------------------------------------------------
(* Git locks are held through publication.                                 *)

\* A claim writes to repositories.
LEMMA WritersAreRepositories ==
    ASSUME NEW r \in Record
    PROVE  GuardedWriters(r) \subseteq Repository
BY ClaimAssumption DEF GuardedWriters, Writers, Record, ClaimDocument, RepositoryItem

LEMMA LocksStep == IInv /\ LocksOwned /\ [Next]_vars => LocksOwned'
<1>. SUFFICES ASSUME IInv, LocksOwned, [Next]_vars PROVE LocksOwned'
  OBVIOUS
<1>0. TypeOK /\ AdmissionSerialised /\ LocksOwned
  BY DEF IInv
<1>. USE DEF LocksOwned, TypeOK, WhileGuarded, Bound
<1>1. ASSUME NEW p \in Process, Prepare(p) PROVE LocksOwned'
  BY <1>0, <1>1, DraftTyped DEF Draft
<1>2. ASSUME NEW p \in Process, Enter(p) \/ Refused(p) PROVE LocksOwned'
  BY <1>0, <1>2 DEF Enter, Refused
<1>3. ASSUME NEW p \in Process, Examine(p) PROVE LocksOwned'
  BY <1>0, <1>3 DEF Examine
<1>4. ASSUME NEW p \in Process, Guard(p) PROVE LocksOwned'
  <2>1. pc'[p] = "guarded" /\ \A q \in Process \ {p} : pc'[q] = pc[q]
    BY <1>0, <1>4 DEF Guard
  <2>2. \A q \in Process \ {p} : pc'[q] \notin WhileGuarded
    BY <1>0, <1>4, <2>1, OneInside DEF Guard, CriticalSection
  <2>3. \A w \in GuardedWriters(Bound(p, seen[p])) \intersect Repository : gitLock'[w] = p
    BY <1>4 DEF Guard
  <2>. QED
    BY <1>4, <2>2, <2>3 DEF Guard
<1>5. ASSUME NEW p \in Process, Scan(p) \/ Verify(p) PROVE LocksOwned'
  BY <1>0, <1>5, CheckEffect
<1>6. ASSUME NEW p \in Process, Archive(p) \/ SettleArchive(p) PROVE LocksOwned'
  BY <1>0, <1>6 DEF Archive, SettleArchive
<1>7. ASSUME NEW p \in Process, Stage(p) PROVE LocksOwned'
  BY <1>0, <1>7 DEF Stage
<1>8. ASSUME NEW p \in Process, Publish(p) \/ Settle(p) \/ Abort(p) PROVE LocksOwned'
  BY <1>0, <1>8 DEF Publish, Settle, Abort
<1>9. ASSUME NEW p \in Process, Unguard(p) PROVE LocksOwned'
  BY <1>0, <1>9, OneInside DEF Unguard, CriticalSection
<1>10. ASSUME NEW p \in Process, Exit(p) PROVE LocksOwned'
  BY <1>0, <1>10 DEF Exit
<1>11. ASSUME NEW p \in Process, Crash(p) PROVE LocksOwned'
  BY <1>0, <1>11, OneInside DEF Crash, CriticalSection
<1>12. CASE ClearMutex \/ Revoke \/ Restore \/ Tick \/ UNCHANGED vars
  BY <1>0, <1>12 DEF ClearMutex, Revoke, Restore, Tick, vars
<1>13. CASE ClearGitLocks
  BY <1>0, <1>13, ModelValueAssumption DEF ClearGitLocks
<1>. QED
  BY <1>1, <1>2, <1>3, <1>4, <1>5, <1>6, <1>7, <1>8, <1>9, <1>10, <1>11, <1>12, <1>13
     DEF Next, Proceed

\* No record changes but under the mutex of a live process and the Git locks of
\* the worktree the record binds.
THEOREM PublicationGuarded == Spec => PublishedUnderLocks
<1>1. Init => IInv /\ LocksOwned
  BY InitIInv DEF Init, LocksOwned, WhileGuarded
<1>2. IInv /\ LocksOwned /\ [Next]_vars => IInv' /\ LocksOwned'
  BY NextIInv, LocksStep
<1>3. ASSUME IInv, LocksOwned, [Next]_vars, NEW l \in LeaseId, records'[l] # records[l]
      PROVE  /\ mutex \in Process
             /\ LET r == IF records'[l].state = "ACTIVE" THEN records'[l] ELSE records[l]
                IN  \A w \in GuardedWriters(r) : gitLock[w] = mutex
  <2>1. PICK p \in Process : Publish(p)
    BY <1>3, RecordsChange
  <2>2. /\ l = job[p].candidate.lease_id
        /\ records'[l] = job[p].candidate
        /\ job[p].candidate \in Record
        /\ job[p].op = "release" <=> job[p].candidate.state = "RELEASED"
        /\ job[p].op # "acquire" => seen[p] = records[l]
        /\ mutex = p
    BY <1>3, <2>1, PublicationFacts
  <2>. DEFINE r == IF records'[l].state = "ACTIVE" THEN records'[l] ELSE records[l]
  <2>3. r = Bound(p, seen[p])
    BY <2>2 DEF Bound, Record
  <2>4. job[p].op # "acquire" => records[l] \in Record
    BY <1>3, <2>1, <2>2, PublicationFence
  <2>5. r \in Record
    BY <2>2, <2>4 DEF Record
  <2>6. \A w \in GuardedWriters(r) : gitLock[w] = p
    BY <1>3, <2>1, <2>3, <2>5, WritersAreRepositories DEF LocksOwned, WhileGuarded, Publish
  <2>. QED
    BY <2>2, <2>6
<1>4. IInv /\ LocksOwned /\ [Next]_vars =>
        [\A l \in LeaseId : records'[l] # records[l] =>
            /\ mutex \in Process
            /\ LET r == IF records'[l].state = "ACTIVE" THEN records'[l] ELSE records[l]
               IN  \A w \in GuardedWriters(r) : gitLock[w] = mutex]_vars
  BY <1>3
<1>. QED
  BY <1>1, <1>2, <1>4, PTL DEF Spec, PublishedUnderLocks

-----------------------------------------------------------------------------
(* Refinement.                                                             *)

\* The contract speaks of the same claims and the same conflicts.
LEMMA SameConflicts ==
    ASSUME NEW c, NEW d
    PROVE  Contract!ClaimsConflict(c, d) <=> ClaimsConflict(c, d)
<1>1. \A f, g : Contract!MapsConflict(f, g) <=> MapsConflict(f, g)
  BY DEF MapsConflict, Contract!MapsConflict, AccessConflicts,
         Contract!AccessConflicts
<1>2. \A f, g : Contract!PathsConflict(f, g) <=> PathsConflict(f, g)
  BY DEF PathsConflict, Contract!PathsConflict, PathsOverlap,
         Contract!PathsOverlap, IsPathPrefix, Contract!IsPathPrefix,
         AccessConflicts, Contract!AccessConflicts
<1>3. \A e : /\ Contract!RepositoryAccess(e) = RepositoryAccess(e)
             /\ Contract!BranchAccess(e) = BranchAccess(e)
             /\ Contract!InfrastructureAccess(e) = InfrastructureAccess(e)
             /\ Contract!PathAccess(e) = PathAccess(e)
  BY DEF RepositoryAccess, Contract!RepositoryAccess, BranchAccess,
         Contract!BranchAccess, InfrastructureAccess,
         Contract!InfrastructureAccess, PathAccess, Contract!PathAccess,
         MergeAccess, Contract!MergeAccess, EffectiveMode,
         Contract!EffectiveMode
<1>4. \A e : Contract!CombinedRepositoryAccess(e) = CombinedRepositoryAccess(e)
  BY <1>3 DEF CombinedRepositoryAccess, Contract!CombinedRepositoryAccess,
              CoordinationMode, Contract!CoordinationMode, MergeAccess,
              Contract!MergeAccess
<1>. QED
  BY <1>1, <1>2, <1>3, <1>4 DEF ClaimsConflict, Contract!ClaimsConflict

LEMMA SameClaims ==
    ASSUME NEW c
    PROVE  /\ Contract!AcquirableClaim(c) <=> AcquirableClaim(c)
           /\ Contract!ReplaceableClaim(c) <=> ReplaceableClaim(c)
<1>1. Contract!Writers(c) = Writers(c)
  BY DEF Writers, Contract!Writers
<1>2. /\ Contract!CoordinationListed(c) <=> CoordinationListed(c)
      /\ Contract!IsCoordinationSelfWrite(c) <=> IsCoordinationSelfWrite(c)
  BY <1>1 DEF CoordinationListed, Contract!CoordinationListed,
     IsCoordinationSelfWrite, Contract!IsCoordinationSelfWrite
<1>3. Contract!WellFormedClaim(c) <=> WellFormedClaim(c)
  BY <1>1 DEF WellFormedClaim, Contract!WellFormedClaim
<1>. QED
  BY <1>2, <1>3 DEF AcquirableClaim, Contract!AcquirableClaim,
     ReplaceableClaim, Contract!ReplaceableClaim

\* Every publication is one step of the contract.
LEMMA PublicationRefines ==
    ASSUME IInv, IInv', NEW p \in Process, Publish(p)
    PROVE  Contract!ContractNext
<1>. DEFINE candidate == job[p].candidate
            l == candidate.lease_id
<1>1. /\ l \in LeaseId /\ candidate \in Record /\ job[p].op \in Operation
      /\ records'[l] = candidate
      /\ \A m \in LeaseId \ {l} : records'[m] = records[m]
      /\ job[p].op = "release" <=> candidate.state = "RELEASED"
      /\ job[p].op = "acquire" => records[l] = NoRecord
  BY PublicationFacts
<1>2. candidate # NoRecord /\ candidate.claim \in Claim
  BY <1>1, ModelValueAssumption DEF Record
<1>. DEFINE entry == [state |-> candidate.state, generation |-> candidate.generation,
                      claim |-> candidate.claim]
<1>3. Custody' = [Custody EXCEPT ![l] = entry]
  BY <1>1, <1>2 DEF Custody
<1>4. ASSUME job[p].op # "release" PROVE Contract!Admissible(l, candidate.claim)
  <2>1. ASSUME NEW m \in LeaseId \ {l}, Custody[m].state = "ACTIVE"
        PROVE  ~Contract!ClaimsConflict(candidate.claim, Custody[m].claim)
    <3>1. records[m] # NoRecord /\ records[m].state = "ACTIVE"
      BY <2>1 DEF Custody
    <3>2. Custody[m].claim = records[m].claim
      BY <3>1 DEF Custody
    <3>. QED
      BY <1>4, <2>1, <3>1, <3>2, PublicationDisjoint, SameConflicts
  <2>. QED
    BY <2>1 DEF Contract!Admissible
<1>5. CASE job[p].op = "acquire"
  <2>1. /\ candidate.generation = 1 /\ candidate.state = "ACTIVE"
        /\ AcquirableClaim(candidate.claim)
    BY <1>5, PublicationFence
  <2>2. Contract!Grant(l, candidate.claim)
    BY <1>1, <1>3, <1>4, <1>5, <2>1, SameClaims
       DEF Contract!Grant, Contract!Absent, Contract!InForce, Custody
  <2>3. Custody'[l].state = "ACTIVE" /\ Custody[l].state = "ABSENT"
    BY <1>1, <1>3, <1>5, <2>1 DEF Custody
  <2>4. Custody'[l] # Custody[l]
    BY <2>3
  <2>. QED
    BY <1>1, <1>2, <2>2, <2>4 DEF Contract!ContractNext
<1>6. CASE job[p].op = "replace"
  <2>1. /\ ReplaceableClaim(candidate.claim)
        /\ records[l] \in Record
        /\ records[l].state = "ACTIVE"
        /\ candidate.generation = records[l].generation + 1
        /\ candidate.claim.schema = records[l].claim.schema
    BY <1>6, PublicationFence
  <2>2. candidate.state = "ACTIVE"
    BY <1>1, <1>6 DEF Record
  <2>3. Custody[l] = [state |-> "ACTIVE", generation |-> records[l].generation,
                      claim |-> records[l].claim]
    BY <1>1, <2>1, ModelValueAssumption DEF Custody
  <2>4. Contract!Change(l, candidate.claim)
    BY <1>3, <1>4, <1>6, <2>1, <2>2, <2>3, SameClaims DEF Contract!Change, Contract!InForce
  <2>5. Custody'[l].generation # Custody[l].generation
    <3>1. records[l].generation \in Nat
      BY <2>1, GenerationAssumption DEF Record, Generation
    <3>2. candidate.generation # records[l].generation
      BY <2>1, <3>1
    <3>3. Custody'[l].generation = candidate.generation
      BY <1>1, <1>3 DEF Custody
    <3>4. Custody[l].generation = records[l].generation
      BY <2>3
    <3>. QED
      BY <3>2, <3>3, <3>4
  <2>6. Custody'[l] # Custody[l]
    BY <2>5
  <2>. QED
    BY <1>1, <1>2, <2>4, <2>6 DEF Contract!ContractNext
<1>7. CASE job[p].op = "release"
  <2>1. /\ candidate.claim = records[l].claim
        /\ records[l] \in Record
        /\ records[l].state = "ACTIVE"
        /\ candidate.generation = records[l].generation + 1
    BY <1>7, PublicationFence
  <2>2. Custody[l] = [state |-> "ACTIVE", generation |-> records[l].generation,
                      claim |-> records[l].claim]
    BY <1>1, <2>1, ModelValueAssumption DEF Custody
  <2>3. candidate.state = "RELEASED"
    BY <1>1, <1>7
  <2>4. Contract!End(l)
    BY <1>3, <2>1, <2>2, <2>3 DEF Contract!End, Contract!Ended
  <2>5. Custody'[l].state # Custody[l].state
    BY <1>1, <1>3, <2>2, <2>3 DEF Custody
  <2>6. Custody'[l] # Custody[l]
    BY <2>5
  <2>. QED
    BY <1>1, <2>4, <2>6 DEF Contract!ContractNext
<1>. QED
  BY <1>1, <1>5, <1>6, <1>7 DEF Operation

\* The lock root implements its contract: hide mutexes, locks, scans, decisions
\* and time, and what is left are grants, changes and ends of custody.
THEOREM Refinement == Spec => ImplementsContract
<1>1. Init => Contract!ContractInit
  BY DEF Init, Contract!ContractInit, Contract!Absent, Custody
<1>2. IInv /\ IInv' /\ [Next]_vars => [Contract!ContractNext]_Custody
  <2>1. ASSUME IInv, IInv', [Next]_vars PROVE Contract!ContractNext \/ Custody' = Custody
    <3>1. CASE records' = records
      BY <3>1 DEF Custody
    <3>2. CASE records' # records
      BY <2>1, <3>2, RecordsChange, PublicationRefines
    <3>. QED
      BY <3>1, <3>2
  <2>. QED
    BY <2>1
<1>. QED
  BY <1>1, <1>2, Invariance, PTL DEF Spec, ImplementsContract, Contract!ContractSpec

-----------------------------------------------------------------------------
(* Custody lineage, and what a release says.                               *)

\* A record is kept under the lease id it names.
RecordsNamed == \A l \in LeaseId : records[l] # NoRecord => records[l].lease_id = l

\* A drafted release is a terminal document of its kind.
ReleaseLifecycle ==
    \A p \in Process : pc[p] # "idle" /\ job[p].op = "release" =>
        TerminalLifecycle(job[p].candidate)

\* What the authority of an operation in flight established: its decision
\* follows the one of the record it read, and a release lies in the past.
Decided ==
    \A p \in Process : pc[p] \in InFlight =>
        /\ job[p].op = "replace" /\ IsV2(seen[p]) =>
              job[p].candidate.follows = seen[p].claim
        /\ job[p].op = "release" =>
              /\ job[p].candidate.follows = seen[p].follows
              /\ job[p].candidate.expires = seen[p].expires
              /\ IsV2(seen[p]) => job[p].candidate.released <= clock

\* What a v2 replacement is about to supersede is in lease-history.
AfterArchive == {"archiving", "archived", "staged"}
Preserved ==
    \A p \in Process :
        pc[p] \in AfterArchive /\ job[p].op = "replace" /\ IsV2(seen[p]) =>
            archive[job[p].candidate.lease_id][seen[p].generation] = seen[p]

DocumentInv == RecordsNamed /\ ReleaseLifecycle /\ Decided /\ Preserved
LineageInv == DocumentInv /\ LineageConnected

\* An operation that is under way was drafted in this step, or was under way
\* before with the same candidate.
LEMMA JobStays ==
    ASSUME IInv, [Next]_vars, NEW p \in Process, pc'[p] # "idle", ~Prepare(p)
    PROVE  pc[p] # "idle" /\ job'[p] = job[p]
<1>0. TypeOK
  BY DEF IInv
<1>. USE DEF TypeOK
<1>1. ASSUME NEW q \in Process, Prepare(q) PROVE pc'[p] = pc[p] /\ job'[p] = job[p]
  BY <1>0, <1>1, DraftTyped DEF Draft
<1>2. ASSUME NEW q \in Process, Enter(q) \/ Refused(q)
      PROVE  pc[p] # "idle" /\ job'[p] = job[p]
  BY <1>0, <1>2 DEF Enter, Refused
<1>3. ASSUME NEW q \in Process, Examine(q) \/ Guard(q)
      PROVE  pc[p] # "idle" /\ job'[p] = job[p]
  BY <1>0, <1>3 DEF Examine, Guard
<1>4. ASSUME NEW q \in Process, Scan(q) \/ Verify(q)
      PROVE  pc[p] # "idle" /\ job'[p] = job[p]
  BY <1>0, <1>4, CheckEffect
<1>5. ASSUME NEW q \in Process, Archive(q) \/ SettleArchive(q)
      PROVE  pc[p] # "idle" /\ job'[p] = job[p]
  BY <1>0, <1>5 DEF Archive, SettleArchive
<1>6. ASSUME NEW q \in Process, Stage(q) \/ Publish(q)
      PROVE  pc[p] # "idle" /\ job'[p] = job[p]
  BY <1>0, <1>6 DEF Stage, Publish
<1>7. ASSUME NEW q \in Process, Settle(q) \/ Abort(q) \/ Unguard(q)
      PROVE  pc[p] # "idle" /\ job'[p] = job[p]
  BY <1>0, <1>7 DEF Settle, Abort, Unguard, CriticalSection
<1>8. ASSUME NEW q \in Process, Exit(q) \/ Crash(q)
      PROVE  pc[p] # "idle" /\ job'[p] = job[p]
  BY <1>0, <1>8 DEF Exit, Crash
<1>9. CASE ClearMutex \/ ClearGitLocks \/ Revoke \/ Restore \/ Tick \/ UNCHANGED vars
  BY <1>9 DEF ClearMutex, ClearGitLocks, Revoke, Restore, Tick, vars
<1>. QED
  BY <1>1, <1>2, <1>3, <1>4, <1>5, <1>6, <1>7, <1>8, <1>9 DEF Next, Proceed

\* An operation in flight was examined in this step, or was in flight before
\* with the same record read.
LEMMA FlightStays ==
    ASSUME IInv, [Next]_vars, NEW p \in Process, pc'[p] \in InFlight, ~Examine(p)
    PROVE  pc[p] \in InFlight /\ seen'[p] = seen[p]
<1>0. TypeOK
  BY DEF IInv
<1>. USE DEF TypeOK, InFlight
<1>1. ASSUME NEW q \in Process, Prepare(q) PROVE pc[p] \in InFlight /\ seen'[p] = seen[p]
  BY <1>0, <1>1, DraftTyped DEF Draft
<1>2. ASSUME NEW q \in Process, Enter(q) \/ Refused(q)
      PROVE  pc[p] \in InFlight /\ seen'[p] = seen[p]
  BY <1>0, <1>2 DEF Enter, Refused
<1>3. ASSUME NEW q \in Process, Examine(q) PROVE pc[p] \in InFlight /\ seen'[p] = seen[p]
  <2>1. \A r \in Process \ {q} : pc'[r] = pc[r] /\ seen'[r] = seen[r]
    BY <1>0, <1>3 DEF Examine
  <2>. QED
    BY <1>3, <2>1
<1>4. ASSUME NEW q \in Process, Guard(q) PROVE pc[p] \in InFlight /\ seen'[p] = seen[p]
  BY <1>0, <1>4 DEF Guard
<1>5. ASSUME NEW q \in Process, Scan(q) \/ Verify(q)
      PROVE  pc[p] \in InFlight /\ seen'[p] = seen[p]
  BY <1>0, <1>5, CheckEffect
<1>6. ASSUME NEW q \in Process, Archive(q) \/ SettleArchive(q)
      PROVE  pc[p] \in InFlight /\ seen'[p] = seen[p]
  BY <1>0, <1>6 DEF Archive, SettleArchive
<1>7. ASSUME NEW q \in Process, Stage(q) \/ Publish(q)
      PROVE  pc[p] \in InFlight /\ seen'[p] = seen[p]
  BY <1>0, <1>7 DEF Stage, Publish
<1>8. ASSUME NEW q \in Process, Settle(q) \/ Abort(q) \/ Unguard(q)
      PROVE  pc[p] \in InFlight /\ seen'[p] = seen[p]
  BY <1>0, <1>8 DEF Settle, Abort, Unguard
<1>9. ASSUME NEW q \in Process, Exit(q) \/ Crash(q)
      PROVE  pc[p] \in InFlight /\ seen'[p] = seen[p]
  BY <1>0, <1>9 DEF Exit, Crash
<1>10. CASE ClearMutex \/ ClearGitLocks \/ Revoke \/ Restore \/ Tick \/ UNCHANGED vars
  BY <1>10 DEF ClearMutex, ClearGitLocks, Revoke, Restore, Tick, vars
<1>. QED
  BY <1>1, <1>2, <1>3, <1>4, <1>5, <1>6, <1>7, <1>8, <1>9, <1>10 DEF Next, Proceed

\* A v2 replacement past the verification went through the archive.
LEMMA ArchiveStays ==
    ASSUME IInv, [Next]_vars, NEW p \in Process, pc'[p] \in AfterArchive,
           job[p].op = "replace", IsV2(seen[p]), ~Archive(p)
    PROVE  pc[p] \in AfterArchive
<1>0. TypeOK
  BY DEF IInv
<1>. USE DEF TypeOK, AfterArchive
<1>1. ASSUME NEW q \in Process, Prepare(q) PROVE pc[p] \in AfterArchive
  BY <1>0, <1>1, DraftTyped DEF Draft
<1>2. ASSUME NEW q \in Process, Enter(q) \/ Refused(q) PROVE pc[p] \in AfterArchive
  BY <1>0, <1>2 DEF Enter, Refused
<1>3. ASSUME NEW q \in Process, Examine(q) \/ Guard(q) PROVE pc[p] \in AfterArchive
  BY <1>0, <1>3 DEF Examine, Guard
<1>4. ASSUME NEW q \in Process, Scan(q) \/ Verify(q) PROVE pc[p] \in AfterArchive
  BY <1>0, <1>4, CheckEffect
<1>5. ASSUME NEW q \in Process, Archive(q) PROVE pc[p] \in AfterArchive
  <2>1. \A r \in Process \ {q} : pc'[r] = pc[r]
    BY <1>0, <1>5 DEF Archive
  <2>. QED
    BY <1>5, <2>1
<1>6. ASSUME NEW q \in Process, SettleArchive(q) PROVE pc[p] \in AfterArchive
  BY <1>0, <1>6 DEF SettleArchive
<1>7. ASSUME NEW q \in Process, Stage(q) \/ Publish(q) PROVE pc[p] \in AfterArchive
  BY <1>0, <1>7 DEF Stage, Publish
<1>8. ASSUME NEW q \in Process, Settle(q) \/ Abort(q) \/ Unguard(q)
      PROVE  pc[p] \in AfterArchive
  BY <1>0, <1>8 DEF Settle, Abort, Unguard
<1>9. ASSUME NEW q \in Process, Exit(q) \/ Crash(q) PROVE pc[p] \in AfterArchive
  BY <1>0, <1>9 DEF Exit, Crash
<1>10. CASE ClearMutex \/ ClearGitLocks \/ Revoke \/ Restore \/ Tick \/ UNCHANGED vars
  BY <1>10 DEF ClearMutex, ClearGitLocks, Revoke, Restore, Tick, vars
<1>. QED
  BY <1>1, <1>2, <1>3, <1>4, <1>5, <1>6, <1>7, <1>8, <1>9, <1>10 DEF Next, Proceed

\* The clock only moves forward.
LEMMA ClockForward ==
    ASSUME IInv, [Next]_vars
    PROVE  clock' \in Nat /\ clock <= clock'
<1>1. clock \in Nat
  BY DEF IInv, TypeOK
<1>2. clock' = clock \/ clock' = clock + 1
  BY DraftTyped DEF Next, Proceed, vars, Draft, Enter, Refused, Examine, Guard, Scan, Verify,
     Archive, SettleArchive, Stage, Publish, Settle, Abort, Unguard, Exit, Crash, ClearMutex,
     ClearGitLocks, Revoke, Restore, Tick
<1>. QED
  BY <1>1, <1>2

LEMMA InitLineageInv == Init => LineageInv
BY DEF Init, LineageInv, DocumentInv, RecordsNamed, ReleaseLifecycle, Decided, Preserved,
   LineageConnected, InFlight, AfterArchive

LEMMA NamedStep == IInv /\ RecordsNamed /\ [Next]_vars => RecordsNamed'
<1>. SUFFICES ASSUME IInv, RecordsNamed, [Next]_vars PROVE RecordsNamed'
  OBVIOUS
<1>1. CASE records' = records
  BY <1>1 DEF RecordsNamed
<1>2. CASE records' # records
  <2>1. PICK p \in Process : Publish(p)
    BY <1>2, RecordsChange
  <2>2. /\ records'[job[p].candidate.lease_id] = job[p].candidate
        /\ \A m \in LeaseId \ {job[p].candidate.lease_id} : records'[m] = records[m]
    BY <2>1, PublicationFacts
  <2>. QED
    BY <2>2 DEF RecordsNamed
<1>. QED
  BY <1>1, <1>2

LEMMA LifecycleStep == IInv /\ ReleaseLifecycle /\ [Next]_vars => ReleaseLifecycle'
<1>. SUFFICES ASSUME IInv, ReleaseLifecycle, [Next]_vars, NEW p \in Process,
                     pc'[p] # "idle", job'[p].op = "release"
              PROVE  TerminalLifecycle(job'[p].candidate)
  BY DEF ReleaseLifecycle
<1>1. CASE Prepare(p)
  <2>1. job \in [Process -> Job \union {NoJob}]
    BY DEF IInv, TypeOK
  <2>2. CASE PrepareAcquire(p)
    <3>1. PICK candidate : Draft(p, "acquire", candidate)
      BY <2>2 DEF PrepareAcquire
    <3>2. job'[p] = [op |-> "acquire", candidate |-> candidate]
      BY <2>1, <3>1 DEF Draft
    <3>. QED
      BY <3>2
  <2>3. CASE PrepareReplace(p)
    <3>1. PICK candidate : Draft(p, "replace", candidate)
      BY <2>3 DEF PrepareReplace
    <3>2. job'[p] = [op |-> "replace", candidate |-> candidate]
      BY <2>1, <3>1 DEF Draft
    <3>. QED
      BY <3>2
  <2>4. CASE PrepareRelease(p)
    <3>1. PICK l \in LeaseId, authority \in {"NORMAL", "STALE_RECOVERY", "NONE"},
               t \in 0 .. Horizon :
             /\ TerminalLifecycle(TerminalCandidate(records[l], authority, t))
             /\ Draft(p, "release", TerminalCandidate(records[l], authority, t))
      BY <2>4 DEF PrepareRelease
    <3>2. job'[p] = [op |-> "release",
                    candidate |-> TerminalCandidate(records[l], authority, t)]
      BY <2>1, <3>1 DEF Draft
    <3>3. job'[p].candidate = TerminalCandidate(records[l], authority, t)
      BY <3>2
    <3>. QED
      BY <3>1, <3>3
  <2>. QED
    BY <1>1, <2>2, <2>3, <2>4 DEF Prepare
<1>2. CASE ~Prepare(p)
  BY <1>2, JobStays DEF ReleaseLifecycle
<1>. QED
  BY <1>1, <1>2

\* What Examine checks of a replacement and of a release.
LEMMA ExamineDecides ==
    ASSUME IInv, NEW p \in Process, Examine(p)
    PROVE  /\ seen'[p] = IF job[p].op = "acquire" THEN NoRecord
                         ELSE records[job[p].candidate.lease_id]
           /\ job[p].op = "replace" /\ IsV2(seen'[p]) =>
                 job[p].candidate.follows = seen'[p].claim
           /\ job[p].op = "release" =>
                 /\ job[p].candidate.follows = seen'[p].follows
                 /\ job[p].candidate.expires = seen'[p].expires
                 /\ IsV2(seen'[p]) => job[p].candidate.released <= clock
<1>. DEFINE current == records[job[p].candidate.lease_id]
<1>1. seen'[p] = IF job[p].op = "acquire" THEN NoRecord ELSE current
  BY DEF Examine, IInv, TypeOK
<1>2. job[p].op = "release" => job[p].candidate.state = "RELEASED"
  BY DEF IInv, JobConsistent, Examine
<1>3. ASSUME job[p].op = "replace", IsV2(current)
      PROVE  job[p].candidate.follows = current.claim
  <2>1. IsV2(job[p].candidate)
    BY <1>3 DEF Examine, CurrentMatches, IsV2
  <2>2. ReplacementAuthority(job[p].candidate, current)
    BY <1>3 DEF Examine, Authorised
  <2>. QED
    BY <2>1, <2>2 DEF ReplacementAuthority
<1>4. ASSUME job[p].op = "release"
      PROVE  /\ job[p].candidate.follows = current.follows
             /\ job[p].candidate.expires = current.expires
  BY <1>2, <1>4 DEF Examine, PreservesIdentity
<1>5. ASSUME job[p].op = "release", IsV2(current) PROVE job[p].candidate.released <= clock
  <2>1. ReleaseAuthority(job[p].candidate, current)
    BY <1>5 DEF Examine, Authorised
  <2>. QED
    BY <1>5, <2>1 DEF ReleaseAuthority
<1>. HIDE DEF current
<1>6. job[p].op = "replace" \/ job[p].op = "release" => seen'[p] = current
  BY <1>1
<1>. QED
  BY <1>1, <1>3, <1>4, <1>5, <1>6 DEF current

LEMMA DecidedStep == IInv /\ Decided /\ [Next]_vars => Decided'
<1>. SUFFICES ASSUME IInv, Decided, [Next]_vars, NEW p \in Process, pc'[p] \in InFlight
              PROVE  /\ job'[p].op = "replace" /\ IsV2(seen'[p]) =>
                           job'[p].candidate.follows = seen'[p].claim
                     /\ job'[p].op = "release" =>
                           /\ job'[p].candidate.follows = seen'[p].follows
                           /\ job'[p].candidate.expires = seen'[p].expires
                           /\ IsV2(seen'[p]) => job'[p].candidate.released <= clock'
  BY DEF Decided
<1>1. CASE Examine(p)
  <2>1. UNCHANGED <<job, clock>>
    BY <1>1 DEF Examine
  <2>. QED
    BY <1>1, <2>1, ExamineDecides
<1>2. CASE ~Examine(p)
  <2>1. pc[p] \in InFlight /\ seen'[p] = seen[p]
    BY <1>2, FlightStays
  <2>2. ~Prepare(p)
    BY <2>1 DEF InFlight, Prepare, PrepareAcquire, PrepareReplace, PrepareRelease, Draft
  <2>3. job'[p] = job[p]
    BY <2>2, JobStays DEF InFlight
  <2>4. job[p].candidate.released \in Nat
    BY <2>1, JobOfRunning DEF InFlight, Job, Record
  <2>5. clock \in Nat /\ clock' \in Nat /\ clock <= clock'
    BY ClockForward DEF IInv, TypeOK
  <2>6. job[p].candidate.released <= clock => job[p].candidate.released <= clock'
    BY <2>4, <2>5
  <2>. QED
    BY <2>1, <2>3, <2>6 DEF Decided
<1>. QED
  BY <1>1, <1>2

LEMMA PreservedStep ==
    IInv /\ RecordsNamed /\ Preserved /\ [Next]_vars => Preserved'
<1>. SUFFICES ASSUME IInv, RecordsNamed, Preserved, [Next]_vars, NEW p \in Process,
                     pc'[p] \in AfterArchive, job'[p].op = "replace", IsV2(seen'[p])
              PROVE  archive'[job'[p].candidate.lease_id][seen'[p].generation] = seen'[p]
  BY DEF Preserved
<1>. DEFINE l == job[p].candidate.lease_id
            g == seen[p].generation
<1>1. ~Examine(p)
  BY DEF Examine, AfterArchive, IInv, TypeOK
<1>2. pc[p] \in InFlight /\ seen'[p] = seen[p]
  BY <1>1, FlightStays DEF AfterArchive, InFlight
<1>3. job'[p] = job[p]
  <2>1. ~Prepare(p)
    BY <1>2 DEF InFlight, Prepare, PrepareAcquire, PrepareReplace, PrepareRelease, Draft
  <2>. QED
    BY <2>1, JobStays DEF AfterArchive
<1>4. seen[p] \in Record /\ seen[p] = records[l]
  BY <1>2, <1>3, ReadRecord
<1>5. l \in LeaseId /\ g \in Generation
  BY <1>2, <1>4, JobOfRunning DEF InFlight, Job, Record
<1>6. seen[p].lease_id = l /\ seen[p] # NoRecord
  BY <1>4, <1>5, ModelValueAssumption DEF RecordsNamed
<1>7. CASE Archive(p)
  <2>1. \/ archive' = [archive EXCEPT ![l][g] = seen[p]]
        \/ archive[l][g] = seen[p] /\ archive' = archive
    BY <1>6, <1>7 DEF Archive
  <2>2. archive'[l][g] = seen[p]
    BY <1>5, <2>1 DEF IInv, TypeOK
  <2>. QED
    BY <1>2, <1>3, <2>2
<1>8. CASE ~Archive(p)
  <2>1. pc[p] \in AfterArchive
    BY <1>2, <1>3, <1>8, ArchiveStays
  <2>2. archive[l][g] = seen[p]
    BY <1>2, <1>3, <2>1 DEF Preserved
  <2>3. archive'[l][g] = seen[p]
    BY <1>5, <1>6, <2>2, ArchiveStep
  <2>. QED
    BY <1>2, <1>3, <2>3
<1>. QED
  BY <1>7, <1>8

\* What one lease record promises about its predecessors.
Connected(l) ==
    \A g \in 1 .. LastActiveGeneration(records[l]) :
        /\ CandidateAt(l, g) # NoRecord
        /\ g > 1 => CandidateAt(l, g).follows = CandidateAt(l, g - 1).claim
        /\ g < LastActiveGeneration(records[l]) =>
              archive[l][g].state = "ACTIVE" /\ archive[l][g].generation = g

\* A record that stays keeps its lineage, whatever is archived meanwhile.
LEMMA ConnectedStays ==
    ASSUME IInv, [Next]_vars, NEW l \in LeaseId, records[l] \in Record,
           records'[l] = records[l], Connected(l)
    PROVE  Connected(l)'
<1>. DEFINE last == LastActiveGeneration(records[l])
<1>1. LastActiveGeneration(records[l])' = last
  BY DEF LastActiveGeneration
<1>2. last \in Nat /\ last <= MaxGeneration /\ MaxGeneration \in Nat
  BY GenerationAssumption DEF LastActiveGeneration, Record, Generation
<1>3. ASSUME NEW g \in 1 .. last
      PROVE  CandidateAt(l, g)' = CandidateAt(l, g) /\ (g < last => archive'[l][g] = archive[l][g])
  <2>1. g \in Generation
    BY <1>2, <1>3 DEF Generation
  <2>2. CASE g = last
    BY <1>1, <2>2 DEF CandidateAt
  <2>3. CASE g # last
    <3>1. CandidateAt(l, g) = archive[l][g] /\ CandidateAt(l, g)' = archive'[l][g]
      BY <1>1, <2>3 DEF CandidateAt
    <3>2. archive[l][g] # NoRecord
      BY <1>3, <3>1 DEF Connected
    <3>. QED
      BY <2>1, <3>1, <3>2, ArchiveStep
  <2>. QED
    BY <1>2, <1>3, <2>2, <2>3
<1>4. ASSUME NEW g \in 1 .. last, g > 1 PROVE CandidateAt(l, g - 1)' = CandidateAt(l, g - 1)
  <2>1. g - 1 \in 1 .. last
    BY <1>2, <1>4
  <2>. QED
    BY <1>3, <2>1
<1>. QED
  BY <1>1, <1>3, <1>4 DEF Connected

\* A published v2 record has all its predecessors: the one it supersedes is in
\* lease-history, and its decision follows that one's.
LEMMA PublicationConnects ==
    ASSUME IInv, LineageInv, NEW p \in Process, Publish(p),
           NEW l \in LeaseId, l = job[p].candidate.lease_id, IsV2(records'[l])
    PROVE  Connected(l)'
<1>. DEFINE candidate == job[p].candidate
<1>1. /\ candidate \in Record /\ job[p].op \in Operation
      /\ records'[l] = candidate
      /\ job[p].op = "release" <=> candidate.state = "RELEASED"
      /\ job[p].op # "acquire" => seen[p] = records[l]
  BY PublicationFacts
<1>2. archive' = archive /\ pc[p] = "staged"
  BY DEF Publish
<1>3. candidate # NoRecord
  BY <1>1, ModelValueAssumption
<1>4. CASE job[p].op = "acquire"
  <2>1. candidate.generation = 1 /\ candidate.state = "ACTIVE"
    BY <1>4, PublicationFence
  <2>2. LastActiveGeneration(records[l])' = 1
    BY <1>1, <2>1 DEF LastActiveGeneration
  <2>3. CandidateAt(l, 1)' = candidate
    BY <1>1, <2>2 DEF CandidateAt
  <2>. QED
    BY <1>3, <2>2, <2>3 DEF Connected
<1>5. CASE job[p].op # "acquire"
  <2>0. records[l] \in Record
    BY <1>5, PublicationFence
  <2>. PICK n \in Nat \ {0} : n = records[l].generation
    BY <2>0, GenerationAssumption DEF Record, Generation
  <2>1. /\ records[l] \in Record /\ records[l].state = "ACTIVE"
        /\ candidate.generation = n + 1
        /\ candidate.claim.schema = records[l].claim.schema
        /\ job[p].op = "release" => candidate.claim = records[l].claim
    BY <1>5, PublicationFence
  <2>2. n \in Nat \ {0} /\ records[l] # NoRecord
    BY <2>0, ModelValueAssumption
  <2>3. IsV2(records[l]) /\ IsV2(seen[p])
    BY <1>1, <1>5, <2>1 DEF IsV2
  <2>4. LastActiveGeneration(records[l]) = n
    BY <2>1 DEF LastActiveGeneration
  <2>5. \A g \in 1 .. n :
          /\ CandidateAt(l, g) # NoRecord
          /\ g > 1 => CandidateAt(l, g).follows = CandidateAt(l, g - 1).claim
          /\ g < n => archive[l][g].state = "ACTIVE" /\ archive[l][g].generation = g
    BY <2>2, <2>3, <2>4 DEF LineageInv, LineageConnected
  <2>6. CandidateAt(l, n) = records[l]
    BY <2>4 DEF CandidateAt
  <2>7. ASSUME NEW g \in 1 .. n, g # n PROVE CandidateAt(l, g) = archive[l][g]
    BY <2>4, <2>7 DEF CandidateAt
  <2>8. CASE job[p].op = "replace"
    <3>1. LastActiveGeneration(records[l])' = n + 1
      BY <1>1, <2>1, <2>8 DEF LastActiveGeneration, Record
    <3>2. archive[l][n] = records[l]
      BY <1>1, <1>2, <2>3, <2>8 DEF LineageInv, DocumentInv, Preserved, AfterArchive
    <3>3. candidate.follows = records[l].claim
      BY <1>1, <1>2, <2>3, <2>8 DEF LineageInv, DocumentInv, Decided, InFlight
    <3>4. ASSUME NEW g \in 1 .. n PROVE CandidateAt(l, g) = archive[l][g]
      BY <2>6, <2>7, <3>2
    <3>5. CandidateAt(l, n + 1)' = candidate
      BY <1>1, <3>1 DEF CandidateAt
    <3>6. ASSUME NEW g \in 1 .. n PROVE CandidateAt(l, g)' = archive[l][g]
      <4>1. g # n + 1
        OBVIOUS
      <4>. QED
        BY <1>2, <3>1, <4>1 DEF CandidateAt
    <3>7. SUFFICES ASSUME NEW g \in 1 .. n + 1
                   PROVE  /\ CandidateAt(l, g)' # NoRecord
                          /\ g > 1 => CandidateAt(l, g)'.follows = CandidateAt(l, g - 1)'.claim
                          /\ g < n + 1 =>
                                archive'[l][g].state = "ACTIVE" /\ archive'[l][g].generation = g
      BY <3>1 DEF Connected
    <3>8. CASE g = n + 1
      <4>1. CandidateAt(l, g)' = candidate
        BY <3>5, <3>8
      <4>2. CandidateAt(l, g - 1)' = archive[l][n]
        <5>1. g - 1 = n /\ n \in 1 .. n
          BY <3>8
        <5>. QED
          BY <3>6, <5>1
      <4>3. CandidateAt(l, g)'.follows = CandidateAt(l, g - 1)'.claim
        BY <3>2, <3>3, <4>1, <4>2
      <4>4. ~(g < n + 1)
        BY <3>8
      <4>. QED
        BY <1>3, <4>1, <4>3, <4>4
    <3>9. CASE g # n + 1
      <4>1. g \in 1 .. n
        BY <3>9
      <4>2. CandidateAt(l, g)' = CandidateAt(l, g)
        BY <3>4, <3>6, <4>1
      <4>3. g > 1 => CandidateAt(l, g - 1)' = CandidateAt(l, g - 1)
        <5>1. g > 1 => g - 1 \in 1 .. n
          BY <4>1
        <5>. QED
          BY <3>4, <3>6, <5>1
      <4>4. archive[l][g].state = "ACTIVE" /\ archive[l][g].generation = g
        <5>1. CASE g = n
          BY <2>1, <3>2, <5>1
        <5>2. CASE g # n
          BY <2>5, <4>1, <5>2
        <5>. QED
          BY <5>1, <5>2
      <4>. QED
        BY <1>2, <2>5, <4>1, <4>2, <4>3, <4>4
    <3>. QED
      BY <3>8, <3>9
  <2>9. CASE job[p].op = "release"
    <3>1. LastActiveGeneration(records[l])' = n
      BY <1>1, <2>1, <2>2, <2>9 DEF LastActiveGeneration
    <3>2. candidate.follows = records[l].follows /\ candidate.claim = records[l].claim
      BY <1>1, <1>2, <2>1, <2>9 DEF LineageInv, DocumentInv, Decided, InFlight
    <3>3. ASSUME NEW g \in 1 .. n
          PROVE  /\ CandidateAt(l, g)' # NoRecord
                 /\ CandidateAt(l, g)'.follows = CandidateAt(l, g).follows
                 /\ CandidateAt(l, g)'.claim = CandidateAt(l, g).claim
      <4>1. CASE g = n
        <5>1. CandidateAt(l, g)' = candidate
          BY <1>1, <3>1, <4>1 DEF CandidateAt
        <5>. QED
          BY <1>3, <2>6, <3>2, <4>1, <5>1
      <4>2. CASE g # n
        <5>1. CandidateAt(l, g)' = archive[l][g]
          BY <1>2, <3>1, <4>2 DEF CandidateAt
        <5>2. CandidateAt(l, g) = archive[l][g]
          BY <2>7, <4>2
        <5>3. CandidateAt(l, g) # NoRecord
          BY <2>5
        <5>. QED
          BY <5>1, <5>2, <5>3
      <4>. QED
        BY <4>1, <4>2
    <3>4. SUFFICES ASSUME NEW g \in 1 .. n
                   PROVE  /\ CandidateAt(l, g)' # NoRecord
                          /\ g > 1 => CandidateAt(l, g)'.follows = CandidateAt(l, g - 1)'.claim
                          /\ g < n =>
                                archive'[l][g].state = "ACTIVE" /\ archive'[l][g].generation = g
      BY <3>1 DEF Connected
    <3>5. g > 1 => CandidateAt(l, g)'.follows = CandidateAt(l, g - 1)'.claim
      <4>1. g > 1 => g - 1 \in 1 .. n
        OBVIOUS
      <4>2. g > 1 => CandidateAt(l, g).follows = CandidateAt(l, g - 1).claim
        BY <2>5
      <4>. QED
        BY <3>3, <4>1, <4>2
    <3>. QED
      BY <1>2, <2>5, <3>3, <3>5
  <2>. QED
    BY <1>1, <1>5, <2>8, <2>9 DEF Operation
<1>. QED
  BY <1>4, <1>5

LEMMA ConnectedStep == IInv /\ LineageInv /\ [Next]_vars => LineageConnected'
<1>. SUFFICES ASSUME IInv, LineageInv, [Next]_vars, NEW l \in LeaseId,
                     records'[l] # NoRecord, IsV2(records'[l])
              PROVE  Connected(l)'
  BY DEF LineageConnected, Connected
<1>1. CASE records'[l] = records[l]
  <2>1. Connected(l)
    BY <1>1 DEF LineageInv, LineageConnected, Connected
  <2>2. records[l] \in Record
    BY <1>1 DEF IInv, TypeOK
  <2>. QED
    BY <1>1, <2>1, <2>2, ConnectedStays
<1>2. CASE records'[l] # records[l]
  <2>1. PICK p \in Process : Publish(p)
    BY <1>2, RecordsChange
  <2>2. l = job[p].candidate.lease_id
    BY <1>2, <2>1, PublicationFacts
  <2>. QED
    BY <2>1, <2>2, PublicationConnects
<1>. QED
  BY <1>1, <1>2

LEMMA NextLineageInv == IInv /\ LineageInv /\ [Next]_vars => LineageInv'
BY NamedStep, LifecycleStep, DecidedStep, PreservedStep, ConnectedStep DEF LineageInv, DocumentInv

\* Custody lineage: every earlier candidate of a v2 lease can be recovered, each
\* under a decision that follows its predecessor's, through any interleaving of
\* operations, crashes between archiving and publication, and evidence drift.
THEOREM LineageKept == Spec => []LineageConnected
<1>1. LineageInv => LineageConnected
  BY DEF LineageInv
<1>. QED
  BY <1>1, InitIInv, NextIInv, InitLineageInv, NextLineageInv, PTL DEF Spec

\* A published release tells the truth about its instant and its expiry.
LEMMA PublicationTruthful ==
    ASSUME IInv, DocumentInv, NEW p \in Process, Publish(p), job[p].op = "release",
           IsV2(job[p].candidate)
    PROVE  /\ job[p].candidate.released <= clock
           /\ job[p].candidate.release_authority = "STALE_RECOVERY" <=>
                 job[p].candidate.released > job[p].candidate.expires
<1>1. pc[p] = "staged"
  BY DEF Publish
<1>2. job[p].candidate \in Record /\ seen[p] = records[job[p].candidate.lease_id]
  BY PublicationFacts
<1>3. IsV2(seen[p])
  BY <1>2, PublicationFence DEF IsV2
<1>4. job[p].candidate.released <= clock
  BY <1>1, <1>3 DEF DocumentInv, Decided, InFlight
<1>5. TerminalLifecycle(job[p].candidate)
  BY <1>1 DEF DocumentInv, ReleaseLifecycle
<1>6. job[p].candidate.released \in Nat /\ job[p].candidate.expires \in Nat
  BY <1>2 DEF Record
<1>. QED
  BY <1>4, <1>5, <1>6 DEF TerminalLifecycle

LEMMA TruthfulStep ==
    IInv /\ DocumentInv /\ TerminalAuthorityTruthful /\ [Next]_vars => TerminalAuthorityTruthful'
<1>. SUFFICES ASSUME IInv, DocumentInv, TerminalAuthorityTruthful, [Next]_vars,
                     NEW l \in LeaseId, records'[l] # NoRecord, IsV2(records'[l]),
                     records'[l].state = "RELEASED"
              PROVE  /\ records'[l].released <= clock'
                     /\ records'[l].release_authority = "STALE_RECOVERY" <=>
                           records'[l].released > records'[l].expires
  BY DEF TerminalAuthorityTruthful
<1>1. clock \in Nat /\ clock' \in Nat /\ clock <= clock'
  BY ClockForward DEF IInv, TypeOK
<1>2. CASE records'[l] = records[l]
  <2>1. /\ records[l].released <= clock
        /\ records[l].release_authority = "STALE_RECOVERY" <=>
              records[l].released > records[l].expires
    BY <1>2 DEF TerminalAuthorityTruthful
  <2>2. records[l].released \in Nat
    BY <1>2 DEF IInv, TypeOK, Record
  <2>3. records[l].released <= clock'
    BY <1>1, <2>1, <2>2
  <2>. QED
    BY <1>2, <2>1, <2>3
<1>3. CASE records'[l] # records[l]
  <2>1. PICK p \in Process : Publish(p)
    BY <1>3, RecordsChange
  <2>2. /\ records'[l] = job[p].candidate /\ job[p].candidate \in Record
        /\ job[p].op = "release"
    BY <1>3, <2>1, PublicationFacts
  <2>3. clock' = clock
    BY <2>1 DEF Publish
  <2>. QED
    BY <2>1, <2>2, <2>3, PublicationTruthful
<1>. QED
  BY <1>2, <1>3

\* release: a v2 terminal record never claims a release in the future, and names
\* stale recovery exactly when the lease had expired.
THEOREM ReleasesTruthful == Spec => []TerminalAuthorityTruthful
<1>1. Init => TerminalAuthorityTruthful
  BY DEF Init, TerminalAuthorityTruthful
<1>2. LineageInv => DocumentInv
  BY DEF LineageInv
<1>. QED
  BY <1>1, <1>2, InitIInv, NextIInv, InitLineageInv, NextLineageInv, TruthfulStep, PTL DEF Spec

-----------------------------------------------------------------------------
(* Obstacles: an operation only gets past its last look for one while the  *)
(* obstacle is not there.                                                  *)

Looking == {"prepared", "admitted", "examined", "guarded", "scanned", "verified"}

\* How an operation moves on before it is staged.
LEMMA MovesOn ==
    ASSUME IInv, [Next]_vars, NEW p \in Process, pc[p] \in Looking,
           pc'[p] \in Underway, pc'[p] # pc[p]
    PROVE  \/ pc'[p] \in {"admitted", "examined", "guarded"}
           \/ Scan(p) \/ Verify(p) \/ Archive(p) \/ Stage(p)
<1>0. TypeOK
  BY DEF IInv
<1>. USE DEF TypeOK, Looking, Underway, CriticalSection
<1>1. ASSUME NEW q \in Process, Prepare(q) PROVE FALSE
  BY <1>0, <1>1, DraftTyped DEF Draft
<1>2. ASSUME NEW q \in Process, Enter(q) \/ Refused(q) PROVE pc'[p] = "admitted"
  BY <1>0, <1>2 DEF Enter, Refused
<1>3. ASSUME NEW q \in Process, Examine(q) PROVE pc'[p] = "examined"
  BY <1>0, <1>3 DEF Examine
<1>4. ASSUME NEW q \in Process, Guard(q) PROVE pc'[p] = "guarded"
  BY <1>0, <1>4 DEF Guard
<1>5. ASSUME NEW q \in Process, Scan(q) \/ Verify(q) PROVE q = p
  BY <1>0, <1>5, CheckEffect
<1>6. ASSUME NEW q \in Process, Archive(q) PROVE q = p
  <2>1. \A t \in Process \ {q} : pc'[t] = pc[t]
    BY <1>0, <1>6 DEF Archive
  <2>. QED
    BY <2>1
<1>7. ASSUME NEW q \in Process, Stage(q) PROVE q = p
  BY <1>0, <1>7 DEF Stage
<1>8. ASSUME NEW q \in Process, SettleArchive(q) \/ Publish(q) PROVE FALSE
  BY <1>0, <1>8 DEF SettleArchive, Publish
<1>9. ASSUME NEW q \in Process, Settle(q) \/ Abort(q) \/ Unguard(q) PROVE FALSE
  BY <1>0, <1>9 DEF Settle, Abort, Unguard
<1>10. ASSUME NEW q \in Process, Exit(q) \/ Crash(q) PROVE FALSE
  BY <1>0, <1>10 DEF Exit, Crash
<1>11. CASE ClearMutex \/ ClearGitLocks \/ Revoke \/ Restore \/ Tick \/ UNCHANGED vars
  BY <1>11 DEF ClearMutex, ClearGitLocks, Revoke, Restore, Tick, vars
<1>. QED
  BY <1>1, <1>2, <1>3, <1>4, <1>5, <1>6, <1>7, <1>8, <1>9, <1>10, <1>11 DEF Next, Proceed

\* The overlap scan meets every reservation, also of a terminal record whose
\* evidence has gone.
LEMMA ScanLooks ==
    ASSUME IInv, RecordsNamed, NEW p \in Process, Scan(p), NEW l \in LeaseId, Reserved(p, l)
    PROVE  FALSE
<1>. DEFINE candidate == job[p].candidate
<1>1. /\ candidate \in Record /\ job[p].op \in {"acquire", "replace"}
      /\ l # candidate.lease_id /\ records[l] \in Record
  BY JobOfRunning DEF Scan, Job, Operation, Reserved, IInv, TypeOK
<1>2. HoldsResources(l)
  <2>1. records[l] # NoRecord
    BY DEF Reserved
  <2>2. ASSUME IsV2(records[l]), NEW k \in 1 .. records[l].generation, <<l, k>> \in revoked
        PROVE  ~TerminalRecordIsValid(records[l])
    <3>1. records[l].lease_id = l
      BY <2>1 DEF RecordsNamed
    <3>. QED
      BY <2>2, <3>1 DEF TerminalRecordIsValid, DecisionVerified
  <2>3. records[l].state # "RELEASED" \/ l \in torn \/ ~TerminalRecordIsValid(records[l])
    BY <2>2 DEF Reserved
  <2>. QED
    BY <2>1, <2>3 DEF HoldsResources
<1>3. ClaimsConflict(candidate.claim, records[l].claim)
  <2>1. candidate.claim \in ClaimDocument /\ records[l].claim \in ClaimDocument
    BY <1>1, ClaimAssumption DEF Record
  <2>2. DocumentedConflict(candidate.claim, records[l].claim)
    BY DEF Reserved
  <2>. QED
    BY <2>1, <2>2, OverlapFaithful
<1>4. CASE job[p].op = "acquire"
  <2>1. FindOverlaps(candidate, {}) = {}
    BY <1>4 DEF Scan
  <2>. QED
    BY <1>2, <1>3, <2>1 DEF FindOverlaps
<1>5. CASE job[p].op = "replace"
  <2>1. FindOverlaps(candidate, {candidate.lease_id}) = {}
    BY <1>5 DEF Scan
  <2>. QED
    BY <1>1, <1>2, <1>3, <2>1 DEF FindOverlaps
<1>. QED
  BY <1>1, <1>4, <1>5

\* acquire and replace verify their decision chain after the scan.
LEMMA VerifyLooks ==
    ASSUME IInv, NEW p \in Process, Verify(p), job[p].op # "release", EvidenceGone(p)
    PROVE  FALSE
<1>. DEFINE candidate == job[p].candidate
<1>1. candidate \in Record /\ job[p].op \in {"acquire", "replace"}
  BY JobOfRunning DEF Verify, Job, Operation
<1>2. job[p].op = "acquire" => candidate.generation = 1
  BY DEF IInv, JobConsistent, Verify
<1>3. Authorised(p, seen[p])
  BY DEF Verify
<1>4. CASE job[p].op = "acquire"
  <2>1. DecisionVerified(candidate.lease_id, 1)
    BY <1>3, <1>4 DEF Authorised
  <2>. QED
    BY <1>2, <1>4, <2>1 DEF DecisionVerified, EvidenceGone
<1>5. CASE job[p].op = "replace"
  <2>1. ReplacementAuthority(candidate, seen[p])
    BY <1>3, <1>5 DEF Authorised
  <2>. QED
    BY <2>1 DEF ReplacementAuthority, DecisionVerified, EvidenceGone
<1>. QED
  BY <1>1, <1>4, <1>5

\* before_publish looks at the clock and, for a release, at the evidence.
LEMMA StageLooks ==
    ASSUME IInv, DocumentInv, NEW p \in Process, Stage(p), pc[p] = "verified",
           WrongTime(p) \/ (job[p].op = "release" /\ EvidenceGone(p))
    PROVE  FALSE
<1>. DEFINE candidate == job[p].candidate
<1>1. candidate \in Record /\ job[p].op \in {"acquire", "release"}
  BY JobOfRunning DEF Job, Operation, WrongTime
<1>2. PublicationCheck(p) /\ pc[p] \in InFlight
  BY DEF Stage, InFlight
<1>3. CASE job[p].op = "acquire"
  <2>1. Unexpired(candidate)
    BY <1>2, <1>3 DEF PublicationCheck
  <2>2. clock \in Nat /\ candidate.expires \in Nat
    BY <1>1 DEF Record, IInv, TypeOK
  <2>. QED
    BY <1>3, <2>1, <2>2 DEF Unexpired, WrongTime
<1>4. CASE job[p].op = "release"
  <2>1. ReleaseAuthority(candidate, seen[p])
    BY <1>2, <1>4 DEF PublicationCheck
  <2>2. seen[p].claim = candidate.claim /\ seen[p].expires = candidate.expires
    BY <1>2, <1>4 DEF IInv, SeenCurrent, DocumentInv, Decided
  <2>3. IsV2(candidate) => IsV2(seen[p])
    BY <2>2 DEF IsV2
  <2>4. CASE WrongTime(p)
    BY <1>4, <2>1, <2>2, <2>3, <2>4 DEF ReleaseAuthority, RequiredAuthority, WrongTime
  <2>5. CASE EvidenceGone(p)
    BY <1>4, <2>1, <2>3, <2>5 DEF ReleaseAuthority, DecisionVerified, EvidenceGone
  <2>. QED
    BY <1>4, <2>4, <2>5
<1>. QED
  BY <1>1, <1>3, <1>4

\* What has stood all the time is still to be looked for.
StandingAhead == \A o \in standing : o \in Obstacle /\ Stands(o) /\ LookAhead(o)

LEMMA LooksInTime ==
    ASSUME IInv, DocumentInv, [Next]_vars, NEW o \in Obstacle,
           Stands(o), LookAhead(o), Stands(o)'
    PROVE  LookAhead(o)'
<1>. DEFINE p == o.process
<1>1. /\ p \in Process /\ o.kind \in {"lease", "evidence", "time"}
      /\ o.kind = "lease" => o.lease \in LeaseId
  BY DEF Obstacle
<1>2. pc[p] \in Looking /\ pc[p] \in Underway /\ pc'[p] \in Underway
  BY DEF LookAhead, Stands, Looking
<1>3. pc[p] # "idle" /\ pc'[p] # "idle"
  BY <1>2 DEF Looking, Underway, CriticalSection
<1>4. job'[p] = job[p]
  <2>1. ~Prepare(p)
    BY <1>3 DEF Prepare, PrepareAcquire, PrepareReplace, PrepareRelease, Draft
  <2>. QED
    BY <1>1, <1>3, <2>1, JobStays
<1>5. CASE pc'[p] = pc[p]
  BY <1>4, <1>5 DEF LookAhead
<1>6. CASE pc'[p] \in {"admitted", "examined", "guarded"}
  BY <1>6 DEF LookAhead
<1>7. CASE Scan(p)
  <2>1. pc[p] = "guarded" /\ pc'[p] = "scanned"
    BY <1>1, <1>7 DEF Scan, IInv, TypeOK
  <2>2. o.kind # "lease"
    BY <1>1, <1>7, ScanLooks DEF Stands, DocumentInv
  <2>. QED
    BY <2>1, <2>2 DEF LookAhead
<1>8. CASE Verify(p)
  <2>1. pc[p] = "scanned" /\ pc'[p] = "verified"
    BY <1>1, <1>8 DEF Verify, IInv, TypeOK
  <2>2. o.kind # "lease"
    BY <2>1 DEF LookAhead
  <2>3. o.kind = "evidence" => job[p].op = "release"
    BY <1>1, <1>8, VerifyLooks DEF Stands
  <2>. QED
    BY <1>1, <1>4, <2>1, <2>2, <2>3 DEF LookAhead
<1>9. CASE Archive(p)
  <2>1. pc[p] = "verified" /\ job[p].op = "replace"
    BY <1>9 DEF Archive
  <2>. QED
    BY <2>1 DEF LookAhead, Stands, WrongTime
<1>10. CASE Stage(p)
  <2>1. pc[p] = "verified"
    BY <1>2, <1>10 DEF Stage, Looking
  <2>2. o.kind = "time" \/ (o.kind = "evidence" /\ job[p].op = "release")
    BY <2>1 DEF LookAhead
  <2>3. WrongTime(p) \/ (job[p].op = "release" /\ EvidenceGone(p))
    BY <2>2 DEF Stands
  <2>. QED
    BY <1>1, <1>10, <2>1, <2>3, StageLooks
<1>. QED
  BY <1>1, <1>2, <1>5, <1>6, <1>7, <1>8, <1>9, <1>10, MovesOn

LEMMA StandingStep ==
    IInv /\ DocumentInv /\ StandingAhead /\ [TrackedNext]_<<vars, standing>> => StandingAhead'
<1>. SUFFICES ASSUME IInv, DocumentInv, StandingAhead, [TrackedNext]_<<vars, standing>>,
                     NEW o \in standing'
              PROVE  o \in Obstacle /\ Stands(o)' /\ LookAhead(o)'
  BY DEF StandingAhead
<1>1. CASE TrackedNext
  <2>1. /\ o \in Obstacle /\ Stands(o)' /\ [Next]_vars
        /\ o \in standing \/ LookAhead(o)'
    BY <1>1 DEF TrackedNext, Track
  <2>2. o \in standing => Stands(o) /\ LookAhead(o)
    BY DEF StandingAhead
  <2>. QED
    BY <2>1, <2>2, LooksInTime
<1>2. CASE UNCHANGED <<vars, standing>>
  <2>1. o \in Obstacle /\ Stands(o) /\ LookAhead(o)
    BY <1>2 DEF StandingAhead
  <2>. QED
    BY <1>2, <2>1 DEF vars, Stands, LookAhead, EvidenceGone, WrongTime, Reserved
<1>. QED
  BY <1>1, <1>2

\* acquire, replace, release: nothing is published over an obstacle that stood
\* since before the last look for it, for any number of processes and leases,
\* however often evidence goes and comes back.
THEOREM PublishedUnobstructed == TrackedSpec => NothingStoodInTheWay
<1>. DEFINE Clear == records' # records => \A o \in standing : o.process # mutex
<1>1. TrackedSpec => Spec
  <2>1. TrackedInit => Init
    BY DEF TrackedInit
  <2>2. [TrackedNext]_<<vars, standing>> => [Next]_vars
    BY DEF TrackedNext
  <2>. QED
    BY <2>1, <2>2, PTL DEF TrackedSpec, Spec
<1>2. TrackedInit => StandingAhead
  BY DEF TrackedInit, StandingAhead
<1>3. IInv /\ StandingAhead /\ [TrackedNext]_<<vars, standing>> => Clear
  <2>. SUFFICES ASSUME IInv, StandingAhead, [Next]_vars, records' # records,
                       NEW o \in standing, o.process = mutex
                PROVE  FALSE
    BY DEF TrackedNext
  <2>1. PICK p \in Process : Publish(p)
    BY RecordsChange
  <2>2. mutex = p /\ pc[p] = "staged"
    BY <2>1, PublicationFacts DEF Publish
  <2>. QED
    BY <2>2 DEF StandingAhead, LookAhead
<1>4. LineageInv => DocumentInv
  BY DEF LineageInv
<1>5. Spec => [](IInv /\ DocumentInv)
  BY <1>4, InitIInv, NextIInv, InitLineageInv, NextLineageInv, PTL DEF Spec
<1>6. IInv /\ StandingAhead /\ [TrackedNext]_<<vars, standing>> => [Clear]_<<vars, standing>>
  BY <1>3
<1>. HIDE DEF Clear
<1>7. TrackedSpec => [][Clear]_<<vars, standing>>
  BY <1>1, <1>2, <1>5, <1>6, StandingStep, PTL DEF TrackedSpec
<1>. QED
  BY <1>7 DEF NothingStoodInTheWay, Clear

-----------------------------------------------------------------------------
(* An admission ends: inside the mutex every step of a process leaves it   *)
(* fewer steps to take, and no step of another process adds any.           *)

InSection(p) == pc[p] \in CriticalSection

\* How many more steps a process inside the mutex can take at most.
StepsLeft ==
    [label \in CriticalSection |->
        IF label = "admitted" THEN 11
        ELSE IF label = "examined" THEN 10
        ELSE IF label = "guarded" THEN 9
        ELSE IF label = "scanned" THEN 8
        ELSE IF label = "verified" THEN 7
        ELSE IF label = "archiving" THEN 6
        ELSE IF label = "archived" THEN 5
        ELSE IF label = "staged" THEN 4
        ELSE IF label = "linked" THEN 3
        ELSE IF label = "leaving" THEN 2
        ELSE 1]
Within(p, k) == InSection(p) /\ StepsLeft[pc[p]] <= k

LEMMA StepsLeftRange == \A label \in CriticalSection : StepsLeft[label] \in 1 .. 11
BY DEF StepsLeft, CriticalSection

\* A process that leaves the mutex or goes on is nearer to its end.
LEMMA ProceedAdvances ==
    ASSUME TypeOK, NEW p \in Process, InSection(p), Proceed(p)
    PROVE  InSection(p)' => StepsLeft[pc'[p]] < StepsLeft[pc[p]]
<1>1. ASSUME NEW from \in CriticalSection, NEW to \in CriticalSection
      PROVE  /\ from \notin {"leaving", "unguarded"} /\ to = "leaving" =>
                   StepsLeft[to] < StepsLeft[from]
             /\ <<from, to>> \in
                   {<<"admitted", "examined">>, <<"examined", "guarded">>,
                    <<"guarded", "scanned">>, <<"scanned", "verified">>,
                    <<"verified", "archiving">>, <<"verified", "archived">>,
                    <<"archiving", "archived">>, <<"verified", "staged">>,
                    <<"archived", "staged">>, <<"staged", "linked">>,
                    <<"leaving", "unguarded">>} => StepsLeft[to] < StepsLeft[from]
  BY DEF StepsLeft, CriticalSection
<1>2. SUFFICES ASSUME InSection(p)' PROVE StepsLeft[pc'[p]] < StepsLeft[pc[p]]
  OBVIOUS
<1>3. pc \in [Process -> PC]
  BY DEF TypeOK
<1>4. CASE Enter(p) \/ Refused(p) \/ Exit(p)
  BY <1>2, <1>3, <1>4 DEF Enter, Refused, Exit, Goto, InSection, CriticalSection
<1>5. CASE Examine(p) \/ Guard(p) \/ Scan(p) \/ Verify(p)
  <2>1. <<pc[p], pc'[p]>> \in {<<"admitted", "examined">>, <<"examined", "guarded">>,
                               <<"guarded", "scanned">>, <<"scanned", "verified">>}
    BY <1>3, <1>5 DEF Examine, Guard, Scan, Verify, Goto
  <2>. QED
    BY <1>1, <1>2, <2>1 DEF InSection
<1>6. CASE Archive(p) \/ SettleArchive(p) \/ Stage(p)
  <2>1. <<pc[p], pc'[p]>> \in {<<"verified", "archiving">>, <<"verified", "archived">>,
                               <<"archiving", "archived">>, <<"verified", "staged">>,
                               <<"archived", "staged">>}
    BY <1>3, <1>6 DEF Archive, SettleArchive, Stage, Goto
  <2>. QED
    BY <1>1, <1>2, <2>1 DEF InSection
<1>7. CASE Publish(p) \/ Settle(p) \/ Abort(p) \/ Unguard(p)
  <2>1. \/ <<pc[p], pc'[p]>> \in {<<"staged", "linked">>, <<"leaving", "unguarded">>}
        \/ pc[p] \notin {"leaving", "unguarded"} /\ pc'[p] = "leaving"
    BY <1>3, <1>7 DEF Publish, Settle, Abort, Unguard, Goto
  <2>. QED
    BY <1>1, <1>2, <2>1 DEF InSection
<1>. QED
  BY <1>4, <1>5, <1>6, <1>7 DEF Proceed

\* Nobody else moves a process, except that it may die.
LEMMA OthersLeave ==
    ASSUME TypeOK, [Next]_vars, NEW p \in Process, InSection(p), ~Proceed(p), InSection(p)'
    PROVE  pc'[p] = pc[p]
<1>1. pc \in [Process -> PC]
  BY DEF TypeOK
<1>2. CASE \E q \in Process : Proceed(q)
  <2>1. PICK q \in Process : Proceed(q) /\ q # p
    BY <1>2
  <2>2. \E label : Goto(q, label)
    BY <2>1 DEF Proceed, Enter, Refused, Examine, Guard, Scan, Verify, Archive, SettleArchive,
       Stage, Publish, Settle, Abort, Unguard, Exit
  <2>. QED
    BY <1>1, <2>1, <2>2 DEF Goto
<1>3. CASE \E q \in Process : Prepare(q)
  BY <1>1, <1>3 DEF Prepare, PrepareAcquire, PrepareReplace, PrepareRelease, Draft, Goto,
     InSection, CriticalSection
<1>4. CASE \E q \in Process : Crash(q)
  BY <1>1, <1>4 DEF Crash, Goto, InSection, CriticalSection
<1>5. CASE ClearMutex \/ ClearGitLocks \/ Revoke \/ Restore \/ Tick \/ UNCHANGED vars
  BY <1>5 DEF ClearMutex, ClearGitLocks, Revoke, Restore, Tick, vars, control
<1>. QED
  BY <1>2, <1>3, <1>4, <1>5 DEF Next

\* One step of the countdown.
LEMMA Countdown ==
    ASSUME NEW p \in Process, NEW k \in Nat, NEW m \in Nat, m = k + 1
    PROVE  TypeOK /\ Within(p, m) /\ [Next]_vars =>
               /\ Within(p, m)' \/ ~InSection(p)'
               /\ <<Proceed(p)>>_vars => Within(p, k)' \/ ~InSection(p)'
<1>. SUFFICES ASSUME TypeOK, Within(p, m), [Next]_vars, InSection(p)'
              PROVE  Within(p, m)' /\ (<<Proceed(p)>>_vars => Within(p, k)')
  OBVIOUS
<1>1. /\ InSection(p) /\ StepsLeft[pc[p]] <= m
      /\ StepsLeft[pc[p]] \in 1 .. 11 /\ StepsLeft[pc'[p]] \in 1 .. 11
  BY StepsLeftRange DEF Within, InSection
<1>2. CASE Proceed(p)
  <2>1. StepsLeft[pc'[p]] < StepsLeft[pc[p]]
    BY <1>1, <1>2, ProceedAdvances
  <2>2. StepsLeft[pc'[p]] <= m /\ StepsLeft[pc'[p]] <= k
    BY <1>1, <2>1
  <2>. QED
    BY <2>2 DEF Within
<1>3. CASE ~Proceed(p)
  <2>1. pc'[p] = pc[p]
    BY <1>1, <1>3, OthersLeave
  <2>. QED
    BY <1>1, <1>3, <2>1 DEF Within
<1>. QED
  BY <1>2, <1>3

CanProceed(p) == InSection(p) => ENABLED <<Proceed(p)>>_vars

\* Eleven steps at most: each is taken because it can be, and none comes back.
LEMMA SectionEnds ==
    ASSUME NEW p \in Process
    PROVE  Spec /\ KeepsRunning(p) /\ []CanProceed(p) => (InSection(p) ~> ~InSection(p))
<1>1. TypeOK /\ Within(p, 1) /\ [Next]_vars =>
          /\ Within(p, 1)' \/ ~InSection(p)'
          /\ <<Proceed(p)>>_vars => Within(p, 0)' \/ ~InSection(p)'
  BY Countdown
<1>2. TypeOK /\ Within(p, 2) /\ [Next]_vars =>
          /\ Within(p, 2)' \/ ~InSection(p)'
          /\ <<Proceed(p)>>_vars => Within(p, 1)' \/ ~InSection(p)'
  BY Countdown
<1>3. TypeOK /\ Within(p, 3) /\ [Next]_vars =>
          /\ Within(p, 3)' \/ ~InSection(p)'
          /\ <<Proceed(p)>>_vars => Within(p, 2)' \/ ~InSection(p)'
  BY Countdown
<1>4. TypeOK /\ Within(p, 4) /\ [Next]_vars =>
          /\ Within(p, 4)' \/ ~InSection(p)'
          /\ <<Proceed(p)>>_vars => Within(p, 3)' \/ ~InSection(p)'
  BY Countdown
<1>5. TypeOK /\ Within(p, 5) /\ [Next]_vars =>
          /\ Within(p, 5)' \/ ~InSection(p)'
          /\ <<Proceed(p)>>_vars => Within(p, 4)' \/ ~InSection(p)'
  BY Countdown
<1>6. TypeOK /\ Within(p, 6) /\ [Next]_vars =>
          /\ Within(p, 6)' \/ ~InSection(p)'
          /\ <<Proceed(p)>>_vars => Within(p, 5)' \/ ~InSection(p)'
  BY Countdown
<1>7. TypeOK /\ Within(p, 7) /\ [Next]_vars =>
          /\ Within(p, 7)' \/ ~InSection(p)'
          /\ <<Proceed(p)>>_vars => Within(p, 6)' \/ ~InSection(p)'
  BY Countdown
<1>8. TypeOK /\ Within(p, 8) /\ [Next]_vars =>
          /\ Within(p, 8)' \/ ~InSection(p)'
          /\ <<Proceed(p)>>_vars => Within(p, 7)' \/ ~InSection(p)'
  BY Countdown
<1>9. TypeOK /\ Within(p, 9) /\ [Next]_vars =>
          /\ Within(p, 9)' \/ ~InSection(p)'
          /\ <<Proceed(p)>>_vars => Within(p, 8)' \/ ~InSection(p)'
  BY Countdown
<1>10. TypeOK /\ Within(p, 10) /\ [Next]_vars =>
          /\ Within(p, 10)' \/ ~InSection(p)'
          /\ <<Proceed(p)>>_vars => Within(p, 9)' \/ ~InSection(p)'
  BY Countdown
<1>11. TypeOK /\ Within(p, 11) /\ [Next]_vars =>
          /\ Within(p, 11)' \/ ~InSection(p)'
          /\ <<Proceed(p)>>_vars => Within(p, 10)' \/ ~InSection(p)'
  BY Countdown
<1>12. TypeOK => (InSection(p) => Within(p, 11)) /\ ~Within(p, 0)
  BY StepsLeftRange DEF Within, InSection
<1>. QED
  BY <1>1, <1>2, <1>3, <1>4, <1>5, <1>6, <1>7, <1>8, <1>9, <1>10, <1>11, <1>12, TypeCorrect, PTL
     DEF Spec, KeepsRunning, CanProceed

\* An admission ends, for any number of processes that keep running: from
\* NeverStuck, which holds by the guards (Abort has no further condition, Unguard
\* and Exit have none) but speaks of ENABLED, which is beyond the prover.
NeverStuck == \A p \in Process : CanProceed(p)
THEOREM AdmissionsEnd == FairSpec /\ []NeverStuck => AdmissionEnds
<1>1. ASSUME NEW p \in Process
      PROVE  Spec /\ KeepsRunning(p) /\ []NeverStuck =>
                 []<>(pc[p] \notin CriticalSection)
  <2>1. NeverStuck => CanProceed(p)
    BY DEF NeverStuck
  <2>2. Spec /\ KeepsRunning(p) /\ []CanProceed(p) => (InSection(p) ~> ~InSection(p))
    BY SectionEnds
  <2>3. /\ InSection(p) <=> pc[p] \in CriticalSection
        /\ ~InSection(p) <=> pc[p] \notin CriticalSection
    BY DEF InSection
  <2>. QED
    BY <2>1, <2>2, <2>3, PTL
<1>. QED
  BY <1>1 DEF FairSpec, AdmissionEnds
=============================================================================
