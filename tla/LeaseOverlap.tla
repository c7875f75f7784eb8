---------------------------- MODULE LeaseOverlap ----------------------------
(***************************************************************************)
(* The resource algebra of leases.py: which resources a repository-set     *)
(* lease document claims, in which mode, and when the claims of two leases *)
(* conflict.  A claim keeps the resource-bearing fields of a lease; names  *)
(* are already canonical (casefolded repositories, absolute paths), and a  *)
(* path is the sequence of its components.                                 *)
(***************************************************************************)
EXTENDS Naturals, Sequences, FiniteSets

CONSTANTS
    \* Repository identities, as canonical_repo_v2 returns them.
    Repository,
    \* Canonical absolute paths: sequences of path components.
    Path,
    \* Branch refs.
    Branch,
    \* Infrastructure scope strings.
    Infrastructure,
    \* branch_ref = null.
    NoBranch

ASSUME PathAssumption == Path \subseteq Seq(STRING)

Schema == {"v1", "v2"}
Mode == {"READ", "WRITE"}

\* One item of a lease's "repositories" list.  "paths" holds the item's
\* canonical_path and worktree_root, those that are not null.
RepositoryItem ==
    [repository : Repository, mode : Mode, paths : SUBSET Path,
     branch_ref : Branch \union {NoBranch}]

\* The resource-bearing part of a lease document.
ClaimDocument ==
    [schema : Schema,
     repositories : SUBSET RepositoryItem,
     local_scopes : SUBSET Path,
     infrastructure_scopes : SUBSET Infrastructure,
     coordination_repository : Repository]

-----------------------------------------------------------------------------
(* Access maps: resource identity -> mode, WRITE absorbing READ.           *)

OnlyTwoWritersExcluded(left, right) == left = "WRITE" /\ right = "WRITE"
AccessConflicts(left, right) == left = "WRITE" \/ right = "WRITE"

MergeAccess(entries) ==
    [id \in {e[1] : e \in entries} |->
        IF <<id, "WRITE">> \in entries THEN "WRITE" ELSE "READ"]

\* Only v2 distinguishes READ from WRITE: every v1 claim is exclusive.
EffectiveMode(c, mode) == IF c.schema = "v2" THEN mode ELSE "WRITE"

RepositoryAccess(c) ==
    MergeAccess({<<r.repository, EffectiveMode(c, r.mode)>> : r \in c.repositories})

BranchAccess(c) ==
    MergeAccess({<<<<r.repository, r.branch_ref>>, EffectiveMode(c, r.mode)>> :
                    r \in {i \in c.repositories : i.branch_ref # NoBranch}})

PathAccess(c) ==
    MergeAccess(
        (UNION {{<<p, EffectiveMode(c, r.mode)>> : p \in r.paths} : r \in c.repositories})
        \union {<<p, "WRITE">> : p \in c.local_scopes})

InfrastructureAccess(c) == MergeAccess({<<i, "WRITE">> : i \in c.infrastructure_scopes})

\* The coordination repository is observed (READ) by every v2 lease, and takes
\* the mode of its own repositories entry when it has one.
CoordinationMode(c) ==
    CASE c.schema = "v1" -> "WRITE"
      [] c.schema = "v2" /\ c.coordination_repository \in DOMAIN RepositoryAccess(c) ->
            RepositoryAccess(c)[c.coordination_repository]
      [] OTHER -> "READ"

RepositoriesAlone(c) == RepositoryAccess(c)
CombinedRepositoryAccess(c) ==
    MergeAccess({<<id, RepositoryAccess(c)[id]>> : id \in DOMAIN RepositoryAccess(c)}
                \union {<<c.coordination_repository, CoordinationMode(c)>>})

-----------------------------------------------------------------------------
(* Overlap between two claims.                                             *)

IsPathPrefix(p, q) == Len(p) <= Len(q) /\ SubSeq(q, 1, Len(p)) = p

PathsOverlap(left, right) == IsPathPrefix(left, right) \/ IsPathPrefix(right, left)

MapsConflict(left, right) ==
    \E id \in DOMAIN left \intersect DOMAIN right : AccessConflicts(left[id], right[id])

PathsConflict(left, right) ==
    \E p \in DOMAIN left, q \in DOMAIN right :
        PathsOverlap(p, q) /\ AccessConflicts(left[p], right[q])

\* find_overlaps for two records with different lease ids reports something.
ClaimsConflict(c, d) ==
    \/ MapsConflict(CombinedRepositoryAccess(c), CombinedRepositoryAccess(d))
    \/ MapsConflict(BranchAccess(c), BranchAccess(d))
    \/ MapsConflict(InfrastructureAccess(c), InfrastructureAccess(d))
    \/ PathsConflict(PathAccess(c), PathAccess(d))

-----------------------------------------------------------------------------
(* What the validators demand of a claim.                                  *)

Writers(c) == {r.repository : r \in {i \in c.repositories : i.mode = "WRITE"}}

\* Repositories are unique and at most one of them is WRITE.
WellFormedClaim(c) ==
    /\ c.repositories # {}
    /\ \A r, s \in c.repositories : r.repository = s.repository => r = s
    /\ \A a, b \in Writers(c) : a = b

CoordinationListed(c) ==
    \E r \in c.repositories : r.repository = c.coordination_repository

IsCoordinationSelfWrite(c) == c.coordination_repository \in Writers(c)

\* acquire: _validate_lease without the coordination exception.
AcquirableClaim(c) == WellFormedClaim(c) /\ ~CoordinationListed(c)

\* replace and release: the coordination repository may be listed only as the
\* sole WRITE repository.
ReplaceableClaim(c) ==
    WellFormedClaim(c) /\ (CoordinationListed(c) => IsCoordinationSelfWrite(c))

-----------------------------------------------------------------------------
(* What the documents say a conflict is: a claim stands for accesses to    *)
(* single things (a repository, a branch, a scope, every file below a      *)
(* path), and two claims conflict iff they access one same thing and one   *)
(* of the two accesses excludes the other.                                 *)

Below(p) == {q \in Path : Len(p) <= Len(q) /\ \A i \in 1 .. Len(p) : q[i] = p[i]}

Access(kind, of, mode) == [kind |-> kind, of |-> of, mode |-> mode]

RepositoryUses(c) ==
    {Access("repository", <<r.repository>>, r.mode) : r \in c.repositories}
    \union {Access("repository", <<c.coordination_repository>>, "READ")}

BranchUses(c) ==
    {Access("branch", <<r.repository, r.branch_ref>>, r.mode) :
        r \in {i \in c.repositories : i.branch_ref # NoBranch}}

FileUses(c) ==
    {a \in [kind : {"file"}, of : Path, mode : Mode] :
        \/ \E r \in c.repositories : a.mode = r.mode /\ \E p \in r.paths : a.of \in Below(p)
        \/ a.mode = "WRITE" /\ \E p \in c.local_scopes : a.of \in Below(p)}

InfrastructureUses(c) == {Access("infrastructure", <<i>>, "WRITE") : i \in c.infrastructure_scopes}

Uses(c) == RepositoryUses(c) \union BranchUses(c) \union FileUses(c) \union InfrastructureUses(c)

\* A historical v1 lease is exclusive in everything it names.
Excludes(c, a) == c.schema = "v1" \/ a.mode = "WRITE"

DocumentedConflict(c, d) ==
    \E a \in Uses(c), b \in Uses(d) :
        a.kind = b.kind /\ a.of = b.of /\ (Excludes(c, a) \/ Excludes(d, b))
=============================================================================
