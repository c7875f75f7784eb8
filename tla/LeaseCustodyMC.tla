--------------------------- MODULE LeaseCustodyMC ---------------------------
(* Small instance of LeaseCustody: one repository that claims compete for, *)
(* and the coordination repository.                                        *)
EXTENDS LeaseCustody, TLC

CONSTANTS product, mailbox, p1, p2, l1, l2

Item(r, m) == [repository |-> r, mode |-> m, paths |-> {}, branch_ref |-> NoBranch]
ClaimOf(schema, items) ==
    [schema |-> schema, repositories |-> items, local_scopes |-> {},
     infrastructure_scopes |-> {}, coordination_repository |-> mailbox]

WriteClaim == ClaimOf("v2", {Item(product, "WRITE")})
ReadClaim == ClaimOf("v2", {Item(product, "READ")})
SelfWriteClaim == ClaimOf("v2", {Item(mailbox, "WRITE")})

MCRepository == {product, mailbox}
MCClaim == {WriteClaim, ReadClaim}
\* A reader, and a writer of the coordination repository.
MCClaimPair == {ReadClaim, SelfWriteClaim}

Symmetry == Permutations(Process) \union Permutations(LeaseId)
=============================================================================
