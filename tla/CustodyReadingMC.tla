-------------------------- MODULE CustodyReadingMC --------------------------
(* Small instance of CustodyReading.                                       *)
EXTENDS CustodyReading, TLC

CONSTANTS product, mailbox, p1, p2, l1

Item(r, m) == [repository |-> r, mode |-> m, paths |-> {}, branch_ref |-> NoBranch]
ClaimOf(schema, items) ==
    [schema |-> schema, repositories |-> items, local_scopes |-> {},
     infrastructure_scopes |-> {}, coordination_repository |-> mailbox]

MCRepository == {product, mailbox}
\* A writer, and a historical claim.
MCClaim == {ClaimOf("v2", {Item(product, "WRITE")}), ClaimOf("v1", {Item(product, "READ")})}

Symmetry == Permutations(Process)
=============================================================================
