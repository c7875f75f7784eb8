---------------------------- MODULE McpFacadeMC ----------------------------
(* Small instance of McpFacade: two servers with a staging root each.      *)
EXTENDS McpFacade, TLC

CONSTANTS product, mailbox, f1, f2, l1, s1, s2

Item(r, m) == [repository |-> r, mode |-> m, paths |-> {}, branch_ref |-> NoBranch]
ClaimOf(schema, items) ==
    [schema |-> schema, repositories |-> items, local_scopes |-> {},
     infrastructure_scopes |-> {}, coordination_repository |-> mailbox]

MCRepository == {product, mailbox}
MCClaim == {ClaimOf("v2", {Item(product, "WRITE")}), ClaimOf("v1", {Item(product, "READ")})}
MCStagingOf == f1 :> s1 @@ f2 :> s2
=============================================================================
