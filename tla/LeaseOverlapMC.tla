--------------------------- MODULE LeaseOverlapMC ---------------------------
(* Pairs of claims that mix schemas, modes, nested paths, branches and scopes. *)
EXTENDS LeaseOverlapCheck

CONSTANTS app, lib, mailbox, main, gpu

CheckPath == {<<"w">>, <<"w", "a">>, <<"w", "b">>}

Items ==
    [repository : {app, lib}, mode : Mode, paths : {{}, {<<"w">>}, {<<"w", "a">>}},
     branch_ref : {NoBranch}]
    \union
    [repository : {app}, mode : Mode, paths : {{<<"w", "b">>}}, branch_ref : {main}]

\* One repository item, or a read of lib beside one item.
ItemSets ==
    {{i} : i \in Items}
    \union {{i, [repository |-> lib, mode |-> "READ", paths |-> {}, branch_ref |-> NoBranch]} :
               i \in {j \in Items : j.repository = app}}

CheckClaims ==
    {c \in [schema : Schema, repositories : ItemSets,
            local_scopes : {{}, {<<"w", "b">>}}, infrastructure_scopes : {{}, {gpu}},
            coordination_repository : {lib, mailbox}] :
        WellFormedClaim(c)}
=============================================================================
