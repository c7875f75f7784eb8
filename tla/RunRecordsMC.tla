---------------------------- MODULE RunRecordsMC ----------------------------
(* Small instance of RunRecords.                                           *)
EXTENDS RunRecords, TLC

CONSTANTS k1, k2, k3, request_json, request_md, manifest_json, t1, t2

MCCreated == <<request_json, request_md, manifest_json>>
MCCompanions == {<<request_json, request_md>>, <<Record, Report>>}
MCListingPlace ==
    request_json :> 1 @@ request_md :> 2 @@ manifest_json :> 3 @@ Record :> 4 @@ Report :> 5
MCNamePlace ==
    Record :> 1 @@ Report :> 2 @@ manifest_json :> 3 @@ request_json :> 4 @@ request_md :> 5
Symmetry == Permutations(Call) \union Permutations(Text)
=============================================================================
