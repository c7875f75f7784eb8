CONSTANTS
    k1 = k1
    k2 = k2
    k3 = k3
    Call = {k1, k2, k3}
    request_json = request_json
    request_md = request_md
    manifest_json = manifest_json
    Last = 3
    Created <- MCCreated
    Exclusive = {request_json, manifest_json}
    Report = Report
    Record = Record
    Companions <- MCCompanions
    ListingPlace <- MCListingPlace
    NamePlace <- MCNamePlace
    t1 = t1
    t2 = t2
    Text = {t1, t2}
    MaxEdits = 2
    Human = Human
    Nothing = Nothing
SPECIFICATION Spec
INVARIANTS
    WholeRun
    AuditStands
PROPERTIES
    VerifiedWasWhole
SYMMETRY Symmetry
CHECK_DEADLOCK FALSE
