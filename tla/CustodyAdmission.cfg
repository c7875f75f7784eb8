CONSTANTS
    product = product
    mailbox = mailbox
    p1 = p1
    p2 = p2
    l1 = l1
    l2 = l2
    Process = {p1, p2}
    LeaseId = {l1, l2}
    Repository <- MCRepository
    Path = {}
    Branch = {}
    Infrastructure = {}
    NoBranch = NoBranch
    Claim <- MCClaimPair
    Expiry = {0}
    MaxGeneration = 2
    Horizon = 1
    RevocationBound = 1
    NoRecord = NoRecord
    NoJob = NoJob
    NoClaim = NoClaim
    Free = Free
    Orphan = Orphan
SPECIFICATION TrackedSpec
INVARIANTS
    ActiveClaimsDisjoint
    AdmissionSerialised
    TerminalAuthorityTruthful
PROPERTIES
    PublishedUnderLocks
    ImplementsContract
    NothingStoodInTheWay
SYMMETRY Symmetry
