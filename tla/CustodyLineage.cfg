CONSTANTS
    product = product
    mailbox = mailbox
    p1 = p1
    p2 = p2
    l1 = l1
    l2 = l2
    Process = {p1, p2}
    LeaseId = {l1}
    Repository <- MCRepository
    Path = {}
    Branch = {}
    Infrastructure = {}
    NoBranch = NoBranch
    Claim <- MCClaim
    Expiry = {0}
    MaxGeneration = 3
    Horizon = 1
    RevocationBound = 1
    NoRecord = NoRecord
    NoJob = NoJob
    NoClaim = NoClaim
    Free = Free
    Orphan = Orphan
SPECIFICATION FairSpec
INVARIANTS
    TypeOK
    LineageConnected
PROPERTIES
    GenerationFence
    ArchiveImmutable
    AdmissionEnds
