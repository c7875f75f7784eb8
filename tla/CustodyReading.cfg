CONSTANTS
    product = product
    mailbox = mailbox
    p1 = p1
    p2 = p2
    l1 = l1

    Process = {p1}
    LeaseId = {l1}
    Repository <- MCRepository
    Path = {}
    Branch = {}
    Infrastructure = {}
    NoBranch = NoBranch
    Claim <- MCClaim
    Expiry = {0}
    MaxGeneration = 2
    Horizon = 1
    RevocationBound = 1
    NoRecord = NoRecord
    NoJob = NoJob
    Subject = l1
    NoPoint = NoPoint
    NoClaim = NoClaim
    Free = Free
    Orphan = Orphan
SPECIFICATION ReadingSpec
INVARIANTS
    AcceptedWasTrue
