CONSTANTS
    product = product
    mailbox = mailbox
    f1 = f1
    f2 = f2
    l1 = l1
    s1 = s1
    s2 = s2
    Facade = {f1, f2}
    StagingRoot = {s1, s2}
    StagingOf <- MCStagingOf
    LeaseId = {l1}
    Repository <- MCRepository
    Path = {}
    Branch = {}
    Infrastructure = {}
    NoBranch = NoBranch
    Claim <- MCClaim
    MaxGeneration = 2
    Nothing = Nothing
    Free = Free
    Orphan = Orphan
SPECIFICATION FacadeSpec
INVARIANTS
    MutationFenced
PROPERTIES
    RefusedChangedNothing
    ConfirmedWasPublished
    UnresolvedKept
