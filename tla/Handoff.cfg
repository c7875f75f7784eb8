CONSTANTS
    i1 = i1
    i2 = i2
    Issuer = {i1, i2}
    IoWait = 1
    FrameWait = 3
    Lifetime = 3
    NoServer = NoServer
SPECIFICATION FairSpec
INVARIANTS
    SingleAttempt
    StagesAgree
    HoldStopsSession
    ClaimNeverStuck
PROPERTIES
    PassedOnFreshEvidence
    ClaimEnds
    ImplementsHandoffContract
