CONSTANTS
    app = app
    lib = lib
    mailbox = mailbox
    main = main
    gpu = gpu
    NothingYet = NothingYet
    NoBranch = NoBranch
    Repository = {app, lib, mailbox}
    Path <- CheckPath
    ComparedClaim <- CheckClaims
    Branch = {main}
    Infrastructure = {gpu}
SPECIFICATION Comparison
INVARIANTS
    OverlapExact
    SelfWriteExcludesParticipants
CHECK_DEADLOCK FALSE
