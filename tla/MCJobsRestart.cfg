CONSTANTS
    j1 = j1
    w1 = w1
    w2 = w2
    Api = Api
    NoWorker = NoWorker
    Job <- MCJob
    Worker <- MCWorker
    Started <- MCFirstOnly
    MaxDepth = 2
    MaxConcurrent = 1
    MaxGlobalQueued = 2
    LeaseTimeout = 1
    PromoteLimit = 1
    MaxAttempts = 2
    RetryDelay = 1
    RenewInterval = 1
    Slots = 1
    MaxTime = 1
    MaxLeases = 2
    MaxReaped = 1
    MaxReads = 0
    MaxDisturbances = 2
SPECIFICATION Spec
PROPERTY
    EachPartSpec
CHECK_DEADLOCK FALSE
