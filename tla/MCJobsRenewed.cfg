CONSTANTS
    j1 = j1
    w1 = w1
    w2 = w2
    Api = Api
    NoWorker = NoWorker
    Job <- MCJob
    Worker <- MCWorker
    Started <- MCBoth
    MaxDepth = 2
    MaxConcurrent = 2
    MaxGlobalQueued = 2
    LeaseTimeout = 1
    PromoteLimit = 1
    MaxAttempts = 2
    RetryDelay = 1
    RenewInterval = 1
    Slots = 1
    MaxTime = 2
    MaxLeases = 2
    MaxReaped = 1
    MaxReads = 0
    MaxDisturbances = 0
SPECIFICATION Spec
PROPERTY
    RenewedLeasesAreKept
CHECK_DEADLOCK FALSE
