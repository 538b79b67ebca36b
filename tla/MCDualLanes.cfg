CONSTANTS
    j1 = j1
    p1 = p1
    h1 = h1
    w1 = w1
    Payload <- MCPayload
    Critical <- MCNone
    HeavyPayload <- MCHeavyPayload
    HeavyCritical <- MCNone
    Worker <- MCWorker
    Job <- MCJob
    JobOf <- MCJobOf
    MaxDepth = 2
    HeavyMaxDepth = 2
    MaxConcurrent = 1
    MaxGlobalQueued = 2
    LeaseTimeout = 1
    MaxTime = 2
    DueTime = {0, 1, 2}
    MaxLeases = 1
    HeavyMaxLeases = 1
    PeerBound = 2
    PromoteLimit = 2
SPECIFICATION Spec
INVARIANTS
    LimitsShared

    
