CONSTANTS
    j1 = j1
    p1 = p1
    p2 = p2
    w1 = w1
    Payload <- MCPayload
    Critical <- MCCritical
    Worker <- MCWorker
    Job <- MCJob
    JobOf <- MCJobOf
    MaxDepth = 2
    MaxConcurrent = 2
    MaxGlobalQueued = 2
    LeaseTimeout = 1
    MaxTime = 2
    DueTime = {0, 1, 2}
    MaxLeases = 2
    PeerBound = 0
    PromoteLimit = 2
SPECIFICATION Spec
INVARIANTS
    TypeOK
    ProcessingRecoverable
    DepthBounded
PROPERTY
    LeaseIdentity
