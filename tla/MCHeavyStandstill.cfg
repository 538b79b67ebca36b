CONSTANTS
    p1 = p1
    p2 = p2
    w1 = w1
    Payload <- MCPayload
    Critical <- MCCritical
    Worker <- MCWorker
    MaxDepth = 3
    MaxConcurrent = 1
    MaxGlobalQueued = 2
    LeaseTimeout = 1
    MaxTime = 2
    MaxLeases = 3
    PeerBound = 0
SPECIFICATION FairSpec
PROPERTY
    ExpiredLeaseSettled
