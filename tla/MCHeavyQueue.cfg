CONSTANTS
    p1 = p1
    p2 = p2
    w1 = w1
    Payload <- MCPayload
    Critical <- MCCritical
    Worker <- MCWorker
    MaxDepth = 2
    MaxConcurrent = 2
    MaxGlobalQueued = 1
    LeaseTimeout = 1
    MaxTime = 2
    MaxLeases = 3
    PeerBound = 0
SPECIFICATION FairSpec
INVARIANTS
    TypeOK
    LeasesMatchProcessing
    DepthWithinLimit
PROPERTIES
    LostOnlyByAck
    ExpiredLeaseSettled
