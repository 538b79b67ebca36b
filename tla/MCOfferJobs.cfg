CONSTANTS
    o1 = o1
    w1 = w1
    w2 = w2
    Offer <- MCOffer
    Worker <- MCWorker
    Asked <- MCAsked
    Actual <- MCActual
    MaxAttempts = 2
    MaxRetries = 2
    MaxDepth = 1
    MaxConcurrent = 3
    Estimate = 2
    Limit = 5
SPECIFICATION Spec
INVARIANTS
    TypeOK
    OneTicket
    OfferTellsItsJob
    SpendIsCounted
PROPERTIES
    EndedJobsStayEnded
    RunningEnds
    ReservationsSettle
CHECK_DEADLOCK FALSE
