CONSTANTS
    m1 = m1
    m2 = m2
    k1 = k1
    k2 = k2
    Manager <- MCManager
    Worker <- MCWorker
    Begun <- MCBegun
    MaxMoves = 2
    MaxFaults = 1
    Event = {e1, e2, e3}
    Publisher = {p1, p2}
    Client = {c1}
    BatchSize = 2
    ReplayLimit = 1
    MaxSlips = 1
    Reader = {r1, r2}
    Editor = {d1, d2}
    MaxVersion = 3
    MaxErrors = 1
    Session = {s1, s2}
    Handler = {h1, h2}
    MaxCalls = 4
    Parameter = {q1, q2}
    Clerk = {c1, c2}
    Required = {q1}
    HasDefault = {q2}
    Extractable = {q1}
    Overridable = {q1}
    MaxSaves = 3
    Key = {o1}
    MinAge = 3
    MaxGap = 1
    MaxScan = 1
    MaxClock = 5
    Export = {x1}
    Photo = {f1}
    MaxItems = 1
    MaxStarts = 1
    MaxHeavyFaults = 2
    Schemas <- WORK_TYPE_PARAMETER_SCHEMAS
    Profiles <- PROFILE_BLUEPRINTS
    Amounts = {2, 6}
    Books <- MCBooks
    FirstBook = "b1"
    NoBook = "none"
    Analyses <- MCAnalyses
    NoAnalysis = none
    MixedTypes <- MCMixedTypes
    MaxCaseItems = 2
    Admin = {a1, a2}
    Viewer = {v1}
    Global <- MCGlobal
    DefaultList = "default"
    Save <- MCSave
    MaxPuts = 2
SPECIFICATION ServicesSpec
INVARIANTS
    ServicesTypeOK
    HistoryTellsStatus
    EffectsCommitTogether
    OneSetOfVariants
    MissesOnlyTheGap
    InvalidatedIsNotServed
    EndedSessionsAreOver
    OpenSessionCanRefresh
    OperatorsWordStands
    StatusFollowsValues
    ReferredIsKept
    DoneHasResult
    QuoteAddsUp
    DearerWhenHarder
    ServedIsStored
PROPERTIES
    CaseMovesOn
    OutboxDrains
    
CHECK_DEADLOCK FALSE
