SPECIFICATION ServerSpec
CONSTANTS
    RunIDs = {r1, r2}
    Workers = {w1, w2}
    Priorities <- OnePriority
    QueueCap = 1
    MaxSubmits = 2
    NoEntry = NoEntry
    Configs = {TRUE, FALSE}
INVARIANTS
    StagedRequests
    LaunchedWasAccepted
PROPERTIES
    AdmittedSettles
    StopDrains
    AcceptedIsServed
    ServeReturns
