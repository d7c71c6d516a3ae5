SPECIFICATION Spec
CONSTANTS
    RunIDs = {r1, r2, r3}
    Workers = {w1, w2}
    Priorities <- TwoPriorities
    QueueCap = 2
    MaxSubmits = 3
    NoEntry = NoEntry
SYMMETRY Symmetry
INVARIANTS
    SchedulerInvariant
PROPERTIES
    PositionOnlyYieldsToPriority
