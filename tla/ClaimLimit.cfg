SPECIFICATION Spec
CONSTANTS
    MaxAgents = 2
    OutPerAgent = 1
    POptionSet <- Throttled
    NodeIDs = {0, 1, 2}
    MaxChains = 2
    DOptionSet <- TwoRoots
    COptionSet <- NoCoordinate
    FlagSet <- FewFlags
PROPERTY LimitOnlyDelays
CHECK_DEADLOCK FALSE
