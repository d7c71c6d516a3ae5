SPECIFICATION Spec
CONSTANTS
    MaxAgents = 2
    OutPerAgent = 1
    POptionSet <- Unthrottled
    NodeIDs = {0, 1, 2}
    MaxChains = 2
    DOptionSet <- TwoRoots
    COptionSet <- NoCoordinate
    FlagSet <- FewFlags
INVARIANT SynthesizerHasWorktree
CHECK_DEADLOCK FALSE
