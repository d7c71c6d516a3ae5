SPECIFICATION Spec
CONSTANTS
    MaxAgents = 3
    OutPerAgent = 1
    POptionSet <- FanOuts
    NodeIDs = {0, 1, 2, 3, 4}
    MaxChains = 3
    DOptionSet <- DAGs
    COptionSet <- AllCoordinate
    FlagSet <- AllFlags
INVARIANTS
    HeadGetsTheWinner
    RelayLosesNothing
    ChainsCoverPlan
    SynthesisAfterBarrier
    DAGSettled
    CommandTruthful
PROPERTIES
    ParallelIsFanOut
    DAGIsFanOut
    CommandEnds
