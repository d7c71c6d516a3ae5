SPECIFICATION ObserversSpec
CONSTANTS
    RunIDs = {r1, r2, r3}
    Capacity = 2
    StartCapacity = 2
    Bounds <- TwoBounds
    StartStamps = {1}
    EndStamps <- Ends
    Attachments <- OneEach
INVARIANTS
    CacheExact
    MetricsTruthful
PROPERTIES
    EvictionSparesLive
    DropsOnlyWhenCrowded
SYMMETRY SymmetricRuns
