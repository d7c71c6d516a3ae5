SPECIFICATION Spec
CONSTANTS
    RunIDs = {r1}
    Self = r1
    OptionSet <- AllOptions
    r1 = r1
INVARIANTS
    EndsAnnounced
    NothingLeaks
    PipelineInvariant
    LiveFollowsRun
    LogReplaysToOutcome
PROPERTIES
    KeepsContract
    RunEnds
