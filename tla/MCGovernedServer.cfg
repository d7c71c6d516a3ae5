SPECIFICATION GSpec
CONSTANTS
    Keys = {"a", "b"}
    Rate = 2
    Token = 3
    Burst = 2
    TTL = 3
    RunIDs = {r1, r2}
    MaxTime = 6
    Options <- AllOptions
INVARIANTS
    RateBound
    RetryAfterSuffices
    ActsWithinGrant
    GovernedAttempts
    AuditTruthful
SYMMETRY SymmetricRuns
