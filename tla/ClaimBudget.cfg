SPECIFICATION GSpec
CONSTANTS
    Keys = {"a"}
    Rate = 2
    Token = 3
    Burst = 2
    TTL = 3
    RunIDs = {r1}
    MaxTime = 0
    Options <- CeilingOptions
INVARIANT TokenCeilingHolds
