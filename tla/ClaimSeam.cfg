SPECIFICATION Spec
CONSTANTS
    Publishers = {p1}
    Clients = {c1}
    NumEvents = 3
    Terminal = 3
    sseChannelBuffer = 2
    MaxLoad = 4
    Idle = Idle
INVARIANT SeamLosesNothing
