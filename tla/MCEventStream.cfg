SPECIFICATION Spec
CONSTANTS
    Publishers = {p1, p2}
    Clients = {c1, c2}
    NumEvents = 3
    Terminal = 3
    sseChannelBuffer = 1
    MaxLoad = 4
    Idle = Idle
INVARIANTS
    NoEventTwice
    StreamInvariant
PROPERTIES
    StreamEnds
    PublishEnds
