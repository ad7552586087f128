SPECIFICATION FairSpec
CONSTANTS
    Conn = {c1, c2}
    NoOne = NoOne
    Pinger = Pinger
    Capacity = 1
    PongWait = 3
    MaxRequests = 2
    MaxFaults = 1
INVARIANTS HealthyAreKept
PROPERTIES DeadAreReleased HandlersReturn
CHECK_DEADLOCK FALSE
