CONSTANTS
    Window = 3
    MaxSend = 9
SPECIFICATION ReplaySpec
INVARIANTS AcceptedOnce
CHECK_DEADLOCK FALSE
