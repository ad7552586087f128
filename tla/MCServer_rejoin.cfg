CONSTANTS
    FP = {f1, f2, f3}
    Code = {c1}
    FirstIP = 2
    LastIP = 4
    NoRoom = NoRoom
    NoFP = NoFP
    Overlap = FALSE
    MaxSeq = 3
    MaxFresh = 2
    SettledRequests = 2
    UserRequests = {"create", "join", "leave", "close"}
    MaxRequests = 4
    Endpoints = {"public"}
SPECIFICATION MCSpec
SYMMETRY Symmetry
INVARIANTS RoommatesConnected
CHECK_DEADLOCK FALSE
