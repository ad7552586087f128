CONSTANTS
    Settings = {s1, s2}
    Unset = Unset
    MaxSaves = 3
    MaxServers = 2
SPECIFICATION FairSpec
INVARIANTS RestartPending ServerIsKnown QuitStopsServer
PROPERTIES AgentComesUp
CHECK_DEADLOCK FALSE
