CONSTANTS
    Settings = {s1, s2}
    Unset = Unset
    MaxSaves = 3
    MaxServers = 2
SPECIFICATION Spec
INVARIANTS SettingsTakeEffect
CHECK_DEADLOCK FALSE
