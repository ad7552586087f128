SPECIFICATION PartsSpec
CONSTANTS
    m1 = m1
    m2 = m2
    m3 = m3
    Machine = {m1, m2, m3}
    HostNumber = {1, 2, 3}
    Segment <- MCSegment
    MaxPackets = 1
    MaxAgents = 3
    p1 = p1
    p2 = p2
    p3 = p3
    v1 = v1
    v2 = v2
    Peer = {p1, p2, p3}
    Vip = {v1, v2}
    VipOf <- MCVipOf
    Nobody = Nobody
    MaxUnread = 2
    MaxUpdates = 4
    Reader = {r1, r2}
    Writer = {w1}
    ActionSlots = 2
    MenuSlots = 1
    MaxClicks = 4
    Window = 3
    MaxSend = 9
    ServerAddress = {h1, h2}
    Room = {a1, a2}
    MaxChanges = 3
    MaxStarts = 3
    MaxKeys = 2
    FP = {f1, f2, f3}
    Code = {c1, c2}
    FirstIP = 2
    LastIP = 4
    NoRoom = NoRoom
    NoFP = NoFP
    Overlap = FALSE
    MaxSeq = 4
INVARIANTS CarriedAsRouted RoutesFollowPeers WokenReaderIsSafe NATRecognised ReorderTolerated
    SettingsSurvive IdentityKept ListRecoverable 
    UniqueVirtualIP RoomsConsistent ByFPExact MembersOnline
PROPERTIES HostChangesOnlyOnDeparture SuccessorIsLongestRegistered ServiceSpec
    QuitIsTaken IdealSpec
CHECK_DEADLOCK FALSE
