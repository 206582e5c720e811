SPECIFICATION FairTether
CONSTANTS
    MAX_ID = 2
    Conns = {c1}
    NoConn = NoConn
    Ports = {p1, p2}
    NoPort = NoPort
    MaxUnread = 1
    QueueCap = 1
    InitialWindow = 1
    BackCap = 1
    MaxLosses = 1
    MaxConnects = 2
INVARIANTS
    TetherTypeOK
    TablesAgree
    SocketsAgree
    ReleasedAtBothEnds
    NoStrandedStream
    NoOrphan
    MappingReaches
PROPERTY EndReachesPhone
CHECK_DEADLOCK FALSE
