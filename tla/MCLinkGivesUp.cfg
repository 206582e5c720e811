SPECIFICATION OperatorSpec
CONSTANTS
    Channels = {c1}
    NoChannel = NoChannel
    Callers = {k1, k2}
    NoCaller = NoCaller
    CTL_MAX_CLIENTS = 1
    Peers = {d1, d2}
    NoPeer = NoPeer
    MaxAsks = 2
INVARIANT
    NeverGivesUp
CHECK_DEADLOCK FALSE
