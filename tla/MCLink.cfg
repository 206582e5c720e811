SPECIFICATION FairOperator
CONSTANTS
    Channels = {c1}
    NoChannel = NoChannel
    Callers = {k1, k2}
    NoCaller = NoCaller
    CTL_MAX_CLIENTS = 1
    Peers = {d1, d2}
    NoPeer = NoPeer
    MaxAsks = 2
INVARIANTS
    OperatorTypeOK
    OneAttempt
    FreshChannel
    StallsOnlyOnError
    TimerOfItsOwn
    TestHasReader
PROPERTIES
    KeepsAsking
    EveryCommandAnswered
    RequestEnds
CHECK_DEADLOCK FALSE
