SPECIFICATION FairSpec
CONSTANTS
    Sids = {1}
    MaxStreams = 2
    InitialWindow = 1
    MaxCredit = 2
    CHUNK_SIZE = 1
    CREDIT_CHUNK = 1
    Capacity = 1
INVARIANTS
    TypeOK
    TableAgrees
    UnlistedIsWoken
    CreditConserved
PROPERTY UnlistedEnds
CHECK_DEADLOCK FALSE
