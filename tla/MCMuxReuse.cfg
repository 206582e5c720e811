SPECIFICATION Spec
CONSTANTS
    Sids = {1}
    MaxStreams = 2
    InitialWindow = 1
    MaxCredit = 1
    CHUNK_SIZE = 1
    CREDIT_CHUNK = 1
    Capacity = 1
PROPERTY
    OnlyItselfRemoved
CHECK_DEADLOCK FALSE
