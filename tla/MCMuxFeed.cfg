SPECIFICATION FairSpec
CONSTANTS
    FRAME_HEADER_SIZE = 3
    Lengths = {0, 2}
    Faults = TRUE
    MaxFrames = 3
    MaxChannels = 2
    MaxPacket = 5
INVARIANTS
    TypeOK
    CleanInOrder
    NothingKeptBack
PROPERTY
    FeedReturns
CHECK_DEADLOCK FALSE
