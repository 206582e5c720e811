SPECIFICATION FairSpec
CONSTANTS
    SEND_Q_DEPTH = 3
    MaxFrames = 6
INVARIANTS
    TypeOK
    NeverWedged
PROPERTIES
    KeepsOrder
    EveryFrameLeaves
CHECK_DEADLOCK FALSE
