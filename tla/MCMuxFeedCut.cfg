SPECIFICATION Spec
CONSTANTS
    FRAME_HEADER_SIZE = 3
    Lengths = {0, 2}
    Faults = FALSE
    MaxFrames = 3
    MaxChannels = 2
    MaxPacket = 5
INVARIANT
    FramesInOrder
CHECK_DEADLOCK FALSE
