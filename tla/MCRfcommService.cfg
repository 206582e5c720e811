SPECIFICATION Spec
CONSTANTS
    MaxInsts = 2
    MaxSocks = 2
    MaxMessages = 3
INVARIANTS
    TypeOK
    NoListenerLeft
    StartIsHeard
    NobodyStranded
PROPERTY ClientIsServed
CHECK_DEADLOCK FALSE
