SPECIFICATION Spec
CONSTANTS
    MAX_TCP_CONNS = 2
    SYN_RCVD_MAX_AGE = 2
    SEQ_SPACE = 2
    ISN_STRIDE = 1
    Tuples = {t1, t2, t3}
    NoTuple = NoTuple
    MaxLen = 1
INVARIANTS
    TypeOK
    UniqueTuple
    HalfCloseAccounted
    HalfOpenBounded
PROPERTY
    NoSilentRelease
SYMMETRY Symmetry
