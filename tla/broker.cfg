SPECIFICATION FairSpec
CONSTANTS
    HeaderSize = 2
    BodySize = 3
    MAX_READ_SIZE = 2
    SIZE_MAX = 255
    Faults <- Hangups
CHECK_DEADLOCK FALSE
INVARIANTS
    SessionOnlyIfResolved
    ConnectionClosed
PROPERTY HangsOnlyStarved
