SPECIFICATION Spec
CONSTANTS
    Sizes = {1, 3}
    MAX_READ_SIZE = 2
    SIZE_MAX = 255
    Faults <- AllButReset
    MaxArrived = 5
    MaxReads = 2
    MaxWrites = 2
    MaxCloses = 2
CHECK_DEADLOCK FALSE
INVARIANTS
    TypeOK
    ReadsInOrder
    RequestNotLost
    WireInOrder
    ClosedLast
PROPERTY ImplementsChannel
