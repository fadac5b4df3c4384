SPECIFICATION Spec
CONSTANTS
    Sizes = {1, 3}
    MAX_READ_SIZE = 2
    SIZE_MAX = 255
    Faults <- Resets
    MaxArrived = 4
    MaxReads = 2
    MaxWrites = 1
    MaxCloses = 1
CHECK_DEADLOCK FALSE
INVARIANT ReadsInOrder
