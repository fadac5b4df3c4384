SPECIFICATION FairSpec
CONSTANTS
    Sizes = {1, 3}
    MAX_READ_SIZE = 2
    SIZE_MAX = 255
    Faults <- Survivable
    MaxArrived = 4
    MaxReads = 2
    MaxWrites = 2
    MaxCloses = 1
CHECK_DEADLOCK FALSE
INVARIANTS
    NothingLost
    PromisesSetOnce
    WithinBuffer
PROPERTIES
    QueuedReadServed
    WritesFlushed
    DisconnectReturns
    HangupNoticed
