SPECIFICATION FairSpec
CONSTANTS
    HeaderSize = 1
    BodySize = 1
    BitmapSize = 1
    MAX_READ_SIZE = 2
    SIZE_MAX = 255
    Faults <- Hangups
    MaxMessages = 2
    MaxEvents = 1
CHECK_DEADLOCK FALSE
INVARIANT HandledInOrder
PROPERTIES
    ImplementsTarget
    StopHangsOnlyStarved
