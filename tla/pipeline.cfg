SPECIFICATION FairSpec
CONSTANTS
    c1 = c1
    Cells <- OneCell
    IntMax = 100
    RFXCodec = FALSE
    MaxCommits = 6
CHECK_DEADLOCK FALSE
INVARIANTS
    TypeOK
    NoChangeLost
    NoLostWakeup
    NeverRefused
    NobodyLeftBehind
PROPERTIES
    NeverBackInTime
    ImplementsSurface
    ImplementsTarget
    QueueDrains
    SessionEnds
