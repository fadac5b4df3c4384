SPECIFICATION Spec
CONSTANTS
    ShortMax = 8
    Rects <- SmallRects
    RectSize = 2
    Width = 5
    Height = 4
    MaxRects = 3
CHECK_DEADLOCK FALSE
INVARIANTS
    TypeOK
    CleanupCovers
    CleanupStaysInside
    CopyRectsAreTheDirtyTiles
