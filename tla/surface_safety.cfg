SPECIFICATION Spec
CONSTANTS
    c1 = c1
    c2 = c2
    Cells <- TwoCells
    IntMax = 100
    CRectSizes = {0, 64}
    MaxImages = 6
CHECK_DEADLOCK FALSE
INVARIANTS
    TypeOK
    NoDirtLost
    WindowBound
    DropsOnlyWhenBehind
    WholeScreenFirst
