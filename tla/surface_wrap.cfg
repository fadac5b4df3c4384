SPECIFICATION Spec
CONSTANTS
    c1 = c1
    c2 = c2
    Cells <- TwoCells
    IntMax = 4
    CRectSizes = {0, 64}
    MaxImages = 6
CHECK_DEADLOCK FALSE
INVARIANT DropsOnlyWhenBehind
