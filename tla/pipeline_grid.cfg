SPECIFICATION Spec
CONSTANTS
    c1 = c1
    Cells <- OneCell
    IntMax = 100
    RFXCodec = TRUE
    MaxCommits = 3
CHECK_DEADLOCK FALSE
INVARIANTS
    OneGrid
