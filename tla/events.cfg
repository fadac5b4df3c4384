SPECIFICATION Spec
CONSTANTS
    Keys <- SomeKeys
    Positions <- TwoPositions
INVARIANTS
    NothingStuck
    InputArrives
