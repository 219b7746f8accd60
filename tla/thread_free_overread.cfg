SPECIFICATION Spec
CONSTANTS
    InSizes = {0, 1, 2}
    OutSizes = {1, 2}
    Lengths = {0, 2, 3}
    MaxReads = 2
    CreateMayFail = FALSE
INVARIANT
    PosWithinSize
