SPECIFICATION FairSpec
CONSTANTS
    Size = 19
    AlignOffset = 1
    UNIT_SIZE = 2
    NumIndexes = 4
    IndexPeriod = 2
    GlueReset = 1
    MaxOrder = 2
    KeepOrder = 1
    MoveReach = 8
    Restart = FALSE
PROPERTY
    RestoreEnds
CHECK_DEADLOCK FALSE
