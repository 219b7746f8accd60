SPECIFICATION FairSpec
CONSTANTS
    Size = 22
    AlignOffset = 1
    UNIT_SIZE = 2
    NumIndexes = 3
    IndexPeriod = 2
    GlueReset = 1
    MaxOrder = 2
    KeepOrder = 1
    MoveReach = 8
    Restart = FALSE
INVARIANTS
    TypeOK
    Partition
    UsedMemoryExact
    NoDangling
PROPERTIES
    RestoreEnds
    ImplementsPool

