SPECIFICATION Spec
CONSTANTS
    Size = 21
    AlignOffset = 1
    UNIT_SIZE = 2
    NumIndexes = 3
    IndexPeriod = 2
    MaxNU = 8
    GlueReset = 1
INVARIANTS
    TypeOK
    Partition
    TextApart
PROPERTIES
    GlueFindsRun
    ImplementsPool
