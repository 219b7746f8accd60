SPECIFICATION FairSpec
CONSTANTS
    InSizes = {0, 1, 2}
    OutSizes = {1, 2}
    Lengths = {0, 2, 3}
    MaxReads = 2
    CreateMayFail = TRUE
INVARIANTS
    TypeOK
    IdleOwnership
    InBounds
    FreeIsClean
PROPERTIES
    QuietBetweenCalls
    StarvedMeansExhausted
    OneWorker
    ReturnCoversStored
    ImplementsHandoff
    CallReturns
    FreeCompletes
