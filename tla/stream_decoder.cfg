SPECIFICATION FairSpec
CONSTANTS
    Variants = {"ppmd7", "ppmd8"}
    DataSizes = {0, 1, 2, 4}
    Lengths <- MoreLengths
    HeaderSize = 2
    BlockSizes <- Blocks
    IntMax = 50
    AllocMayFail = TRUE
    MaxFed = 7
    MaxStored = 3
INVARIANTS
    TypeOK
    BytesInOrder
    NothingLost
    WithinLength
    ResumeSafe
    StarvedAsksForInput
    NeedsInputMeansExhausted
PROPERTY
    CallEnds
