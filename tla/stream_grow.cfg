SPECIFICATION Spec
CONSTANTS
    Variants = {"ppmd7", "ppmd8"}
    DataSizes = {0, 1, 2, 4}
    Lengths = {1, 3}
    HeaderSize = 2
    BlockSizes <- Blocks
    IntMax = 50
    AllocMayFail = FALSE
    MaxFed = 7
    MaxStored = 3
PROPERTY
    GrowHasRest
