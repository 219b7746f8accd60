SPECIFICATION Spec
CONSTANTS
    Symbols = {0, 1, 2}
    HiSymbol = 2
    MAX_FREQ = 12
    TextSize = 12
    PPMD_INT_BITS = 3
    Base = 64
    kBot = 2048
    BitTotal = 1024
    Variants = {"ppmd7", "ppmd8"}
    Orders = {2, 3}
    Memories = {10, 40}
    Data <- Pieces
    MaxCalls = 4
INVARIANTS
    RoundTrip
    ConsumesAll
    IntervalKept
    Nested
    EscapeRoom
    SuccessorsTell
CHECK_DEADLOCK FALSE
