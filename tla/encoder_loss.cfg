SPECIFICATION Spec
CONSTANTS
    Threads = {t1, t2}
    NoThread = none
    Lengths = {0, 1, 3}
    SymbolBytes = {0, 1, 2}
    FlushBytes = {1, 3}
    Blocks <- BlockSizes
    MaxCalls = 3
INVARIANTS
    NothingLost
