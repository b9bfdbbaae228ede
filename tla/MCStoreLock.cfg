SPECIFICATION FairSpec
CONSTANTS
    Goroutines = {g1, g2}
    Nobody = nobody
    MaxDepth = 1
    MaxEvents = 2
INVARIANTS
    LockTypeOK
    HolderIsInside
PROPERTIES
    EveryCallReturns
