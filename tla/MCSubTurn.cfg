SPECIFICATION FairSpec
CONSTANTS
    NumSpawns = 3
    RootSpawns = 1
    MaxDepth = 2
    MaxConcurrent = 1
    ResultCap = 1
    Targets = {1}
INVARIANTS
    TypeOK
    SlotsBounded
    ResultOnce
    AbortReachesChildren
PROPERTY SlotFreed
