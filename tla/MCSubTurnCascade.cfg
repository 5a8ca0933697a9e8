SPECIFICATION Spec
CONSTANTS
    NumSpawns = 1
    RootSpawns = 1
    MaxDepth = 2
    MaxConcurrent = 1
    ResultCap = 1
    Targets = {0}
INVARIANT StopCascades
