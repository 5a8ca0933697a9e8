SPECIFICATION SeahorseSpec
CONSTANTS
    OrdinalStep = 4
    FreshTailCount = 1
    LeafMinFanout = 2
    CondensedMinFanout = 2
    OldSummaries = 0
    MaxSaid = 3
    MaxSummaries = 2
    MaxWipes = 0
    MaxMishaps = 1
CHECK_DEADLOCK FALSE
PROPERTY BootstrapReconciles
