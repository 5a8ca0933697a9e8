CONSTANTS
    Publishers = {p1, p2}
    NumSubs = 2
    Policy <- BusPolicies
    Once = {1}
    Buffer = 1
    MaxEvents = 3
    Setups <- BusSetups
    Ids = {i1}
    MaxTime = 2
    Hour = 2
    Period = 1
    MaxServices = 2
    MaxEdits = 2
    Names = {n1, n2}
    NumOut = 2
    QueueSize = 1
    MaxRetries = 1
    MaxReloads = 3
    n1 = n1
    n2 = n2
    p1 = p1
    p2 = p2
SPECIFICATION ServicesSpec
CHECK_DEADLOCK FALSE
INVARIANTS
    TypesOK
    ChannelsDeliver
    JobsAreKept
    CloseIsClean
PROPERTIES
    ManagerAdvances
    OneShotOnce
    DueIsTaken
    ClosesAndReturns
