SPECIFICATION FairDispatchSpec
CONSTANTS
    s1 = s1
    s2 = s2
    Main = Main
    MainSession = Main
    Sessions = {s1}
    NumMessages = 3
    MaxParallel = 1
    MaxQueueSize = 1
    SteeringMode = "all"
    PanicPoints = {"processing", "turn", "contTurn"}
    MayCancel = FALSE
    NumSteering = 1
    MaxIterations = 1
    MaxCalls = 2
    MaxRetries = 1
    OldTurns = 1
PROPERTIES
    WorkersFinish
    SessionFreed
    TurnComesToEnd
