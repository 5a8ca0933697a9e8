SPECIFICATION DispatchSpec
CONSTANTS
    s1 = s1
    s2 = s2
    Main = Main
    MainSession = Main
    Sessions = {s1, s2}
    NumMessages = 3
    MaxParallel = 1
    MaxQueueSize = 2
    SteeringMode = "one-at-a-time"
    PanicPoints = {"processing", "turn", "contTurn"}
    MayCancel = TRUE
    NumSteering = 2
    MaxIterations = 1
    MaxCalls = 2
    MaxRetries = 1
    OldTurns = 2
SYMMETRY DispatchSymmetry
INVARIANTS
    TypeOK
    TurnTypeOK
    ClaimHasOwner
    SlotsBounded
    QueuedOnce
    CallsAnswered
    TakenIsInjected
    AbortedIsRolledBack
PROPERTY StopIsScoped
