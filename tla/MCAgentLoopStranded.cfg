SPECIFICATION Spec
CONSTANTS
    s1 = s1
    s2 = s2
    Main = Main
    MainSession = Main
    Sessions = {s1}
    NumMessages = 2
    MaxParallel = 1
    MaxQueueSize = 2
    SteeringMode = "one-at-a-time"
    PanicPoints = {}
    MayCancel = FALSE
INVARIANT NothingStranded
