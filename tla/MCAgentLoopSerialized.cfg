SPECIFICATION Spec
CONSTANTS
    s1 = s1
    s2 = s2
    Main = Main
    MainSession = Main
    Sessions = {s1}
    NumMessages = 3
    MaxParallel = 2
    MaxQueueSize = 2
    SteeringMode = "one-at-a-time"
    PanicPoints = {}
    MayCancel = FALSE
INVARIANT Serialized
