CONSTANTS
    n1 = n1
    n2 = n2
    Names = {n1, n2}
    NumOut = 1
    QueueSize = 1
    MaxRetries = 1
    MaxReloads = 1
SPECIFICATION ManagerSpec
CHECK_DEADLOCK FALSE
INVARIANTS RestartedHasWorker
