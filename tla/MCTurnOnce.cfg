SPECIFICATION TurnSpec
CONSTANTS
    NumSteering = 1
    MaxIterations = 2
    MaxCalls = 1
    MaxRetries = 0
    OldTurns = 1
    SteeringMode = "one-at-a-time"
INVARIANT InjectedOnce
