SPECIFICATION Spec
CONSTANTS
    MaxIterations = 3
    MaxLoops = 4
    MaxRestarts = 1
INVARIANTS
    TypeOK
    RunningIsDriven
    CompletedCoversAll
CHECK_DEADLOCK FALSE
