\* The code does not keep this across a crash: see the findings.
SPECIFICATION Spec
CONSTANTS
    v1 = v1
    v2 = v2
    Viewers = {v1}
    MaxOut = 2
    Cap = 1
    MaxDrops = 1
    MayCrash = TRUE
    MaxRestarts = 1
    Stream = TRUE
INVARIANT
    OutputComplete
CHECK_DEADLOCK FALSE
