\* Two panes, a buffer smaller than the output, one disconnection, one restart
\* during which the agent may print.
SPECIFICATION FairSpec
CONSTANTS
    v1 = v1
    v2 = v2
    Viewers = {v1, v2}
    MaxOut = 2
    Cap = 1
    MaxDrops = 1
    MayCrash = FALSE
    MaxRestarts = 1
    Stream = TRUE
INVARIANTS
    TypeOK
    OutputComplete
    EndComplete
PROPERTY
    ExitShown
CHECK_DEADLOCK FALSE
