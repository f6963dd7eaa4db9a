\* The code does not keep this: see the findings.
SPECIFICATION FairKillSpec
CONSTANTS
    s1 = s1
    Sessions = {s1}
    FlakyTmux = FALSE
    FlakyAttach = FALSE
    MaxLaunches = 1
    MaxFaults = 0
PROPERTY
    DeleteLeavesNoProcess
CHECK_DEADLOCK FALSE
