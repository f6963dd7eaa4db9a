\* No action reads two sessions, so one stands for all; tmux and statements may
\* fail at any call until they heal, an attach at any time.
SPECIFICATION FairSpec
CONSTANTS
    s1 = s1
    Sessions = {s1}
    FlakyTmux = TRUE
    FlakyAttach = TRUE
    MaxLaunches = 2
    MaxFaults = 1
INVARIANTS
    TypeOK
    OwnershipSound
    PendingAgentReported
    SweepSparesLive
PROPERTIES
    RunningAgentSpared
    AgentPerLaunch
    StaleRunningResolved
    PendingResolves
    
CHECK_DEADLOCK FALSE
