SPECIFICATION FairSpec
CONSTANTS
    Sessions = {s1}
    l1 = l1
    l2 = l2
    Launchers = {l1, l2}
    MaxConns <- Conns2And1
    MaxRestarts = 1
INVARIANTS TypeOK RegistryCurrent MachineOffline PinnedStaysRemote EndedAgentGone
PROPERTIES OneAgentAnywhere HarnessResolves KillDelivered
CHECK_DEADLOCK FALSE
