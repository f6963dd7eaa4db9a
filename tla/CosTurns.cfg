SPECIFICATION FairSpec
CONSTANTS
    MaxTurns = 2
    MaxRestarts = 1
    Unreachable = TRUE
INVARIANTS
    TypeOK
    OwnReplyOnly
    TurnOnRow
    HolderActive
PROPERTIES
    ListenerSettles
CHECK_DEADLOCK FALSE
