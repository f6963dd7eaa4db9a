SPECIFICATION FairSpec
CONSTANTS
    MaxSessions = 3
    MaxConversations = 2
    MaxRemoved = 1
    MaxFollowups = 2
    Runtimes = {"claude"}
    CosThread = FALSE
INVARIANTS
    FollowupsInOrder
PROPERTIES
    FollowupResolves
CHECK_DEADLOCK FALSE
