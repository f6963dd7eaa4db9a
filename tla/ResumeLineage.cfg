SPECIFICATION Spec
CONSTANTS
    MaxSessions = 3
    MaxConversations = 2
    MaxRemoved = 1
    MaxFollowups = 0
    Runtimes = {"claude", "codex"}
    CosThread = TRUE
INVARIANTS
    TypeOK
    ConflictSeen
    OneActivePerConversation
    BlockedOnlyByOwn
CHECK_DEADLOCK FALSE
