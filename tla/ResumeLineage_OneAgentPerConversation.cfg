\* One codex session, resumed twice.
SPECIFICATION Spec
CONSTANTS
    MaxSessions = 3
    MaxConversations = 1
    MaxRemoved = 3
    MaxFollowups = 0
    Runtimes = {"codex"}
    CosThread = FALSE
INVARIANTS
    OneAgentPerConversation
CHECK_DEADLOCK FALSE
