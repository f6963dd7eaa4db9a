\* Three viewers: one parked, two that type, resize or revive the session.
SPECIFICATION FairSpec
CONSTANTS
    v1 = v1
    v2 = v2
    v3 = v3
    Viewers = {v1, v2, v3}
    MaxAttempts = 3
    MaxRestarts = 1
INVARIANTS
    TypeOK
    OnOneList
    PtyFollowsLatest
PROPERTIES
    PendingServed
    ParkedServed
CHECK_DEADLOCK FALSE
