\* No failure: one message after another, the agent exits in between.
SPECIFICATION Spec
CONSTANTS
    MaxTurns = 2
    MaxRestarts = 0
    Unreachable = FALSE
INVARIANT
    ReplayIsThisTurn
CHECK_DEADLOCK FALSE
