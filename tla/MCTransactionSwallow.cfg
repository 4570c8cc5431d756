SPECIFICATION Spec
CONSTANTS
    MaxWork = 3
    MaxTx = 2
    MaxDepth = 2
    Participants = 0
    SwallowSqlErrors = TRUE
INVARIANTS CallbackFollowsCommit
CHECK_DEADLOCK FALSE
