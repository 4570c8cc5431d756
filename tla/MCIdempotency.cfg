SPECIFICATION FairSpec
CONSTANTS
    a = a
    b = b
    c = c
    theKey = theKey
    Requests <- MCRequests
    Keys <- MCKeys
    Prints <- MCPrints
    KeyOf <- MCKeyOf
    PrintOf <- MCPrintOf
    LockTimeout = 1
    Ttl = 3
    MaxTime = 4
    MaxTx <- MCMaxTx
    HandlersInTime = TRUE
    NoRow = NoRow
    Nobody = Nobody
INVARIANTS TypeOK KeySpent ReplayIsEarned
PROPERTIES WorkOncePerKey EveryRequestEnds
CHECK_DEADLOCK FALSE
