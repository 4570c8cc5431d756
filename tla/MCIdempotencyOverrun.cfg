SPECIFICATION FairSpec
CONSTANTS
    a = a
    b = b
    c = c
    theKey = theKey
    Requests <- MCRequests
    Keys <- MCKeys
    Prints <- MCPrints
    KeyOf <- MCKeyOf
    PrintOf <- MCPrintOf
    LockTimeout = 1
    Ttl = 3
    MaxTime = 4
    MaxTx <- MCMaxTx
    HandlersInTime = FALSE
    NoRow = NoRow
    Nobody = Nobody
PROPERTIES KeyAndWorkTogether
CHECK_DEADLOCK FALSE
