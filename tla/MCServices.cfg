SPECIFICATION PartsSpec
CONSTANTS
    MaxWork = 2
    MaxTx = 3
    MaxDepth = 3
    Participants = 1
    SwallowSqlErrors = FALSE
    NoFile = NoFile
    NoObject = NoObject
    NoFactor = NoFactor
    NoSession = NoSession
    NoConnection = NoConnection
    NoLink = NoLink
    NoAccount = NoAccount
    NoRole = NoRole
    NoMember = NoMember
    NoTenant = NoTenant
    Callers = {c1, c2}
    Window = 1
    MaxFailures = 2
    LockFor = 1
    MaxClock = 2
    MaxSecrets = 3
    MaxPasswords = 2
    IdleTtl = 1
    Touch = 0
    Ttl = 2
    MaxTokens = 4
    MaxMailed = 3
    Keys = {"k", "l"}
    Shipped = {"k"}
    MaxRoles = 2
    MaxMembers = 2
    Tenants = {"A", "B"}
    Connections = {1}
    Notes <- MCNotes
    MaxStatements = 2
SYMMETRY Symmetry
INVARIANTS Typed CallbackFollowsCommit CallbacksAreKept ToldOfCommits
INVARIANTS ReadyIsScannedAndWhole AccessIsKept OneCopyKnown WorkflowIsKept
CHECK_DEADLOCK FALSE
