SPECIFICATION PartsSpec
CONSTANTS
    Replicas = {r1, r2}
    Names <- MCNames
    Unset = Unset
    Interval = 2
    LockTtl = 3
    RunOnStart = TRUE
    Early = 1
    MaxLate = 0
    MaxDelay = 1
    MaxRun = 1
    MaxTime = 6
    MaxFaults = 1
    Nobody = Nobody
    Items = {"i1"}
    Ahead = 2
    ScanLockTtl = 1
    DedupeTtl = 3
    MaxPass = 1
    MaxMoment = 6
    ScanFaults = 1
    MaxMoves = 2
    Keys = {"a", "b"}
    Lifetimes <- MCLifetimes
    MaxVersion = 2
    MaxClock = 4
    Limit = 3
    Window = 4
    Costs = {0, 1, 2, 4}
    Second = 2
    MaxInstant = 13
    Ids = {"j1"}
    \* one of a release that handles the job, and one of another that does not
    Workers = {"w1", "w2"}
    Handling = {"w1"}
    Attempts = 2
    MaxAsks = 3
    MaxCuts = 2
    MaxStalls = 2
    Tickets = 4
    Tries = 3
    Absent = {2}
SYMMETRY Symmetry
INVARIANTS TypeOK OncePerInterval NoSecondRun TaskResumes
INVARIANTS EachMomentOnce RedisHelpersHold OneTicketAtATime
CHECK_DEADLOCK FALSE
