SPECIFICATION PartsSpec
CONSTANTS
    Tills = {t1, t2}
    Sweeps = {s1}
    Subjects = {u1, u2}
    Amounts = {1, 2}
    MaxEntries = 5
    None = None
    NoReference = NoReference
    NoPlan = NoPlan
    NoUsage = NoUsage
SYMMETRY Symmetry
INVARIANTS Typed BooksBalance BooksAreReal EntitledBySale SumsAgree TimeAgrees StopIsHonoured
INVARIANTS OwedUntilTold SettledIsBilled
PROPERTY NothingAfterCancel
CHECK_DEADLOCK FALSE
