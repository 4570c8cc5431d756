SPECIFICATION Spec
CONSTANTS
    Tills = {t1}
    Sweeps = {s1, s2}
    Subjects = {u1}
    Amounts = {1, 2}
    MaxEntries = 4
    None = None
INVARIANT LedgerAgrees
CHECK_DEADLOCK FALSE
