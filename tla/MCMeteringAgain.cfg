SPECIFICATION Spec
CONSTANTS
    Sweeps = {s1, s2}
    MaxDay = 2
    MaxQuantity = 2
    LastDay = 2
    DatesAreText = TRUE
    NoRow = NoRow
INVARIANT MarkedIsBilled
