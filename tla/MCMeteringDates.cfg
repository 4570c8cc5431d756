SPECIFICATION Spec
CONSTANTS
    Sweeps = {s1}
    MaxDay = 1
    MaxQuantity = 1
    LastDay = 1
    DatesAreText = FALSE
    NoRow = NoRow
PROPERTY EverythingIsReported
