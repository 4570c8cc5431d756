SPECIFICATION Spec
CONSTANTS
    First = 3
    Keep = 2
    Before = 0
    MaxEvents = 4
    MaxFaults = 1
    MaxPolls = 1
INVARIANTS NoSilentLoss
CHECK_DEADLOCK FALSE
