SPECIFICATION FairSpec
CONSTANTS
    First = 3
    Keep = 2
    Before = 1
    MaxEvents = 4
    MaxFaults = 2
    MaxPolls = 1
INVARIANTS TypeOK NoEventSteppedOver
PROPERTIES CatchesUp
CHECK_DEADLOCK FALSE
