SPECIFICATION FairSpec
CONSTANTS
    s1 = s1
    s2 = s2
    s3 = s3
    Sensors <- MCSensors
    Lists <- MCLists
    Limit = 2
    Delays = {FALSE}
    Faults = {}
    Uses = {}
    MaxGeneration = 4
    MaxCommands = 3
    MaxQueue = 4
    MaxTimers = 2
INVARIANTS
    OneCommand
PROPERTIES
    GoesRound
    KeepsUpdating
CHECK_DEADLOCK FALSE
