SPECIFICATION Spec
CONSTANTS
    s1 = s1
    s2 = s2
    s3 = s3
    Sensors <- MCSensors
    Lists <- MCLists
    Limit = 2
    Delays = {FALSE}
    Faults = {"status"}
    Uses = {}
    MaxGeneration = 3
    MaxCommands = 3
    MaxQueue = 4
    MaxTimers = 2
INVARIANTS
    OneCommand
CHECK_DEADLOCK FALSE
