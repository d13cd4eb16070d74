SPECIFICATION Spec
CONSTANTS
    s1 = s1
    s2 = s2
    s3 = s3
    Sensors <- MCSensors
    Lists <- FaultLists
    Limit = 2
    Delays = {FALSE, TRUE}
    Faults = {"status", "length", "update"}
    Uses = {"restart", "sync", "script"}
    MaxGeneration = 2
    MaxCommands = 2
    MaxQueue = 0
    MaxTimers = 1
PROPERTIES
    OnlyBadAnswersEndWatch
    OnlyBadAnswersLoseSensors
    RestartRepairs
CHECK_DEADLOCK FALSE
