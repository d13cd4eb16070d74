SPECIFICATION FairSpec
CONSTANTS
    tcl = tcl
    exec = exec
    sync = sync
    h1 = h1
    h2 = h2
    Jobs <- MCJobs
    Kind <- MCKind
    Pool <- MCPool
    Batches <- MCBatches
    None = None
INVARIANTS
    OneJobToAMachine
PROPERTIES
    DoneMeansDone
    OnlyFailedStartsLoseMachines
    StopHolds
    QueuedJobsStart
CHECK_DEADLOCK FALSE
