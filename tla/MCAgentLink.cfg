SPECIFICATION FairSpec
CONSTANTS
    r1 = r1
    r2 = r2
    r3 = r3
    Requests <- MCRequests
    Priority <- MCPriority
    None = None
INVARIANTS
    Watched
PROPERTIES
    KeepsContract
    StrandedOnlyByFault
    CallsReturn
CHECK_DEADLOCK FALSE
