SPECIFICATION FairSpec
CONSTANTS
    r1 = r1
    r2 = r2
    p1 = p1
    p2 = p2
    p3 = p3
    Requests <- MCRequests
    Priority <- MCPriority
    None = None
    Privileges <- MCPrivileges
    MaxFaults = 2
INVARIANTS
    Watched
    LineKept
PROPERTIES
    ContractKept
    CallsReturn
CHECK_DEADLOCK FALSE
