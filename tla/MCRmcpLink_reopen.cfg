SPECIFICATION Spec
CONSTANTS
    r1 = r1
    r2 = r2
    p1 = p1
    p2 = p2
    p3 = p3
    Requests <- MCRequests
    Priority <- MCPriority
    None = None
    Privileges <- MCPrivileges
    MaxFaults = 2
INVARIANTS
    DownHasNoSocket
CHECK_DEADLOCK FALSE
