SPECIFICATION Spec
CONSTANTS
    r1 = r1
    r2 = r2
    r3 = r3
    Requests <- MCRequests
    Priority <- MCPriority
    None = None
PROPERTIES
    Reposted
CHECK_DEADLOCK FALSE
