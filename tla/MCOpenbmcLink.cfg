SPECIFICATION FairSpec
CONSTANTS
    r1 = r1
    r2 = r2
    r3 = r3
    f1 = f1
    Requests <- MCRequests
    Faked <- MCFaked
    Priority <- MCPriority
    None = None
    Misfortunes = {{}, {"send"}, {"late", "send"}}
    MaxCopies = 2
    MaxLogins = 2
INVARIANTS
    SessionConsistent
    EveryRequestAccounted
    NeverExits
    WaitingIsReal
PROPERTIES
    ContractKept
    RequestsAnswered
CHECK_DEADLOCK FALSE
