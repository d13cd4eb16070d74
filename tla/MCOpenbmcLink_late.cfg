SPECIFICATION Spec
CONSTANTS
    r1 = r1
    r2 = r2
    r3 = r3
    f1 = f1
    Requests <- MCRequests
    Faked <- MCFaked
    Priority <- MCPriority
    None = None
    Misfortunes = {{"late"}}
    MaxCopies = 2
    MaxLogins = 2
INVARIANTS
    AnswersMatch
CHECK_DEADLOCK FALSE
