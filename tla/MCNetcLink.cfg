SPECIFICATION FairSpec
CONSTANTS
    r1 = r1
    r2 = r2
    f1 = f1
    Requests <- MCRequests
    Faked <- MCFaked
    Priority <- MCPriority
    None = None
    Tool = "MSGP"
    IdMod = 2
INVARIANTS
    ConnectionConsistent
    TimersMatchState
    OneOutstanding
    EveryRequestAccounted
    ServedInOrder
PROPERTIES
    KeepsContract
    MostUrgentFirst
    PausedSendsNothing
    RejectionIsFinal
    NoForgottenBacklog
    Reconnects
    RequestsAnswered
CHECK_DEADLOCK FALSE
