SPECIFICATION Spec
CONSTANTS
    a1 = a1
    a2 = a2
    c1 = c1
    c2 = c2
    s1 = s1
    NoCall = NoCall
    NoHost = NoHost
    BadHost = BadHost
    Agent = {a1}
    Host = {a1, s1}
    CallId = {c1, c2}
    Dials <- AnyDial
    StrangerPackets <- AllPackets
    RptLimit = 1
    QueueBound = 2
    CommandBound = 2
    NetBound = 2
    Lossy = FALSE
    Duplicating = TRUE
INVARIANTS
    TypeOK
    PendingActionFits
PROPERTY ConsentedCall
SYMMETRY SymmetricCalls
CHECK_DEADLOCK FALSE
