SPECIFICATION HistorySpec
CONSTANTS
    a1 = a1
    a2 = a2
    c1 = c1
    c2 = c2
    s1 = s1
    NoCall = NoCall
    NoHost = NoHost
    BadHost = BadHost
    Agent = {a1, a2}
    Host = {a1, a2}
    CallId = {c1, c2}
    Dials <- AllDial
    StrangerPackets = {}
    RptLimit = 1
    QueueBound = 1
    CommandBound = 2
    NetBound = 2
    Lossy = TRUE
    Duplicating = FALSE
INVARIANTS
    NoEarlyConnect
    TwoPartyCalls
PROPERTY
    ImplementsPhoneCalls
SYMMETRY SymmetricAgentsAndCalls
CHECK_DEADLOCK FALSE
