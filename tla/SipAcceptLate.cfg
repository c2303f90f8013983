SPECIFICATION FairSpec
CONSTANTS
    a1 = a1
    a2 = a2
    c1 = c1
    c2 = c2
    s1 = s1
    NoCall = NoCall
    NoHost = NoHost
    BadHost = BadHost
    Agent = {a1, a2}
    Host = {a1, a2}
    CallId = {c1}
    Dials <- OneDials
    StrangerPackets = {}
    RptLimit = 1
    QueueBound = 1
    CommandBound = 2
    NetBound = 2
    Lossy = FALSE
    Duplicating = FALSE
PROPERTY
    AcceptedCallConnects
CHECK_DEADLOCK FALSE
