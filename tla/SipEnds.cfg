SPECIFICATION FairSpec
CONSTANTS
    a1 = a1
    a2 = a2
    c1 = c1
    c2 = c2
    s1 = s1
    NoCall = NoCall
    NoHost = NoHost
    BadHost = BadHost
    Agent = {a1, a2}
    Host = {a1, a2}
    CallId = {c1, c2}
    Dials <- OneDials
    StrangerPackets = {}
    RptLimit = 1
    QueueBound = 2
    CommandBound = 1
    NetBound = 1
    Lossy = TRUE
    Duplicating = FALSE
PROPERTIES
    RingingEnds
    InviteEnds
    ByeEnds
CHECK_DEADLOCK FALSE
