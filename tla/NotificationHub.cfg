SPECIFICATION FairSpec
CONSTANTS
    n1 = n1
    n2 = n2
    b1 = b1
    Conn = {c1, c2}
    Unreliable = {c1}
    Topic = {n1, n2, b1}
    Watched = {n1, b1}
    NoTopic = NoTopic
    Update <- BatchAndSingle
    Sender = {s1, s2}
    NoConn = NoConn
    MaxBroadcasts = 2
INVARIANTS
    TypeOK
    SubscribersExact
    NobodyPassedOver
PROPERTIES
    BroadcastEnds
CHECK_DEADLOCK FALSE
