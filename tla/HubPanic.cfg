SPECIFICATION Spec
CONSTANTS
    n1 = n1
    n2 = n2
    b1 = b1
    Conn = {c1, c2}
    Unreliable = {c1, c2}
    Topic = {n1, n2, b1}
    Watched = {n1, n2, b1}
    NoTopic = NoTopic
    Update <- OneBatch
    Sender = {s1, s2}
    NoConn = NoConn
    MaxBroadcasts = 2
INVARIANTS
    DoesNotPanic
CHECK_DEADLOCK FALSE
