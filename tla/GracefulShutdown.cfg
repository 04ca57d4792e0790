SPECIFICATION Spec
CONSTANTS
    n1 = n1
    n2 = n2
    c1 = c1
    c2 = c2
    c3 = c3
    c4 = c4
    Notification = {n1}
    Copy = {c1, c2}
    NoMessage = NoMessage
    MaxRetries = 1
    Request <- Single
    Concurrency = 1
    Faults <- NoFault
    MaxFaults = 0
    Outages <- StopOnly
    MaxOutages = 1
    HandlersOutlastRecovery = FALSE
INVARIANTS
    NothingLost
CHECK_DEADLOCK FALSE
