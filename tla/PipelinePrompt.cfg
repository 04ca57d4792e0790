SPECIFICATION Spec
CONSTANTS
    n1 = n1
    n2 = n2
    c1 = c1
    c2 = c2
    c3 = c3
    c4 = c4
    Notification = {n1}
    Copy = {c1, c2, c3}
    NoMessage = NoMessage
    MaxRetries = 2
    Request <- Single
    Concurrency = 2
    Faults <- HarmlessFaults
    MaxFaults = 3
    Outages <- NoOutage
    MaxOutages = 0
    HandlersOutlastRecovery = FALSE
SYMMETRY CopySymmetry
INVARIANTS
    DeliveredOnce
    OneVerdict
CHECK_DEADLOCK FALSE
