SPECIFICATION Spec
CONSTANTS
    n1 = n1
    n2 = n2
    c1 = c1
    c2 = c2
    c3 = c3
    c4 = c4
    Notification = {n1}
    Copy = {c1, c2, c3}
    NoMessage = NoMessage
    MaxRetries = 1
    Request <- Single
    Concurrency = 2
    Faults <- Everything
    MaxFaults = 1
    Outages <- AnyOutage
    MaxOutages = 1
    HandlersOutlastRecovery = TRUE
SYMMETRY CopySymmetry
INVARIANTS
    TypeOK
    NoNotificationLost
    InFlightHasCarrier
    PublishesBounded
    DuplicatesBounded
PROPERTIES
    CancelHolds
    ImplementsAtLeastOnce
CHECK_DEADLOCK FALSE
