SPECIFICATION FairSpec
CONSTANTS
    m1 = m1
    m2 = m2
    Message = {m1, m2}
    u1 = u1
    Client = {u1}
    Concurrencies <- SomeConcurrencies
    RateLimits = {0, 1}
    Intervals = {0, 1}
    LastVersion = 1
    MaxStarts = 2
    MaxMishaps = 1
INVARIANTS
    TypeOK
    ServesFullSchema
    RequestsHaveDependencies
    DeafnessExplained
PROPERTIES
    ShutdownEnds
    Progress
CHECK_DEADLOCK FALSE
