SPECIFICATION Spec
CONSTANTS
    o1 = o1
    Id <- SomeIds
    Outside = {o1}
    Template <- SomeTemplates
    NoTemplate = NoTemplate
    Key = {1, 2}
    NoKey = NoKey
    Stamp = {1, 2}
    Writer = {w1, w2}
    Methods <- SomeMethods
    MaxSaves = 2
    MaxDBFailures = 1
    MaxSeedings = 2
    SeedName = {"sms"}
    SeedNumber = {3, 13}
    DefaultLimit = 1
    MaxLimit = 1
    Limits <- SomeLimits
    Offsets <- SomeOffsets
    Filters <- SomeFilters
SYMMETRY AnyWriter
INVARIANTS
    ListTypeOK
    EvidenceKept
    SeedsWhole
    StandingRowsListed
PROPERTIES
    SeedFailsExplained
CHECK_DEADLOCK FALSE
