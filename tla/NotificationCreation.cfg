SPECIFICATION Spec
CONSTANTS
    t1 = t1
    t2 = t2
    m1 = m1
    m2 = m2
    k1 = k1
    Template = {t1, t2}
    Name = {m1, m2}
    Text <- Texts
    Symbol = {"{", "}", "a", "b"}
    Open = "{"
    Close = "}"
    Variable <- Variables
    Value <- Values
    Kept = Kept
    NoTemplate = NoTemplate
    Editor = {e1, e2}
    Stored <- OneTemplate
    MaxDBFailures = 1
    Request = {r1, r2, r3}
    Input <- Inputs
    Key = {k1}
    NoKey = NoKey
    MaxContent = 1
    MaxBatch = 2
SYMMETRY AnyOrder
INVARIANTS
    TypeOK
    KeyOnce
    RejectedHasTwin
    AllOrNothing
    ContentIsSubstitution
PROPERTY OnlyRacesLoseUpdates
CHECK_DEADLOCK FALSE
