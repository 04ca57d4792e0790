SPECIFICATION FairSpec
CONSTANT
    Retries = 3
INVARIANTS
    TypeOK
    Persistent
PROPERTIES
    ImplementsSendContract
    Returns
CHECK_DEADLOCK FALSE
