SPECIFICATION FairSpec
CONSTANTS
    Callers = {c1, c2}
    Editors = {e1, e2}
    MaxVersion = 3
    Nobody = Nobody
INVARIANTS
    TypeOK
    FreshIsCurrent
    LockOrder
PROPERTIES
    ReadYourWrites
    CacheMovesForward
    ImplementsRegister
    CallsReturn
