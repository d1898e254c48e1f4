SPECIFICATION FairSpec
CONSTANTS
    Requests = {r1}
    NHooks = 2
    Togglers = {t1}
    Detaching = {2}
INVARIANTS
    TypeOK
    GateIsComplete
    EditsAreSerial
    SkippedGateIsNeverSent
    PlanFollowsToggles
PROPERTIES
    ImplementsGate
    GateDecides
