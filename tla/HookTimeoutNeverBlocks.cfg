SPECIFICATION Spec
CONSTANTS
    Requests = {r1}
    NHooks = 1
    Togglers = {}
    Detaching = {}
INVARIANTS
    TimeoutNeverBlocks
