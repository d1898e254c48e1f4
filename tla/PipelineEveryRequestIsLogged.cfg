SPECIFICATION Spec
CONSTANTS
    Requests = {r1}
    maxAttempts = 3
    MaxChunks = 2
    OtherStatuses = {500}
INVARIANTS
    EveryRequestIsLogged
