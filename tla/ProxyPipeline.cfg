SPECIFICATION FairSpec
CONSTANTS
    Requests = {r1, r2}
    maxAttempts = 2
    MaxChunks = 1
    OtherStatuses = {500}
INVARIANTS
    TypeOK
    RowIsFaithful
    PostHooksFollowSuccess
PROPERTIES
    AnsweredOnce
    ImplementsLedger
    EveryRequestEnds
    RelayedAnswerIsLogged
