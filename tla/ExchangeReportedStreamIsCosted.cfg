SPECIFICATION Spec
CONSTANTS
    Calls <- MCCalls
    Aliases <- MCAliases
    Edits <- MCEdits
    Environments <- MCEnvironments
    Usages <- MCUsages
    OtherStatuses = {500}
    RetryAfters = {0}
    maxAttempts = 3
    MaxLines = 4
    Second = 3
    baseRetryWait = 6
    maxRetryWait = 90
    Half = 128
INVARIANT ReportedStreamIsCosted
