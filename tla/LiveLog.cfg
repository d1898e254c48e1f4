SPECIFICATION FairSpec
CONSTANTS
    Viewers = {v1, v2}
    Browsers = {v1}
    MaxRows = 2
    Limit = 1
    Capacity = 1
INVARIANTS
    TypeOK
    ShownIsLogged
    StreamIsComplete
    PagingSkipsNothing
PROPERTIES
    CancelledChannelIsQuiet
    HandlersReturn
