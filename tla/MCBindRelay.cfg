SPECIFICATION FairBindSpec
CONSTANTS
    MaxChunks = 2
    MaxExtra = 1
    Success = Success
    Failure = Failure
CHECK_DEADLOCK FALSE
INVARIANTS
    BindStreamFaithful
    BindRelayInOrder
PROPERTIES
    RemoteEndReachesClient
