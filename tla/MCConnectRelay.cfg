SPECIFICATION FairConnectSpec
CONSTANTS
    MaxChunks = 3
    Success = Success
    Failure = Failure
CHECK_DEADLOCK FALSE
INVARIANTS
    RelayInOrder
    StreamFaithful
    OrphansExplained
PROPERTIES
    ConnectAnswered
