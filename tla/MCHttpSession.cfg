SPECIFICATION FairHttpSessionSpec
CONSTANTS
    MaxChunks = 3
    Established = Established
    ServerError = ServerError
    MaxBody = 3
    Headers = Headers
CHECK_DEADLOCK FALSE
INVARIANTS
    TunnelStreamFaithful
    TunnelInOrder
    TunnelOrphansExplained
    EndMeansComplete
    BodyWhole
PROPERTIES
    EndsPassedOn
    SlotFreed
    ExchangeSettles
