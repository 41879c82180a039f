SPECIFICATION FairLifecycleSpec
CONSTANTS
    c1 = c1
    Clients <- MCClients
    MaxFailedAttempts = 2
    MaxCounted = 3
    MaxConns = 2
    MaxSignals = 2
CHECK_DEADLOCK FALSE
INVARIANTS
    ListsExact
PROPERTIES
    ShutdownEnds
    FileForgetsOnlySo
