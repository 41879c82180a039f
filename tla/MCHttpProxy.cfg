SPECIFICATION FairHttpSpec
CONSTANTS
    s1 = s1
    s2 = s2
    s3 = s3
    h1 = h1
    c1 = c1
    Sockets <- MCSockets
    Clients <- MCClients
    NoClient = NoClient
    Hosts <- MCHosts
    BadUrl = BadUrl
    MaxConnections = 2
    MaxFailedAttempts = 2
    MaxBatch = 2
    MaxPatched = 2
    ClientPatches <- MCPatches
    HostPatches <- MCHostLists
CHECK_DEADLOCK FALSE
PROPERTIES
    ImplementsLimiter
    LockoutFreezes
    CloseCompletes
