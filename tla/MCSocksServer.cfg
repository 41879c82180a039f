SPECIFICATION Spec
CONSTANTS
    s1 = s1
    s2 = s2
    s3 = s3
    h1 = h1
    c1 = c1
    Sockets <- MCSockets3
    UdpPorts <- MCPorts
    NoPort = NoPort
    AuthMethod = "password"
    Hosts <- MCHosts
    HostBlacklists <- MCNoHosts
    HostWhitelists <- MCNoHosts
    Clients <- MCClients1
    NoClient = NoClient
    MaxConnections = 2
    MaxFailedAttempts = 2
    ClientPatches <- MCPatches
SYMMETRY Symmetry
CHECK_DEADLOCK FALSE
INVARIANTS
    TrackedAreServed
    PoolNeverExhausted
    AttemptsBounded
PROPERTIES
    ImplementsLimiter
    LockoutHolds
