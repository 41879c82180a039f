SPECIFICATION FairClientSpec
CONSTANTS
    s1 = s1
    s2 = s2
    h1 = h1
    c1 = c1
    c2 = c2
    Sockets <- MCSockets
    UdpPorts <- MCPorts
    NoPort = NoPort
    AuthMethod = "password"
    Hosts <- MCHosts
    HostBlacklists <- MCHostLists
    HostWhitelists <- MCHostLists
    Clients <- MCClients
    NoClient = NoClient
    MaxConnections = 2
    MaxFailedAttempts = 2
    ClientPatches <- MCPatches
    Honest <- MCOneHonest
    HonestClient = c1
    Offers <- MCBoth
CHECK_DEADLOCK FALSE
INVARIANTS
    HonestNotBlamed
PROPERTIES
    HonestAnswered
    HonestNeverHangs
    CloseCompletes
