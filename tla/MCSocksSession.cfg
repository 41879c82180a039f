SPECIFICATION SessionSpec
CONSTANTS
    s1 = s1
    s2 = s2
    s3 = s3
    h1 = h1
    Sockets <- MCSockets
    UdpPorts <- MCPorts
    NoPort = NoPort
    AuthMethod = "password"
    Hosts <- MCHosts
    HostBlacklists <- MCBlacklists
    HostWhitelists <- MCNoHosts
SYMMETRY SocketSymmetry
CHECK_DEADLOCK FALSE
INVARIANTS
    NoPortLeak
    PortsExclusiveWithoutErrors
PROPERTIES
    ImplementsHandshake
