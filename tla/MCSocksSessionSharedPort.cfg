SPECIFICATION SessionSpec
CONSTANTS
    s1 = s1
    s2 = s2
    s3 = s3
    h1 = h1
    Sockets <- MCSockets
    UdpPorts <- MCPorts
    NoPort = NoPort
    AuthMethod = "noauth"
    Hosts <- MCHosts
    HostBlacklists <- MCNoHosts
    HostWhitelists <- MCNoHosts
SYMMETRY SocketSymmetry
CHECK_DEADLOCK FALSE
INVARIANTS
    PortsExclusive
