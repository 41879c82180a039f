SPECIFICATION UdpSpec
CONSTANTS
    a1 = a1
    a2 = a2
    name = name
    none = none
    bad = bad
    Addresses <- MCAddresses
    Names <- MCNames
    Ports <- MCPorts
    NoHeader = none
    BadHeader = bad
    Datagrams <- MCDatagrams
CHECK_DEADLOCK FALSE
INVARIANTS
    RepliesSolicited
    EndsTogether
