SPECIFICATION WireSpec
CONSTANTS
    IPv4Addresses <- MCIPv4Addresses
    DomainNames <- MCDomainNames
    IPv6Addresses <- MCIPv6Addresses
    Ports <- MCPorts
    Users <- MCUsers
    Passwords <- MCPasswords
    Credentials <- MCCredentials
    MaxExtra = 4
    Throws = Throws
CHECK_DEADLOCK FALSE
INVARIANTS
    ParseExact
    PayloadExact
    ReplyExact
    CredentialsExact
    TargetExact
