--------------------------- MODULE MCUdpAssociate ---------------------------
(* Bounds for model checking UdpAssociate: two endpoints of one client, two *)
(* remote servers on one address, and datagrams of every kind.              *)
EXTENDS UdpAssociate

CONSTANTS a1, a2, name, none, bad

MCAddresses == {a1, a2}
MCNames     == {name}
MCPorts     == {1, 2}

Client(p) == <<a1, p>>
Remote(p) == <<a2, p>>

\* What well-behaved clients and remote servers send.
MCPlainDatagrams ==
    [from: {Client(1), Client(2)}, header: {Remote(1), Remote(2)}]
        \cup [from: {Remote(1), Remote(2)}, header: {none}]

\* Also headers that name nothing to send to or cannot be parsed, remote
\* servers whose answers look like SOCKS5 messages, and a client that names
\* itself.
MCDatagrams ==
    [from: {Client(1)}, header: {Remote(1), Remote(2), <<a2, 0>>, <<name, 1>>}]
        \cup [from: {Client(2)}, header: {Remote(1), Client(2), bad, none}]
        \cup [from: {Remote(1)}, header: {none, Client(1)}]
        \cup [from: {Remote(2)}, header: {none}]
=============================================================================
