--------------------------- MODULE HandlerOutline ---------------------------
(***************************************************************************)
(* SocksSession's outline of a command handler, seen from one connection:  *)
(* what the steps HandlerSucceeds, HandlerFails and HandlerEnds, the peer, *)
(* and the server's close() do to the client socket and the last reply,    *)
(* from the moment handleCommand has started the handler. ConnectRelay,    *)
(* BindRelay and UdpAssociate are shown to implement this specification.   *)
(*                                                                         *)
(* Ports, and whether a socket was destroyed with an error, are no concern *)
(* of the handlers; the instance has them in a state no step changes.      *)
(***************************************************************************)
CONSTANT Kind         \* which handler: "connect", "bind" or "udp"

VARIABLES
    clientSock,       \* commandHandler.clientSocket
    lastReply         \* the last reply of the server that reached it

Client == "client"

Session == INSTANCE SocksSession WITH
    Sockets        <- {Client},
    UdpPorts       <- {},
    NoPort         <- 0,
    AuthMethod     <- "noauth",
    Hosts          <- {},
    HostBlacklists <- {{}},
    HostWhitelists <- {{}},
    process        <- "running",
    sock           <- [s \in {Client} |-> clientSock],
    hadError       <- [s \in {Client} |-> TRUE],
    state          <- [s \in {Client} |-> "DataRelayMode"],
    authHandler    <- [s \in {Client} |-> FALSE],
    reply          <- [s \in {Client} |-> lastReply],
    handler        <- [s \in {Client} |-> Kind],
    udpPort        <- [s \in {Client} |-> 0],
    usedUdpPorts   <- {},
    hostBlacklist  <- {},
    hostWhitelist  <- {}

HandlerNext ==
    \/ Session!HandlerSucceeds(Client)
    \/ Session!HandlerFails(Client)
    \/ Session!HandlerEnds(Client)
    \/ Session!PeerEnds(Client)
    \/ Session!PeerResets(Client)
    \/ Session!SocketCloses(Client)
    \/ Session!DestroyAll({Client})

\* A handler starts on a connection that is open, or was turned down before.
HandlerInit ==
    /\ clientSock \in {"open", "ended", "destroyed"}
    /\ lastReply \in Session!Replies

HandlerSpec == HandlerInit /\ [][HandlerNext]_<<clientSock, lastReply>>
=============================================================================
