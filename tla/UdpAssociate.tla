---------------------------- MODULE UdpAssociate ----------------------------
(***************************************************************************)
(* The UDP ASSOCIATE command, class UdpAssociateHandler: the UDP socket of *)
(* one association, the table of its client endpoints, and the TCP         *)
(* connection the association lives with. It details what SocksSession     *)
(* outlines as HandlerEnds for a UDP handler.                              *)
(*                                                                         *)
(* The network delivers any datagram at any time, any number of times and  *)
(* in any order, so a lost, repeated or reordered datagram is a choice of  *)
(* the next HandleUdpDatagram. A datagram is its source and what           *)
(* isSocks5Message and parseDestination make of its first bytes.           *)
(***************************************************************************)
EXTENDS Naturals, Sequences

CONSTANTS
    Addresses,       \* IPv4 addresses, the ones rinfo.address can hold
    Names,           \* other texts parseDestination returns: domains, IPv6
    Ports,           \* UDP ports a datagram can come from
    NoHeader,        \* isSocks5Message is false
    BadHeader,       \* isSocks5Message is true and parseDestination throws
    Datagrams        \* the datagrams that can reach the UDP socket

Endpoints    == Addresses \X Ports
Destinations == (Addresses \cup Names) \X (Ports \cup {0})

ASSUME UdpAssumption ==
    /\ 0 \notin Ports
    /\ NoHeader \notin Datagrams
    /\ {NoHeader, BadHeader} \cap Destinations = {}
    /\ Datagrams \subseteq [from: Endpoints, header: Destinations \cup {NoHeader, BadHeader}]

VARIABLES
    clientSock,      \* the client's TCP connection
    udpSock,         \* this.udpSocket, "closed" when isSocketClosed
    clientSessions,  \* this.clientSessions, in the order of insertion
    last,            \* the datagram handled last, for the properties
    out              \* what was given to udpSocket.send

udpVars == <<clientSock, udpSock, clientSessions, last, out>>

Session == [client: Endpoints, dest: Destinations]
Sent    == [kind: {"forward", "reply"}, to: Destinations \cup Endpoints, msg: Datagrams]

UdpTypeOK ==
    /\ clientSock \in {"open", "ended", "destroyed", "closed"}
    /\ udpSock \in {"open", "closed"}
    /\ clientSessions \in Seq(Session)
    /\ last \in Datagrams \cup {NoHeader}
    /\ out \subseteq Sent

\* After the constructor, whose reply does not wait for the bind: a bind that
\* fails is a UdpError. Writing the reply to a client that was already turned
\* down destroyed its socket.
UdpInit ==
    /\ clientSock \in {"open", "destroyed"}
    /\ udpSock = "open"
    /\ clientSessions = <<>>
    /\ last = NoHeader
    /\ out = {}

-----------------------------------------------------------------------------
(* handleUdpDatagram *)

IsSocks5Message(m) == m.header # NoHeader

Known(e)      == \E i \in 1..Len(clientSessions) : clientSessions[i].client = e
IsNew(m)      == ~Known(m.from) /\ IsSocks5Message(m)

\* Faulty variant of IsFirstFor: the port is not compared.
IsFirstForAddress(i, e) ==
    /\ clientSessions[i].dest[1] = e[1]
    /\ \A j \in 1..(i - 1) : clientSessions[j].dest[1] # e[1]

\* findSessionByDestination: the first session inserted for that destination.
IsFirstFor(i, e) ==
    /\ clientSessions[i].dest = e
    /\ \A j \in 1..(i - 1) : clientSessions[j].dest # e

\* sendToRemoteServer; port 0 is falsy.
SendToRemoteServer(m, s) ==
    out' = IF s.dest[2] = 0 THEN out
           ELSE out \cup {[kind |-> "forward", to |-> s.dest, msg |-> m]}

SendToClient(m, s) ==
    out' = out \cup {[kind |-> "reply", to |-> s.client, msg |-> m]}

OpenSession(m) ==
    LET s == [client |-> m.from, dest |-> m.header]
    IN  /\ clientSessions' = Append(clientSessions, s)
        /\ SendToRemoteServer(m, s)

\* A datagram of a source in the table, or without a header: it counts as an
\* answer if some session has its source as destination, unless that session
\* is of the source itself.
Answer(m) ==
    /\ UNCHANGED clientSessions
    /\ \E i \in 1..Len(clientSessions) :
         /\ IsFirstFor(i, m.from)
         /\ IF clientSessions[i].client # m.from THEN SendToClient(m, clientSessions[i])
            ELSE IF IsSocks5Message(m) THEN SendToRemoteServer(m, clientSessions[i])
            ELSE UNCHANGED out

\* Nobody's datagram, or one that parseDestination throws on.
Dropped(m) ==
    \/ IsNew(m) /\ m.header = BadHeader
    \/ ~IsNew(m) /\ \A i \in 1..Len(clientSessions) : clientSessions[i].dest # m.from

HandleUdpDatagram(m) ==
    /\ udpSock = "open"
    /\ \/ IsNew(m) /\ m.header # BadHeader /\ OpenSession(m)
       \/ ~IsNew(m) /\ Answer(m)
       \/ Dropped(m) /\ UNCHANGED <<clientSessions, out>>
    /\ last' = m
    /\ UNCHANGED <<clientSock, udpSock>>

-----------------------------------------------------------------------------
(* The end of the association *)

\* Faulty variant of Cleanup: super.cleanup() is not called.
CleanupUdpOnly == udpSock' = "closed" /\ UNCHANGED clientSock

\* cleanup: close the UDP socket, end the TCP connection. The second call
\* returns early.
Cleanup ==
    /\ udpSock' = "closed"
    /\ clientSock' = IF udpSock = "open" /\ clientSock = "open" THEN "ended" ELSE clientSock

\* 'error' of the UDP socket. (The listener for its 'close' is removed by the
\* cleanup that closes it.)
UdpError ==
    /\ udpSock = "open"
    /\ Cleanup
    /\ UNCHANGED <<clientSessions, last, out>>

\* The client's FIN, a reset, or the server's close().
ClientLeaves ==
    /\ clientSock \in {"open", "ended"}
    /\ clientSock' = "destroyed"
    /\ UNCHANGED <<udpSock, clientSessions, last, out>>

\* The 'close' event of the TCP connection, with the handler's listener.
ClientCloses ==
    /\ clientSock = "destroyed"
    /\ clientSock' = "closed"
    /\ udpSock' = "closed"
    /\ UNCHANGED <<clientSessions, last, out>>

-----------------------------------------------------------------------------
UdpNext ==
    \/ \E m \in Datagrams : HandleUdpDatagram(m)
    \/ UdpError
    \/ ClientLeaves
    \/ ClientCloses

UdpSpec == UdpInit /\ [][UdpNext]_udpVars

-----------------------------------------------------------------------------
(* Correctness *)

\* A datagram is passed on to a client only if that client has, over this
\* association, sent something to its source: nobody else can reach a client
\* through the proxy, whatever datagrams come and however headers and sources
\* coincide (the table of handleUdpDatagram and findSessionByDestination).
RepliesSolicited ==
    \A r \in out : r.kind = "reply" =>
        \E f \in out : f.kind = "forward" /\ f.msg.from = r.to /\ f.to = r.msg.from

\* The UDP socket and the TCP connection end together: without the one the
\* other is closed too, or closing (cleanup and its two ways in).
EndsTogether ==
    /\ udpSock = "closed" => clientSock # "open"
    /\ clientSock = "closed" => udpSock = "closed"

\* What an endpoint in the table sends as a SOCKS5 message is forwarded to
\* the remote server ("Message is from the client ... forward it to the
\* remote server", UDPAssociateCommandHandler.ts:117-119). The lookup of lines
\* 95-102 finds the session of a known client and then throws it away.
ClientMessagesForwarded ==
    [][\A m \in Datagrams :
         HandleUdpDatagram(m) /\ Known(m.from) /\ m.header \in Endpoints
            => \E f \in out' : f.kind = "forward" /\ f.msg = m]_udpVars

-----------------------------------------------------------------------------
(* The inductive invariant of the proofs *)

\* A session's first datagram was forwarded, unless its port is 0.
SessionsForwarded ==
    \A i \in 1..Len(clientSessions) :
        clientSessions[i].dest[2] # 0 =>
            \E f \in out : /\ f.kind = "forward"
                           /\ f.msg.from = clientSessions[i].client
                           /\ f.to = clientSessions[i].dest

UdpInv == UdpTypeOK /\ SessionsForwarded /\ RepliesSolicited /\ EndsTogether

-----------------------------------------------------------------------------
(* The outline in SocksSession *)

\* The constructor answered; nothing is written to the client socket after it.
Answered == "commandReply"

Outline == INSTANCE HandlerOutline WITH Kind <- "udp", lastReply <- Answered

\* What the association does to the client socket is what SocksSession knows of
\* a UDP handler: it ends the socket, once.
ImplementsOutline == Outline!HandlerSpec
=============================================================================
