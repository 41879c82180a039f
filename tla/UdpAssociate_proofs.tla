------------------------ MODULE UdpAssociate_proofs ------------------------
(***************************************************************************)
(* A UDP association lets no unsolicited datagram through to a client, for *)
(* any endpoints, destinations and datagrams, and implements               *)
(* HandlerOutline.                                                         *)
(***************************************************************************)
EXTENDS UdpAssociate, TLAPS

\* The invariant holds after the constructor.
LEMMA InitUdpInv == UdpInit => UdpInv
<1> SUFFICES ASSUME UdpInit
             PROVE  UdpInv
  OBVIOUS
<1>1. UdpTypeOK
  <2>1. clientSessions \in Seq(Session)
    BY DEF UdpInit
  <2> QED BY <2>1, Zenon DEF UdpInit, UdpTypeOK
<1>2. SessionsForwarded /\ RepliesSolicited /\ EndsTogether
  BY DEF UdpInit, SessionsForwarded, RepliesSolicited, EndsTogether
<1> QED BY <1>1, <1>2 DEF UdpInv

\* Sending more never takes a forwarded datagram back.
LEMMA MoreSent ==
    ASSUME SessionsForwarded, UNCHANGED clientSessions, out \subseteq out'
    PROVE  SessionsForwarded'
BY DEF SessionsForwarded

\* A datagram forwarded to a server is no reply and takes nothing back.
LEMMA ForwardKeepsSolicited ==
    ASSUME RepliesSolicited, NEW m, NEW s, SendToRemoteServer(m, s)
    PROVE  RepliesSolicited' /\ out \subseteq out'
<1>1. \A r \in out' : r.kind = "reply" => r \in out
  BY DEF SendToRemoteServer
<1>2. out \subseteq out'
  BY DEF SendToRemoteServer
<1> QED BY <1>1, <1>2 DEF RepliesSolicited

\* Every datagram and every end of a socket keeps the invariant.
LEMMA NextUdpInv == UdpInv /\ [UdpNext]_udpVars => UdpInv'
<1> SUFFICES ASSUME UdpInv, [UdpNext]_udpVars
             PROVE  UdpInv'
  OBVIOUS
<1>1. ASSUME NEW m \in Datagrams, HandleUdpDatagram(m)
      PROVE  UdpInv'
  <2>1. /\ m.from \in Endpoints
        /\ m.from \in Destinations
        /\ m.from[2] # 0
        /\ m.header \in Destinations \cup {NoHeader, BadHeader}
    BY UdpAssumption DEF Endpoints, Destinations
  <2>2. last' = m /\ UNCHANGED <<clientSock, udpSock>>
    BY <1>1 DEF HandleUdpDatagram
  <2>3. EndsTogether'
    BY <2>2 DEF UdpInv, EndsTogether
  <2>4. SUFFICES /\ clientSessions' \in Seq(Session)
                 /\ out' \subseteq Sent
                 /\ SessionsForwarded'
                 /\ RepliesSolicited'
    BY <2>2, <2>3 DEF UdpInv, UdpTypeOK
  <2>5. CASE IsNew(m) /\ m.header # BadHeader /\ OpenSession(m)
    <3> DEFINE s == [client |-> m.from, dest |-> m.header]
               n == Len(clientSessions)
    <3>1. m.header \in Destinations
      BY <2>1, <2>5 DEF IsNew, IsSocks5Message
    <3>2. s \in Session /\ clientSessions' = Append(clientSessions, s) /\ SendToRemoteServer(m, s)
      BY <2>1, <2>5, <3>1 DEF Session, OpenSession
    <3>3. clientSessions' \in Seq(Session)
      BY <3>2 DEF UdpInv, UdpTypeOK
    <3>4. out' \subseteq Sent
      BY <3>1, <3>2 DEF UdpInv, UdpTypeOK, Sent, SendToRemoteServer
    <3>5. RepliesSolicited' /\ out \subseteq out'
      BY <3>2, ForwardKeepsSolicited DEF UdpInv
    <3>6. SessionsForwarded'
      <4>1. /\ Len(clientSessions') = n + 1
            /\ clientSessions'[n + 1] = s
            /\ \A i \in 1..n : clientSessions'[i] = clientSessions[i]
            /\ n \in Nat
        BY <3>2 DEF UdpInv, UdpTypeOK
      <4> SUFFICES ASSUME NEW i \in 1..(n + 1), clientSessions'[i].dest[2] # 0
                   PROVE  \E f \in out' : /\ f.kind = "forward"
                                          /\ f.msg.from = clientSessions'[i].client
                                          /\ f.to = clientSessions'[i].dest
        BY <4>1 DEF SessionsForwarded
      <4>2. CASE i \in 1..n
        BY <3>5, <4>1, <4>2 DEF UdpInv, SessionsForwarded
      <4>3. CASE i = n + 1
        <5>1. [kind |-> "forward", to |-> m.header, msg |-> m] \in out'
          BY <3>2, <4>1, <4>3 DEF SendToRemoteServer
        <5> QED BY <4>1, <4>3, <5>1
      <4> QED BY <4>1, <4>2, <4>3
    <3> QED BY <3>3, <3>4, <3>5, <3>6
  <2>6. CASE ~IsNew(m) /\ Answer(m)
    <3>1. PICK i \in 1..Len(clientSessions) :
            /\ IsFirstFor(i, m.from)
            /\ IF clientSessions[i].client # m.from THEN SendToClient(m, clientSessions[i])
               ELSE IF IsSocks5Message(m) THEN SendToRemoteServer(m, clientSessions[i])
               ELSE UNCHANGED out
      BY <2>6 DEF Answer
    <3>2. UNCHANGED clientSessions /\ clientSessions \in Seq(Session) /\ out \subseteq Sent
      BY <2>6 DEF Answer, UdpInv, UdpTypeOK
    <3>3. clientSessions[i] \in Session /\ clientSessions[i].dest = m.from
      BY <3>1, <3>2 DEF IsFirstFor
    <3>4. clientSessions[i].client \in Endpoints /\ clientSessions[i].dest \in Destinations
      BY <3>3 DEF Session
    <3>5. CASE SendToClient(m, clientSessions[i])
      <4> DEFINE r == [kind |-> "reply", to |-> clientSessions[i].client, msg |-> m]
      <4>1. out' = out \cup {r} /\ r \in Sent
        BY <3>4, <3>5 DEF SendToClient, Sent
      <4>2. SessionsForwarded'
        BY <3>2, <4>1, MoreSent DEF UdpInv
      <4>3. \E f \in out : /\ f.kind = "forward"
                           /\ f.msg.from = clientSessions[i].client
                           /\ f.to = m.from
        BY <2>1, <3>3 DEF UdpInv, SessionsForwarded
      <4>4. RepliesSolicited'
        BY <4>1, <4>3 DEF UdpInv, RepliesSolicited
      <4> QED BY <3>2, <4>1, <4>2, <4>4
    <3>6. CASE SendToRemoteServer(m, clientSessions[i])
      <4>1. RepliesSolicited' /\ out \subseteq out'
        BY <3>6, ForwardKeepsSolicited DEF UdpInv
      <4>2. SessionsForwarded'
        BY <3>2, <4>1, MoreSent DEF UdpInv
      <4>3. out' \subseteq Sent
        BY <3>2, <3>4, <3>6 DEF SendToRemoteServer, Sent
      <4> QED BY <3>2, <4>1, <4>2, <4>3
    <3>7. CASE UNCHANGED out
      BY <3>2, <3>7 DEF UdpInv, SessionsForwarded, RepliesSolicited
    <3> QED BY <3>1, <3>5, <3>6, <3>7
  <2>7. CASE UNCHANGED <<clientSessions, out>>
    BY <2>7 DEF UdpInv, UdpTypeOK, SessionsForwarded, RepliesSolicited
  <2> QED BY <1>1, <2>5, <2>6, <2>7 DEF HandleUdpDatagram
<1>2. CASE UdpError
  BY <1>2 DEF UdpError, Cleanup, UdpInv, UdpTypeOK, SessionsForwarded, RepliesSolicited,
              EndsTogether
<1>3. CASE ClientLeaves
  BY <1>3 DEF ClientLeaves, UdpInv, UdpTypeOK, SessionsForwarded, RepliesSolicited, EndsTogether
<1>4. CASE ClientCloses
  BY <1>4 DEF ClientCloses, UdpInv, UdpTypeOK, SessionsForwarded, RepliesSolicited, EndsTogether
<1>5. CASE UNCHANGED udpVars
  BY <1>5 DEF udpVars, UdpInv, UdpTypeOK, SessionsForwarded, RepliesSolicited, EndsTogether
<1> QED BY <1>1, <1>2, <1>3, <1>4, <1>5 DEF UdpNext

\* The inductive invariant of an association: the session table only holds
\* pairs for which something was forwarded, unless the port is 0.
THEOREM UdpInvariant == UdpSpec => []UdpInv
BY InitUdpInv, NextUdpInv, PTL DEF UdpSpec

\* The table and everything given to the UDP socket are well typed: no
\* datagram is sent to a destination parseDestination did not return.
THEOREM UdpTypeCorrect == UdpSpec => []UdpTypeOK
BY UdpInvariant, PTL DEF UdpInv

\* Whatever datagrams arrive, a client gets one only from a source it has
\* sent something to over this association.
THEOREM RepliesAreSolicited == UdpSpec => []RepliesSolicited
BY UdpInvariant, PTL DEF UdpInv

\* The UDP socket never outlives the closed TCP connection, nor does an open
\* connection outlive the UDP socket.
THEOREM AssociationEndsTogether == UdpSpec => []EndsTogether
BY UdpInvariant, PTL DEF UdpInv
-----------------------------------------------------------------------------
(* The refinement of HandlerOutline *)

\* A function on one socket is changed by changing its value.
LEMMA OneSocket ==
    ASSUME NEW c, NEW x, NEW y
    PROVE  [[s \in {c} |-> x] EXCEPT ![c] = y] = [s \in {c} |-> y]
  OBVIOUS

\* The handler ends the client socket.
LEMMA Ends ==
    ASSUME clientSock \in {"open", "ended"}, clientSock' = "ended", Answered' = Answered
    PROVE  Outline!HandlerNext
<1> HIDE DEF Answered
<1>1. Outline!Session!HandlerEnds(Outline!Client)
  BY OneSocket DEF Outline!Session!HandlerEnds, Outline!Session!SetSock, Outline!Session!Readable,
              Outline!Session!Running, Outline!Session!dialogVars, Outline!Session!poolVars,
              Outline!Session!filterVars
<1> QED BY <1>1 DEF Outline!HandlerNext

\* The client socket is destroyed, by its peer or by a write after its end.
LEMMA Goes ==
    ASSUME clientSock \in {"open", "ended"}, clientSock' = "destroyed", Answered' = Answered
    PROVE  Outline!HandlerNext
<1> HIDE DEF Answered
<1>1. Outline!Session!PeerEnds(Outline!Client)
  BY OneSocket DEF Outline!Session!PeerEnds, Outline!Session!SetSock, Outline!Session!Readable,
              Outline!Session!Running, Outline!Session!dialogVars, Outline!Session!poolVars,
              Outline!Session!filterVars
<1> QED BY <1>1 DEF Outline!HandlerNext

\* The 'close' event.
LEMMA SocketIsClosed ==
    ASSUME clientSock = "destroyed", clientSock' = "closed", Answered' = Answered
    PROVE  Outline!HandlerNext
<1> HIDE DEF Answered
<1>1. Outline!Session!SocketCloses(Outline!Client)
  BY OneSocket DEF Outline!Session!SocketCloses, Outline!Session!SetSock, Outline!Session!Readable,
              Outline!Session!Running, Outline!Session!dialogVars, Outline!Session!poolVars,
              Outline!Session!filterVars, Outline!Session!ReleaseUdpPort
<1> QED BY <1>1 DEF Outline!HandlerNext

\* Every step of the association is one of the outline, or none to the client
\* socket.
LEMMA UdpOutlined ==
    ASSUME [UdpNext]_udpVars
    PROVE  [Outline!HandlerNext]_<<clientSock, Answered>>
<1> DEFINE Shown == [Outline!HandlerNext]_<<clientSock, Answered>>
<1>1. Answered' = Answered
  BY DEF Answered
<1>2. ASSUME clientSock' = clientSock
      PROVE  Shown
  BY <1>1, <1>2
<1>3. CASE UdpError
  <2>1. CASE clientSock = "open"
    <3>1. clientSock' = "ended"
      BY <2>1, <1>3 DEF UdpError, Cleanup
    <3> QED BY <2>1, <3>1, <1>1, Ends
  <2>2. CASE clientSock # "open"
    BY <2>2, <1>2, <1>3 DEF UdpError, Cleanup
  <2> QED BY <2>1, <2>2
<1>4. CASE ClientLeaves
  BY <1>1, <1>4, Goes DEF ClientLeaves
<1>5. CASE ClientCloses
  BY <1>1, <1>5, SocketIsClosed DEF ClientCloses
<1>6. CASE (\E m \in Datagrams : HandleUdpDatagram(m)) \/ UNCHANGED udpVars
  BY <1>2, <1>6 DEF HandleUdpDatagram, udpVars
<1> QED BY <1>3, <1>4, <1>5, <1>6 DEF UdpNext

\* The association begins on a connection that was answered, or destroyed by the
\* attempt.
LEMMA InitUdpOutlined == UdpInit => Outline!HandlerInit
  BY DEF UdpInit, Outline!HandlerInit, Answered, Outline!Session!Replies

\* The UDP association implements what SocksSession outlines of it (cleanup of
\* UdpAssociateHandler and its ways in).
THEOREM UdpImplementsOutline == UdpSpec => ImplementsOutline
  BY InitUdpOutlined, UdpOutlined, PTL
  DEF UdpSpec, ImplementsOutline, Outline!HandlerSpec
=============================================================================
