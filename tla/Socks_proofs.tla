---------------------------- MODULE Socks_proofs ----------------------------
(***************************************************************************)
(* Theorems about SocksSession, SocksServer and SocksClient, in this order:*)
(* the steps of the server are steps of its sessions, the steps of clients *)
(* in lock step are steps of the server, and what is proved of the one     *)
(* holds of the other.                                                     *)
(*                                                                         *)
(* Sessions: SessionInv is inductive, and implies the properties of the    *)
(* ports and the refinement of SocksHandshake. The server: the connections *)
(* it tracks are those it serves and never more than allowed, it           *)
(* implements ConnectionLimiter, it never runs out of UDP ports, keeps     *)
(* locked-out clients out, and bounds the attempts of the others. Clients  *)
(* in lock step: one that is right and keeps to the protocol is not        *)
(* blamed.                                                                 *)
(***************************************************************************)
EXTENDS SocksClient, FiniteSetTheorems, TLAPS

\* A write leaves the socket readable or destroys it, and answers only on a
\* socket that was open.
LEMMA SendLemma ==
    ASSUME SessionInv, NEW s \in Sockets, NEW r \in Replies,
           NEW after \in {"open", "ended", "destroyed"}, Send(s, r, after)
    PROVE  /\ sock' \in [Sockets -> SocketStates]
           /\ hadError' \in [Sockets -> BOOLEAN]
           /\ reply' \in [Sockets -> Replies]
           /\ usedUdpPorts' \subseteq usedUdpPorts
           /\ \A t \in Sockets : t # s =>
                sock'[t] = sock[t] /\ hadError'[t] = hadError[t] /\ reply'[t] = reply[t]
           /\ Readable(s) /\ Live(s)'
           /\ \/ /\ sock[s] = "open" /\ sock'[s] = after /\ reply'[s] = r
                 /\ usedUdpPorts' = usedUdpPorts /\ hadError' = hadError
              \/ /\ sock[s] = "ended" /\ sock'[s] = "destroyed" /\ reply' = reply
                 /\ usedUdpPorts' = usedUdpPorts \ {udpPort[s]} /\ hadError'[s]
  BY DEF SessionInv, SessionTypeOK, Send, FailSocket, ReleaseUdpPort, SetSock,
         SocketStates, Live, Readable

\* The invariant holds before the first connection.
LEMMA InitInv == SessionInit => SessionInv
  BY SessionAssumption
  DEF SessionAssumption, SessionInit, SessionInv, SessionTypeOK, SessionsHavePorts,
      AuthStateHasHandler, RefusedStaysOut, NoPortLeak, UsedSetExact, Live, Readable,
      SocketStates, SessionStates, Replies, Handlers

-----------------------------------------------------------------------------
(* Every step preserves SessionInv *)

\* What a step must do to keep the pool consistent when it neither opens nor
\* closes a connection: take a port out of the used set only with an error.
LEMMA PoolKept ==
    ASSUME SessionInv,
           udpPort' = udpPort,
           \A t \in Sockets : Live(t)' <=> Live(t),
           \A t \in Sockets : hadError[t] => hadError'[t],
           usedUdpPorts' \subseteq usedUdpPorts,
           usedUdpPorts' = usedUdpPorts \/ \E t \in Sockets : hadError'[t]
    PROVE  NoPortLeak' /\ UsedSetExact'
<1>1. NoPortLeak'
  BY DEF SessionInv, NoPortLeak
<1>2. UsedSetExact'
  BY DEF SessionInv, UsedSetExact
<1> QED BY <1>1, <1>2

\* Steps that only end or destroy one readable socket.
LEMMA SetSockInv ==
    ASSUME SessionInv, NEW s \in Sockets, Readable(s),
           NEW st \in {"ended", "destroyed"}, SetSock(s, st),
           UNCHANGED <<process, hadError, dialogVars, poolVars, filterVars>>
    PROVE  SessionInv'
<1>1. /\ sock' \in [Sockets -> SocketStates]
      /\ \A t \in Sockets : t # s => sock'[t] = sock[t]
      /\ sock'[s] = st
  BY DEF SessionInv, SessionTypeOK, SetSock, SocketStates
<1>2. \A t \in Sockets : Live(t)' <=> Live(t)
  BY <1>1 DEF Live, Readable
<1>3. SessionTypeOK'
  BY <1>1 DEF SessionInv, SessionTypeOK, dialogVars, poolVars, filterVars
<1>4. SessionsHavePorts' /\ AuthStateHasHandler'
  BY <1>1 DEF SessionInv, SessionsHavePorts, AuthStateHasHandler, Readable,
              dialogVars, poolVars
<1>5. RefusedStaysOut'
  BY <1>1 DEF SessionInv, RefusedStaysOut, Readable, dialogVars
<1>6. NoPortLeak' /\ UsedSetExact'
  BY <1>2, PoolKept DEF poolVars
<1> QED BY <1>3, <1>4, <1>5, <1>6 DEF SessionInv

\* Steps that write a reply and move the dialog of one session on, as long as
\* the new dialog state is consistent.
LEMMA SendInv ==
    ASSUME SessionInv, NEW s \in Sockets, NEW r \in Replies,
           NEW after \in {"open", "ended", "destroyed"}, Send(s, r, after),
           UNCHANGED <<process, udpPort, filterVars>>,
           state' \in [Sockets -> SessionStates],
           authHandler' \in [Sockets -> BOOLEAN],
           handler' \in [Sockets -> Handlers],
           \A t \in Sockets : t # s =>
             state'[t] = state[t] /\ authHandler'[t] = authHandler[t] /\ handler'[t] = handler[t],
           state'[s] # "AwaitingGreeting",
           state'[s] = "AwaitingAuthentication" => authHandler'[s] /\ AuthMethod = "password",
           state'[s] \in {"AwaitingInitialCommand", "DataRelayMode"} => ~authHandler'[s],
           handler'[s] # "none" <=> state'[s] = "DataRelayMode",
           r = "authFailed" => after = "ended" /\ state'[s] = "AwaitingAuthentication",
           reply[s] = "authFailed" => handler'[s] = "none"
    PROVE  SessionInv'
<1>1. /\ sock' \in [Sockets -> SocketStates]
      /\ hadError' \in [Sockets -> BOOLEAN]
      /\ reply' \in [Sockets -> Replies]
      /\ usedUdpPorts' \subseteq usedUdpPorts
      /\ \A t \in Sockets : t # s =>
           sock'[t] = sock[t] /\ hadError'[t] = hadError[t] /\ reply'[t] = reply[t]
      /\ Readable(s) /\ Live(s)'
      /\ \/ /\ sock[s] = "open" /\ sock'[s] = after /\ reply'[s] = r
            /\ usedUdpPorts' = usedUdpPorts /\ hadError' = hadError
         \/ /\ sock[s] = "ended" /\ sock'[s] = "destroyed" /\ reply' = reply
            /\ usedUdpPorts' = usedUdpPorts \ {udpPort[s]} /\ hadError'[s]
  BY SendLemma
<1>2. SessionTypeOK'
  BY <1>1 DEF SessionInv, SessionTypeOK, filterVars
<1>3. SessionsHavePorts'
  BY <1>1 DEF SessionInv, SessionsHavePorts, Readable
<1>4. AuthStateHasHandler'
  BY <1>1 DEF SessionInv, AuthStateHasHandler
<1>5. RefusedStaysOut'
  BY <1>1 DEF SessionInv, RefusedStaysOut
<1>6. \A t \in Sockets : Live(t)' <=> Live(t)
  BY <1>1 DEF Live, Readable
<1>7. NoPortLeak' /\ UsedSetExact'
  BY <1>1, <1>6, PoolKept
<1> QED BY <1>2, <1>3, <1>4, <1>5, <1>7 DEF SessionInv

\* Opening a connection: the port it gets was in nobody's hands, unless a
\* socket had failed before.
LEMMA NewSessionInv ==
    ASSUME SessionInv, NEW s \in Sockets, NewSession(s)
    PROVE  SessionInv'
<1>1. PICK p \in FreePorts : /\ udpPort' = [udpPort EXCEPT ![s] = p]
                             /\ usedUdpPorts' = usedUdpPorts \cup {p}
  BY DEF NewSession, AssignUdpPort
<1>2. p \in UdpPorts /\ p # NoPort /\ p \notin usedUdpPorts
  BY <1>1, SessionAssumption DEF SessionAssumption, FreePorts
<1>3. /\ sock[s] = "none" /\ sock'[s] = "open"
      /\ sock' \in [Sockets -> SocketStates]
      /\ \A t \in Sockets : t # s => sock'[t] = sock[t]
  BY DEF NewSession, SetSock, SessionInv, SessionTypeOK, SocketStates
<1>4. udpPort'[s] = p /\ \A t \in Sockets : t # s => udpPort'[t] = udpPort[t]
  BY <1>1 DEF SessionInv, SessionTypeOK
<1>5. SessionTypeOK'
  BY <1>1, <1>2, <1>3 DEF SessionInv, SessionTypeOK, NewSession, dialogVars, filterVars
<1>6. SessionsHavePorts' /\ AuthStateHasHandler' /\ RefusedStaysOut'
  BY <1>2, <1>3, <1>4
  DEF SessionInv, SessionsHavePorts, AuthStateHasHandler, RefusedStaysOut, Readable,
      NewSession, dialogVars
<1>7. NoPortLeak'
  BY <1>1, <1>3, <1>4 DEF SessionInv, NoPortLeak, Live, Readable
<1>8. UsedSetExact'
  <2> SUFFICES ASSUME \A t \in Sockets : ~hadError'[t]
               PROVE  /\ \A t \in Sockets : Live(t)' /\ udpPort'[t] # NoPort
                                             => udpPort'[t] \in usedUdpPorts'
                      /\ \A t, u \in Sockets :
                           Live(t)' /\ Live(u)' /\ udpPort'[t] # NoPort
                             /\ udpPort'[t] = udpPort'[u] => t = u
    BY DEF UsedSetExact
  <2>1. \A t \in Sockets : Live(t) /\ udpPort[t] # NoPort => udpPort[t] \in usedUdpPorts
    BY DEF SessionInv, UsedSetExact, NewSession
  <2>2. \A t \in Sockets : t # s => (Live(t)' <=> Live(t))
    BY <1>3 DEF Live, Readable
  <2>3. \A t \in Sockets : t # s /\ Live(t)' /\ udpPort'[t] # NoPort => udpPort'[t] # p
    BY <1>2, <1>4, <2>1, <2>2
  <2>4. \A t, u \in Sockets : Live(t) /\ Live(u) /\ udpPort[t] # NoPort
                               /\ udpPort[t] = udpPort[u] => t = u
    BY DEF SessionInv, UsedSetExact, NewSession
  <2> QED BY <1>1, <1>4, <2>1, <2>2, <2>3, <2>4
<1> QED BY <1>5, <1>6, <1>7, <1>8 DEF SessionInv

\* Closing a connection: the port that leaves the used set was, as long as
\* nothing failed, this connection's only.
LEMMA SocketClosesInv ==
    ASSUME SessionInv, NEW s \in Sockets, SocketCloses(s)
    PROVE  SessionInv'
<1>1. /\ sock[s] = "destroyed" /\ sock'[s] = "closed"
      /\ sock' \in [Sockets -> SocketStates]
      /\ \A t \in Sockets : t # s => sock'[t] = sock[t]
      /\ usedUdpPorts' = usedUdpPorts \ {udpPort[s]}
  BY DEF SocketCloses, ReleaseUdpPort, SetSock, SessionInv, SessionTypeOK, SocketStates
<1>2. SessionTypeOK'
  BY <1>1 DEF SessionInv, SessionTypeOK, SocketCloses, dialogVars, filterVars
<1>3. SessionsHavePorts' /\ AuthStateHasHandler' /\ RefusedStaysOut'
  BY <1>1 DEF SessionInv, SessionsHavePorts, AuthStateHasHandler, RefusedStaysOut, Readable,
      SocketCloses, dialogVars
<1>4. \A t \in Sockets : Live(t)' <=> Live(t) /\ t # s
  BY <1>1 DEF Live, Readable
<1>5. NoPortLeak'
  BY <1>1, <1>4 DEF SessionInv, NoPortLeak, SocketCloses
<1>6. UsedSetExact'
  BY <1>1, <1>4 DEF SessionInv, UsedSetExact, SocketCloses, Live
<1> QED BY <1>2, <1>3, <1>5, <1>6 DEF SessionInv

\* A refused connection has no session and no port.
LEMMA RefuseConnectionInv ==
    ASSUME SessionInv, NEW s \in Sockets, RefuseConnection(s)
    PROVE  SessionInv'
<1>1. /\ sock[s] = "none" /\ sock'[s] = "destroyed" /\ udpPort[s] = NoPort
      /\ sock' \in [Sockets -> SocketStates]
      /\ \A t \in Sockets : t # s => sock'[t] = sock[t]
      /\ UNCHANGED <<process, hadError, dialogVars, poolVars, filterVars>>
  BY DEF RefuseConnection, SetSock, SessionInv, SessionTypeOK, SessionsHavePorts, SocketStates
<1>2. SessionTypeOK'
  BY <1>1 DEF SessionInv, SessionTypeOK, dialogVars, poolVars, filterVars
<1>3. SessionsHavePorts' /\ AuthStateHasHandler' /\ RefusedStaysOut'
  BY <1>1 DEF SessionInv, SessionsHavePorts, AuthStateHasHandler, RefusedStaysOut, Readable,
      dialogVars, poolVars
<1>4. \A t \in Sockets : t # s => (Live(t)' <=> Live(t))
  BY <1>1 DEF Live, Readable
<1>5. NoPortLeak' /\ UsedSetExact'
  BY <1>1, <1>4 DEF SessionInv, SessionTypeOK, NoPortLeak, UsedSetExact, Live, Readable, poolVars
<1> QED BY <1>2, <1>3, <1>5 DEF SessionInv

\* The sockets named in S are destroyed together.
LEMMA DestroyAllInv ==
    ASSUME SessionInv, NEW S \in SUBSET Sockets, DestroyAll(S)
    PROVE  SessionInv'
<1>1. /\ sock' \in [Sockets -> SocketStates]
      /\ \A t \in Sockets : sock'[t] = sock[t] \/ (Readable(t) /\ sock'[t] = "destroyed")
      /\ UNCHANGED <<process, hadError, dialogVars, poolVars, filterVars>>
  BY DEF DestroyAll, SessionInv, SessionTypeOK, SocketStates
<1>2. SessionTypeOK'
  BY <1>1 DEF SessionInv, SessionTypeOK, dialogVars, poolVars, filterVars
<1>3. SessionsHavePorts' /\ AuthStateHasHandler' /\ RefusedStaysOut'
  BY <1>1 DEF SessionInv, SessionsHavePorts, AuthStateHasHandler, RefusedStaysOut, Readable,
      dialogVars, poolVars
<1>4. \A t \in Sockets : Live(t)' <=> Live(t)
  BY <1>1 DEF Live, Readable
<1>5. NoPortLeak' /\ UsedSetExact'
  BY <1>1, <1>4, PoolKept DEF poolVars
<1> QED BY <1>2, <1>3, <1>5 DEF SessionInv

\* Steps that change nothing of the sessions but the process or the lists.
LEMMA OutsideInv ==
    ASSUME SessionInv, UNCHANGED <<socketVars, dialogVars, poolVars>>,
           process' \in {"running", "parseCrash", "poolCrash"},
           hostBlacklist' \subseteq Hosts, hostWhitelist' \subseteq Hosts
    PROVE  SessionInv'
<1>1. SessionTypeOK'
  BY DEF SessionInv, SessionTypeOK, socketVars, dialogVars, poolVars
<1>2. SessionsHavePorts' /\ AuthStateHasHandler' /\ RefusedStaysOut'
  BY DEF SessionInv, SessionsHavePorts, AuthStateHasHandler, RefusedStaysOut, Readable,
         socketVars, dialogVars, poolVars
<1>3. NoPortLeak' /\ UsedSetExact'
  BY DEF SessionInv, NoPortLeak, UsedSetExact, Live, Readable, socketVars, poolVars
<1> QED BY <1>1, <1>2, <1>3 DEF SessionInv

\* A greeting keeps the invariant, on an open or a half-closed socket.
LEMMA HandleGreetingInv ==
    ASSUME SessionInv, NEW s \in Sockets, NEW methods \in SUBSET {0, 2},
           HandleGreeting(s, methods)
    PROVE  SessionInv'
<1> DEFINE m     == SelectMethod(s, methods)
           after == IF m = "noAcceptable" THEN "ended" ELSE "open"
<1>1. m \in Replies /\ m # "authFailed" /\ after \in {"open", "ended", "destroyed"}
  BY DEF SelectMethod, Replies
<1>2. Send(s, m, after)
  BY DEF HandleGreeting
<1>3. StateAfterGreeting(s) \in SessionStates
  BY DEF StateAfterGreeting, SessionStates
<1>4. /\ state[s] = "AwaitingGreeting" /\ state'[s] = StateAfterGreeting(s)
      /\ state' \in [Sockets -> SessionStates]
      /\ \A t \in Sockets : t # s => state'[t] = state[t]
      /\ UNCHANGED <<process, authHandler, handler, udpPort, filterVars>>
  BY <1>3 DEF HandleGreeting, Receives, SessionInv, SessionTypeOK
<1>5. authHandler[s] = (AuthMethod = "password") /\ handler[s] = "none" /\ reply[s] = "none"
  BY <1>4 DEF SessionInv, AuthStateHasHandler, SessionTypeOK, Handlers
<1> HIDE DEF m, after
<1> QED
  BY <1>1, <1>2, <1>4, <1>5, SendInv DEF StateAfterGreeting, SessionInv, SessionTypeOK

\* So does an accepted authentication,
LEMMA HandleAuthSuccessInv ==
    ASSUME SessionInv, NEW s \in Sockets, HandleAuthSuccess(s)
    PROVE  SessionInv'
<1>1. /\ Send(s, "authOk", "open")
      /\ state[s] = "AwaitingAuthentication" /\ state'[s] = "AwaitingInitialCommand"
      /\ state' \in [Sockets -> SessionStates]
      /\ authHandler' \in [Sockets -> BOOLEAN] /\ ~authHandler'[s]
      /\ \A t \in Sockets : t # s => state'[t] = state[t] /\ authHandler'[t] = authHandler[t]
      /\ UNCHANGED <<process, handler, udpPort, filterVars>>
  BY DEF HandleAuthSuccess, Receives, SessionInv, SessionTypeOK, SessionStates
<1>2. handler[s] = "none"
  BY <1>1 DEF SessionInv, AuthStateHasHandler
<1>3. "authOk" \in Replies
  BY DEF Replies
<1> QED BY <1>1, <1>2, <1>3, SendInv DEF SessionInv, SessionTypeOK

\* and a rejected one.
LEMMA HandleAuthFailureInv ==
    ASSUME SessionInv, NEW s \in Sockets, HandleAuthFailure(s)
    PROVE  SessionInv'
<1>1. /\ Send(s, "authFailed", "ended")
      /\ state[s] = "AwaitingAuthentication"
      /\ UNCHANGED <<process, state, authHandler, handler, udpPort, filterVars>>
  BY DEF HandleAuthFailure, Receives
<1>2. authHandler[s] /\ AuthMethod = "password" /\ handler[s] = "none"
  BY <1>1 DEF SessionInv, AuthStateHasHandler
<1>3. "authFailed" \in Replies
  BY DEF Replies
<1> QED BY <1>1, <1>2, <1>3, SendInv DEF SessionInv, SessionTypeOK

\* A socket that still takes commands was never refused.
LEMMA CommandsNotRefused ==
    ASSUME SessionInv, NEW s \in Sockets, Receives(s, "AwaitingInitialCommand")
    PROVE  reply[s] # "authFailed" /\ handler[s] = "none" /\ ~authHandler[s]
  BY DEF SessionInv, RefusedStaysOut, AuthStateHasHandler, Receives, Readable

\* The commands that start a handler and answer in the same turn.
LEMMA CommandWithReplyInv ==
    ASSUME SessionInv, NEW s \in Sockets, NEW k \in {"connect", "udp"},
           NEW after \in {"open", "destroyed"},
           Receives(s, "AwaitingInitialCommand"),
           StartHandler(s, k), Send(s, "commandReply", after),
           UNCHANGED <<process, authHandler, udpPort, filterVars>>
    PROVE  SessionInv'
<1>1. /\ handler' \in [Sockets -> Handlers] /\ handler'[s] # "none"
      /\ state' \in [Sockets -> SessionStates] /\ state'[s] = "DataRelayMode"
      /\ \A t \in Sockets : t # s => state'[t] = state[t] /\ handler'[t] = handler[t]
  BY DEF StartHandler, SessionInv, SessionTypeOK, SessionStates, Handlers
<1>2. reply[s] # "authFailed" /\ ~authHandler[s]
  BY CommandsNotRefused
<1>3. "commandReply" \in Replies
  BY DEF Replies
<1> QED BY <1>1, <1>2, <1>3, SendInv DEF SessionInv, SessionTypeOK

\* So does a command that starts a CONNECT or BIND handler.
LEMMA HandleTcpCommandInv ==
    ASSUME SessionInv, NEW s \in Sockets, NEW k \in {"connect", "bind"}, NEW h \in Hosts,
           HandleTcpCommand(s, k, h)
    PROVE  SessionInv'
<1>1. /\ Receives(s, "AwaitingInitialCommand")
      /\ handler' \in [Sockets -> Handlers] /\ handler'[s] = k
      /\ state' \in [Sockets -> SessionStates] /\ state'[s] = "DataRelayMode"
      /\ \A t \in Sockets : t # s => state'[t] = state[t] /\ handler'[t] = handler[t]
      /\ UNCHANGED <<process, socketVars, authHandler, reply, poolVars, filterVars>>
  BY DEF HandleTcpCommand, StartHandler, SessionInv, SessionTypeOK, SessionStates, Handlers
<1>2. reply[s] # "authFailed" /\ ~authHandler[s]
  BY <1>1, CommandsNotRefused
<1>3. SessionTypeOK'
  BY <1>1 DEF SessionInv, SessionTypeOK, socketVars, poolVars, filterVars
<1>4. SessionsHavePorts' /\ AuthStateHasHandler' /\ RefusedStaysOut'
  BY <1>1, <1>2 DEF SessionInv, SessionsHavePorts, AuthStateHasHandler, RefusedStaysOut,
                    Readable, Receives, socketVars, poolVars
<1>5. NoPortLeak' /\ UsedSetExact'
  BY <1>1 DEF SessionInv, NoPortLeak, UsedSetExact, Live, Readable, socketVars, poolVars
<1> QED BY <1>3, <1>4, <1>5 DEF SessionInv

\* A reset changes the dialog of no session.
LEMMA PeerResetsInv ==
    ASSUME SessionInv, NEW s \in Sockets, PeerResets(s)
    PROVE  SessionInv'
<1>1. /\ Readable(s) /\ sock'[s] = "destroyed" /\ hadError'[s]
      /\ sock' \in [Sockets -> SocketStates] /\ hadError' \in [Sockets -> BOOLEAN]
      /\ \A t \in Sockets : t # s => sock'[t] = sock[t] /\ hadError'[t] = hadError[t]
      /\ usedUdpPorts' = usedUdpPorts \ {udpPort[s]}
      /\ UNCHANGED <<process, dialogVars, udpPort, filterVars>>
  BY DEF PeerResets, FailSocket, ReleaseUdpPort, SetSock, SessionInv, SessionTypeOK, SocketStates
<1>2. SessionTypeOK'
  BY <1>1 DEF SessionInv, SessionTypeOK, dialogVars, filterVars
<1>3. SessionsHavePorts' /\ AuthStateHasHandler' /\ RefusedStaysOut'
  BY <1>1 DEF SessionInv, SessionsHavePorts, AuthStateHasHandler, RefusedStaysOut, Readable,
              dialogVars
<1>4. \A t \in Sockets : Live(t)' <=> Live(t)
  BY <1>1 DEF Live, Readable
<1>5. NoPortLeak' /\ UsedSetExact'
  BY <1>1, <1>4, PoolKept
<1> QED BY <1>2, <1>3, <1>5 DEF SessionInv

\* The later writes of a command handler.
LEMMA HandlerRepliesInv ==
    ASSUME SessionInv, NEW s \in Sockets, HandlerSucceeds(s) \/ HandlerFails(s)
    PROVE  SessionInv'
<1>1. PICK after \in {"open", "ended", "destroyed"} : Send(s, "commandReply", after)
  BY DEF HandlerSucceeds, HandlerFails
<1>2. /\ handler[s] # "none"
      /\ UNCHANGED <<process, state, authHandler, handler, udpPort, filterVars>>
  BY DEF HandlerSucceeds, HandlerFails
<1>3. state[s] = "DataRelayMode" /\ ~authHandler[s] /\ reply[s] # "authFailed"
  BY <1>2 DEF SessionInv, AuthStateHasHandler, RefusedStaysOut
<1>4. "commandReply" \in Replies
  BY DEF Replies
<1> QED BY <1>1, <1>2, <1>3, <1>4, SendInv DEF SessionInv, SessionTypeOK

\* Every step of one session keeps the invariant.
LEMMA SessionStepInv ==
    ASSUME SessionInv, NEW s \in Sockets, SessionStep(s)
    PROVE  SessionInv'
<1>1. CASE \E methods \in SUBSET {0, 2} : HandleGreeting(s, methods)
  BY <1>1, HandleGreetingInv
<1>2. CASE HandleBadVersion(s) \/ HandlerEnds(s) \/ PeerEnds(s)
  BY <1>2, SetSockInv DEF HandleBadVersion, HandlerEnds, PeerEnds, Receives
<1>3. CASE HandleAuthSuccess(s)
  BY <1>3, HandleAuthSuccessInv
<1>4. CASE HandleMalformedCommand(s)
  BY <1>4, OutsideInv DEF HandleMalformedCommand, SessionInv, SessionTypeOK, filterVars
<1>5. ASSUME NEW h \in Hosts, HandleFilteredCommand(s, h)
      PROVE  SessionInv'
  BY <1>5, SetSockInv DEF HandleFilteredCommand, Receives
<1>6. ASSUME NEW h \in Hosts, \E k \in {"connect", "bind"} : HandleTcpCommand(s, k, h)
      PROVE  SessionInv'
  BY <1>6, HandleTcpCommandInv
<1>7. ASSUME NEW h \in Hosts, HandleUdpCommand(s, h) \/ HandleInvalidConnect(s, h)
      PROVE  SessionInv'
  BY <1>7, CommandWithReplyInv DEF HandleUdpCommand, HandleInvalidConnect
<1>8. CASE HandlerSucceeds(s) \/ HandlerFails(s)
  BY <1>8, HandlerRepliesInv
<1>9. CASE PeerResets(s)
  BY <1>9, PeerResetsInv
<1> QED
  BY <1>1, <1>2, <1>3, <1>4, <1>5, <1>6, <1>7, <1>8, <1>9 DEF SessionStep, HandleCommand

\* So does every step of the system.
LEMMA SessionNextInv ==
    SessionInv /\ [SessionNext]_sessionVars => SessionInv'
<1> SUFFICES ASSUME SessionInv, [SessionNext]_sessionVars
             PROVE  SessionInv'
  OBVIOUS
<1>1. ASSUME NEW s \in Sockets, NewSession(s)
      PROVE  SessionInv'
  BY <1>1, NewSessionInv
<1>2. ASSUME NEW s \in Sockets, NewSessionThrows(s)
      PROVE  SessionInv'
  BY <1>2, OutsideInv DEF NewSessionThrows, SessionInv, SessionTypeOK, filterVars
<1>3. ASSUME NEW s \in Sockets, RefuseConnection(s)
      PROVE  SessionInv'
  BY <1>3, RefuseConnectionInv
<1>4. ASSUME NEW s \in Sockets, SessionStep(s)
      PROVE  SessionInv'
  BY <1>4, SessionStepInv
<1>5. ASSUME NEW s \in Sockets, HandleAuthFailure(s)
      PROVE  SessionInv'
  BY <1>5, HandleAuthFailureInv
<1>6. ASSUME NEW s \in Sockets, SocketCloses(s)
      PROVE  SessionInv'
  BY <1>6, SocketClosesInv
<1>7. ASSUME NEW S \in SUBSET Sockets, DestroyAll(S)
      PROVE  SessionInv'
  BY <1>7, DestroyAllInv
<1>8. CASE HotPatchHosts
  <2>1. PICK hosts \in HostBlacklists \cup HostWhitelists :
          UpdateServerIpBlackList(hosts) \/ UpdateServerIpWhitelist(hosts)
    BY <1>8 DEF HotPatchHosts
  <2>2. hosts \subseteq Hosts
    BY SessionAssumption DEF SessionAssumption
  <2> QED
    BY <2>1, <2>2, OutsideInv
    DEF UpdateServerIpBlackList, UpdateServerIpWhitelist, SessionInv, SessionTypeOK
<1>9. CASE UNCHANGED sessionVars
  BY <1>9, OutsideInv DEF sessionVars, filterVars, SessionInv, SessionTypeOK
<1> QED
  BY <1>1, <1>2, <1>3, <1>4, <1>5, <1>6, <1>7, <1>8, <1>9 DEF SessionNext

\* The inductive invariant of the session engine, whatever chunks arrive, in
\* whatever order sockets fail and close, and whatever is patched.
THEOREM SessionInvariant == SessionSpec => []SessionInv
  BY InitInv, SessionNextInv, PTL DEF SessionSpec

\* Type correctness of the session engine.
THEOREM SessionTypeCorrect == SessionSpec => []SessionTypeOK
<1>1. SessionInv => SessionTypeOK
  BY DEF SessionInv
<1> QED BY <1>1, SessionInvariant, PTL

\* No UDP port leaks: the used set holds ports of connections not closed yet.
THEOREM NoPortLeaks == SessionSpec => []NoPortLeak
<1>1. SessionInv => NoPortLeak
  BY DEF SessionInv
<1> QED BY <1>1, SessionInvariant, PTL

\* As long as no socket fails, sessions in use have distinct UDP ports.
THEOREM PortsAreExclusive == SessionSpec => []PortsExclusiveWithoutErrors
<1>1. SessionInv => PortsExclusiveWithoutErrors
  BY DEF SessionInv, UsedSetExact, PortsExclusiveWithoutErrors, PortsExclusive, HoldsPort, Live
<1> QED BY <1>1, SessionInvariant, PTL

-----------------------------------------------------------------------------
(* The refinement of SocksHandshake *)

\* Only the session that makes a step changes its phase.
LEMMA PhaseMoves ==
    ASSUME NEW s \in Sockets, NEW from, NEW to, PhaseOf(s) = from, PhaseOf(s)' = to,
           \A t \in Sockets : t # s => PhaseOf(t)' = PhaseOf(t)
    PROVE  Handshake!Move(s, from, to)
  BY DEF Handshake!Move

\* A step that keeps state, reply and handler keeps all phases.
LEMMA PhasesStay ==
    ASSUME \A t \in Sockets : PhaseOf(t)' = PhaseOf(t)
    PROVE  UNCHANGED [t \in Sockets |-> PhaseOf(t)]
  OBVIOUS

\* A step that keeps the dialog keeps the phases.
LEMMA DialogStays ==
    ASSUME UNCHANGED dialogVars
    PROVE  UNCHANGED [t \in Sockets |-> PhaseOf(t)]
  BY DEF dialogVars, PhaseOf

\* A greeting is a step of the abstract handshake.
LEMMA GreetingRefines ==
    ASSUME SessionInv, NEW s \in Sockets, NEW methods \in SUBSET {0, 2},
           HandleGreeting(s, methods)
    PROVE  Handshake!Greet(s)
<1>1. /\ state[s] = "AwaitingGreeting" /\ state'[s] = StateAfterGreeting(s)
      /\ \A t \in Sockets : t # s => state'[t] = state[t]
      /\ UNCHANGED handler
  BY DEF HandleGreeting, Receives, SessionInv, SessionTypeOK
<1>2. /\ authHandler[s] = (AuthMethod = "password")
      /\ handler[s] = "none" /\ reply[s] = "none"
  BY <1>1 DEF SessionInv, AuthStateHasHandler, SessionTypeOK, Handlers
<1>3. /\ \A t \in Sockets : t # s => reply'[t] = reply[t]
      /\ reply'[s] # "authFailed"
  <2>1. /\ SelectMethod(s, methods) # "authFailed"
        /\ SelectMethod(s, methods) \in Replies
    BY DEF SelectMethod, Replies
  <2>2. PICK after \in {"open", "ended"} : Send(s, SelectMethod(s, methods), after)
    BY DEF HandleGreeting
  <2> QED BY <1>2, <2>1, <2>2, SendLemma
<1>4. \A t \in Sockets : t # s => PhaseOf(t)' = PhaseOf(t)
  BY <1>1, <1>3 DEF PhaseOf
<1>5. PhaseOf(s) = "new"
  BY <1>1, <1>2 DEF PhaseOf
<1>6. PhaseOf(s)' = IF AuthMethod = "password" THEN "challenged" ELSE "admitted"
  BY <1>1, <1>2, <1>3 DEF PhaseOf, StateAfterGreeting
<1> QED BY <1>4, <1>5, <1>6, PhaseMoves DEF Handshake!Greet

\* So is the answer to credentials.
LEMMA AuthRefines ==
    ASSUME SessionInv, NEW s \in Sockets, HandleAuthSuccess(s) \/ HandleAuthFailure(s)
    PROVE  \/ Handshake!Authenticate(s) \/ Handshake!Refuse(s)
           \/ UNCHANGED [t \in Sockets |-> PhaseOf(t)]
<1>1. state[s] = "AwaitingAuthentication" /\ UNCHANGED handler
  BY DEF HandleAuthSuccess, HandleAuthFailure, Receives
<1>2. handler[s] = "none"
  BY <1>1 DEF SessionInv, AuthStateHasHandler
<1>3. CASE HandleAuthSuccess(s)
  <2>1. /\ Send(s, "authOk", "open")
        /\ state'[s] = "AwaitingInitialCommand"
        /\ \A t \in Sockets : t # s => state'[t] = state[t]
    BY <1>3 DEF HandleAuthSuccess, SessionInv, SessionTypeOK
  <2>2. \A t \in Sockets : t # s => reply'[t] = reply[t]
    BY <2>1, SendLemma DEF Replies
  <2>3. \A t \in Sockets : t # s => PhaseOf(t)' = PhaseOf(t)
    BY <1>1, <2>1, <2>2 DEF PhaseOf
  <2>4. CASE reply[s] = "authFailed"
    <3>1. sock[s] # "open"
      BY <2>4 DEF SessionInv, RefusedStaysOut
    <3>2. reply' = reply
      BY <2>1, <3>1 DEF Send
    <3>3. PhaseOf(s)' = PhaseOf(s)
      BY <1>1, <1>2, <2>4, <3>2 DEF PhaseOf
    <3> QED BY <2>3, <3>3, PhasesStay
  <2>5. CASE reply[s] # "authFailed"
    <3>1. reply'[s] # "authFailed"
      BY <2>1, <2>5, SendLemma DEF Replies
    <3>2. PhaseOf(s) = "challenged" /\ PhaseOf(s)' = "admitted"
      BY <1>1, <1>2, <2>1, <2>5, <3>1 DEF PhaseOf
    <3> QED BY <2>3, <3>2, PhaseMoves DEF Handshake!Authenticate
  <2> QED BY <2>4, <2>5
<1>4. CASE HandleAuthFailure(s)
  <2>1. Send(s, "authFailed", "ended") /\ UNCHANGED state
    BY <1>4 DEF HandleAuthFailure
  <2>2. CASE sock[s] = "open"
    <3>1. /\ \A t \in Sockets : t # s => reply'[t] = reply[t]
          /\ reply'[s] = "authFailed" /\ reply[s] # "authFailed"
      BY <2>1, <2>2, SendLemma DEF Replies, SessionInv, RefusedStaysOut
    <3>2. \A t \in Sockets : t # s => PhaseOf(t)' = PhaseOf(t)
      BY <1>1, <2>1, <3>1 DEF PhaseOf
    <3>3. PhaseOf(s) = "challenged" /\ PhaseOf(s)' = "refused"
      BY <1>1, <1>2, <2>1, <3>1 DEF PhaseOf
    <3> QED BY <3>2, <3>3, PhaseMoves DEF Handshake!Refuse
  <2>3. CASE sock[s] # "open"
    <3>1. UNCHANGED dialogVars
      BY <1>4, <2>1, <2>3 DEF Send, HandleAuthFailure, dialogVars
    <3> QED BY <3>1, DialogStays
  <2> QED BY <2>2, <2>3
<1> QED BY <1>3, <1>4

\* A command that starts a handler serves an admitted client.
LEMMA CommandRefines ==
    ASSUME SessionInv, NEW s \in Sockets, NEW k \in {"connect", "bind", "udp"},
           Receives(s, "AwaitingInitialCommand"), StartHandler(s, k),
           \A t \in Sockets : t # s => reply'[t] = reply[t]
    PROVE  Handshake!Serve(s)
<1>1. /\ handler'[s] = k
      /\ \A t \in Sockets : t # s => state'[t] = state[t] /\ handler'[t] = handler[t]
  BY DEF StartHandler, SessionInv, SessionTypeOK
<1>2. PhaseOf(s) = "admitted"
  BY CommandsNotRefused DEF Receives, PhaseOf
<1>3. PhaseOf(s)' = "served"
  BY <1>1 DEF PhaseOf
<1>4. \A t \in Sockets : t # s => PhaseOf(t)' = PhaseOf(t)
  BY <1>1 DEF PhaseOf
<1> QED BY <1>2, <1>3, <1>4, PhaseMoves DEF Handshake!Serve

\* What a handler later does is none.
LEMMA HandlerRepliesRefine ==
    ASSUME SessionInv, NEW s \in Sockets, HandlerSucceeds(s) \/ HandlerFails(s)
    PROVE  UNCHANGED [t \in Sockets |-> PhaseOf(t)]
<1>1. handler[s] # "none" /\ UNCHANGED <<state, handler>>
  BY DEF HandlerSucceeds, HandlerFails
<1>2. PICK after \in {"open", "ended", "destroyed"} : Send(s, "commandReply", after)
  BY DEF HandlerSucceeds, HandlerFails
<1>3. \A t \in Sockets : t # s => reply'[t] = reply[t]
  BY <1>2, SendLemma DEF Replies
<1>4. \A t \in Sockets : PhaseOf(t)' = PhaseOf(t)
  BY <1>1, <1>3 DEF PhaseOf
<1> QED BY <1>4, PhasesStay

\* Every step is a step of the abstract handshake or a stutter.
LEMMA SessionRefines ==
    ASSUME SessionInv, [SessionNext]_sessionVars
    PROVE  [Handshake!HandshakeNext]_([s \in Sockets |-> PhaseOf(s)])
<1> DEFINE Refined == [Handshake!HandshakeNext]_([t \in Sockets |-> PhaseOf(t)])
<1>1. UNCHANGED dialogVars => Refined
  BY DialogStays
<1>2. ASSUME NEW s \in Sockets, SessionStep(s)
      PROVE  Refined
  <2>1. CASE \E methods \in SUBSET {0, 2} : HandleGreeting(s, methods)
    BY <2>1, GreetingRefines DEF Handshake!HandshakeNext
  <2>2. CASE HandleAuthSuccess(s)
    BY <2>2, AuthRefines DEF Handshake!HandshakeNext
  <2>3. CASE HandleBadVersion(s) \/ HandlerEnds(s) \/ PeerEnds(s) \/ PeerResets(s)
             \/ HandleMalformedCommand(s)
    BY <1>1, <2>3
    DEF HandleBadVersion, HandlerEnds, PeerEnds, PeerResets, HandleMalformedCommand
  <2>4. CASE HandlerSucceeds(s) \/ HandlerFails(s)
    BY <2>4, HandlerRepliesRefine
  <2>5. ASSUME NEW h \in Hosts, HandleFilteredCommand(s, h)
        PROVE  Refined
    BY <1>1, <2>5 DEF HandleFilteredCommand
  <2>6. ASSUME NEW h \in Hosts, NEW k \in {"connect", "bind"}, HandleTcpCommand(s, k, h)
        PROVE  Refined
    <3>1. Handshake!Serve(s)
      BY <2>6, CommandRefines DEF HandleTcpCommand
    <3> QED BY <3>1 DEF Handshake!HandshakeNext
  <2>7. ASSUME NEW h \in Hosts, HandleUdpCommand(s, h) \/ HandleInvalidConnect(s, h)
        PROVE  Refined
    <3>1. PICK k \in {"connect", "udp"}, after \in {"open", "destroyed"} :
            /\ Receives(s, "AwaitingInitialCommand")
            /\ StartHandler(s, k) /\ Send(s, "commandReply", after)
      BY <2>7 DEF HandleUdpCommand, HandleInvalidConnect
    <3>2. Handshake!Serve(s)
      BY <3>1, SendLemma, CommandRefines DEF Replies
    <3> QED BY <3>2 DEF Handshake!HandshakeNext
  <2> QED
    BY <1>2, <2>1, <2>2, <2>3, <2>4, <2>5, <2>6, <2>7 DEF SessionStep, HandleCommand
<1>3. ASSUME NEW s \in Sockets, HandleAuthFailure(s)
      PROVE  Refined
  BY <1>3, AuthRefines DEF Handshake!HandshakeNext
<1>4. ASSUME NEW s \in Sockets,
             NewSession(s) \/ NewSessionThrows(s) \/ RefuseConnection(s) \/ SocketCloses(s)
      PROVE  Refined
  BY <1>1, <1>4 DEF NewSession, NewSessionThrows, RefuseConnection, SocketCloses
<1>5. CASE (\E S \in SUBSET Sockets : DestroyAll(S)) \/ HotPatchHosts
  BY <1>1, <1>5
  DEF DestroyAll, HotPatchHosts, UpdateServerIpBlackList, UpdateServerIpWhitelist
<1>6. CASE UNCHANGED sessionVars
  BY <1>1, <1>6 DEF sessionVars
<1>7. CASE SessionNext
  BY <1>2, <1>3, <1>4, <1>5, <1>7 DEF SessionNext
<1> QED BY <1>6, <1>7

\* The handshake starts with every connection new.
LEMMA InitRefines == SessionInit => Handshake!HandshakeInit
  BY DEF SessionInit, Handshake!HandshakeInit, PhaseOf

\* The session engine implements the abstract handshake: whatever arrives, no
\* command handler starts before the greeting and the authentication, or
\* after a failed authentication was answered.
THEOREM SessionImplementsHandshake == SessionSpec => ImplementsHandshake
  BY InitRefines, SessionRefines, SessionInvariant, PTL
  DEF SessionSpec, ImplementsHandshake, Handshake!HandshakeSpec

-----------------------------------------------------------------------------
(* The server runs the session engine *)

\* Every step of the server is a step of its sessions, or leaves them alone.
LEMMA NextIsSessionNext ==
    ASSUME TypeOK, [Next]_vars
    PROVE  [SessionNext]_sessionVars
<1>1. ASSUME NEW s \in Sockets, HandleConnection(s)
      PROVE  SessionNext
  BY <1>1 DEF HandleConnection, RejectConnection, AdmitConnection, SessionNext
<1>2. ASSUME NEW s \in Sockets, RejectCredentials(s) \/ ConnectionCloses(s)
      PROVE  SessionNext
  BY <1>2 DEF RejectCredentials, ConnectionCloses, SessionNext
<1>3. CASE SessionsStep
  BY <1>3 DEF SessionsStep, SessionNext
<1>4. CASE HotPatchClients
  BY <1>4 DEF HotPatchClients, UpdateClientIpBlackList, UpdateClientIpWhitelist
<1>5. CASE Closed
  BY <1>5 DEF Closed
<1>6. CASE UNCHANGED vars
  BY <1>6 DEF vars
<1>7. CASE Close
  BY <1>7 DEF Close, SessionNext, TypeOK
<1> QED BY <1>1, <1>2, <1>3, <1>4, <1>5, <1>6, <1>7 DEF Next

\* Nothing but the server's own steps touches the server's variables, and
\* nothing happens once the process ended.
LEMMA NextNeedsProcess ==
    ASSUME [Next]_vars, ~Running
    PROVE  UNCHANGED vars
<1>1. ASSUME NEW s \in Sockets
      PROVE  ~HandleConnection(s) /\ ~RejectCredentials(s) /\ ~ConnectionCloses(s)
  BY DEF HandleConnection, RejectConnection, AdmitConnection, RejectCredentials,
         ConnectionCloses, RefuseConnection, NewSession, NewSessionThrows,
         HandleAuthFailure, Receives, SocketCloses
<1>2. ~HotPatchClients /\ ~Close /\ ~Closed
  BY DEF HotPatchClients, UpdateClientIpBlackList, UpdateClientIpWhitelist, Close,
         DestroyAll, Closed
<1>3. ~SessionsStep
  BY DEF SessionsStep, HotPatchHosts, UpdateServerIpBlackList, UpdateServerIpWhitelist,
         SessionStep, HandleGreeting, HandleBadVersion, HandleAuthSuccess, HandleCommand,
         HandleMalformedCommand, HandleFilteredCommand, HandleTcpCommand, HandleUdpCommand,
         HandleInvalidConnect, HandlerSucceeds, HandlerFails, HandlerEnds, PeerEnds,
         PeerResets, Receives
<1> QED BY <1>1, <1>2, <1>3 DEF Next

-----------------------------------------------------------------------------
(* How the steps of a session change the set of connections served *)

\* No socket gets readable, or comes back from what the server did to it.
OnlyEnds ==
    \A t \in Sockets :
        (Readable(t)' => Readable(t)) /\ (sock'[t] = "open" => sock[t] = "open")

\* The step neither opens nor closes connections.
KeepsConnections ==
    /\ OnlyEnds
    /\ udpPort' = udpPort
    /\ process' \in {process, "parseCrash"}
    /\ \A t \in Sockets : Live(t)' <=> Live(t)
    /\ \A t \in Sockets : (sock'[t] = "none") <=> (sock[t] = "none")

\* A write to the client socket neither admits a connection nor lets one go.
LEMMA SendKeeps ==
    ASSUME SessionInv, NEW s \in Sockets, NEW r \in Replies,
           NEW after \in {"open", "ended", "destroyed"}, Send(s, r, after),
           UNCHANGED <<process, udpPort>>
    PROVE  KeepsConnections
  BY SendLemma DEF KeepsConnections, OnlyEnds, Live, Readable

\* Nor does ending or destroying it.
LEMMA SetSockKeeps ==
    ASSUME SessionInv, NEW s \in Sockets, Readable(s), NEW st \in {"ended", "destroyed"},
           SetSock(s, st), UNCHANGED <<process, udpPort>>
    PROVE  KeepsConnections
  BY DEF KeepsConnections, OnlyEnds, SessionInv, SessionTypeOK, SetSock, Live, Readable

\* Nor does a step that leaves the sockets alone.
LEMMA NoSockKeeps ==
    ASSUME UNCHANGED <<sock, udpPort>>, process' \in {process, "parseCrash"}
    PROVE  KeepsConnections
  BY DEF KeepsConnections, OnlyEnds, Live, Readable

\* So no step of a session changes which connections are live.
LEMMA SessionStepKeepsConnections ==
    ASSUME SessionInv, NEW s \in Sockets, SessionStep(s) \/ HandleAuthFailure(s)
    PROVE  KeepsConnections
<1>1. ASSUME NEW methods \in SUBSET {0, 2}, HandleGreeting(s, methods)
      PROVE  KeepsConnections
  <2>1. PICK r \in Replies, after \in {"open", "ended"} : Send(s, r, after)
    BY <1>1 DEF HandleGreeting, SelectMethod, Replies
  <2> QED BY <1>1, <2>1, SendKeeps DEF HandleGreeting
<1>2. CASE HandleAuthSuccess(s) \/ HandleAuthFailure(s)
  BY <1>2, SendKeeps DEF HandleAuthSuccess, HandleAuthFailure, Replies
<1>3. CASE HandleBadVersion(s) \/ HandlerEnds(s) \/ PeerEnds(s)
  BY <1>3, SetSockKeeps DEF HandleBadVersion, HandlerEnds, PeerEnds, Receives, poolVars
<1>4. CASE PeerResets(s)
  BY <1>4, SetSockKeeps DEF PeerResets, FailSocket
<1>5. CASE HandlerSucceeds(s) \/ HandlerFails(s)
  BY <1>5, SendKeeps DEF HandlerSucceeds, HandlerFails, Replies
<1>6. CASE HandleMalformedCommand(s)
  BY <1>6, NoSockKeeps DEF HandleMalformedCommand, socketVars, poolVars
<1>7. ASSUME NEW h \in Hosts, HandleFilteredCommand(s, h)
      PROVE  KeepsConnections
  BY <1>7, SetSockKeeps DEF HandleFilteredCommand, Receives, poolVars
<1>8. ASSUME NEW h \in Hosts, NEW k \in {"connect", "bind"}, HandleTcpCommand(s, k, h)
      PROVE  KeepsConnections
  BY <1>8, NoSockKeeps DEF HandleTcpCommand, socketVars, poolVars
<1>9. ASSUME NEW h \in Hosts, HandleUdpCommand(s, h) \/ HandleInvalidConnect(s, h)
      PROVE  KeepsConnections
  BY <1>9, SendKeeps DEF HandleUdpCommand, HandleInvalidConnect, Replies
<1> QED
  BY <1>1, <1>2, <1>3, <1>4, <1>5, <1>6, <1>7, <1>8, <1>9 DEF SessionStep, HandleCommand

-----------------------------------------------------------------------------
(* The ports suffice for the connections *)

\* With a connection to spare there is a port to spare: the ports in use
\* belong to tracked connections, one at least for each.
LEMMA FreePortLeft ==
    ASSUME SessionInv, ServerInv, Running, server = "listening", ~LimitReached,
           Cardinality(UdpPorts) >= MaxConnections
    PROVE  FreePorts # {}
<1> SUFFICES ASSUME FreePorts = {} PROVE FALSE
  OBVIOUS
<1> DEFINE ports == {udpPort[t] : t \in activeConnections}
           portOf == [t \in activeConnections |-> udpPort[t]]
<1>1. activeConnections = Served /\ IsFiniteSet(activeConnections)
  BY DEF ServerInv, TrackedAreServed
<1>2. UdpPorts \subseteq ports
  <2> SUFFICES ASSUME NEW p \in UdpPorts PROVE p \in ports
    OBVIOUS
  <2>1. p \in usedUdpPorts /\ p # NoPort
    BY SessionAssumption DEF FreePorts, SessionAssumption
  <2>2. PICK t \in Sockets : Live(t) /\ udpPort[t] = p
    BY <2>1 DEF SessionInv, NoPortLeak
  <2>3. t \in activeConnections
    BY <1>1, <2>1, <2>2 DEF Served, HasSession
  <2> QED BY <2>2, <2>3
<1>3. portOf \in Surjection(activeConnections, ports)
  BY DEF Surjection
<1>4. IsFiniteSet(ports) /\ Cardinality(ports) <= Cardinality(activeConnections)
  BY <1>1, <1>3, FS_Surjection
<1>5. IsFiniteSet(UdpPorts) /\ Cardinality(UdpPorts) <= Cardinality(ports)
  BY <1>2, <1>4, FS_Subset
<1>6. /\ Cardinality(UdpPorts) \in Nat /\ Cardinality(ports) \in Nat
      /\ Cardinality(activeConnections) \in Nat
  BY <1>1, <1>4, <1>5, FS_CardinalityType
<1>7. Cardinality(activeConnections) < MaxConnections
  BY <1>6, ServerAssumption DEF LimitReached, ServerAssumption
<1> HIDE DEF ports
<1> QED BY <1>4, <1>5, <1>6, <1>7, ServerAssumption DEF ServerAssumption

-----------------------------------------------------------------------------
(* Every step preserves ServerInv *)

\* The invariant holds when the server starts to listen.
LEMMA InitServerInv == Init => SessionInv /\ ServerInv
<1> SUFFICES ASSUME Init PROVE SessionInv /\ ServerInv
  OBVIOUS
<1>1. SessionInv
  BY InitInv DEF Init
<1>2. TypeOK
  BY <1>1 DEF Init, TypeOK, SessionInv
<1>3. TrackedAreServed
  BY DEF Init, SessionInit, TrackedAreServed, Served, HasSession, Live, Readable
<1>4. IsFiniteSet(activeConnections)
  BY FS_EmptySet DEF Init
<1> QED BY <1>1, <1>2, <1>3, <1>4 DEF Init, SessionInit, ServerInv, PoolNeverExhausted

\* It is kept by turning a connection down;
LEMMA RejectServerInv ==
    ASSUME SessionInv, ServerInv, SessionTypeOK', NEW s \in Sockets, NEW c \in Clients,
           RejectConnection(s, c)
    PROVE  ServerInv'
<1>1. /\ sock[s] = "none" /\ sock'[s] = "destroyed" /\ udpPort[s] = NoPort
      /\ \A t \in Sockets : t # s => sock'[t] = sock[t]
      /\ UNCHANGED <<process, udpPort, server, activeConnections, failedAuthAttempts, listVars>>
  BY DEF RejectConnection, Arrives, RefuseConnection, SetSock, SessionInv, SessionTypeOK,
         SessionsHavePorts, poolVars
<1>2. /\ remoteAddress' \in [Sockets -> Clients \cup {NoClient}] /\ remoteAddress'[s] = c
      /\ \A t \in Sockets : t # s => remoteAddress'[t] = remoteAddress[t]
  BY DEF RejectConnection, Arrives, ServerInv, TypeOK
<1>3. TypeOK'
  BY <1>1, <1>2 DEF ServerInv, TypeOK, listVars
<1>4. Served' = Served
  BY <1>1 DEF Served, HasSession, Live, Readable
<1> QED
  BY <1>1, <1>2, <1>3, <1>4 DEF ServerInv, TrackedAreServed, PoolNeverExhausted, Running

\* by admitting one, where the port pool must not be empty;
LEMMA AdmitServerInv ==
    ASSUME SessionInv, ServerInv, SessionTypeOK', NEW s \in Sockets, NEW c \in Clients,
           AdmitConnection(s, c)
    PROVE  ServerInv'
<1>1. /\ server = "listening" /\ ~LimitReached /\ Running /\ sock[s] = "none"
      /\ activeConnections' = activeConnections \cup {s}
      /\ UNCHANGED <<server, failedAuthAttempts, listVars>>
  BY DEF AdmitConnection, Arrives, NewSession, NewSessionThrows
<1>2. /\ remoteAddress' \in [Sockets -> Clients \cup {NoClient}] /\ remoteAddress'[s] = c
      /\ \A t \in Sockets : t # s => remoteAddress'[t] = remoteAddress[t]
  BY DEF AdmitConnection, Arrives, ServerInv, TypeOK
<1>3. TypeOK'
  BY <1>1, <1>2 DEF ServerInv, TypeOK, listVars
<1>4. IsFiniteSet(activeConnections')
  BY <1>1, FS_AddElement DEF ServerInv
<1>5. CASE NewSession(s)
  <2>1. PICK p \in UdpPorts : udpPort' = [udpPort EXCEPT ![s] = p]
    BY <1>5 DEF NewSession, AssignUdpPort, FreePorts
  <2>2. /\ udpPort'[s] # NoPort /\ sock'[s] = "open" /\ process' = process
        /\ \A t \in Sockets : t # s => udpPort'[t] = udpPort[t] /\ sock'[t] = sock[t]
    BY <1>5, <2>1, SessionAssumption
    DEF NewSession, SetSock, SessionInv, SessionTypeOK, SessionAssumption
  <2>3. Served' = Served \cup {s}
    BY <2>2 DEF Served, HasSession, Live, Readable
  <2>4. activeConnections = Served
    BY <1>1 DEF ServerInv, TrackedAreServed
  <2>5. \A t \in Sockets : sock'[t] # "none" => remoteAddress'[t] \in Clients
    BY <1>2, <2>2 DEF ServerInv
  <2> QED
    BY <1>1, <1>3, <1>4, <2>2, <2>3, <2>4, <2>5 DEF ServerInv, TrackedAreServed, PoolNeverExhausted
<1>6. CASE NewSessionThrows(s)
  <2>1. process' = "poolCrash" /\ UNCHANGED sock /\ FreePorts = {}
    BY <1>6 DEF NewSessionThrows, socketVars
  <2>2. PoolNeverExhausted'
    BY <1>1, <2>1, FreePortLeft DEF PoolNeverExhausted
  <2>3. TrackedAreServed'
    BY <2>1 DEF TrackedAreServed, Running
  <2> QED BY <1>2, <1>3, <1>4, <2>1, <2>2, <2>3 DEF ServerInv
<1> QED BY <1>5, <1>6 DEF AdmitConnection

\* The steps of existing sessions that leave the server's sets alone.
LEMMA SessionsServerInv ==
    ASSUME SessionInv, ServerInv, SessionTypeOK', KeepsConnections,
           UNCHANGED <<server, remoteAddress, activeConnections, clientWhitelist, pardon>>,
           failedAuthAttempts' \in [Clients -> Nat],
           clientBlacklist' \subseteq Clients
    PROVE  ServerInv'
<1>1. Served' = Served
  BY DEF KeepsConnections, Served, HasSession
<1>2. TypeOK'
  BY DEF ServerInv, TypeOK
<1>3. TrackedAreServed' /\ PoolNeverExhausted'
  BY <1>1 DEF ServerInv, TrackedAreServed, PoolNeverExhausted, Running, KeepsConnections
<1> QED BY <1>2, <1>3 DEF ServerInv, KeepsConnections

\* by a failed authentication;
LEMMA RejectCredentialsServerInv ==
    ASSUME SessionInv, ServerInv, SessionTypeOK', NEW s \in Sockets, RejectCredentials(s)
    PROVE  ServerInv'
<1>1. KeepsConnections
  BY SessionStepKeepsConnections DEF RejectCredentials
<1>2. remoteAddress[s] \in Clients
  BY DEF RejectCredentials, HandleAuthFailure, Receives, Readable, ServerInv
<1>3. failedAuthAttempts' \in [Clients -> Nat] /\ clientBlacklist' \subseteq Clients
  BY <1>2 DEF RejectCredentials, IncrementAuthFailure, ServerInv, TypeOK
<1> QED BY <1>1, <1>3, SessionsServerInv DEF RejectCredentials

\* by any other step of the sessions;
LEMMA SessionsStepServerInv ==
    ASSUME SessionInv, ServerInv, SessionTypeOK', SessionsStep
    PROVE  ServerInv'
<1>1. KeepsConnections
  BY SessionStepKeepsConnections, NoSockKeeps
  DEF SessionsStep, HotPatchHosts, UpdateServerIpBlackList, UpdateServerIpWhitelist,
      socketVars, poolVars
<1> QED BY <1>1, SessionsServerInv DEF SessionsStep, serverVars, listVars, ServerInv, TypeOK

\* by the 'close' event of a connection;
LEMMA ConnectionClosesServerInv ==
    ASSUME SessionInv, ServerInv, SessionTypeOK', NEW s \in Sockets, ConnectionCloses(s)
    PROVE  ServerInv'
<1>1. /\ sock[s] = "destroyed" /\ sock'[s] = "closed"
      /\ \A t \in Sockets : t # s => sock'[t] = sock[t]
      /\ activeConnections' = activeConnections \ {s}
      /\ UNCHANGED <<process, udpPort, server, remoteAddress, failedAuthAttempts, listVars>>
  BY DEF ConnectionCloses, SocketCloses, SetSock, SessionInv, SessionTypeOK
<1>2. TypeOK'
  BY <1>1 DEF ServerInv, TypeOK, listVars
<1>3. Served' = Served \ {s}
  BY <1>1 DEF Served, HasSession, Live, Readable
<1>4. IsFiniteSet(activeConnections')
  BY <1>1, FS_RemoveElement DEF ServerInv
<1> QED
  BY <1>1, <1>2, <1>3, <1>4 DEF ServerInv, TrackedAreServed, PoolNeverExhausted, Running

\* by a patch of the client lists;
LEMMA HotPatchClientsServerInv ==
    ASSUME SessionInv, ServerInv, SessionTypeOK', HotPatchClients
    PROVE  ServerInv'
<1>1. PICK list \in ClientPatches : UpdateClientIpBlackList(list) \/ UpdateClientIpWhitelist(list)
  BY DEF HotPatchClients
<1>2. /\ clientBlacklist' \subseteq Clients /\ clientWhitelist' \subseteq Clients
      /\ pardon' \in [Clients -> Nat]
      /\ UNCHANGED <<sessionVars, server, remoteAddress, activeConnections, failedAuthAttempts>>
  BY <1>1, ServerAssumption
  DEF UpdateClientIpBlackList, UpdateClientIpWhitelist, ServerAssumption, ServerInv, TypeOK
<1>3. Served' = Served
  BY <1>2 DEF sessionVars, socketVars, poolVars, Served, HasSession, Live, Readable
<1> QED
  BY <1>2, <1>3 DEF ServerInv, TypeOK, TrackedAreServed, PoolNeverExhausted, Running,
                    sessionVars, socketVars

\* and by close().
LEMMA CloseServerInv ==
    ASSUME SessionInv, ServerInv, SessionTypeOK', Close \/ Closed \/ UNCHANGED vars
    PROVE  ServerInv'
<1>1. CASE Close
  <2>1. /\ server' = "closing" /\ activeConnections' = {}
        /\ UNCHANGED <<process, remoteAddress, failedAuthAttempts, listVars>>
        /\ \A t \in Sockets : sock'[t] = "none" => sock[t] = "none"
        /\ \A t \in Sockets : sock[t] = "none" => sock'[t] = "none"
    BY <1>1 DEF Close, DestroyAll, Readable
  <2>2. TypeOK'
    BY <2>1 DEF ServerInv, TypeOK, listVars
  <2> QED
    BY <2>1, <2>2, FS_EmptySet DEF ServerInv, TrackedAreServed, PoolNeverExhausted
<1>2. CASE Closed
  <2>1. /\ server' = "closed"
        /\ UNCHANGED <<sock, process, remoteAddress, activeConnections, failedAuthAttempts, listVars>>
    BY <1>2 DEF Closed, sessionVars, socketVars
  <2> QED BY <2>1 DEF ServerInv, TypeOK, listVars, TrackedAreServed, PoolNeverExhausted
<1>3. CASE UNCHANGED vars
  <2>1. Served' = Served
    BY <1>3 DEF vars, sessionVars, socketVars, poolVars, Served, HasSession, Live, Readable
  <2> QED
    BY <1>3, <2>1 DEF vars, sessionVars, socketVars, serverVars, listVars, ServerInv, TypeOK,
                      TrackedAreServed, PoolNeverExhausted, Running
<1> QED BY <1>1, <1>2, <1>3

\* So every step of the server keeps it.
LEMMA NextServerInv ==
    SessionInv /\ ServerInv /\ [Next]_vars => (SessionInv /\ ServerInv)'
<1> SUFFICES ASSUME SessionInv, ServerInv, [Next]_vars
             PROVE  (SessionInv /\ ServerInv)'
  OBVIOUS
<1>1. SessionInv'
  BY NextIsSessionNext, SessionNextInv DEF ServerInv
<1>2. SessionTypeOK'
  BY <1>1 DEF SessionInv
<1>3. ASSUME NEW s \in Sockets, HandleConnection(s)
      PROVE  ServerInv'
  BY <1>2, <1>3, RejectServerInv, AdmitServerInv DEF HandleConnection
<1>4. ASSUME NEW s \in Sockets, RejectCredentials(s) \/ ConnectionCloses(s)
      PROVE  ServerInv'
  BY <1>2, <1>4, RejectCredentialsServerInv, ConnectionClosesServerInv
<1>5. CASE SessionsStep
  BY <1>1, <1>2, <1>5, SessionsStepServerInv
<1>6. CASE HotPatchClients
  BY <1>1, <1>2, <1>6, HotPatchClientsServerInv
<1>7. CASE Close \/ Closed \/ UNCHANGED vars
  BY <1>1, <1>2, <1>7, CloseServerInv
<1> QED BY <1>1, <1>3, <1>4, <1>5, <1>6, <1>7 DEF Next

-----------------------------------------------------------------------------
(* The theorems *)

\* The invariant of the server and of its sessions.
THEOREM ServerInvariant == Spec => [](SessionInv /\ ServerInv)
  BY InitServerInv, NextServerInv, PTL DEF Spec

\* Type correctness of the server.
THEOREM ServerTypeCorrect == Spec => []TypeOK
<1>1. ServerInv => TypeOK
  BY DEF ServerInv
<1> QED BY <1>1, ServerInvariant, PTL

\* The server runs the session engine: what was proved of sessions holds of
\* the sessions of the server.
THEOREM ServerRunsSessions == Spec => SessionSpec
<1>1. Init => SessionInit
  BY DEF Init
<1>2. ServerInv /\ [Next]_vars => [SessionNext]_sessionVars
  BY NextIsSessionNext DEF ServerInv
<1> QED BY <1>1, <1>2, ServerInvariant, PTL DEF Spec, SessionSpec

\* While the server listens it tracks exactly the connections it serves.
THEOREM TrackingExact == Spec => []TrackedAreServed
<1>1. ServerInv => TrackedAreServed
  BY DEF ServerInv
<1> QED BY <1>1, ServerInvariant, PTL

\* A port for every connection the limit allows is enough for ever.
THEOREM PoolSuffices == Spec => []PoolNeverExhausted
<1>1. ServerInv => PoolNeverExhausted
  BY DEF ServerInv
<1> QED BY <1>1, ServerInvariant, PTL

\* Only admission makes a connection served.
LEMMA ServedGrowsByAdmission ==
    ASSUME SessionInv, ServerInv, [Next]_vars, NEW s \in Sockets, HasSession(s)', ~HasSession(s)
    PROVE  \E c \in Clients : AdmitConnection(s, c) /\ NewSession(s)
<1>1. \A t \in Sockets : SessionStep(t) \/ HandleAuthFailure(t) => KeepsConnections
  BY SessionStepKeepsConnections
<1>2. KeepsConnections => (HasSession(s)' <=> HasSession(s))
  BY DEF KeepsConnections, HasSession
<1>3. ASSUME UNCHANGED <<sock, udpPort>> PROVE FALSE
  BY <1>3 DEF HasSession, Live, Readable
<1>4. ASSUME NEW t \in Sockets, NEW c \in Clients, RejectConnection(t, c)
      PROVE  FALSE
  <2>1. /\ udpPort' = udpPort /\ udpPort[t] = NoPort
        /\ \A u \in Sockets : u # t => sock'[u] = sock[u]
    BY <1>4 DEF RejectConnection, RefuseConnection, SetSock, SessionInv, SessionTypeOK,
                SessionsHavePorts, poolVars
  <2> QED BY <2>1 DEF HasSession, Live, Readable
<1>5. ASSUME NEW t \in Sockets, NEW c \in Clients, AdmitConnection(t, c)
      PROVE  t = s /\ NewSession(s)
  <2>1. NewSession(t)
    BY <1>3, <1>5 DEF AdmitConnection, NewSessionThrows, socketVars, poolVars
  <2>2. \A u \in Sockets : u # t => sock'[u] = sock[u] /\ udpPort'[u] = udpPort[u]
    BY <2>1 DEF NewSession, AssignUdpPort, SetSock, SessionInv, SessionTypeOK
  <2> QED BY <2>1, <2>2 DEF HasSession, Live, Readable
<1>6. ASSUME NEW t \in Sockets, ConnectionCloses(t)
      PROVE  FALSE
  <2>1. /\ udpPort' = udpPort /\ sock'[t] = "closed"
        /\ \A u \in Sockets : u # t => sock'[u] = sock[u]
    BY <1>6 DEF ConnectionCloses, SocketCloses, SetSock, SessionInv, SessionTypeOK
  <2> QED BY <2>1 DEF HasSession, Live, Readable
<1>7. ~SessionsStep
  BY <1>1, <1>2, <1>3 DEF SessionsStep, HotPatchHosts, UpdateServerIpBlackList,
                          UpdateServerIpWhitelist, socketVars, poolVars
<1>8. \A t \in Sockets : ~RejectCredentials(t)
  BY <1>1, <1>2 DEF RejectCredentials
<1>9. ~HotPatchClients /\ ~Closed /\ ~(UNCHANGED vars)
  BY <1>3 DEF HotPatchClients, UpdateClientIpBlackList, UpdateClientIpWhitelist, Closed,
              vars, sessionVars, socketVars, poolVars
<1>10. ~Close
  <2>1. ASSUME Close PROVE FALSE
    <3>1. udpPort' = udpPort /\ \A t \in Sockets : sock'[t] = sock[t] \/ Readable(t)
      BY <2>1 DEF Close, DestroyAll, poolVars
    <3>2. Live(s)' => Live(s)
      BY <3>1 DEF Live, Readable
    <3> QED BY <3>1, <3>2 DEF HasSession
  <2> QED BY <2>1
<1> QED
  BY <1>4, <1>5, <1>6, <1>7, <1>8, <1>9, <1>10 DEF Next, HandleConnection

\* A failed authentication keeps the blacklist complete.
LEMMA RejectCredentialsLockoutInv ==
    ASSUME ServerInv, LockoutInv, NEW s \in Sockets, RejectCredentials(s)
    PROVE  LockoutInv'
<1>1. remoteAddress[s] \in Clients
  BY DEF RejectCredentials, HandleAuthFailure, Receives, Readable, ServerInv
<1> QED
  BY <1>1 DEF RejectCredentials, IncrementAuthFailure, LockoutInv, LockedOut, Pardoned,
              ServerInv, TypeOK

\* A patch either keeps a client on the blacklist or pardons it.
LEMMA HotPatchClientsLockoutInv ==
    ASSUME ServerInv, LockoutInv, HotPatchClients
    PROVE  LockoutInv'
<1>1. PICK list \in ClientPatches : UpdateClientIpBlackList(list) \/ UpdateClientIpWhitelist(list)
  BY DEF HotPatchClients
<1>2. UNCHANGED failedAuthAttempts
  BY <1>1 DEF UpdateClientIpBlackList, UpdateClientIpWhitelist
<1>3. CASE UpdateClientIpBlackList(list)
  BY <1>2, <1>3 DEF UpdateClientIpBlackList, LockoutInv, LockedOut, Pardoned
<1>4. CASE UpdateClientIpWhitelist(list)
  BY <1>2, <1>4 DEF UpdateClientIpWhitelist, LockoutInv, LockedOut, Pardoned
<1> QED BY <1>1, <1>3, <1>4

\* So the blacklist stays complete through every step.
LEMMA NextLockoutInv ==
    ASSUME ServerInv, LockoutInv, [Next]_vars
    PROVE  LockoutInv'
<1>1. CASE UNCHANGED <<failedAuthAttempts, listVars>>
  BY <1>1 DEF LockoutInv, LockedOut, Pardoned, listVars
<1>2. ASSUME NEW s \in Sockets, HandleConnection(s) \/ ConnectionCloses(s)
      PROVE  LockoutInv'
  BY <1>1, <1>2 DEF HandleConnection, RejectConnection, AdmitConnection, Arrives,
                    ConnectionCloses
<1>3. CASE SessionsStep \/ Close \/ Closed \/ UNCHANGED vars
  BY <1>1, <1>3 DEF SessionsStep, Close, Closed, vars, serverVars
<1> QED
  BY <1>2, <1>3, RejectCredentialsLockoutInv, HotPatchClientsLockoutInv DEF Next

\* Nobody has failed yet.
LEMMA InitLockoutInv == Init => LockoutInv
  BY DEF Init, LockoutInv, LockedOut

\* Through any patches of the client lists, a client whose failures reached the
\* maximum gets a session only while pardoned.
THEOREM LockoutTheorem == Spec => LockoutHolds
<1> DEFINE Step == \A s \in Sockets :
                     remoteAddress[s] = NoClient /\ HasSession(s)'
                        => LET c == remoteAddress'[s] IN ~LockedOut(c) \/ Pardoned(c)
<1>1. SessionInv /\ ServerInv /\ LockoutInv /\ [Next]_vars => [Step]_vars
  <2> SUFFICES ASSUME SessionInv, ServerInv, LockoutInv, [Next]_vars,
                      NEW s \in Sockets, remoteAddress[s] = NoClient, HasSession(s)'
               PROVE  ~LockedOut(remoteAddress'[s]) \/ Pardoned(remoteAddress'[s])
    OBVIOUS
  <2>1. ~HasSession(s)
    BY ServerAssumption DEF HasSession, Live, Readable, ServerInv, ServerAssumption
  <2>2. PICK c \in Clients : AdmitConnection(s, c)
    BY <2>1, ServedGrowsByAdmission
  <2>3. c \notin clientBlacklist /\ remoteAddress'[s] = c
    BY <2>2 DEF AdmitConnection, ClientAllowed, Arrives, ServerInv, TypeOK
  <2> QED BY <2>3 DEF LockoutInv
<1>2. ServerInv /\ LockoutInv /\ [Next]_vars => LockoutInv'
  BY NextLockoutInv
<1> QED
  BY <1>1, <1>2, InitLockoutInv, ServerInvariant, PTL DEF Spec, LockoutHolds

-----------------------------------------------------------------------------
(* The refinement of ConnectionLimiter *)

\* Admission is the limiter's Admit: the tracked set the code compares with
\* the limit is the set of connections served.
LEMMA AdmissionRefines ==
    ASSUME SessionInv, ServerInv, NEW s \in Sockets, NEW c \in Clients,
           AdmitConnection(s, c), NewSession(s)
    PROVE  Limiter!Admit(s)
<1>1. /\ server = "listening" /\ server' = server /\ Running /\ ~LimitReached
      /\ sock[s] = "none" /\ sock'[s] = "open"
      /\ \A t \in Sockets : t # s => sock'[t] = sock[t] /\ udpPort'[t] = udpPort[t]
  BY DEF AdmitConnection, Arrives, NewSession, AssignUdpPort, SetSock, SessionInv, SessionTypeOK
<1>2. udpPort'[s] # NoPort
  BY SessionAssumption
  DEF NewSession, AssignUdpPort, FreePorts, SessionInv, SessionTypeOK, SessionAssumption
<1>3. activeConnections = Served /\ IsFiniteSet(activeConnections)
  BY <1>1 DEF ServerInv, TrackedAreServed
<1>4. Cardinality(Served) < MaxConnections
  BY <1>1, <1>3, FS_CardinalityType, ServerAssumption DEF LimitReached, ServerAssumption
<1>5. s \notin Served /\ Served' = Served \cup {s}
  BY <1>1, <1>2 DEF Served, HasSession, Live, Readable
<1>6. Limiter!Cardinality(Served) = Cardinality(Served)
  BY DEF Limiter!Cardinality, Cardinality
<1> QED BY <1>1, <1>4, <1>5, <1>6 DEF Limiter!Admit

\* Every step is a step of the abstract limiter or leaves it alone.
LEMMA ServerRefines ==
    ASSUME SessionInv, ServerInv, [Next]_vars
    PROVE  [Limiter!LimiterNext]_<<Served, server = "listening">>
<1> DEFINE Refined == [Limiter!LimiterNext]_<<Served, server = "listening">>
<1>1. KeepsConnections /\ server' = server => Refined
  BY DEF KeepsConnections, Served, HasSession
<1>2. UNCHANGED <<sock, udpPort>> /\ (server' = "listening" <=> server = "listening") => Refined
  BY DEF Served, HasSession, Live, Readable
<1>3. ASSUME NEW s \in Sockets, NEW c \in Clients, RejectConnection(s, c)
      PROVE  Refined
  <2>1. /\ udpPort' = udpPort /\ udpPort[s] = NoPort /\ server' = server
        /\ \A t \in Sockets : t # s => sock'[t] = sock[t]
    BY <1>3 DEF RejectConnection, Arrives, RefuseConnection, SetSock, SessionInv, SessionTypeOK,
                SessionsHavePorts, poolVars
  <2>2. Served' = Served
    BY <2>1 DEF Served, HasSession, Live, Readable
  <2> QED BY <2>1, <2>2
<1>4. ASSUME NEW s \in Sockets, NEW c \in Clients, AdmitConnection(s, c)
      PROVE  Refined
  <2>1. CASE NewSession(s)
    BY <1>4, <2>1, AdmissionRefines DEF Limiter!LimiterNext
  <2>2. CASE NewSessionThrows(s)
    BY <1>2, <1>4, <2>2 DEF NewSessionThrows, AdmitConnection, Arrives, socketVars, poolVars
  <2> QED BY <1>4, <2>1, <2>2 DEF AdmitConnection
<1>5. ASSUME NEW s \in Sockets, ConnectionCloses(s)
      PROVE  Refined
  <2>1. /\ sock[s] = "destroyed" /\ sock'[s] = "closed" /\ udpPort' = udpPort /\ server' = server
        /\ \A t \in Sockets : t # s => sock'[t] = sock[t]
    BY <1>5 DEF ConnectionCloses, SocketCloses, SetSock, SessionInv, SessionTypeOK
  <2>2. Served' = Served \ {s}
    BY <2>1 DEF Served, HasSession, Live, Readable
  <2>3. CASE s \in Served
    BY <2>1, <2>2, <2>3 DEF Limiter!LimiterNext, Limiter!Leave
  <2>4. CASE s \notin Served
    BY <2>1, <2>2, <2>4
  <2> QED BY <2>3, <2>4
<1>6. ASSUME NEW s \in Sockets, RejectCredentials(s)
      PROVE  Refined
  BY <1>1, <1>6, SessionStepKeepsConnections DEF RejectCredentials
<1>7. CASE SessionsStep
  BY <1>1, <1>7, SessionStepKeepsConnections, NoSockKeeps
  DEF SessionsStep, HotPatchHosts, UpdateServerIpBlackList, UpdateServerIpWhitelist,
      socketVars, poolVars, serverVars
<1>8. CASE HotPatchClients \/ Closed \/ UNCHANGED vars
  BY <1>2, <1>8 DEF HotPatchClients, UpdateClientIpBlackList, UpdateClientIpWhitelist, Closed,
                    vars, serverVars, sessionVars, socketVars, poolVars
<1>9. CASE Close
  <2>1. /\ server = "listening" /\ server' = "closing" /\ udpPort' = udpPort
        /\ \A t \in Sockets : Live(t)' <=> Live(t)
    <3>1. /\ sock' = [t \in Sockets |-> IF t \in activeConnections /\ Readable(t)
                                        THEN "destroyed" ELSE sock[t]]
          /\ server = "listening" /\ server' = "closing" /\ udpPort' = udpPort
      BY <1>9 DEF Close, DestroyAll, poolVars
    <3> QED BY <3>1 DEF Live, Readable
  <2>2. Served' = Served
    BY <2>1 DEF Served, HasSession
  <2> QED BY <2>1, <2>2 DEF Limiter!LimiterNext, Limiter!Shutdown
<1> QED
  BY <1>3, <1>4, <1>5, <1>6, <1>7, <1>8, <1>9 DEF Next, HandleConnection

\* The limiter starts with nobody served.
LEMMA InitLimiter == Init => Limiter!LimiterInit
  BY DEF Init, SessionInit, Limiter!LimiterInit, Served, HasSession, Live, Readable

\* The server implements the connection limiter.
THEOREM ServerImplementsLimiter == Spec => ImplementsLimiter
  BY InitLimiter, ServerRefines, ServerInvariant, PTL
  DEF Spec, ImplementsLimiter, Limiter!LimiterSpec

-----------------------------------------------------------------------------
(* What the limiter promises *)

\* The limiter speaks of finite sets in the same words.
LEMMA SameSets ==
    ASSUME NEW S
    PROVE  Limiter!Cardinality(S) = Cardinality(S) /\ (Limiter!IsFiniteSet(S) <=> IsFiniteSet(S))
  BY DEF Limiter!Cardinality, Cardinality, Limiter!IsFiniteSet, IsFiniteSet

\* No step of the limiter lets more connections in than it may.
LEMMA LimitKept ==
    ASSUME Limiter!WithinLimit, [Limiter!LimiterNext]_<<Served, server = "listening">>
    PROVE  Limiter!WithinLimit'
<1>1. IsFiniteSet(Served) /\ Cardinality(Served) <= MaxConnections /\ Cardinality(Served) \in Nat
  BY SameSets, FS_CardinalityType DEF Limiter!WithinLimit
<1>2. ASSUME NEW s, Limiter!Admit(s)
      PROVE  IsFiniteSet(Served') /\ Cardinality(Served') <= MaxConnections
  BY <1>1, <1>2, SameSets, FS_AddElement, ServerAssumption DEF Limiter!Admit, ServerAssumption
<1>3. ASSUME NEW s, Limiter!Leave(s)
      PROVE  IsFiniteSet(Served') /\ Cardinality(Served') <= MaxConnections
  <2>1. s \in Served /\ Served' = Served \ {s}
    BY <1>3 DEF Limiter!Leave
  <2>2. IsFiniteSet(Served \ {s}) /\ Cardinality(Served \ {s}) = Cardinality(Served) - 1
    BY <1>1, <2>1, FS_RemoveElement, Zenon
  <2>3. Cardinality(Served) - 1 <= MaxConnections
    BY <1>1, ServerAssumption DEF ServerAssumption
  <2> QED BY <2>1, <2>2, <2>3
<1>4. ASSUME UNCHANGED Served
      PROVE  IsFiniteSet(Served') /\ Cardinality(Served') <= MaxConnections
  BY <1>1, <1>4
<1>5. IsFiniteSet(Served') /\ Cardinality(Served') <= MaxConnections
  BY <1>2, <1>3, <1>4 DEF Limiter!LimiterNext, Limiter!Shutdown
<1> QED BY <1>5, SameSets DEF Limiter!WithinLimit

\* No connection is served at first.
LEMMA InitWithinLimit == Init => Limiter!WithinLimit
<1> SUFFICES ASSUME Init PROVE Limiter!WithinLimit
  OBVIOUS
<1>1. Served = {}
  BY DEF Init, SessionInit, Served, HasSession, Live, Readable
<1>2. IsFiniteSet(Served) /\ Cardinality(Served) <= MaxConnections
  BY <1>1, FS_EmptySet, ServerAssumption DEF ServerAssumption
<1> QED BY <1>2, SameSets DEF Limiter!WithinLimit

\* Never more connections are served than the limit allows, after close() either.
THEOREM ConnectionsWithinLimit == Spec => [](Cardinality(Served) <= MaxConnections)
<1>1. Limiter!WithinLimit => Cardinality(Served) <= MaxConnections
  BY SameSets DEF Limiter!WithinLimit
<1> QED
  BY <1>1, InitWithinLimit, LimitKept, ServerRefines, ServerInvariant, PTL DEF Spec

-----------------------------------------------------------------------------
(* How far past the maximum a client can get *)

\* Two of something for each of at most n.
LEMMA TwoOfEach ==
    ASSUME NEW S, IsFiniteSet(S), NEW n \in Nat, Cardinality(S) <= n,
           NEW C \in SUBSET (S \X {"open", "ended"})
    PROVE  IsFiniteSet(C) /\ Cardinality(C) \in Nat /\ Cardinality(C) <= 2 * n
<1>1. IsFiniteSet({"open", "ended"}) /\ Cardinality({"open", "ended"}) = 2
  <2>1. {"open", "ended"} = {"open"} \cup {"ended"} /\ "ended" \notin {"open"}
    OBVIOUS
  <2>2. IsFiniteSet({"open"}) /\ Cardinality({"open"}) = 1
    BY FS_Singleton
  <2>3. /\ IsFiniteSet({"open"} \cup {"ended"})
        /\ Cardinality({"open"} \cup {"ended"}) = Cardinality({"open"}) + 1
    BY <2>1, <2>2, FS_AddElement
  <2> QED BY <2>1, <2>2, <2>3
<1>2. /\ IsFiniteSet(S \X {"open", "ended"})
      /\ Cardinality(S \X {"open", "ended"}) = Cardinality(S) * 2
  BY <1>1, FS_Product
<1>3. IsFiniteSet(C) /\ Cardinality(C) <= Cardinality(S) * 2
  BY <1>2, FS_Subset
<1> QED BY <1>3, FS_CardinalityType

\* The chances are those of connections that are served.
LEMMA ChancesBound ==
    SessionInv /\ Limiter!WithinLimit =>
        \A c \in Clients :
            IsFiniteSet(Chances(c)) /\ Cardinality(Chances(c)) \in Nat
              /\ Cardinality(Chances(c)) <= 2 * MaxConnections
<1> SUFFICES ASSUME SessionInv, Limiter!WithinLimit, NEW c \in Clients
             PROVE  IsFiniteSet(Chances(c)) /\ Cardinality(Chances(c)) \in Nat
                      /\ Cardinality(Chances(c)) <= 2 * MaxConnections
  OBVIOUS
<1>1. Chances(c) \in SUBSET (Served \X {"open", "ended"})
  BY DEF Chances, Served, HasSession, Live, SessionInv, SessionsHavePorts
<1>2. IsFiniteSet(Served) /\ Cardinality(Served) <= MaxConnections
  BY SameSets DEF Limiter!WithinLimit
<1> QED BY <1>1, <1>2, TwoOfEach, ServerAssumption DEF ServerAssumption

\* A step that charges no failure and makes no socket readable restores no chance.
LEMMA OnlyEndsAttemptsInv ==
    ASSUME SessionInv, ServerInv, Limiter!WithinLimit, AttemptsInv, OnlyEnds,
           \A t \in Sockets : Readable(t) => remoteAddress'[t] = remoteAddress[t],
           UNCHANGED failedAuthAttempts,
           \A c \in Clients : pardon'[c] \in {pardon[c], failedAuthAttempts[c]}
    PROVE  AttemptsInv'
<1> SUFFICES ASSUME NEW c \in Clients
             PROVE  LET reach == failedAuthAttempts[c] + Cardinality(Chances(c)')
                    IN  \/ reach < MaxFailedAttempts + 2 * MaxConnections
                        \/ reach <= pardon'[c] + 2 * MaxConnections
  BY DEF AttemptsInv
<1>1. Chances(c)' \in SUBSET Chances(c)
  BY DEF OnlyEnds, Chances
<1>2. IsFiniteSet(Chances(c)) /\ Cardinality(Chances(c)) \in Nat
      /\ Cardinality(Chances(c)) <= 2 * MaxConnections
  BY ChancesBound
<1>3. Cardinality(Chances(c)') \in Nat /\ Cardinality(Chances(c)') <= Cardinality(Chances(c))
  BY <1>1, <1>2, FS_Subset, FS_CardinalityType
<1>4. /\ failedAuthAttempts[c] \in Nat /\ pardon[c] \in Nat
      /\ MaxFailedAttempts \in Nat /\ MaxConnections \in Nat
  BY ServerAssumption DEF ServerAssumption, ServerInv, TypeOK
<1> QED BY <1>2, <1>3, <1>4 DEF AttemptsInv

\* A failure uses up one of the client's chances: what is left of an open socket
\* is an ended one, and of an ended one nothing.
LEMMA RejectCredentialsAttemptsInv ==
    ASSUME SessionInv, ServerInv, Limiter!WithinLimit, AttemptsInv, NEW s \in Sockets,
           RejectCredentials(s)
    PROVE  AttemptsInv'
<1> DEFINE d == remoteAddress[s]
           used == <<s, sock[s]>>
<1>1. /\ Send(s, "authFailed", "ended") /\ Readable(s)
      /\ UNCHANGED <<remoteAddress, pardon>>
  BY DEF RejectCredentials, HandleAuthFailure, Receives
<1>2. /\ \/ sock[s] = "open" /\ sock'[s] = "ended"
         \/ sock[s] = "ended" /\ sock'[s] = "destroyed"
      /\ \A t \in Sockets : t # s => sock'[t] = sock[t]
  BY <1>1, SendLemma DEF Replies
<1>3. d \in Clients
  BY <1>1 DEF Readable, ServerInv
<1>4. \A c \in Clients : failedAuthAttempts'[c] =
                           IF c = d THEN failedAuthAttempts[c] + 1 ELSE failedAuthAttempts[c]
  BY <1>3 DEF RejectCredentials, IncrementAuthFailure, ServerInv, TypeOK
<1>5. used \in Chances(d)
  BY <1>1 DEF Chances, Readable
<1>6. \A c \in Clients : Chances(c)' \in SUBSET (IF c = d THEN Chances(c) \ {used} ELSE Chances(c))
  BY <1>1, <1>2 DEF Chances, Readable
<1> SUFFICES ASSUME NEW c \in Clients
             PROVE  LET reach == failedAuthAttempts'[c] + Cardinality(Chances(c)')
                    IN  \/ reach < MaxFailedAttempts + 2 * MaxConnections
                        \/ reach <= pardon[c] + 2 * MaxConnections
  BY <1>1 DEF AttemptsInv
<1>7. IsFiniteSet(Chances(c)) /\ Cardinality(Chances(c)) \in Nat
  BY ChancesBound
<1>8. /\ Cardinality(Chances(c)') \in Nat
      /\ Cardinality(Chances(c)') <= IF c = d THEN Cardinality(Chances(c)) - 1
                                               ELSE Cardinality(Chances(c))
  <2>1. CASE c = d
    <3>1. IsFiniteSet(Chances(c) \ {used}) /\ Cardinality(Chances(c) \ {used}) = Cardinality(Chances(c)) - 1
      BY <1>5, <1>7, <2>1, FS_RemoveElement
    <3> QED BY <1>6, <2>1, <3>1, FS_Subset, FS_CardinalityType
  <2>2. CASE c # d
    BY <1>6, <1>7, <2>2, FS_Subset, FS_CardinalityType
  <2> QED BY <2>1, <2>2
<1>9. /\ failedAuthAttempts[c] \in Nat /\ pardon[c] \in Nat
      /\ MaxFailedAttempts \in Nat /\ MaxConnections \in Nat
  BY ServerAssumption DEF ServerAssumption, ServerInv, TypeOK
<1> HIDE DEF d, used
<1>10. failedAuthAttempts'[c] + Cardinality(Chances(c)') <= failedAuthAttempts[c] + Cardinality(Chances(c))
  BY <1>4, <1>7, <1>8, <1>9
<1> QED BY <1>4, <1>7, <1>8, <1>9, <1>10 DEF AttemptsInv

\* Whoever is admitted is below the maximum or at the count it was pardoned at,
\* and has as many connections as the limit at most.
LEMMA AdmitAttemptsInv ==
    ASSUME SessionInv, ServerInv, Limiter!WithinLimit, LockoutInv, AttemptsInv,
           SessionInv', Limiter!WithinLimit',
           NEW s \in Sockets, NEW c \in Clients, AdmitConnection(s, c), NewSession(s)
    PROVE  AttemptsInv'
<1>1. /\ sock[s] = "none" /\ c \notin clientBlacklist /\ remoteAddress'[s] = c
      /\ \A t \in Sockets : t # s => remoteAddress'[t] = remoteAddress[t] /\ sock'[t] = sock[t]
      /\ UNCHANGED <<failedAuthAttempts, pardon>>
  BY DEF AdmitConnection, ClientAllowed, Arrives, NewSession, SetSock, listVars,
         ServerInv, TypeOK, SessionInv, SessionTypeOK
<1> SUFFICES ASSUME NEW d \in Clients
             PROVE  LET reach == failedAuthAttempts[d] + Cardinality(Chances(d)')
                    IN  \/ reach < MaxFailedAttempts + 2 * MaxConnections
                        \/ reach <= pardon[d] + 2 * MaxConnections
  BY <1>1 DEF AttemptsInv
<1>2. Cardinality(Chances(d)') \in Nat /\ Cardinality(Chances(d)') <= 2 * MaxConnections
  <2>1. Chances(d)' \in SUBSET (Served' \X {"open", "ended"})
    BY DEF Chances, Served, HasSession, Live, SessionInv, SessionsHavePorts
  <2>2. IsFiniteSet(Served') /\ Cardinality(Served') <= MaxConnections
    BY SameSets DEF Limiter!WithinLimit
  <2> QED BY <2>1, <2>2, TwoOfEach, ServerAssumption DEF ServerAssumption
<1>3. /\ failedAuthAttempts[d] \in Nat /\ pardon[d] \in Nat
      /\ MaxFailedAttempts \in Nat /\ MaxConnections \in Nat
  BY ServerAssumption DEF ServerAssumption, ServerInv, TypeOK
<1>4. CASE d = c
  <2>1. ~LockedOut(c) \/ Pardoned(c)
    BY <1>1 DEF LockoutInv
  <2> QED BY <1>2, <1>3, <1>4, <2>1 DEF LockedOut, Pardoned
<1>5. CASE d # c
  <2>1. Chances(d)' = Chances(d)
    BY <1>1, <1>5 DEF Chances, Readable
  <2> QED BY <2>1 DEF AttemptsInv
<1> QED BY <1>4, <1>5

\* The steps that admit nobody and charge nobody.
LEMMA OtherStepsOnlyEnd ==
    ASSUME SessionInv, ServerInv, [Next]_vars,
           \A s \in Sockets, c \in Clients : ~(AdmitConnection(s, c) /\ NewSession(s)),
           \A s \in Sockets : ~RejectCredentials(s)
    PROVE  /\ OnlyEnds
           /\ \A t \in Sockets : Readable(t) => remoteAddress'[t] = remoteAddress[t]
           /\ UNCHANGED failedAuthAttempts
           /\ \A c \in Clients : pardon'[c] \in {pardon[c], failedAuthAttempts[c]}
<1> DEFINE Goal == /\ OnlyEnds
                   /\ \A t \in Sockets : Readable(t) => remoteAddress'[t] = remoteAddress[t]
                   /\ UNCHANGED failedAuthAttempts
                   /\ \A c \in Clients : pardon'[c] \in {pardon[c], failedAuthAttempts[c]}
<1>1. ASSUME NEW s \in Sockets, NEW c \in Clients, RejectConnection(s, c) \/ AdmitConnection(s, c)
      PROVE  Goal
  <2>1. /\ \A t \in Sockets : t # s => remoteAddress'[t] = remoteAddress[t]
        /\ UNCHANGED <<failedAuthAttempts, pardon>>
    BY <1>1 DEF RejectConnection, AdmitConnection, Arrives, listVars, ServerInv, TypeOK
  <2>2. /\ sock[s] = "none" /\ sock'[s] \in {"none", "destroyed"}
        /\ \A t \in Sockets : t # s => sock'[t] = sock[t]
    BY <1>1 DEF RejectConnection, AdmitConnection, RefuseConnection, NewSessionThrows, SetSock,
                socketVars, SessionInv, SessionTypeOK
  <2> QED BY <2>1, <2>2 DEF OnlyEnds, Readable
<1>2. ASSUME NEW s \in Sockets, ConnectionCloses(s)
      PROVE  Goal
  BY <1>2 DEF ConnectionCloses, SocketCloses, SetSock, OnlyEnds, Readable, listVars,
              SessionInv, SessionTypeOK
<1>3. CASE SessionsStep
  BY <1>3, SessionStepKeepsConnections, NoSockKeeps
  DEF SessionsStep, HotPatchHosts, UpdateServerIpBlackList, UpdateServerIpWhitelist, KeepsConnections,
      socketVars, poolVars, serverVars, listVars
<1>4. CASE HotPatchClients
  BY <1>4 DEF HotPatchClients, UpdateClientIpBlackList, UpdateClientIpWhitelist, OnlyEnds, Readable,
              sessionVars, socketVars
<1>5. CASE Close
  BY <1>5 DEF Close, DestroyAll, OnlyEnds, Readable, listVars
<1>6. CASE Closed \/ UNCHANGED vars
  BY <1>6 DEF Closed, OnlyEnds, Readable, vars, serverVars, sessionVars, socketVars, listVars
<1> QED BY <1>1, <1>2, <1>3, <1>4, <1>5, <1>6 DEF Next, HandleConnection

\* Every step keeps the count of failures and the chances that are left within
\* the bound together.
LEMMA NextAttemptsInv ==
    ASSUME SessionInv, ServerInv, Limiter!WithinLimit, LockoutInv, AttemptsInv,
           SessionInv', Limiter!WithinLimit', [Next]_vars
    PROVE  AttemptsInv'
<1>1. CASE \E s \in Sockets, c \in Clients : AdmitConnection(s, c) /\ NewSession(s)
  BY <1>1, AdmitAttemptsInv
<1>2. CASE \E s \in Sockets : RejectCredentials(s)
  BY <1>2, RejectCredentialsAttemptsInv
<1> QED BY <1>1, <1>2, OtherStepsOnlyEnd, OnlyEndsAttemptsInv

\* No failure is counted and there is no chance of one at first.
LEMMA InitAttemptsInv == Init => AttemptsInv
<1> SUFFICES ASSUME Init, NEW c \in Clients
             PROVE  0 + Cardinality(Chances(c)) <= 0 + 2 * MaxConnections
  BY DEF Init, AttemptsInv
<1>1. Chances(c) = {}
  BY DEF Init, SessionInit, Chances, Readable
<1> QED BY <1>1, FS_EmptySet, ServerAssumption DEF ServerAssumption

\* A client is charged with at most two failures for each connection the limit
\* allows, past the maximum or past the count it was pardoned at.
THEOREM AttemptsAreBounded == Spec => []AttemptsBounded
<1>1. SessionInv /\ ServerInv /\ Limiter!WithinLimit /\ AttemptsInv => AttemptsBounded
  <2> SUFFICES ASSUME SessionInv, ServerInv, Limiter!WithinLimit, AttemptsInv, NEW c \in Clients
               PROVE  \/ failedAuthAttempts[c] < MaxFailedAttempts + 2 * MaxConnections
                      \/ failedAuthAttempts[c] <= pardon[c] + 2 * MaxConnections
    BY DEF AttemptsBounded
  <2>1. Cardinality(Chances(c)) \in Nat
    BY ChancesBound
  <2>2. /\ failedAuthAttempts[c] \in Nat /\ pardon[c] \in Nat
        /\ MaxFailedAttempts \in Nat /\ MaxConnections \in Nat
    BY ServerAssumption DEF ServerAssumption, ServerInv, TypeOK
  <2> QED BY <2>1, <2>2 DEF AttemptsInv
<1>2. ServerInv /\ LockoutInv /\ [Next]_vars => LockoutInv'
  BY NextLockoutInv
<1>3. /\ SessionInv /\ ServerInv /\ Limiter!WithinLimit /\ LockoutInv /\ AttemptsInv
      /\ SessionInv' /\ Limiter!WithinLimit' /\ [Next]_vars
      => AttemptsInv'
  BY NextAttemptsInv
<1>4. SessionInv /\ ServerInv /\ Limiter!WithinLimit /\ [Next]_vars => Limiter!WithinLimit'
  BY ServerRefines, LimitKept
<1> QED
  BY <1>1, <1>2, <1>3, <1>4, InitLockoutInv, InitWithinLimit, InitAttemptsInv, ServerInvariant, PTL
  DEF Spec

-----------------------------------------------------------------------------
(* The clients in lock step *)

\* A step of a session, or the rejection of its credentials, concerns no other.
LEMMA SessionStepIsLocal ==
    ASSUME SessionInv, NEW s \in Sockets, NEW t \in Sockets, t # s,
           SessionStep(s) \/ HandleAuthFailure(s)
    PROVE  sock'[t] = sock[t] /\ state'[t] = state[t] /\ reply'[t] = reply[t]
<1> DEFINE Local == sock'[t] = sock[t] /\ state'[t] = state[t] /\ reply'[t] = reply[t]
<1>1. ASSUME NEW r \in Replies, NEW after \in {"open", "ended", "destroyed"}, Send(s, r, after),
             state' = state \/ \E x : state' = [state EXCEPT ![s] = x]
      PROVE  Local
  BY <1>1, SendLemma DEF SessionInv, SessionTypeOK
<1>2. ASSUME NEW methods \in SUBSET {0, 2}, HandleGreeting(s, methods)
      PROVE  Local
  BY <1>1, <1>2 DEF HandleGreeting, SelectMethod, Replies
<1>3. CASE HandleAuthSuccess(s) \/ HandleAuthFailure(s)
  BY <1>1, <1>3 DEF HandleAuthSuccess, HandleAuthFailure, Replies
<1>4. CASE HandleBadVersion(s) \/ HandlerEnds(s) \/ PeerEnds(s) \/ PeerResets(s)
  BY <1>4 DEF HandleBadVersion, HandlerEnds, PeerEnds, PeerResets, FailSocket, SetSock, dialogVars,
              SessionInv, SessionTypeOK
<1>5. CASE HandlerSucceeds(s) \/ HandlerFails(s)
  BY <1>1, <1>5 DEF HandlerSucceeds, HandlerFails, Replies
<1>6. CASE HandleMalformedCommand(s)
  BY <1>6 DEF HandleMalformedCommand, socketVars, dialogVars
<1>7. ASSUME NEW h \in Hosts, HandleFilteredCommand(s, h)
      PROVE  Local
  BY <1>7 DEF HandleFilteredCommand, SetSock, dialogVars, SessionInv, SessionTypeOK
<1>8. ASSUME NEW h \in Hosts, NEW k \in {"connect", "bind"}, HandleTcpCommand(s, k, h)
      PROVE  Local
  BY <1>8 DEF HandleTcpCommand, StartHandler, socketVars, SessionInv, SessionTypeOK
<1>9. ASSUME NEW h \in Hosts, HandleUdpCommand(s, h) \/ HandleInvalidConnect(s, h)
      PROVE  Local
  BY <1>1, <1>9 DEF HandleUdpCommand, HandleInvalidConnect, StartHandler, Replies
<1> QED
  BY <1>2, <1>3, <1>4, <1>5, <1>6, <1>7, <1>8, <1>9 DEF SessionStep, HandleCommand

\* What the server reads of an honest client is a step of the server.
LEMMA ReadsIsNext ==
    ASSUME NEW s \in Honest, NEW whole \in BOOLEAN, Reads(s, whole)
    PROVE  [Next]_vars
<1>1. s \in Sockets /\ SUBSET Offers \subseteq SUBSET {0, 2}
  BY ClientAssumption DEF ClientAssumption
<1>2. ASSUME SessionStep(s), UNCHANGED serverVars
      PROVE  Next
  BY <1>1, <1>2 DEF Next, SessionsStep
<1>3. ASSUME RejectCredentials(s)
      PROVE  Next
  BY <1>1, <1>3 DEF Next
<1> QED BY <1>1, <1>2, <1>3 DEF Reads, SessionStep, HandleCommand

\* Honest or not, the clients only make the server take its own steps.
LEMMA ClientNextIsNext ==
    ASSUME [ClientNext]_systemVars
    PROVE  [Next]_vars
<1>1. ASSUME NEW s \in Honest, HonestNext(s)
      PROVE  [Next]_vars
  <2>1. s \in Sockets /\ HonestClient \in Clients
    BY ClientAssumption DEF ClientAssumption
  <2>2. CASE RejectConnection(s, HonestClient) \/ AdmitConnection(s, HonestClient)
    BY <2>1, <2>2 DEF Next, HandleConnection
  <2>3. CASE HonestSends(s)
    BY <2>3 DEF HonestSends, ClientSends
  <2>4. CASE Arrival(s)
    BY <2>4, ReadsIsNext DEF Arrival
  <2>5. CASE ConnectOutcome(s) \/ ClientLeaves(s)
    BY <2>1, <2>5 DEF ConnectOutcome, ClientLeaves, Next, SessionsStep, SessionStep
  <2> QED BY <1>1, <2>2, <2>3, <2>4, <2>5 DEF HonestNext
<1>2. ASSUME NEW s \in Sockets, OtherNext(s)
      PROVE  [Next]_vars
  BY <1>2 DEF OtherNext, Next, HandleConnection, SessionsStep
<1>3. CASE \/ \E s \in Sockets : ConnectionCloses(s)
           \/ HotPatchHosts /\ UNCHANGED serverVars
           \/ HotPatchClients \/ Close \/ Closed
  BY <1>3 DEF Next, SessionsStep
<1>4. CASE UNCHANGED systemVars
  BY <1>4 DEF systemVars
<1> QED BY <1>1, <1>2, <1>3, <1>4 DEF ClientNext

\* Whatever the clients do, what was proved of the server holds of it.
THEOREM ClientsRunServer == ClientSpec => Spec
<1>1. ClientInit => Init
  BY DEF ClientInit
<1>2. [ClientNext]_systemVars => [Next]_vars
  BY ClientNextIsNext
<1> QED BY <1>1, <1>2, PTL DEF ClientSpec, Spec

\* A reply to a client is never taken back.
LEMMA ReplyStays ==
    ASSUME SessionInv, NEW s \in Sockets, NEW r \in Replies \ {"none"},
           NEW after \in {"open", "ended", "destroyed"}, Send(s, r, after)
    PROVE  reply'[s] \in {reply[s], r} /\ (reply[s] # "none" => reply'[s] # "none")
  BY SendLemma

\* What an honest client knows only changes with its own dialog.
LEMMA InStepStays ==
    ASSUME NEW s, InStep(s), state'[s] = state[s], reply'[s] = reply[s],
           sent'[s] = sent[s], pending'[s] = pending[s]
    PROVE  InStep(s)'
  BY DEF InStep

\* A connection attempt of anybody: the dialogs stay as they are.
LEMMA ArrivalOfConnection ==
    ASSUME SessionInv, ServerInv, NEW s \in Sockets, NEW c \in Clients,
           RejectConnection(s, c) \/ AdmitConnection(s, c)
    PROVE  /\ remoteAddress'[s] = c
           /\ \A t \in Sockets : t # s => remoteAddress'[t] = remoteAddress[t] /\ sock'[t] = sock[t]
           /\ UNCHANGED <<dialogVars, failedAuthAttempts>>
  BY DEF RejectConnection, AdmitConnection, Arrives, RefuseConnection, NewSession, NewSessionThrows,
         SetSock, socketVars, ServerInv, TypeOK, SessionInv, SessionTypeOK

\* An honest client sends its next message when it has the reply to the last.
LEMMA HonestSendsInStep ==
    ASSUME SessionInv, ClientTypeOK, NEW s \in Honest, InStep(s), HonestSends(s)
    PROVE  InStep(s)'
<1>1. ASSUME NEW after, NEW m \in {"greeting", "credentials", "command"},
             ClientSends(s, after, m),
             m = "greeting" => after = "none", m # "greeting" => after # "none",
             m = "command" => after \in {"noAuth", "authOk"},
             after \in {"noAuth", "authOk"} => m = "command"
      PROVE  InStep(s)'
  <2>1. /\ sent'[s] = m /\ pending'[s] = "whole" /\ reply[s] = after /\ sent[s] # m
        /\ reply' = reply /\ state' = state
    BY <1>1 DEF ClientSends, ClientTypeOK, vars, sessionVars, dialogVars
  <2>2. m = "greeting" => state[s] = "AwaitingGreeting"
    BY <1>1, <2>1 DEF InStep, ClientTypeOK
  <2>3. m = "command" => state[s] # "AwaitingAuthentication"
    BY <1>1, <2>1 DEF InStep
  <2> QED BY <1>1, <2>1, <2>2, <2>3 DEF InStep
<1> QED BY <1>1 DEF HonestSends

\* A whole message finds the session in the state it is meant for: the client
\* stays in step and is not charged.
LEMMA WholeMessageInStep ==
    ASSUME SessionInv, ClientTypeOK, 2 \in Offers, NEW s \in Honest, InStep(s),
           pending[s] = "whole", Reads(s, TRUE),
           pending'[s] = "none", sent' = sent
    PROVE  InStep(s)' /\ failedAuthAttempts' = failedAuthAttempts
<1>1. s \in Sockets /\ SUBSET Offers \subseteq SUBSET {0, 2} /\ sent[s] # "nothing"
  BY ClientAssumption DEF ClientAssumption, InStep
<1>2. UNCHANGED serverVars => failedAuthAttempts' = failedAuthAttempts
  BY DEF serverVars
<1>3. /\ reply[s] # "none" => reply'[s] # "none"
      /\ \/ state'[s] # "AwaitingAuthentication"
         \/ sent[s] # "command" /\ reply'[s] \notin {"noAuth", "authOk"}
      => InStep(s)'
  BY <1>1 DEF InStep
<1>4. CASE /\ sent[s] = "greeting"
           /\ HandleGreeting(s, Offers)
           /\ UNCHANGED serverVars
  <2>1. /\ Send(s, SelectMethod(s, Offers), IF SelectMethod(s, Offers) = "noAcceptable" THEN "ended" ELSE "open")
        /\ state[s] = "AwaitingGreeting" /\ state'[s] = StateAfterGreeting(s)
    BY <1>1, <1>4 DEF HandleGreeting, Receives, SessionInv, SessionTypeOK
  <2>2. reply[s] = "none"
    BY <1>1, <2>1 DEF SessionInv, AuthStateHasHandler
  <2>3. SelectMethod(s, Offers) \in Replies \ {"none"}
    BY DEF SelectMethod, Replies
  <2>4. reply'[s] \in {"none", SelectMethod(s, Offers)}
    BY <1>1, <2>1, <2>2, <2>3, ReplyStays
  <2>5. state'[s] = "AwaitingAuthentication" => SelectMethod(s, Offers) = "userPass"
    BY <2>1 DEF StateAfterGreeting, SelectMethod
  <2> QED BY <1>2, <1>3, <1>4, <2>2, <2>3, <2>4, <2>5
<1>5. CASE HandleAuthSuccess(s) /\ UNCHANGED serverVars
  <2>1. Send(s, "authOk", "open") /\ state'[s] = "AwaitingInitialCommand"
    BY <1>1, <1>5 DEF HandleAuthSuccess, SessionInv, SessionTypeOK
  <2> QED BY <1>2, <1>1, <1>3, <1>5, <2>1, ReplyStays DEF Replies
<1>6. CASE sent[s] # "credentials" /\ RejectCredentials(s)
  <2>1. state[s] = "AwaitingAuthentication"
    BY <1>6 DEF RejectCredentials, HandleAuthFailure, Receives
  <2> QED BY <1>1, <1>6, <2>1 DEF InStep, ClientTypeOK
<1>7. ASSUME NEW h \in Hosts,
             HandleFilteredCommand(s, h) \/ HandleTcpCommand(s, "connect", h) \/ HandleUdpCommand(s, h),
             UNCHANGED serverVars
      PROVE  InStep(s)' /\ failedAuthAttempts' = failedAuthAttempts
  <2>1. state'[s] # "AwaitingAuthentication"
    BY <1>1, <1>7
    DEF HandleFilteredCommand, HandleTcpCommand, HandleUdpCommand, StartHandler, Receives, dialogVars,
        SessionInv, SessionTypeOK
  <2>2. reply'[s] = reply[s] \/ Send(s, "commandReply", "open")
    BY <1>7 DEF HandleFilteredCommand, HandleTcpCommand, HandleUdpCommand, dialogVars
  <2>3. reply[s] # "none" => reply'[s] # "none"
    BY <1>1, <2>2, ReplyStays DEF Replies
  <2> QED BY <1>2, <1>3, <1>7, <2>1, <2>3
<1>8. CASE HandleMalformedCommand(s) /\ UNCHANGED serverVars
  BY <1>2, <1>3, <1>8 DEF HandleMalformedCommand, Receives, dialogVars
<1>9. CASE Receives(s, "DataRelayMode") /\ UNCHANGED vars
  BY <1>2, <1>3, <1>9 DEF Receives, vars, sessionVars, dialogVars
<1> QED BY <1>4, <1>5, <1>6, <1>7, <1>8, <1>9 DEF Reads

\* The client variables, the honest client's record and the state of its
\* sessions stay as they are.
LEMMA NobodyHonestMoves ==
    ASSUME ClientInv, UNCHANGED clientVars, UNCHANGED remoteAddress,
           \A s \in Sockets : sock'[s] = "none" <=> sock[s] = "none",
           \A s \in Honest : state'[s] = state[s] /\ reply'[s] = reply[s],
           failedAuthAttempts'[HonestClient] = failedAuthAttempts[HonestClient]
    PROVE  ClientInv'
<1>1. ClientTypeOK' /\ HonestNotBlamed'
  BY DEF ClientInv, ClientTypeOK, HonestNotBlamed, clientVars
<1>2. HonestAddress'
  BY DEF ClientInv, HonestAddress
<1>3. 2 \in Offers => \A s \in Honest : split'[s] \/ InStep(s)'
  BY InStepStays DEF ClientInv, clientVars
<1> QED BY <1>1, <1>2, <1>3 DEF ClientInv

\* Connections come from the address of whoever makes them.
LEMMA ConnectionClientInv ==
    ASSUME SessionInv, ServerInv, ClientInv, NEW s \in Sockets, NEW c \in Clients,
           RejectConnection(s, c) \/ AdmitConnection(s, c), s \in Honest <=> c = HonestClient,
           UNCHANGED clientVars
    PROVE  ClientInv'
<1>1. /\ remoteAddress'[s] = c
      /\ \A t \in Sockets : t # s => remoteAddress'[t] = remoteAddress[t] /\ sock'[t] = sock[t]
      /\ UNCHANGED <<state, reply, failedAuthAttempts>>
  BY ArrivalOfConnection DEF dialogVars
<1>2. ClientTypeOK' /\ HonestNotBlamed'
  BY <1>1 DEF ClientInv, ClientTypeOK, HonestNotBlamed, clientVars
<1>3. HonestAddress'
  BY <1>1 DEF ClientInv, HonestAddress
<1>4. 2 \in Offers => \A t \in Honest : split'[t] \/ InStep(t)'
  BY <1>1, InStepStays DEF ClientInv, clientVars
<1> QED BY <1>2, <1>3, <1>4 DEF ClientInv

\* What arrives of an honest client, in one piece or in two.
LEMMA ArrivalClientInv ==
    ASSUME SessionInv, ServerInv, ClientInv, NEW s \in Honest, Arrival(s)
    PROVE  ClientInv'
<1>1. s \in Sockets /\ sent' = sent /\ \E whole \in BOOLEAN : Reads(s, whole)
  BY ClientAssumption DEF ClientAssumption, Arrival
<1>2. /\ split' = split \/ split' = [split EXCEPT ![s] = TRUE]
      /\ \E x \in {"none", "rest"} : pending' = [pending EXCEPT ![s] = x]
  BY DEF Arrival
<1>3. ClientTypeOK'
  BY <1>1, <1>2 DEF ClientInv, ClientTypeOK
<1>4. \/ (SessionStep(s) \/ HandleAuthFailure(s)) /\ UNCHANGED remoteAddress
      \/ UNCHANGED vars
  <2>1. SUBSET Offers \subseteq SUBSET {0, 2}
    BY ClientAssumption DEF ClientAssumption
  <2> QED BY <1>1, <2>1 DEF Reads, SessionStep, HandleCommand, RejectCredentials, serverVars
<1>5. /\ UNCHANGED remoteAddress
      /\ \A t \in Sockets : sock'[t] = "none" <=> sock[t] = "none"
      /\ \A t \in Honest : t # s => state'[t] = state[t] /\ reply'[t] = reply[t]
  BY <1>1, <1>4, SessionStepIsLocal, SessionStepKeepsConnections, ClientAssumption
  DEF KeepsConnections, ClientAssumption, vars, sessionVars, socketVars, dialogVars, serverVars
<1>6. HonestAddress'
  BY <1>5 DEF ClientInv, HonestAddress
<1>7. \A t \in Honest : t # s => /\ sent'[t] = sent[t] /\ pending'[t] = pending[t]
                                 /\ split'[t] = split[t]
  BY <1>1, <1>2 DEF ClientInv, ClientTypeOK
<1>8. ASSUME 2 \in Offers, ~split'[s]
      PROVE  InStep(s)' /\ failedAuthAttempts' = failedAuthAttempts
  <2>1. ~split[s] /\ InStep(s)
    BY <1>2, <1>8 DEF ClientInv, ClientTypeOK
  <2>2. pending[s] = "whole" /\ Reads(s, TRUE) /\ pending'[s] = "none"
    BY <1>8, <2>1 DEF Arrival, InStep, ClientInv, ClientTypeOK
  <2> QED BY <1>1, <1>8, <2>1, <2>2, WholeMessageInStep DEF ClientInv
<1>9. 2 \in Offers => \A t \in Honest : split'[t] \/ InStep(t)'
  BY <1>5, <1>7, <1>8, InStepStays DEF ClientInv
<1>10. HonestNotBlamed'
  BY <1>7, <1>2, <1>8 DEF ClientInv, ClientTypeOK, HonestNotBlamed
<1> QED BY <1>3, <1>6, <1>9, <1>10 DEF ClientInv

\* The server's and the session's own steps.
LEMMA SessionClientInv ==
    ASSUME SessionInv, ServerInv, ClientInv, NEW s \in Sockets, UNCHANGED clientVars,
           \/ SessionStep(s) /\ UNCHANGED serverVars
           \/ RejectCredentials(s),
           s \notin Honest \/ ConnectOutcome(s) \/ ClientLeaves(s)
    PROVE  ClientInv'
<1>1. SessionStep(s) \/ HandleAuthFailure(s)
  BY DEF RejectCredentials
<1>2. UNCHANGED remoteAddress /\ \A t \in Sockets : sock'[t] = "none" <=> sock[t] = "none"
  BY <1>1, SessionStepKeepsConnections DEF KeepsConnections, serverVars, RejectCredentials
<1>3. \A t \in Honest : t # s => state'[t] = state[t] /\ reply'[t] = reply[t]
  BY <1>1, SessionStepIsLocal, ClientAssumption DEF ClientAssumption
<1>4. CASE s \notin Honest
  <2>1. failedAuthAttempts'[HonestClient] = failedAuthAttempts[HonestClient]
    <3>1. CASE RejectCredentials(s)
      <4>1. remoteAddress[s] \in Clients /\ remoteAddress[s] # HonestClient
        BY <1>4, <3>1 DEF RejectCredentials, HandleAuthFailure, Receives, Readable, ServerInv,
                          ClientInv, HonestAddress
      <4> QED BY <3>1, <4>1 DEF RejectCredentials, IncrementAuthFailure, ServerInv, TypeOK
    <3>2. CASE UNCHANGED serverVars
      BY <3>2 DEF serverVars
    <3> QED BY <3>1, <3>2
  <2> QED BY <1>2, <1>3, <1>4, <2>1, NobodyHonestMoves
<1>5. CASE s \in Honest /\ ClientLeaves(s)
  <2>1. UNCHANGED <<dialogVars, serverVars>>
    BY <1>5 DEF ClientLeaves, PeerEnds
  <2> QED BY <1>2, <2>1, NobodyHonestMoves DEF dialogVars, serverVars
<1>6. CASE s \in Honest /\ ConnectOutcome(s)
  <2>1. /\ handler[s] = "connect" /\ state' = state /\ UNCHANGED serverVars
        /\ \E after \in {"open", "destroyed"} : Send(s, "commandReply", after)
    BY <1>6 DEF ConnectOutcome, HandlerSucceeds, HandlerFails
  <2>2. state[s] # "AwaitingAuthentication"
    BY <2>1 DEF SessionInv, AuthStateHasHandler
  <2>3. reply[s] # "none" => reply'[s] # "none"
    BY <2>1, ReplyStays DEF Replies
  <2>4. InStep(s) => InStep(s)'
    BY <2>1, <2>2, <2>3 DEF InStep, clientVars
  <2>5. ClientTypeOK' /\ HonestNotBlamed'
    BY <2>1 DEF ClientInv, ClientTypeOK, HonestNotBlamed, clientVars, serverVars
  <2>6. HonestAddress'
    BY <1>2 DEF ClientInv, HonestAddress
  <2>7. 2 \in Offers => \A t \in Honest : split'[t] \/ InStep(t)'
    BY <1>3, <2>1, <2>4, InStepStays DEF ClientInv, clientVars
  <2> QED BY <2>5, <2>6, <2>7 DEF ClientInv
<1> QED BY <1>4, <1>5, <1>6

\* So every step keeps the honest client in step.
LEMMA NextClientInv ==
    ASSUME SessionInv, ServerInv, ClientInv, [ClientNext]_systemVars
    PROVE  ClientInv'
<1>1. ASSUME NEW s \in Honest, HonestNext(s)
      PROVE  ClientInv'
  <2>1. s \in Sockets /\ HonestClient \in Clients
    BY ClientAssumption DEF ClientAssumption
  <2>2. CASE /\ RejectConnection(s, HonestClient) \/ AdmitConnection(s, HonestClient)
             /\ UNCHANGED clientVars
    BY <2>1, <2>2, ConnectionClientInv
  <2>3. CASE HonestSends(s)
    <3>1. /\ UNCHANGED <<vars, split>>
          /\ \E m \in {"greeting", "credentials", "command"} : sent' = [sent EXCEPT ![s] = m]
          /\ pending' = [pending EXCEPT ![s] = "whole"]
      BY <2>3 DEF HonestSends, ClientSends
    <3>2. UNCHANGED <<sock, state, reply, remoteAddress, failedAuthAttempts>>
      BY <3>1 DEF vars, sessionVars, socketVars, dialogVars, serverVars
    <3>3. ClientTypeOK' /\ HonestNotBlamed' /\ HonestAddress'
      BY <3>1, <3>2 DEF ClientInv, ClientTypeOK, HonestNotBlamed, HonestAddress
    <3>4. \A t \in Honest : t # s => sent'[t] = sent[t] /\ pending'[t] = pending[t]
      BY <3>1 DEF ClientInv, ClientTypeOK
    <3>5. 2 \in Offers => \A t \in Honest : split'[t] \/ InStep(t)'
      BY <2>3, <3>1, <3>2, <3>4, InStepStays, HonestSendsInStep DEF ClientInv
    <3> QED BY <3>3, <3>5 DEF ClientInv
  <2>4. CASE Arrival(s)
    BY <2>4, ArrivalClientInv
  <2>5. CASE ConnectOutcome(s) \/ ClientLeaves(s)
    <3>1. SessionStep(s) /\ UNCHANGED serverVars /\ UNCHANGED clientVars
      BY <2>5 DEF ConnectOutcome, ClientLeaves, SessionStep
    <3> QED BY <2>1, <2>5, <3>1, SessionClientInv
  <2> QED BY <1>1, <2>2, <2>3, <2>4, <2>5 DEF HonestNext
<1>2. ASSUME NEW s \in Sockets \ Honest, OtherNext(s)
      PROVE  ClientInv'
  BY <1>2, ConnectionClientInv, SessionClientInv DEF OtherNext
<1>3. CASE /\ \/ \E s \in Sockets : ConnectionCloses(s)
              \/ HotPatchHosts /\ UNCHANGED serverVars
              \/ HotPatchClients
              \/ Close
              \/ Closed
           /\ UNCHANGED clientVars
  <2>1. UNCHANGED <<state, reply, remoteAddress, failedAuthAttempts>>
    BY <1>3 DEF ConnectionCloses, SocketCloses, HotPatchHosts, UpdateServerIpBlackList,
                UpdateServerIpWhitelist, HotPatchClients, UpdateClientIpBlackList,
                UpdateClientIpWhitelist, Close, DestroyAll, Closed, sessionVars, dialogVars,
                serverVars
  <2>2. \A s \in Sockets : sock'[s] = "none" <=> sock[s] = "none"
    BY <1>3 DEF ConnectionCloses, SocketCloses, SetSock, HotPatchHosts, UpdateServerIpBlackList,
                UpdateServerIpWhitelist, HotPatchClients, UpdateClientIpBlackList,
                UpdateClientIpWhitelist, Close, DestroyAll, Closed, sessionVars, socketVars,
                Readable, SessionInv, SessionTypeOK
  <2> QED BY <1>3, <2>1, <2>2, NobodyHonestMoves
<1>4. CASE UNCHANGED systemVars
  BY <1>4, NobodyHonestMoves
  DEF systemVars, vars, sessionVars, socketVars, dialogVars, serverVars
<1> QED BY <1>1, <1>2, <1>3, <1>4 DEF ClientNext

\* A client that has sent nothing is in step with its session.
LEMMA InitClientInv == ClientInit => ClientInv
  BY ClientAssumption
  DEF ClientInit, Init, SessionInit, ClientAssumption, ClientInv, ClientTypeOK, HonestAddress,
      InStep, HonestNotBlamed

\* The invariant of the clients in lock step holds for any of the other clients.
THEOREM ClientInvariant == ClientSpec => []ClientInv
<1>1. SessionInv /\ ServerInv /\ ClientInv /\ [ClientNext]_systemVars => ClientInv'
  BY NextClientInv
<1> QED
  BY <1>1, InitClientInv, ClientsRunServer, ServerInvariant, PTL DEF ClientSpec

\* The history variables of the clients keep their types.
THEOREM ClientTypeCorrect == ClientSpec => []ClientTypeOK
<1>1. ClientInv => ClientTypeOK
  BY DEF ClientInv
<1> QED
  BY <1>1, ClientInvariant, PTL

\* A client that follows the protocol is never charged with a failed
\* authentication while its messages arrive whole, whatever the other clients
\* send: splitting is the only way to be blamed (handleAuth,
\* incrementAuthFailure).
THEOREM HonestIsNotBlamed == ClientSpec => []HonestNotBlamed
<1>1. ClientInv => HonestNotBlamed
  BY DEF ClientInv
<1> QED
  BY <1>1, ClientInvariant, PTL
=============================================================================
