---------------------------- MODULE SocksSession ----------------------------
(***************************************************************************)
(* The per-connection engine of the SOCKS5 proxy: class SocksSession, as a *)
(* function of the client sockets, with the static set of UDP ports that   *)
(* all sessions share.                                                     *)
(*                                                                         *)
(* One action is one turn of the event loop: the listener the code         *)
(* registered, everything it calls, and the 'error' event that a failed    *)
(* write schedules, since Node drains process.nextTick and promise         *)
(* callbacks before it reports another I/O event. The 'close' event of a   *)
(* destroyed socket is a later turn (the closing phase of the loop), so    *)
(* other connections can be handled in between. For the same reason        *)
(* "await authenticate(...)", whose promises are all settled already, does *)
(* not let another chunk in.                                               *)
(*                                                                         *)
(* A 'data' event carries a chunk of the TCP stream, not a message, and    *)
(* each state parses whatever chunk it gets. The chunk is therefore        *)
(* represented by what the parser of the current state reads out of it,    *)
(* chosen freely: a late, early, split or merged message is one of the     *)
(* possible readings.                                                      *)
(***************************************************************************)
EXTENDS Naturals, FiniteSets

CONSTANTS
    Sockets,         \* client sockets; each stands for one accepted TCP connection
    UdpPorts,        \* udpPortRange.min .. udpPortRange.max
    NoPort,          \* the port of a connection that has no session
    AuthMethod,      \* authentication.method
    Hosts,           \* destination hosts a command can name
    HostBlacklists,  \* the server blacklists and whitelists of the configuration
    HostWhitelists   \* file, and those an operator may patch in at run time

ASSUME SessionAssumption ==
    /\ UdpPorts \subseteq Nat                    \* port numbers
    /\ NoPort \notin UdpPorts
    /\ AuthMethod \in {"password", "noauth"}     \* ServerConfigInterface.ts:8
    /\ HostBlacklists \subseteq SUBSET Hosts
    /\ HostWhitelists \subseteq SUBSET Hosts

VARIABLES
    process,         \* does the Node process run, or which exception ended it
    sock,            \* the net.Socket of each client
    hadError,        \* the socket was destroyed with an error
    state,           \* SocksSession.state
    authHandler,     \* SocksSession.authHandler is a UserPassAuth (not null)
    reply,           \* the last reply of the server that reached the socket
    handler,         \* SocksSession.commandHandler
    udpPort,         \* SocksSession.udpPort
    usedUdpPorts,    \* static SocksSession.usedUdpPorts
    hostBlacklist,   \* config.serverIpFiltering.blacklist
    hostWhitelist    \* config.serverIpFiltering.whitelist, {} when absent or empty

socketVars  == <<sock, hadError>>
poolVars    == <<udpPort, usedUdpPorts>>
filterVars  == <<hostBlacklist, hostWhitelist>>
dialogVars  == <<state, authHandler, reply, handler>>
sessionVars == <<process, socketVars, dialogVars, poolVars, filterVars>>

\* net.Socket: "ended" is after our end() and before the peer's FIN, when
\* 'data' events still arrive; "destroyed" is before the 'close' event.
SocketStates  == {"none", "open", "ended", "destroyed", "closed"}
SessionStates == {"AwaitingGreeting", "AwaitingAuthentication",
                  "AwaitingInitialCommand", "DataRelayMode"}
Replies       == {"none", "noAuth", "userPass", "noAcceptable",
                  "authOk", "authFailed", "commandReply"}
Handlers      == {"none", "connect", "bind", "udp"}

Running     == process = "running"
Readable(s) == sock[s] \in {"open", "ended"}
Live(s)     == Readable(s) \/ sock[s] = "destroyed"

SessionTypeOK ==
    /\ process \in {"running", "parseCrash", "poolCrash"}
    /\ sock \in [Sockets -> SocketStates]
    /\ hadError \in [Sockets -> BOOLEAN]
    /\ state \in [Sockets -> SessionStates]
    /\ authHandler \in [Sockets -> BOOLEAN]
    /\ reply \in [Sockets -> Replies]
    /\ handler \in [Sockets -> Handlers]
    /\ udpPort \in [Sockets -> UdpPorts \cup {NoPort}]
    /\ usedUdpPorts \subseteq UdpPorts
    /\ hostBlacklist \subseteq Hosts
    /\ hostWhitelist \subseteq Hosts

SessionInit ==
    /\ process = "running"
    /\ sock = [s \in Sockets |-> "none"]
    /\ hadError = [s \in Sockets |-> FALSE]
    /\ state = [s \in Sockets |-> "AwaitingGreeting"]
    /\ authHandler = [s \in Sockets |-> AuthMethod = "password"]
    /\ reply = [s \in Sockets |-> "none"]
    /\ handler = [s \in Sockets |-> "none"]
    /\ udpPort = [s \in Sockets |-> NoPort]
    /\ usedUdpPorts = {}
    /\ hostBlacklist \in HostBlacklists
    /\ hostWhitelist \in HostWhitelists

-----------------------------------------------------------------------------
(* The client socket *)

SetSock(s, st) == sock' = [sock EXCEPT ![s] = st]

\* sessionCleanup on 'error' and again on 'close'. (When it runs the socket
\* is already destroyed, so it never calls end() itself.)
ReleaseUdpPort(s) == usedUdpPorts' = usedUdpPorts \ {udpPort[s]}

\* The socket is destroyed with an error; its 'error' event runs
\* sessionCleanup. 'close' comes later.
FailSocket(s) ==
    /\ SetSock(s, "destroyed")
    /\ hadError' = [hadError EXCEPT ![s] = TRUE]
    /\ ReleaseUdpPort(s)

\* clientSocket.write(r), after which the code leaves the socket in state
\* "after". Writing to a socket we already ended is an error of the socket.
Send(s, r, after) ==
    \/ /\ sock[s] = "open"
       /\ reply' = [reply EXCEPT ![s] = r]
       /\ SetSock(s, after)
       /\ UNCHANGED <<hadError, usedUdpPorts>>
    \/ /\ sock[s] = "ended"
       /\ FailSocket(s)
       /\ UNCHANGED reply

-----------------------------------------------------------------------------
(* Construction: SocksServer accepted the connection *)

\* Faulty variant of FreePorts: no look at the used set.
FreePortsAll == UdpPorts

FreePorts == UdpPorts \ usedUdpPorts

\* assignUdpPort takes the lowest port that is not in the used set.
AssignUdpPort(s) ==
    \E p \in FreePorts :
        /\ \A q \in FreePorts : p <= q
        /\ udpPort' = [udpPort EXCEPT ![s] = p]
        /\ usedUdpPorts' = usedUdpPorts \cup {p}

NewSession(s) ==
    /\ Running
    /\ sock[s] = "none"
    /\ SetSock(s, "open")
    /\ AssignUdpPort(s)
    /\ UNCHANGED <<process, hadError, dialogVars, filterVars>>

\* No port is left: the constructor throws inside the 'connection' event and
\* nothing catches it.
NewSessionThrows(s) ==
    /\ Running
    /\ sock[s] = "none"
    /\ FreePorts = {}
    /\ process' = "poolCrash"
    /\ UNCHANGED <<socketVars, dialogVars, poolVars, filterVars>>

\* SocksServer destroys a connection it does not admit; no session exists.
RefuseConnection(s) ==
    /\ Running
    /\ sock[s] = "none"
    /\ SetSock(s, "destroyed")
    /\ UNCHANGED <<process, hadError, dialogVars, poolVars, filterVars>>

-----------------------------------------------------------------------------
(* handleData, one action per session state *)

\* Faulty variant of SelectMethod: no authentication is preferred.
SelectMethodSwapped(s, methods) ==
    IF 0 \in methods THEN "noAuth"
    ELSE IF 2 \in methods /\ authHandler[s] THEN "userPass"
    ELSE "noAcceptable"

\* "methods.includes(0x00 && ...)" is methods.includes(0): the check that no
\* authentication is configured is part of the argument and has no effect.
SelectMethod(s, methods) ==
    IF 2 \in methods /\ authHandler[s] THEN "userPass"
    ELSE IF 0 \in methods THEN "noAuth"
    ELSE "noAcceptable"

\* The state after a greeting, whichever reply was sent.
StateAfterGreeting(s) ==
    IF authHandler[s] THEN "AwaitingAuthentication" ELSE "AwaitingInitialCommand"

\* Faulty variant of Receives: the switch falls through to other states.
ReceivesFallThrough(s, st) == Running /\ Readable(s)

Receives(s, st) ==
    /\ Running
    /\ Readable(s)
    /\ state[s] = st

HandleGreeting(s, methods) ==
    /\ Receives(s, "AwaitingGreeting")
    /\ LET m == SelectMethod(s, methods)
       IN  Send(s, m, IF m = "noAcceptable" THEN "ended" ELSE "open")
    /\ state' = [state EXCEPT ![s] = StateAfterGreeting(s)]
    /\ UNCHANGED <<process, authHandler, handler, udpPort, filterVars>>

\* A first byte other than 5: end() and stay in the same state.
HandleBadVersion(s) ==
    /\ Receives(s, "AwaitingGreeting")
    /\ SetSock(s, "ended")
    /\ UNCHANGED <<process, hadError, dialogVars, poolVars, filterVars>>

\* Faulty variant of HandleAuthSuccess: the state does not advance.
HandleAuthSuccessStays(s) ==
    /\ Receives(s, "AwaitingAuthentication")
    /\ Send(s, "authOk", "open")
    /\ UNCHANGED <<process, state, authHandler, handler, udpPort, filterVars>>

\* handleAuth when authenticate() answers true. (Its branch for a null
\* authHandler is never reached: see AuthStateHasHandler.)
HandleAuthSuccess(s) ==
    /\ Receives(s, "AwaitingAuthentication")
    /\ Send(s, "authOk", "open")
    /\ authHandler' = [authHandler EXCEPT ![s] = FALSE]
    /\ state' = [state EXCEPT ![s] = "AwaitingInitialCommand"]
    /\ UNCHANGED <<process, handler, udpPort, filterVars>>

\* Faulty variant of HandleAuthFailure: the connection is not ended.
HandleAuthFailureOpen(s) ==
    /\ Receives(s, "AwaitingAuthentication")
    /\ Send(s, "authFailed", "open")
    /\ UNCHANGED <<process, state, authHandler, handler, udpPort, filterVars>>

\* handleAuth when authenticate() answers false. The call of
\* incrementAuthFailure is SocksServer's part of this step.
HandleAuthFailure(s) ==
    /\ Receives(s, "AwaitingAuthentication")
    /\ Send(s, "authFailed", "ended")
    /\ UNCHANGED <<process, state, authHandler, handler, udpPort, filterVars>>

\* filterAccess: blacklist first, then whitelist.
AccessAllowed(h) ==
    /\ h \notin hostBlacklist
    /\ hostWhitelist = {} \/ h \in hostWhitelist

\* handleCommand for a chunk that parses and names a host the lists reject.
HandleFilteredCommand(s, h) ==
    /\ Receives(s, "AwaitingInitialCommand")
    /\ ~AccessAllowed(h)
    /\ SetSock(s, "ended")
    /\ UNCHANGED <<process, hadError, dialogVars, poolVars, filterVars>>

StartHandler(s, k) ==
    /\ handler' = [handler EXCEPT ![s] = k]
    /\ state' = [state EXCEPT ![s] = "DataRelayMode"]

\* CONNECT and BIND only start asynchronous work; their replies come later.
HandleTcpCommand(s, k, h) ==
    /\ Receives(s, "AwaitingInitialCommand")
    /\ AccessAllowed(h)
    /\ StartHandler(s, k)
    /\ UNCHANGED <<process, socketVars, authHandler, reply, poolVars, filterVars>>

\* UDP ASSOCIATE answers at once, without waiting for its bind.
HandleUdpCommand(s, h) ==
    /\ Receives(s, "AwaitingInitialCommand")
    /\ AccessAllowed(h)
    /\ StartHandler(s, "udp")
    /\ Send(s, "commandReply", "open")
    /\ UNCHANGED <<process, authHandler, udpPort, filterVars>>

\* CONNECT with a wrong version or reserved byte: failure reply, then the
\* handler's cleanup destroys the client socket.
HandleInvalidConnect(s, h) ==
    /\ Receives(s, "AwaitingInitialCommand")
    /\ AccessAllowed(h)
    /\ StartHandler(s, "connect")
    /\ Send(s, "commandReply", "destroyed")
    /\ UNCHANGED <<process, authHandler, udpPort, filterVars>>

\* parseDestination throws. handleData is async, so the exception becomes a
\* rejected promise nobody handles, and Node (> 15, README.md:32) exits.
HandleMalformedCommand(s) ==
    /\ Receives(s, "AwaitingInitialCommand")
    /\ process' = "parseCrash"
    /\ UNCHANGED <<socketVars, dialogVars, poolVars, filterVars>>

-----------------------------------------------------------------------------
(* What the command handlers later do to the client socket, in outline *)

\* The success reply of a CONNECT handler, or either one of a BIND handler.
HandlerSucceeds(s) ==
    /\ Running
    /\ Readable(s)
    /\ handler[s] \in {"connect", "bind"}
    /\ Send(s, "commandReply", "open")
    /\ UNCHANGED <<process, state, authHandler, handler, udpPort, filterVars>>

\* The error listeners: a failure reply, then cleanup, which destroys the
\* client socket for CONNECT and ends it for BIND.
HandlerFails(s) ==
    /\ Running
    /\ Readable(s)
    /\ handler[s] \in {"connect", "bind"}
    /\ Send(s, "commandReply", IF handler[s] = "connect" THEN "destroyed" ELSE "ended")
    /\ UNCHANGED <<process, state, authHandler, handler, udpPort, filterVars>>

\* cleanup without a reply: the BIND remote closed, or the UDP socket failed.
HandlerEnds(s) ==
    /\ Running
    /\ Readable(s)
    /\ handler[s] \in {"bind", "udp"}
    /\ SetSock(s, "ended")
    /\ UNCHANGED <<process, hadError, dialogVars, poolVars, filterVars>>

-----------------------------------------------------------------------------
(* The peer, the operator and the event loop *)

\* The client's FIN. allowHalfOpen is off: Node ends our side too and
\* destroys the socket.
PeerEnds(s) ==
    /\ Running
    /\ Readable(s)
    /\ SetSock(s, "destroyed")
    /\ UNCHANGED <<process, hadError, dialogVars, poolVars, filterVars>>

\* A reset, or any other error of the connection.
PeerResets(s) ==
    /\ Running
    /\ Readable(s)
    /\ FailSocket(s)
    /\ UNCHANGED <<process, dialogVars, udpPort, filterVars>>

\* Faulty variant of SocketCloses: the session does not listen to 'close'.
SocketClosesLeaking(s) ==
    /\ Running
    /\ sock[s] = "destroyed"
    /\ SetSock(s, "closed")
    /\ UNCHANGED <<process, hadError, dialogVars, poolVars, filterVars>>

\* The 'close' event, with sessionCleanup among its listeners.
SocketCloses(s) ==
    /\ Running
    /\ sock[s] = "destroyed"
    /\ SetSock(s, "closed")
    /\ ReleaseUdpPort(s)
    /\ UNCHANGED <<process, hadError, dialogVars, udpPort, filterVars>>

\* SocksServer.close() destroys the sockets it tracks.
DestroyAll(S) ==
    /\ Running
    /\ sock' = [s \in Sockets |->
                  IF s \in S /\ Readable(s) THEN "destroyed" ELSE sock[s]]
    /\ UNCHANGED <<process, hadError, dialogVars, poolVars, filterVars>>

UpdateServerIpBlackList(hosts) ==
    /\ Running
    /\ hostBlacklist' = hosts
    /\ UNCHANGED <<process, socketVars, dialogVars, poolVars, hostWhitelist>>

UpdateServerIpWhitelist(hosts) ==
    /\ Running
    /\ hostWhitelist' = hosts
    /\ UNCHANGED <<process, socketVars, dialogVars, poolVars, hostBlacklist>>

-----------------------------------------------------------------------------
HandleCommand(s) ==
    \/ HandleMalformedCommand(s)
    \/ \E h \in Hosts :
         \/ HandleFilteredCommand(s, h)
         \/ \E k \in {"connect", "bind"} : HandleTcpCommand(s, k, h)
         \/ HandleUdpCommand(s, h)
         \/ HandleInvalidConnect(s, h)

\* Every step of one session that only SocksSession and its handlers make.
SessionStep(s) ==
    \/ \E methods \in SUBSET {0, 2} : HandleGreeting(s, methods)
    \/ HandleBadVersion(s)
    \/ HandleAuthSuccess(s)
    \/ HandleCommand(s)
    \/ HandlerSucceeds(s)
    \/ HandlerFails(s)
    \/ HandlerEnds(s)
    \/ PeerEnds(s)
    \/ PeerResets(s)

HotPatchHosts ==
    \/ \E hosts \in HostBlacklists : UpdateServerIpBlackList(hosts)
    \/ \E hosts \in HostWhitelists : UpdateServerIpWhitelist(hosts)

SessionNext ==
    \/ \E s \in Sockets :
         \/ NewSession(s) \/ NewSessionThrows(s) \/ RefuseConnection(s)
         \/ SessionStep(s) \/ HandleAuthFailure(s) \/ SocketCloses(s)
    \/ \E S \in SUBSET Sockets : DestroyAll(S)
    \/ HotPatchHosts

SessionSpec == SessionInit /\ [][SessionNext]_sessionVars

-----------------------------------------------------------------------------
(* Correctness *)

\* The phase of the abstract handshake a session is in.
PhaseOf(s) ==
    IF handler[s] # "none" THEN "served"
    ELSE IF reply[s] = "authFailed" THEN "refused"
    ELSE IF state[s] = "AwaitingGreeting" THEN "new"
    ELSE IF state[s] = "AwaitingAuthentication" THEN "challenged"
    ELSE "admitted"

Handshake == INSTANCE SocksHandshake WITH
    Connections <- Sockets,
    RequireAuth <- AuthMethod = "password",
    phase       <- [s \in Sockets |-> PhaseOf(s)]

\* Sessions implement the abstract handshake: whatever chunks arrive, and on
\* half-closed sockets too, a command handler is started only for a client
\* that was greeted and authenticated, and never after a failed
\* authentication was answered (handleGreeting, handleAuth, handleCommand).
ImplementsHandshake == Handshake!HandshakeSpec

\* No port leaks: every port in the used set is the port of a session whose
\* 'close' event is still to come, so that closing sockets always gives the
\* ports back (assignUdpPort and sessionCleanup).
NoPortLeak ==
    \A p \in usedUdpPorts : \E s \in Sockets : Live(s) /\ udpPort[s] = p

HoldsPort(s) == Readable(s) /\ udpPort[s] # NoPort

\* Two sessions in use never hold the same UDP port: assignUdpPort only takes
\* a port that is not in use. It is not so once a socket failed, see the next
\* property.
PortsExclusive ==
    \A s, t \in Sockets :
        HoldsPort(s) /\ HoldsPort(t) /\ udpPort[s] = udpPort[t] => s = t

\* As long as no client socket was destroyed with an error the ports are
\* exclusive: only the second release of a port, on the 'close' event after
\* the 'error' event, can take it from the session that got it in between.
PortsExclusiveWithoutErrors ==
    (\A s \in Sockets : ~hadError[s]) => PortsExclusive

-----------------------------------------------------------------------------
(* The inductive invariant of the proofs, by parts *)

\* A session exists from the accepted connection on, with its port.
SessionsHavePorts ==
    \A s \in Sockets :
        /\ Readable(s) => udpPort[s] # NoPort
        /\ udpPort[s] = NoPort => state[s] = "AwaitingGreeting"
        /\ sock[s] = "none" => udpPort[s] = NoPort

\* authHandler is there exactly while the client still has to authenticate,
\* so handleAuth never runs without it and handleCommand never with it.
AuthStateHasHandler ==
    \A s \in Sockets :
        /\ state[s] = "AwaitingGreeting" => authHandler[s] = (AuthMethod = "password")
        /\ state[s] = "AwaitingAuthentication" => authHandler[s] /\ AuthMethod = "password"
        /\ state[s] \in {"AwaitingInitialCommand", "DataRelayMode"} => ~authHandler[s]
        /\ state[s] = "AwaitingGreeting" => reply[s] = "none"
        /\ handler[s] # "none" <=> state[s] = "DataRelayMode"

\* A client told that its authentication failed is on a socket the server has
\* ended, and what it sends there cannot get it past handleAuth.
RefusedStaysOut ==
    \A s \in Sockets :
        reply[s] = "authFailed" =>
            /\ sock[s] \in {"ended", "destroyed", "closed"}
            /\ sock[s] = "ended" => state[s] = "AwaitingAuthentication"
            /\ handler[s] = "none"

\* Without errors the used set is exact: the port of every connection that is
\* not closed is in it, once.
UsedSetExact ==
    (\A s \in Sockets : ~hadError[s]) =>
        /\ \A s \in Sockets : Live(s) /\ udpPort[s] # NoPort => udpPort[s] \in usedUdpPorts
        /\ \A s, t \in Sockets :
              Live(s) /\ Live(t) /\ udpPort[s] # NoPort /\ udpPort[s] = udpPort[t] => s = t

\* What holds of the dialog and of the ports whatever the clients send, the
\* sockets do and the operator patches; it implies NoPortLeak,
\* PortsExclusiveWithoutErrors and the refinement of the handshake.
SessionInv ==
    /\ SessionTypeOK
    /\ SessionsHavePorts
    /\ AuthStateHasHandler
    /\ RefusedStaysOut
    /\ NoPortLeak
    /\ UsedSetExact
=============================================================================
