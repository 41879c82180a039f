---------------------------- MODULE SocksServer ----------------------------
(***************************************************************************)
(* The SOCKS5 server, class SocksServer, composed with the sessions it     *)
(* creates: admission (connection limit, client blacklist and whitelist),  *)
(* the count of failed authentications that blacklists a client, the hot   *)
(* patches of the client lists, and close().                               *)
(*                                                                         *)
(* Every step of the server is a step of its sessions (see SocksSession)   *)
(* conjoined with what the server does in the same turn of the event loop. *)
(***************************************************************************)
EXTENDS SocksSession

CONSTANTS
    Clients,              \* client IP addresses
    NoClient,             \* the address of a connection not made yet
    MaxConnections,       \* server.maxConcurrentConnections
    MaxFailedAttempts,    \* authentication.maxFailedAttempts
    ClientPatches         \* the client lists an operator may patch in at run time

ASSUME ServerAssumption ==
    /\ NoClient \notin Clients
    /\ MaxConnections \in Nat
    /\ MaxFailedAttempts \in Nat
    /\ ClientPatches \subseteq SUBSET Clients

VARIABLES
    server,               \* the listening net.Server
    remoteAddress,        \* clientSocket.remoteAddress
    activeConnections,    \* SocksServer.activeConnections
    failedAuthAttempts,   \* SocksServer.failedAuthAttempts, 0 for no entry
    clientBlacklist,      \* config.clientIpFiltering.blacklist, as a set
    clientWhitelist,      \* config.clientIpFiltering.whitelist, {} when absent or empty
    pardon                \* history: the failures a client had when the operator last
                          \* took it off the blacklist

listVars   == <<clientBlacklist, clientWhitelist, pardon>>
serverVars == <<server, remoteAddress, activeConnections, failedAuthAttempts, listVars>>
vars       == <<sessionVars, serverVars>>

TypeOK ==
    /\ SessionTypeOK
    /\ server \in {"listening", "closing", "closed"}
    /\ remoteAddress \in [Sockets -> Clients \cup {NoClient}]
    /\ activeConnections \subseteq Sockets
    /\ failedAuthAttempts \in [Clients -> Nat]
    /\ clientBlacklist \subseteq Clients
    /\ clientWhitelist \subseteq Clients
    /\ pardon \in [Clients -> Nat]

\* The configuration file starts with empty client lists; the operator's
\* patches supply the others.
Init ==
    /\ SessionInit
    /\ server = "listening"
    /\ remoteAddress = [s \in Sockets |-> NoClient]
    /\ activeConnections = {}
    /\ failedAuthAttempts = [c \in Clients |-> 0]
    /\ clientBlacklist = {}
    /\ clientWhitelist = {}
    /\ pardon = [c \in Clients |-> 0]

-----------------------------------------------------------------------------
(* handleConnection *)

\* Faulty variant of LimitReached: one connection too many.
LimitReachedLate == Cardinality(activeConnections) > MaxConnections

LimitReached == Cardinality(activeConnections) >= MaxConnections

\* Faulty variant of ClientAllowed: the blacklist is not consulted.
ClientAllowedIfListed(c) == clientWhitelist = {} \/ c \in clientWhitelist

ClientAllowed(c) ==
    /\ c \notin clientBlacklist
    /\ clientWhitelist = {} \/ c \in clientWhitelist

Arrives(s, c) ==
    /\ server = "listening"
    /\ remoteAddress' = [remoteAddress EXCEPT ![s] = c]
    /\ UNCHANGED <<server, failedAuthAttempts, listVars>>

RejectConnection(s, c) ==
    /\ LimitReached \/ ~ClientAllowed(c)
    /\ RefuseConnection(s)
    /\ Arrives(s, c)
    /\ UNCHANGED activeConnections

\* The socket is tracked before the session is constructed, so also when the
\* constructor throws.
AdmitConnection(s, c) ==
    /\ ~LimitReached
    /\ ClientAllowed(c)
    /\ NewSession(s) \/ NewSessionThrows(s)
    /\ Arrives(s, c)
    /\ activeConnections' = activeConnections \cup {s}

-----------------------------------------------------------------------------
(* Failed authentications *)

\* Faulty variant of IncrementAuthFailure: one failure too late.
IncrementAuthFailureLate(c) ==
    LET attempts == failedAuthAttempts[c] + 1
    IN  /\ failedAuthAttempts' = [failedAuthAttempts EXCEPT ![c] = attempts]
        /\ clientBlacklist' = IF attempts > MaxFailedAttempts
                              THEN clientBlacklist \cup {c}
                              ELSE clientBlacklist

IncrementAuthFailure(c) ==
    LET attempts == failedAuthAttempts[c] + 1
    IN  /\ failedAuthAttempts' = [failedAuthAttempts EXCEPT ![c] = attempts]
        /\ clientBlacklist' = IF attempts >= MaxFailedAttempts
                              THEN clientBlacklist \cup {c}
                              ELSE clientBlacklist

\* The failure branch of handleAuth, with the callback into the server.
RejectCredentials(s) ==
    /\ HandleAuthFailure(s)
    /\ IncrementAuthFailure(remoteAddress[s])
    /\ UNCHANGED <<server, remoteAddress, activeConnections, clientWhitelist, pardon>>

-----------------------------------------------------------------------------
(* The end of a connection, the operator, and close() *)

\* Faulty variant of ConnectionCloses: the connection stays tracked.
ConnectionClosesTracked(s) ==
    /\ SocketCloses(s)
    /\ UNCHANGED serverVars

\* The 'close' listeners: the server's and the session's.
ConnectionCloses(s) ==
    /\ SocketCloses(s)
    /\ activeConnections' = activeConnections \ {s}
    /\ UNCHANGED <<server, remoteAddress, failedAuthAttempts, listVars>>

UpdateClientIpBlackList(list) ==
    /\ Running
    /\ clientBlacklist' = list
    /\ pardon' = [c \in Clients |-> IF c \in clientBlacklist \ list
                                    THEN failedAuthAttempts[c] ELSE pardon[c]]
    /\ UNCHANGED <<sessionVars, server, remoteAddress, activeConnections,
                   failedAuthAttempts, clientWhitelist>>

UpdateClientIpWhitelist(list) ==
    /\ Running
    /\ clientWhitelist' = list
    /\ UNCHANGED <<sessionVars, server, remoteAddress, activeConnections,
                   failedAuthAttempts, clientBlacklist, pardon>>

\* Faulty variant of Close: the set is cleared before it is walked through.
CloseClearedFirst ==
    /\ server = "listening"
    /\ DestroyAll({})
    /\ activeConnections' = {}
    /\ server' = "closing"
    /\ UNCHANGED <<remoteAddress, failedAuthAttempts, listVars>>

\* close(): destroy what is tracked, forget it, stop listening.
Close ==
    /\ server = "listening"
    /\ DestroyAll(activeConnections)
    /\ activeConnections' = {}
    /\ server' = "closing"
    /\ UNCHANGED <<remoteAddress, failedAuthAttempts, listVars>>

\* The callback of net.Server.close: no connection is left.
Closed ==
    /\ Running
    /\ server = "closing"
    /\ \A s \in Sockets : ~Live(s)
    /\ server' = "closed"
    /\ UNCHANGED <<sessionVars, remoteAddress, activeConnections,
                   failedAuthAttempts, listVars>>

-----------------------------------------------------------------------------
HandleConnection(s) ==
    \E c \in Clients : RejectConnection(s, c) \/ AdmitConnection(s, c)

HotPatchClients ==
    \E list \in ClientPatches :
        UpdateClientIpBlackList(list) \/ UpdateClientIpWhitelist(list)

\* Steps of the sessions alone.
SessionsStep ==
    /\ (\E s \in Sockets : SessionStep(s)) \/ HotPatchHosts
    /\ UNCHANGED serverVars

Next ==
    \/ \E s \in Sockets :
         HandleConnection(s) \/ RejectCredentials(s) \/ ConnectionCloses(s)
    \/ SessionsStep
    \/ HotPatchClients
    \/ Close
    \/ Closed

Spec == Init /\ [][Next]_vars

\* Node always gets to the close callbacks of its handles.
Fairness ==
    /\ \A s \in Sockets : WF_vars(ConnectionCloses(s))
    /\ WF_vars(Closed)

FairSpec == Spec /\ Fairness

-----------------------------------------------------------------------------
(* Correctness *)

\* A connection that has a session and whose 'close' event is still to come.
HasSession(s) == Live(s) /\ udpPort[s] # NoPort

Served == {s \in Sockets : HasSession(s)}

\* While the server listens, the connections it tracks are exactly those that
\* still hold a session: close() finds every one of them, and a connection
\* that is gone does not count against the limit (handleConnection and its
\* 'close' listener).
TrackedAreServed ==
    Running /\ server = "listening" => activeConnections = Served

\* The server keeps to its connection limit and admits nobody after close(),
\* although it checks the limit against a set it clears and updates from
\* events, and patches and failures come at any moment.
Limiter == INSTANCE ConnectionLimiter WITH
    Connections <- Sockets,
    served      <- Served,
    admitting   <- server = "listening"

ImplementsLimiter == Limiter!LimiterSpec

\* With at least as many UDP ports as connections allowed, constructing a
\* session never runs out of ports, whatever order the cleanups and the new
\* connections come in (assignUdpPort would end the process).
PoolNeverExhausted ==
    Cardinality(UdpPorts) >= MaxConnections => process # "poolCrash"

LockedOut(c) == failedAuthAttempts[c] > 0 /\ failedAuthAttempts[c] >= MaxFailedAttempts

\* The operator took the client off the blacklist and it has not failed since.
Pardoned(c) == failedAuthAttempts[c] = pardon[c]

\* A client whose failures reached the maximum gets no other session, through
\* any order of failures, connections and patches of the lists, unless the
\* operator takes it off the blacklist; and one more failure undoes that too,
\* since a patch leaves the count alone (incrementAuthFailure, the check of
\* handleConnection and updateClientIpBlackList).
LockoutHolds ==
    [][\A s \in Sockets :
         remoteAddress[s] = NoClient /\ HasSession(s)'
            => LET c == remoteAddress'[s] IN ~LockedOut(c) \/ Pardoned(c)]_vars

\* How far a client can get past the maximum, or past the count at which it was
\* pardoned: the blacklist is checked only when a connection arrives, so each
\* connection it has open by then can still fail, and fail once more on the
\* socket the server has half-closed.
AttemptsBounded ==
    \A c \in Clients :
        \/ failedAuthAttempts[c] < MaxFailedAttempts + 2 * MaxConnections
        \/ failedAuthAttempts[c] <= pardon[c] + 2 * MaxConnections

\* Once close() was called the server ends: every socket it did not destroy
\* has gone or is going, so net.Server reports that it is closed.
CloseCompletes == server = "closing" ~> server = "closed"
-----------------------------------------------------------------------------
(* The inductive invariants of the proofs *)

\* What the server's own variables satisfy beside those of the sessions.
ServerInv ==
    /\ TypeOK
    /\ \A s \in Sockets : sock[s] # "none" => remoteAddress[s] \in Clients
    /\ IsFiniteSet(activeConnections)
    /\ TrackedAreServed
    /\ PoolNeverExhausted

\* The blacklist holds every client that is locked out and not pardoned.
LockoutInv == \A c \in Clients : LockedOut(c) => c \in clientBlacklist \/ Pardoned(c)

\* The failures the open connections of a client can still be charged with: one
\* while the socket is open, and one more once the server has ended it.
Chances(c) ==
    {a \in Sockets \X {"open", "ended"} :
        Readable(a[1]) /\ remoteAddress[a[1]] = c /\ (a[2] = "open" => sock[a[1]] = "open")}

\* AttemptsBounded with the failures to come counted in. A failure uses one up;
\* they are restored by an admission only, thus while the client is off the
\* blacklist, and each connection within the limit has two.
AttemptsInv ==
    \A c \in Clients :
        LET reach == failedAuthAttempts[c] + Cardinality(Chances(c))
        IN  \/ reach < MaxFailedAttempts + 2 * MaxConnections
            \/ reach <= pardon[c] + 2 * MaxConnections
=============================================================================
