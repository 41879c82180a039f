----------------------------- MODULE HttpProxy -----------------------------
(***************************************************************************)
(* The HTTP proxy, class HttpProxy: admission of connections, the checks   *)
(* each request and each CONNECT goes through, the count of failed         *)
(* authentications that blacklists a client, patches of the lists, and     *)
(* close(). Unlike SocksServer it looks at the client's address once per   *)
(* request and not once per connection.                                    *)
(*                                                                         *)
(* One action is one turn of the event loop. A chunk may hold several      *)
(* pipelined requests. Node's parser emits an event for each of them       *)
(* before any continuation of an await runs, so all of them are checked    *)
(* against the blacklist as it was when the chunk arrived.                 *)
(***************************************************************************)
EXTENDS Naturals, Sequences, FiniteSets

CONSTANTS
    Sockets,              \* the connections clients may make
    Clients,              \* client IP addresses
    NoClient,             \* the address of a connection not made yet
    Hosts,                \* hosts a request may name
    BadUrl,               \* a request line without a usable host
    MaxConnections,       \* server.maxConcurrentConnections
    MaxFailedAttempts,    \* authentication.maxFailedAttempts
    MaxBatch,             \* bound: requests in one chunk
    MaxPatched,           \* bound: no patch while a client has more failures
    ClientPatches,        \* the client lists an operator may patch in
    HostPatches           \* the server lists an operator may patch in

ASSUME HttpAssumption ==
    /\ NoClient \notin Clients
    /\ BadUrl \notin Hosts
    /\ MaxConnections \in Nat
    /\ MaxFailedAttempts \in Nat
    /\ MaxBatch \in Nat
    /\ MaxPatched \in Nat
    /\ ClientPatches \subseteq SUBSET Clients
    /\ HostPatches \subseteq SUBSET Hosts

VARIABLES
    process,              \* the Node process
    httpServer,           \* the listening http.Server
    conn,                 \* the state of each client socket
    remoteAddress,        \* socket.remoteAddress
    activeConnections,    \* HttpProxy.activeConnections
    failedAuthAttempts,   \* HttpProxy.failedAuthAttempts, 0 for no entry
    clientBlacklist,      \* config.clientIpFiltering
    clientWhitelist,
    hostBlacklist,        \* config.serverIpFiltering
    hostWhitelist,
    pardon,               \* history: the failures a client had when the operator last
                          \* took it off the blacklist
    forwarded             \* history: the chunks of each connection that made an HttpSession,
                          \* counted 0, 1, 2, 1, 2, ...: a further one always shows

listVars == <<clientBlacklist, clientWhitelist, hostBlacklist, hostWhitelist, pardon>>
connVars == <<conn, remoteAddress, activeConnections, forwarded>>
httpVars == <<process, httpServer, connVars, failedAuthAttempts, listVars>>

\* "open" speaks HTTP; "tunnel" was handed over with the 'connect' event;
\* "refused" and "destroyed" are the time until the 'close' event.
ConnStates == {"none", "refused", "open", "tunnel", "destroyed", "closed"}

HttpTypeOK ==
    /\ process \in {"running", "sessionCrash"}
    /\ httpServer \in {"listening", "closing", "closed"}
    /\ conn \in [Sockets -> ConnStates]
    /\ remoteAddress \in [Sockets -> Clients \cup {NoClient}]
    /\ activeConnections \subseteq Sockets
    /\ failedAuthAttempts \in [Clients -> Nat]
    /\ clientBlacklist \subseteq Clients /\ clientWhitelist \subseteq Clients
    /\ hostBlacklist \subseteq Hosts /\ hostWhitelist \subseteq Hosts
    /\ pardon \in [Clients -> Nat]
    /\ forwarded \in [Sockets -> 0..2]

HttpInit ==
    /\ process = "running"
    /\ httpServer = "listening"
    /\ conn = [s \in Sockets |-> "none"]
    /\ remoteAddress = [s \in Sockets |-> NoClient]
    /\ activeConnections = {}
    /\ failedAuthAttempts = [c \in Clients |-> 0]
    /\ clientBlacklist = {} /\ clientWhitelist = {}
    /\ hostBlacklist = {} /\ hostWhitelist = {}
    /\ pardon = [c \in Clients |-> 0]
    /\ forwarded = [s \in Sockets |-> 0]

Running == process = "running"
Usable(s) == conn[s] \in {"open", "tunnel"}

-----------------------------------------------------------------------------
(* The 'connection' listener *)

\* Faulty variant of LimitReached: one connection too many.
LimitReachedLate == Cardinality(activeConnections) > MaxConnections

LimitReached == Cardinality(activeConnections) >= MaxConnections

Connects(s, c, state) ==
    /\ Running
    /\ httpServer = "listening"
    /\ conn[s] = "none"
    /\ conn' = [conn EXCEPT ![s] = state]
    /\ remoteAddress' = [remoteAddress EXCEPT ![s] = c]
    /\ UNCHANGED <<process, httpServer, failedAuthAttempts, listVars, forwarded>>

RefuseConnection(s, c) ==
    /\ LimitReached
    /\ Connects(s, c, "refused")
    /\ UNCHANGED activeConnections

TrackConnection(s, c) ==
    /\ ~LimitReached
    /\ Connects(s, c, "open")
    /\ activeConnections' = activeConnections \cup {s}

-----------------------------------------------------------------------------
(* handleHttpRequest and handleHttpsRequest *)

\* What the two handlers read out of a request. "garbled" stands for a
\* proxy-authorization header without a second word, which makes
\* authenticateHttp throw; authenticate catches that and counts no failure.
Requests ==
    [method: {"connect", "other"},
     target: Hosts \cup {BadUrl},
     credentials: {"right", "wrong", "garbled"}]

\* A chunk: at most MaxBatch requests, and nothing behind a CONNECT.
Chunks ==
    {rs \in UNION {[1..n -> Requests] : n \in 1..MaxBatch} :
        \A i \in 1..(Len(rs) - 1) : rs[i].method = "other"}

\* handleHttpsRequest does not look at the whitelist.
ClientAccepted(c, method) ==
    /\ c \notin clientBlacklist
    /\ method = "connect" \/ clientWhitelist = {} \/ c \in clientWhitelist

\* Nor does it look at the whitelist of servers.
HostAccepted(h, method) ==
    /\ h \notin hostBlacklist
    /\ method = "connect" \/ hostWhitelist = {} \/ h \in hostWhitelist

\* The request gets to authenticate(): every check before the await passed.
Examined(c, r) == r.target # BadUrl /\ ClientAccepted(c, r.method)

Fails(c, r) == Examined(c, r) /\ r.credentials = "wrong"

Forwards(c, r) ==
    Examined(c, r) /\ r.credentials = "right" /\ HostAccepted(r.target, r.method)

\* Faulty variant of IncrementAuthFailures: one failure too late.
IncrementAuthFailuresLate(c, n) ==
    LET attempts == failedAuthAttempts[c] + n
    IN  /\ failedAuthAttempts' = [failedAuthAttempts EXCEPT ![c] = attempts]
        /\ clientBlacklist' = IF n > 0 /\ attempts > MaxFailedAttempts
                              THEN clientBlacklist \cup {c} ELSE clientBlacklist

\* incrementAuthFailure, called n times in one turn.
IncrementAuthFailures(c, n) ==
    LET attempts == failedAuthAttempts[c] + n
    IN  /\ failedAuthAttempts' = [failedAuthAttempts EXCEPT ![c] = attempts]
        /\ clientBlacklist' = IF n > 0 /\ attempts >= MaxFailedAttempts
                              THEN clientBlacklist \cup {c} ELSE clientBlacklist

\* All requests of a chunk. A request that is not forwarded is answered with
\* a status and the connection stays; a CONNECT that is not gets a status line
\* and its socket is destroyed.
HandleChunk(s, rs) ==
    LET c    == remoteAddress[s]
        last == rs[Len(rs)]
    IN  /\ Running
        /\ conn[s] = "open"
        /\ IncrementAuthFailures(c, Cardinality({i \in DOMAIN rs : Fails(c, rs[i])}))
        /\ forwarded' = [forwarded EXCEPT ![s] =
                           IF \E i \in DOMAIN rs : rs[i].method = "other" /\ Forwards(c, rs[i])
                           THEN (IF @ = 1 THEN 2 ELSE 1) ELSE @]
        /\ conn' = [conn EXCEPT ![s] = IF last.method = "other" THEN "open"
                                       ELSE IF Forwards(c, last) THEN "tunnel" ELSE "destroyed"]
        /\ UNCHANGED <<process, httpServer, remoteAddress, activeConnections,
                       clientWhitelist, hostBlacklist, hostWhitelist, pardon>>

-----------------------------------------------------------------------------
(* The end of a connection, the operator, and close() *)

\* The client, a session or a timeout of Node ends the connection.
ConnectionEnds(s) ==
    /\ Running
    /\ Usable(s)
    /\ conn' = [conn EXCEPT ![s] = "destroyed"]
    /\ UNCHANGED <<process, httpServer, remoteAddress, activeConnections, forwarded,
                   failedAuthAttempts, listVars>>

Closes(s) ==
    /\ Running
    /\ conn[s] \in {"refused", "destroyed"}
    /\ conn' = [conn EXCEPT ![s] = "closed"]
    /\ UNCHANGED <<process, httpServer, remoteAddress, forwarded, failedAuthAttempts, listVars>>

\* Faulty variant of ConnectionCloses: the connection stays tracked.
ConnectionClosesTracked(s) == Closes(s) /\ UNCHANGED activeConnections

\* The socket's 'close' event; a refused socket has no listener for it, and is
\* not in the map.
ConnectionCloses(s) ==
    /\ Closes(s)
    /\ activeConnections' = activeConnections \ {s}

\* What HttpExchange shows in detail: an error of the other server after the
\* response began is thrown in an event listener.
SessionCrashes ==
    /\ Running
    /\ \E s \in Sockets : forwarded[s] > 0
    /\ process' = "sessionCrash"
    /\ UNCHANGED <<httpServer, connVars, failedAuthAttempts, listVars>>

Patches == Running /\ \A c \in Clients : failedAuthAttempts[c] <= MaxPatched

UpdateClientIpBlackList(list) ==
    /\ Patches
    /\ clientBlacklist' = list
    /\ pardon' = [c \in Clients |-> IF c \in clientBlacklist \ list
                                    THEN failedAuthAttempts[c] ELSE pardon[c]]
    /\ UNCHANGED <<process, httpServer, connVars, failedAuthAttempts,
                   clientWhitelist, hostBlacklist, hostWhitelist>>

UpdateClientIpWhitelist(list) ==
    /\ Patches
    /\ clientWhitelist' = list
    /\ UNCHANGED <<process, httpServer, connVars, failedAuthAttempts,
                   clientBlacklist, hostBlacklist, hostWhitelist, pardon>>

UpdateServerIpBlackList(list) ==
    /\ Patches
    /\ hostBlacklist' = list
    /\ UNCHANGED <<process, httpServer, connVars, failedAuthAttempts,
                   clientBlacklist, clientWhitelist, hostWhitelist, pardon>>

UpdateServerIpWhitelist(list) ==
    /\ Patches
    /\ hostWhitelist' = list
    /\ UNCHANGED <<process, httpServer, connVars, failedAuthAttempts,
                   clientBlacklist, clientWhitelist, hostBlacklist, pardon>>

\* Faulty variant of Close: the map is cleared before it is walked through.
CloseClearedFirst ==
    /\ Running
    /\ httpServer = "listening"
    /\ activeConnections' = {}
    /\ httpServer' = "closing"
    /\ UNCHANGED <<process, conn, remoteAddress, forwarded, failedAuthAttempts, listVars>>

\* close(): destroy what is tracked, forget it, stop listening.
Close ==
    /\ Running
    /\ httpServer = "listening"
    /\ conn' = [s \in Sockets |-> IF s \in activeConnections /\ Usable(s)
                                  THEN "destroyed" ELSE conn[s]]
    /\ activeConnections' = {}
    /\ httpServer' = "closing"
    /\ UNCHANGED <<process, remoteAddress, forwarded, failedAuthAttempts, listVars>>

\* The callback of http.Server.close: no connection is left.
Closed ==
    /\ Running
    /\ httpServer = "closing"
    /\ \A s \in Sockets : conn[s] \in {"none", "closed"}
    /\ httpServer' = "closed"
    /\ UNCHANGED <<process, connVars, failedAuthAttempts, listVars>>

-----------------------------------------------------------------------------
HandleConnection(s) ==
    \E c \in Clients : RefuseConnection(s, c) \/ TrackConnection(s, c)

HandleRequests(s) == \E rs \in Chunks : HandleChunk(s, rs)

HotPatch ==
    \/ \E list \in ClientPatches :
         UpdateClientIpBlackList(list) \/ UpdateClientIpWhitelist(list)
    \/ \E list \in HostPatches :
         UpdateServerIpBlackList(list) \/ UpdateServerIpWhitelist(list)

HttpNext ==
    \/ \E s \in Sockets :
         HandleConnection(s) \/ HandleRequests(s) \/ ConnectionEnds(s) \/ ConnectionCloses(s)
    \/ SessionCrashes
    \/ HotPatch
    \/ Close
    \/ Closed

HttpSpec == HttpInit /\ [][HttpNext]_httpVars

\* Node always gets to the close callbacks of its handles.
HttpFairness ==
    /\ \A s \in Sockets : WF_httpVars(ConnectionCloses(s))
    /\ WF_httpVars(Closed)

FairHttpSpec == HttpSpec /\ HttpFairness

-----------------------------------------------------------------------------
(* Correctness *)

\* The connections that were not turned down and whose 'close' event is to come.
Served == {s \in Sockets : Usable(s) \/ conn[s] = "destroyed"}

\* While the proxy listens, the map holds exactly these: requests of any kind,
\* the change to a tunnel and the end of a connection never leave an entry
\* behind or lose one, so close() finds every socket.
TrackedAreServed ==
    Running /\ httpServer = "listening" => activeConnections = Served

\* The HTTP proxy makes the promise of the SOCKS server about its connections,
\* with a limit, a map and close listeners of its own.
Limiter == INSTANCE ConnectionLimiter WITH
    Connections <- Sockets,
    served      <- Served,
    admitting   <- httpServer = "listening"

ImplementsLimiter == Limiter!LimiterSpec

LockedOut(c) == failedAuthAttempts[c] > 0 /\ failedAuthAttempts[c] >= MaxFailedAttempts

\* The operator took the client off the blacklist and it has not failed since.
Pardoned(c) == failedAuthAttempts[c] = pardon[c]

\* Once a client's failures reached the maximum, nothing it sends on any of
\* its connections, open ones included, is examined, counted, forwarded or
\* tunnelled, until the operator takes it off the blacklist. What is left is the
\* chunk in which it reached the maximum: its requests were all checked before
\* the first failure was counted. (SocksServer, which looks at the address when
\* a connection arrives, does not promise this.)
LockoutFreezes ==
    [][\A c \in Clients : LockedOut(c) /\ ~Pardoned(c) =>
         /\ failedAuthAttempts'[c] = failedAuthAttempts[c]
         /\ \A s \in Sockets : remoteAddress[s] = c =>
              /\ forwarded'[s] = forwarded[s]
              /\ conn'[s] = "tunnel" => conn[s] = "tunnel"]_httpVars

\* close() ends: it destroys every socket that would keep the server open,
\* tunnels included, unless a session ends the process first.
CloseCompletes == httpServer = "closing" ~> httpServer = "closed" \/ ~Running

-----------------------------------------------------------------------------
(* The inductive invariants of the proofs *)

HttpInv ==
    /\ HttpTypeOK
    /\ \A s \in Sockets : conn[s] # "none" => remoteAddress[s] \in Clients
    /\ \A s \in Sockets : conn[s] = "none" => forwarded[s] = 0
    /\ IsFiniteSet(activeConnections)
    /\ TrackedAreServed

LockoutInv == \A c \in Clients : LockedOut(c) => c \in clientBlacklist \/ Pardoned(c)
=============================================================================
