-------------------------- MODULE HttpProxy_proofs --------------------------
(***************************************************************************)
(* Theorems about HttpProxy, for any number of connections, clients and    *)
(* hosts and any patches of the lists: the map of connections is exact, so *)
(* the proxy implements ConnectionLimiter, and a client that is locked out *)
(* gets nowhere on any of its connections.                                 *)
(***************************************************************************)
EXTENDS HttpProxy, FiniteSetTheorems, TLAPS

\* What a chunk does to the connection it came on: it is one of the client's,
\* it stays served, and no other connection is touched.
LEMMA ChunkLemma ==
    ASSUME HttpInv, NEW s \in Sockets, NEW rs \in Chunks, HandleChunk(s, rs)
    PROVE  /\ Running /\ conn[s] = "open" /\ remoteAddress[s] \in Clients
           /\ conn' \in [Sockets -> ConnStates]
           /\ conn'[s] \in {"open", "tunnel", "destroyed"}
           /\ \A t \in Sockets : t # s => conn'[t] = conn[t]
           /\ forwarded' \in [Sockets -> 0..2]
           /\ \A t \in Sockets : t # s => forwarded'[t] = forwarded[t]
           /\ UNCHANGED <<process, httpServer, remoteAddress, activeConnections>>
  BY DEF HandleChunk, HttpInv, HttpTypeOK, ConnStates

\* The number of failures in a chunk.
LEMMA FailuresCounted ==
    ASSUME NEW rs \in Chunks, NEW c
    PROVE  Cardinality({i \in DOMAIN rs : Fails(c, rs[i])}) \in Nat
<1>1. PICK n \in 1..MaxBatch : rs \in [1..n -> Requests]
  BY DEF Chunks
<1>2. IsFiniteSet(1..n)
  BY FS_Interval
<1>3. DOMAIN rs = 1..n
  BY <1>1
<1>4. IsFiniteSet({i \in DOMAIN rs : Fails(c, rs[i])})
  BY <1>2, <1>3, FS_Subset
<1> QED BY <1>4, FS_CardinalityType

\* A chunk leaves counts and lists of the right type.
LEMMA ChunkTypes ==
    ASSUME HttpInv, NEW s \in Sockets, NEW rs \in Chunks, HandleChunk(s, rs)
    PROVE  /\ failedAuthAttempts' \in [Clients -> Nat]
           /\ clientBlacklist' \subseteq Clients
<1> DEFINE c == remoteAddress[s]
           n == Cardinality({i \in DOMAIN rs : Fails(c, rs[i])})
<1>1. c \in Clients
  BY ChunkLemma
<1>2. n \in Nat
  BY FailuresCounted
<1>3. IncrementAuthFailures(c, n)
  BY DEF HandleChunk
<1>4. failedAuthAttempts \in [Clients -> Nat] /\ clientBlacklist \subseteq Clients
  BY DEF HttpInv, HttpTypeOK
<1> HIDE DEF c, n
<1> QED BY <1>1, <1>2, <1>3, <1>4 DEF IncrementAuthFailures

\* The steps that leave the connections served and the map as they are.
LEMMA QuietKeepsInv ==
    ASSUME HttpInv, HttpTypeOK', Served' = Served,
           UNCHANGED <<process, remoteAddress, activeConnections>>,
           httpServer' = "listening" => httpServer = "listening",
           \A s \in Sockets : conn'[s] = "none" <=> conn[s] = "none",
           \A s \in Sockets : conn[s] = "none" => forwarded'[s] = 0
    PROVE  HttpInv'
  BY DEF HttpInv, TrackedAreServed, Running

\* The invariant holds when the proxy starts to listen.
LEMMA InitHttpInv == HttpInit => HttpInv
<1> SUFFICES ASSUME HttpInit PROVE HttpInv
  OBVIOUS
<1>1. HttpTypeOK
  BY DEF HttpInit, HttpTypeOK, ConnStates
<1>2. TrackedAreServed
  BY DEF HttpInit, TrackedAreServed, Served, Usable
<1>3. IsFiniteSet(activeConnections)
  BY FS_EmptySet DEF HttpInit
<1> QED BY <1>1, <1>2, <1>3 DEF HttpInit, HttpInv

\* It is kept by a connection, tracked or turned down;
LEMMA ConnectionKeepsInv ==
    ASSUME HttpInv, NEW s \in Sockets, HandleConnection(s)
    PROVE  HttpInv'
<1>1. PICK c \in Clients : RefuseConnection(s, c) \/ TrackConnection(s, c)
  BY DEF HandleConnection
<1>2. PICK state \in {"refused", "open"} :
        /\ Connects(s, c, state)
        /\ activeConnections' = IF state = "open" THEN activeConnections \cup {s} ELSE activeConnections
  BY <1>1 DEF RefuseConnection, TrackConnection
<1>3. /\ conn[s] = "none" /\ conn' \in [Sockets -> ConnStates] /\ conn'[s] = state
      /\ \A t \in Sockets : t # s => conn'[t] = conn[t]
      /\ remoteAddress' \in [Sockets -> Clients \cup {NoClient}] /\ remoteAddress'[s] = c
      /\ \A t \in Sockets : t # s => remoteAddress'[t] = remoteAddress[t]
      /\ UNCHANGED <<process, httpServer, failedAuthAttempts, listVars, forwarded>>
  BY <1>2 DEF Connects, HttpInv, HttpTypeOK, ConnStates
<1>4. HttpTypeOK'
  BY <1>2, <1>3 DEF HttpInv, HttpTypeOK, listVars
<1>5. Served' = IF state = "open" THEN Served \cup {s} ELSE Served
  BY <1>3 DEF Served, Usable
<1>6. IsFiniteSet(activeConnections')
  BY <1>2, FS_AddElement DEF HttpInv
<1> QED
  BY <1>2, <1>3, <1>4, <1>5, <1>6 DEF HttpInv, TrackedAreServed, Running

\* by the requests of a chunk;
LEMMA RequestsKeepInv ==
    ASSUME HttpInv, NEW s \in Sockets, HandleRequests(s)
    PROVE  HttpInv'
<1>1. PICK rs \in Chunks : HandleChunk(s, rs)
  BY DEF HandleRequests
<1>2. UNCHANGED <<clientWhitelist, hostBlacklist, hostWhitelist, pardon>>
  BY <1>1 DEF HandleChunk
<1>3. HttpTypeOK'
  BY <1>1, <1>2, ChunkLemma, ChunkTypes DEF HttpInv, HttpTypeOK
<1>4. Served' = Served
  BY <1>1, ChunkLemma DEF Served, Usable
<1>5. \A t \in Sockets : /\ conn'[t] = "none" <=> conn[t] = "none"
                         /\ conn[t] = "none" => forwarded'[t] = 0
  BY <1>1, ChunkLemma DEF HttpInv
<1> QED BY <1>1, <1>3, <1>4, <1>5, ChunkLemma, QuietKeepsInv

\* by the end of a connection and by its 'close' event;
LEMMA EndsKeepInv ==
    ASSUME HttpInv, NEW s \in Sockets, ConnectionEnds(s) \/ ConnectionCloses(s)
    PROVE  HttpInv'
<1>1. CASE ConnectionEnds(s)
  <2>1. /\ Usable(s) /\ conn' \in [Sockets -> ConnStates] /\ conn'[s] = "destroyed"
        /\ \A t \in Sockets : t # s => conn'[t] = conn[t]
        /\ UNCHANGED <<process, httpServer, remoteAddress, activeConnections, forwarded,
                       failedAuthAttempts, listVars>>
    BY <1>1 DEF ConnectionEnds, HttpInv, HttpTypeOK, ConnStates
  <2>2. HttpTypeOK'
    BY <2>1 DEF HttpInv, HttpTypeOK, listVars
  <2>3. Served' = Served
    BY <2>1 DEF Served, Usable
  <2> QED BY <2>1, <2>2, <2>3, QuietKeepsInv DEF HttpInv, Usable
<1>2. CASE ConnectionCloses(s)
  <2>1. /\ conn[s] \in {"refused", "destroyed"}
        /\ conn' \in [Sockets -> ConnStates] /\ conn'[s] = "closed"
        /\ \A t \in Sockets : t # s => conn'[t] = conn[t]
        /\ activeConnections' = activeConnections \ {s}
        /\ UNCHANGED <<process, httpServer, remoteAddress, forwarded, failedAuthAttempts, listVars>>
    BY <1>2 DEF ConnectionCloses, Closes, HttpInv, HttpTypeOK, ConnStates
  <2>2. HttpTypeOK'
    BY <2>1 DEF HttpInv, HttpTypeOK, listVars
  <2>3. Served' = Served \ {s}
    BY <2>1 DEF Served, Usable
  <2>4. IsFiniteSet(activeConnections')
    BY <2>1, FS_RemoveElement DEF HttpInv
  <2> QED BY <2>1, <2>2, <2>3, <2>4 DEF HttpInv, TrackedAreServed, Running
<1> QED BY <1>1, <1>2

\* and by a crash, a patch, and close().
LEMMA OthersKeepInv ==
    ASSUME HttpInv, SessionCrashes \/ HotPatch \/ Close \/ Closed \/ UNCHANGED httpVars
    PROVE  HttpInv'
<1>1. CASE SessionCrashes
  BY <1>1 DEF SessionCrashes, HttpInv, HttpTypeOK, TrackedAreServed, Running, connVars, listVars
<1>2. CASE HotPatch
  <2>1. UNCHANGED <<process, httpServer, connVars, failedAuthAttempts>> /\ HttpTypeOK'
    <3>1. ASSUME NEW list \in ClientPatches,
                 UpdateClientIpBlackList(list) \/ UpdateClientIpWhitelist(list)
          PROVE  UNCHANGED <<process, httpServer, connVars, failedAuthAttempts>> /\ HttpTypeOK'
      BY <3>1, HttpAssumption
      DEF UpdateClientIpBlackList, UpdateClientIpWhitelist, HttpAssumption, HttpInv, HttpTypeOK,
          connVars
    <3>2. ASSUME NEW list \in HostPatches,
                 UpdateServerIpBlackList(list) \/ UpdateServerIpWhitelist(list)
          PROVE  UNCHANGED <<process, httpServer, connVars, failedAuthAttempts>> /\ HttpTypeOK'
      BY <3>2, HttpAssumption
      DEF UpdateServerIpBlackList, UpdateServerIpWhitelist, HttpAssumption, HttpInv, HttpTypeOK,
          connVars
    <3> QED BY <1>2, <3>1, <3>2 DEF HotPatch
  <2>2. Served' = Served
    BY <2>1 DEF connVars, Served, Usable
  <2> QED BY <2>1, <2>2, QuietKeepsInv DEF connVars, HttpInv
<1>3. CASE Close
  <2>1. /\ httpServer' = "closing" /\ activeConnections' = {}
        /\ conn' \in [Sockets -> ConnStates]
        /\ \A t \in Sockets : conn'[t] = "none" <=> conn[t] = "none"
        /\ UNCHANGED <<process, remoteAddress, forwarded, failedAuthAttempts, listVars>>
    BY <1>3 DEF Close, Usable, HttpInv, HttpTypeOK, ConnStates
  <2>2. HttpTypeOK'
    BY <2>1 DEF HttpInv, HttpTypeOK, listVars
  <2> QED BY <2>1, <2>2, FS_EmptySet DEF HttpInv, TrackedAreServed
<1>4. CASE Closed
  BY <1>4 DEF Closed, HttpInv, HttpTypeOK, TrackedAreServed, connVars, listVars
<1>5. CASE UNCHANGED httpVars
  <2>1. Served' = Served /\ HttpTypeOK'
    BY <1>5 DEF httpVars, connVars, listVars, Served, Usable, HttpInv, HttpTypeOK
  <2> QED BY <1>5, <2>1, QuietKeepsInv DEF httpVars, connVars, HttpInv
<1> QED BY <1>1, <1>2, <1>3, <1>4, <1>5

\* So every step keeps it.
LEMMA NextHttpInv == HttpInv /\ [HttpNext]_httpVars => HttpInv'
  BY ConnectionKeepsInv, RequestsKeepInv, EndsKeepInv, OthersKeepInv DEF HttpNext

-----------------------------------------------------------------------------
(* Invariants *)

\* The invariant of the HTTP proxy.
THEOREM HttpInvariant == HttpSpec => []HttpInv
  BY InitHttpInv, NextHttpInv, PTL DEF HttpSpec

\* Type correctness of the HTTP proxy.
THEOREM HttpTypeCorrect == HttpSpec => []HttpTypeOK
<1>1. HttpInv => HttpTypeOK
  BY DEF HttpInv
<1> QED BY <1>1, HttpInvariant, PTL

\* While the proxy listens its map holds exactly the connections it serves.
THEOREM HttpTrackingExact == HttpSpec => []TrackedAreServed
<1>1. HttpInv => TrackedAreServed
  BY DEF HttpInv
<1> QED BY <1>1, HttpInvariant, PTL

-----------------------------------------------------------------------------
(* The lockout *)

\* Without a patch, and until the client fails again, the lockout stays.
LEMMA QuietKeepsLockout ==
    ASSUME LockoutInv, UNCHANGED <<failedAuthAttempts, clientBlacklist, pardon>>
    PROVE  LockoutInv'
  BY DEF LockoutInv, LockedOut, Pardoned

\* The failures of a chunk that reach the maximum put the client on the list.
LEMMA ChunkKeepsLockout ==
    ASSUME HttpInv, LockoutInv, NEW s \in Sockets, NEW rs \in Chunks, HandleChunk(s, rs)
    PROVE  LockoutInv'
<1> DEFINE c == remoteAddress[s]
           n == Cardinality({i \in DOMAIN rs : Fails(c, rs[i])})
<1>1. c \in Clients
  BY ChunkLemma
<1>2. n \in Nat
  BY FailuresCounted
<1>3. IncrementAuthFailures(c, n) /\ pardon' = pardon
  BY DEF HandleChunk
<1>4. failedAuthAttempts \in [Clients -> Nat]
  BY DEF HttpInv, HttpTypeOK
<1> HIDE DEF c, n
<1>5. /\ failedAuthAttempts'[c] = failedAuthAttempts[c] + n
      /\ \A d \in Clients : d # c => failedAuthAttempts'[d] = failedAuthAttempts[d]
      /\ clientBlacklist' = IF n > 0 /\ failedAuthAttempts[c] + n >= MaxFailedAttempts
                            THEN clientBlacklist \cup {c} ELSE clientBlacklist
  BY <1>1, <1>3, <1>4 DEF IncrementAuthFailures
<1> SUFFICES ASSUME NEW d \in Clients, LockedOut(d)'
             PROVE  d \in clientBlacklist' \/ Pardoned(d)'
  BY DEF LockoutInv
<1>6. CASE d # c \/ n = 0
  <2>1. failedAuthAttempts'[d] = failedAuthAttempts[d]
    BY <1>1, <1>4, <1>5, <1>6
  <2>2. LockedOut(d)
    BY <2>1 DEF LockedOut
  <2>3. d \in clientBlacklist \/ Pardoned(d)
    BY <2>2 DEF LockoutInv
  <2> QED BY <1>3, <1>5, <2>1, <2>3 DEF Pardoned
<1>7. CASE d = c /\ n # 0
  BY <1>2, <1>5, <1>7 DEF LockedOut
<1> QED BY <1>6, <1>7

\* Whoever is locked out is on the blacklist, or was taken off it by the operator.
LEMMA NextLockoutInv == HttpInv /\ LockoutInv /\ [HttpNext]_httpVars => LockoutInv'
<1> SUFFICES ASSUME HttpInv, LockoutInv, [HttpNext]_httpVars PROVE LockoutInv'
  OBVIOUS
<1>1. ASSUME NEW s \in Sockets, HandleConnection(s) \/ ConnectionEnds(s) \/ ConnectionCloses(s)
      PROVE  LockoutInv'
  BY <1>1, QuietKeepsLockout DEF HandleConnection, RefuseConnection, TrackConnection, Connects,
                                 ConnectionEnds, ConnectionCloses, Closes, listVars
<1>2. ASSUME NEW s \in Sockets, HandleRequests(s) PROVE LockoutInv'
  BY <1>2, ChunkKeepsLockout DEF HandleRequests
<1>3. CASE SessionCrashes \/ Close \/ Closed \/ UNCHANGED httpVars
  BY <1>3, QuietKeepsLockout DEF SessionCrashes, Close, Closed, httpVars, listVars
<1>4. CASE HotPatch
  <2>1. ASSUME NEW list \in ClientPatches, UpdateClientIpBlackList(list) PROVE LockoutInv'
    BY <2>1 DEF UpdateClientIpBlackList, LockoutInv, LockedOut, Pardoned
  <2>2. ASSUME NEW list \in ClientPatches, UpdateClientIpWhitelist(list) PROVE LockoutInv'
    BY <2>2, QuietKeepsLockout DEF UpdateClientIpWhitelist
  <2>3. ASSUME NEW list \in HostPatches,
               UpdateServerIpBlackList(list) \/ UpdateServerIpWhitelist(list)
        PROVE  LockoutInv'
    BY <2>3, QuietKeepsLockout DEF UpdateServerIpBlackList, UpdateServerIpWhitelist
  <2> QED BY <1>4, <2>1, <2>2, <2>3 DEF HotPatch
<1> QED BY <1>1, <1>2, <1>3, <1>4 DEF HttpNext

\* Nothing a client on the blacklist sends is examined.
LEMMA BlacklistedChunk ==
    ASSUME HttpInv, NEW s \in Sockets, NEW rs \in Chunks, HandleChunk(s, rs),
           remoteAddress[s] \in clientBlacklist
    PROVE  UNCHANGED <<failedAuthAttempts, forwarded>> /\ conn'[s] # "tunnel"
<1> DEFINE c == remoteAddress[s]
<1>1. \A r : ~Examined(c, r)
  BY DEF Examined, ClientAccepted
<1>2. (\A r : ~Fails(c, r)) /\ (\A r : ~Forwards(c, r))
  BY <1>1 DEF Fails, Forwards
<1>3. {i \in DOMAIN rs : Fails(c, rs[i])} = {}
  BY <1>2
<1>4. IncrementAuthFailures(c, 0)
  BY <1>3, FS_EmptySet DEF HandleChunk
<1>5. failedAuthAttempts' = failedAuthAttempts
  BY <1>4, ChunkLemma DEF IncrementAuthFailures, HttpInv, HttpTypeOK
<1>6. forwarded' = forwarded
  BY <1>2 DEF HandleChunk, HttpInv, HttpTypeOK
<1>7. conn'[s] \in {"open", "destroyed"}
  BY <1>2 DEF HandleChunk, HttpInv, HttpTypeOK
<1> QED BY <1>5, <1>6, <1>7

\* A client that is locked out and not pardoned is neither counted nor served,
\* on whichever of its connections it tries.
THEOREM LockoutIsFreeze == HttpSpec => LockoutFreezes
<1> DEFINE Step == \A c \in Clients : LockedOut(c) /\ ~Pardoned(c) =>
                     /\ failedAuthAttempts'[c] = failedAuthAttempts[c]
                     /\ \A s \in Sockets : remoteAddress[s] = c =>
                          /\ forwarded'[s] = forwarded[s]
                          /\ conn'[s] = "tunnel" => conn[s] = "tunnel"
<1>1. HttpInit => LockoutInv
  BY DEF HttpInit, LockoutInv, LockedOut
<1>2. HttpInv /\ LockoutInv /\ [HttpNext]_httpVars => [Step]_httpVars
  <2> SUFFICES ASSUME HttpInv, LockoutInv, HttpNext, NEW c \in Clients, LockedOut(c), ~Pardoned(c)
               PROVE  /\ failedAuthAttempts'[c] = failedAuthAttempts[c]
                      /\ \A s \in Sockets : remoteAddress[s] = c =>
                           /\ forwarded'[s] = forwarded[s]
                           /\ conn'[s] = "tunnel" => conn[s] = "tunnel"
    BY DEF httpVars
  <2>1. c \in clientBlacklist
    BY DEF LockoutInv
  <2>2. ASSUME NEW s \in Sockets, HandleConnection(s) \/ ConnectionEnds(s) \/ ConnectionCloses(s)
        PROVE  /\ UNCHANGED <<failedAuthAttempts, forwarded>>
               /\ \A t \in Sockets : conn'[t] = "tunnel" => conn[t] = "tunnel"
    BY <2>2 DEF HandleConnection, RefuseConnection, TrackConnection, Connects, ConnectionEnds,
                ConnectionCloses, Closes, HttpInv, HttpTypeOK
  <2>3. CASE SessionCrashes \/ HotPatch \/ Close \/ Closed
    <3>1. UNCHANGED <<failedAuthAttempts, forwarded>>
      BY <2>3 DEF SessionCrashes, HotPatch, Close, Closed, connVars, UpdateClientIpBlackList,
                  UpdateClientIpWhitelist, UpdateServerIpBlackList, UpdateServerIpWhitelist
    <3>2. \A t \in Sockets : conn'[t] = "tunnel" => conn[t] = "tunnel"
      BY <2>3 DEF SessionCrashes, HotPatch, Close, Closed, connVars, UpdateClientIpBlackList,
                  UpdateClientIpWhitelist, UpdateServerIpBlackList, UpdateServerIpWhitelist
    <3> QED BY <3>1, <3>2
  <2>4. ASSUME NEW s \in Sockets, NEW rs \in Chunks, HandleChunk(s, rs), remoteAddress[s] # c
        PROVE  /\ failedAuthAttempts'[c] = failedAuthAttempts[c]
               /\ \A t \in Sockets : t # s => /\ forwarded'[t] = forwarded[t]
                                              /\ conn'[t] = conn[t]
    BY <2>4, ChunkLemma DEF HandleChunk, IncrementAuthFailures, HttpInv, HttpTypeOK
  <2>5. ASSUME NEW s \in Sockets, NEW rs \in Chunks, HandleChunk(s, rs), remoteAddress[s] = c
        PROVE  /\ UNCHANGED <<failedAuthAttempts, forwarded>>
               /\ \A t \in Sockets : conn'[t] = "tunnel" => conn[t] = "tunnel"
    BY <2>1, <2>5, BlacklistedChunk, ChunkLemma
  <2> QED
    BY <2>2, <2>3, <2>4, <2>5 DEF HttpNext, HandleRequests
<1> QED
  BY <1>1, <1>2, NextLockoutInv, HttpInvariant, PTL DEF HttpSpec, LockoutFreezes

-----------------------------------------------------------------------------
(* The refinement of ConnectionLimiter *)

\* What the code compares with the limit is the number of connections served.
LEMMA TrackingRefines ==
    ASSUME HttpInv, NEW s \in Sockets, NEW c \in Clients, TrackConnection(s, c)
    PROVE  Limiter!Admit(s)
<1>1. /\ httpServer = "listening" /\ httpServer' = httpServer /\ Running /\ ~LimitReached
      /\ conn[s] = "none" /\ conn'[s] = "open"
      /\ \A t \in Sockets : t # s => conn'[t] = conn[t]
  BY DEF TrackConnection, Connects, HttpInv, HttpTypeOK
<1>2. activeConnections = Served /\ IsFiniteSet(activeConnections)
  BY <1>1 DEF HttpInv, TrackedAreServed
<1>3. Cardinality(Served) < MaxConnections
  BY <1>1, <1>2, FS_CardinalityType, HttpAssumption DEF LimitReached, HttpAssumption
<1>4. s \notin Served /\ Served' = Served \cup {s}
  BY <1>1 DEF Served, Usable
<1>5. Limiter!Cardinality(Served) = Cardinality(Served)
  BY DEF Limiter!Cardinality, Cardinality
<1> QED BY <1>1, <1>3, <1>4, <1>5 DEF Limiter!Admit

\* Every step is a step of the abstract limiter or leaves it alone.
LEMMA HttpRefines ==
    ASSUME HttpInv, [HttpNext]_httpVars
    PROVE  [Limiter!LimiterNext]_<<Served, httpServer = "listening">>
<1> DEFINE Refined == [Limiter!LimiterNext]_<<Served, httpServer = "listening">>
<1>1. ASSUME NEW s \in Sockets, HandleConnection(s) PROVE Refined
  <2>1. PICK c \in Clients : RefuseConnection(s, c) \/ TrackConnection(s, c)
    BY <1>1 DEF HandleConnection
  <2>2. CASE RefuseConnection(s, c)
    <3>1. Served' = Served /\ httpServer' = httpServer
      BY <2>2 DEF RefuseConnection, Connects, Served, Usable, HttpInv, HttpTypeOK
    <3> QED BY <3>1
  <2> QED BY <2>1, <2>2, TrackingRefines DEF Limiter!LimiterNext
<1>2. ASSUME NEW s \in Sockets, HandleRequests(s) PROVE Refined
  <2>1. PICK rs \in Chunks : HandleChunk(s, rs)
    BY <1>2 DEF HandleRequests
  <2>2. Served' = Served /\ httpServer' = httpServer
    BY <2>1, ChunkLemma DEF Served, Usable
  <2> QED BY <2>2
<1>3. ASSUME NEW s \in Sockets, ConnectionEnds(s) PROVE Refined
  <2>1. Served' = Served /\ httpServer' = httpServer
    BY <1>3 DEF ConnectionEnds, Served, Usable, HttpInv, HttpTypeOK
  <2> QED BY <2>1
<1>4. ASSUME NEW s \in Sockets, ConnectionCloses(s) PROVE Refined
  <2>1. Served' = Served \ {s} /\ httpServer' = httpServer
    BY <1>4 DEF ConnectionCloses, Closes, Served, Usable, HttpInv, HttpTypeOK
  <2>2. CASE s \in Served
    BY <2>1, <2>2 DEF Limiter!LimiterNext, Limiter!Leave
  <2>3. CASE s \notin Served
    BY <2>1, <2>3
  <2> QED BY <2>2, <2>3
<1>5. CASE SessionCrashes \/ HotPatch \/ UNCHANGED httpVars
  <2>1. UNCHANGED <<conn, httpServer>>
    BY <1>5 DEF SessionCrashes, HotPatch, httpVars, connVars, UpdateClientIpBlackList,
                UpdateClientIpWhitelist, UpdateServerIpBlackList, UpdateServerIpWhitelist
  <2> QED BY <2>1 DEF Served, Usable
<1>6. CASE Close
  <2>1. Served' = Served /\ httpServer = "listening" /\ httpServer' = "closing"
    BY <1>6 DEF Close, Served, Usable
  <2> QED BY <2>1 DEF Limiter!LimiterNext, Limiter!Shutdown
<1>7. CASE Closed
  <2>1. UNCHANGED conn /\ httpServer = "closing" /\ httpServer' = "closed"
    BY <1>7 DEF Closed, connVars
  <2> QED BY <2>1 DEF Served, Usable
<1> QED BY <1>1, <1>2, <1>3, <1>4, <1>5, <1>6, <1>7 DEF HttpNext

\* The limiter starts with nobody served.
LEMMA InitHttpLimiter == HttpInit => Limiter!LimiterInit
  BY DEF HttpInit, Limiter!LimiterInit, Served, Usable

\* The HTTP proxy implements the connection limiter.
THEOREM HttpImplementsLimiter == HttpSpec => ImplementsLimiter
  BY InitHttpLimiter, HttpRefines, HttpInvariant, PTL
  DEF HttpSpec, ImplementsLimiter, Limiter!LimiterSpec

-----------------------------------------------------------------------------
(* What the limiter promises *)

\* The limiter speaks of finite sets in the same words.
LEMMA SameSets ==
    ASSUME NEW S
    PROVE  Limiter!Cardinality(S) = Cardinality(S) /\ (Limiter!IsFiniteSet(S) <=> IsFiniteSet(S))
  BY DEF Limiter!Cardinality, Cardinality, Limiter!IsFiniteSet, IsFiniteSet

\* No step of the limiter lets more connections in than it may.
LEMMA LimitKept ==
    ASSUME Limiter!WithinLimit, [Limiter!LimiterNext]_<<Served, httpServer = "listening">>
    PROVE  Limiter!WithinLimit'
<1>1. IsFiniteSet(Served) /\ Cardinality(Served) <= MaxConnections /\ Cardinality(Served) \in Nat
  BY SameSets, FS_CardinalityType DEF Limiter!WithinLimit
<1>2. ASSUME NEW s, Limiter!Admit(s)
      PROVE  IsFiniteSet(Served') /\ Cardinality(Served') <= MaxConnections
  BY <1>1, <1>2, SameSets, FS_AddElement, HttpAssumption DEF Limiter!Admit, HttpAssumption
<1>3. ASSUME NEW s, Limiter!Leave(s)
      PROVE  IsFiniteSet(Served') /\ Cardinality(Served') <= MaxConnections
  <2>1. s \in Served /\ Served' = Served \ {s}
    BY <1>3 DEF Limiter!Leave
  <2>2. IsFiniteSet(Served \ {s}) /\ Cardinality(Served \ {s}) = Cardinality(Served) - 1
    BY <1>1, <2>1, FS_RemoveElement, Zenon
  <2>3. Cardinality(Served) - 1 <= MaxConnections
    BY <1>1, HttpAssumption DEF HttpAssumption
  <2> QED BY <2>1, <2>2, <2>3
<1>4. ASSUME UNCHANGED Served
      PROVE  IsFiniteSet(Served') /\ Cardinality(Served') <= MaxConnections
  BY <1>1, <1>4
<1>5. IsFiniteSet(Served') /\ Cardinality(Served') <= MaxConnections
  BY <1>2, <1>3, <1>4 DEF Limiter!LimiterNext, Limiter!Shutdown
<1> QED BY <1>5, SameSets DEF Limiter!WithinLimit

\* No connection is served at first.
LEMMA InitWithinLimit == HttpInit => Limiter!WithinLimit
<1> SUFFICES ASSUME HttpInit PROVE Limiter!WithinLimit
  OBVIOUS
<1>1. Served = {}
  BY DEF HttpInit, Served, Usable
<1>2. IsFiniteSet(Served) /\ Cardinality(Served) <= MaxConnections
  BY <1>1, FS_EmptySet, HttpAssumption DEF HttpAssumption
<1> QED BY <1>2, SameSets DEF Limiter!WithinLimit

\* Never more connections are served than the limit allows, after close() either.
THEOREM HttpConnectionsWithinLimit == HttpSpec => [](Cardinality(Served) <= MaxConnections)
<1>1. Limiter!WithinLimit => Cardinality(Served) <= MaxConnections
  BY SameSets DEF Limiter!WithinLimit
<1> QED
  BY <1>1, InitWithinLimit, LimitKept, HttpRefines, HttpInvariant, PTL DEF HttpSpec
=============================================================================
