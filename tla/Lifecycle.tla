----------------------------- MODULE Lifecycle -----------------------------
(***************************************************************************)
(* The process: main() of index.ts starts the SOCKS server and then, on    *)
(* request, the HTTP proxy; a signal closes the one and then the other.    *)
(* Both have read the configuration file into a ConfigManager of their     *)
(* own, and a process that is started again reads it again.                *)
(*                                                                         *)
(* The servers are what SocksServer and HttpProxy show of them: a number   *)
(* of connections, failed authentications, a blacklist, close(), and       *)
(* exceptions that end the process. Any connection may leave something     *)
(* behind when it is gone, which keeps the process alive: the listening    *)
(* socket or the remote connection of a BIND, a destination that was not   *)
(* connected yet or was cut off by close(), the server of a tunnel that    *)
(* was reset or of a request that was given up (BindRelay, ConnectRelay,   *)
(* HttpTunnel and HttpExchange say when).                                  *)
(*                                                                         *)
(* The four update functions and persistConfig are there for whoever holds *)
(* a server object; main() calls none of them. A list that is patched in   *)
(* is taken to be an array of its own, not that of the other proxy.        *)
(***************************************************************************)
EXTENDS Naturals, FiniteSets

CONSTANTS
    Clients,              \* client IP addresses
    MaxFailedAttempts,    \* authentication.maxFailedAttempts
    MaxCounted,           \* bound: failures of a client that are counted
    MaxConns,             \* bound: connections to a server
    MaxSignals            \* bound: signals to a process

ASSUME LifecycleAssumption ==
    /\ MaxFailedAttempts \in Nat \ {0}
    /\ MaxCounted \in Nat /\ MaxConns \in Nat /\ MaxSignals \in Nat

VARIABLES
    httpSupport,          \* --http was given
    phase,                \* "starting" until the signal handlers are there
    exit,                 \* how the process ended
    server,               \* the listening socket of each proxy
    conns,                \* its connections, until their 'close' events
    leftovers,            \* sockets that connections which are gone left behind
    shutdowns,            \* calls of gracefulShutdown waiting for a server to close
    signals,              \* history: signals since the handlers are there
    threw,                \* history: a session ended the process
    blacklist,            \* clientIpFiltering.blacklist of each ConfigManager
    failures,             \* failedAuthAttempts of each proxy
    base,                 \* history: the list each proxy was last given, by the file or a patch
    counted,              \* history: its failure counts at that moment
    patched,              \* history: the proxies whose list was patched
    file,                 \* the blacklist in the configuration file
    intact                \* the file is a whole JSON text

procVars == <<phase, exit, leftovers, shutdowns, signals, threw>>
authVars == <<blacklist, failures, base, counted, patched>>
fileVars == <<file, intact>>
lifeVars == <<httpSupport, procVars, server, conns, authVars, fileVars>>

Proxies == {"socks", "http"}

LifecycleTypeOK ==
    /\ httpSupport \in BOOLEAN
    /\ phase \in {"starting", "serving"}
    /\ exit \in {"no", "clean", "startFailed", "killed", "crashed"}
    /\ server \in [Proxies -> {"none", "binding", "listening", "closing", "closed"}]
    /\ conns \in [Proxies -> 0..MaxConns]
    /\ leftovers \in BOOLEAN /\ threw \in BOOLEAN
    /\ shutdowns \in [Proxies -> 0..MaxSignals]
    /\ signals \in 0..MaxSignals
    /\ blacklist \in [Proxies -> SUBSET Clients]
    /\ failures \in [Proxies -> [Clients -> 0..MaxCounted]]
    /\ base \in [Proxies -> SUBSET Clients]
    /\ counted \in [Proxies -> [Clients -> 0..MaxCounted]]
    /\ patched \subseteq Proxies
    /\ file \subseteq Clients /\ intact \in BOOLEAN

\* What the process knows of clients: the list in the file, for both, and no
\* failures.
Remembers(contents) ==
    /\ blacklist' = [p \in Proxies |-> contents]
    /\ base' = [p \in Proxies |-> contents]
    /\ failures' = [p \in Proxies |-> [c \in Clients |-> 0]]
    /\ counted' = [p \in Proxies |-> [c \in Clients |-> 0]]
    /\ patched' = {}

\* main() up to socksServer.start(). Each ConfigManager reads the file when it
\* is constructed; that of the HTTP proxy comes later, but nothing writes the
\* file before both are there.
Starts(contents) ==
    /\ phase' = "starting" /\ exit' = "no"
    /\ server' = [p \in Proxies |-> IF p = "socks" THEN "binding" ELSE "none"]
    /\ conns' = [p \in Proxies |-> 0]
    /\ leftovers' = FALSE
    /\ shutdowns' = [p \in Proxies |-> 0]
    /\ signals' = 0 /\ threw' = FALSE
    /\ Remembers(contents)

LifecycleInit ==
    /\ httpSupport \in BOOLEAN
    /\ phase = "starting" /\ exit = "no"
    /\ server = [p \in Proxies |-> IF p = "socks" THEN "binding" ELSE "none"]
    /\ conns = [p \in Proxies |-> 0]
    /\ leftovers = FALSE
    /\ shutdowns = [p \in Proxies |-> 0]
    /\ signals = 0 /\ threw = FALSE
    /\ file \in SUBSET Clients /\ intact = TRUE
    /\ blacklist = [p \in Proxies |-> file]
    /\ base = [p \in Proxies |-> file]
    /\ failures = [p \in Proxies |-> [c \in Clients |-> 0]]
    /\ counted = [p \in Proxies |-> [c \in Clients |-> 0]]
    /\ patched = {}

Alive == exit = "no"

-----------------------------------------------------------------------------
(* main() *)

\* The end of the process, whichever way, ends everything in it, and what it
\* knew of clients.
Exits(how) ==
    /\ exit' = how
    /\ server' = [p \in Proxies |-> "closed"]
    /\ conns' = [p \in Proxies |-> 0]
    /\ leftovers' = FALSE
    /\ shutdowns' = [p \in Proxies |-> 0]
    /\ Remembers({})

\* listen() called back: next comes the HTTP proxy, or the signal handlers.
Listens(p) ==
    /\ Alive /\ server[p] = "binding"
    /\ IF p = "socks" /\ httpSupport
       THEN /\ server' = [server EXCEPT ![p] = "listening", !["http"] = "binding"]
            /\ UNCHANGED phase
       ELSE /\ server' = [server EXCEPT ![p] = "listening"]
            /\ phase' = "serving"
    /\ UNCHANGED <<httpSupport, exit, leftovers, shutdowns, signals, threw, conns, authVars, fileVars>>

\* The port is taken: start() rejects, process.exit(1), with all that the SOCKS
\* server serves already.
ListenFails(p) ==
    /\ Alive /\ server[p] = "binding"
    /\ Exits("startFailed")
    /\ UNCHANGED <<httpSupport, phase, signals, threw, fileVars>>

\* SIGINT or SIGTERM before process.on: the default action.
SignalKills ==
    /\ Alive /\ phase = "starting"
    /\ Exits("killed")
    /\ UNCHANGED <<httpSupport, phase, signals, threw, fileVars>>

-----------------------------------------------------------------------------
(* gracefulShutdown *)

\* Every signal calls gracefulShutdown anew. The SOCKS server's close() is the
\* first to be called: it destroys the connections, whose 'close' events come
\* one by one. Its answer comes with the 'close' event, also to a
\* call that found it closing or closed.
Signal ==
    /\ Alive /\ phase = "serving"
    /\ signals < MaxSignals
    /\ signals' = signals + 1
    /\ shutdowns' = [shutdowns EXCEPT !["socks"] = @ + 1]
    /\ server' = [server EXCEPT !["socks"] = IF @ = "listening" THEN "closing" ELSE @]
    /\ UNCHANGED <<httpSupport, phase, exit, leftovers, threw, conns, authVars, fileVars>>

\* A promise that is rejected and not caught ends the process. All but the
\* first call get ERR_SERVER_NOT_RUNNING.
Rejected(p) == shutdowns[p] > 1 \/ (shutdowns[p] = 1 /\ server[p] = "closed")

\* Faulty variant of ShutdownContinues: the HTTP proxy is forgotten.
ShutdownContinuesSocksOnly ==
    /\ server' = [server EXCEPT !["socks"] = "closed"]
    /\ shutdowns' = [shutdowns EXCEPT !["socks"] = 0]

\* After await socksServer.close().
ShutdownContinues ==
    IF httpSupport
    THEN /\ server' = [server EXCEPT !["socks"] = "closed", !["http"] = "closing"]
         /\ shutdowns' = [shutdowns EXCEPT !["socks"] = 0, !["http"] = 1]
    ELSE /\ server' = [server EXCEPT !["socks"] = "closed"]
         /\ shutdowns' = [shutdowns EXCEPT !["socks"] = 0]

\* The SOCKS server's 'close' event: no connection is left.
SocksCloses ==
    /\ Alive
    /\ shutdowns["socks"] > 0
    /\ server["socks"] \in {"closing", "closed"} /\ conns["socks"] = 0
    /\ \/ Rejected("socks") /\ Exits("crashed")
       \/ ~Rejected("socks") /\ ShutdownContinues /\ UNCHANGED <<exit, leftovers, conns, authVars>>
    /\ UNCHANGED <<httpSupport, phase, signals, threw, fileVars>>

HttpCloses ==
    /\ Alive
    /\ server["http"] = "closing" /\ conns["http"] = 0
    /\ server' = [server EXCEPT !["http"] = "closed"]
    /\ shutdowns' = [shutdowns EXCEPT !["http"] = 0]
    /\ UNCHANGED <<httpSupport, phase, exit, leftovers, signals, threw, conns, authVars, fileVars>>

\* Node ends the process when nothing is open and nobody waits.
ProcessEnds ==
    /\ Alive /\ phase = "serving"
    /\ \A p \in Proxies : server[p] \in {"none", "closed"} /\ conns[p] = 0 /\ shutdowns[p] = 0
    /\ ~leftovers
    /\ Exits("clean")
    /\ UNCHANGED <<httpSupport, phase, signals, threw, fileVars>>

-----------------------------------------------------------------------------
(* The servers *)

Connects(p) ==
    /\ Alive /\ server[p] = "listening"
    /\ conns[p] < MaxConns
    /\ conns' = [conns EXCEPT ![p] = @ + 1]
    /\ UNCHANGED <<httpSupport, procVars, server, authVars, fileVars>>

\* The 'close' event of a connection, after a close() or by itself, with or
\* without something left behind.
Disconnects(p) ==
    /\ Alive /\ conns[p] > 0
    /\ conns' = [conns EXCEPT ![p] = @ - 1]
    /\ leftovers' \in {leftovers, TRUE}
    /\ UNCHANGED <<httpSupport, phase, exit, shutdowns, signals, threw, server, authVars, fileVars>>

\* The other ends close the last of them.
LeftoversEnd ==
    /\ Alive /\ leftovers
    /\ leftovers' = FALSE
    /\ UNCHANGED <<httpSupport, phase, exit, shutdowns, signals, threw, server, conns, authVars, fileVars>>

\* A session ends the process (HandleMalformedCommand, NewSessionThrows,
\* WriteHeadThrows, the last of them also when its client is gone).
SessionThrows ==
    /\ Alive
    /\ leftovers \/ \E p \in Proxies : conns[p] > 0
    /\ threw' = TRUE
    /\ Exits("crashed")
    /\ UNCHANGED <<httpSupport, phase, signals, fileVars>>

\* Faulty variant of IncrementAuthFailure: only the failure that reaches the
\* maximum counts.
IncrementAuthFailureOnce(p, c) ==
    /\ failures' = [failures EXCEPT ![p][c] = @ + 1]
    /\ blacklist' = [blacklist EXCEPT ![p] =
                       IF failures'[p][c] = MaxFailedAttempts THEN @ \cup {c} ELSE @]

\* incrementAuthFailure of one proxy: its own count, its own list.
IncrementAuthFailure(p, c) ==
    /\ failures' = [failures EXCEPT ![p][c] = @ + 1]
    /\ blacklist' = [blacklist EXCEPT ![p] =
                       IF failures'[p][c] >= MaxFailedAttempts THEN @ \cup {c} ELSE @]

AuthFails(p, c) ==
    /\ Alive /\ server[p] = "listening" /\ conns[p] > 0
    /\ p = "http" => c \notin blacklist[p]
    /\ failures[p][c] < MaxCounted
    /\ IncrementAuthFailure(p, c)
    /\ UNCHANGED <<httpSupport, procVars, server, conns, base, counted, patched, fileVars>>

-----------------------------------------------------------------------------
(* The configuration *)

\* Somebody has the ConfigManager of this proxy and calls it.
Held(p) == Alive /\ phase = "serving" /\ (p = "http" => httpSupport)

\* The setter replaces the list and leaves the counts alone.
UpdateClientIpBlackList(p, list) ==
    /\ Held(p)
    /\ blacklist' = [blacklist EXCEPT ![p] = list]
    /\ base' = [base EXCEPT ![p] = list]
    /\ counted' = [counted EXCEPT ![p] = failures[p]]
    /\ patched' = patched \cup {p}
    /\ UNCHANGED <<httpSupport, procVars, server, conns, failures, fileVars>>

\* writeFileSync empties the file and then writes it. No other turn comes in
\* between, but the disk can be full, which the caller is told by an exception,
\* or the process can be killed: then the file is no JSON text any more.
PersistConfig(p) ==
    /\ Held(p)
    /\ \/ file' = blacklist[p] /\ intact' = TRUE
          /\ UNCHANGED <<procVars, server, conns, authVars>>
       \/ file' = {} /\ intact' = FALSE
          /\ UNCHANGED <<procVars, server, conns, authVars>>
       \/ file' = {} /\ intact' = FALSE
          /\ Exits("killed") /\ UNCHANGED <<phase, signals, threw>>
    /\ UNCHANGED httpSupport

\* Faulty variant of LoadConfig: the file is not read again.
LoadConfigEmpty == Starts({})

\* JSON.parse throws on a file that was cut: main() gives up.
LoadConfig ==
    \/ intact /\ Starts(file)
    \/ ~intact /\ Exits("startFailed") /\ phase' = "starting" /\ signals' = 0 /\ threw' = FALSE

\* Whoever runs the program starts it again.
Restart ==
    /\ ~Alive
    /\ LoadConfig
    /\ UNCHANGED <<httpSupport, fileVars>>

-----------------------------------------------------------------------------
LifecycleNext ==
    \/ \E p \in Proxies :
         Listens(p) \/ ListenFails(p) \/ Connects(p) \/ Disconnects(p) \/ PersistConfig(p)
    \/ \E p \in Proxies, c \in Clients : AuthFails(p, c)
    \/ \E p \in Proxies, list \in SUBSET Clients : UpdateClientIpBlackList(p, list)
    \/ SignalKills \/ Signal \/ SocksCloses \/ HttpCloses \/ ProcessEnds
    \/ LeftoversEnd \/ SessionThrows \/ Restart

LifecycleSpec == LifecycleInit /\ [][LifecycleNext]_lifeVars

\* Listening succeeds or fails; Node gets to the 'close' events of what close()
\* destroyed and to the callbacks of its servers, and ends a process that has
\* nothing left to do.
LifecycleFairness ==
    /\ \A p \in Proxies :
         /\ WF_lifeVars(Listens(p) \/ ListenFails(p))
         /\ WF_lifeVars(server[p] = "closing" /\ Disconnects(p))
    /\ WF_lifeVars(SocksCloses)
    /\ WF_lifeVars(HttpCloses)
    /\ WF_lifeVars(ProcessEnds)

FairLifecycleSpec == LifecycleSpec /\ LifecycleFairness

-----------------------------------------------------------------------------
(* Correctness *)

\* After a signal the process ends, however many clients come to the HTTP proxy
\* while the SOCKS server is closing, unless something is left behind by a
\* connection, of a client that was there at the signal or of one that had gone
\* long before: nobody ends that, and the process stays until its other end
\* does. The end is a clean one, if no session throws, no second signal closes
\* what is closing already, and nobody kills the process in a write
\* (gracefulShutdown, lines 53-59).
ShutdownEnds ==
    signals > 0 ~>
        \/ exit = "clean"
        \/ exit = "crashed" /\ (threw \/ signals > 1)
        \/ exit = "killed" /\ ~intact
        \/ leftovers

\* The blacklist a proxy works with is the list it was last given, by the file
\* or by a patch, and the clients that have failed since then and have failed
\* too often in all: failures at the other proxy and before a restart count for
\* nothing, those before a patch do, so that one failure puts a client back
\* that a patch took off.
ListsExact ==
    \A p \in Proxies :
        blacklist[p] = base[p] \cup
            {c \in Clients : failures[p][c] >= MaxFailedAttempts /\ failures[p][c] > counted[p][c]}

\* A whole write of the configuration drops a client from the file only if the
\* writer's list was patched since the process started, or the client is known
\* to the other proxy, whose entries are written over, or was until that one's
\* list was patched. With the SOCKS server alone and no patches an entry that
\* was written stays, over any number of restarts and crashes, as long as no
\* write is cut short (persistConfig, ConfigManager.ts 27-31).
FileForgetsOnlySo ==
    [][\A c \in file \ file' : intact' =>
         \E p \in Proxies :
            /\ file' = blacklist[p]
            /\ p \in patched \/ (httpSupport /\ \E q \in Proxies \ {p} : c \in blacklist[q] \/ q \in patched)
      ]_lifeVars

-----------------------------------------------------------------------------
(* The inductive invariant of the proofs *)

\* A call of gracefulShutdown waits for a server only if a signal made it.
CallsCounted == \A p \in Proxies : shutdowns[p] <= signals

\* While a process is there: whoever is in the file is on the list of a proxy
\* that could write it, or was until a patch.
FileKept ==
    Alive => \A c \in file : \E p \in Proxies :
                /\ c \in blacklist[p] \/ p \in patched
                /\ p = "http" => httpSupport

\* No patch has seen failures that are still to come.
CountsGrow == \A p \in Proxies, c \in Clients : counted[p][c] <= failures[p][c]

LifeInv == LifecycleTypeOK /\ ListsExact /\ CallsCounted /\ CountsGrow /\ FileKept
=============================================================================
