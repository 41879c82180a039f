-------------------------- MODULE Lifecycle_proofs --------------------------
(***************************************************************************)
(* What the process keeps in its two blacklists and in the file, over any  *)
(* number of clients, failures, signals, crashes and restarts.             *)
(***************************************************************************)
EXTENDS Lifecycle, TLAPS

\* The invariant holds when the process is started for the first time.
LEMMA InitLifeInv == LifecycleInit => LifeInv
<1> SUFFICES ASSUME LifecycleInit PROVE LifeInv
  OBVIOUS
<1>1. LifecycleTypeOK
  <2>1. 0 \in 0..MaxConns /\ 0 \in 0..MaxSignals /\ 0 \in 0..MaxCounted
    BY LifecycleAssumption DEF LifecycleAssumption
  <2>2. /\ failures \in [Proxies -> [Clients -> 0..MaxCounted]]
        /\ counted \in [Proxies -> [Clients -> 0..MaxCounted]]
    BY <2>1 DEF LifecycleInit
  <2>3. conns \in [Proxies -> 0..MaxConns] /\ shutdowns \in [Proxies -> 0..MaxSignals]
    BY <2>1 DEF LifecycleInit
  <2>4. /\ blacklist \in [Proxies -> SUBSET Clients] /\ base \in [Proxies -> SUBSET Clients]
        /\ patched \subseteq Proxies /\ file \subseteq Clients
    BY DEF LifecycleInit
  <2>5. server \in [Proxies -> {"none", "binding", "listening", "closing", "closed"}]
    BY DEF LifecycleInit
  <2> QED BY <2>1, <2>2, <2>3, <2>4, <2>5 DEF LifecycleInit, LifecycleTypeOK
<1>2. ListsExact
  BY LifecycleAssumption DEF LifecycleInit, ListsExact, LifecycleAssumption, Proxies
<1>3. CallsCounted /\ CountsGrow
  BY DEF LifecycleInit, CallsCounted, CountsGrow
<1> QED BY <1>1, <1>2, <1>3 DEF LifecycleInit, LifeInv, FileKept, Proxies

\* A step that leaves the lists and the file alone, and types what it changes;
\* a process that is over does not come back in it.
LEMMA ProcKeepsInv ==
    ASSUME LifeInv, UNCHANGED <<httpSupport, authVars, fileVars>>,
           Alive' => Alive,
           phase' \in {"starting", "serving"},
           exit' \in {"no", "clean", "startFailed", "killed", "crashed"},
           server' \in [Proxies -> {"none", "binding", "listening", "closing", "closed"}],
           conns' \in [Proxies -> 0..MaxConns],
           leftovers' \in BOOLEAN, threw' \in BOOLEAN,
           signals' \in 0..MaxSignals,
           shutdowns' \in [Proxies -> 0..signals']
    PROVE  LifeInv'
<1>1. shutdowns' \in [Proxies -> 0..MaxSignals]
  <2>1. 0..signals' \subseteq 0..MaxSignals
    BY LifecycleAssumption DEF LifecycleAssumption
  <2> QED BY <2>1
<1>2. LifecycleTypeOK'
  BY <1>1 DEF LifeInv, LifecycleTypeOK, authVars, fileVars
<1>3. CallsCounted'
  BY LifecycleAssumption DEF CallsCounted, LifecycleAssumption
<1>4. FileKept'
  BY DEF LifeInv, FileKept, authVars, fileVars
<1> QED BY <1>2, <1>3, <1>4 DEF LifeInv, ListsExact, CountsGrow, authVars

\* What a process remembers when it has read a list.
LEMMA RemembersList ==
    ASSUME NEW contents \in SUBSET Clients, Remembers(contents)
    PROVE  /\ blacklist' \in [Proxies -> SUBSET Clients] /\ base' \in [Proxies -> SUBSET Clients]
           /\ failures' \in [Proxies -> [Clients -> 0..MaxCounted]]
           /\ counted' \in [Proxies -> [Clients -> 0..MaxCounted]]
           /\ patched' \subseteq Proxies
           /\ ListsExact' /\ CountsGrow'
<1>1. 0 \in 0..MaxCounted
  BY LifecycleAssumption DEF LifecycleAssumption
<1>2. ListsExact'
  BY LifecycleAssumption DEF Remembers, ListsExact, LifecycleAssumption
<1>3. CountsGrow'
  BY DEF Remembers, CountsGrow
<1> QED BY <1>1, <1>2, <1>3 DEF Remembers

\* The end of the process, by whatever way.
LEMMA ExitsKeepsInv ==
    ASSUME LifeInv, NEW how \in {"clean", "startFailed", "killed", "crashed"}, Exits(how),
           UNCHANGED <<httpSupport, phase, signals>>, threw' \in BOOLEAN,
           file' \subseteq Clients, intact' \in BOOLEAN
    PROVE  LifeInv'
<1>1. signals \in 0..MaxSignals /\ 0 \in 0..signals /\ 0 \in 0..MaxConns /\ 0 \in 0..MaxSignals
  BY LifecycleAssumption DEF LifeInv, LifecycleTypeOK, LifecycleAssumption
<1>2. Remembers({})
  BY DEF Exits
<1>3. LifecycleTypeOK'
  <2>1. /\ conns' \in [Proxies -> 0..MaxConns] /\ shutdowns' \in [Proxies -> 0..MaxSignals]
        /\ server' \in [Proxies -> {"none", "binding", "listening", "closing", "closed"}]
        /\ leftovers' \in BOOLEAN
        /\ exit' \in {"no", "clean", "startFailed", "killed", "crashed"}
    BY <1>1 DEF Exits
  <2>2. /\ httpSupport' \in BOOLEAN /\ phase' \in {"starting", "serving"}
        /\ signals' \in 0..MaxSignals
    BY DEF LifeInv, LifecycleTypeOK
  <2> QED BY <1>2, <2>1, <2>2, RemembersList DEF LifecycleTypeOK
<1>4. CallsCounted'
  BY <1>1, LifecycleAssumption DEF Exits, CallsCounted, LifecycleAssumption
<1>5. ListsExact' /\ CountsGrow'
  BY <1>2, RemembersList
<1>6. FileKept'
  BY DEF Exits, FileKept, Alive
<1> QED BY <1>3, <1>4, <1>5, <1>6 DEF LifeInv

\* shutdowns in the form of ProcKeepsInv.
LEMMA CallsTyped == LifeInv => shutdowns \in [Proxies -> 0..signals]
  BY LifecycleAssumption DEF LifeInv, LifecycleTypeOK, CallsCounted, LifecycleAssumption

\* main() and gracefulShutdown keep the invariant;
LEMMA MainKeepsInv ==
    ASSUME LifeInv,
           \/ \E p \in Proxies : Listens(p) \/ ListenFails(p)
           \/ SignalKills \/ Signal \/ SocksCloses \/ HttpCloses \/ ProcessEnds
    PROVE  LifeInv'
<1>t. LifecycleTypeOK /\ LifecycleAssumption /\ shutdowns \in [Proxies -> 0..signals]
  BY LifecycleAssumption, CallsTyped DEF LifeInv
<1>1. ASSUME NEW p \in Proxies, Listens(p) PROVE LifeInv'
  BY <1>t, <1>1, ProcKeepsInv DEF Listens, LifecycleTypeOK, Alive
<1>2. ASSUME NEW p \in Proxies, ListenFails(p) PROVE LifeInv'
  BY <1>t, <1>2, ExitsKeepsInv DEF ListenFails, LifecycleTypeOK, fileVars
<1>3. CASE SignalKills
  BY <1>t, <1>3, ExitsKeepsInv DEF SignalKills, LifecycleTypeOK, fileVars
<1>4. CASE Signal
  <2>1. signals' \in 0..MaxSignals /\ shutdowns' \in [Proxies -> 0..signals']
    BY <1>t, <1>4 DEF Signal, LifecycleTypeOK, LifecycleAssumption, Proxies
  <2>2. server' \in [Proxies -> {"none", "binding", "listening", "closing", "closed"}]
    BY <1>t, <1>4 DEF Signal, LifecycleTypeOK
  <2> QED BY <1>t, <1>4, <2>1, <2>2, ProcKeepsInv DEF Signal, LifecycleTypeOK, Alive
<1>5. CASE SocksCloses
  <2>1. CASE Exits("crashed")
    BY <1>t, <1>5, <2>1, ExitsKeepsInv DEF SocksCloses, LifecycleTypeOK, fileVars
  <2>2. CASE ShutdownContinues /\ UNCHANGED <<exit, leftovers, conns, authVars>>
    <3>1. UNCHANGED <<httpSupport, phase, signals, threw, authVars, fileVars, exit, leftovers, conns>>
      BY <1>5, <2>2 DEF SocksCloses
    <3>2. signals \in Nat /\ shutdowns["socks"] \in 1..signals
      BY <1>t, <1>5 DEF SocksCloses, Proxies, LifecycleTypeOK, LifecycleAssumption
    <3>3. shutdowns' \in [Proxies -> 0..signals']
      <4>1. signals' = signals /\ 0 \in 0..signals /\ 1 \in 0..signals
        BY <3>1, <3>2
      <4> QED BY <1>t, <2>2, <4>1 DEF ShutdownContinues
    <3>4. server' \in [Proxies -> {"none", "binding", "listening", "closing", "closed"}]
      BY <1>t, <2>2 DEF ShutdownContinues, LifecycleTypeOK
    <3> QED BY <1>t, <3>1, <3>3, <3>4, ProcKeepsInv DEF LifecycleTypeOK, Alive
  <2> QED BY <1>5, <2>1, <2>2 DEF SocksCloses
<1>6. CASE HttpCloses
  <2>1. signals' = signals /\ 0 \in 0..signals /\ shutdowns' = [shutdowns EXCEPT !["http"] = 0]
    BY <1>t, <1>6 DEF HttpCloses, LifecycleTypeOK, LifecycleAssumption
  <2>2. shutdowns' \in [Proxies -> 0..signals']
    BY <1>t, <2>1
  <2> QED BY <1>t, <1>6, <2>2, ProcKeepsInv DEF HttpCloses, LifecycleTypeOK, Alive
<1>7. CASE ProcessEnds
  BY <1>t, <1>7, ExitsKeepsInv DEF ProcessEnds, LifecycleTypeOK, fileVars
<1> QED BY <1>1, <1>2, <1>3, <1>4, <1>5, <1>6, <1>7

\* the servers' connections keep it;
LEMMA ServersKeepInv ==
    ASSUME LifeInv,
           \/ \E p \in Proxies : Connects(p) \/ Disconnects(p)
           \/ LeftoversEnd \/ SessionThrows
    PROVE  LifeInv'
<1>t. LifecycleTypeOK /\ LifecycleAssumption /\ shutdowns \in [Proxies -> 0..signals]
  BY LifecycleAssumption, CallsTyped DEF LifeInv
<1>1. ASSUME NEW p \in Proxies, Connects(p) \/ Disconnects(p) PROVE LifeInv'
  <2>1. conns' \in [Proxies -> 0..MaxConns]
    <3>1. MaxConns \in Nat /\ conns \in [Proxies -> 0..MaxConns]
      BY <1>t DEF LifecycleTypeOK, LifecycleAssumption
    <3>2. CASE Connects(p)
      BY <3>1, <3>2 DEF Connects
    <3>3. CASE Disconnects(p)
      BY <3>1, <3>3 DEF Disconnects
    <3> QED BY <1>1, <3>2, <3>3
  <2> QED BY <1>t, <1>1, <2>1, ProcKeepsInv
      DEF Connects, Disconnects, procVars, LifecycleTypeOK, Alive
<1>2. CASE LeftoversEnd
  BY <1>t, <1>2, ProcKeepsInv DEF LeftoversEnd, LifecycleTypeOK, Alive
<1>3. CASE SessionThrows
  BY <1>t, <1>3, ExitsKeepsInv DEF SessionThrows, LifecycleTypeOK, fileVars
<1> QED BY <1>1, <1>2, <1>3

\* a failed authentication puts on the list who failed often enough, and only
\* that one;
LEMMA AuthFailsKeepsInv ==
    ASSUME LifeInv, NEW p \in Proxies, NEW c \in Clients, AuthFails(p, c)
    PROVE  LifeInv'
<1>1. /\ failures' = [failures EXCEPT ![p][c] = failures[p][c] + 1]
      /\ blacklist' = [blacklist EXCEPT ![p] =
                         IF failures'[p][c] >= MaxFailedAttempts THEN @ \cup {c} ELSE @]
      /\ failures[p][c] < MaxCounted
      /\ UNCHANGED <<httpSupport, procVars, server, conns, base, counted, patched, fileVars>>
  BY DEF AuthFails, IncrementAuthFailure
<1>2. LifecycleTypeOK /\ LifecycleAssumption
  BY LifecycleAssumption DEF LifeInv
<1>3. /\ failures[p][c] \in Nat
      /\ failures'[p][c] = failures[p][c] + 1
      /\ \A q \in Proxies, d \in Clients : q # p \/ d # c => failures'[q][d] = failures[q][d]
      /\ failures' \in [Proxies -> [Clients -> 0..MaxCounted]]
  BY <1>1, <1>2 DEF LifecycleTypeOK, LifecycleAssumption
<1>4. /\ blacklist' \in [Proxies -> SUBSET Clients]
      /\ \A q \in Proxies : q # p => blacklist'[q] = blacklist[q]
      /\ blacklist'[p] = IF failures'[p][c] >= MaxFailedAttempts
                         THEN blacklist[p] \cup {c} ELSE blacklist[p]
  BY <1>1, <1>2 DEF LifecycleTypeOK
<1>5. LifecycleTypeOK'
  BY <1>1, <1>2, <1>3, <1>4 DEF LifecycleTypeOK, procVars, fileVars
<1>6. ListsExact'
  <2> SUFFICES ASSUME NEW q \in Proxies
               PROVE  blacklist'[q] = base'[q] \cup
                        {d \in Clients : failures'[q][d] >= MaxFailedAttempts
                                         /\ failures'[q][d] > counted'[q][d]}
    BY DEF ListsExact
  <2>1. blacklist[q] = base[q] \cup {d \in Clients : failures[q][d] >= MaxFailedAttempts
                                                   /\ failures[q][d] > counted[q][d]}
    BY DEF LifeInv, ListsExact
  <2>2. base' = base /\ counted' = counted
    BY <1>1
  <2>3. CASE q # p
    BY <1>3, <1>4, <2>1, <2>2, <2>3
  <2>4. CASE q = p
    <3>1. MaxFailedAttempts \in Nat /\ counted[p][c] \in Nat /\ counted[p][c] <= failures[p][c]
      BY <1>2 DEF LifecycleTypeOK, LifecycleAssumption, LifeInv, CountsGrow
    <3>2. \A d \in Clients : d # c => failures'[p][d] = failures[p][d]
      BY <1>3
    <3>3. failures'[p][c] > counted[p][c]
      BY <1>3, <3>1
    <3>4. blacklist[p] = base[p] \cup {d \in Clients : failures[p][d] >= MaxFailedAttempts
                                                     /\ failures[p][d] > counted[p][d]}
      BY <2>1, <2>4
    <3>5. CASE failures'[p][c] >= MaxFailedAttempts
      BY <1>4, <2>2, <2>4, <3>2, <3>3, <3>4, <3>5
    <3>6. CASE ~(failures'[p][c] >= MaxFailedAttempts)
      <4>1. ~(failures[p][c] >= MaxFailedAttempts)
        BY <1>3, <3>1, <3>6
      <4> QED BY <1>4, <2>2, <2>4, <3>2, <3>4, <3>6, <4>1
    <3> QED BY <3>5, <3>6
  <2> QED BY <2>3, <2>4
<1>7. FileKept'
  BY <1>1, <1>4 DEF LifeInv, FileKept, Proxies, Alive, procVars, fileVars
<1>8. CountsGrow'
  BY <1>1, <1>2, <1>3 DEF LifeInv, CountsGrow, LifecycleTypeOK, LifecycleAssumption
<1> QED BY <1>1, <1>5, <1>6, <1>7, <1>8 DEF LifeInv, CallsCounted, procVars

\* a patch starts the history of its list again;
LEMMA PatchKeepsInv ==
    ASSUME LifeInv, NEW p \in Proxies, NEW list \in SUBSET Clients,
           UpdateClientIpBlackList(p, list)
    PROVE  LifeInv'
<1>1. /\ blacklist' = [blacklist EXCEPT ![p] = list]
      /\ base' = [base EXCEPT ![p] = list]
      /\ counted' = [counted EXCEPT ![p] = failures[p]]
      /\ patched' = patched \cup {p}
      /\ p = "http" => httpSupport
      /\ UNCHANGED <<httpSupport, procVars, server, conns, failures, fileVars>>
  BY DEF UpdateClientIpBlackList, Held
<1>2. LifecycleTypeOK /\ LifecycleAssumption
  BY LifecycleAssumption DEF LifeInv
<1>3. LifecycleTypeOK'
  BY <1>1, <1>2 DEF LifecycleTypeOK, procVars, fileVars
<1>4. ListsExact'
  <2> SUFFICES ASSUME NEW q \in Proxies
               PROVE  blacklist'[q] = base'[q] \cup
                        {d \in Clients : failures'[q][d] >= MaxFailedAttempts
                                         /\ failures'[q][d] > counted'[q][d]}
    BY DEF ListsExact
  <2>1. CASE q # p
    BY <1>1, <1>2, <2>1 DEF LifeInv, ListsExact, LifecycleTypeOK
  <2>2. CASE q = p
    <3>1. blacklist'[q] = list /\ base'[q] = list /\ counted'[q] = failures[q] /\ failures' = failures
      BY <1>1, <1>2, <2>2 DEF LifecycleTypeOK
    <3>2. \A d \in Clients : ~(failures[q][d] > failures[q][d])
      BY <1>2 DEF LifecycleTypeOK, LifecycleAssumption
    <3> QED BY <3>1, <3>2
  <2> QED BY <2>1, <2>2
<1>5. CountsGrow'
  BY <1>1, <1>2 DEF LifeInv, CountsGrow, LifecycleTypeOK, LifecycleAssumption
<1>6. FileKept'
  <2> SUFFICES ASSUME Alive', NEW c \in file'
               PROVE  \E q \in Proxies : (c \in blacklist'[q] \/ q \in patched')
                                         /\ (q = "http" => httpSupport')
    BY DEF FileKept
  <2> QED BY <1>1
<1> QED BY <1>1, <1>3, <1>4, <1>5, <1>6 DEF LifeInv, CallsCounted, procVars

\* and so do writing the file, whole or not, and a new start, which reads it.
LEMMA FileKeepsInv ==
    ASSUME LifeInv, Restart \/ \E p \in Proxies : PersistConfig(p)
    PROVE  LifeInv'
<1>t. LifecycleTypeOK /\ LifecycleAssumption
  BY LifecycleAssumption DEF LifeInv
<1>1. ASSUME NEW p \in Proxies, PersistConfig(p) PROVE LifeInv'
  <2>1. (p = "http" => httpSupport) /\ httpSupport' = httpSupport /\ blacklist[p] \subseteq Clients
    BY <1>t, <1>1 DEF PersistConfig, Held, LifecycleTypeOK
  <2>2. ASSUME UNCHANGED <<procVars, server, conns, authVars>>,
               file' = blacklist[p] \/ file' = {}, intact' \in BOOLEAN
        PROVE  LifeInv'
    <3>1. LifecycleTypeOK'
      BY <1>t, <2>1, <2>2 DEF LifecycleTypeOK, procVars, authVars
    <3>2. FileKept'
      BY <2>1, <2>2 DEF FileKept, authVars
    <3> QED BY <2>2, <3>1, <3>2 DEF LifeInv, ListsExact, CallsCounted, CountsGrow, procVars, authVars
  <2>3. ASSUME Exits("killed"), UNCHANGED <<phase, signals, threw>>, file' = {}, intact' = FALSE
        PROVE  LifeInv'
    BY <1>t, <2>1, <2>3, ExitsKeepsInv DEF LifecycleTypeOK
  <2> QED BY <1>1, <2>2, <2>3 DEF PersistConfig
<1>2. CASE Restart
  <2>1. UNCHANGED <<httpSupport, fileVars>> /\ file \subseteq Clients
    BY <1>t, <1>2 DEF Restart, LifecycleTypeOK
  <2>2. CASE intact /\ Starts(file)
    <3>1. Remembers(file)
      BY <2>2 DEF Starts
    <3>2. 0 \in 0..MaxConns /\ 0 \in 0..MaxSignals
      BY <1>t DEF LifecycleAssumption
    <3>3. /\ conns' \in [Proxies -> 0..MaxConns] /\ shutdowns' \in [Proxies -> 0..MaxSignals]
          /\ server' \in [Proxies -> {"none", "binding", "listening", "closing", "closed"}]
          /\ phase' \in {"starting", "serving"} /\ leftovers' \in BOOLEAN /\ threw' \in BOOLEAN
          /\ exit' \in {"no", "clean", "startFailed", "killed", "crashed"}
          /\ signals' \in 0..MaxSignals
      BY <2>2, <3>2 DEF Starts
    <3>4. LifecycleTypeOK'
      BY <1>t, <2>1, <3>1, <3>3, RemembersList DEF LifecycleTypeOK, fileVars
    <3>5. ListsExact' /\ CountsGrow'
      BY <2>1, <3>1, RemembersList
    <3>6. FileKept' /\ CallsCounted'
      BY <2>1, <2>2 DEF Starts, Remembers, FileKept, CallsCounted, Proxies, fileVars
    <3> QED BY <3>4, <3>5, <3>6 DEF LifeInv
  <2>3. CASE /\ ~intact /\ Exits("startFailed")
              /\ phase' = "starting" /\ signals' = 0 /\ threw' = FALSE
    <3>1. Remembers({})
      BY <2>3 DEF Exits
    <3>2. 0 \in 0..MaxConns /\ 0 \in 0..MaxSignals
      BY <1>t DEF LifecycleAssumption
    <3>3. /\ conns' \in [Proxies -> 0..MaxConns] /\ shutdowns' \in [Proxies -> 0..MaxSignals]
          /\ server' \in [Proxies -> {"none", "binding", "listening", "closing", "closed"}]
          /\ phase' \in {"starting", "serving"} /\ leftovers' \in BOOLEAN /\ threw' \in BOOLEAN
          /\ exit' \in {"no", "clean", "startFailed", "killed", "crashed"}
          /\ signals' \in 0..MaxSignals
      BY <2>3, <3>2 DEF Exits
    <3>4. LifecycleTypeOK'
      BY <1>t, <2>1, <3>1, <3>3, RemembersList DEF LifecycleTypeOK, fileVars
    <3>5. ListsExact' /\ CountsGrow'
      BY <3>1, RemembersList
    <3>6. FileKept' /\ CallsCounted'
      BY <2>3 DEF Exits, FileKept, CallsCounted, Alive
    <3> QED BY <3>4, <3>5, <3>6 DEF LifeInv
  <2> QED BY <1>2, <2>2, <2>3 DEF Restart, LoadConfig
<1> QED BY <1>1, <1>2

\* So every step keeps it.
LEMMA NextLifeInv == LifeInv /\ [LifecycleNext]_lifeVars => LifeInv'
<1> SUFFICES ASSUME LifeInv, [LifecycleNext]_lifeVars PROVE LifeInv'
  OBVIOUS
<1>1. CASE UNCHANGED lifeVars
  BY <1>1 DEF lifeVars, procVars, authVars, fileVars, LifeInv, LifecycleTypeOK, ListsExact,
              FileKept, CallsCounted, CountsGrow, Alive
<1> QED
  BY <1>1, MainKeepsInv, ServersKeepInv, AuthFailsKeepsInv, PatchKeepsInv, FileKeepsInv
  DEF LifecycleNext

-----------------------------------------------------------------------------
(* The theorems *)

\* The invariant of the process and its restarts.
THEOREM LifecycleInvariant == LifecycleSpec => []LifeInv
  BY InitLifeInv, NextLifeInv, PTL DEF LifecycleSpec

\* Every variable keeps its type.
THEOREM LifecycleTypeCorrect == LifecycleSpec => []LifecycleTypeOK
<1>1. LifeInv => LifecycleTypeOK
  BY DEF LifeInv
<1> QED BY <1>1, LifecycleInvariant, PTL

\* The list a proxy works with is the one it was last given and the clients
\* that have failed since and too often, whatever is patched in.
THEOREM ListsAreExact == LifecycleSpec => []ListsExact
<1>1. LifeInv => ListsExact
  BY DEF LifeInv
<1> QED BY <1>1, LifecycleInvariant, PTL

\* A whole write drops a client from the file only after a patch or over the
\* other proxy's entry.
THEOREM FileForgetsOnlyThen == LifecycleSpec => FileForgetsOnlySo
<1> DEFINE Reason(c) ==
             \E p \in Proxies :
                /\ file' = blacklist[p]
                /\ p \in patched
                   \/ (httpSupport /\ \E q \in Proxies \ {p} : c \in blacklist[q] \/ q \in patched)
           Step == \A c \in file \ file' : intact' => Reason(c)
<1>1. LifeInv /\ [LifecycleNext]_lifeVars => [Step]_lifeVars
  <2> SUFFICES ASSUME LifeInv, LifecycleNext, NEW c \in file \ file', intact'
               PROVE  Reason(c)
    BY DEF lifeVars
  <2>1. PICK p \in Proxies : PersistConfig(p)
    <3>1. file' # file
      OBVIOUS
    <3> QED
      BY <3>1 DEF LifecycleNext, Listens, ListenFails, Connects, Disconnects, AuthFails, SignalKills,
                  Signal, SocksCloses, HttpCloses, ProcessEnds, LeftoversEnd, SessionThrows, Restart,
                  UpdateClientIpBlackList, fileVars
  <2>2. file' = blacklist[p] /\ (p = "http" => httpSupport) /\ Alive
    BY <2>1 DEF PersistConfig, Held
  <2>3. PICK q \in Proxies : (c \in blacklist[q] \/ q \in patched) /\ (q = "http" => httpSupport)
    BY <2>2 DEF LifeInv, FileKept
  <2>4. CASE q = p
    BY <2>2, <2>3, <2>4
  <2>5. CASE q # p
    <3>1. httpSupport
      BY <2>2, <2>3, <2>5 DEF Proxies
    <3> QED BY <2>2, <2>3, <2>5, <3>1
  <2> QED BY <2>4, <2>5
<1> QED BY <1>1, LifecycleInvariant, PTL DEF LifecycleSpec, FileForgetsOnlySo
=============================================================================
