----------------------------- MODULE HttpTunnel -----------------------------
(***************************************************************************)
(* What becomes of a CONNECT request the HTTP proxy accepted: class        *)
(* HttpsSession, one client socket and the server socket it opened. There  *)
(* are two ways of joining them, the tunnel (pipe in both directions, set  *)
(* up when the server is connected) and the upgrade to a WebSocket         *)
(* ('data' and 'end' listeners, attached at once).                         *)
(*                                                                         *)
(* One action is one turn of the event loop. The chunks of each direction  *)
(* are numbered in the order their sender sent them; the client's first    *)
(* may have come with the CONNECT itself, as the argument head.            *)
(***************************************************************************)
EXTENDS Naturals, Sequences

CONSTANTS
    MaxChunks,       \* bound: chunks each end sends
    Established,     \* "HTTP/1.1 200 ..." or "HTTP/1.1 101 ..."
    ServerError      \* "HTTP/1.1 500 ..."

Chunks == 1..MaxChunks

ASSUME TunnelAssumption ==
    /\ MaxChunks \in Nat \ {0}
    /\ Established # ServerError
    /\ {Established, ServerError} \cap Chunks = {}

VARIABLES
    kind,            \* which of the two processRequest chose
    head,            \* chunks of the client that came with the CONNECT
    clientSock,      \* this.socket
    clientFlow,      \* is it read? "waiting" before the pipe, "paused" after unpipe
    clientSent,      \* chunks the client sent
    clientFin,       \* the client has sent its FIN
    clientRead,      \* chunks that became 'data' events, those in head included
    clientEnd,       \* the 'end' event of the client socket has happened
    clientLeft,      \* history: why the client socket was destroyed
    destSock,        \* serverSocket
    destFlow,
    destSent, destFin, destRead,
    toDest,          \* what was written to the server socket
    toClient         \* what was written to the client socket

clientVars == <<clientSock, clientFlow, clientSent, clientFin, clientRead, clientEnd, clientLeft>>
destVars   == <<destSock, destFlow, destSent, destFin, destRead>>
tunnelVars == <<kind, head, clientVars, destVars, toDest, toClient>>

\* Of either socket "ended" means that we have sent our FIN and the other
\* direction is open; "finishing" that the server's FIN made Node end our
\* side and the 'finish' event is to come.
ClientStates == {"open", "ended", "destroyed"}
DestStates   == {"connecting", "open", "ended", "finishing", "destroyed"}

TunnelTypeOK ==
    /\ kind \in {"tunnel", "upgrade"} /\ head \in 0..1
    /\ clientSock \in ClientStates
    /\ clientFlow \in {"waiting", "flowing", "paused"}
    /\ clientSent \in 0..MaxChunks /\ clientRead \in 0..clientSent
    /\ clientFin \in BOOLEAN /\ clientEnd \in BOOLEAN
    /\ clientLeft \in {"no", "end", "reset", "shutdown", "error"}
    /\ destSock \in DestStates
    /\ destFlow \in {"flowing", "paused"}
    /\ destSent \in 0..MaxChunks /\ destRead \in 0..destSent /\ destFin \in BOOLEAN
    /\ toDest \in Seq(Chunks)
    /\ toClient \in Seq(Chunks \cup {Established, ServerError})

\* The turn after net.connect. The listeners of the upgrade are attached, so its
\* client socket is being read; the tunnel's socket was left by the HTTP
\* parser with readableFlowing null.
TunnelInit ==
    /\ kind \in {"tunnel", "upgrade"}
    /\ head \in 0..1
    /\ clientSock = "open"
    /\ clientFlow = IF kind = "upgrade" THEN "flowing" ELSE "waiting"
    /\ clientSent = head /\ clientRead = head
    /\ clientFin = FALSE /\ clientEnd = FALSE
    /\ clientLeft = "no"
    /\ destSock = "connecting"
    /\ destFlow = "flowing"
    /\ destSent = 0 /\ destRead = 0 /\ destFin = FALSE
    /\ toDest = <<>>
    /\ toClient = <<>>

Piped == kind = "tunnel" /\ destSock # "connecting"

-----------------------------------------------------------------------------
(* Helpers *)

\* A write to a client socket that is not open any more changes nothing the
\* client reads.
WriteToClient(x) ==
    toClient' = IF clientSock = "open" THEN Append(toClient, x) ELSE toClient

DestroyClient(why) ==
    /\ clientSock' = "destroyed"
    /\ clientLeft' = IF clientSock = "destroyed" THEN clientLeft ELSE why

\* this.socket.end(): with the client's end behind it the socket is done.
EndClient ==
    CASE clientSock = "open" /\ clientEnd  -> DestroyClient("end")
      [] clientSock = "open" /\ ~clientEnd -> clientSock' = "ended" /\ UNCHANGED clientLeft
      [] OTHER                             -> UNCHANGED <<clientSock, clientLeft>>

\* Faulty variant of DestFails: nobody tells the client.
DestFailsSilently ==
    /\ destSock' = "destroyed"
    /\ UNCHANGED <<clientSock, clientLeft, toClient>>

\* The 'error' listeners of the server socket: the tunnel's answers 500 and
\* destroys the client socket, the upgrade's writes a line to the log.
DestFails ==
    /\ destSock' = "destroyed"
    /\ \/ /\ kind = "tunnel"
          /\ WriteToClient(ServerError)
          /\ DestroyClient("error")
       \/ /\ kind = "upgrade"
          /\ UNCHANGED <<clientSock, clientLeft, toClient>>

-----------------------------------------------------------------------------
(* The server socket *)

\* this.head as chunks.
HeadChunks == [i \in 1..head |-> i]

\* Faulty variant of TunnelConnects: the end of a client that is gone already
\* is not passed on.
TunnelConnectsUnended ==
    /\ kind = "tunnel"
    /\ WriteToClient(Established)
    /\ toDest' = HeadChunks
    /\ clientFlow' = "flowing"
    /\ destSock' = "open"

\* Faulty variant of TunnelConnects: head is forgotten.
TunnelConnectsHeadless ==
    /\ kind = "tunnel"
    /\ WriteToClient(Established)
    /\ toDest' = <<>>
    /\ clientFlow' = "flowing"
    /\ destSock' = IF clientEnd THEN "ended" ELSE "open"

\* The callback of net.connect: answer, head, pipe. pipe() passes on an 'end'
\* event that has happened before.
TunnelConnects ==
    /\ kind = "tunnel"
    /\ WriteToClient(Established)
    /\ toDest' = HeadChunks
    /\ clientFlow' = "flowing"
    /\ destSock' = IF clientEnd THEN "ended" ELSE "open"

\* The callback of net.createConnection: what the client sent meanwhile was
\* queued before head. After serverSocket.end() writing head is an error.
UpgradeConnects ==
    /\ kind = "upgrade"
    /\ WriteToClient(Established)
    /\ toDest' = IF clientEnd THEN toDest ELSE toDest \o HeadChunks
    /\ destSock' = IF clientEnd THEN "destroyed" ELSE "open"
    /\ UNCHANGED clientFlow

DestConnects ==
    /\ destSock = "connecting"
    /\ TunnelConnects \/ UpgradeConnects
    /\ UNCHANGED <<kind, head, clientSock, clientSent, clientFin, clientRead, clientEnd,
                   clientLeft, destFlow, destSent, destFin, destRead>>

\* Refused, timed out, or reset later.
DestErrors ==
    /\ destSock # "destroyed"
    /\ DestFails
    /\ UNCHANGED <<kind, head, clientFlow, clientSent, clientFin, clientRead, clientEnd,
                   destFlow, destSent, destFin, destRead, toDest>>

DestSends ==
    /\ destSock \in {"open", "ended"}
    /\ ~destFin
    /\ \/ destSent < MaxChunks /\ destSent' = destSent + 1 /\ UNCHANGED destFin
       \/ destFin' = TRUE /\ UNCHANGED destSent
    /\ UNCHANGED <<kind, head, clientVars, destSock, destFlow, destRead, toDest, toClient>>

\* Faulty variant of DestData: a 'data' listener beside the pipe.
DestDataTwice ==
    /\ destSock \in {"open", "ended"} /\ destFlow = "flowing"
    /\ destRead < destSent
    /\ destRead' = destRead + 1
    /\ toClient' = IF clientSock = "open" THEN toClient \o <<destRead', destRead'>> ELSE toClient
    /\ destFlow' = IF Piped /\ clientSock = "destroyed" THEN "paused" ELSE "flowing"
    /\ UNCHANGED <<kind, head, clientVars, destSock, destSent, destFin, toDest>>

\* pipe() pauses when the write was refused, and waits for a 'drain' that a
\* destroyed socket never emits.
DestData ==
    /\ destSock \in {"open", "ended"} /\ destFlow = "flowing"
    /\ destRead < destSent
    /\ destRead' = destRead + 1
    /\ WriteToClient(destRead')
    /\ destFlow' = IF Piped /\ clientSock = "destroyed" THEN "paused" ELSE "flowing"
    /\ UNCHANGED <<kind, head, clientVars, destSock, destSent, destFin, toDest>>

\* The server's FIN, after its last chunk: end() of the client socket by the
\* pipe or by the listener, and of our own side by Node.
DestEnds ==
    /\ destSock \in {"open", "ended"}
    /\ destFin
    /\ destRead = destSent
    /\ EndClient
    /\ destSock' = IF destSock = "ended" THEN "destroyed" ELSE "finishing"
    /\ UNCHANGED <<kind, head, clientFlow, clientSent, clientFin, clientRead, clientEnd,
                   destFlow, destSent, destFin, destRead, toDest, toClient>>

\* The 'finish' event of the server socket makes pipe() unpipe the client
\* socket, which pauses it.
DestFinishes ==
    /\ destSock = "finishing"
    /\ destSock' = "destroyed"
    /\ clientFlow' = IF kind = "tunnel" THEN "paused" ELSE clientFlow
    /\ UNCHANGED <<kind, head, clientSock, clientSent, clientFin, clientRead, clientEnd,
                   clientLeft, destFlow, destSent, destFin, destRead, toDest, toClient>>

-----------------------------------------------------------------------------
(* The client socket *)

ClientSends ==
    /\ clientSock # "destroyed"
    /\ ~clientFin
    /\ \/ clientSent < MaxChunks /\ clientSent' = clientSent + 1 /\ UNCHANGED clientFin
       \/ clientFin' = TRUE /\ UNCHANGED clientSent
    /\ UNCHANGED <<kind, head, clientSock, clientFlow, clientRead, clientEnd, clientLeft,
                   destVars, toDest, toClient>>

\* A chunk goes to the server socket; while it is being connected it is
\* queued there. Node has ended a "finishing" socket, writing to it is an error.
ClientData ==
    /\ clientSock # "destroyed" /\ clientFlow = "flowing"
    /\ clientRead < clientSent
    /\ clientRead' = clientRead + 1
    /\ \/ /\ destSock \in {"connecting", "open"}
          /\ toDest' = Append(toDest, clientRead')
          /\ UNCHANGED <<clientSock, clientLeft, destSock, toClient>>
       \/ /\ destSock = "finishing"
          /\ DestFails
          /\ UNCHANGED toDest
       \/ /\ destSock = "destroyed"
          /\ UNCHANGED <<clientSock, clientLeft, destSock, toDest, toClient>>
    /\ UNCHANGED <<kind, head, clientFlow, clientSent, clientFin, clientEnd,
                   destFlow, destSent, destFin, destRead>>

\* Faulty variant of ClientEnds: the client socket is destroyed and its end not
\* passed on.
ClientEndsDestroyed ==
    /\ clientSock # "destroyed" /\ clientFin /\ ~clientEnd
    /\ clientRead = clientSent
    /\ clientEnd' = TRUE
    /\ DestroyClient("end")
    /\ UNCHANGED <<kind, head, clientFlow, clientSent, clientFin, clientRead, destVars,
                   toDest, toClient>>

\* The 'end' event, which comes when everything was read, also while the
\* socket is paused: serverSocket.end(). While it is being connected the
\* tunnel passes the end on later and the upgrade has Node queue it.
ClientEnds ==
    /\ clientSock # "destroyed" /\ clientFin /\ ~clientEnd
    /\ clientRead = clientSent
    /\ clientEnd' = TRUE
    /\ IF clientSock = "ended" THEN DestroyClient("end") ELSE UNCHANGED <<clientSock, clientLeft>>
    /\ destSock' = IF destSock = "open" THEN "ended" ELSE destSock
    /\ UNCHANGED <<kind, head, clientFlow, clientSent, clientFin, clientRead,
                   destFlow, destSent, destFin, destRead, toDest, toClient>>

\* A reset, or HttpProxy.close(): 'close' and no 'end', which unpipes the
\* server socket and so pauses it.
ClientGoes(why) ==
    /\ clientSock # "destroyed"
    /\ DestroyClient(why)
    /\ destFlow' = IF Piped THEN "paused" ELSE destFlow
    /\ UNCHANGED <<kind, head, clientFlow, clientSent, clientFin, clientRead, clientEnd,
                   destSock, destSent, destFin, destRead, toDest, toClient>>

-----------------------------------------------------------------------------
TunnelNext ==
    \/ DestConnects \/ DestErrors \/ DestSends \/ DestData \/ DestEnds \/ DestFinishes
    \/ ClientSends \/ ClientData \/ ClientEnds
    \/ \E why \in {"reset", "shutdown"} : ClientGoes(why)

TunnelSpec == TunnelInit /\ [][TunnelNext]_tunnelVars

\* A connection attempt succeeds or fails, at the latest with the system's
\* timeout, and Node reports what has arrived. Nobody has to send or to end.
TunnelFairness ==
    /\ WF_tunnelVars(DestConnects \/ (destSock = "connecting" /\ DestErrors))
    /\ WF_tunnelVars(DestData)
    /\ WF_tunnelVars(DestEnds)
    /\ WF_tunnelVars(DestFinishes)
    /\ WF_tunnelVars(ClientData)
    /\ WF_tunnelVars(ClientEnds)

-----------------------------------------------------------------------------
(* Correctness *)

\* The client reads one answer and then the server's stream without a gap,
\* whichever side ends or fails first. After a tunnel that failed it reads
\* 500, behind everything else (lines 127-138).
TunnelStreamFaithful ==
    LET n == Len(toClient)
        k == IF n > 0 /\ toClient[n] = ServerError THEN n - 1 ELSE n
    IN  /\ \A i \in 1..k : toClient[i] = IF i = 1 THEN Established ELSE i - 1
        /\ k < n => kind = "tunnel" /\ clientSock = "destroyed"

\* The server gets every chunk of the client that was read, head included, once
\* and in order; but the head of an upgrade comes behind what the client sent
\* while the server was being connected (lines 107 and 110). An end is never
\* passed on before the data in front of it, in either direction, even if it
\* came before the server was connected.
TunnelInOrder ==
    /\ \A i, j \in 1..Len(toDest) :
         i < j => toDest[i] < toDest[j] \/ (kind = "upgrade" /\ head = 1 /\ toDest[j] = 1)
    /\ destSock = "open" => {toDest[i] : i \in 1..Len(toDest)} = 1..clientRead
    /\ destSock = "ended" => Len(toDest) = clientSent
    /\ clientSock = "ended" => Len(toClient) = destSent + 1

\* A server connection that outlives its client is the unpiped one of a client
\* that was reset or whom HttpProxy.close() cut off: there is no listener for
\* 'close' of the client socket. In every other order of the two ends and the
\* two errors both sockets are done with.
TunnelOrphansExplained ==
    clientSock = "destroyed" /\ destSock = "open" => clientLeft \in {"reset", "shutdown"}

\* The end of either side gets to the other, whenever it comes: before the
\* connection is there, between two chunks, or after the other side's end.
EndsPassedOn ==
    /\ clientFin ~> destSock \in {"ended", "finishing", "destroyed"} \/ clientSock = "destroyed"
    /\ destFin ~> clientSock \in {"ended", "destroyed"} \/ destSock = "destroyed"

\* Nobody listens to a socket that pipe() has let go of, so what it has not
\* read stays there, and its 'end' event behind it.
Abandoned == kind = "tunnel" /\ clientFlow = "paused" /\ clientRead < clientSent

\* When both other parties are done, the client socket is destroyed and its
\* entry in activeConnections with it, but for two cases: Abandoned, and an
\* upgrade whose server failed, which is only logged (line 117).
SlotFreed ==
    clientFin /\ destSock = "destroyed" ~>
        \/ clientSock = "destroyed"
        \/ Abandoned
        \/ kind = "upgrade" /\ clientSock = "open"

-----------------------------------------------------------------------------
(* The inductive invariant of the proofs *)

\* What the client socket has been given, and when it is done.
TunnelClientPosition ==
    /\ destSock = "connecting" => toClient = <<>> /\ destSent = 0
    /\ clientSock = "open" /\ destSock \in {"open", "ended", "finishing"} =>
         Len(toClient) = destRead + 1
    /\ clientSock = "ended" => /\ Len(toClient) = destSent + 1
                               /\ destSock \in {"finishing", "destroyed"}
    /\ clientSock # "destroyed" => \A i \in 1..Len(toClient) : toClient[i] # ServerError
    /\ clientSock = "destroyed" /\ destSock \in {"connecting", "open"} =>
         clientLeft \in {"reset", "shutdown"}

\* What the server socket has been given, and when it is ended.
TunnelDestPosition ==
    /\ head <= clientRead
    /\ clientEnd => clientFin /\ clientRead = clientSent
    /\ destSock = "ended" => clientEnd
    /\ \A i \in 1..Len(toDest) : toDest[i] <= clientRead
    /\ destSock = "connecting" =>
         /\ Len(toDest) = clientRead - head
         /\ \A i \in 1..Len(toDest) : toDest[i] = head + i
         /\ kind = "tunnel" => clientFlow = "waiting" /\ clientRead = head
    /\ destSock \in {"open", "ended"} => Len(toDest) = clientRead

TunnelInv ==
    /\ TunnelTypeOK
    /\ TunnelClientPosition /\ TunnelDestPosition
    /\ TunnelStreamFaithful /\ TunnelInOrder
=============================================================================
