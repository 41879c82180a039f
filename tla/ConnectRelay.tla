---------------------------- MODULE ConnectRelay ----------------------------
(***************************************************************************)
(* The CONNECT command, class ConnectCommandHandler: one client socket,    *)
(* the destination socket the handler opened for it, and the relay between *)
(* the two. It starts where SocksSession's HandleTcpCommand leaves off,    *)
(* after net.createConnection, and details what SocksSession outlines as   *)
(* HandlerSucceeds and HandlerFails.                                       *)
(*                                                                         *)
(* As in SocksSession one action is one turn of the event loop. The chunks *)
(* of each direction are numbered in the order their sender sent them.     *)
(***************************************************************************)
EXTENDS Naturals, Sequences

CONSTANTS
    MaxChunks,       \* bound: chunks each end sends
    Success,         \* the reply with code 0x00
    Failure          \* the reply with code 0x01

Chunks == 1..MaxChunks

ASSUME ConnectAssumption ==
    /\ MaxChunks \in Nat
    /\ Success # Failure
    /\ {Success, Failure} \cap Chunks = {}

VARIABLES
    clientSock,      \* this.clientSocket
    destSock,        \* this.destinationSocket
    relaying,        \* setupDataRelay ran: its listeners are attached
    clientSent,      \* chunks the client sent
    clientRead,      \* chunks that became 'data' events of the client socket
    early,           \* the client sent something before it had the reply
    destSent,        \* chunks the destination sent
    destRead,        \* chunks that became 'data' events of the destination socket
    toDest,          \* what was written to the destination socket
    toClient,        \* what was written to the client socket, replies included
    clientLeft       \* when the client socket was destroyed, and by whom

sockVars    == <<clientSock, destSock, relaying, clientLeft>>
clientIn    == <<clientSent, clientRead, early>>
destIn      == <<destSent, destRead>>
connectVars == <<sockVars, clientIn, destIn, toDest, toClient>>

\* "ended" is, for the client, after the server's end() (a session that was
\* already turned down can still get here); for the destination, after its FIN
\* and before Node destroys the socket.
ClientStates == {"open", "ended", "destroyed"}
DestStates   == {"connecting", "open", "ended", "destroyed"}

ConnectTypeOK ==
    /\ clientSock \in ClientStates
    /\ destSock \in DestStates
    /\ relaying \in BOOLEAN
    /\ clientSent \in 0..MaxChunks /\ clientRead \in 0..clientSent /\ early \in BOOLEAN
    /\ destSent \in 0..MaxChunks /\ destRead \in 0..destSent
    /\ toDest \in Seq(Chunks)
    /\ toClient \in Seq(Chunks \cup {Success, Failure})
    /\ clientLeft \in {"no", "connecting", "relaying", "shutdown"}

ConnectInit ==
    /\ clientSock \in {"open", "ended"}
    /\ destSock = "connecting"
    /\ relaying = FALSE
    /\ clientSent = 0 /\ clientRead = 0 /\ early = FALSE
    /\ destSent = 0 /\ destRead = 0
    /\ toDest = <<>>
    /\ toClient = <<>>
    /\ clientLeft = "no"

-----------------------------------------------------------------------------
(* Helpers *)

Phase == IF relaying THEN "relaying" ELSE "connecting"

\* The client socket is destroyed, if it was not, for a reason of its own.
LoseClient ==
    /\ clientSock' = "destroyed"
    /\ clientLeft' = IF clientSock = "destroyed" THEN clientLeft ELSE Phase

\* cleanup(): destroy the destination and the client socket. (super.cleanup
\* finds the client socket destroyed.)
Cleanup == destSock' = "destroyed" /\ LoseClient

\* Faulty variants of FailureReply: without cleanup; without the reply.
FailureReplyOnly ==
    /\ toClient' = IF clientSock = "open" THEN Append(toClient, Failure) ELSE toClient
    /\ UNCHANGED <<clientSock, destSock, clientLeft>>
FailureReplySilent ==
    /\ destSock' = "destroyed"
    /\ UNCHANGED <<clientSock, clientLeft, toClient>>

\* sendReply(failure) and cleanup(): the destination's 'error' listener. A
\* write to a socket that is not open any more is dropped.
FailureReply ==
    /\ toClient' = IF clientSock = "open" THEN Append(toClient, Failure) ELSE toClient
    /\ Cleanup

-----------------------------------------------------------------------------
(* The destination *)

\* The 'connect' callback: sendReply, then setupDataRelay. On an ended client
\* socket the write is an error; its 'error' event comes after setupDataRelay
\* has attached the listener that cleans up. On a destroyed one the write is
\* ignored and the listeners are attached to a socket that emits nothing more.
DestConnects ==
    /\ destSock = "connecting"
    /\ relaying' = TRUE
    /\ \/ /\ clientSock = "open"
          /\ toClient' = Append(toClient, Success)
          /\ destSock' = "open"
          /\ UNCHANGED <<clientSock, clientLeft>>
       \/ /\ clientSock = "ended"
          /\ Cleanup
          /\ UNCHANGED toClient
       \/ /\ clientSock = "destroyed"
          /\ destSock' = "open"
          /\ UNCHANGED <<clientSock, clientLeft, toClient>>
    /\ UNCHANGED <<clientIn, destIn, toDest>>

\* The connection is refused or times out, or is reset later.
DestErrors ==
    /\ destSock \in {"connecting", "open", "ended"}
    /\ FailureReply
    /\ UNCHANGED <<relaying, clientIn, destIn, toDest>>

DestSends ==
    /\ destSock = "open"
    /\ destSent < MaxChunks
    /\ destSent' = destSent + 1
    /\ UNCHANGED <<sockVars, clientIn, destRead, toDest, toClient>>

\* Relay from destination back to client.
DestData ==
    /\ destSock = "open"
    /\ destRead < destSent
    /\ destRead' = destRead + 1
    /\ \/ /\ clientSock = "open"
          /\ toClient' = Append(toClient, destRead')
          /\ UNCHANGED sockVars
       \/ /\ clientSock = "destroyed"
          /\ UNCHANGED <<sockVars, toClient>>
    /\ UNCHANGED <<clientIn, destSent, toDest>>

\* The destination's FIN, after its last chunk. No listener of the handler
\* hears of it; Node ends our side and later destroys the socket.
DestEnds ==
    /\ destSock = "open"
    /\ destRead = destSent
    /\ destSock' = "ended"
    /\ UNCHANGED <<clientSock, relaying, clientLeft, clientIn, destIn, toDest, toClient>>

DestFinishes ==
    /\ destSock = "ended"
    /\ destSock' = "destroyed"
    /\ UNCHANGED <<clientSock, relaying, clientLeft, clientIn, destIn, toDest, toClient>>

-----------------------------------------------------------------------------
(* The client *)

ClientSends ==
    /\ clientSock # "destroyed"
    /\ clientSent < MaxChunks
    /\ clientSent' = clientSent + 1
    /\ early' = IF toClient = <<>> THEN TRUE ELSE early
    /\ UNCHANGED <<sockVars, clientRead, destIn, toDest, toClient>>

\* Faulty variant of ClientData: the relay listens twice.
ClientDataTwice ==
    /\ clientSock # "destroyed"
    /\ clientRead < clientSent
    /\ clientRead' = clientRead + 1
    /\ toDest' = IF relaying /\ destSock = "open"
                 THEN Append(Append(toDest, clientRead'), clientRead') ELSE toDest
    /\ UNCHANGED <<sockVars, clientSent, early, destIn, toClient>>

\* A 'data' event of the client socket. Before setupDataRelay only
\* handleData hears it, which ignores it. Writing to a destination that has
\* sent its FIN is an error of the destination socket.
ClientData ==
    /\ clientSock # "destroyed"
    /\ clientRead < clientSent
    /\ clientRead' = clientRead + 1
    /\ \/ /\ relaying /\ destSock = "open"
          /\ toDest' = Append(toDest, clientRead')
          /\ UNCHANGED <<sockVars, toClient>>
       \/ /\ relaying /\ destSock = "ended"
          /\ FailureReply
          /\ UNCHANGED <<relaying, toDest>>
       \/ /\ ~relaying \/ destSock = "destroyed"
          /\ UNCHANGED <<sockVars, toDest, toClient>>
    /\ UNCHANGED <<clientSent, early, destIn>>

\* Faulty variant of ClientGoes: no listener for 'end'.
ClientGoesUnheard ==
    /\ clientSock # "destroyed"
    /\ LoseClient
    /\ UNCHANGED <<destSock, relaying, clientIn, destIn, toDest, toClient>>

\* The client's FIN, after its last chunk, or a reset at any time: cleanup,
\* if the listeners for 'end' and 'error' are attached.
ClientGoes ==
    /\ clientSock # "destroyed"
    /\ LoseClient
    /\ destSock' = IF relaying THEN "destroyed" ELSE destSock
    /\ UNCHANGED <<relaying, clientIn, destIn, toDest, toClient>>

\* SocksServer.close() destroys the client socket, which emits neither 'end'
\* nor 'error'.
ServerCloses ==
    /\ clientSock # "destroyed"
    /\ clientSock' = "destroyed"
    /\ clientLeft' = "shutdown"
    /\ UNCHANGED <<destSock, relaying, clientIn, destIn, toDest, toClient>>

-----------------------------------------------------------------------------
ConnectNext ==
    \/ DestConnects \/ DestErrors \/ DestSends \/ DestData \/ DestEnds \/ DestFinishes
    \/ ClientSends \/ ClientData \/ ClientGoes \/ ServerCloses

ConnectSpec == ConnectInit /\ [][ConnectNext]_connectVars

\* A connection attempt succeeds or fails (at the latest with a timeout), and
\* Node reports what has arrived.
ConnectFairness ==
    /\ WF_connectVars(DestConnects \/ (destSock = "connecting" /\ DestErrors))
    /\ WF_connectVars(DestData)
    /\ WF_connectVars(DestFinishes)
    /\ WF_connectVars(ClientData)

FairConnectSpec == ConnectSpec /\ ConnectFairness

-----------------------------------------------------------------------------
(* Correctness *)

\* What the client reads is an answer and then the destination's stream: the
\* chunks in order and without a gap, after exactly one success reply. A
\* failure reply is the last thing on the connection, whatever came before
\* (the 'connect', 'data' and 'error' listeners of the destination socket).
StreamFaithful ==
    LET n == Len(toClient)
        k == IF n > 0 /\ toClient[n] = Failure THEN n - 1 ELSE n
    IN  \A i \in 1..k : toClient[i] = IF i = 1 THEN Success ELSE i - 1

\* What reaches the destination is one gapless piece of the client's stream,
\* and starts at its beginning if the client waited for the reply. (What it
\* sends before that is dropped: no listener relays it.)
RelayInOrder ==
    \A i \in 1..Len(toDest) :
        /\ toDest[i] = toDest[1] + (i - 1)
        /\ ~early => toDest[i] = i

\* A connection to a destination that outlives its client is one the client
\* left before it was established, or one that was there when the server was
\* closed: in every other order of events cleanup runs for both sockets.
OrphansExplained ==
    clientSock = "destroyed" /\ destSock = "open" => clientLeft \in {"connecting", "shutdown"}

\* A client that waits for the answer to its CONNECT gets one.
ConnectAnswered ==
    destSock = "connecting" /\ clientSock = "open" ~>
        toClient # <<>> \/ clientSock = "destroyed"

-----------------------------------------------------------------------------
(* The inductive invariant of the proofs *)

\* Before the connection is there nothing has been said or relayed; from then
\* on the listeners are attached, and a half-closed client is gone.
BeforeRelay ==
    /\ destSock = "connecting" =>
         /\ ~relaying
         /\ toClient = <<>>
         /\ destSent = 0
         /\ ~early => clientSent = 0
         /\ clientSock = "destroyed" => clientLeft \in {"connecting", "shutdown"}
    /\ ~relaying => destSock \in {"connecting", "destroyed"} /\ toDest = <<>>
    /\ relaying => clientSock # "ended"

\* Where the two streams stand while both sockets are open.
DuringRelay ==
    /\ clientSock = "open" => \A i \in 1..Len(toClient) : toClient[i] # Failure
    /\ clientSock = "open" /\ destSock = "open" => Len(toClient) = destRead + 1
    /\ destSock = "open" =>
         /\ toDest # <<>> => toDest[Len(toDest)] = clientRead
         /\ ~early => Len(toDest) = clientRead

ConnectInv ==
    /\ ConnectTypeOK
    /\ BeforeRelay
    /\ DuringRelay
    /\ StreamFaithful
    /\ RelayInOrder
    /\ OrphansExplained

-----------------------------------------------------------------------------
(* The outline in SocksSession *)

\* The last reply that reached the client: the one of its authentication, until
\* there is one of the command. A chunk written first is no reply: it is nothing
\* that the outline has a step for.
Answered ==
    IF toClient = <<>> THEN "authOk"
    ELSE IF toClient[1] \in {Success, Failure} THEN "commandReply" ELSE "data"

Outline == INSTANCE HandlerOutline WITH Kind <- "connect", lastReply <- Answered

\* What the relay does to the client socket and says on it is what SocksSession
\* knows of a CONNECT handler: it answers an open client only, relays nothing
\* before the answer, and never leaves the socket half-closed.
ImplementsOutline == Outline!HandlerSpec
=============================================================================
