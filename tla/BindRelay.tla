----------------------------- MODULE BindRelay -----------------------------
(***************************************************************************)
(* The BIND command, class BindCommandHandler: the client socket, the      *)
(* server that listens for the client's peer, the remote socket it accepts *)
(* and the relay between the two. It details what SocksSession outlines as *)
(* HandlerSucceeds, HandlerFails and HandlerEnds for a BIND handler.       *)
(*                                                                         *)
(* One action is one turn of the event loop; the chunks of each direction  *)
(* are numbered in the order their sender sent them.                       *)
(***************************************************************************)
EXTENDS Naturals, Sequences

CONSTANTS
    MaxChunks,       \* bound: chunks each end sends
    MaxExtra,        \* bound: connections after the first
    Success,         \* the reply with code 0x00
    Failure          \* the reply with code 0x01

Chunks == 1..MaxChunks

ASSUME BindAssumption ==
    /\ MaxChunks \in Nat /\ MaxExtra \in Nat
    /\ Success # Failure
    /\ {Success, Failure} \cap Chunks = {}

VARIABLES
    clientSock,      \* this.clientSocket
    listener,        \* this.listeningSocket, "closed" when isClosed
    remote,          \* this.remoteSocket
    extra,           \* accepted connections no listener heard of
    clientSent,      \* chunks the client sent
    clientRead,      \* chunks that became 'data' events of the client socket
    remoteSent,      \* chunks the remote sent
    remoteRead,      \* chunks that became 'data' events of the remote socket
    toRemote,        \* what was written to the remote socket
    toClient         \* what was written to the client socket, replies included

clientIn == <<clientSent, clientRead>>
remoteIn == <<remoteSent, remoteRead>>
bindVars == <<clientSock, listener, remote, extra, clientIn, remoteIn, toRemote, toClient>>

\* "destroyed" is, for the remote, before its 'close' event.
ClientStates   == {"open", "ended", "destroyed"}
ListenerStates == {"starting", "listening", "closed"}
RemoteStates   == {"none", "open", "ended", "destroyed", "closed"}

BindTypeOK ==
    /\ clientSock \in ClientStates
    /\ listener \in ListenerStates
    /\ remote \in RemoteStates
    /\ extra \in 0..MaxExtra
    /\ clientSent \in 0..MaxChunks /\ clientRead \in 0..clientSent
    /\ remoteSent \in 0..MaxChunks /\ remoteRead \in 0..remoteSent
    /\ toRemote \in Seq(Chunks)
    /\ toClient \in Seq(Chunks \cup {Success, Failure})

BindInit ==
    /\ clientSock \in {"open", "ended"}
    /\ listener = "starting"
    /\ remote = "none"
    /\ extra = 0
    /\ clientSent = 0 /\ clientRead = 0
    /\ remoteSent = 0 /\ remoteRead = 0
    /\ toRemote = <<>>
    /\ toClient = <<>>

-----------------------------------------------------------------------------
(* Helpers *)

\* clientSocket.write: an error that destroys a socket the server has ended,
\* and nothing on a destroyed one. "after" is what the step then does to a
\* socket that is still open.
Write(x, after) ==
    /\ toClient' = IF clientSock = "open" THEN Append(toClient, x) ELSE toClient
    /\ clientSock' = IF clientSock = "open" THEN after ELSE "destroyed"

\* cleanup() without super.cleanup(), which ends the client socket.
Release(r) ==
    /\ listener' = "closed"
    /\ remote' = IF r \in {"open", "ended"} THEN "destroyed" ELSE r

\* cleanup(): only its first call does anything.
Cleanup(r) ==
    IF listener = "closed" THEN remote' = r /\ UNCHANGED <<clientSock, listener>>
    ELSE Release(r) /\ clientSock' = IF clientSock = "open" THEN "ended" ELSE clientSock

-----------------------------------------------------------------------------
(* The listening socket *)

\* The callback of listen(): the first reply.
Listens ==
    /\ listener = "starting"
    /\ listener' = "listening"
    /\ Write(Success, "open")
    /\ UNCHANGED <<remote, extra, clientIn, remoteIn, toRemote>>

\* 'error' of the server: it cannot listen, or later cannot accept.
ListenerErrors ==
    /\ listener \in {"starting", "listening"}
    /\ Write(Failure, "ended")
    /\ Release(remote)
    /\ UNCHANGED <<extra, clientIn, remoteIn, toRemote>>

\* Faulty variant of HandleConnection: no second reply.
HandleConnectionSilent ==
    /\ listener = "listening"
    /\ remote = "none"
    /\ remote' = "open"
    /\ UNCHANGED <<clientSock, listener, extra, clientIn, remoteIn, toRemote, toClient>>

\* handleConnection for the first connection: the second reply and the relay;
\* or, if the peer is gone already and the socket has no address, a failure.
HandleConnection ==
    /\ listener = "listening"
    /\ remote = "none"
    /\ \/ Write(Success, "open") /\ remote' = "open" /\ UNCHANGED listener
       \/ Write(Failure, "ended") /\ Release("open")
    /\ UNCHANGED <<extra, clientIn, remoteIn, toRemote>>

\* Further connections are accepted, but once('connection') hears only one.
ExtraConnection ==
    /\ listener = "listening"
    /\ remote # "none"
    /\ extra < MaxExtra
    /\ extra' = extra + 1
    /\ UNCHANGED <<clientSock, listener, remote, clientIn, remoteIn, toRemote, toClient>>

-----------------------------------------------------------------------------
(* The remote *)

RemoteSends ==
    /\ remote = "open"
    /\ remoteSent < MaxChunks
    /\ remoteSent' = remoteSent + 1
    /\ UNCHANGED <<clientSock, listener, remote, extra, clientIn, remoteRead, toRemote, toClient>>

RemoteData ==
    /\ remote = "open"
    /\ remoteRead < remoteSent
    /\ remoteRead' = remoteRead + 1
    /\ Write(remoteRead', "open")
    /\ UNCHANGED <<listener, remote, extra, clientIn, remoteSent, toRemote>>

\* The remote's FIN, after its last chunk; Node ends our side, and in the end
\* destroys the socket.
RemoteEnds ==
    /\ remote = "open"
    /\ remoteRead = remoteSent
    /\ remote' = "ended"
    /\ UNCHANGED <<clientSock, listener, extra, clientIn, remoteIn, toRemote, toClient>>

RemoteFinishes ==
    /\ remote = "ended"
    /\ remote' = "destroyed"
    /\ UNCHANGED <<clientSock, listener, extra, clientIn, remoteIn, toRemote, toClient>>

RemoteErrors ==
    /\ remote \in {"open", "ended"}
    /\ Cleanup("destroyed")
    /\ UNCHANGED <<extra, clientIn, remoteIn, toRemote, toClient>>

\* Faulty variant of RemoteCloses: no listener for 'close'.
RemoteClosesUnheard ==
    /\ remote = "destroyed"
    /\ remote' = "closed"
    /\ UNCHANGED <<clientSock, listener, extra, clientIn, remoteIn, toRemote, toClient>>

\* The 'close' event of the remote socket.
RemoteCloses ==
    /\ remote = "destroyed"
    /\ Cleanup("closed")
    /\ UNCHANGED <<extra, clientIn, remoteIn, toRemote, toClient>>

-----------------------------------------------------------------------------
(* The client *)

ClientSends ==
    /\ clientSock # "destroyed"
    /\ clientSent < MaxChunks
    /\ clientSent' = clientSent + 1
    /\ UNCHANGED <<clientSock, listener, remote, extra, clientRead, remoteIn, toRemote, toClient>>

\* Faulty variant of ClientData: the relay listens twice.
ClientDataTwice ==
    /\ clientSock # "destroyed"
    /\ clientRead < clientSent
    /\ clientRead' = clientRead + 1
    /\ toRemote' = IF remote = "open"
                   THEN Append(Append(toRemote, clientRead'), clientRead') ELSE toRemote
    /\ UNCHANGED <<clientSock, listener, remote, extra, clientSent, remoteIn, toClient>>

\* A 'data' event of the client socket: ignored before the relay, relayed,
\* an error of the remote socket after its FIN, ignored once it is destroyed.
ClientData ==
    /\ clientSock # "destroyed"
    /\ clientRead < clientSent
    /\ clientRead' = clientRead + 1
    /\ \/ remote = "open" /\ toRemote' = Append(toRemote, clientRead')
          /\ UNCHANGED <<clientSock, listener, remote>>
       \/ remote = "ended" /\ Cleanup("destroyed") /\ UNCHANGED toRemote
       \/ remote \notin {"open", "ended"} /\ UNCHANGED <<clientSock, listener, remote, toRemote>>
    /\ UNCHANGED <<extra, clientSent, remoteIn, toClient>>

\* The client's FIN, a reset, or the server's close(): the handler listens to
\* none of them.
ClientGoes ==
    /\ clientSock # "destroyed"
    /\ clientSock' = "destroyed"
    /\ UNCHANGED <<listener, remote, extra, clientIn, remoteIn, toRemote, toClient>>

-----------------------------------------------------------------------------
BindNext ==
    \/ Listens \/ ListenerErrors \/ HandleConnection \/ ExtraConnection
    \/ RemoteSends \/ RemoteData \/ RemoteEnds \/ RemoteFinishes \/ RemoteErrors \/ RemoteCloses
    \/ ClientSends \/ ClientData \/ ClientGoes

BindSpec == BindInit /\ [][BindNext]_bindVars

\* listen() succeeds or fails, and Node reports what has arrived and gets to
\* its close callbacks.
BindFairness ==
    /\ WF_bindVars(Listens \/ (listener = "starting" /\ ListenerErrors))
    /\ WF_bindVars(RemoteData)
    /\ WF_bindVars(RemoteFinishes)
    /\ WF_bindVars(RemoteCloses)

FairBindSpec == BindSpec /\ BindFairness

-----------------------------------------------------------------------------
(* Correctness *)

\* What the client reads: the first reply, the second reply, and then the
\* remote's stream from its beginning, in order and without a gap; a failure
\* reply is the last thing on the connection (listen callback,
\* handleConnection, setupDataRelay and their error paths).
BindStreamFaithful ==
    LET n == Len(toClient)
        k == IF n > 0 /\ toClient[n] = Failure THEN n - 1 ELSE n
    IN  \A i \in 1..k : toClient[i] = IF i <= 2 THEN Success ELSE i - 2

\* What reaches the remote is one gapless piece of the client's stream.
BindRelayInOrder ==
    \A i \in 1..Len(toRemote) : toRemote[i] = toRemote[1] + (i - 1)

\* The end of the remote connection, clean or not, reaches the client: its socket
\* is ended. If the end was a clean one, everything that the remote ever sent has
\* been written to the client first; an error can lose what was not read yet
\* (the 'close' and 'error' listeners of the remote socket).
RemoteEndReachesClient ==
    /\ remote \in {"ended", "destroyed"} /\ clientSock = "open" ~> clientSock # "open"
    /\ remote = "ended" /\ clientSock = "open" ~>
         clientSock # "open" /\ \A i \in 1..remoteSent : \E j \in DOMAIN toClient : toClient[j] = i

-----------------------------------------------------------------------------
(* The inductive invariant of the proofs *)

\* How much an open client has read, and that it is no failure yet.
ClientPosition ==
    clientSock = "open" =>
        /\ listener # "closed"
        /\ Len(toClient) = IF listener = "starting" THEN 0
                           ELSE IF remote = "none" THEN 1 ELSE remoteRead + 2
        /\ \A i \in 1..Len(toClient) : toClient[i] # Failure

\* The relay begins with the remote, and what is written to it last is what
\* was read last.
RemotePosition ==
    /\ listener = "starting" => remote = "none"
    /\ remote = "none" => remoteRead = 0 /\ remoteSent = 0 /\ toRemote = <<>>
    /\ remote = "open" /\ toRemote # <<>> => toRemote[Len(toRemote)] = clientRead

BindInv == BindTypeOK /\ ClientPosition /\ RemotePosition /\ BindStreamFaithful /\ BindRelayInOrder

-----------------------------------------------------------------------------
(* The outline in SocksSession *)

\* The last reply that reached the client: the one of its authentication, until
\* there is one of the command. A chunk written first is no reply: it is nothing
\* that the outline has a step for.
Answered ==
    IF toClient = <<>> THEN "authOk"
    ELSE IF toClient[1] \in {Success, Failure} THEN "commandReply" ELSE "data"

Outline == INSTANCE HandlerOutline WITH Kind <- "bind", lastReply <- Answered

\* What the relay does to the client socket and says on it is what SocksSession
\* knows of a BIND handler: it answers an open client only, relays nothing
\* before the answer, and ends the socket instead of destroying it.
ImplementsOutline == Outline!HandlerSpec
=============================================================================
