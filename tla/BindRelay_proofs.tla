-------------------------- MODULE BindRelay_proofs --------------------------
(***************************************************************************)
(* The BIND relay keeps both streams whole, for streams of any length and  *)
(* whichever of its sockets fails or ends at whatever time, and implements *)
(* HandlerOutline.                                                         *)
(***************************************************************************)
EXTENDS BindRelay, TLAPS

\* Chunks are numbered from one, and no reply is a chunk.
LEMMA ConstantFacts ==
    /\ MaxChunks \in Nat /\ MaxExtra \in Nat
    /\ Success # Failure
    /\ \A i \in Chunks : i # Failure
    /\ \A i \in Chunks : i \in Nat \ {0}
<1>1. /\ MaxChunks \in Nat /\ MaxExtra \in Nat
      /\ Success # Failure
      /\ \A i \in Chunks : i # Failure
  BY BindAssumption DEF BindAssumption
<1>2. \A i \in Chunks : i \in Nat \ {0}
  BY <1>1 DEF Chunks
<1> QED BY <1>1, <1>2

\* The invariant holds after the constructor.
LEMMA InitBindInv == BindInit => BindInv
<1> SUFFICES ASSUME BindInit PROVE BindInv
  OBVIOUS
<1>1. 0 \in 0..MaxChunks /\ 0 \in 0..MaxExtra /\ 0 \in 0..0
  BY BindAssumption DEF BindAssumption
<1>2. toRemote = <<>> /\ toClient = <<>>
  BY DEF BindInit
<1>3. toRemote \in Seq(Chunks) /\ toClient \in Seq(Chunks \cup {Success, Failure})
  BY <1>2
<1>4. BindTypeOK
  BY <1>1, <1>3 DEF BindInit, BindTypeOK, ClientStates, ListenerStates, RemoteStates
<1>5. ClientPosition /\ RemotePosition
  BY <1>2 DEF BindInit, ClientPosition, RemotePosition
<1>6. BindStreamFaithful /\ BindRelayInOrder
  BY <1>2 DEF BindStreamFaithful, BindRelayInOrder
<1> QED BY <1>4, <1>5, <1>6 DEF BindInv

\* Writing to the client keeps its stream faithful, if an open client is given
\* what its position calls for, or a failure.
LEMMA WriteLemma ==
    ASSUME BindInv, NEW x \in Chunks \cup {Success, Failure}, NEW after \in {"open", "ended"},
           Write(x, after),
           clientSock = "open" =>
             \/ x = Failure
             \/ x = Success /\ Len(toClient) <= 1
             \/ x \in Chunks /\ Len(toClient) = x + 1
    PROVE  /\ toClient' \in Seq(Chunks \cup {Success, Failure})
           /\ clientSock' \in ClientStates
           /\ BindStreamFaithful'
           /\ clientSock' = "open" => clientSock = "open" /\ after = "open"
           /\ clientSock = "open" =>
                /\ Len(toClient') = Len(toClient) + 1
                /\ x # Failure => \A i \in 1..Len(toClient') : toClient'[i] # Failure
<1> DEFINE n == Len(toClient)
<1>1. toClient \in Seq(Chunks \cup {Success, Failure}) /\ n \in Nat
  BY DEF BindInv, BindTypeOK
<1>2. CASE clientSock = "open"
  <2>1. toClient' = Append(toClient, x) /\ clientSock' = after
    BY <1>2 DEF Write
  <2>2. /\ Len(toClient') = n + 1 /\ toClient'[n + 1] = x
        /\ \A i \in 1..n : toClient'[i] = toClient[i]
        /\ toClient' \in Seq(Chunks \cup {Success, Failure})
    BY <1>1, <2>1
  <2>3. /\ \A i \in 1..n : toClient[i] # Failure
        /\ \A i \in 1..n : toClient[i] = IF i <= 2 THEN Success ELSE i - 2
    BY <1>1, <1>2 DEF BindInv, ClientPosition, BindStreamFaithful
  <2>4. BindStreamFaithful'
    <3>1. /\ Success # Failure
          /\ \A i \in Chunks : i # Failure
          /\ \A i \in Chunks : i \in Nat \ {0}
      BY ConstantFacts
    <3>2. CASE x = Failure
      BY <1>1, <2>2, <2>3, <3>2 DEF BindStreamFaithful
    <3>3. CASE x = Success /\ n <= 1
      BY <1>1, <2>2, <2>3, <3>1, <3>3 DEF BindStreamFaithful
    <3>4. CASE x \in Chunks /\ n = x + 1
      BY <1>1, <2>2, <2>3, <3>1, <3>4 DEF BindStreamFaithful
    <3> QED BY <1>2, <3>2, <3>3, <3>4
  <2> QED BY <1>1, <1>2, <2>1, <2>2, <2>3, <2>4 DEF ClientStates
<1>3. CASE clientSock # "open"
  BY <1>1, <1>3 DEF Write, BindInv, BindStreamFaithful, ClientStates
<1> QED BY <1>2, <1>3

\* A failure reply, after which everything is released.
LEMMA FailureKeepsInv ==
    ASSUME BindInv, Write(Failure, "ended"), NEW r \in RemoteStates, Release(r),
           r # remote => remote = "none" /\ listener = "listening" /\ r = "open",
           UNCHANGED <<extra, clientIn, remoteIn, toRemote>>
    PROVE  BindInv'
<1>1. /\ toClient' \in Seq(Chunks \cup {Success, Failure}) /\ clientSock' \in ClientStates
      /\ BindStreamFaithful' /\ clientSock' # "open"
  BY WriteLemma
<1>2. listener' = "closed" /\ remote' \in RemoteStates /\ remote' # "open"
      /\ (remote' = "none" => remote = "none")
  BY DEF Release, RemoteStates
<1>3. BindTypeOK'
  BY <1>1, <1>2 DEF BindInv, BindTypeOK, ListenerStates, clientIn, remoteIn
<1>4. ClientPosition' /\ RemotePosition' /\ BindRelayInOrder'
  BY <1>1, <1>2 DEF BindInv, ClientPosition, RemotePosition, BindRelayInOrder, remoteIn
<1> QED BY <1>1, <1>3, <1>4 DEF BindInv

\* cleanup() after an event of a remote that was there.
LEMMA CleanupKeepsInv ==
    ASSUME BindInv, NEW r \in {"destroyed", "closed"}, Cleanup(r), remote # "none",
           UNCHANGED <<extra, remoteIn, toRemote, toClient, clientSent>>,
           clientRead' \in 0..clientSent
    PROVE  BindInv'
<1>1. /\ remote' = r /\ listener' = "closed"
      /\ clientSock' \in ClientStates
      /\ clientSock' = "open" => clientSock = "open" /\ listener = "closed"
  BY DEF Cleanup, Release, BindInv, BindTypeOK, ClientStates
<1>2. BindTypeOK'
  BY <1>1 DEF BindInv, BindTypeOK, ListenerStates, RemoteStates, remoteIn
<1>3. ClientPosition' /\ RemotePosition' /\ BindStreamFaithful' /\ BindRelayInOrder'
  BY <1>1 DEF BindInv, ClientPosition, RemotePosition, BindStreamFaithful, BindRelayInOrder, remoteIn
<1> QED BY <1>2, <1>3 DEF BindInv

\* A step that writes nothing and opens nothing.
LEMMA QuietKeepsInv ==
    ASSUME BindInv, UNCHANGED <<listener, clientRead, remoteRead, toRemote, toClient>>,
           clientSock' \in {clientSock, "destroyed"},
           remote' = remote \/ (remote = "open" /\ remote' = "ended") \/ (remote = "ended" /\ remote' = "destroyed"),
           extra' \in 0..MaxExtra,
           clientSent' \in clientSent..MaxChunks, remoteSent' \in remoteSent..MaxChunks,
           remote = "none" => remoteSent' = remoteSent
    PROVE  BindInv'
<1>1. BindTypeOK'
  BY BindAssumption DEF BindInv, BindTypeOK, ClientStates, RemoteStates, BindAssumption
<1>2. ClientPosition' /\ RemotePosition' /\ BindStreamFaithful' /\ BindRelayInOrder'
  BY DEF BindInv, ClientPosition, RemotePosition, BindStreamFaithful, BindRelayInOrder
<1> QED BY <1>1, <1>2 DEF BindInv

\* Every step of listener, remote and client keeps the invariant.
LEMMA NextBindInv == BindInv /\ [BindNext]_bindVars => BindInv'
<1> SUFFICES ASSUME BindInv, [BindNext]_bindVars PROVE BindInv'
  OBVIOUS
<1>t. /\ MaxChunks \in Nat /\ MaxExtra \in Nat /\ Success # Failure
      /\ \A i \in Chunks : i # Failure
      /\ extra \in 0..MaxExtra /\ clientSent \in 0..MaxChunks /\ clientRead \in 0..clientSent
      /\ remoteSent \in 0..MaxChunks /\ remoteRead \in 0..remoteSent
      /\ toRemote \in Seq(Chunks) /\ toClient \in Seq(Chunks \cup {Success, Failure})
      /\ remote \in RemoteStates /\ listener \in ListenerStates /\ clientSock \in ClientStates
  BY ConstantFacts DEF BindInv, BindTypeOK
<1>1. CASE Listens
  <2>1. /\ listener = "starting" /\ listener' = "listening" /\ Write(Success, "open")
        /\ UNCHANGED <<remote, extra, clientSent, clientRead, remoteSent, remoteRead, toRemote>>
        /\ remote = "none"
    BY <1>1 DEF Listens, clientIn, remoteIn, BindInv, RemotePosition
  <2>2. clientSock = "open" => Len(toClient) = 0
    BY <2>1 DEF BindInv, ClientPosition
  <2>3. /\ toClient' \in Seq(Chunks \cup {Success, Failure}) /\ clientSock' \in ClientStates
        /\ BindStreamFaithful'
        /\ clientSock' = "open" => /\ Len(toClient') = 1
                                   /\ \A i \in 1..Len(toClient') : toClient'[i] # Failure
    <3>1. /\ Success \in Chunks \cup {Success, Failure} /\ Success # Failure
          /\ clientSock = "open" => Len(toClient) <= 1
      BY <2>2, ConstantFacts
    <3>2. /\ toClient' \in Seq(Chunks \cup {Success, Failure}) /\ clientSock' \in ClientStates
          /\ BindStreamFaithful'
          /\ clientSock' = "open" => clientSock = "open"
          /\ clientSock = "open" => /\ Len(toClient') = Len(toClient) + 1
                                    /\ \A i \in 1..Len(toClient') : toClient'[i] # Failure
      BY <2>1, <3>1, WriteLemma
    <3>3. clientSock = "open" => Len(toClient') = 1
      BY <2>2, <3>2
    <3> QED BY <3>2, <3>3
  <2>4. BindTypeOK'
    BY <1>t, <2>1, <2>3 DEF BindTypeOK, ListenerStates
  <2>5. ClientPosition' /\ RemotePosition' /\ BindRelayInOrder'
    BY <2>1, <2>3 DEF ClientPosition, BindInv, RemotePosition, BindRelayInOrder
  <2> QED BY <2>3, <2>4, <2>5 DEF BindInv
<1>2. CASE ListenerErrors
  BY <1>t, <1>2, FailureKeepsInv DEF ListenerErrors
<1>3. CASE HandleConnection
  <2>0. listener = "listening" /\ remote = "none" /\ UNCHANGED <<extra, clientIn, remoteIn, toRemote>>
    BY <1>3 DEF HandleConnection
  <2>1. CASE Write(Failure, "ended") /\ Release("open")
    BY <2>0, <2>1, FailureKeepsInv DEF RemoteStates
  <2>2. CASE Write(Success, "open") /\ remote' = "open" /\ UNCHANGED listener
    <3>1. Len(toClient) \in Nat /\ (clientSock = "open" => Len(toClient) = 1)
      BY <1>t, <2>0 DEF BindInv, ClientPosition
    <3>2. remoteRead = 0 /\ remoteSent = 0 /\ toRemote = <<>>
      BY <2>0 DEF BindInv, RemotePosition
    <3>3. /\ toClient' \in Seq(Chunks \cup {Success, Failure}) /\ clientSock' \in ClientStates
          /\ BindStreamFaithful'
          /\ clientSock' = "open" => /\ Len(toClient') = 2
                                     /\ \A i \in 1..Len(toClient') : toClient'[i] # Failure
      <4>1. Success \in Chunks \cup {Success, Failure} /\ Success # Failure
        BY ConstantFacts
      <4>2. CASE clientSock = "open"
        <5>1. Len(toClient) = 1 /\ Len(toClient) <= 1
          BY <3>1, <4>2
        <5>2. /\ toClient' \in Seq(Chunks \cup {Success, Failure}) /\ clientSock' \in ClientStates
              /\ BindStreamFaithful'
              /\ Len(toClient') = Len(toClient) + 1
              /\ \A i \in 1..Len(toClient') : toClient'[i] # Failure
          BY <2>2, <4>1, <4>2, <5>1, WriteLemma
        <5> QED BY <5>1, <5>2
      <4>3. CASE clientSock # "open"
        BY <2>2, <4>1, <4>3, WriteLemma
      <4> QED BY <4>2, <4>3
    <3>4. BindTypeOK'
      BY <1>t, <2>0, <2>2, <3>3 DEF BindTypeOK, RemoteStates, clientIn, remoteIn
    <3>5. ClientPosition' /\ RemotePosition' /\ BindRelayInOrder'
      BY <2>0, <2>2, <3>2, <3>3 DEF ClientPosition, RemotePosition, BindRelayInOrder, clientIn, remoteIn
    <3> QED BY <3>3, <3>4, <3>5 DEF BindInv
  <2> QED BY <1>3, <2>1, <2>2 DEF HandleConnection
<1>4. CASE ExtraConnection
  BY <1>t, <1>4, QuietKeepsInv DEF ExtraConnection, clientIn, remoteIn
<1>5. CASE RemoteSends
  BY <1>t, <1>5, QuietKeepsInv DEF RemoteSends, clientIn
<1>6. CASE RemoteData
  <2>1. /\ remote = "open" /\ remoteRead < remoteSent /\ remoteRead' = remoteRead + 1
        /\ Write(remoteRead + 1, "open")
        /\ UNCHANGED <<listener, remote, extra, clientSent, clientRead, remoteSent, toRemote>>
    BY <1>6 DEF RemoteData, clientIn
  <2>2. remoteRead + 1 \in Chunks
    BY <1>t, <2>1 DEF Chunks
  <2>3. clientSock = "open" => Len(toClient) = remoteRead + 2 /\ listener = "listening"
    BY <1>t, <2>1 DEF BindInv, ClientPosition, RemotePosition, ListenerStates
  <2>4. remoteRead + 1 # Failure
    BY <1>t, <2>2
  <2>6. /\ toClient' \in Seq(Chunks \cup {Success, Failure}) /\ clientSock' \in ClientStates
        /\ BindStreamFaithful'
        /\ clientSock' = "open" => /\ clientSock = "open"
                                   /\ Len(toClient') = Len(toClient) + 1
                                   /\ \A i \in 1..Len(toClient') : toClient'[i] # Failure
    BY <1>t, <2>1, <2>2, <2>3, <2>4, WriteLemma
  <2>7. BindTypeOK'
    BY <1>t, <2>1, <2>6 DEF BindTypeOK
  <2>8. ClientPosition'
    BY <1>t, <2>1, <2>3, <2>6 DEF ClientPosition
  <2>9. RemotePosition' /\ BindRelayInOrder'
    BY <2>1 DEF BindInv, RemotePosition, BindRelayInOrder
  <2> QED BY <2>6, <2>7, <2>8, <2>9 DEF BindInv
<1>7. CASE RemoteEnds \/ RemoteFinishes
  BY <1>t, <1>7, QuietKeepsInv DEF RemoteEnds, RemoteFinishes, clientIn, remoteIn
<1>8. CASE RemoteErrors
  BY <1>t, <1>8, CleanupKeepsInv DEF RemoteErrors, clientIn
<1>9. CASE RemoteCloses
  BY <1>t, <1>9, CleanupKeepsInv DEF RemoteCloses, clientIn
<1>10. CASE ClientSends
  BY <1>t, <1>10, QuietKeepsInv DEF ClientSends, remoteIn
<1>11. CASE ClientData
  <2>1. /\ clientRead < clientSent /\ clientRead' = clientRead + 1
        /\ UNCHANGED <<extra, clientSent, remoteSent, remoteRead, toClient>>
    BY <1>11 DEF ClientData, remoteIn
  <2>2. clientRead + 1 \in Chunks /\ clientRead' \in 0..clientSent
    BY <1>t, <2>1 DEF Chunks
  <2>3. CASE remote = "open"
    <3> DEFINE n == Len(toRemote)
    <3>1. toRemote' = Append(toRemote, clientRead + 1) /\ UNCHANGED <<clientSock, listener, remote>>
      BY <1>11, <2>1, <2>3 DEF ClientData
    <3>2. /\ n \in Nat /\ Len(toRemote') = n + 1 /\ toRemote'[n + 1] = clientRead + 1
          /\ \A i \in 1..n : toRemote'[i] = toRemote[i]
          /\ toRemote' \in Seq(Chunks)
      BY <1>t, <2>2, <3>1
    <3>3. BindTypeOK'
      BY <1>t, <2>1, <2>2, <3>1, <3>2 DEF BindTypeOK
    <3>4. ClientPosition' /\ RemotePosition' /\ BindStreamFaithful'
      BY <2>1, <2>3, <3>1, <3>2
      DEF BindInv, ClientPosition, RemotePosition, BindStreamFaithful
    <3>5. BindRelayInOrder'
      <4>1. CASE n = 0
        BY <2>2, <3>2, <4>1 DEF BindRelayInOrder, Chunks
      <4>2. CASE n > 0
        <5>1. toRemote[n] = clientRead /\ toRemote[n] = toRemote[1] + (n - 1)
          BY <1>t, <2>3, <3>2, <4>2 DEF BindInv, RemotePosition, BindRelayInOrder
        <5>2. toRemote[1] \in Nat
          BY <1>t, <3>2, <4>2 DEF Chunks
        <5>3. \A i \in 1..n : toRemote[i] = toRemote[1] + (i - 1)
          BY DEF BindInv, BindRelayInOrder
        <5>4. toRemote'[1] = toRemote[1]
          BY <3>2, <4>2
        <5>5. ASSUME NEW i \in 1..(n + 1) PROVE toRemote'[i] = toRemote[1] + (i - 1)
          <6>1. CASE i = n + 1
            BY <3>2, <5>1, <5>2, <6>1
          <6>2. CASE i # n + 1
            BY <3>2, <5>3, <6>2
          <6> QED BY <6>1, <6>2
        <5> QED BY <3>2, <5>4, <5>5 DEF BindRelayInOrder
      <4> QED BY <3>2, <4>1, <4>2
    <3> QED BY <3>3, <3>4, <3>5 DEF BindInv
  <2>4. CASE remote = "ended"
    BY <1>t, <1>11, <2>1, <2>2, <2>4, CleanupKeepsInv DEF ClientData, remoteIn
  <2>5. CASE remote \notin {"open", "ended"}
    <3>1. UNCHANGED <<clientSock, listener, remote, toRemote>>
      BY <1>11, <2>5 DEF ClientData
    <3>2. BindTypeOK'
      BY <1>t, <2>1, <2>2, <3>1 DEF BindTypeOK
    <3> QED
      BY <2>1, <2>5, <3>1, <3>2
      DEF BindInv, ClientPosition, RemotePosition, BindStreamFaithful, BindRelayInOrder
  <2> QED BY <2>3, <2>4, <2>5
<1>12. CASE ClientGoes
  BY <1>t, <1>12, QuietKeepsInv DEF ClientGoes, clientIn, remoteIn
<1>13. CASE UNCHANGED bindVars
  BY <1>t, <1>13, QuietKeepsInv DEF bindVars, clientIn, remoteIn
<1> QED
  BY <1>1, <1>2, <1>3, <1>4, <1>5, <1>6, <1>7, <1>8, <1>9, <1>10, <1>11, <1>12, <1>13
  DEF BindNext

\* Where listener, remote and both streams stand relative to each other.
THEOREM BindInvariant == BindSpec => []BindInv
BY InitBindInv, NextBindInv, PTL DEF BindSpec

\* Every variable of the BIND relay keeps its type.
THEOREM BindTypeCorrect == BindSpec => []BindTypeOK
BY BindInvariant, PTL DEF BindInv

\* The client of a BIND reads two replies and then the remote's stream without
\* a gap, with at most a failure at the very end.
THEOREM BindStreamIsFaithful == BindSpec => []BindStreamFaithful
BY BindInvariant, PTL DEF BindInv

\* The remote gets one gapless piece of the client's stream.
THEOREM BindRelayKeepsOrder == BindSpec => []BindRelayInOrder
BY BindInvariant, PTL DEF BindInv
-----------------------------------------------------------------------------
(* The refinement of HandlerOutline *)

\* A function on one socket is changed by changing its value.
LEMMA OneSocket ==
    ASSUME NEW c, NEW x, NEW y
    PROVE  [[s \in {c} |-> x] EXCEPT ![c] = y] = [s \in {c} |-> y]
  OBVIOUS

\* What has been written begins with a reply.
LEMMA AnsweredFirst ==
    ASSUME BindInv
    PROVE  Answered \in {"authOk", "commandReply"}
<1>1. toClient \in Seq(Chunks \cup {Success, Failure})
  BY DEF BindInv, BindTypeOK
<1>2. ASSUME toClient # <<>>
      PROVE  toClient[1] \in {Success, Failure}
  <2> DEFINE n == Len(toClient)
  <2>1. n \in Nat /\ n >= 1
    BY <1>1, <1>2
  <2>2. CASE toClient[n] = Failure /\ n = 1
    BY <2>2
  <2>3. CASE toClient[n] = Failure /\ n # 1
    <3>1. 1 \in 1..(n - 1) /\ n > 0
      BY <2>1, <2>3
    <3> QED BY <3>1, <2>3 DEF BindInv, BindStreamFaithful
  <2>4. CASE toClient[n] # Failure
    <3>1. 1 \in 1..n
      BY <2>1
    <3> QED BY <3>1, <2>4 DEF BindInv, BindStreamFaithful
  <2> QED BY <2>2, <2>3, <2>4
<1> QED BY <1>2 DEF Answered

\* What is written is a reply, or comes after one.
LEMMA SomethingWritten ==
    ASSUME NEW S, toClient \in Seq(S), NEW x \in S, toClient' = Append(toClient, x),
           Answered \in {"authOk", "commandReply"},
           toClient # <<>> \/ x \in {Success, Failure}
    PROVE  Answered' = "commandReply"
<1>1. CASE toClient = <<>>
  <2>1. toClient' # <<>> /\ toClient'[1] = x
    BY <1>1
  <2> QED BY <2>1, <1>1 DEF Answered
<1>2. CASE toClient # <<>>
  <2>1. toClient' # <<>> /\ toClient'[1] = toClient[1]
    BY <1>2
  <2>2. toClient[1] \in {Success, Failure}
    BY <1>2 DEF Answered
  <2> QED BY <2>1, <2>2 DEF Answered
<1> QED BY <1>1, <1>2

\* A reply to an open client.
LEMMA Replies ==
    ASSUME clientSock = "open", clientSock' = "open", Answered' = "commandReply"
    PROVE  Outline!HandlerNext
<1> HIDE DEF Answered
<1>1. Outline!Session!Send(Outline!Client, "commandReply", "open")
  BY OneSocket DEF Outline!Session!Send, Outline!Session!SetSock
<1>2. Outline!Session!HandlerSucceeds(Outline!Client)
  BY <1>1 DEF Outline!Session!HandlerSucceeds, Outline!Session!Readable,
              Outline!Session!Running, Outline!Session!filterVars
<1> QED BY <1>2 DEF Outline!HandlerNext

\* A failure reply to an open client, whose socket is then ended.
LEMMA RepliesFailure ==
    ASSUME clientSock = "open", clientSock' = "ended", Answered' = "commandReply"
    PROVE  Outline!HandlerNext
<1> HIDE DEF Answered
<1>1. Outline!Session!Send(Outline!Client, "commandReply", "ended")
  BY OneSocket DEF Outline!Session!Send, Outline!Session!SetSock
<1>2. Outline!Session!HandlerFails(Outline!Client)
  BY <1>1 DEF Outline!Session!HandlerFails, Outline!Session!Readable,
              Outline!Session!Running, Outline!Session!filterVars
<1> QED BY <1>2 DEF Outline!HandlerNext

\* The handler ends the client socket.
LEMMA Ends ==
    ASSUME clientSock \in {"open", "ended"}, clientSock' = "ended", Answered' = Answered
    PROVE  Outline!HandlerNext
<1> HIDE DEF Answered
<1>1. Outline!Session!HandlerEnds(Outline!Client)
  BY OneSocket DEF Outline!Session!HandlerEnds, Outline!Session!SetSock, Outline!Session!Readable,
              Outline!Session!Running, Outline!Session!dialogVars, Outline!Session!poolVars,
              Outline!Session!filterVars
<1> QED BY <1>1 DEF Outline!HandlerNext

\* The client socket is destroyed, by its peer or by a write after its end.
LEMMA Goes ==
    ASSUME clientSock \in {"open", "ended"}, clientSock' = "destroyed", Answered' = Answered
    PROVE  Outline!HandlerNext
<1> HIDE DEF Answered
<1>1. Outline!Session!PeerEnds(Outline!Client)
  BY OneSocket DEF Outline!Session!PeerEnds, Outline!Session!SetSock, Outline!Session!Readable,
              Outline!Session!Running, Outline!Session!dialogVars, Outline!Session!poolVars,
              Outline!Session!filterVars
<1> QED BY <1>1 DEF Outline!HandlerNext

\* Every step of the relay is one of the outline, or changes nothing it shows.
LEMMA BindOutlined ==
    ASSUME BindInv, [BindNext]_bindVars
    PROVE  [Outline!HandlerNext]_<<clientSock, Answered>>
<1> DEFINE Shown == [Outline!HandlerNext]_<<clientSock, Answered>>
           Said  == Chunks \cup {Success, Failure}
<1>1. toClient \in Seq(Said) /\ clientSock \in ClientStates
  BY DEF BindInv, BindTypeOK
<1>2. ASSUME clientSock' = clientSock, toClient' = toClient
      PROVE  Shown
  BY <1>2 DEF Answered
<1>3. ASSUME clientSock' = "destroyed", toClient' = toClient
      PROVE  Shown
  <2>1. Answered' = Answered
    BY <1>3 DEF Answered
  <2>2. CASE clientSock = "destroyed"
    BY <2>1, <2>2, <1>3
  <2>3. CASE clientSock \in {"open", "ended"}
    BY <2>1, <2>3, <1>3, Goes
  <2> QED BY <2>2, <2>3, <1>1 DEF ClientStates
<1>4. ASSUME NEW r, Cleanup(r), toClient' = toClient
      PROVE  Shown
  <2>1. Answered' = Answered
    BY <1>4 DEF Answered
  <2>2. CASE clientSock' = clientSock
    BY <1>2, <1>4, <2>2
  <2>3. CASE clientSock = "open" /\ clientSock' = "ended"
    BY <2>1, <2>3, Ends
  <2> QED BY <1>4, <2>2, <2>3 DEF Cleanup
<1>5. ASSUME NEW after \in {"open", "ended"}, NEW x \in {Success, Failure}, Write(x, after)
      PROVE  Shown
  <2>1. CASE clientSock = "open"
    <3>1. clientSock' = after /\ toClient' = Append(toClient, x)
      BY <2>1, <1>5 DEF Write
    <3>2. Answered' = "commandReply"
      BY <3>1, <1>1, AnsweredFirst, SomethingWritten
    <3> QED BY <2>1, <3>1, <3>2, Replies, RepliesFailure
  <2>2. CASE clientSock # "open"
    BY <2>2, <1>3, <1>5 DEF Write
  <2> QED BY <2>1, <2>2
<1>6. CASE Listens \/ ListenerErrors \/ HandleConnection
  BY <1>5, <1>6 DEF Listens, ListenerErrors, HandleConnection
<1>7. CASE RemoteData
  <2>1. CASE clientSock = "open"
    <3>1. clientSock' = "open" /\ remote = "open" /\ toClient' = Append(toClient, remoteRead')
      BY <2>1, <1>7 DEF RemoteData, Write
    <3>2. Len(toClient) = remoteRead + 2 /\ remoteRead \in Nat /\ remoteRead' \in Said
      BY <2>1, <3>1, <1>7, BindAssumption
      DEF BindInv, BindTypeOK, ClientPosition, RemotePosition, RemoteData, BindAssumption, Chunks
    <3>3. toClient # <<>>
      BY <3>2, <1>1
    <3>4. Answered = "commandReply" /\ Answered' = "commandReply"
      BY <3>1, <3>2, <3>3, <1>1, AnsweredFirst, SomethingWritten DEF Answered
    <3> QED BY <2>1, <3>1, <3>4
  <2>2. CASE clientSock # "open"
    BY <2>2, <1>3, <1>7 DEF RemoteData, Write
  <2> QED BY <2>1, <2>2
<1>8. CASE RemoteErrors \/ RemoteCloses
  BY <1>4, <1>8 DEF RemoteErrors, RemoteCloses
<1>9. CASE ClientData
  BY <1>2, <1>4, <1>9 DEF ClientData
<1>10. CASE ClientGoes
  BY <1>3, <1>10 DEF ClientGoes
<1>11. CASE ExtraConnection \/ RemoteSends \/ RemoteEnds \/ RemoteFinishes \/ ClientSends
            \/ UNCHANGED bindVars
  BY <1>2, <1>11 DEF ExtraConnection, RemoteSends, RemoteEnds, RemoteFinishes, ClientSends, bindVars
<1> QED BY <1>6, <1>7, <1>8, <1>9, <1>10, <1>11 DEF BindNext

\* The relay begins on a connection that is open, or ended by us, unanswered.
LEMMA InitBindOutlined == BindInit => Outline!HandlerInit
  BY DEF BindInit, Outline!HandlerInit, Answered, Outline!Session!Replies

\* The BIND relay implements what SocksSession outlines of it (the listeners of
\* BindCommandHandler, as far as the client socket can tell).
THEOREM BindImplementsOutline == BindSpec => ImplementsOutline
  BY InitBindOutlined, BindOutlined, BindInvariant, PTL
  DEF BindSpec, ImplementsOutline, Outline!HandlerSpec
=============================================================================
