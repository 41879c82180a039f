------------------------ MODULE ConnectRelay_proofs ------------------------
(***************************************************************************)
(* The CONNECT relay keeps both streams whole, for streams of any length:  *)
(* the inductive invariant ConnectInv and what follows from it, the        *)
(* refinement of HandlerOutline included.                                  *)
(***************************************************************************)
EXTENDS ConnectRelay, TLAPS

\* The invariant holds when the connection attempt starts.
LEMMA InitConnectInv == ConnectInit => ConnectInv
<1> SUFFICES ASSUME ConnectInit
             PROVE  ConnectInv
  OBVIOUS
<1>1. ConnectTypeOK
  <2>1. 0 \in 0..MaxChunks /\ 0 \in 0..0
    BY ConnectAssumption
  <2>2. <<>> \in Seq(Chunks) /\ <<>> \in Seq(Chunks \cup {Success, Failure})
    OBVIOUS
  <2> QED BY <2>1, <2>2, ZenonT(30) DEF ConnectInit, ConnectTypeOK, ClientStates, DestStates
<1>2. BeforeRelay /\ DuringRelay /\ OrphansExplained
  BY DEF ConnectInit, BeforeRelay, DuringRelay, OrphansExplained
<1>3. StreamFaithful /\ RelayInOrder
  BY DEF ConnectInit, StreamFaithful, RelayInOrder
<1> QED BY <1>1, <1>2, <1>3 DEF ConnectInv

\* A failure reply followed by cleanup keeps the invariant, in whatever state
\* of an existing or coming connection it happens.
LEMMA FailureReplyKeepsInv ==
    ASSUME ConnectInv, FailureReply, destSock \in {"connecting", "open", "ended"},
           UNCHANGED <<relaying, clientSent, early, destIn, toDest>>,
           clientRead' \in 0..clientSent
    PROVE  ConnectInv'
<1>1. ConnectTypeOK'
  <2>1. toClient' \in Seq(Chunks \cup {Success, Failure})
    BY DEF ConnectInv, ConnectTypeOK, FailureReply
  <2> QED
    BY <2>1, ConnectAssumption
       DEF ConnectInv, ConnectTypeOK, FailureReply, Cleanup, LoseClient, Phase, destIn,
           ClientStates, DestStates
<1>2. BeforeRelay' /\ DuringRelay' /\ OrphansExplained'
  BY DEF ConnectInv, FailureReply, Cleanup, LoseClient, BeforeRelay, DuringRelay,
         OrphansExplained
<1>3. StreamFaithful'
  <2>1. CASE clientSock = "open"
    <3> DEFINE n == Len(toClient)
    <3>1. toClient' = Append(toClient, Failure) /\ n \in Nat
      BY <2>1 DEF FailureReply, ConnectInv, ConnectTypeOK
    <3>2. /\ Len(toClient') = n + 1
          /\ toClient'[n + 1] = Failure
          /\ \A i \in 1..n : toClient'[i] = toClient[i]
      BY <3>1 DEF ConnectInv, ConnectTypeOK
    <3>3. \A i \in 1..n : toClient[i] = IF i = 1 THEN Success ELSE i - 1
      BY <2>1, <3>1 DEF ConnectInv, DuringRelay, StreamFaithful
    <3> QED BY <3>1, <3>2, <3>3 DEF StreamFaithful
  <2>2. CASE clientSock # "open"
    BY <2>2 DEF ConnectInv, FailureReply, StreamFaithful
  <2> QED BY <2>1, <2>2
<1>4. RelayInOrder'
  BY DEF ConnectInv, RelayInOrder
<1> QED BY <1>1, <1>2, <1>3, <1>4 DEF ConnectInv

\* Every step of the destination, the client and the server keeps it.
LEMMA NextConnectInv == ConnectInv /\ [ConnectNext]_connectVars => ConnectInv'
<1> SUFFICES ASSUME ConnectInv, [ConnectNext]_connectVars
             PROVE  ConnectInv'
  OBVIOUS
<1>1. CASE DestConnects
  <2>1. /\ toClient = <<>> /\ toDest = <<>> /\ toDest' = <<>>
        /\ destSent = 0 /\ destRead = 0 /\ destRead' = 0
        /\ ~early => clientSent = 0 /\ clientRead = 0
        /\ UNCHANGED <<clientSent, clientRead, early, destSent>>
    BY <1>1 DEF DestConnects, ConnectInv, ConnectTypeOK, BeforeRelay, clientIn, destIn
  <2>2. toClient' = IF clientSock = "open" THEN <<Success>> ELSE <<>>
    BY <1>1, <2>1 DEF DestConnects, ConnectInv, ConnectTypeOK, ClientStates
  <2>3. Success # Failure
    BY ConnectAssumption
  <2>4. ConnectTypeOK'
    <3>1. toClient' \in Seq(Chunks \cup {Success, Failure})
      BY <2>2
    <3> QED
      BY <1>1, <2>1, <3>1 DEF DestConnects, ConnectInv, ConnectTypeOK, Cleanup, LoseClient,
         Phase, ClientStates, DestStates
  <2>5. BeforeRelay' /\ OrphansExplained'
    <3>1. destSock = "connecting" /\ relaying' = TRUE
      BY <1>1 DEF DestConnects
    <3>2. clientSock = "destroyed" => clientLeft \in {"connecting", "shutdown"}
      BY <3>1 DEF ConnectInv, BeforeRelay
    <3> QED BY <1>1, <2>1, <3>1, <3>2 DEF DestConnects, Cleanup, LoseClient, BeforeRelay, OrphansExplained
  <2>6. DuringRelay'
    BY <1>1, <2>1, <2>2, <2>3 DEF DestConnects, Cleanup, LoseClient, DuringRelay
  <2>7. StreamFaithful' /\ RelayInOrder'
    BY <2>1, <2>2, <2>3 DEF StreamFaithful, RelayInOrder
  <2> QED BY <2>4, <2>5, <2>6, <2>7 DEF ConnectInv
<1>2. CASE DestErrors
  <2>1. clientRead' \in 0..clientSent
    BY <1>2 DEF DestErrors, clientIn, ConnectInv, ConnectTypeOK
  <2> QED BY <1>2, <2>1, FailureReplyKeepsInv DEF DestErrors, clientIn
<1>3. CASE DestSends
  <2>1. destSent' \in 0..MaxChunks /\ destRead' \in 0..destSent'
    BY <1>3, ConnectAssumption DEF DestSends, ConnectInv, ConnectTypeOK
  <2> QED
    BY <1>3, <2>1 DEF DestSends, ConnectInv, ConnectTypeOK, BeforeRelay, DuringRelay,
                StreamFaithful, RelayInOrder, OrphansExplained, sockVars, clientIn
<1>4. CASE DestData
  <2>1. CASE clientSock = "open"
    <3> DEFINE n == Len(toClient)
    <3>1. /\ UNCHANGED <<clientSock, destSock, relaying, clientLeft, clientIn, destSent, toDest>>
          /\ destSock = "open" /\ destRead' = destRead + 1 /\ destRead < destSent
          /\ toClient' = Append(toClient, destRead + 1)
      BY <1>4, <2>1 DEF DestData, sockVars
    <3>2. n = destRead + 1 /\ n \in 1..destSent /\ destRead + 1 \in Chunks
      BY <2>1, <3>1, ConnectAssumption DEF ConnectInv, ConnectTypeOK, DuringRelay, Chunks
    <3>3. /\ Len(toClient') = n + 1
          /\ toClient'[n + 1] = destRead + 1
          /\ \A i \in 1..n : toClient'[i] = toClient[i]
      BY <3>1, <3>2 DEF ConnectInv, ConnectTypeOK
    <3>4. Failure # destRead + 1
      BY <3>2, ConnectAssumption
    <3>5. \A i \in 1..n : /\ toClient[i] # Failure
                          /\ toClient[i] = IF i = 1 THEN Success ELSE i - 1
      BY <2>1, <3>2 DEF ConnectInv, DuringRelay, StreamFaithful
    <3>6. ConnectTypeOK'
      <4>1. toClient' \in Seq(Chunks \cup {Success, Failure})
        BY <3>1, <3>2 DEF ConnectInv, ConnectTypeOK
      <4> QED BY <3>1, <4>1, ConnectAssumption DEF ConnectInv, ConnectTypeOK, clientIn
    <3>7. StreamFaithful' /\ DuringRelay'
      BY <3>1, <3>2, <3>3, <3>4, <3>5 DEF StreamFaithful, DuringRelay, ConnectInv, clientIn
    <3>8. BeforeRelay' /\ RelayInOrder' /\ OrphansExplained'
      BY <2>1, <3>1 DEF BeforeRelay, RelayInOrder, OrphansExplained, ConnectInv, clientIn
    <3> QED BY <3>6, <3>7, <3>8 DEF ConnectInv
  <2>2. CASE clientSock # "open"
    <3>1. destRead' \in 0..destSent'
      BY <1>4 DEF DestData, ConnectInv, ConnectTypeOK
    <3> QED
      BY <1>4, <2>2, <3>1
         DEF DestData, ConnectInv, ConnectTypeOK, BeforeRelay, DuringRelay, StreamFaithful,
             RelayInOrder, OrphansExplained, sockVars, clientIn
  <2> QED BY <2>1, <2>2
<1>5. CASE DestEnds
  BY <1>5 DEF DestEnds, ConnectInv, ConnectTypeOK, BeforeRelay, DuringRelay, StreamFaithful,
              RelayInOrder, OrphansExplained, DestStates, clientIn, destIn
<1>6. CASE DestFinishes
  BY <1>6 DEF DestFinishes, ConnectInv, ConnectTypeOK, BeforeRelay, DuringRelay,
              StreamFaithful, RelayInOrder, OrphansExplained, DestStates, clientIn, destIn
<1>7. CASE ClientSends
  <2>1. clientSent' \in 0..MaxChunks /\ clientRead' \in 0..clientSent'
    BY <1>7, ConnectAssumption DEF ClientSends, ConnectInv, ConnectTypeOK
  <2> QED
    BY <1>7, <2>1 DEF ClientSends, ConnectInv, ConnectTypeOK, BeforeRelay, DuringRelay,
                StreamFaithful, RelayInOrder, OrphansExplained, sockVars, destIn
<1>8. CASE ClientData
  <2>1. clientRead' = clientRead + 1 /\ clientRead' \in 0..clientSent
    BY <1>8 DEF ClientData, ConnectInv, ConnectTypeOK
  <2>2. CASE relaying /\ destSock = "open"
    <3> DEFINE n == Len(toDest)
    <3>1. /\ UNCHANGED <<clientSock, destSock, relaying, clientLeft, clientSent, early, destSent, destRead, toClient>>
          /\ toDest' = Append(toDest, clientRead + 1)
      BY <1>8, <2>2 DEF ClientData, sockVars, destIn
    <3>2. clientRead + 1 \in Chunks /\ n \in Nat
      BY <2>1, ConnectAssumption DEF ConnectInv, ConnectTypeOK, Chunks
    <3>3. /\ Len(toDest') = n + 1
          /\ toDest'[n + 1] = clientRead + 1
          /\ \A i \in 1..n : toDest'[i] = toDest[i]
      BY <3>1, <3>2 DEF ConnectInv, ConnectTypeOK
    <3>4. ConnectTypeOK'
      <4>1. toDest' \in Seq(Chunks)
        BY <3>1, <3>2 DEF ConnectInv, ConnectTypeOK
      <4> QED BY <2>1, <3>1, <4>1 DEF ConnectInv, ConnectTypeOK
    <3>5. RelayInOrder'
      <4>1. CASE n = 0
        <5>1. ~early => clientRead = 0
          BY <2>2, <4>1 DEF ConnectInv, DuringRelay
        <5>2. Len(toDest') = 1 /\ toDest'[1] = clientRead + 1 /\ clientRead \in Nat
          BY <3>3, <4>1 DEF ConnectInv, ConnectTypeOK
        <5> QED BY <3>1, <5>1, <5>2 DEF RelayInOrder
      <4>2. CASE n > 0
        <5>1. 1 \in 1..n /\ n \in 1..n /\ toDest # <<>>
          BY <3>2, <4>2
        <5>2. toDest[1] \in Nat
          <6>1. toDest[1] \in Chunks
            BY <5>1 DEF ConnectInv, ConnectTypeOK
          <6> QED BY <6>1, ConnectAssumption DEF Chunks
        <5>3. toDest[n] = clientRead /\ toDest[n] = toDest[1] + (n - 1)
          BY <2>2, <5>1 DEF ConnectInv, DuringRelay, RelayInOrder
        <5>4. \A i \in 1..n : /\ toDest[i] = toDest[1] + (i - 1)
                              /\ ~early => toDest[i] = i
          BY DEF ConnectInv, RelayInOrder
        <5>5. ~early => n = clientRead
          BY <2>2 DEF ConnectInv, DuringRelay
        <5>6. toDest'[1] = toDest[1]
          BY <3>3, <5>1
        <5>7. \A i \in 1..(n + 1) : /\ toDest'[i] = toDest'[1] + (i - 1)
                                    /\ ~early => toDest'[i] = i
          <6> TAKE i \in 1..(n + 1)
          <6>1. CASE i \in 1..n
            BY <3>3, <5>4, <5>6, <6>1
          <6>2. CASE i = n + 1
            BY <3>2, <3>3, <5>2, <5>3, <5>5, <5>6, <6>2
          <6> QED BY <3>2, <6>1, <6>2
        <5> QED BY <3>1, <3>3, <5>7 DEF RelayInOrder
      <4> QED BY <3>2, <4>1, <4>2
    <3>6. DuringRelay'
      BY <2>1, <2>2, <3>1, <3>2, <3>3 DEF DuringRelay, ConnectInv
    <3>7. BeforeRelay' /\ StreamFaithful' /\ OrphansExplained'
      BY <2>2, <3>1 DEF BeforeRelay, StreamFaithful, OrphansExplained, ConnectInv
    <3> QED BY <3>4, <3>5, <3>6, <3>7 DEF ConnectInv
  <2>3. CASE relaying /\ destSock = "ended"
    <3>1. FailureReply /\ UNCHANGED <<relaying, clientSent, early, destIn, toDest>>
      BY <1>8, <2>3 DEF ClientData
    <3> QED BY <2>1, <2>3, <3>1, FailureReplyKeepsInv
  <2>4. CASE ~relaying \/ destSock = "destroyed"
    <3>1. UNCHANGED <<sockVars, destIn, clientSent, early, toDest, toClient>>
      BY <1>8, <2>4 DEF ClientData
    <3>2. destSock # "open"
      BY <2>4 DEF ConnectInv, BeforeRelay
    <3> QED
      BY <2>1, <3>1, <3>2
         DEF ConnectInv, ConnectTypeOK, BeforeRelay, DuringRelay, StreamFaithful, RelayInOrder,
             OrphansExplained, sockVars, destIn
  <2> QED BY <1>8, <2>2, <2>3, <2>4 DEF ClientData
<1>9. CASE ClientGoes
  BY <1>9 DEF ClientGoes, LoseClient, Phase, ConnectInv, ConnectTypeOK, BeforeRelay,
              DuringRelay, StreamFaithful, RelayInOrder, OrphansExplained, ClientStates,
              DestStates, clientIn, destIn
<1>10. CASE ServerCloses
  BY <1>10 DEF ServerCloses, ConnectInv, ConnectTypeOK, BeforeRelay, DuringRelay,
               StreamFaithful, RelayInOrder, OrphansExplained, ClientStates, clientIn, destIn
<1>11. CASE UNCHANGED connectVars
  BY <1>11 DEF connectVars, sockVars, clientIn, destIn, ConnectInv, ConnectTypeOK,
               BeforeRelay, DuringRelay, StreamFaithful, RelayInOrder, OrphansExplained
<1> QED BY <1>1, <1>2, <1>3, <1>4, <1>5, <1>6, <1>7, <1>8, <1>9, <1>10, <1>11 DEF ConnectNext

\* The inductive invariant of the relay: what has been relayed and where the
\* two streams stand, in every state of the two sockets.
THEOREM ConnectInvariant == ConnectSpec => []ConnectInv
BY InitConnectInv, NextConnectInv, PTL DEF ConnectSpec

\* Every variable of the relay keeps its type, the two streams included.
THEOREM ConnectTypeCorrect == ConnectSpec => []ConnectTypeOK
BY ConnectInvariant, PTL DEF ConnectInv

\* However many chunks either end sends and whenever a socket fails, the
\* client reads one success reply and then the destination's stream in order,
\* with at most a failure reply at the very end.
THEOREM StreamIsFaithful == ConnectSpec => []StreamFaithful
BY ConnectInvariant, PTL DEF ConnectInv

\* The destination gets one gapless piece of the client's stream, from its
\* beginning if the client waited for the reply.
THEOREM RelayKeepsOrder == ConnectSpec => []RelayInOrder
BY ConnectInvariant, PTL DEF ConnectInv

\* Nothing but an early client or a shutdown leaves a destination behind.
THEOREM OrphansAreExplained == ConnectSpec => []OrphansExplained
BY ConnectInvariant, PTL DEF ConnectInv
-----------------------------------------------------------------------------
(* The refinement of HandlerOutline *)

\* A function on one socket is changed by changing its value.
LEMMA OneSocket ==
    ASSUME NEW c, NEW x, NEW y
    PROVE  [[s \in {c} |-> x] EXCEPT ![c] = y] = [s \in {c} |-> y]
  OBVIOUS

\* What has been written begins with a reply.
LEMMA AnsweredFirst ==
    ASSUME ConnectInv
    PROVE  Answered \in {"authOk", "commandReply"}
<1>1. toClient \in Seq(Chunks \cup {Success, Failure})
  BY DEF ConnectInv, ConnectTypeOK
<1>2. ASSUME toClient # <<>>
      PROVE  toClient[1] \in {Success, Failure}
  <2> DEFINE n == Len(toClient)
  <2>1. n \in Nat /\ n >= 1
    BY <1>1, <1>2
  <2>2. CASE toClient[n] = Failure /\ n = 1
    BY <2>2
  <2>3. CASE toClient[n] = Failure /\ n # 1
    <3>1. 1 \in 1..(n - 1) /\ n > 0
      BY <2>1, <2>3
    <3> QED BY <3>1, <2>3 DEF ConnectInv, StreamFaithful
  <2>4. CASE toClient[n] # Failure
    <3>1. 1 \in 1..n
      BY <2>1
    <3> QED BY <3>1, <2>4 DEF ConnectInv, StreamFaithful
  <2> QED BY <2>2, <2>3, <2>4
<1> QED BY <1>2 DEF Answered

\* What is written is a reply, or comes after one.
LEMMA SomethingWritten ==
    ASSUME NEW S, toClient \in Seq(S), NEW x \in S, toClient' = Append(toClient, x),
           Answered \in {"authOk", "commandReply"},
           toClient # <<>> \/ x \in {Success, Failure}
    PROVE  Answered' = "commandReply"
<1>1. CASE toClient = <<>>
  <2>1. toClient' # <<>> /\ toClient'[1] = x
    BY <1>1
  <2> QED BY <2>1, <1>1 DEF Answered
<1>2. CASE toClient # <<>>
  <2>1. toClient' # <<>> /\ toClient'[1] = toClient[1]
    BY <1>2
  <2>2. toClient[1] \in {Success, Failure}
    BY <1>2 DEF Answered
  <2> QED BY <2>1, <2>2 DEF Answered
<1> QED BY <1>1, <1>2

\* A reply to an open client.
LEMMA Replies ==
    ASSUME clientSock = "open", clientSock' = "open", Answered' = "commandReply"
    PROVE  Outline!HandlerNext
<1> HIDE DEF Answered
<1>1. Outline!Session!Send(Outline!Client, "commandReply", "open")
  BY OneSocket DEF Outline!Session!Send, Outline!Session!SetSock
<1>2. Outline!Session!HandlerSucceeds(Outline!Client)
  BY <1>1 DEF Outline!Session!HandlerSucceeds, Outline!Session!Readable,
              Outline!Session!Running, Outline!Session!filterVars
<1> QED BY <1>2 DEF Outline!HandlerNext

\* A failure reply to an open client, whose socket is then destroyed.
LEMMA RepliesFailure ==
    ASSUME clientSock = "open", clientSock' = "destroyed", Answered' = "commandReply"
    PROVE  Outline!HandlerNext
<1> HIDE DEF Answered
<1>1. Outline!Session!Send(Outline!Client, "commandReply", "destroyed")
  BY OneSocket DEF Outline!Session!Send, Outline!Session!SetSock
<1>2. Outline!Session!HandlerFails(Outline!Client)
  BY <1>1 DEF Outline!Session!HandlerFails, Outline!Session!Readable,
              Outline!Session!Running, Outline!Session!filterVars
<1> QED BY <1>2 DEF Outline!HandlerNext

\* The client socket is destroyed, by its peer or by a write after its end.
LEMMA Goes ==
    ASSUME clientSock \in {"open", "ended"}, clientSock' = "destroyed", Answered' = Answered
    PROVE  Outline!HandlerNext
<1> HIDE DEF Answered
<1>1. Outline!Session!PeerEnds(Outline!Client)
  BY OneSocket DEF Outline!Session!PeerEnds, Outline!Session!SetSock, Outline!Session!Readable,
              Outline!Session!Running, Outline!Session!dialogVars, Outline!Session!poolVars,
              Outline!Session!filterVars
<1> QED BY <1>1 DEF Outline!HandlerNext

\* Every step of the relay is one of the outline, or changes nothing it shows.
LEMMA ConnectOutlined ==
    ASSUME ConnectInv, [ConnectNext]_connectVars
    PROVE  [Outline!HandlerNext]_<<clientSock, Answered>>
<1> DEFINE Shown == [Outline!HandlerNext]_<<clientSock, Answered>>
           Said  == Chunks \cup {Success, Failure}
<1>1. toClient \in Seq(Said) /\ clientSock \in ClientStates
  BY DEF ConnectInv, ConnectTypeOK
<1>2. ASSUME clientSock' = clientSock, toClient' = toClient
      PROVE  Shown
  BY <1>2 DEF Answered
<1>3. ASSUME clientSock' = "destroyed", toClient' = toClient
      PROVE  Shown
  <2>1. Answered' = Answered
    BY <1>3 DEF Answered
  <2>2. CASE clientSock = "destroyed"
    BY <2>1, <2>2, <1>3
  <2>3. CASE clientSock \in {"open", "ended"}
    BY <2>1, <2>3, <1>3, Goes
  <2> QED BY <2>2, <2>3, <1>1 DEF ClientStates
<1>4. ASSUME FailureReply
      PROVE  Shown
  <2>1. CASE clientSock = "open"
    <3>1. clientSock' = "destroyed" /\ toClient' = Append(toClient, Failure)
      BY <2>1, <1>4 DEF FailureReply, Cleanup, LoseClient
    <3>2. Answered' = "commandReply"
      BY <3>1, <1>1, AnsweredFirst, SomethingWritten
    <3> QED BY <2>1, <3>1, <3>2, RepliesFailure
  <2>2. CASE clientSock # "open"
    BY <2>2, <1>3, <1>4 DEF FailureReply, Cleanup, LoseClient
  <2> QED BY <2>1, <2>2
<1>5. CASE DestConnects
  <2>1. CASE clientSock = "open"
    <3>1. clientSock' = "open" /\ toClient' = Append(toClient, Success)
      BY <2>1, <1>5 DEF DestConnects
    <3>2. Answered' = "commandReply"
      BY <3>1, <1>1, AnsweredFirst, SomethingWritten
    <3> QED BY <2>1, <3>1, <3>2, Replies
  <2>2. CASE clientSock # "open"
    BY <2>2, <1>2, <1>3, <1>5 DEF DestConnects, Cleanup, LoseClient
  <2> QED BY <2>1, <2>2
<1>6. CASE DestErrors
  BY <1>4, <1>6 DEF DestErrors
<1>7. CASE DestData
  <2>1. CASE clientSock = "open"
    <3>1. clientSock' = clientSock /\ destSock = "open" /\ toClient' = Append(toClient, destRead')
      BY <2>1, <1>7 DEF DestData, sockVars
    <3>2. Len(toClient) = destRead + 1 /\ destRead \in Nat /\ destRead' \in Said
      BY <2>1, <3>1, <1>7, ConnectAssumption
      DEF ConnectInv, ConnectTypeOK, DuringRelay, DestData, ConnectAssumption, Chunks
    <3>3. toClient # <<>>
      BY <3>2, <1>1
    <3>4. Answered = "commandReply" /\ Answered' = "commandReply"
      BY <3>1, <3>2, <3>3, <1>1, AnsweredFirst, SomethingWritten DEF Answered
    <3> QED BY <3>1, <3>4
  <2>2. CASE clientSock # "open"
    BY <2>2, <1>2, <1>7 DEF DestData, sockVars
  <2> QED BY <2>1, <2>2
<1>8. CASE ClientData
  BY <1>2, <1>4, <1>8 DEF ClientData, sockVars
<1>9. CASE ClientGoes \/ ServerCloses
  BY <1>3, <1>9 DEF ClientGoes, ServerCloses, LoseClient
<1>10. CASE DestSends \/ DestEnds \/ DestFinishes \/ ClientSends \/ UNCHANGED connectVars
  BY <1>2, <1>10 DEF DestSends, DestEnds, DestFinishes, ClientSends, connectVars, sockVars
<1> QED BY <1>5, <1>6, <1>7, <1>8, <1>9, <1>10 DEF ConnectNext

\* The relay begins on a connection that is open, or ended by us, unanswered.
LEMMA InitConnectOutlined == ConnectInit => Outline!HandlerInit
  BY DEF ConnectInit, Outline!HandlerInit, Answered, Outline!Session!Replies

\* The CONNECT relay implements what SocksSession outlines of it (the listeners
\* of ConnectCommandHandler, as far as the client socket can tell).
THEOREM ConnectImplementsOutline == ConnectSpec => ImplementsOutline
  BY InitConnectOutlined, ConnectOutlined, ConnectInvariant, PTL
  DEF ConnectSpec, ImplementsOutline, Outline!HandlerSpec
=============================================================================
