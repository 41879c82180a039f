------------------------- MODULE HttpSession_proofs -------------------------
(***************************************************************************)
(* What a client of the HTTP proxy can rely on once its request was        *)
(* accepted, for streams and bodies of any length.                         *)
(***************************************************************************)
EXTENDS HttpSession, TLAPS

-----------------------------------------------------------------------------
(* The exchange of an HttpSession *)

\* The invariant holds when the request has been accepted.
LEMMA InitExchangeInv == ExchangeInit => ExchangeInv
<1> SUFFICES ASSUME ExchangeInit PROVE ExchangeInv
  OBVIOUS
<1>1. 0 \in 0..MaxBody /\ 0 \in 0..0
  BY ExchangeAssumption DEF ExchangeAssumption
<1>2. toUpstream = <<>> /\ resBody = <<>>
  BY DEF ExchangeInit
<1>3. toUpstream \in Seq(Body \cup {Headers}) /\ resBody \in Seq(Body) /\ Len(resBody) = 0
  BY <1>2
<1>4. ExchangeTypeOK
  BY <1>1, <1>3 DEF ExchangeInit, ExchangeTypeOK
<1>5. AnswerPosition /\ BodyPosition /\ EndMeansComplete
  BY <1>2, <1>3 DEF ExchangeInit, AnswerPosition, BodyPosition, EndMeansComplete
<1> QED BY <1>4, <1>5 DEF ExchangeInv

\* Every event of the request and of the other server keeps the invariant.
LEMMA NextExchangeInv == ExchangeInv /\ [ExchangeNext]_exchangeVars => ExchangeInv'
<1> SUFFICES ASSUME ExchangeInv, [ExchangeNext]_exchangeVars PROVE ExchangeInv'
  OBVIOUS
<1>t. /\ MaxBody \in Nat
      /\ exchange \in {"request", "websocket"} /\ nodeProcess \in {"running", "crashed"}
      /\ client \in {"open", "gone"}
      /\ bodySent \in 0..MaxBody /\ bodyRead \in 0..bodySent
      /\ bodyFin \in BOOLEAN /\ bodyEnd \in BOOLEAN
      /\ upstream \in {"pending", "open", "ended", "closed"}
      /\ upSent \in 0..MaxBody /\ upRead \in 0..upSent
      /\ upFin \in {"no", "complete", "cut"}
      /\ toUpstream \in Seq(Body \cup {Headers})
      /\ resHead \in {"none", "answer", "error", "switching"}
      /\ resBody \in Seq(Body) /\ resEnded \in BOOLEAN
  BY ExchangeAssumption DEF ExchangeAssumption, ExchangeInv, ExchangeTypeOK
<1>i. AnswerPosition /\ BodyPosition /\ EndMeansComplete
  BY DEF ExchangeInv
<1>1. CASE ClientSendsBody
  <2>0. /\ ~bodyFin
        /\ UNCHANGED <<exchange, nodeProcess, client, bodyRead, bodyEnd, upstream, upSent, upFin,
                       upRead, toUpstream, resHead, resBody, resEnded>>
    BY <1>1 DEF ClientSendsBody, upVars, resVars
  <2>1. bodySent' \in bodySent..MaxBody /\ bodyFin' \in BOOLEAN
    <3>1. CASE bodySent < MaxBody /\ bodySent' = bodySent + 1 /\ UNCHANGED bodyFin
      BY <1>t, <3>1
    <3>2. CASE bodyFin' = TRUE /\ UNCHANGED bodySent
      BY <1>t, <3>2
    <3> QED BY <1>1, <3>1, <3>2 DEF ClientSendsBody
  <2>2. ExchangeTypeOK'
    BY <1>t, <2>0, <2>1 DEF ExchangeTypeOK
  <2>3. AnswerPosition' /\ BodyPosition' /\ EndMeansComplete'
    BY <1>i, <2>0 DEF AnswerPosition, BodyPosition, EndMeansComplete
  <2> QED BY <2>2, <2>3 DEF ExchangeInv
<1>2. CASE RequestData
  <2>1. /\ bodyRead < bodySent /\ bodyRead' = bodyRead + 1
        /\ toUpstream' = IF upstream # "closed" THEN Append(toUpstream, bodyRead + 1) ELSE toUpstream
        /\ UNCHANGED <<exchange, nodeProcess, client, bodySent, bodyFin, bodyEnd>>
        /\ UNCHANGED <<upstream, upSent, upFin, upRead, resHead, resBody, resEnded>>
    BY <1>2 DEF RequestData, upVars, resVars
  <2>2. bodyRead + 1 \in Body
    BY <1>t, <2>1 DEF Body
  <2>3. ExchangeTypeOK'
    <3>1. toUpstream' \in Seq(Body \cup {Headers})
      BY <1>t, <2>1, <2>2
    <3> QED BY <1>t, <2>1, <3>1 DEF ExchangeTypeOK
  <2>4. BodyPosition'
    <3>1. bodyEnd' => bodyFin' /\ bodyRead' = bodySent'
      BY <1>t, <1>i, <2>1 DEF BodyPosition
    <3>2. ASSUME upstream # "closed", NEW i \in 1..(bodyRead + 1)
          PROVE  \E j \in 1..Len(toUpstream') : toUpstream'[j] = i
      <4>1. /\ Len(toUpstream) \in Nat /\ Len(toUpstream') = Len(toUpstream) + 1
            /\ toUpstream'[Len(toUpstream) + 1] = bodyRead + 1
            /\ \A j \in 1..Len(toUpstream) : toUpstream'[j] = toUpstream[j]
        BY <1>t, <2>1, <2>2, <3>2
      <4>2. CASE i = bodyRead + 1
        BY <4>1, <4>2
      <4>3. CASE i \in 1..bodyRead
        <5>1. PICK j \in 1..Len(toUpstream) : toUpstream[j] = i
          BY <1>i, <3>2, <4>3 DEF BodyPosition
        <5>2. j \in 1..Len(toUpstream') /\ toUpstream'[j] = i
          BY <4>1, <5>1
        <5> QED BY <5>2
      <4> QED BY <1>t, <4>2, <4>3
    <3> QED BY <2>1, <3>1, <3>2 DEF BodyPosition
  <2>5. AnswerPosition' /\ EndMeansComplete'
    BY <1>i, <2>1 DEF AnswerPosition, EndMeansComplete
  <2> QED BY <2>3, <2>4, <2>5 DEF ExchangeInv
<1>3. CASE RequestEnds
  <2>1. /\ bodyFin /\ bodyRead = bodySent /\ bodyEnd' = TRUE
        /\ upstream' = upstream \/ upstream' = "closed" \/ (upstream = "open" /\ upstream' = "ended")
        /\ upstream = "pending" => upstream' = "pending" \/ resEnded
        /\ UNCHANGED <<exchange, nodeProcess, client, bodySent, bodyFin, bodyRead, upSent, upFin,
                       upRead, toUpstream, resHead, resBody, resEnded>>
    BY <1>3 DEF RequestEnds, EndUpstream, resVars
  <2>2. upstream' \in {"pending", "open", "ended", "closed"}
    BY <1>t, <2>1
  <2>3. ExchangeTypeOK'
    BY <1>t, <2>1, <2>2 DEF ExchangeTypeOK
  <2>4. AnswerPosition'
    BY <1>t, <1>i, <2>1 DEF AnswerPosition, EndMeansComplete
  <2>5. BodyPosition' /\ EndMeansComplete'
    BY <1>t, <1>i, <2>1 DEF BodyPosition, EndMeansComplete, AnswerPosition
  <2> QED BY <2>3, <2>4, <2>5 DEF ExchangeInv
<1>4. CASE ClientLeaves
  <2>1. /\ client' = "gone"
        /\ UNCHANGED <<exchange, nodeProcess, bodySent, bodyFin, bodyRead, bodyEnd, upstream, upSent,
                       upFin, upRead, toUpstream, resHead, resBody, resEnded>>
    BY <1>4 DEF ClientLeaves, reqVars, upVars, resVars
  <2>2. ExchangeTypeOK'
    BY <1>t, <2>1 DEF ExchangeTypeOK
  <2>3. AnswerPosition' /\ BodyPosition' /\ EndMeansComplete'
    BY <1>i, <2>1 DEF AnswerPosition, BodyPosition, EndMeansComplete
  <2> QED BY <2>2, <2>3 DEF ExchangeInv
<1>5. CASE UpstreamSends
  <2>1. /\ upstream \in {"open", "ended"} /\ upFin = "no"
        /\ upSent' \in 0..MaxBody /\ upSent <= upSent'
        /\ upFin' \in {"no", "complete", "cut"}
        /\ UNCHANGED <<exchange, nodeProcess, client, bodySent, bodyFin, bodyRead, bodyEnd, upstream,
                       upRead, toUpstream, resHead, resBody, resEnded>>
    BY <1>t, <1>5 DEF UpstreamSends, reqVars, resVars
  <2>2. resHead \notin {"none", "error"} /\ ~resEnded
    BY <1>i, <2>1 DEF AnswerPosition, EndMeansComplete
  <2>3. ExchangeTypeOK'
    BY <1>t, <2>1 DEF ExchangeTypeOK
  <2>4. AnswerPosition' /\ BodyPosition' /\ EndMeansComplete'
    BY <1>i, <2>1, <2>2 DEF AnswerPosition, BodyPosition, EndMeansComplete
  <2> QED BY <2>3, <2>4 DEF ExchangeInv
<1>6. CASE UpstreamBegins
  <2>1. /\ upstream = "pending" /\ resHead = "none"
        /\ UNCHANGED <<exchange, nodeProcess, client, bodySent, bodyFin, bodyRead, bodyEnd, upSent,
                       upFin, upRead, resBody, resEnded>>
    BY <1>i, <1>6 DEF UpstreamBegins, reqVars, AnswerPosition
  <2>2. ~resEnded
    BY <1>i, <2>1 DEF EndMeansComplete
  <2>3. CASE ResponseBegins
    <3>1. /\ exchange = "request" /\ resHead' = "answer" /\ upstream' = "open" /\ toUpstream' = toUpstream
      BY <2>3 DEF ResponseBegins
    <3>2. ExchangeTypeOK'
      BY <1>t, <2>1, <3>1 DEF ExchangeTypeOK
    <3>3. AnswerPosition' /\ BodyPosition' /\ EndMeansComplete'
      BY <1>i, <2>1, <2>2, <3>1 DEF AnswerPosition, BodyPosition, EndMeansComplete
    <3> QED BY <3>2, <3>3 DEF ExchangeInv
  <2>4. CASE WebSocketConnects
    <3>1. /\ exchange = "websocket" /\ resHead' = "switching"
          /\ upstream' \in {"closed", "open"}
          /\ toUpstream' = toUpstream \/ toUpstream' = Append(toUpstream, Headers)
      BY <2>4 DEF WebSocketConnects
    <3>2. /\ toUpstream' \in Seq(Body \cup {Headers})
          /\ Len(toUpstream) <= Len(toUpstream')
          /\ \A j \in 1..Len(toUpstream) : toUpstream'[j] = toUpstream[j]
      BY <1>t, <3>1
    <3>3. ExchangeTypeOK'
      BY <1>t, <2>1, <3>1, <3>2 DEF ExchangeTypeOK
    <3>4. \A i \in 1..bodyRead : \E j \in 1..Len(toUpstream') : toUpstream'[j] = i
      <4> SUFFICES ASSUME NEW i \in 1..bodyRead
                   PROVE  \E j \in 1..Len(toUpstream') : toUpstream'[j] = i
        OBVIOUS
      <4>1. PICK j \in 1..Len(toUpstream) : toUpstream[j] = i
        BY <1>i, <2>1 DEF BodyPosition
      <4>2. j \in 1..Len(toUpstream') /\ toUpstream'[j] = i
        BY <1>t, <3>2, <4>1
      <4> QED BY <4>2
    <3>5. BodyPosition'
      BY <1>i, <2>1, <3>4 DEF BodyPosition
    <3>6. AnswerPosition' /\ EndMeansComplete'
      BY <1>i, <2>1, <2>2, <3>1 DEF AnswerPosition, EndMeansComplete
    <3> QED BY <3>3, <3>5, <3>6 DEF ExchangeInv
  <2> QED BY <1>6, <2>3, <2>4 DEF UpstreamBegins
<1>7. CASE UpstreamData
  <2>1. /\ upstream \in {"open", "ended"} /\ upRead < upSent /\ upRead' = upRead + 1
        /\ exchange = "request" => client = "open"
        /\ resBody' = IF client = "open" THEN Append(resBody, upRead + 1) ELSE resBody
        /\ UNCHANGED <<exchange, nodeProcess, client, bodySent, bodyFin, bodyRead, bodyEnd, upstream,
                       upSent, upFin, toUpstream, resHead, resEnded>>
    BY <1>7 DEF UpstreamData, reqVars
  <2>2. upRead + 1 \in Body
    BY <1>t, <2>1 DEF Body
  <2>3. ~resEnded
    <3>1. resEnded => resHead = "answer" /\ Len(resBody) = upSent /\ exchange = "request"
      BY <1>t, <1>i, <2>1 DEF EndMeansComplete, AnswerPosition
    <3>2. resEnded => Len(resBody) = upRead
      BY <1>i, <2>1, <3>1 DEF AnswerPosition
    <3> QED BY <1>t, <2>1, <3>1, <3>2
  <2>4. CASE client = "open"
    <3>1. /\ Len(resBody) = upRead
          /\ resBody' \in Seq(Body) /\ Len(resBody') = upRead + 1
          /\ resBody'[upRead + 1] = upRead + 1
          /\ \A i \in 1..upRead : resBody'[i] = resBody[i]
      BY <1>t, <1>i, <2>1, <2>2, <2>4 DEF AnswerPosition
    <3>2. \A i \in 1..Len(resBody') : resBody'[i] = i
      BY <1>t, <1>i, <3>1 DEF EndMeansComplete
    <3>3. ExchangeTypeOK'
      BY <1>t, <2>1, <3>1 DEF ExchangeTypeOK
    <3>4. AnswerPosition' /\ BodyPosition' /\ EndMeansComplete'
      BY <1>t, <1>i, <2>1, <2>3, <3>1, <3>2 DEF AnswerPosition, BodyPosition, EndMeansComplete
    <3> QED BY <3>3, <3>4 DEF ExchangeInv
  <2>5. CASE client # "open"
    <3>1. ExchangeTypeOK'
      BY <1>t, <2>1, <2>5 DEF ExchangeTypeOK
    <3>2. AnswerPosition' /\ BodyPosition' /\ EndMeansComplete'
      BY <1>t, <1>i, <2>1, <2>3, <2>5 DEF AnswerPosition, BodyPosition, EndMeansComplete
    <3> QED BY <3>1, <3>2 DEF ExchangeInv
  <2> QED BY <2>4, <2>5
<1>8. CASE UpstreamEnds
  <2>1. /\ upstream \in {"open", "ended"} /\ ~resEnded /\ upFin # "no" /\ upRead = upSent
        /\ UNCHANGED <<exchange, nodeProcess, bodySent, bodyFin, bodyRead, bodyEnd, upSent, upFin,
                       upRead, toUpstream, resHead, resBody>>
    BY <1>8 DEF UpstreamEnds, reqVars
  <2>2. CASE AnswerEnds
    <3>1. /\ exchange = "request" /\ client = "open" /\ client' = client
          /\ resEnded' = (upFin = "complete")
          /\ upstream' = upstream \/ upstream' = "closed"
      BY <2>2 DEF AnswerEnds
    <3>2. resHead = "answer" /\ Len(resBody) = upSent
      BY <1>t, <1>i, <2>1, <3>1 DEF AnswerPosition
    <3>3. ExchangeTypeOK'
      BY <1>t, <2>1, <3>1 DEF ExchangeTypeOK
    <3>4. AnswerPosition' /\ BodyPosition' /\ EndMeansComplete'
      BY <1>i, <2>1, <3>1, <3>2 DEF AnswerPosition, BodyPosition, EndMeansComplete
    <3> QED BY <3>3, <3>4 DEF ExchangeInv
  <2>3. CASE WebSocketEnds
    <3>1. /\ exchange = "websocket" /\ client' = "gone" /\ upstream' = "closed" /\ resEnded' = resEnded
      BY <2>3 DEF WebSocketEnds
    <3>2. ExchangeTypeOK'
      BY <1>t, <2>1, <3>1 DEF ExchangeTypeOK
    <3>3. AnswerPosition' /\ BodyPosition' /\ EndMeansComplete'
      BY <1>i, <2>1, <3>1 DEF AnswerPosition, BodyPosition, EndMeansComplete
    <3> QED BY <3>2, <3>3 DEF ExchangeInv
  <2> QED BY <1>8, <2>2, <2>3 DEF UpstreamEnds
<1>9. CASE UpstreamErrors
  <2>1. /\ upstream # "closed" /\ upstream' = "closed"
        /\ UNCHANGED <<exchange, client, bodySent, bodyFin, bodyRead, bodyEnd, upSent, upFin, upRead,
                       toUpstream, resBody>>
        /\ \/ exchange = "request" /\ (Answer500 \/ WriteHeadThrows)
           \/ exchange = "websocket" /\ UNCHANGED <<nodeProcess, resHead, resEnded>>
    BY <1>9 DEF UpstreamErrors, reqVars
  <2>2. CASE exchange = "request" /\ Answer500
    <3>1. resHead = "none" /\ resHead' = "error" /\ resEnded' = TRUE /\ nodeProcess' = nodeProcess
      BY <2>2 DEF Answer500
    <3>2. resBody = <<>>
      BY <1>t, <1>i, <3>1 DEF AnswerPosition
    <3>3. ExchangeTypeOK'
      BY <1>t, <2>1, <3>1 DEF ExchangeTypeOK
    <3>4. AnswerPosition' /\ BodyPosition' /\ EndMeansComplete'
      BY <1>i, <2>1, <2>2, <3>1, <3>2 DEF AnswerPosition, BodyPosition, EndMeansComplete
    <3> QED BY <3>3, <3>4 DEF ExchangeInv
  <2>3. CASE ~(exchange = "request" /\ Answer500)
    <3>1. nodeProcess' \in {"running", "crashed"} /\ resHead' = resHead /\ resEnded' = resEnded
      BY <1>t, <2>1, <2>3 DEF WriteHeadThrows
    <3>2. ExchangeTypeOK'
      BY <1>t, <2>1, <3>1 DEF ExchangeTypeOK
    <3>3. AnswerPosition' /\ BodyPosition' /\ EndMeansComplete'
      BY <1>i, <2>1, <3>1 DEF AnswerPosition, BodyPosition, EndMeansComplete
    <3> QED BY <3>2, <3>3 DEF ExchangeInv
  <2> QED BY <2>2, <2>3
<1>10. CASE UNCHANGED exchangeVars
  <2>1. UNCHANGED <<exchange, nodeProcess, client, bodySent, bodyFin, bodyRead, bodyEnd, upstream,
                    upSent, upFin, upRead, toUpstream, resHead, resBody, resEnded>>
    BY <1>10 DEF exchangeVars, reqVars, upVars, resVars
  <2>2. ExchangeTypeOK'
    BY <1>t, <2>1 DEF ExchangeTypeOK
  <2>3. AnswerPosition' /\ BodyPosition' /\ EndMeansComplete'
    BY <1>i, <2>1 DEF AnswerPosition, BodyPosition, EndMeansComplete
  <2> QED BY <2>2, <2>3 DEF ExchangeInv
<1> QED
  BY <1>1, <1>2, <1>3, <1>4, <1>5, <1>6, <1>7, <1>8, <1>9, <1>10 DEF ExchangeNext

-----------------------------------------------------------------------------
(* The tunnel of an HttpsSession *)

\* Chunks are numbered from one, and no answer is a chunk.
LEMMA TunnelConstants ==
    /\ MaxChunks \in Nat
    /\ Established # ServerError
    /\ \A i \in Chunks : i # ServerError
    /\ \A i \in Chunks : i \in Nat \ {0}
<1>1. MaxChunks \in Nat /\ Established # ServerError /\ \A i \in Chunks : i # ServerError
  BY TunnelAssumption DEF TunnelAssumption
<1>2. \A i \in Chunks : i \in Nat \ {0}
  BY <1>1 DEF Chunks
<1> QED BY <1>1, <1>2

\* The types of the tunnel's variables, one by one.
LEMMA TunnelTypes ==
    ASSUME TunnelTypeOK
    PROVE  /\ kind \in {"tunnel", "upgrade"} /\ head \in 0..1
           /\ clientSock \in ClientStates /\ destSock \in DestStates
           /\ clientSent \in 0..MaxChunks /\ clientRead \in 0..clientSent
           /\ destSent \in 0..MaxChunks /\ destRead \in 0..destSent
           /\ clientFin \in BOOLEAN /\ clientEnd \in BOOLEAN /\ destFin \in BOOLEAN
           /\ toDest \in Seq(Chunks)
           /\ toClient \in Seq(Chunks \cup {Established, ServerError})
BY DEF TunnelTypeOK

\* The invariant holds in the turn after net.connect.
LEMMA InitTunnelInv == TunnelInit => TunnelInv
<1> SUFFICES ASSUME TunnelInit PROVE TunnelInv
  OBVIOUS
<1>1. /\ MaxChunks \in Nat \ {0} /\ head \in 0..1
      /\ 0 \in 0..MaxChunks /\ 0 \in 0..0 /\ head \in 0..MaxChunks /\ head \in 0..head
  BY TunnelAssumption DEF TunnelAssumption, TunnelInit
<1>2. toDest = <<>> /\ toClient = <<>>
  BY DEF TunnelInit
<1>3. /\ toDest \in Seq(Chunks) /\ toClient \in Seq(Chunks \cup {Established, ServerError})
      /\ Len(toDest) = 0 /\ Len(toClient) = 0
  BY <1>2
<1>4. TunnelTypeOK
  BY <1>1, <1>3 DEF TunnelInit, TunnelTypeOK, ClientStates, DestStates
<1>5. TunnelClientPosition
  BY <1>2, <1>3 DEF TunnelInit, TunnelClientPosition
<1>6. TunnelDestPosition
  BY <1>1, <1>3 DEF TunnelInit, TunnelDestPosition
<1>7. TunnelStreamFaithful /\ TunnelInOrder
  BY <1>3 DEF TunnelInit, TunnelStreamFaithful, TunnelInOrder
<1> QED BY <1>4, <1>5, <1>6, <1>7 DEF TunnelInv

\* What a write to the client socket does to what the client has been given:
\* an open one is given the next piece of its stream.
LEMMA WriteToClientLemma ==
    ASSUME TunnelTypeOK, TunnelClientPosition, TunnelStreamFaithful,
           NEW x \in Chunks \cup {Established}, WriteToClient(x),
           UNCHANGED <<kind, clientSock>>,
           clientSock = "open" =>
             \/ x = Established /\ Len(toClient) = 0
             \/ x \in Chunks /\ Len(toClient) = x
    PROVE  /\ toClient' \in Seq(Chunks \cup {Established, ServerError})
           /\ TunnelStreamFaithful'
           /\ clientSock # "open" => toClient' = toClient
           /\ clientSock = "open" =>
                /\ Len(toClient') = Len(toClient) + 1
                /\ \A i \in 1..Len(toClient') : toClient'[i] # ServerError
<1> DEFINE n == Len(toClient)
<1>1. toClient \in Seq(Chunks \cup {Established, ServerError}) /\ n \in Nat
  BY TunnelTypes
<1>2. CASE clientSock = "open"
  <2>1. toClient' = Append(toClient, x)
    BY <1>2 DEF WriteToClient
  <2>2. x # ServerError
    BY TunnelConstants
  <2>3. /\ Len(toClient') = n + 1 /\ toClient'[n + 1] = x
        /\ \A i \in 1..n : toClient'[i] = toClient[i]
        /\ toClient' \in Seq(Chunks \cup {Established, ServerError})
    BY <1>1, <2>1
  <2>4. \A i \in 1..n : toClient[i] # ServerError
    BY <1>2 DEF TunnelClientPosition
  <2>5. \A i \in 1..n : toClient[i] = IF i = 1 THEN Established ELSE i - 1
    BY <1>1, <2>4 DEF TunnelStreamFaithful
  <2>6. \A i \in 1..(n + 1) : toClient'[i] # ServerError
    BY <1>1, <2>2, <2>3, <2>4
  <2>7. \A i \in 1..(n + 1) : toClient'[i] = IF i = 1 THEN Established ELSE i - 1
    <3>1. CASE x = Established /\ n = 0
      BY <2>3, <3>1
    <3>2. CASE x \in Chunks /\ n = x
      <4>1. x \in Nat \ {0}
        BY <3>2, TunnelConstants
      <4> QED BY <1>1, <2>3, <2>5, <3>2, <4>1
    <3> QED BY <1>2, <3>1, <3>2
  <2>8. TunnelStreamFaithful'
    BY <1>1, <2>3, <2>6, <2>7 DEF TunnelStreamFaithful
  <2> QED BY <1>2, <2>3, <2>6, <2>8
<1>3. CASE clientSock # "open"
  BY <1>1, <1>3 DEF WriteToClient, TunnelStreamFaithful
<1> QED BY <1>2, <1>3

\* An error of the server socket, whoever causes it: a tunnel's client reads
\* 500 behind everything else.
LEMMA DestFailsKeepsInv ==
    ASSUME TunnelInv, DestFails, destSock # "destroyed",
           clientRead' \in clientRead..clientSent,
           clientRead' = clientRead \/ destSock = "finishing",
           UNCHANGED <<kind, head, clientFlow, clientSent, clientFin, clientEnd,
                       destFlow, destSent, destFin, destRead, toDest>>
    PROVE  TunnelInv'
<1>t. /\ TunnelTypeOK /\ TunnelClientPosition /\ TunnelDestPosition
      /\ TunnelStreamFaithful /\ TunnelInOrder
  BY DEF TunnelInv
<1>c. /\ clientSent \in 0..MaxChunks /\ clientRead \in 0..clientSent /\ MaxChunks \in Nat
      /\ head \in 0..1 /\ toDest \in Seq(Chunks) /\ clientSock \in ClientStates
      /\ toClient \in Seq(Chunks \cup {Established, ServerError})
  BY <1>t, TunnelTypes, TunnelConstants
<1>r. clientRead' \in 0..clientSent /\ clientRead <= clientRead'
  BY <1>c
<1>d. TunnelDestPosition'
  <2>1. destSock' = "destroyed"
    BY DEF DestFails
  <2>2. (clientEnd => clientFin /\ clientRead = clientSent)' /\ head' <= clientRead'
    BY <1>t, <1>c, <1>r DEF TunnelDestPosition
  <2>3. \A i \in 1..Len(toDest) : toDest[i] <= clientRead'
    <3> SUFFICES ASSUME NEW i \in 1..Len(toDest) PROVE toDest[i] <= clientRead'
      OBVIOUS
    <3>1. toDest[i] \in Nat /\ toDest[i] <= clientRead
      BY <1>t, <1>c, TunnelConstants DEF TunnelDestPosition
    <3> QED BY <1>c, <1>r, <3>1
  <2> QED BY <2>1, <2>2, <2>3 DEF TunnelDestPosition
<1>1. CASE kind = "tunnel" /\ WriteToClient(ServerError) /\ DestroyClient("error")
  <2> DEFINE n == Len(toClient)
  <2>1. destSock' = "destroyed" /\ clientSock' = "destroyed" /\ kind' = "tunnel"
    BY <1>1 DEF DestFails, DestroyClient
  <2>2. clientLeft' \in {"no", "end", "reset", "shutdown", "error"}
    BY <1>t, <1>1 DEF DestroyClient, TunnelTypeOK
  <2>3. toClient' \in Seq(Chunks \cup {Established, ServerError}) /\ TunnelStreamFaithful'
    <3>1. CASE clientSock = "open"
      <4>1. toClient' = Append(toClient, ServerError)
        BY <1>1, <3>1 DEF WriteToClient
      <4>2. /\ n \in Nat /\ Len(toClient') = n + 1 /\ toClient'[n + 1] = ServerError
            /\ \A i \in 1..n : toClient'[i] = toClient[i]
            /\ toClient' \in Seq(Chunks \cup {Established, ServerError})
        BY <1>c, <4>1
      <4>3. \A i \in 1..n : toClient[i] # ServerError
        BY <1>t, <3>1 DEF TunnelClientPosition
      <4>4. \A i \in 1..n : toClient[i] = IF i = 1 THEN Established ELSE i - 1
        BY <1>t, <4>2, <4>3 DEF TunnelStreamFaithful
      <4> QED BY <2>1, <4>2, <4>4 DEF TunnelStreamFaithful
    <3>2. CASE clientSock # "open"
      BY <1>t, <1>c, <1>1, <2>1, <3>2 DEF WriteToClient, TunnelStreamFaithful
    <3> QED BY <3>1, <3>2
  <2>4. TunnelTypeOK'
    BY <1>t, <1>r, <2>1, <2>2, <2>3 DEF TunnelTypeOK, ClientStates, DestStates
  <2>5. TunnelClientPosition' /\ TunnelInOrder'
    BY <1>t, <2>1 DEF TunnelClientPosition, TunnelInOrder
  <2> QED BY <1>d, <2>3, <2>4, <2>5 DEF TunnelInv
<1>2. CASE kind = "upgrade" /\ UNCHANGED <<clientSock, clientLeft, toClient>>
  <2>1. destSock' = "destroyed"
    BY DEF DestFails
  <2>2. TunnelTypeOK'
    BY <1>t, <1>r, <1>2, <2>1 DEF TunnelTypeOK, DestStates
  <2>3. TunnelClientPosition' /\ TunnelStreamFaithful' /\ TunnelInOrder'
    BY <1>t, <1>2, <2>1 DEF TunnelClientPosition, TunnelStreamFaithful, TunnelInOrder
  <2> QED BY <1>d, <2>2, <2>3 DEF TunnelInv
<1> QED BY <1>1, <1>2 DEF DestFails

\* One more element at the end of a sequence.
LEMMA AppendedRange ==
    ASSUME NEW S, NEW q \in Seq(S), NEW x \in S, NEW p, p = Append(q, x)
    PROVE  /\ p \in Seq(S) /\ Len(p) = Len(q) + 1 /\ Len(q) \in Nat
           /\ p[Len(q) + 1] = x
           /\ \A i \in 1..Len(q) : p[i] = q[i]
           /\ {p[i] : i \in 1..Len(p)} = {q[i] : i \in 1..Len(q)} \cup {x}
<1>1. /\ p \in Seq(S) /\ Len(p) = Len(q) + 1 /\ Len(q) \in Nat
      /\ p[Len(q) + 1] = x
      /\ \A i \in 1..Len(q) : p[i] = q[i]
  OBVIOUS
<1>2. \A i \in 1..Len(p) : i \in 1..Len(q) \/ i = Len(q) + 1
  BY <1>1
<1>3. \A i \in 1..Len(q) : i \in 1..Len(p)
  BY <1>1
<1>4. Len(q) + 1 \in 1..Len(p)
  BY <1>1
<1>5. {p[i] : i \in 1..Len(p)} \subseteq {q[i] : i \in 1..Len(q)} \cup {x}
  BY <1>1, <1>2
<1>6. {q[i] : i \in 1..Len(q)} \cup {x} \subseteq {p[i] : i \in 1..Len(p)}
  BY <1>1, <1>3, <1>4
<1> QED BY <1>1, <1>5, <1>6

\* The chunks up to the next one.
LEMMA NextChunk == ASSUME NEW n \in Nat PROVE 1..(n + 1) = 1..n \cup {n + 1}
OBVIOUS

\* The callback of net.connect: what was read of the client so far becomes the
\* beginning of what the server gets.
LEMMA ConnectsKeepsInv == ASSUME TunnelInv, DestConnects PROVE TunnelInv'
<1>t. /\ TunnelTypeOK /\ TunnelClientPosition /\ TunnelDestPosition
      /\ TunnelStreamFaithful /\ TunnelInOrder
  BY DEF TunnelInv
<1>c. /\ clientSent \in 0..MaxChunks /\ clientRead \in 0..clientSent /\ MaxChunks \in Nat
      /\ destSent \in 0..MaxChunks /\ destRead \in 0..destSent
      /\ head \in 0..1 /\ toDest \in Seq(Chunks) /\ clientSock \in ClientStates
      /\ toClient \in Seq(Chunks \cup {Established, ServerError})
      /\ kind \in {"tunnel", "upgrade"} /\ clientEnd \in BOOLEAN
  BY <1>t, TunnelTypes, TunnelConstants
<1>1. /\ destSock = "connecting" /\ toClient = <<>> /\ destSent = 0 /\ destRead = 0
      /\ WriteToClient(Established)
      /\ UNCHANGED <<kind, head, clientSock, clientSent, clientFin, clientRead, clientEnd,
                     clientLeft, destFlow, destSent, destFin, destRead>>
  BY <1>t, <1>c DEF DestConnects, TunnelConnects, UpgradeConnects, TunnelClientPosition
<1>2. /\ toClient' \in Seq(Chunks \cup {Established, ServerError})
      /\ TunnelStreamFaithful'
      /\ clientSock = "open" => /\ Len(toClient') = 1
                                /\ \A i \in 1..Len(toClient') : toClient'[i] # ServerError
  <2>1. Len(toClient) = 0
    BY <1>1
  <2>2. /\ toClient' \in Seq(Chunks \cup {Established, ServerError})
        /\ TunnelStreamFaithful'
        /\ clientSock = "open" => /\ Len(toClient') = Len(toClient) + 1
                                  /\ \A i \in 1..Len(toClient') : toClient'[i] # ServerError
    BY <1>t, <1>1, <2>1, WriteToClientLemma
  <2> QED BY <2>1, <2>2
<1>3. /\ clientSock # "ended" /\ clientSock' = clientSock
      /\ clientSock = "destroyed" => clientLeft \in {"reset", "shutdown"}
  BY <1>t, <1>1 DEF TunnelClientPosition
<1>4. destSock' \in {"open", "ended", "destroyed"} /\ clientFlow' \in {"waiting", "flowing", "paused"}
  BY <1>t DEF DestConnects, TunnelConnects, UpgradeConnects, TunnelTypeOK
<1>5. TunnelClientPosition'
  <2>1. /\ destSock' # "connecting" /\ destRead' = 0 /\ clientSock' # "ended"
        /\ clientSock' = "open" => /\ Len(toClient') = 1
                                   /\ \A i \in 1..Len(toClient') : toClient'[i] # ServerError
        /\ clientSock' = "destroyed" => clientLeft' \in {"reset", "shutdown"}
    BY <1>1, <1>2, <1>3, <1>4
  <2>2. clientSock' # "destroyed" => clientSock' = "open"
    BY <1>c, <1>3 DEF ClientStates
  <2> QED BY <2>1, <2>2 DEF TunnelClientPosition
<1>h. /\ HeadChunks \in Seq(Chunks) /\ Len(HeadChunks) = head
      /\ \A i \in 1..head : HeadChunks[i] = 1 /\ i = 1
      /\ \A i \in 1..head : HeadChunks[i] = i
  <2>1. MaxChunks \in Nat \ {0}
    BY TunnelAssumption DEF TunnelAssumption
  <2>2. \A i \in 1..head : i = 1 /\ i \in Chunks
    BY <1>c, <2>1 DEF Chunks
  <2> QED BY <1>c, <2>2 DEF HeadChunks
<1>6. CASE TunnelConnects
  <2>1. /\ kind = "tunnel" /\ toDest' = HeadChunks /\ destSock' = IF clientEnd THEN "ended" ELSE "open"
        /\ clientRead = head
    BY <1>t, <1>1, <1>6 DEF TunnelConnects, TunnelDestPosition
  <2>2. toDest' \in Seq(Chunks) /\ Len(toDest') = head
    BY <1>h, <2>1
  <2>3. TunnelTypeOK'
    BY <1>t, <1>1, <1>2, <1>4, <2>2 DEF TunnelTypeOK, DestStates
  <2>4. TunnelDestPosition'
    <3>1. \A i \in 1..Len(toDest') : toDest'[i] <= clientRead
      BY <1>c, <1>h, <2>1, <2>2
    <3> QED BY <1>t, <1>1, <2>1, <2>2, <3>1 DEF TunnelDestPosition
  <2>5. TunnelInOrder'
    <3>1. \A i, j \in 1..Len(toDest') : i < j => toDest'[i] < toDest'[j]
      BY <1>c, <1>h, <2>1, <2>2
    <3>2. {toDest'[i] : i \in 1..Len(toDest')} = 1..clientRead
      <4>1. \A i \in 1..Len(toDest') : toDest'[i] = i
        BY <1>h, <2>1, <2>2
      <4>2. 1..Len(toDest') = 1..clientRead
        BY <2>1, <2>2
      <4> QED BY <4>1, <4>2
    <3>3. destSock' = "ended" => Len(toDest') = clientSent
      BY <1>t, <2>1, <2>2 DEF TunnelDestPosition
    <3> QED BY <1>1, <1>3, <3>1, <3>2, <3>3 DEF TunnelInOrder
  <2> QED BY <1>2, <1>5, <2>3, <2>4, <2>5 DEF TunnelInv
<1>7. CASE UpgradeConnects
  <2>1. /\ kind = "upgrade" /\ clientFlow' = clientFlow
        /\ toDest' = IF clientEnd THEN toDest ELSE toDest \o HeadChunks
        /\ destSock' = IF clientEnd THEN "destroyed" ELSE "open"
    BY <1>7 DEF UpgradeConnects
  <2>2. /\ Len(toDest) = clientRead - head /\ head <= clientRead
        /\ \A i \in 1..Len(toDest) : toDest[i] = head + i
    BY <1>t, <1>1 DEF TunnelDestPosition
  <2>3. CASE clientEnd
    <3>1. TunnelTypeOK'
      BY <1>t, <1>1, <1>2, <2>1, <2>3 DEF TunnelTypeOK, DestStates
    <3>2. TunnelDestPosition' /\ TunnelInOrder'
      BY <1>t, <1>1, <1>3, <2>1, <2>3 DEF TunnelDestPosition, TunnelInOrder
    <3> QED BY <1>2, <1>5, <3>1, <3>2 DEF TunnelInv
  <2>4. CASE ~clientEnd
    <3> DEFINE n == Len(toDest)
    <3>1. /\ n \in Nat /\ Len(toDest') = n + head /\ toDest' \in Seq(Chunks)
          /\ \A i \in 1..n : toDest'[i] = toDest[i]
          /\ \A i \in 1..(n + head) : i \in 1..n \/ (head = 1 /\ i = n + 1)
          /\ head = 1 => toDest'[n + 1] = 1
      <4>1. toDest' = toDest \o HeadChunks
        BY <2>1, <2>4
      <4>2. n \in Nat /\ toDest' \in Seq(Chunks) /\ Len(toDest') = n + head
        BY <1>c, <1>h, <4>1
      <4>3. \A i \in 1..n : toDest'[i] = toDest[i]
        BY <1>c, <1>h, <4>1
      <4>4. \A i \in 1..(n + head) : i \in 1..n \/ (head = 1 /\ i = n + 1)
        BY <1>c, <4>2
      <4>5. ASSUME head = 1 PROVE toDest'[n + 1] = 1
        <5>1. 1 \in 1..head /\ HeadChunks[1] = 1
          BY <1>h, <4>5
        <5>2. toDest'[n + 1] = HeadChunks[1]
          BY <1>c, <1>h, <4>1, <4>2, <4>5
        <5> QED BY <5>1, <5>2
      <4> QED BY <4>2, <4>3, <4>4, <4>5
    <3>2. TunnelTypeOK'
      BY <1>t, <1>1, <1>2, <2>1, <2>4, <3>1 DEF TunnelTypeOK, DestStates
    <3>3. \A i \in 1..n : toDest'[i] = head + i
      BY <2>2, <3>1
    <3>4. TunnelDestPosition'
      <4>1. n = clientRead - head
        BY <2>2
      <4>2. \A i \in 1..Len(toDest') : toDest'[i] <= clientRead
        BY <1>c, <3>1, <3>3, <4>1
      <4>3. Len(toDest') = clientRead
        BY <1>c, <3>1, <4>1
      <4> QED BY <1>t, <1>1, <2>1, <2>2, <2>4, <4>2, <4>3 DEF TunnelDestPosition
    <3>5. TunnelInOrder'
      <4>1. n = clientRead - head
        BY <2>2
      <4>2. ASSUME NEW i \in 1..Len(toDest'), NEW j \in 1..Len(toDest'), i < j
            PROVE  toDest'[i] < toDest'[j] \/ (head = 1 /\ toDest'[j] = 1)
        BY <1>c, <3>1, <3>3, <4>2
      <4>3. {toDest'[i] : i \in 1..Len(toDest')} = 1..clientRead
        <5>1. ASSUME NEW v \in 1..clientRead PROVE \E i \in 1..Len(toDest') : toDest'[i] = v
          <6>1. CASE head = 1 /\ v = 1
            BY <3>1, <6>1
          <6>2. CASE ~(head = 1 /\ v = 1)
            <7>1. v - head \in 1..n /\ v - head \in 1..Len(toDest')
              BY <1>c, <3>1, <4>1, <6>2
            <7>2. toDest'[v - head] = v
              BY <1>c, <3>3, <7>1
            <7> QED BY <7>1, <7>2
          <6> QED BY <6>1, <6>2
        <5>2. ASSUME NEW i \in 1..Len(toDest') PROVE toDest'[i] \in 1..clientRead
          <6>1. CASE i \in 1..n
            <7>1. toDest'[i] = head + i
              BY <3>3, <6>1
            <7> QED BY <1>c, <3>1, <4>1, <6>1, <7>1
          <6>2. CASE head = 1 /\ i = n + 1
            <7>1. toDest'[i] = 1 /\ 1 <= clientRead
              BY <2>2, <3>1, <6>2
            <7> QED BY <1>c, <7>1
          <6> QED BY <3>1, <6>1, <6>2
        <5> QED BY <5>1, <5>2
      <4> QED BY <1>1, <1>3, <2>1, <2>4, <4>2, <4>3 DEF TunnelInOrder
    <3> QED BY <1>2, <1>5, <3>2, <3>4, <3>5 DEF TunnelInv
  <2> QED BY <1>c, <2>3, <2>4
<1> QED BY <1>6, <1>7 DEF DestConnects

\* A step that gives neither socket anything and does not change how far the
\* server socket is.
LEMMA TunnelQuiet ==
    ASSUME TunnelInv, TunnelTypeOK',
           UNCHANGED <<kind, head, clientRead, destRead, destSock, toDest, toClient>>,
           clientFlow' = clientFlow,
           clientSent' \in clientSent..MaxChunks, destSent' \in destSent..MaxChunks,
           clientFin => clientFin' /\ clientSent' = clientSent,
           destFin => destSent' = destSent,
           clientSock = "ended" => destSent' = destSent,
           destSock = "connecting" => destSent' = destSent,
           clientEnd' = clientEnd,
           \/ clientSock' = clientSock /\ clientLeft' = clientLeft
           \/ clientSock' = "destroyed" /\ clientLeft' \in {"reset", "shutdown"}
    PROVE  TunnelInv'
<1>t. /\ TunnelClientPosition /\ TunnelDestPosition
      /\ TunnelStreamFaithful /\ TunnelInOrder
  BY DEF TunnelInv
<1>1. TunnelClientPosition'
  BY <1>t DEF TunnelClientPosition
<1>2. TunnelDestPosition'
  BY <1>t DEF TunnelDestPosition
<1>3. TunnelStreamFaithful'
  BY <1>t DEF TunnelStreamFaithful
<1>4. TunnelInOrder'
  <2>1. destSock = "ended" => clientSent' = clientSent
    BY <1>t DEF TunnelDestPosition
  <2> QED BY <1>t, <2>1 DEF TunnelInOrder
<1> QED BY <1>1, <1>2, <1>3, <1>4 DEF TunnelInv

\* Every event of the two sockets keeps the invariant.
LEMMA NextTunnelInv == TunnelInv /\ [TunnelNext]_tunnelVars => TunnelInv'
<1> SUFFICES ASSUME TunnelInv, [TunnelNext]_tunnelVars PROVE TunnelInv'
  OBVIOUS
<1>t. /\ TunnelTypeOK /\ TunnelClientPosition /\ TunnelDestPosition
      /\ TunnelStreamFaithful /\ TunnelInOrder
  BY DEF TunnelInv
<1>c. /\ clientSent \in 0..MaxChunks /\ clientRead \in 0..clientSent /\ MaxChunks \in Nat
      /\ destSent \in 0..MaxChunks /\ destRead \in 0..destSent
      /\ head \in 0..1 /\ toDest \in Seq(Chunks)
      /\ clientSock \in ClientStates /\ destSock \in DestStates
      /\ toClient \in Seq(Chunks \cup {Established, ServerError})
      /\ kind \in {"tunnel", "upgrade"}
      /\ clientFin \in BOOLEAN /\ clientEnd \in BOOLEAN /\ destFin \in BOOLEAN
      /\ clientFlow \in {"waiting", "flowing", "paused"} /\ destFlow \in {"flowing", "paused"}
      /\ clientLeft \in {"no", "end", "reset", "shutdown", "error"}
  BY <1>t, TunnelTypes, TunnelConstants DEF TunnelTypeOK
<1>1. CASE DestConnects
  BY <1>1, ConnectsKeepsInv
<1>2. CASE DestErrors
  <2>1. /\ destSock # "destroyed" /\ DestFails /\ clientRead' = clientRead
        /\ UNCHANGED <<kind, head, clientFlow, clientSent, clientFin, clientEnd,
                       destFlow, destSent, destFin, destRead, toDest>>
    BY <1>2 DEF DestErrors
  <2>2. clientRead' \in clientRead..clientSent
    BY <1>c, <2>1
  <2> QED BY <2>1, <2>2, DestFailsKeepsInv
<1>3. CASE DestSends
  <2>1. /\ destSock \in {"open", "ended"} /\ ~destFin
        /\ UNCHANGED <<kind, head, clientSock, clientFlow, clientSent, clientFin, clientRead,
                       clientEnd, clientLeft, destSock, destFlow, destRead, toDest, toClient>>
    BY <1>3 DEF DestSends, clientVars
  <2>2. destSent' \in destSent..MaxChunks /\ destFin' \in BOOLEAN
    <3>1. CASE destSent < MaxChunks /\ destSent' = destSent + 1 /\ UNCHANGED destFin
      BY <1>c, <3>1
    <3>2. CASE destFin' = TRUE /\ UNCHANGED destSent
      BY <1>c, <3>2
    <3> QED BY <1>3, <3>1, <3>2 DEF DestSends
  <2>3. TunnelTypeOK'
    BY <1>c, <2>1, <2>2 DEF TunnelTypeOK
  <2>4. clientSock # "ended" /\ destSock # "connecting"
    BY <1>t, <2>1 DEF TunnelClientPosition
  <2>5. clientSent' \in clientSent..MaxChunks
    BY <1>c, <2>1
  <2> QED BY <2>1, <2>2, <2>3, <2>4, <2>5, TunnelQuiet
<1>4. CASE DestData
  <2>1. /\ destSock \in {"open", "ended"} /\ destRead < destSent /\ destRead' = destRead + 1
        /\ WriteToClient(destRead + 1) /\ destFlow' \in {"flowing", "paused"}
        /\ UNCHANGED <<kind, head, clientSock, clientFlow, clientSent, clientFin, clientRead,
                       clientEnd, clientLeft, destSock, destSent, destFin, toDest>>
    BY <1>4 DEF DestData, clientVars
  <2>2. destRead + 1 \in Chunks
    BY <1>c, <2>1 DEF Chunks
  <2>3. clientSock # "ended" /\ (clientSock = "open" => Len(toClient) = destRead + 1)
    BY <1>t, <2>1 DEF TunnelClientPosition
  <2>4. /\ toClient' \in Seq(Chunks \cup {Established, ServerError})
        /\ TunnelStreamFaithful'
        /\ clientSock = "open" => /\ Len(toClient') = Len(toClient) + 1
                                  /\ \A i \in 1..Len(toClient') : toClient'[i] # ServerError
    <3>1. destRead + 1 \in Chunks \cup {Established}
      BY <2>2
    <3>2. clientSock = "open" => destRead + 1 \in Chunks /\ Len(toClient) = destRead + 1
      BY <2>2, <2>3
    <3> QED BY <1>t, <2>1, <3>1, <3>2, WriteToClientLemma
  <2>5. TunnelTypeOK'
    BY <1>c, <2>1, <2>4 DEF TunnelTypeOK
  <2>6. TunnelClientPosition'
    <3>1. clientSock = "open" => Len(toClient') = destRead' + 1
      BY <1>c, <2>1, <2>3, <2>4
    <3>2. clientSock # "destroyed" => clientSock = "open"
      BY <1>c, <2>3 DEF ClientStates
    <3> QED BY <1>t, <2>1, <2>3, <2>4, <3>1, <3>2 DEF TunnelClientPosition
  <2>7. TunnelDestPosition'
    BY <1>t, <2>1 DEF TunnelDestPosition
  <2>8. TunnelInOrder'
    BY <1>t, <2>1, <2>3 DEF TunnelInOrder
  <2> QED BY <2>4, <2>5, <2>6, <2>7, <2>8 DEF TunnelInv
<1>5. CASE DestEnds
  <2>1. /\ destSock \in {"open", "ended"} /\ destRead = destSent
        /\ destSock' \in {"finishing", "destroyed"}
        /\ UNCHANGED <<kind, head, clientFlow, clientSent, clientFin, clientRead, clientEnd,
                       destFlow, destSent, destFin, destRead, toDest, toClient>>
    BY <1>5 DEF DestEnds
  <2>2. /\ clientSock # "ended"
        /\ clientSock = "open" => Len(toClient) = destSent + 1
        /\ clientSock # "destroyed" => \A i \in 1..Len(toClient) : toClient[i] # ServerError
    BY <1>t, <2>1 DEF TunnelClientPosition
  <2>3. /\ clientLeft' \in {"no", "end", "reset", "shutdown", "error"}
        /\ \/ clientSock' = "destroyed"
           \/ clientSock' = "ended" /\ clientSock = "open"
    <3>1. EndClient
      BY <1>5 DEF DestEnds
    <3>2. CASE clientSock = "open" /\ clientEnd
      BY <1>c, <3>1, <3>2 DEF EndClient, DestroyClient
    <3>3. CASE clientSock = "open" /\ ~clientEnd
      BY <1>c, <3>1, <3>3 DEF EndClient
    <3>4. CASE clientSock = "destroyed"
      BY <1>c, <3>1, <3>4 DEF EndClient
    <3> QED BY <1>c, <2>2, <3>2, <3>3, <3>4 DEF ClientStates
  <2>4. TunnelTypeOK'
    BY <1>c, <2>1, <2>3 DEF TunnelTypeOK, ClientStates, DestStates
  <2>5. TunnelClientPosition' /\ TunnelDestPosition'
    BY <1>t, <2>1, <2>2, <2>3 DEF TunnelClientPosition, TunnelDestPosition
  <2>6. TunnelStreamFaithful'
    <3>1. CASE clientSock = "open"
      <4>1. \A i \in 1..Len(toClient) : toClient[i] # ServerError
        BY <2>2, <3>1
      <4>2. \A i \in 1..Len(toClient) : toClient[i] = IF i = 1 THEN Established ELSE i - 1
        BY <1>t, <1>c, <4>1 DEF TunnelStreamFaithful
      <4> QED BY <1>c, <2>1, <4>1, <4>2 DEF TunnelStreamFaithful
    <3>2. CASE clientSock # "open"
      BY <1>t, <2>1, <2>3, <3>2 DEF TunnelStreamFaithful
    <3> QED BY <3>1, <3>2
  <2>7. TunnelInOrder'
    BY <1>t, <2>1, <2>2, <2>3 DEF TunnelInOrder
  <2> QED BY <2>4, <2>5, <2>6, <2>7 DEF TunnelInv
<1>6. CASE DestFinishes
  <2>1. /\ destSock = "finishing" /\ destSock' = "destroyed"
        /\ clientFlow' \in {"waiting", "flowing", "paused"}
        /\ UNCHANGED <<kind, head, clientSock, clientSent, clientFin, clientRead, clientEnd,
                       clientLeft, destFlow, destSent, destFin, destRead, toDest, toClient>>
    BY <1>c, <1>6 DEF DestFinishes
  <2>2. TunnelTypeOK'
    BY <1>c, <2>1 DEF TunnelTypeOK, DestStates
  <2>3. TunnelClientPosition' /\ TunnelDestPosition'
    BY <1>t, <2>1 DEF TunnelClientPosition, TunnelDestPosition
  <2>4. TunnelStreamFaithful' /\ TunnelInOrder'
    BY <1>t, <2>1 DEF TunnelStreamFaithful, TunnelInOrder
  <2> QED BY <2>2, <2>3, <2>4 DEF TunnelInv
<1>7. CASE ClientSends
  <2>1. /\ ~clientFin
        /\ UNCHANGED <<kind, head, clientSock, clientFlow, clientRead, clientEnd, clientLeft,
                       destSock, destFlow, destSent, destFin, destRead, toDest, toClient>>
    BY <1>7 DEF ClientSends, destVars
  <2>2. clientSent' \in clientSent..MaxChunks /\ clientFin' \in BOOLEAN
    <3>1. CASE clientSent < MaxChunks /\ clientSent' = clientSent + 1 /\ UNCHANGED clientFin
      BY <1>c, <3>1
    <3>2. CASE clientFin' = TRUE /\ UNCHANGED clientSent
      BY <1>c, <3>2
    <3> QED BY <1>7, <3>1, <3>2 DEF ClientSends
  <2>3. TunnelTypeOK'
    BY <1>c, <2>1, <2>2 DEF TunnelTypeOK
  <2>4. destSent' \in destSent..MaxChunks
    BY <1>c, <2>1
  <2> QED BY <2>1, <2>2, <2>3, <2>4, TunnelQuiet
<1>8. CASE ClientData
  <2>1. /\ clientSock # "destroyed" /\ clientFlow = "flowing"
        /\ clientRead < clientSent /\ clientRead' = clientRead + 1
        /\ UNCHANGED <<kind, head, clientFlow, clientSent, clientFin, clientEnd,
                       destFlow, destSent, destFin, destRead>>
    BY <1>8 DEF ClientData
  <2>2. /\ clientRead + 1 \in Chunks /\ clientRead' \in 0..clientSent /\ head <= clientRead + 1
        /\ clientRead' \in clientRead..clientSent
    BY <1>c, <2>1 DEF Chunks
  <2>3. ~clientEnd /\ destSock # "ended"
    BY <1>t, <1>c, <2>1 DEF TunnelDestPosition
  <2>4. CASE destSock \in {"connecting", "open"}
    <3>1. /\ toDest' = Append(toDest, clientRead + 1)
          /\ UNCHANGED <<clientSock, clientLeft, destSock, toClient>>
      BY <1>8, <2>1, <2>4 DEF ClientData
    <3>2. /\ toDest' \in Seq(Chunks) /\ Len(toDest') = Len(toDest) + 1 /\ Len(toDest) \in Nat
          /\ toDest'[Len(toDest) + 1] = clientRead + 1
          /\ \A i \in 1..Len(toDest) : toDest'[i] = toDest[i]
          /\ {toDest'[i] : i \in 1..Len(toDest')} =
               {toDest[i] : i \in 1..Len(toDest)} \cup {clientRead + 1}
      BY <1>c, <2>2, <3>1, AppendedRange
    <3>3. /\ \A i \in 1..Len(toDest) : toDest[i] \in Nat /\ toDest[i] <= clientRead
          /\ \A i \in 1..Len(toDest') : i \in 1..Len(toDest) \/ i = Len(toDest) + 1
      <4>1. \A i \in 1..Len(toDest) : toDest[i] \in Nat
        BY <1>c, TunnelConstants
      <4> QED BY <1>t, <3>2, <4>1 DEF TunnelDestPosition
    <3>4. TunnelTypeOK'
      BY <1>c, <2>1, <2>2, <3>1, <3>2 DEF TunnelTypeOK
    <3>5. TunnelClientPosition' /\ TunnelStreamFaithful'
      BY <1>t, <2>1, <3>1 DEF TunnelClientPosition, TunnelStreamFaithful
    <3>6. TunnelDestPosition'
      <4>1. \A i \in 1..Len(toDest') : toDest'[i] <= clientRead + 1
        BY <1>c, <3>2, <3>3
      <4>2. destSock = "connecting" =>
              /\ Len(toDest') = clientRead + 1 - head
              /\ \A i \in 1..Len(toDest') : toDest'[i] = head + i
              /\ kind # "tunnel"
        <5>1. CASE destSock = "connecting"
          <6>1. /\ Len(toDest) = clientRead - head
                /\ \A i \in 1..Len(toDest) : toDest[i] = head + i
                /\ kind # "tunnel"
            BY <1>t, <2>1, <5>1 DEF TunnelDestPosition
          <6> QED BY <1>c, <3>2, <3>3, <6>1
        <5> QED BY <5>1
      <4>3. destSock = "open" => Len(toDest') = clientRead + 1
        BY <1>t, <3>2 DEF TunnelDestPosition
      <4>4. /\ destSock' \in {"connecting", "open"} /\ destSock' = destSock
            /\ clientEnd' = clientEnd /\ clientRead' = clientRead + 1 /\ head' = head /\ kind' = kind
        BY <2>1, <2>4, <3>1
      <4>5. head' <= clientRead'
        BY <2>2, <4>4
      <4>6. ~clientEnd' /\ destSock' # "ended"
        BY <2>3, <4>4
      <4>7. \A i \in 1..Len(toDest') : toDest'[i] <= clientRead'
        BY <4>1, <4>4
      <4>8. destSock' = "connecting" =>
              /\ Len(toDest') = clientRead' - head'
              /\ \A i \in 1..Len(toDest') : toDest'[i] = head' + i
              /\ kind' # "tunnel"
        <5>1. CASE destSock = "connecting"
          <6>1. Len(toDest') = clientRead + 1 - head /\ kind # "tunnel"
            BY <4>2, <5>1
          <6>2. \A i \in 1..Len(toDest') : toDest'[i] = head + i
            BY <4>2, <5>1
          <6>3. Len(toDest') = clientRead' - head' /\ kind' # "tunnel"
            BY <1>c, <4>4, <6>1
          <6>4. \A i \in 1..Len(toDest') : toDest'[i] = head' + i
            BY <4>4, <6>2
          <6> QED BY <6>3, <6>4
        <5>2. CASE destSock # "connecting"
          BY <4>4, <5>2
        <5> QED BY <5>1, <5>2
      <4>9. destSock' = "open" => Len(toDest') = clientRead'
        BY <4>3, <4>4
      <4> QED BY <4>5, <4>6, <4>7, <4>8, <4>9 DEF TunnelDestPosition
    <3>7. TunnelInOrder'
      <4>1. ASSUME NEW i \in 1..Len(toDest'), NEW j \in 1..Len(toDest'), i < j
            PROVE  toDest'[i] < toDest'[j] \/ (kind = "upgrade" /\ head = 1 /\ toDest'[j] = 1)
        <5>1. CASE j \in 1..Len(toDest)
          <6>1. i \in 1..Len(toDest)
            BY <3>2, <4>1, <5>1
          <6>2. toDest[i] < toDest[j] \/ (kind = "upgrade" /\ head = 1 /\ toDest[j] = 1)
            BY <1>t, <4>1, <5>1, <6>1 DEF TunnelInOrder
          <6> QED BY <3>2, <5>1, <6>1, <6>2
        <5>2. CASE j = Len(toDest) + 1
          <6>1. i \in 1..Len(toDest)
            BY <3>2, <4>1, <5>2
          <6>2. toDest'[i] \in Nat /\ toDest'[i] <= clientRead /\ toDest'[j] = clientRead + 1
            BY <3>2, <3>3, <5>2, <6>1
          <6> QED BY <1>c, <6>2
        <5> QED BY <3>3, <5>1, <5>2
      <4>2. destSock = "open" => {toDest'[i] : i \in 1..Len(toDest')} = 1..(clientRead + 1)
        <5>1. destSock = "open" => {toDest[i] : i \in 1..Len(toDest)} = 1..clientRead
          BY <1>t DEF TunnelInOrder
        <5>2. 1..(clientRead + 1) = 1..clientRead \cup {clientRead + 1}
          BY <1>c, NextChunk
        <5> QED BY <3>2, <5>1, <5>2
      <4>3. clientSock = "ended" => Len(toClient) = destSent + 1
        BY <1>t DEF TunnelInOrder
      <4> QED BY <2>1, <2>4, <3>1, <4>1, <4>2, <4>3 DEF TunnelInOrder
    <3> QED BY <3>4, <3>5, <3>6, <3>7 DEF TunnelInv
  <2>5. CASE destSock = "finishing"
    <3>1. DestFails /\ toDest' = toDest
      BY <1>8, <2>5 DEF ClientData
    <3> QED BY <2>1, <2>2, <2>5, <3>1, DestFailsKeepsInv
  <2>6. CASE destSock = "destroyed"
    <3>1. UNCHANGED <<clientSock, clientLeft, destSock, toDest, toClient>>
      BY <1>8, <2>6 DEF ClientData
    <3>2. TunnelTypeOK'
      BY <1>c, <2>1, <2>2, <3>1 DEF TunnelTypeOK
    <3>3. TunnelClientPosition' /\ TunnelStreamFaithful' /\ TunnelInOrder'
      BY <1>t, <2>1, <2>6, <3>1 DEF TunnelClientPosition, TunnelStreamFaithful, TunnelInOrder
    <3>4. \A i \in 1..Len(toDest) : toDest[i] <= clientRead + 1
      <4>1. \A i \in 1..Len(toDest) : toDest[i] \in Nat
        BY <1>c, TunnelConstants
      <4> QED BY <1>t, <1>c, <4>1 DEF TunnelDestPosition
    <3>5. TunnelDestPosition'
      BY <1>t, <2>1, <2>2, <2>3, <2>6, <3>1, <3>4 DEF TunnelDestPosition
    <3> QED BY <3>2, <3>3, <3>5 DEF TunnelInv
  <2> QED BY <1>c, <2>3, <2>4, <2>5, <2>6 DEF DestStates
<1>9. CASE ClientEnds
  <2>1. /\ clientSock # "destroyed" /\ clientFin /\ clientRead = clientSent /\ clientEnd' = TRUE
        /\ destSock' = IF destSock = "open" THEN "ended" ELSE destSock
        /\ UNCHANGED <<kind, head, clientFlow, clientSent, clientFin, clientRead,
                       destFlow, destSent, destFin, destRead, toDest, toClient>>
    BY <1>9 DEF ClientEnds
  <2>2. /\ clientLeft' \in {"no", "end", "reset", "shutdown", "error"}
        /\ \/ clientSock' = clientSock /\ clientLeft' = clientLeft /\ clientSock = "open"
           \/ clientSock' = "destroyed" /\ clientSock = "ended"
    BY <1>c, <1>9, <2>1 DEF ClientEnds, DestroyClient, ClientStates
  <2>3. TunnelTypeOK'
    BY <1>c, <2>1, <2>2 DEF TunnelTypeOK, ClientStates, DestStates
  <2>4. TunnelClientPosition'
    BY <1>t, <2>1, <2>2 DEF TunnelClientPosition
  <2>5. TunnelDestPosition'
    BY <1>t, <2>1 DEF TunnelDestPosition
  <2>6. TunnelStreamFaithful'
    BY <1>t, <2>1, <2>2 DEF TunnelStreamFaithful
  <2>7. TunnelInOrder'
    <3>1. destSock' = "ended" => Len(toDest) = clientSent
      BY <1>t, <2>1 DEF TunnelDestPosition
    <3>2. destSock' = "open" => FALSE
      BY <2>1
    <3> QED BY <1>t, <2>1, <2>2, <3>1, <3>2 DEF TunnelInOrder
  <2> QED BY <2>3, <2>4, <2>5, <2>6, <2>7 DEF TunnelInv
<1>10. ASSUME NEW why \in {"reset", "shutdown"}, ClientGoes(why) PROVE TunnelInv'
  <2>1. /\ clientSock' = "destroyed" /\ clientLeft' = why /\ destFlow' \in {"flowing", "paused"}
        /\ UNCHANGED <<kind, head, clientFlow, clientSent, clientFin, clientRead, clientEnd,
                       destSock, destSent, destFin, destRead, toDest, toClient>>
    BY <1>c, <1>10 DEF ClientGoes, DestroyClient
  <2>2. TunnelTypeOK'
    BY <1>c, <1>10, <2>1 DEF TunnelTypeOK, ClientStates
  <2>3. clientSent' \in clientSent..MaxChunks /\ destSent' \in destSent..MaxChunks
    BY <1>c, <2>1
  <2> QED BY <1>10, <2>1, <2>2, <2>3, TunnelQuiet
<1>11. CASE UNCHANGED tunnelVars
  <2>1. UNCHANGED <<kind, head, clientSock, clientFlow, clientSent, clientFin, clientRead, clientEnd,
                    clientLeft, destSock, destFlow, destSent, destFin, destRead, toDest, toClient>>
    BY <1>11 DEF tunnelVars, clientVars, destVars
  <2>2. TunnelTypeOK'
    BY <1>c, <2>1 DEF TunnelTypeOK
  <2>3. clientSent' \in clientSent..MaxChunks /\ destSent' \in destSent..MaxChunks
    BY <1>c, <2>1
  <2> QED BY <2>1, <2>2, <2>3, TunnelQuiet
<1> QED
  BY <1>1, <1>2, <1>3, <1>4, <1>5, <1>6, <1>7, <1>8, <1>9, <1>10, <1>11 DEF TunnelNext

-----------------------------------------------------------------------------
(* The session *)

\* The invariant of both holds for the one session there is.
THEOREM HttpSessionInvariant == HttpSessionSpec => []HttpSessionInv
<1>1. HttpSessionInit => HttpSessionInv
  BY InitTunnelInv, InitExchangeInv DEF HttpSessionInit, HttpSessionInv
<1>2. HttpSessionInv /\ [HttpSessionNext]_sessionVars => HttpSessionInv'
  <2> SUFFICES ASSUME HttpSessionInv, [HttpSessionNext]_sessionVars PROVE HttpSessionInv'
    OBVIOUS
  <2>1. /\ class' = class
        /\ [TunnelNext]_tunnelVars /\ [ExchangeNext]_exchangeVars
    BY DEF HttpSessionNext, ServesTunnel, ServesExchange, sessionVars
  <2> QED BY <2>1, NextTunnelInv, NextExchangeInv DEF HttpSessionInv
<1> QED BY <1>1, <1>2, PTL DEF HttpSessionSpec

\* Every variable of tunnel and exchange keeps its type.
THEOREM HttpSessionTypeCorrect == HttpSessionSpec => [](TunnelTypeOK /\ ExchangeTypeOK)
<1>1. HttpSessionInv => TunnelTypeOK /\ ExchangeTypeOK
  BY DEF HttpSessionInv, TunnelInv, ExchangeInv
<1> QED BY <1>1, HttpSessionInvariant, PTL

\* The client of a CONNECT reads one answer and then the server's stream
\* without a gap.
THEOREM TunnelStreamIsFaithful == HttpSessionSpec => []TunnelStreamFaithful
<1>1. HttpSessionInv => TunnelStreamFaithful
  BY DEF HttpSessionInv, TunnelInv
<1> QED BY <1>1, HttpSessionInvariant, PTL

\* The server gets every chunk that was read once and in order, and no end is
\* passed on before the data in front of it.
THEOREM TunnelKeepsOrder == HttpSessionSpec => []TunnelInOrder
<1>1. HttpSessionInv => TunnelInOrder
  BY DEF HttpSessionInv, TunnelInv
<1> QED BY <1>1, HttpSessionInvariant, PTL

\* Only a client that was reset or cut off leaves a server connection behind.
THEOREM TunnelOrphansAre == HttpSessionSpec => []TunnelOrphansExplained
<1>1. HttpSessionInv => TunnelOrphansExplained
  BY DEF HttpSessionInv, TunnelInv, TunnelClientPosition, TunnelOrphansExplained
<1> QED BY <1>1, HttpSessionInvariant, PTL

\* An answer that was ended is the whole answer of the other server, or ours.
THEOREM EndedIsComplete == HttpSessionSpec => []EndMeansComplete
<1>1. HttpSessionInv => EndMeansComplete
  BY DEF HttpSessionInv, ExchangeInv
<1> QED BY <1>1, HttpSessionInvariant, PTL

\* The other server is told of the end of a request only with its whole body.
THEOREM BodyIsWhole == HttpSessionSpec => []BodyWhole
<1>1. HttpSessionInv => BodyWhole
  BY DEF HttpSessionInv, ExchangeInv, BodyPosition, BodyWhole
<1> QED BY <1>1, HttpSessionInvariant, PTL
=============================================================================
