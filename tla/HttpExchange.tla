---------------------------- MODULE HttpExchange ----------------------------
(***************************************************************************)
(* What becomes of a request the HTTP proxy accepted: class HttpSession,   *)
(* with the request (req), the answer (res), the client socket under both, *)
(* and the connection to the other server.                                 *)
(*                                                                         *)
(* A "request" is sent on with http.request; the answer is piped back. A   *)
(* "websocket" request opens a plain connection and copies raw bytes.      *)
(* Chunks of the two bodies are numbered; a request may have no body.      *)
(***************************************************************************)
EXTENDS Naturals, Sequences

CONSTANTS
    MaxBody,         \* bound: chunks of either body
    Headers          \* the raw headers an upgrade sends on

Body == 1..MaxBody

ASSUME ExchangeAssumption == MaxBody \in Nat \ {0} /\ Headers \notin Body

VARIABLES
    exchange,        \* which of the two processRequest chose
    nodeProcess,     \* the Node process
    client,          \* req.socket
    bodySent,        \* chunks of the body the client sent
    bodyFin,         \* the client sent the last of them
    bodyRead,        \* chunks that became 'data' events of req
    bodyEnd,         \* the 'end' event of req has happened
    upstream,        \* the connection to the other server
    upSent,          \* chunks that server sent
    upFin,           \* how its answer ends: "complete", or "cut" before that
    upRead,          \* chunks that became 'data' events
    toUpstream,      \* what was written to it
    resHead,         \* the argument of res.writeHead: none, its answer's, or our own
    resBody,         \* what was written to res, or to the socket under it
    resEnded         \* res.end() was called

reqVars == <<bodySent, bodyFin, bodyRead, bodyEnd>>
upVars  == <<upstream, upSent, upFin, upRead>>
resVars == <<resHead, resBody, resEnded>>
exchangeVars == <<exchange, nodeProcess, client, reqVars, upVars, toUpstream, resVars>>

\* "pending" until a request is answered or a websocket is connected; "ended"
\* after serverSocket.end(); "closed" when nothing can happen on it any more.
ExchangeTypeOK ==
    /\ exchange \in {"request", "websocket"}
    /\ nodeProcess \in {"running", "crashed"}
    /\ client \in {"open", "gone"}
    /\ bodySent \in 0..MaxBody /\ bodyRead \in 0..bodySent
    /\ bodyFin \in BOOLEAN /\ bodyEnd \in BOOLEAN
    /\ upstream \in {"pending", "open", "ended", "closed"}
    /\ upSent \in 0..MaxBody /\ upRead \in 0..upSent
    /\ upFin \in {"no", "complete", "cut"}
    /\ toUpstream \in Seq(Body \cup {Headers})
    /\ resHead \in {"none", "answer", "error", "switching"}
    /\ resBody \in Seq(Body)
    /\ resEnded \in BOOLEAN

ExchangeInit ==
    /\ exchange \in {"request", "websocket"}
    /\ nodeProcess = "running"
    /\ client = "open"
    /\ bodySent = 0 /\ bodyRead = 0 /\ bodyFin = FALSE /\ bodyEnd = FALSE
    /\ upstream = "pending"
    /\ upSent = 0 /\ upRead = 0 /\ upFin = "no"
    /\ toUpstream = <<>>
    /\ resHead = "none" /\ resBody = <<>> /\ resEnded = FALSE

Active == nodeProcess = "running"

-----------------------------------------------------------------------------
(* The request *)

ClientSendsBody ==
    /\ Active /\ client = "open" /\ ~bodyFin
    /\ \/ bodySent < MaxBody /\ bodySent' = bodySent + 1 /\ UNCHANGED bodyFin
       \/ bodyFin' = TRUE /\ UNCHANGED bodySent
    /\ UNCHANGED <<exchange, nodeProcess, client, bodyRead, bodyEnd, upVars, toUpstream, resVars>>

\* pipe() stops reading when proxyReq fails; a listener does not.
Listening == exchange = "websocket" \/ upstream # "closed"

\* A 'data' event of req, written on; before there is a connection Node
\* queues it.
RequestData ==
    /\ Active /\ client = "open" /\ Listening
    /\ bodyRead < bodySent
    /\ bodyRead' = bodyRead + 1
    /\ toUpstream' = IF upstream # "closed" THEN Append(toUpstream, bodyRead') ELSE toUpstream
    /\ UNCHANGED <<exchange, nodeProcess, client, bodySent, bodyFin, bodyEnd, upVars, resVars>>

\* Ending the connection of a request that is answered already completes it.
EndUpstream ==
    upstream' = CASE exchange = "websocket" /\ upstream = "open" -> "ended"
                  [] exchange = "request" /\ resEnded            -> "closed"
                  [] OTHER                                       -> upstream

\* The 'end' event of req: proxyReq.end() by the pipe, or serverSocket.end().
\* A request without a body comes here at once.
RequestEnds ==
    /\ Active /\ client = "open" /\ Listening
    /\ bodyFin /\ ~bodyEnd
    /\ bodyRead = bodySent
    /\ bodyEnd' = TRUE
    /\ EndUpstream
    /\ UNCHANGED <<exchange, nodeProcess, client, bodySent, bodyFin, bodyRead, upSent, upFin,
                   upRead, toUpstream, resVars>>

\* Faulty variant of ClientLeaves: what the client did not finish is ended.
ClientLeavesEnding ==
    /\ Active /\ client = "open"
    /\ client' = "gone"
    /\ bodyEnd' = TRUE
    /\ UNCHANGED <<exchange, nodeProcess, bodySent, bodyFin, bodyRead, upVars, toUpstream, resVars>>

\* The client socket ends, fails, or is destroyed by HttpProxy.close(): req
\* emits 'error' (logged) and no 'end', res is closed and unpiped.
ClientLeaves ==
    /\ Active /\ client = "open"
    /\ client' = "gone"
    /\ UNCHANGED <<exchange, nodeProcess, reqVars, upVars, toUpstream, resVars>>

-----------------------------------------------------------------------------
(* The other server *)

UpstreamSends ==
    /\ Active /\ upstream \in {"open", "ended"} /\ upFin = "no"
    /\ \/ upSent < MaxBody /\ upSent' = upSent + 1 /\ UNCHANGED upFin
       \/ \E how \in {"complete", "cut"} : upFin' = how /\ UNCHANGED upSent
    /\ UNCHANGED <<exchange, nodeProcess, client, reqVars, upstream, upRead, toUpstream, resVars>>

\* The 'response' event.
ResponseBegins ==
    /\ exchange = "request"
    /\ resHead' = "answer"
    /\ upstream' = "open"
    /\ UNCHANGED toUpstream

\* The callback of net.createConnection. writeHead only stores the head: it
\* leaves with the first write to res, and there is none. After
\* serverSocket.end() writing the headers is an error, which is logged.
WebSocketConnects ==
    /\ exchange = "websocket"
    /\ resHead' = "switching"
    /\ upstream' = IF bodyEnd THEN "closed" ELSE "open"
    /\ toUpstream' = IF bodyEnd THEN toUpstream ELSE Append(toUpstream, Headers)

UpstreamBegins ==
    /\ Active /\ upstream = "pending"
    /\ ResponseBegins \/ WebSocketConnects
    /\ UNCHANGED <<exchange, nodeProcess, client, reqVars, upSent, upFin, upRead, resBody, resEnded>>

\* A 'data' event of the answer or of serverSocket. What is written to a
\* client that is gone is lost; an answer is not even read any more.
UpstreamData ==
    /\ Active /\ upstream \in {"open", "ended"}
    /\ exchange = "request" => client = "open"
    /\ upRead < upSent
    /\ upRead' = upRead + 1
    /\ resBody' = IF client = "open" THEN Append(resBody, upRead') ELSE resBody
    /\ UNCHANGED <<exchange, nodeProcess, client, reqVars, upstream, upSent, upFin, toUpstream,
                   resHead, resEnded>>

\* Faulty variant of AnswerEnds: an answer that was cut is ended like any other.
AnswerEndsAnyhow ==
    /\ exchange = "request" /\ client = "open"
    /\ resEnded' = TRUE
    /\ upstream' = IF upFin = "cut" \/ bodyEnd THEN "closed" ELSE upstream
    /\ UNCHANGED client

\* The end of the answer, after its last chunk: pipe() passes on 'end', which
\* an answer that was cut does not emit.
AnswerEnds ==
    /\ exchange = "request" /\ client = "open"
    /\ resEnded' = (upFin = "complete")
    /\ upstream' = IF upFin = "cut" \/ bodyEnd THEN "closed" ELSE upstream
    /\ UNCHANGED client

\* The 'end' event of serverSocket: req.socket.end(), on which a client of HTTP
\* gives up the connection.
WebSocketEnds ==
    /\ exchange = "websocket"
    /\ client' = "gone"
    /\ upstream' = "closed"
    /\ UNCHANGED resEnded

UpstreamEnds ==
    /\ Active /\ upstream \in {"open", "ended"} /\ ~resEnded
    /\ upFin # "no" /\ upRead = upSent
    /\ AnswerEnds \/ WebSocketEnds
    /\ UNCHANGED <<exchange, nodeProcess, reqVars, upSent, upFin, upRead, toUpstream, resHead,
                   resBody>>

\* Faulty variant of Answer500: the answer is not ended.
Answer500Open ==
    /\ resHead = "none"
    /\ resHead' = "error"
    /\ UNCHANGED <<nodeProcess, resEnded>>

Answer500 ==
    /\ resHead = "none"
    /\ resHead' = "error"
    /\ resEnded' = TRUE
    /\ UNCHANGED nodeProcess

\* The 'error' listener stays for the whole exchange. Once the head of the
\* answer is written, writeHead(500) throws in it.
WriteHeadThrows ==
    /\ resHead # "none"
    /\ nodeProcess' = "crashed"
    /\ UNCHANGED <<resHead, resEnded>>

\* The connection fails: refused, reset, or hung up before there is an answer.
UpstreamErrors ==
    /\ Active /\ upstream # "closed"
    /\ upstream' = "closed"
    /\ \/ exchange = "request" /\ (Answer500 \/ WriteHeadThrows)
       \/ exchange = "websocket" /\ UNCHANGED <<nodeProcess, resHead, resEnded>>
    /\ UNCHANGED <<exchange, client, reqVars, upSent, upFin, upRead, toUpstream, resBody>>

-----------------------------------------------------------------------------
ExchangeNext ==
    \/ ClientSendsBody \/ RequestData \/ RequestEnds \/ ClientLeaves
    \/ UpstreamSends \/ UpstreamBegins \/ UpstreamData \/ UpstreamEnds \/ UpstreamErrors

ExchangeSpec == ExchangeInit /\ [][ExchangeNext]_exchangeVars

\* Node reports what has arrived; a connection attempt comes to an end. Nobody
\* has to send, to answer or to end.
ExchangeFairness ==
    /\ WF_exchangeVars(RequestData)
    /\ WF_exchangeVars(RequestEnds)
    /\ WF_exchangeVars(UpstreamData)
    /\ WF_exchangeVars(UpstreamEnds)

-----------------------------------------------------------------------------
(* Correctness *)

\* A client can trust the end of an answer: one that was ended is the whole
\* answer of the other server, in order, or a 500 of our own with nothing of
\* that server in it, even if the server fails in the middle, the client is
\* still sending, or both (lines 62-71).
EndMeansComplete ==
    /\ \A i \in 1..Len(resBody) : resBody[i] = i
    /\ resEnded =>
         \/ resHead = "answer" /\ upFin = "complete" /\ Len(resBody) = upSent
         \/ resHead = "error" /\ resBody = <<>>

\* The other server can trust the end of a request: it is only told of it when
\* it was given the whole body, whatever order client and server leave in. (To
\* an upgrade the body comes in front of the headers that were read before it.)
BodyWhole ==
    bodyEnd /\ upstream # "closed" =>
        /\ bodyFin
        /\ \A i \in 1..bodySent : \E j \in 1..Len(toUpstream) : toUpstream[j] = i

\* The end of the body is passed on, if both sides stay that long. A client
\* whose request has come to nothing, or to an answer that is complete, hears of
\* it. The exceptions are an answer the other server cut off after its head,
\* which is left without an end, and an error after the head, which ends the
\* process.
ExchangeSettles ==
    /\ bodyFin ~> bodyEnd \/ client = "gone" \/ upstream = "closed" \/ ~Active
    /\ exchange = "request" /\ (upstream = "closed" \/ upFin = "complete") ~>
         resEnded \/ client = "gone" \/ upFin = "cut" \/ ~Active

-----------------------------------------------------------------------------
(* The inductive invariant of the proofs *)

\* Which head the answer has in which stage of the exchange, and what an open
\* client was given of it.
AnswerPosition ==
    /\ resHead = "none" => upstream \in {"pending", "closed"} /\ upSent = 0
    /\ upstream = "pending" => resHead = "none"
    /\ resHead = "error" => upstream = "closed"
    /\ exchange = "request" => resHead # "switching"
    /\ exchange = "websocket" => ~resEnded
    /\ client = "open" => Len(resBody) = upRead
    /\ Len(resBody) <= upRead

\* What an open connection was given of the body.
BodyPosition ==
    /\ bodyEnd => bodyFin /\ bodyRead = bodySent
    /\ upstream # "closed" =>
         \A i \in 1..bodyRead : \E j \in 1..Len(toUpstream) : toUpstream[j] = i

ExchangeInv == ExchangeTypeOK /\ AnswerPosition /\ BodyPosition /\ EndMeansComplete
=============================================================================
