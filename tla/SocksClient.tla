---------------------------- MODULE SocksClient ----------------------------
(***************************************************************************)
(* SocksServer composed with clients that follow RFC 1928 and RFC 1929 in  *)
(* lock step, as the clients of tests/socks5 do: greeting, credentials     *)
(* when the server asks for them, CONNECT or UDP ASSOCIATE, each message   *)
(* sent when the reply to the one before has arrived. All other            *)
(* connections send what they like.                                        *)
(*                                                                         *)
(* TCP may deliver one message in two chunks. Which part of a message a    *)
(* chunk holds decides what the parser of the current state reads out of   *)
(* it.                                                                     *)
(***************************************************************************)
EXTENDS SocksServer

CONSTANTS
    Honest,          \* the connections made by honest clients
    HonestClient,    \* their address; nobody else uses it
    Offers           \* the authentication methods they offer

ASSUME ClientAssumption ==
    /\ Honest \subseteq Sockets
    /\ HonestClient \in Clients
    /\ Offers \in (SUBSET {0, 2}) \ {{}}

VARIABLES
    sent,            \* the last message the client sent: "nothing", "greeting",
                     \* "credentials" or "command"
    pending,         \* the part of it that has not arrived: "none", "whole", "rest"
    split            \* did one of its messages arrive in two chunks?

clientVars == <<sent, pending, split>>
systemVars == <<vars, clientVars>>

ClientInit ==
    /\ Init
    /\ sent = [s \in Honest |-> "nothing"]
    /\ pending = [s \in Honest |-> "none"]
    /\ split = [s \in Honest |-> FALSE]

-----------------------------------------------------------------------------
(* The honest client *)

ClientSends(s, after, m) ==
    /\ Running
    /\ sock[s] = "open"
    /\ pending[s] = "none"
    /\ sent[s] # m
    /\ reply[s] = after
    /\ sent' = [sent EXCEPT ![s] = m]
    /\ pending' = [pending EXCEPT ![s] = "whole"]
    /\ UNCHANGED <<vars, split>>

HonestSends(s) ==
    \/ ClientSends(s, "none", "greeting")
    \/ ClientSends(s, "userPass", "credentials")
    \/ ClientSends(s, "noAuth", "command")
    \/ ClientSends(s, "authOk", "command")

\* What the server does with a chunk of the client's message, in the state it
\* is in. A strict part of a message is never a valid one: a part of a
\* greeting lists fewer methods, a part of the credentials lacks the end of
\* the password, and parseDestination throws on a command cut short.
Reads(s, whole) ==
    \/ \E methods \in SUBSET Offers :
         /\ whole <=> methods = Offers
         /\ sent[s] = "greeting"
         /\ HandleGreeting(s, methods)
         /\ UNCHANGED serverVars
    \/ /\ sent[s] = "credentials" /\ whole
       /\ HandleAuthSuccess(s)
       /\ UNCHANGED serverVars
    \/ /\ ~(sent[s] = "credentials" /\ whole)
       /\ RejectCredentials(s)
    \/ /\ sent[s] = "command" /\ whole
       /\ \E h \in Hosts :
            \/ HandleFilteredCommand(s, h)
            \/ HandleTcpCommand(s, "connect", h)
            \/ HandleUdpCommand(s, h)
       /\ UNCHANGED serverVars
    \/ /\ ~(sent[s] = "command" /\ whole)
       /\ HandleMalformedCommand(s)
       /\ UNCHANGED serverVars
    \/ /\ Receives(s, "DataRelayMode")        \* handleData ignores the chunk
       /\ UNCHANGED vars

Arrival(s) ==
    /\ \/ /\ pending[s] = "whole"
          /\ Reads(s, TRUE)
          /\ pending' = [pending EXCEPT ![s] = "none"]
          /\ UNCHANGED split
       \/ /\ pending[s] = "whole"
          /\ Reads(s, FALSE)
          /\ pending' = [pending EXCEPT ![s] = "rest"]
          /\ split' = [split EXCEPT ![s] = TRUE]
       \/ /\ pending[s] = "rest"
          /\ Reads(s, FALSE)
          /\ pending' = [pending EXCEPT ![s] = "none"]
          /\ UNCHANGED split
    /\ UNCHANGED sent

\* The outcome of a CONNECT: connected, or an error after a timeout at most.
ConnectOutcome(s) ==
    /\ handler[s] = "connect"
    /\ HandlerSucceeds(s) \/ HandlerFails(s)
    /\ UNCHANGED <<serverVars, clientVars>>

\* The client closes when it has got what it came for.
ClientLeaves(s) ==
    /\ reply[s] \in {"commandReply", "noAcceptable", "authFailed"}
    /\ PeerEnds(s)
    /\ UNCHANGED <<serverVars, clientVars>>

-----------------------------------------------------------------------------
HonestNext(s) ==
    \/ /\ RejectConnection(s, HonestClient) \/ AdmitConnection(s, HonestClient)
       /\ UNCHANGED clientVars
    \/ HonestSends(s)
    \/ Arrival(s)
    \/ ConnectOutcome(s)
    \/ ClientLeaves(s)

OtherNext(s) ==
    /\ \/ \E c \in Clients \ {HonestClient} :
            RejectConnection(s, c) \/ AdmitConnection(s, c)
       \/ SessionStep(s) /\ UNCHANGED serverVars
       \/ RejectCredentials(s)
    /\ UNCHANGED clientVars

ClientNext ==
    \/ \E s \in Honest : HonestNext(s)
    \/ \E s \in Sockets \ Honest : OtherNext(s)
    \/ /\ \/ \E s \in Sockets : ConnectionCloses(s)
          \/ HotPatchHosts /\ UNCHANGED serverVars
          \/ HotPatchClients
          \/ Close
          \/ Closed
       /\ UNCHANGED clientVars

ClientSpec == ClientInit /\ [][ClientNext]_systemVars

\* An honest client sends what the protocol asks for next, TCP delivers it,
\* and a connection attempt of the server ends. Node gets to the close callbacks
\* of its handles.
ClientFairness ==
    /\ \A s \in Honest :
         /\ WF_systemVars(HonestSends(s))
         /\ WF_systemVars(Arrival(s))
         /\ WF_systemVars(ConnectOutcome(s))
    /\ \A s \in Sockets : WF_systemVars(ConnectionCloses(s) /\ UNCHANGED clientVars)
    /\ WF_systemVars(Closed /\ UNCHANGED clientVars)

FairClientSpec == ClientSpec /\ ClientFairness

-----------------------------------------------------------------------------
(* Correctness *)

\* An honest client that has a password is never charged with a failed
\* authentication while its messages arrive whole ("the maximum number of
\* failed authentication attemps", README.md:79), so it is not blacklisted for
\* what other parts of the dialog look like to handleAuth.
HonestNotBlamed ==
    2 \in Offers /\ (\A s \in Honest : ~split[s]) => failedAuthAttempts[HonestClient] = 0

\* Some host a command can name is filtered.
Filtering == \E h \in Hosts : ~AccessAllowed(h)

\* An honest client that was admitted gets the reply to its command, unless
\* the operator filters hosts, TCP splits a message, or the process or the
\* server ends first: the dialog of session and client never waits on both
\* sides, and ends nowhere else.
HonestAnswered ==
    \A s \in Honest :
        sock[s] = "open" /\ reply[s] = "none" ~>
            \/ reply[s] = "commandReply" \/ Filtering \/ split[s]
            \/ server # "listening" \/ ~Running

\* Also when its messages arrive in pieces and its host is filtered, an
\* honest client never waits for ever: it gets the reply to its command, or
\* its connection ends.
HonestNeverHangs ==
    \A s \in Honest :
        sock[s] = "open" ~> reply[s] = "commandReply" \/ sock[s] # "open" \/ ~Running
-----------------------------------------------------------------------------
(* The inductive invariant of the proofs, by parts *)

ClientTypeOK ==
    /\ sent \in [Honest -> {"nothing", "greeting", "credentials", "command"}]
    /\ pending \in [Honest -> {"none", "whole", "rest"}]
    /\ split \in [Honest -> BOOLEAN]

\* Whose connection it is: the honest client's address is its own.
HonestAddress ==
    \A s \in Sockets : sock[s] # "none" => (s \in Honest <=> remoteAddress[s] = HonestClient)

\* How far an honest client is, of whose messages none was split: it talks only
\* after the reply to the message before, so what is on its way is what the
\* state of the session waits for.
InStep(s) ==
    /\ pending[s] # "rest"
    /\ sent[s] = "nothing" =>
         pending[s] = "none" /\ state[s] = "AwaitingGreeting"
    /\ sent[s] = "greeting" /\ pending[s] = "whole" => state[s] = "AwaitingGreeting"
    /\ sent[s] \in {"credentials", "command"} => reply[s] # "none"
    /\ state[s] = "AwaitingAuthentication" =>
         reply[s] \notin {"noAuth", "authOk"} /\ sent[s] # "command"

ClientInv ==
    /\ ClientTypeOK
    /\ HonestAddress
    /\ 2 \in Offers => \A s \in Honest : split[s] \/ InStep(s)
    /\ HonestNotBlamed
=============================================================================
