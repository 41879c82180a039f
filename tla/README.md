# ts_proxy in TLA+

A verification project for `ts_proxy`, a SOCKS5 and HTTP proxy for Node.js
(`src/README.md`, `src/src/`). This file says what the program's parts are,
which module models which part and how, what the model-checking runs and the
proofs show, under which assumptions, and what is left.

## 1. The system

One Node process, one event loop. Every part is a set of listeners on sockets;
there are no threads and no database. The configuration file is read at every
start; `persistConfig`, which writes it, has no callers in the program.

| Part | Source | State | Operations | Talks to |
|---|---|---|---|---|
| SOCKS server | `socks5Proxy/SocksServer.ts` | `activeConnections`, `failedAuthAttempts`, the listening socket | `handleConnection`, `incrementAuthFailure`, `start`, `close` | creates sessions; gives them `incrementAuthFailure` as a callback; reads and extends the client blacklist of the configuration |
| SOCKS session engine | `socks5Proxy/SocksSession.ts`, `CommandHandler.ts` | `state`, `authHandler`, `commandHandler`, `udpPort`; static `usedUdpPorts`, shared by all sessions | `handleData` (`handleGreeting`, `handleAuth`, `handleCommand`), `filterAccess`, `assignUdpPort`, `sessionCleanup` | client socket; creates one command handler |
| CONNECT handler | `ConnectCommandHandler.ts` | client and destination socket, the relay's listeners | `processCommand`, `setupDataRelay`, `sendReply`, `cleanup` | both sockets |
| BIND handler | `BindCommandHandler.ts` | listening, client and remote socket, `isClosed` | `processCommand`, `handleConnection`, `setupDataRelay`, `cleanup` | three sockets |
| UDP ASSOCIATE handler | `UDPAssociateCommandHandler.ts` | UDP socket, `clientSessions`, `isSocketClosed` | `handleUdpDatagram`, `sendToRemoteServer`, `sendToClient`, `cleanup` | UDP socket, client socket |
| Configuration | `ConfigManager.ts`, `ServerConfigInterface.ts` | the configuration object, four lists that can be patched at run time, one manager per proxy | `loadConfig`, `update*` setters, `persistConfig` (no callers) | read by servers and sessions; the file is shared |
| Authentication | `Auth.ts` | the user table | `authenticateSocks5`, `authenticateHttp` | called by sessions and the HTTP proxy |
| Wire format | `utils.ts` | none | `parseDestination`, `sendReply`, `determinePayloadStartIndex`, `isSocks5Message` | called by sessions and handlers |
| HTTP proxy | `httpProxy/HttpProxy.ts` | `activeConnections`, `failedAuthAttempts`, a configuration of its own | the 'connection' listener, `handleHttpRequest`, `handleHttpsRequest`, `authenticate`, `incrementAuthFailure`, `close` | creates HTTP sessions |
| HTTP, HTTPS, WebSocket sessions | `httpProxy/HttpSession.ts` | the sockets, or request and answer, of one exchange | `processRequest`: plain request, WebSocket request, tunnel, upgrade | sockets |
| Lifecycle | `index.ts` | none | start of both proxies, `gracefulShutdown` on SIGINT and SIGTERM | both servers |
| Session monitor | `SessionMonitor.ts` | byte counters and times | a `data` listener and a counting replacement of `write` on the client socket; getters that nobody calls | client socket |
| Logger | `Logger.ts` | none | output | - |

What is hard here is never computation. It is the order of events: a chunk of a
TCP stream is taken for a message; a socket that `end()` was called on still
delivers data; `error` and `close` are two events with others between them;
a listener is registered after the event it is for, or is still there when its
purpose is over; `destroy()` runs some cleanups and not others; a set is
cleared while its elements still have events to come. PROJECT.json lists each
such place under "hazards", with the properties that cover it.

What makes each part correct:

- session engine: nobody is served before greeting and, if asked for, password;
  a failed authentication is final; ports are given back, and to one session at
  a time.
- server: the connection limit; no admission after `close()`; who fails too
  often stays out; `close()` ends; constructing a session never throws.
- CONNECT and BIND: the client reads replies where replies belong and then one
  gapless stream; so does the other end; ends of connections are passed on.
- UDP ASSOCIATE: nobody reaches a client that has not talked to them; client
  datagrams are forwarded; both sockets end together.
- HTTP proxy: the connection limit; a locked-out client gets no request through
  on any connection, open ones included; `close()` ends, tunnels included.
- HTTP sessions: streams arrive whole and in order; an end is passed on, never
  before the data in front of it and never made up; whoever waits for an answer
  gets one; sockets are freed.
- wire format: a parser returns what the sender meant or throws, wherever the
  chunk ends; a reply is as long as its header says.
- lifecycle: a signal ends the process; who is blacklisted after a restart is
  who was in the file; the file forgets nobody by accident.

## 2. How an event loop is modelled

One action is one turn of the event loop: the listener, everything it calls, and
what Node runs before it looks at the next I/O event (`process.nextTick`,
promise callbacks). So `await this.authHandler.authenticate(...)` lets no other
chunk in: `authenticate` contains no real wait.

Node's sockets are part of the environment; the modules rely on this of them
(map entries marked external):

- `write` on a socket that we have ended is an error: the socket is destroyed
  and `error` comes in the same turn, `close` in a later one. `write` on a
  destroyed socket does nothing.
- `end()` closes our direction only; `data` events continue ("ended").
- The peer's FIN ends our side too (`allowHalfOpen` is off) and destroys the
  socket; `close` comes later ("destroyed" is the time between).
- `destroy()` without an argument emits `close` and neither `end` nor `error`.
- An HTTP server accepts its sockets with `allowHalfOpen`: the client's FIN does
  not end our side of a tunnel.
- `pipe()` passes on `end` but neither `close` nor `error`; on `finish` or `close`
  of its target it unpipes the source, which pauses it: a paused socket without
  listeners is not read again, and its `end` waits for what was not read.
- Node's HTTP parser emits the requests of one chunk one after the other, before
  any continuation of an `await` runs, so pipelined requests pass the checks in
  front of `await this.authenticate(req)` together. It gives up a socket at a
  CONNECT, with the rest of the chunk as `head`.
- `res.writeHead` stores the head until the first write, and throws if a head is
  there already.
- An exception in a listener, and an unhandled rejection on Node > 15
  (`src/README.md:32`), end the process.

A `data` event carries a chunk. What a chunk means is decided by the parser of
the current state, so a chunk is represented by what that parser reads out of
it, chosen freely: the methods of a greeting, right or wrong credentials, a
command with its destination, or something `parseDestination` throws on. Late,
early, split and merged messages are then all among the behaviours.
`SocksClient` restricts this to what a client that follows the protocol, and the
network under it, can really produce.

## 3. The modules

| Module | Models | Variables and code |
|---|---|---|
| `SocksHandshake` | abstract: phases of a client connection | promise, not code |
| `SocksSession` | `SocksSession.ts`, all sessions together | `sock`, `hadError` = `clientSocket`; `state`, `authHandler`, `handler`, `udpPort` = fields; `usedUdpPorts` static; `reply` = last reply written; `hostBlacklist`, `hostWhitelist` = `serverIpFiltering`; `process` |
| `HandlerOutline` | the outline of a handler in `SocksSession`, for one connection | `clientSock`, `lastReply`; instance of `SocksSession` |
| `ConnectionLimiter` | abstract: who is served, is the server admitting | promise, not code |
| `SocksServer` | `SocksServer.ts`; EXTENDS `SocksSession` and conjoins its steps with the server's | `activeConnections`, `failedAuthAttempts` = fields; `clientBlacklist`, `clientWhitelist` = `clientIpFiltering`; `remoteAddress`; `server` = `net.Server` |
| `SocksClient` | EXTENDS `SocksServer`; clients that follow RFC 1928/1929 in lock step, like those of `tests/socks5`, over TCP that may split a message | `sent`, `pending`, `split` (history) |
| `ConnectRelay` | one CONNECT handler after `net.createConnection` | `clientSock`, `destSock`, `relaying`; chunks numbered per direction; `toClient`, `toDest` = what was written; `early`, `clientLeft` (history) |
| `BindRelay` | one BIND handler | `listener`, `remote`, `extra`, streams as above |
| `UdpAssociate` | one UDP handler | `clientSessions` in insertion order; `out` = what was sent; `last` = datagram handled last |
| `HttpProxy` | `HttpProxy.ts` | `activeConnections`, `failedAuthAttempts` = fields; `conn`, `remoteAddress` = the client sockets; four lists = `config`; `forwarded`, `pardon` (history) |
| `HttpTunnel` | `HttpsSession`: tunnel and upgrade | `clientSock`, `destSock` and whether each is read (`clientFlow`, `destFlow`); chunks numbered per direction, the first perhaps in `head`; `clientLeft` (history) |
| `HttpExchange` | `HttpSession`: request and WebSocket request | `client` = `req.socket`; `body...` = `req`; `upstream` = `proxyReq` or `serverSocket`; `res...` = `res` |
| `HttpSession` | composes the two: an accepted request is one or the other | `class` |
| `WireFormat` | `utils.ts`, `Auth.ts`, the reply header of UDP, `parseHostAndPort`, as operators | a message as `meant`, and the bytes there are of it (`data`) |
| `Lifecycle` | `index.ts`, `loadConfig`, `persistConfig`, `updateClientIpBlackList`, both proxies in outline | `server`, `conns` = the servers; `leftovers` = what connections that are gone left open; `shutdowns` = calls of `gracefulShutdown` that wait; `blacklist`, `failures` = per proxy; `file`, `intact` = the configuration file; `signals`, `threw`, `base`, `counted`, `patched` (history) |

`SocksSession` has one action for each branch of the handlers (`HandleGreeting`,
`HandleBadVersion`, `HandleAuthSuccess`, `HandleAuthFailure`, ...,
`SocketCloses`) and outlines in `HandlerSucceeds`, `HandlerFails` and
`HandlerEnds` what a command handler later does to the client socket.
`ConnectRelay`, `BindRelay` and `UdpAssociate` are those handlers in detail, each
beginning where `HandleTcpCommand` or `HandleUdpCommand` leaves off, with the
client socket open or already ended (a session that was turned down can still
get there, see 6). That the outline
covers what they do to the client socket is a refinement: `HandlerOutline` takes
these steps of `SocksSession` for one connection, and each handler implements it.

`SocksServer` composes: every step of the server is a step of its sessions
conjoined with what the server does in the same turn. `RejectCredentials` is
`HandleAuthFailure` and `IncrementAuthFailure`; `ConnectionCloses` is
`SocketCloses` and the removal from `activeConnections`; `Close` is `DestroyAll`
of the tracked sockets and the clearing of the set.

`HttpProxy` has one action for a chunk, `HandleChunk`, which takes all its
requests through the checks of `handleHttpRequest` and `handleHttpsRequest` with
the lists as they were when the chunk arrived, and then counts the failures;
`ConnectionEnds` and `SessionCrashes` outline what an accepted request does, in
detail in `HttpTunnel` and `HttpExchange`. Both servers implement the same
abstract `ConnectionLimiter`; they share no code for it.

`Lifecycle` outlines both servers in turn: a number of connections, failures that
are counted, sessions that throw. Any connection may leave something open when it
is gone (`Disconnects`), destroyed by `close()` or gone long before it: the
listening socket or the remote of a BIND, a destination that was still connecting,
the server of a tunnel whose client was reset. `leftovers` says whether any of that
is there. `persistConfig` and the setters have no callers, although
`ConfigManager.ts:7` says what they are for; whoever holds a server object can call
them, so both are actions. `writeFileSync` is not atomic: a write ends whole, with an
exception, or with the process, and then the file is no JSON and `loadConfig` throws.
A list that is patched in is an array of its own: one array given to both proxies,
which each of them then extends, is not modelled.

In `WireFormat` a behaviour starts with a message as its sender meant it; the
steps `Split` and `Extend` then take bytes away at its end or add some. The
properties compare what the code reads out of the bytes with what was meant. Names,
users and passwords are any bytes. `Decoded` is `Buffer.toString()`: UTF-8, with one
U+FFFD for each piece that is no character, the way Node cuts such pieces; so what is
promised of a name that is not ASCII is its decoded text. A name in a reply is ASCII:
it is the `serverIP` of the configuration. Two inputs are left out because no such
message exists: a user name with a colon in an
HTTP header (RFC 7617 forbids it), and a host name with brackets in it other than
those around an IPv6 address.

`MC...` modules give the constants values; `..._proofs` modules hold the
theorems. A definition whose comment says "Faulty variant of X" is not part of
any specification: it is X with a plausible mistake, and each run is repeated
with X replaced by it to make sure that the property notices.

## 4. The runs

Deadlock is not checked: when all sockets are closed or the process is gone the
system really stops. All counts are of distinct states.

| Run | Bounds | States | Shows |
|---|---|---|---|
| `session` | 3 sockets, 2 ports, 1 host that is patched into the blacklist and out, password, symmetric sockets | 889 k | no port leaks; ports are shared only after a socket error; the abstract handshake is implemented |
| `session_shared_port` | the same, no authentication, no patches | - | violation: two sessions with one port |
| `server` | 3 connections of 1 client, limits of 2 connections, 2 ports, 2 failures, client lists patched at any time, symmetric | 2.9 M | tracking is exact; limiter implemented; port pool suffices; lockout holds; failures past the maximum are bounded |
| `client` | 1 client that follows the protocol, 1 connection that does anything, all lists patched | 285 k | not blamed, answered, never left waiting; `close()` ends |
| `connect` | 3 chunks each way | 3.3 k | both streams, leftover destinations, answer |
| `bind` | 2 chunks each way, 1 further connection | 2.6 k | streams; the end of the remote, behind its stream if it is clean |
| `udp` | 2 client endpoints, 2 servers on one address, a domain name, port 0, unparsable and header-like datagrams | 201 k | replies are solicited; sockets end together |
| `udp_second` | plain datagrams of both | - | violation: a client's second destination is not forwarded |
| `http_proxy` | 3 connections of 1 client, chunks of up to 2 requests, limits of 2 connections and 2 failures, all lists patched | 505 k | limiter implemented; lockout; `close()` ends |
| `http_session` | tunnel, upgrade, request and WebSocket request, each with 3 chunks each way, an end, and a failure or a reset at any time | 108 k | streams, ends, orphans, answers, freed sockets |
| `wire` | some hundred messages, each cut at every byte and extended by up to 4 | 10.3 k | parsers, replies, credentials, targets |
| `lifecycle` | both proxies, 1 client, 2 connections each, 2 signals, maximum of 2 failures and 3 counted, any number of restarts, patches and writes | 93 k | a signal ends the process unless something was left behind; what is remembered of whom, in memory and in the file |

The types of the variables are not among the runs' invariants: they are proved
(section 5), for all values of the constants.

Why these bounds are enough to be interesting. The port hazards need one session
that fails, one that takes the port in between and one more for the pool to run
dry: three sockets, two ports. The limit is reached and exceeded by the third
connection. The lockout needs connections that were open before the blacklist
entry; with two open, the bound of `AttemptsBounded` (MaxFailedAttempts - 1, then
two failures on each connection that was open) is reached in the run, and so is
the second bound, after a pardon. A patch, the
failures on either side of it and the blacklist entry of the HTTP proxy need two
requests of one chunk and one in another connection. Chunks of a stream are
interchangeable but for their order, and three show a prefix, a middle and an
end, also when the first came in `head`. The datagrams of `udp` contain every
pair of source and header kind that the two lookups tell apart. The messages of
`wire` have every address type, an empty and a long name, each way to write an
IPv6 address, ports on both sides of a byte, users of whom one entry replaces
another, and texts that are UTF-8, are cut in a character, or are neither. Two
signals are one to shut down and one at any time after it: while the SOCKS server is
closing, while the HTTP proxy is, or when only leftovers keep the process. Clients of
`lifecycle` do not interact: each is in the lists or not by itself, and the failure
that puts a pardoned client back needs a maximum of two and a third one counted. The sets of methods are those over
{0, 2}: the code looks at no other.

Bounds in the guards: `MaxChunks`, `MaxBody`, `MaxExtra` (what peers send),
`MaxBatch` (requests in a chunk), `MaxPatched` (no patch of the HTTP proxy's lists
while a client has more failures, so that the count is finite),
`MaxCounted`, `MaxConns`, `MaxSignals`. The SOCKS failure count has no bound of
its own: `AttemptsBounded` shows that it is finite between two patches. A bound on
what others do only leaves behaviours out; no code path depends on it.

Sockets are declared symmetric in runs without liveness only.

### Fairness

Only what Node or the peer by its definition does: `close` callbacks of
destroyed sockets and of listening servers run; data that arrived is reported;
an attempt to connect or to listen succeeds or fails (the operating
system's timeout at the latest); a process with nothing open ends; a client that
follows the protocol sends its next message, and TCP delivers it. Nothing is
assumed of other clients, which may stay silent for ever, nor that a destination
answers, sends or ends, nor that anyone sends a signal.

## 5. The proofs

`Socks_proofs` is about three modules, in which the same steps are seen by
sessions, server and clients. Sessions (any number of sockets, ports and hosts,
both methods):

- `SessionInvariant`: `SessionInv` is inductive. `NoPortLeak` and the types
  alone are not: that a port is exclusive without errors needs that the used set
  is exact (`UsedSetExact`), and that a refused client stays out needs where its
  socket and its `authHandler` are (`RefusedStaysOut`, `AuthStateHasHandler`);
  both need that a session has a port (`SessionsHavePorts`).
- from it `SessionTypeCorrect`, `NoPortLeaks`, `PortsAreExclusive`, and
  `SessionImplementsHandshake`, a refinement proved step by step: each action of
  the session is one step of `SocksHandshake` or leaves the phase alone.

The server (any number of sockets, clients and limits):

- `ServerInvariant`: `ServerInv` with `SessionInv`. `TrackedAreServed` needs the
  finiteness of the set, for `Cardinality`; `PoolSuffices` is a counting
  argument: ports in use are the image of the connections tracked, there are
  fewer of those than the limit, and the limit is at most the number of ports.
- `LockoutTheorem`: from `LockoutInv` (whoever is locked out is on the blacklist
  or was taken off it at the count it has now), through any patches of the lists.
  `pardon` records that count. Without it the statement is false: a patch leaves
  the failure counts alone.
- `ServerImplementsLimiter`: the refinement of `ConnectionLimiter`. What the
  limiter promises, `WithinLimit`, is proved of the limiter's steps and comes back
  through the refinement: `ConnectionsWithinLimit`.
- `AttemptsAreBounded`. `AttemptsBounded` is not inductive: a count just below its
  bound may have connections left that can still raise it. `AttemptsInv` bounds
  the count together with what can still happen. `Chances(c)` has two elements for
  each open connection of the client and one for each that was ended on our side
  and still delivers data: a failure ends the one and destroys the other, so it
  uses up a chance and the sum does not grow. Only an admission brings new ones, at
  most `2 * MaxConnections` at a time, and only while the client is off the
  blacklist.

Clients in lock step (any number of them, and of others):

- `ClientsRunServer`: the composition with clients has no behaviour the server
  does not have, so all that is proved of the server holds of it.
- `HonestIsNotBlamed`: `InStep(s)` says, for each message the client may have
  sent, which state the session is in and which reply it has given, so the next
  whole message is one that the session's parser is waiting for. `ClientInv` has
  it for every connection none of whose messages was split, with the address
  (`HonestAddress`) that ties the failure count to the client.

`ConnectRelay_proofs` (streams of any length): `ConnectInv` says where the two
streams stand relative to each other in each state of the sockets (`BeforeRelay`,
`DuringRelay`); `StreamFaithful`, `RelayInOrder` and `OrphansExplained` are not
inductive without it, because "the next chunk fits" needs the counters.
`ConnectImplementsOutline`: every step of the relay is `HandlerSucceeds`,
`HandlerFails`, a step of the peer or of the server in `SocksSession`, or invisible
there. It needs the invariant too: chunks are relayed to an open client only behind
the reply. The refinement says so itself: `Answered` maps to "commandReply" only if
what was written first is a reply, and a chunk in its place to a value the outline has
no step for.

`BindRelay_proofs` (streams of any length): `BindInv` with `ClientPosition` (an
open client has read as many replies as the listener has got to, and then as many
chunks as were read from the remote) and `RemotePosition`. From it
`BindStreamIsFaithful` and `BindRelayKeepsOrder`, and `BindImplementsOutline` as
for CONNECT, with `HandlerEnds`.

`UdpAssociate_proofs` (any addresses, ports and datagrams): `UdpInv` adds that
the first datagram of each entry of the table was forwarded
(`SessionsForwarded`), which is what makes an answer solicited. `UdpImplementsOutline`
is about the TCP connection alone.

`HttpProxy_proofs` (any number of connections, clients and hosts, chunks of any
length): `HttpInv` for the map of connections, `LockoutInv` as for SOCKS, and from
them `LockoutIsFreeze`, the refinement `HttpImplementsLimiter`, and through it
`HttpConnectionsWithinLimit`.

`HttpSession_proofs` (streams and bodies of any length): `TunnelInv` and
`ExchangeInv`. For the tunnel, `TunnelClientPosition` ties what the client was given
to the counters of the server socket, and says who can have destroyed a client
socket whose server is open; `TunnelDestPosition` says in which shape what was read
of the client waits for the connection: nothing for a tunnel, everything behind
`head` for an upgrade. For the exchange, `AnswerPosition` ties the head that was
written to the stage of the connection: that is why an ended answer is complete.
`BodyWhole` follows from `BodyPosition`.

`WireFormat_proofs` (any addresses, names, users, passwords, tables of users and
payloads; a chunk cut at any byte): `WireInv` says that the buffer is the beginning
of the message that was meant, or all of it and something behind it. It is
inductive because a byte that has arrived does not change; that a parser is right is
then a statement about a buffer that agrees with a message as far as it goes.

- `ParsersAreExact`, `PayloadsAreExact`: the places that `parseDestination` and
  `determinePayloadStartIndex` look at are compared with the places the bytes of the
  header were put at, for each address type.
- `RepliesAreExact`: what `sendReply` puts at each place of its buffer, with the
  text of an IPv6 address taken apart. The condition that it is written with all
  its digits is needed where parts of the text are as long as two bytes.
- `CredentialsAreExact`, `TargetsAreExact`: `String.split` and `replace` keep
  positions by rank (`Nth`), and the k-th of a set of positions is the one with k
  up to it, by counting.
- Decoding: `Starts` are the places where a character begins, and `Decoded` lists
  them by rank too. A text in ASCII is its own (`AsciiIsItself`); no sequence of
  bytes reaches past a colon, so the characters of a text with a colon in it are those
  of both its sides, each decoded by itself (`StartsOfJoined`, `DecodedOfJoined`). That is why the header of HTTP, decoded as a whole and cut
  after that, is judged like the two fields of SOCKS.

An IPv6 text is put together with `FlattenSeq`, a recursive function. What it
returns (`FlattenSteps`) is proved for every sequence, by an induction on positions
that takes the least element of the set of counterexamples (`Induction`): the
library's induction theorems have an operator as a parameter.

`Lifecycle_proofs` (any number of clients, failures, signals, patches, writes and
restarts): `ListsExact` is inductive with `CountsGrow` (a patch has seen no failures
that are still to come); `FileKept` says that whoever is in the file is on the list of
a proxy that could write it, or was until a patch; from it `FileForgetsOnlyThen`.

The type invariants of all state machines are proved with them, and every
invariant that a run checks is stated by a theorem. The assumptions are those named
at the constants (`SessionAssumption`, `ServerAssumption`, `ClientAssumption`,
`ConnectAssumption`, `BindAssumption`, `UdpAssumption`, `HttpAssumption`,
`TunnelAssumption`, `ExchangeAssumption`, `LifecycleAssumption`, `WireAssumption`),
which the runs evaluate. `WireAssumption` is what bytes and the formats imply: a name,
user or password has at most 255 bytes, since its length is one byte; an IPv4 address
has four, an IPv6 address at most eight words beside its run of zeros; a port is a
word. The abstract modules assume nothing.

Checked by TLC only: everything under fairness (`CloseCompletes`,
`HonestAnswered`, `HonestNeverHangs`, `ConnectAnswered`, `RemoteEndReachesClient`,
`EndsPassedOn`, `SlotFreed`, `ExchangeSettles`, `ShutdownEnds`), since the prover has
no reasoning about ENABLED. All other properties of the passing runs are proved.

## 6. What was found

Two runs are disagreements between the code and its own text; PROJECT.json
quotes the lines.

- `sessionCleanup` runs for `error` and for `close`, and each run releases the
  port, also when it is another session's by then (`PortsExclusive`).
  `PortsExclusiveWithoutErrors` and its proof show that this is the only way.
- A known UDP client's datagrams are dropped (`ClientMessagesForwarded`).

Other behaviour of the code is visible in the definitions, and the properties
name it where they make an exception for it.

SOCKS:

- `methods.includes(0x00 && ...)` is `includes(0)`, so the reply and the next state
  can disagree (`SelectMethod`, `StateAfterGreeting`); a connection told 0xff, or
  one whose command was filtered, is ended on our side only and can go on
  (`HandleGreeting`, `HandleFilteredCommand`); a command that does not parse ends
  the process (`HandleMalformedCommand`).
- Each chunk is taken for a whole message, so a client whose message TCP splits is
  charged with failures it did not have (`src/README.md:79` counts "failed
  authentication attemps"); `HonestNotBlamed` shows that splitting is the only way.
- The `error` listener of a CONNECT destination stays during the relay and writes
  a reply into the stream (`ConnectCommandHandler.ts:64`); `StreamFaithful` shows
  that it is at least the last thing the client reads.
- `close()` destroys client sockets and leaves destinations open
  (`SocksServer.ts:96`); `OrphansExplained` shows the only other way. The BIND
  handler does not notice that its client left (`ClientGoes`).
- A name that is not UTF-8 is looked up and connected to with U+FFFD in it
  (`ParseExact`), and users and passwords are compared in the same way.
- An IPv6 address in a reply is right only if it is written with all its digits
  (`ReplyExact`); datagrams of ten bytes and less are not recognised (`PayloadExact`).

HTTP:

- CONNECT passes neither whitelist, the client's or the server's (`ClientAccepted`,
  `HostAccepted`); the host looked up in the blacklist is not always the one
  connected to (`TargetExact`); a password is cut at its first colon
  (`CredentialsExact`).
- A WebSocket over plain HTTP never gets its 101, since nothing is written to the
  response (`WebSocketConnects`), although `src/README.md:10` lists WebSocket as
  supported. An upgrade by CONNECT connects to the host of `new URL("host:port")`,
  which has none; the tunnel is modelled from the connection on.
- The 500 of a failing tunnel goes into the stream (`TunnelStreamFaithful`); the
  `head` of an upgrade goes behind what came later (`TunnelInOrder`).
- A client reset leaves the server connection of a tunnel open
  (`TunnelOrphansExplained`); a client that still had something to send when the
  server ended is paused and kept (`SlotFreed`).
- An answer that the other server cut is never ended, so its client waits; an error
  after the head of the answer ends the process (`ExchangeSettles`).

Process: a second signal during a shutdown crashes the process, and what any earlier
connection left open keeps it alive (`ShutdownEnds`); the blacklist is forgotten by a
restart, kept per proxy, overwritten when both write it, replaced by a patch, and lost
with the whole file when a write is cut (`ListsExact`, `FileForgetsOnlySo`).

## 7. Not modelled, and what is left

Not modelled: the session monitor (it counts, in a `data` listener and a replacement
of `write` on the client socket, and nobody reads its counters) and the logger (output
only). Inside the modelled parts these are left out: the headers of HTTP messages,
the parsing done by class `URL` and by Node's HTTP parser, `convertIPv6Address` of
the UDP handler (its socket is an IPv4 socket), the command line but for `--http`,
logging, an unknown SOCKS command code (it changes nothing), `relayData` of the BIND
handler (no callers), what becomes of connections to a BIND listener after the
first, back-pressure (the handlers ignore the result of `write`; `pipe` pauses and
resumes, which changes no order), and time-outs that Node applies to idle HTTP
connections other than as an end of the connection.

Left:

1. Composition: tunnel and exchange implement the outline of a connection in
   `HttpProxy` (`ConnectionEnds`, `SessionCrashes`), and both servers that of
   `Lifecycle`, as refinements. So far these links are by reading. That the SOCKS
   handlers implement theirs is proved; the ports and the error flag, which the
   handlers do not touch, are outside that refinement.
2. A client of the HTTP proxy like `SocksClient`, to state that one that follows the
   protocol is answered by the proxy and the session together.
