----------------------------- MODULE WireFormat -----------------------------
(***************************************************************************)
(* The messages the program takes apart and puts together: utils.ts, the   *)
(* two authenticate functions of Auth.ts, the header of a UDP answer, and  *)
(* the target of a CONNECT. Texts are sequences of character codes and     *)
(* buffers are sequences of bytes; byte i of the code is element i + 1.    *)
(* Names, users and passwords travel as bytes and are compared as texts.   *)
(*                                                                         *)
(* A behaviour starts with a message as its sender meant it, and TCP or    *)
(* the sender then takes bytes away at its end or adds some behind it: a   *)
(* chunk is not a message.                                                 *)
(***************************************************************************)
EXTENDS Integers, Sequences, SequencesExt, FiniteSetsExt

CONSTANTS
    IPv4Addresses,     \* sequences of four bytes
    DomainNames,       \* sequences of bytes, in UTF-8 or not
    IPv6Addresses,     \* pairs of sequences of words: what is left and right of zeros
    Ports,
    Users, Passwords,  \* of clients: sequences of bytes, in UTF-8 or not
    Credentials,       \* config.credentials: a sequence of records of texts
    MaxExtra,          \* bound: bytes behind a message
    Throws             \* an exception instead of a result

Byte == 0..255
Word == 0..65535

\* Lengths of names are one byte of a message, IPv6 addresses are eight words.
ASSUME WireAssumption ==
    /\ \A a \in IPv4Addresses : a \in Seq(Byte) /\ Len(a) = 4
    /\ \A n \in DomainNames : n \in Seq(Byte) /\ Len(n) <= 255
    /\ \A a \in IPv6Addresses :
          /\ a[1] \in Seq(Word) /\ a[2] \in Seq(Word)
          /\ Len(a[1]) + Len(a[2]) <= 8
    /\ Ports \subseteq Word
    /\ \A t \in Users \cup Passwords : t \in Seq(Byte) /\ Len(t) <= 255
    /\ Credentials \in Seq([username : Seq(Nat), password : Seq(Nat)])
    /\ MaxExtra \in Nat
    /\ Throws \notin [type : {1, 3, 4}, host : Seq(Nat), port : Nat]

VARIABLES
    format,            \* which kind of message
    meant,             \* what its sender meant
    data               \* the bytes, characters or words there are

wireVars == <<format, meant, data>>

Undefined == -1

\* data[i]
At(buffer, i) == IF i < Len(buffer) THEN buffer[i + 1] ELSE Undefined

\* data.slice(from, from + n), which is empty when n is undefined.
Slice(buffer, from, n) ==
    IF n = Undefined THEN <<>> ELSE SubSeq(buffer, from + 1, Min({from + n, Len(buffer)}))

UInt16(n) == <<n \div 256, n % 256>>

\* The k-th of a set of positions.
Nth(S, k) == CHOOSE i \in S : Cardinality({j \in S : j <= i}) = k

-----------------------------------------------------------------------------
(* Buffer.toString() of Node: UTF-8, with U+FFFD for what is not *)

Replacement == 65533

\* How many bytes a sequence has that begins with b, if it can begin one.
SequenceLength(b) ==
    CASE b \in 194..223 -> 2 [] b \in 224..239 -> 3 [] b \in 240..244 -> 4
      [] b \notin 194..244 -> 1

\* Which bytes its k-th may be: no code has two encodings, none is a surrogate
\* or above 10FFFF.
Continuations(b, k) ==
    {c \in 128..191 : k = 2 => /\ b = 224 => c >= 160
                               /\ b = 237 => c < 160
                               /\ b = 240 => c >= 144
                               /\ b = 244 => c < 144}

\* How far the bytes from i on go like a sequence: they become one code.
Reaches(bytes, i) ==
    {n \in 1..SequenceLength(bytes[i]) :
        /\ i + n <= Len(bytes) + 1
        /\ \A k \in 2..n : bytes[i + k - 1] \in Continuations(bytes[i], k)}

UnitLength(bytes, i) == Max(Reaches(bytes, i))

Starts(bytes) == {i \in DOMAIN bytes : \A j \in 1..(i - 1) : j + UnitLength(bytes, j) <= i}

CodePoint(bytes, i) ==
    LET b      == bytes[i]
        n      == UnitLength(bytes, i)
        low(k) == bytes[i + k - 1] - 128
    IN  IF n < SequenceLength(b) \/ b \in 128..193 \/ b > 244 THEN Replacement
        ELSE CASE n = 1 -> b
               [] n = 2 -> 64 * (b - 192) + low(2)
               [] n = 3 -> 4096 * (b - 224) + 64 * low(2) + low(3)
               [] n = 4 -> 262144 * (b - 240) + 4096 * low(2) + 64 * low(3) + low(4)

Decoded(bytes) ==
    [k \in 1..Cardinality(Starts(bytes)) |-> CodePoint(bytes, Nth(Starts(bytes), k))]

-----------------------------------------------------------------------------
(* parseDestination, determinePayloadStartIndex, isSocks5Message *)

\* Faulty variant of AddressEnd: the length byte is forgotten.
AddressEndShort(buffer) ==
    CASE At(buffer, 3) = 1 -> 8
      [] At(buffer, 3) = 3 -> 4 + At(buffer, 4)
      [] At(buffer, 3) = 4 -> 20

AddressEnd(buffer) ==
    CASE At(buffer, 3) = 1 -> 8
      [] At(buffer, 3) = 3 -> 5 + At(buffer, 4)
      [] At(buffer, 3) = 4 -> 20

\* The host the bytes of an address stand for: a name is decoded; the other two
\* are written in digits, one way for each address.
Host(type, bytes) == IF type = 3 THEN Decoded(bytes) ELSE bytes

\* The port is where readUInt16BE reads, or there is an exception: an unknown
\* type, no length, or not enough bytes.
ParseDestination(buffer) ==
    IF At(buffer, 3) \notin {1, 3, 4} \/ At(buffer, 4) = Undefined THEN Throws
    ELSE LET end  == AddressEnd(buffer)
             from == IF At(buffer, 3) = 3 THEN 5 ELSE 4
         IN  IF end + 2 > Len(buffer) THEN Throws
             ELSE [type |-> At(buffer, 3),
                   host |-> Host(At(buffer, 3), Slice(buffer, from, end - from)),
                   port |-> 256 * At(buffer, end) + At(buffer, end + 1)]

\* Faulty variant of PayloadStartIndex: the port is forgotten.
PayloadStartIndexNoPort(buffer) ==
    CASE At(buffer, 3) = 1 -> 4 + 4
      [] At(buffer, 3) = 3 -> 4 + 1 + At(buffer, 4)
      [] At(buffer, 3) = 4 -> 4 + 16

PayloadStartIndex(buffer) ==
    2 + CASE At(buffer, 3) = 1 -> 4 + 4
          [] At(buffer, 3) = 3 -> 4 + 1 + At(buffer, 4)
          [] At(buffer, 3) = 4 -> 4 + 16

IsSocks5Message(buffer) == Len(buffer) > 10 /\ At(buffer, 3) \in {1, 3, 4}

-----------------------------------------------------------------------------
(* sendReply and constructSocks5Response *)

\* One part of an IPv6 text, a sequence of hex digits, of n parts.
PartBytes(part, n) ==
    IF part = <<>> THEN [i \in 1..(16 - n + 1) |-> 0]
    ELSE [i \in 1..((Len(part) + 1) \div 2) |->
            IF 2 * i <= Len(part) THEN 16 * part[2 * i - 1] + part[2 * i] ELSE part[2 * i - 1]]

AddressBuffer(type, text) ==
    IF type = 4 THEN FlattenSeq([i \in 1..Len(text) |-> PartBytes(text[i], Len(text))]) ELSE text

ReplyLength(type, text) ==
    CASE type = 1 -> 10 [] type = 3 -> 7 + Len(text) [] type = 4 -> 22

\* Faulty variant of AddressOffset: the length of a name is overwritten.
AddressOffsetFixed(type) == 4

AddressOffset(type) == IF type = 3 THEN 5 ELSE 4

\* The address is copied as far as there is room, then the port goes over its
\* last two bytes.
SendReply(code, type, text, port) ==
    LET address == AddressBuffer(type, text)
        n       == ReplyLength(type, text)
        offset  == AddressOffset(type)
    IN  [i \in 1..n |->
           IF i <= 4 THEN <<5, code, 0, type>>[i]
           ELSE IF i > n - 2 THEN UInt16(port)[i - n + 2]
           ELSE IF i - offset \in DOMAIN address THEN address[i - offset]
           ELSE IF i = 5 /\ type = 3 THEN Len(address) % 256
           ELSE 0]

\* The UDP socket is an IPv4 socket, and so are its clients.
ConstructSocks5Response(payload, address, port) ==
    <<0, 0>> \o <<0>> \o <<1>> \o address \o UInt16(port) \o payload

-----------------------------------------------------------------------------
(* Auth.ts *)

\* validCredentials.get(user) after loadCredentials, where the last entry wins;
\* empty if there is none, which the code does not tell from an empty password.
StoredPassword(user) ==
    LET entries == {i \in DOMAIN Credentials : Credentials[i].username = user}
    IN  IF entries = {} THEN <<>> ELSE Credentials[Max(entries)].password

Valid(user, password) == StoredPassword(user) # <<>> /\ password = StoredPassword(user)

\* Faulty variant of AuthenticateSocks5: the password is all that follows.
AuthenticateSocks5ToTheEnd(buffer) ==
    LET n        == At(buffer, 1)
        username == Decoded(Slice(buffer, 2, n))
    IN  n # Undefined /\ Valid(username, Decoded(Slice(buffer, 3 + n, Len(buffer))))

AuthenticateSocks5(buffer) ==
    LET n        == At(buffer, 1)
        username == Decoded(Slice(buffer, 2, n))
        password == Decoded(Slice(buffer, 3 + n, At(buffer, 2 + n)))
    IN  n # Undefined /\ Valid(username, password)

Colon == 58

\* Where the fields of a text end, and where one of them begins.
Ends(text) == {i \in DOMAIN text : text[i] = Colon} \cup {Len(text) + 1}

Start(text, end) == Max({i \in Ends(text) : i < end} \cup {0}) + 1

\* text.split(':')
Fields(text) ==
    [k \in 1..Cardinality(Ends(text)) |->
        LET end == Nth(Ends(text), k) IN SubSeq(text, Start(text, end), end - 1)]

\* The words of the header, the second one with base64 undone. Without one the
\* function throws, and its caller takes that for a no.
AuthenticateHttp(words) ==
    /\ Len(words) >= 2
    /\ LET fields == Fields(Decoded(words[2]))
       IN  Len(fields) >= 2 /\ Valid(fields[1], fields[2])

-----------------------------------------------------------------------------
(* The target of a CONNECT *)

Open   == 91
Closed == 93
Www    == <<119, 119, 119, 46>>
Digits == 48..57

\* text.replace(/[\[\]]/g, '')
WithoutBrackets(text) ==
    LET kept == {i \in DOMAIN text : text[i] \notin {Open, Closed}}
    IN  [k \in 1..Cardinality(kept) |-> text[Nth(kept, k)]]

\* What handleHttpsRequest looks up in the blacklist of servers.
CheckedHost(url) ==
    LET host == WithoutBrackets(Fields(url)[1])
    IN  IF IsPrefix(Www, host) THEN SubSeq(host, 5, Len(host)) ELSE host

\* Faulty variant of Unbracketed: only the first bracket is taken off.
UnbracketedLeft(host) == IF host # <<>> /\ host[1] = Open THEN Tail(host) ELSE host

Unbracketed(host) ==
    LET right == IF host # <<>> /\ host[1] = Open THEN Tail(host) ELSE host
    IN  IF right # <<>> /\ Last(right) = Closed THEN Front(right) ELSE right

\* parseHostAndPort: the regular expression takes the last colon. The port is
\* left as text.
ParseHostAndPort(url) ==
    LET fields == Fields(url)
        port   == Last(fields)
        host   == Unbracketed(SubSeq(url, 1, Len(url) - Len(port) - 1))
    IN  IF Len(fields) < 2 \/ port = <<>> \/ host = <<>>
           \/ (\E i \in DOMAIN port : port[i] \notin Digits)
           \/ (\E i \in DOMAIN host : host[i] = Closed)
        THEN Throws
        ELSE [hostname |-> host, port |-> port]

-----------------------------------------------------------------------------
(* What senders mean (RFC 1928, 1929 and 7617) *)

Words(address) ==
    address[1] \o [i \in 1..(8 - Len(address[1]) - Len(address[2])) |-> 0] \o address[2]

WordBytes(words) ==
    [i \in 1..(2 * Len(words)) |-> UInt16(words[(i + 1) \div 2])[2 - (i % 2)]]

Targets ==
    [type : {1}, host : IPv4Addresses, port : Ports]
    \cup [type : {3}, host : DomainNames, port : Ports]
    \cup [type : {4}, host : {WordBytes(Words(a)) : a \in IPv6Addresses}, port : Ports]

\* A command, or the header of a datagram.
Header(target) ==
    <<5, 1, 0, target.type>>
    \o (IF target.type = 3 THEN <<Len(target.host)>> ELSE <<>>)
    \o target.host \o UInt16(target.port)

AuthMessage(c) == <<1, Len(c.user)>> \o c.user \o <<Len(c.password)>> \o c.password

\* How an IPv6 address is written: with all its digits, without leading zeros,
\* or also without the zeros in its middle, as Node writes socket.remoteAddress.
HexDigits(w) == <<w \div 4096, (w \div 256) % 16, (w \div 16) % 16, w % 16>>

Shortened(w) ==
    LET n == CASE w >= 4096 -> 4 [] w \in 256..4095 -> 3 [] w \in 16..255 -> 2 [] w < 16 -> 1
    IN  SubSeq(HexDigits(w), 5 - n, 4)

Written(address, style) ==
    LET short(words) == [i \in 1..Len(words) |-> Shortened(words[i])]
        edge(words)  == IF words = <<>> THEN <<<<>>>> ELSE short(words)
        gap          == Len(address[1]) + Len(address[2]) < 8
    IN  CASE style = "padded"             -> [i \in 1..8 |-> HexDigits(Words(address)[i])]
          [] style = "compressed" /\ gap -> edge(address[1]) \o <<<<>>>> \o edge(address[2])
          [] OTHER                        -> short(Words(address))

\* ASCII names that are neither empty nor an IPv6 address.
ReplyNames == {n \in DomainNames \ {<<>>} : \A i \in DOMAIN n : n[i] < 128 /\ n[i] # Colon}

\* What sendReply is asked to say: its own address or the other end's.
Bound ==
    {[type |-> 1, host |-> a, text |-> a, port |-> p] : a \in IPv4Addresses, p \in Ports}
    \cup {[type |-> 3, host |-> n, text |-> n, port |-> p] : n \in ReplyNames, p \in Ports}
    \cup {[type |-> 4, host |-> WordBytes(Words(a)), text |-> Written(a, style), port |-> p] :
            a \in IPv6Addresses, style \in {"padded", "plain", "compressed"}, p \in Ports}

PortText == <<56, 48>>

WireInit ==
    \/ /\ format = "target"
       /\ meant \in Targets
       /\ data = Header(meant)
    \/ /\ format = "credentials"
       /\ meant \in [user : Users, password : Passwords]
       /\ data = AuthMessage(meant)
    \/ /\ format = "reply"
       /\ meant \in Bound
       /\ data = SendReply(0, meant.type, meant.text, meant.port)
    \/ /\ format = "response"
       \* any bytes are a payload
       /\ meant \in [payload : DomainNames, address : IPv4Addresses, port : Ports]
       /\ data = ConstructSocks5Response(meant.payload, meant.address, meant.port)
    \/ /\ format = "authorization"
       /\ meant \in [user : Users, password : Passwords]
       /\ \A i \in DOMAIN meant.user : meant.user[i] # Colon
       /\ data = <<<<66>>, meant.user \o <<Colon>> \o meant.password>>
    \/ /\ format = "authority"
       /\ meant \in [host : DomainNames, bracketed : BOOLEAN]
       /\ meant.host # <<>>
       /\ \A i \in DOMAIN meant.host : meant.host[i] \notin {Open, Closed}
       /\ (\E i \in DOMAIN meant.host : meant.host[i] = Colon) = meant.bracketed
       /\ data = (IF meant.bracketed THEN <<Open>> \o meant.host \o <<Closed>> ELSE meant.host)
                 \o <<Colon>> \o PortText

\* The message itself, of those that can arrive in pieces.
Whole == IF format = "target" THEN Header(meant) ELSE AuthMessage(meant)

\* The chunk ends earlier.
Split ==
    /\ format \in {"target", "credentials"}
    /\ data # <<>>
    /\ data' = Front(data)
    /\ UNCHANGED <<format, meant>>

\* There is more in the chunk: the payload of a datagram, or the next message.
Extend ==
    /\ format \in {"target", "credentials"}
    /\ IsPrefix(Whole, data)
    /\ Len(data) < Len(Whole) + MaxExtra
    /\ \E b \in {0, 7} : data' = Append(data, b)
    /\ UNCHANGED <<format, meant>>

WireNext == Split \/ Extend

WireSpec == WireInit /\ [][WireNext]_wireVars

-----------------------------------------------------------------------------
(* Correctness *)

\* parseDestination returns what the client meant if the chunk holds the whole
\* command, whatever is behind it, and throws on every shorter piece of it. It
\* never returns another destination, except that of a name only the decoded
\* text is left: that is the same for ASCII, and what is not UTF-8 is replaced.
ParseExact ==
    format = "target" =>
        IF IsPrefix(Whole, data)
        THEN /\ ParseDestination(data) = [meant EXCEPT !.host = Host(meant.type, meant.host)]
             /\ (\A i \in DOMAIN meant.host : meant.host[i] < 128) =>
                  ParseDestination(data) = meant
        ELSE ParseDestination(data) = Throws

\* A datagram that is recognised and parsed is forwarded without its header and
\* with all of its payload; the ones that are not recognised although they
\* carry something are those of at most ten bytes, to a short name.
PayloadExact ==
    format = "target" /\ IsPrefix(Whole, data) =>
        LET payload == SubSeq(data, Len(Whole) + 1, Len(data))
        IN  /\ IsSocks5Message(data) =>
                 SubSeq(data, PayloadStartIndex(data) + 1, Len(data)) = payload
            /\ payload # <<>> /\ ~IsSocks5Message(data) => meant.type = 3 /\ Len(data) <= 10

\* A reply is as long as its address type says and ends with the port, however
\* the address is written, so the client finds the data behind it; the address
\* in it is the right one, if an IPv6 address is written with all its digits.
\* What a UDP client gets is a header and the payload of the answer.
ReplyExact ==
    /\ format = "reply" =>
         LET read == ParseDestination(data)
         IN  /\ read # Throws
             /\ PayloadStartIndex(data) = Len(data)
             /\ read.type = meant.type /\ read.port = meant.port
             /\ (meant.type = 4 => \A i \in DOMAIN meant.text : Len(meant.text[i]) = 4) =>
                  read.host = meant.host
    /\ format = "response" =>
         /\ ParseDestination(data) = [type |-> 1, host |-> meant.address, port |-> meant.port]
         /\ SubSeq(data, PayloadStartIndex(data) + 1, Len(data)) = meant.payload

\* A whole message is accepted exactly if user and password, decoded, are the
\* stored ones, whatever is behind it; a piece of it only if the password was
\* cut down to the stored one. The HTTP header is judged in the same way, by the
\* part of the password in front of its first colon: decoding both at once finds
\* the texts that decoding each of them does.
CredentialsExact ==
    /\ format = "credentials" =>
         IF IsPrefix(Whole, data)
         THEN AuthenticateSocks5(data) = Valid(Decoded(meant.user), Decoded(meant.password))
         ELSE AuthenticateSocks5(data) =>
                \E n \in 0..(Len(meant.password) - 1) :
                    StoredPassword(Decoded(meant.user)) = Decoded(SubSeq(meant.password, 1, n))
    /\ format = "authorization" =>
         AuthenticateHttp(data) =
             Valid(Decoded(meant.user), Fields(Decoded(meant.password))[1])

\* A tunnel leads to the host that was named. It is also the host that was
\* looked up, if it has no colon in it and does not begin with "www.".
TargetExact ==
    format = "authority" =>
        /\ ParseHostAndPort(data) = [hostname |-> meant.host, port |-> PortText]
        /\ ~meant.bracketed /\ ~IsPrefix(Www, meant.host) => CheckedHost(data) = meant.host

-----------------------------------------------------------------------------
(* The inductive invariant *)

\* As much of a message as there is, and whatever is behind it.
Arrived ==
    /\ data \in Seq(Nat)
    /\ \A i \in 1..Len(data) : i <= Len(Whole) => data[i] = Whole[i]

WireInv ==
    \/ format = "target" /\ meant \in Targets /\ Arrived
    \/ format = "credentials" /\ meant \in [user : Users, password : Passwords] /\ Arrived
    \/ format \notin {"target", "credentials"} /\ WireInit
=============================================================================
