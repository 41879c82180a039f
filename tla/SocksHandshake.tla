--------------------------- MODULE SocksHandshake ---------------------------
(***************************************************************************)
(* What the SOCKS5 handshake promises for each client connection,          *)
(* independently of sockets, messages and ports: a connection is served    *)
(* only after it was greeted and, when the server asks for a password,     *)
(* only after it authenticated; a connection that was told its             *)
(* authentication failed is never served, whatever it sends afterwards.    *)
(* SocksSession is shown to implement this specification.                  *)
(***************************************************************************)
CONSTANTS
    Connections,   \* the client connections
    RequireAuth    \* does the server ask for a password?

VARIABLE phase     \* [Connections -> Phases]

Phases == {"new", "challenged", "admitted", "served", "refused"}

HandshakeInit == phase = [c \in Connections |-> "new"]

Move(c, from, to) ==
    /\ phase[c] = from
    /\ phase' = [phase EXCEPT ![c] = to]

Greet(c)        == Move(c, "new", IF RequireAuth THEN "challenged" ELSE "admitted")
Authenticate(c) == Move(c, "challenged", "admitted")
Refuse(c)       == Move(c, "challenged", "refused")
Serve(c)        == Move(c, "admitted", "served")

HandshakeNext ==
    \E c \in Connections : Greet(c) \/ Authenticate(c) \/ Refuse(c) \/ Serve(c)

HandshakeSpec == HandshakeInit /\ [][HandshakeNext]_phase
=============================================================================
