--------------------------- MODULE MCSocksSession ---------------------------
(* Bounds for model checking SocksSession. *)
EXTENDS SocksSession, TLC

CONSTANTS s1, s2, s3, h1

MCSockets   == {s1, s2, s3}
MCHosts     == {h1}
MCNoHosts   == {{}}       \* the list stays empty
MCBlacklists == {{}, {h1}}
MCPorts     == 10..11
SocketSymmetry == Permutations(MCSockets)
=============================================================================
