--------------------------- MODULE MCSocksServer ---------------------------
(* Bounds for model checking SocksServer. *)
EXTENDS SocksServer, TLC

CONSTANTS s1, s2, s3, h1, c1

MCSockets3 == {s1, s2, s3}
MCHosts    == {h1}
MCNoHosts  == {{}}       \* the server lists stay empty
MCClients1 == {c1}
MCPatches  == {{}, {c1}}
MCPorts    == 10..11

Symmetry == Permutations(MCSockets3)
=============================================================================
