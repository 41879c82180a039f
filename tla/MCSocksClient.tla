--------------------------- MODULE MCSocksClient ---------------------------
(* Bounds for model checking SocksClient: one honest connection and one    *)
(* that may do anything.                                                   *)
EXTENDS SocksClient

CONSTANTS s1, s2, h1, c1, c2

MCSockets   == {s1, s2}
MCOneHonest == {s1}
MCClients   == {c1, c2}
MCHosts     == {h1}
MCNoHosts   == {{}}             \* the server lists stay empty
MCHostLists == {{}, {h1}}
MCNoPatch   == {}               \* the operator never patches the client lists
MCPatches   == {{}, {c2}}
MCPorts     == 10..11
MCBoth      == {0, 2}
=============================================================================
