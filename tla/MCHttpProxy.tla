---------------------------- MODULE MCHttpProxy ----------------------------
(* Bounds for model checking HttpProxy. *)
EXTENDS HttpProxy

CONSTANTS s1, s2, s3, h1, c1

MCSockets  == {s1, s2, s3}
MCClients  == {c1}
MCHosts    == {h1}
MCPatches  == {{}, {c1}}
MCHostLists == {{}, {h1}}
=============================================================================
