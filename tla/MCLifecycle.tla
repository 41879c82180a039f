---------------------------- MODULE MCLifecycle ----------------------------
(* Bounds for model checking Lifecycle. *)
EXTENDS Lifecycle

CONSTANT c1

MCClients == {c1}
=============================================================================
