---------------------------- MODULE MCBindRelay ----------------------------
(* Model checking BindRelay: every constant is given in the .cfg files. *)
EXTENDS BindRelay
=============================================================================
