--------------------------- MODULE MCConnectRelay ---------------------------
(* Model checking ConnectRelay: every constant is given in the .cfg files. *)
EXTENDS ConnectRelay
=============================================================================
