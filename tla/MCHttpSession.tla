--------------------------- MODULE MCHttpSession ---------------------------
(* Model checking HttpSession: every constant is given in the .cfg file. *)
EXTENDS HttpSession
=============================================================================
