--------------------------- MODULE MCSessionLogger ---------------------------
(* Instances of SessionLogger for TLC. *)
EXTENDS SessionLogger
=============================================================================
