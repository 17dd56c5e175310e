--------------------------- MODULE MCSporeSession ---------------------------
(* Instances of SporeSession for TLC: two MCP spores and one without a server. *)
EXTENDS SporeSession
CONSTANTS web, db, docs
=============================================================================
