----------------------------- MODULE MCSubagent -----------------------------
(* Instances of Subagent for TLC. *)
EXTENDS Subagent
=============================================================================
