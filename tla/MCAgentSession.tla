---------------------------- MODULE MCAgentSession ----------------------------
(* Instances of AgentSession for TLC: one tool, no allowlist. *)
EXTENDS AgentSession
CONSTANTS tool, none
=============================================================================
