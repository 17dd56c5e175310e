----------------------------- MODULE MCReactLoop -----------------------------
(* Instances of ReactLoop for TLC: germinate_spore and the wrapper of one MCP tool. *)
EXTENDS ReactLoop
CONSTANTS germinate, mcp, none
=============================================================================
