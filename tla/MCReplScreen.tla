----------------------------- MODULE MCReplScreen -----------------------------
(* Instances of ReplScreen for TLC: germinate_spore, write_file and an unknown tool. *)
EXTENDS ReplScreen
CONSTANTS germinate, write, unknown, none
===============================================================================
