--------------------------- MODULE MCQueryEngine ---------------------------
(* Instances of QueryEngine for TLC: what the tools return. *)
EXTENDS QueryEngine
CONSTANT f

Short == [read |-> NoFile, error |-> FALSE, chars |-> 2, original |-> 0]
Long  == [Short EXCEPT !.chars = 240]

Failures == {[Short EXCEPT !.error = TRUE]}
MixedOutputs ==
  {Long, [Long EXCEPT !.original = 500], [Short EXCEPT !.error = TRUE],
   [Short EXCEPT !.read = f], [Long EXCEPT !.read = f]}
=============================================================================
