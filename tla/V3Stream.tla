------------------------------ MODULE V3Stream ------------------------------
(***************************************************************************)
(* The stream of DeepSeek V3 (src/adapters/v3/parser.ts): text passes, and  *)
(* the calls, which come in fragments under an index, are collected until   *)
(* the finish_reason.                                                       *)
(*                                                                         *)
(* The arguments of a call are a JSON object: the pieces from "{" to "}".   *)
(***************************************************************************)
EXTENDS Integers, Sequences, SequencesExt

CONSTANT Absent   \* a field that a fragment does not have

VARIABLE pendingCalls   \* V3StreamState.pending, in the order of its insertions

V3Init == pendingCalls = <<>>

Fragment(index, id, args) == [index |-> index, id |-> id, args |-> args]

\* Mutant of Merged: a later fragment takes the place of the earlier ones.
MergedLast(calls, f) ==
  IF \E i \in DOMAIN calls : calls[i].index = f.index
    THEN [i \in DOMAIN calls |-> IF calls[i].index = f.index THEN f ELSE calls[i]]
    ELSE Append(calls, f)

\* A fragment begins a call or continues one.
Merged(calls, f) ==
  IF \E i \in DOMAIN calls : calls[i].index = f.index
    THEN [i \in DOMAIN calls |->
            IF calls[i].index # f.index THEN calls[i]
            ELSE [calls[i] EXCEPT !.id = IF f.id = Absent THEN @ ELSE f.id,
                                  !.args = @ \o f.args]]
    ELSE Append(calls, f)

Collected(fragments) ==
  LET after[n \in 0..Len(fragments)] ==
        IF n = 0 THEN pendingCalls ELSE Merged(after[n - 1], fragments[n])
  IN  after[Len(fragments)]

\* JSON.parse succeeds.
IsObject(args) == Len(args) > 1 /\ args[1] = "{" /\ Last(args) = "}"

\* What is in the braces; no arguments at all count as an empty object.
ObjectIn(args) == IF args = <<>> THEN <<>> ELSE SubSeq(args, 2, Len(args) - 1)

\* The collected calls, or errors in their place, when a finish_reason has come.
FlushedCalls ==
  [i \in DOMAIN pendingCalls |->
     LET c == pendingCalls[i] IN
     IF c.args = <<>> \/ IsObject(c.args)
       THEN [type |-> "tool_call", channel |-> "content", id |-> c.id, args |-> ObjectIn(c.args)]
       ELSE [type |-> "error"]]
=============================================================================
