--------------------------- MODULE MCResponseStream ---------------------------
(* Instances of ResponseStream for TLC: a few replies with text, calls and reasoning. *)
EXTENDS ResponseStream

Say(text) == [sections |-> <<>>, rest |-> text]
Param(key, value) == [key |-> key, value |-> value]
Call(id, params) == [id |-> id, params |-> params]

\* A lone "<", a call with two parameters and another lone "<".
OneCall ==
  [sections |-> << [text |-> <<"<">>,
      calls |-> << Call("call1", <<Param("path", <<>>), Param("body", <<"<">>)>>) >>] >>,
   rest |-> <<"<">>]

\* A call that leaked into the reasoning.
Leaked ==
  [sections |-> << [text |-> <<"x">>, calls |-> << Call("call1", <<>>), Call("call2", <<>>) >>] >>,
   rest |-> <<>>]

MCReplies == {
  [content |-> OneCall, reasoning |-> Say(<<>>)],
  [content |-> Say(<<"<", "x">>), reasoning |-> Leaked]}

\* Two calls whose fragments may interleave, the second without arguments.
MCV3Replies == {
  [content |-> <<"x">>, reasoning |-> <<"x">>,
   calls |-> << [id |-> "call1", args |-> <<"{", "x", "}">>],
                [id |-> "call2", args |-> <<"{", "}">>] >>]}

MCLineEnds == {<<LF>>, <<CR, LF>>}
===============================================================================
