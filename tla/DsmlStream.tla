----------------------------- MODULE DsmlStream -----------------------------
(***************************************************************************)
(* The incremental parser of DSML, the markup in which DeepSeek V4 writes   *)
(* its tool calls (src/adapters/v4/dsmlParser.ts), one parser per channel.  *)
(*                                                                         *)
(* Text is a sequence of pieces.  A marker is two of them, "<" and its rest *)
(* ("/param" for "/param>"), so a text may be cut inside a marker.  Where   *)
(* inside makes no difference to the code: it looks for whole markers, or   *)
(* for the first ">" after a "<", and only a rest holds one.  The pass of a *)
(* loop of feed() or consumeBlockSegment() is an action; they run without   *)
(* an await until the parser is no longer busy.                             *)
(***************************************************************************)
EXTENDS Integers, Sequences, SequencesExt

CONSTANTS CallTags,  \* the rests of call tags, each with an id and a name
          ParamTags, \* the rests of param tags, each with a key
          None

VARIABLES
  parser,  \* channel -> the fields of its DsmlParser
  busy,    \* the channel in whose feed() the program is, or None
  events   \* what the stream has yielded

dsmlVars == <<parser, busy, events>>

Channels == {"content", "reasoning"}

Ordinary == {"<", "x", "&lt;"}
OtherRests == {"open", "close", "/call", "/param"}
Rests == OtherRests \cup CallTags \cup ParamTags
Piece == Ordinary \cup Rests

ASSUME DsmlAssumptions ==
  /\ CallTags \cap ParamTags = {}
  /\ (CallTags \cup ParamTags) \cap (Ordinary \cup OtherRests) = {}
  /\ None \notin Channels \cup Rests

NoCall == [id |-> None, params |-> <<>>, key |-> None, value |-> <<>>]

Text(ch, piece) == [type |-> "text", channel |-> ch, text |-> piece]
Texts(ch, pieces) == [i \in DOMAIN pieces |-> Text(ch, pieces[i])]
ToolCall(ch, id, args) == [type |-> "tool_call", channel |-> ch, id |-> id, args |-> args]

DsmlTypeOK ==
  /\ busy \in Channels \cup {None}
  /\ \A ch \in Channels :
       /\ parser[ch].mode \in {"content", "block"}
       /\ parser[ch].buffer \in Seq(Piece)
       /\ parser[ch].call.id \in CallTags \cup {None}
       /\ parser[ch].call.key \in ParamTags \cup {None}
       /\ parser[ch].call.id = None => parser[ch].call = NoCall
       /\ parser[ch].mode = "content" => parser[ch].call = NoCall
       /\ busy = None /\ parser[ch].mode = "content" => parser[ch].buffer \in {<<>>, <<"<">>}

DsmlInit ==
  /\ parser = [ch \in Channels |-> [buffer |-> <<>>, mode |-> "content", call |-> NoCall]]
  /\ busy = None
  /\ events = <<>>

-----------------------------------------------------------------------------
(* Searching the buffer                                                    *)

Markers(m, s) == {i \in 1..(Len(s) - 1) : s[i] = "<" /\ s[i + 1] = m}

Drop(s, n) == SubSeq(s, n + 1, Len(s))

\* What precedes the end of the block, or all there is.
Segment(p) ==
  LET ends == Markers("close", p.buffer)
  IN  IF ends = {} THEN p.buffer ELSE SubSeq(p.buffer, 1, Min(ends) - 1)

\* Entities are resolved when a value is complete.
Unescape(value) == [i \in DOMAIN value |-> IF value[i] = "&lt;" THEN "<" ELSE value[i]]

\* The arguments of a call: the last parameter of a key wins.
Args(params) ==
  [k \in {params[i].key : i \in DOMAIN params} |->
     params[Max({i \in DOMAIN params : params[i].key = k})].value]

-----------------------------------------------------------------------------
(* feed()                                                                  *)

Feed(ch, text) ==
  /\ busy = None
  /\ busy' = ch
  /\ parser' = [parser EXCEPT ![ch].buffer = @ \o text]
  /\ UNCHANGED events

\* All but an end that may be the start of a block.
SafePrefix(s) == IF s # <<>> /\ Last(s) = "<" THEN Front(s) ELSE s

\* No block begins: what is certainly text is emitted.
EmitContent(ch) ==
  LET p == parser[ch]
      safe == SafePrefix(p.buffer)
  IN
  /\ busy = ch
  /\ p.mode = "content" /\ Markers("open", p.buffer) = {}
  /\ events' = events \o Texts(ch, safe)
  /\ parser' = [parser EXCEPT ![ch].buffer = Drop(@, Len(safe))]
  /\ busy' = None

OpenBlock(ch) ==
  LET p == parser[ch]
      open == Min(Markers("open", p.buffer))
  IN
  /\ busy = ch
  /\ p.mode = "content" /\ Markers("open", p.buffer) # {}
  /\ events' = events \o Texts(ch, SubSeq(p.buffer, 1, open - 1))
  /\ parser' = [parser EXCEPT ![ch].buffer = Drop(@, open + 1), ![ch].mode = "block"]
  /\ UNCHANGED busy

\* The segment is consumed; call is what has been read of a call.  The end of the
\* block, if it has come, is consumed too, and an unfinished call is dropped.
EndSegment(ch, call) ==
  LET p == parser[ch]
      n == Len(Segment(p))
  IN
  /\ IF n < Len(p.buffer)
       THEN /\ parser' = [parser EXCEPT ![ch] = [buffer |-> Drop(p.buffer, n + 2),
                                                 mode |-> "content", call |-> NoCall]]
            /\ UNCHANGED busy
       ELSE /\ parser' = [parser EXCEPT ![ch].buffer = <<>>, ![ch].call = call]
            /\ busy' = None
  /\ UNCHANGED events

InBlock(ch) == busy = ch /\ parser[ch].mode = "block"

EndParam(ch) ==
  LET p == parser[ch]
      ends == Markers("/param", Segment(p))
      value == p.call.value \o SubSeq(p.buffer, 1, Min(ends) - 1)
  IN
  /\ InBlock(ch) /\ p.call.key # None /\ ends # {}
  /\ parser' = [parser EXCEPT
       ![ch].buffer = Drop(@, Min(ends) + 1),
       ![ch].call.params = Append(@, [key |-> p.call.key, value |-> Unescape(value)]),
       ![ch].call.key = None, ![ch].call.value = <<>>]
  /\ UNCHANGED <<busy, events>>

\* Everything there is goes to the value, the start of a marker included.
ReadValue(ch) ==
  LET p == parser[ch] IN
  /\ InBlock(ch) /\ p.call.key # None
  /\ Markers("/param", Segment(p)) = {}
  /\ EndSegment(ch, [p.call EXCEPT !.value = @ \o Segment(p)])

\* Text between tags is ignored.
SkipText(ch) ==
  LET p == parser[ch] IN
  /\ InBlock(ch) /\ p.call.key = None
  /\ ~Contains(Segment(p), "<")
  /\ EndSegment(ch, p.call)

\* The first "<", and the first ">" after it.
TagStart(s) == Min({i \in DOMAIN s : s[i] = "<"})
TagEnds(s) == {i \in TagStart(s)..Len(s) : s[i] \in Rests}

\* Mutant of AwaitTag: the start of a tag is consumed.
SkipTagStart(ch) ==
  LET p == parser[ch] IN
  /\ InBlock(ch) /\ p.call.key = None
  /\ Contains(Segment(p), "<") /\ TagEnds(Segment(p)) = {}
  /\ EndSegment(ch, p.call)

\* A tag without its end waits for more, even if the end of the block has come.
AwaitTag(ch) ==
  LET p == parser[ch] IN
  /\ InBlock(ch) /\ p.call.key = None
  /\ Contains(Segment(p), "<") /\ TagEnds(Segment(p)) = {}
  /\ parser' = [parser EXCEPT ![ch].buffer = Drop(@, TagStart(@) - 1)]
  /\ busy' = None
  /\ UNCHANGED events

\* A call begins (an unfinished one is dropped) or ends, a parameter begins; any
\* other tag, or text from a "<" to a ">", is ignored.
ReadTag(ch) ==
  LET p == parser[ch]
      seg == Segment(p)
      end == Min(TagEnds(seg))
      tag == IF end = TagStart(seg) + 1 THEN seg[end] ELSE None
      ends == tag = "/call" /\ p.call # NoCall
  IN
  /\ InBlock(ch) /\ p.call.key = None
  /\ Contains(seg, "<") /\ TagEnds(seg) # {}
  /\ events' = IF ends THEN Append(events, ToolCall(ch, p.call.id, Args(p.call.params)))
                       ELSE events
  /\ parser' = [parser EXCEPT ![ch].buffer = Drop(@, end),
       ![ch].call =
         CASE tag \in CallTags -> [NoCall EXCEPT !.id = tag]
           [] ends -> NoCall
           [] tag \in ParamTags /\ p.call # NoCall -> [@ EXCEPT !.key = tag]
           [] OTHER -> @]
  /\ UNCHANGED busy

Parse ==
  \E ch \in Channels :
    \/ EmitContent(ch) \/ OpenBlock(ch)
    \/ EndParam(ch) \/ ReadValue(ch) \/ SkipText(ch) \/ AwaitTag(ch) \/ ReadTag(ch)

\* flush(): what was withheld of the text is text after all.
Flushed(ch) ==
  IF parser[ch].mode = "content" THEN Texts(ch, parser[ch].buffer) ELSE <<>>

AfterFlush(p) == IF p.mode = "content" THEN [p EXCEPT !.buffer = <<>>] ELSE p
=============================================================================
