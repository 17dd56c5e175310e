--------------------------- MODULE ResponseStream ---------------------------
(***************************************************************************)
(* One streamed response of DeepSeek: the server sends deltas of a reply as *)
(* server-sent events and the network cuts them into chunks.  With V4 the   *)
(* calls are markup in the text and V4Adapter.stream                        *)
(* (src/adapters/v4/adapter.ts) feeds what arrives to the DSML parsers of   *)
(* its two channels; with V3 (src/adapters/v3/adapter.ts) they come apart   *)
(* from the text, in fragments.                                             *)
(***************************************************************************)
EXTENDS SseStream, DsmlStream, V3Stream

CONSTANTS
  Replies,   \* what a V4 model may say: channel -> texts with blocks of calls between
  V3Replies, \* what a V3 model may say: the texts of both channels and calls
  LineEnds,  \* line terminators a server may use
  MaxDelta,  \* bound: pieces of one delta
  MaxWire    \* bound: symbols in flight when the server sends

ASSUME BoundAssumptions == {MaxChunk, MaxDelta, MaxWire} \subseteq Nat

\* A text without the start of a block.
PlainText == {t \in Seq(Piece) : Markers("open", t) = {}}

\* Sections, each a text and a block of calls, and the rest of the text.  Values are
\* raw: an entity is what a "<" of theirs becomes on the wire.
V4Param == [key : ParamTags, value : Seq(Piece \ {"&lt;"})]
V4Call == [id : CallTags, params : Seq(V4Param)]
Section == [text : PlainText, calls : Seq(V4Call)]
V4Text == [sections : Seq(Section), rest : PlainText]

JsonPiece == {"{", "x", "}"}
V3Call == [id : CallTags, args : Seq(JsonPiece)]
V3Reply == [content : Seq(Piece), reasoning : Seq(Piece), calls : Seq(V3Call)]

\* The arguments of a call are an object or nothing; the start of an object is none.
WholeObject(args) ==
  /\ args # <<>> => IsObject(args)
  /\ \A k \in 0..(Len(args) - 1) : ~IsObject(SubSeq(args, 1, k))

ASSUME ReplyAssumptions ==
  /\ Replies \subseteq [Channels -> V4Text]
  /\ V3Replies \subseteq V3Reply
  /\ \A r \in V3Replies :
       /\ \A i \in DOMAIN r.calls : WholeObject(r.calls[i].args)
       /\ \A i, j \in DOMAIN r.calls : r.calls[i].id = r.calls[j].id => i = j
  /\ CallTags \cap (Channels \cup {Absent}) = {}
  /\ LineEnds \subseteq {<<LF>>, <<CR>>, <<CR, LF>>}

VARIABLES
  protocol, \* the adapter of the session: "v3" or "v4"
  reply,    \* the reply
  lineEnd,
  sent,     \* channel, or V3 call -> pieces sent
  finished, \* a terminal finish_reason has been sent
  cut       \* a delta ended inside a "</param>"

serverVars == <<protocol, reply, lineEnd, sent, finished, cut>>
vars == <<sseVars, dsmlVars, pendingCalls, serverVars>>

-----------------------------------------------------------------------------
(* What a reply is on the wire, and what it means                          *)

Escape(value) == [i \in DOMAIN value |-> IF value[i] = "<" THEN "&lt;" ELSE value[i]]

ParamWire(p) == <<"<", p.key>> \o Escape(p.value) \o <<"<", "/param">>

CallWire(c) ==
  <<"<", c.id>> \o FlattenSeq([i \in DOMAIN c.params |-> ParamWire(c.params[i])])
    \o <<"<", "/call">>

SectionWire(s) ==
  s.text \o <<"<", "open">> \o FlattenSeq([i \in DOMAIN s.calls |-> CallWire(s.calls[i])])
         \o <<"<", "close">>

\* The id and the name of a call come first, then its arguments.
V3CallWire(n) ==
  <<Fragment(n, reply.calls[n].id, <<>>)>> \o
  [i \in DOMAIN reply.calls[n].args |-> Fragment(n, Absent, <<reply.calls[n].args[i]>>)]

V3Index(id) == CHOOSE n \in DOMAIN reply.calls : reply.calls[n].id = id

V3Ids == IF protocol = "v3" THEN {reply.calls[n].id : n \in DOMAIN reply.calls} ELSE {}

\* The parts of a reply that are sent side by side.
Parts == Channels \cup V3Ids

ReplyWire(part) ==
  IF part \in V3Ids THEN V3CallWire(V3Index(part))
  ELSE IF protocol = "v3" THEN reply[part]
  ELSE LET r == reply[part] IN
       FlattenSeq([i \in DOMAIN r.sections |-> SectionWire(r.sections[i])]) \o r.rest

SectionMeaning(ch, s) ==
  Texts(ch, s.text) \o
  [i \in DOMAIN s.calls |-> ToolCall(ch, s.calls[i].id, Args(s.calls[i].params))]

Meaning(ch) ==
  IF protocol = "v4"
    THEN LET r == reply[ch] IN
         FlattenSeq([i \in DOMAIN r.sections |-> SectionMeaning(ch, r.sections[i])])
           \o Texts(ch, r.rest)
  ELSE Texts(ch, reply[ch]) \o
       IF ch # "content" THEN <<>>
       ELSE [n \in DOMAIN reply.calls |->
               ToolCall(ch, reply.calls[n].id, ObjectIn(reply.calls[n].args))]

Delta(part, pieces) ==
  Body(IF part \in V3Ids THEN [type |-> "calls", fragments |-> pieces]
                         ELSE [type |-> "delta", channel |-> part, text |-> pieces])
Finish == Body([type |-> "finish"])
Junk == Body([type |-> "junk"])   \* not JSON

Event(body) == <<Data, body>> \o lineEnd \o lineEnd

-----------------------------------------------------------------------------
TypeOK ==
  /\ SseTypeOK
  /\ DsmlTypeOK
  /\ protocol \in {"v3", "v4"}
  /\ reply \in (IF protocol = "v3" THEN V3Replies ELSE Replies)
  /\ lineEnd \in LineEnds
  /\ DOMAIN sent = Parts /\ \A part \in Parts : sent[part] \in 0..Len(ReplyWire(part))
  /\ pendingCalls # <<>> => protocol = "v3"
  /\ \A i, j \in DOMAIN pendingCalls : pendingCalls[i].index = pendingCalls[j].index => i = j
  /\ finished \in BOOLEAN
  /\ cut \in BOOLEAN

Init ==
  /\ SseInit
  /\ DsmlInit
  /\ V3Init
  /\ \/ protocol = "v4" /\ reply \in Replies
     \/ protocol = "v3" /\ reply \in V3Replies
  /\ lineEnd \in LineEnds
  /\ sent = [part \in Parts |-> 0]
  /\ finished = FALSE
  /\ cut = FALSE

-----------------------------------------------------------------------------
(* The server and the network                                              *)

Sends(symbols) ==
  /\ connection = "open"
  /\ Len(wire) <= MaxWire
  /\ wire' = wire \o symbols
  /\ UNCHANGED <<connection, buffer, reading, dsmlVars, pendingCalls, protocol, reply, lineEnd>>

\* Some more of one part; V3 begins a call when the one before has begun.
SendDelta ==
  /\ ~finished
  /\ \E part \in Parts, n \in 1..MaxDelta :
       LET w == ReplyWire(part)
           to == sent[part] + n
       IN
       /\ to <= Len(w)
       /\ part \in V3Ids => \A id \in V3Ids : V3Index(id) < V3Index(part) => sent[id] > 0
       /\ Sends(Event(Delta(part, SubSeq(w, sent[part] + 1, to))))
       /\ sent' = [sent EXCEPT ![part] = to]
       /\ cut' = (cut \/ (protocol = "v4" /\ w[to] = "<" /\ to < Len(w) /\ w[to + 1] = "/param"))
  /\ UNCHANGED finished

\* Something that is not JSON, after a comment line, before the reply.
SendJunk ==
  /\ wire = <<>> /\ buffer = <<>> /\ events = <<>> /\ busy = None
  /\ \A part \in Parts : sent[part] = 0
  /\ ~finished
  /\ Sends(<<Comment>> \o lineEnd \o Event(Junk))
  /\ UNCHANGED <<sent, finished, cut>>

\* finish_reason: the reply is complete, or too long.
SendFinish ==
  /\ ~finished
  /\ finished' = TRUE
  /\ Sends(Event(Finish))
  /\ UNCHANGED <<sent, cut>>

\* The end, perhaps after [DONE] or the finish_reason without an empty line.
CloseConnection ==
  /\ connection = "open"
  /\ connection' = "closed"
  /\ \/ /\ wire' \in {wire, wire \o <<Data, DoneMarker>>}
        /\ UNCHANGED finished
     \/ /\ ~finished
        /\ wire' = wire \o <<Data, Finish>>
        /\ finished' = TRUE
  /\ UNCHANGED <<buffer, reading, dsmlVars, pendingCalls, protocol, reply, lineEnd, sent, cut>>

BreakConnection ==
  /\ connection = "open"
  /\ connection' = "broken"
  /\ UNCHANGED <<wire, buffer, reading, dsmlVars, pendingCalls, serverVars>>

-----------------------------------------------------------------------------
(* The adapter                                                             *)

Receive == busy = None /\ ReceiveChunk /\ UNCHANGED <<dsmlVars, pendingCalls, serverVars>>

\* V4: text is fed to its channel; at the end both are flushed.
V4Chunk(p) ==
  /\ \/ p.type = "delta" /\ Feed(p.channel, p.text)
     \/ /\ p.type = "finish"
        /\ events' = events \o Flushed("content") \o Flushed("reasoning")
                       \o <<[type |-> "done"]>>
        /\ parser' = [ch \in Channels |-> AfterFlush(parser[ch])]
        /\ UNCHANGED busy
  /\ UNCHANGED pendingCalls

\* V3: text passes, fragments are collected, and the end flushes the calls.
V3Chunk(p) ==
  /\ \/ /\ p.type = "delta"
        /\ events' = events \o Texts(p.channel, p.text)
        /\ UNCHANGED pendingCalls
     \/ /\ p.type = "calls"
        /\ pendingCalls' = Collected(p.fragments)
        /\ UNCHANGED events
     \/ /\ p.type = "finish"
        /\ events' = events \o FlushedCalls \o <<[type |-> "done"]>>
        /\ pendingCalls' = <<>>
  /\ UNCHANGED <<parser, busy>>

Handle(payload) ==
  IF payload \in {<<>>, <<DoneMarker>>} THEN UNCHANGED <<dsmlVars, pendingCalls>>
  ELSE LET p == payload[1].payload IN
       \/ protocol = "v4" /\ V4Chunk(p)
       \/ protocol = "v3" /\ V3Chunk(p)
       \/ /\ p.type = "junk"
          /\ events' = Append(events, [type |-> "error"])
          /\ UNCHANGED <<parser, busy, pendingCalls>>

Consume ==
  /\ busy = None
  /\ LET end == IF BlankLines = {} THEN Len(buffer) ELSE Min(BlankLines) - 1
         payload == ExtractDataPayload(SubSeq(buffer, 1, end))
     IN  (NextEvent(payload) \/ LastEvent(payload)) /\ Handle(payload)
  /\ UNCHANGED serverVars

\* An error on the way is an event, and the last.
Fail ==
  /\ busy = None
  /\ ReadFails
  /\ events' = Append(events, [type |-> "error"])
  /\ UNCHANGED <<parser, busy, pendingCalls, serverVars>>

ParseStep == Parse /\ UNCHANGED <<sseVars, pendingCalls, serverVars>>

Next ==
  \/ SendDelta \/ SendJunk \/ SendFinish \/ CloseConnection \/ BreakConnection
  \/ Receive \/ Consume \/ Fail \/ ParseStep

Spec == Init /\ [][Next]_vars

-----------------------------------------------------------------------------
(* Properties                                                              *)

Calls(es) ==
  FlattenSeq([i \in DOMAIN es |-> IF es[i].type = "tool_call" THEN <<es[i]>> ELSE <<>>])

Of(ch, es) ==
  FlattenSeq([i \in DOMAIN es |->
    IF es[i].type \in {"text", "tool_call"} /\ es[i].channel = ch THEN <<es[i]>> ELSE <<>>])

\* The calls of a channel are delivered as they were made, in order and whole, or not
\* (yet) at all.  A test has it that the parser "handles markers split across feeds"
\* (v4-dsmlParser.test.ts 33); the marker that ends a value it does not.
CallsAsMade ==
  \A ch \in Channels : IsPrefix(Calls(Of(ch, events)), Calls(Meaning(ch)))

Delivered == Calls(events)

\* V3 delivers a call as it was made; one that the finish_reason cut off before its first
\* argument has none (parser.ts 82), one cut off later is an error.
V3CallsAsMade ==
  /\ \A i \in DOMAIN Delivered :
       LET e == Delivered[i] IN
       e \in ToSet(Meaning("content")) \/ (e.args = <<>> /\ sent[e.id] = 1)
  /\ \A i, j \in DOMAIN Delivered : i < j => V3Index(Delivered[i].id) < V3Index(Delivered[j].id)

\* Every call is delivered as it was made, once and in order, or not at all, wherever
\* the response was cut, interleaved or ended; but for a V4 delta that ended inside a
\* "</param>", the one marker that is not kept until it is whole (dsmlParser.ts 147-153).
CallsIntact == IF protocol = "v3" THEN V3CallsAsMade ELSE cut \/ CallsAsMade

\* A complete reply that has been read to its end is delivered as it was meant, text
\* and calls, channel by channel, however else it was cut (sseClient.ts 16-39,
\* dsmlParser.ts 68-133, v3/parser.ts 46-96).
ReplyDelivered ==
  (/\ ~cut
   /\ \A part \in Parts : sent[part] = Len(ReplyWire(part))
   /\ \E i \in DOMAIN events : events[i].type = "done")
  => \A ch \in Channels : Of(ch, events) = Meaning(ch)
=============================================================================
