------------------------------ MODULE SseStream ------------------------------
(***************************************************************************)
(* Server-sent events (src/transport/sseClient.ts): the bytes of a response *)
(* arrive in chunks cut anywhere and are taken apart into data payloads.    *)
(* A line is a prefix ("data:" or the ":" of a comment) and its rest.  The  *)
(* bodies, JSON texts, are symbols of the wire.                             *)
(***************************************************************************)
EXTENDS Integers, Sequences, SequencesExt

CONSTANTS MaxChunk   \* bound: symbols of one chunk

VARIABLES
  wire,        \* the bytes sent and not yet received
  connection,  \* "open", "closed" or "broken"
  buffer,      \* parseSseStream's buffer
  reading      \* parseSseStream has not returned

sseVars == <<wire, connection, buffer, reading>>

Symbol(s) == [sym |-> s]
LF == Symbol("LF")
CR == Symbol("CR")
Data == Symbol("data:")
Comment == Symbol(":")
DoneMarker == Symbol("[DONE]")

Body(payload) == [sym |-> "body", payload |-> payload]

SseTypeOK ==
  /\ connection \in {"open", "closed", "broken"}
  /\ reading \in BOOLEAN
  /\ CR \notin ToSet(buffer)

SseInit ==
  /\ wire = <<>>
  /\ connection = "open"
  /\ buffer = <<>>
  /\ reading = TRUE

\* CR LF and CR become LF.
NormaliseLineEndings(s) ==
  FlattenSeq([i \in DOMAIN s |->
    CASE s[i] = CR -> <<LF>>
      [] s[i] = LF /\ i > 1 /\ s[i - 1] = CR -> <<>>
      [] OTHER -> <<s[i]>>])

\* The ends of lines that are followed by an empty line.
BlankLines == {i \in 1..(Len(buffer) - 1) : buffer[i] = LF /\ buffer[i + 1] = LF}

\* What the data lines of an event hold, without their prefixes.
ExtractDataPayload(event) ==
  LET starts == {i \in DOMAIN event : i = 1 \/ event[i - 1] = LF}
      LineOf(i) == Max({j \in starts : j <= i})
  IN  FlattenSeq([i \in DOMAIN event |->
        IF event[i] # LF /\ event[LineOf(i)] = Data /\ i # LineOf(i) THEN <<event[i]>> ELSE <<>>])

-----------------------------------------------------------------------------
ReceiveChunk ==
  /\ reading
  /\ connection # "broken" /\ BlankLines = {}
  /\ \E n \in 1..MaxChunk :
       /\ n <= Len(wire)
       /\ buffer' = NormaliseLineEndings(buffer \o SubSeq(wire, 1, n))
       /\ wire' = SubSeq(wire, n + 1, Len(wire))
  /\ UNCHANGED <<connection, reading>>

\* The next event is cut off; payload is what it holds.  [DONE] ends the stream.
NextEvent(payload) ==
  /\ reading
  /\ BlankLines # {}
  /\ payload = ExtractDataPayload(SubSeq(buffer, 1, Min(BlankLines) - 1))
  /\ buffer' = SubSeq(buffer, Min(BlankLines) + 2, Len(buffer))
  /\ reading' = (payload # <<DoneMarker>>)
  /\ UNCHANGED <<wire, connection>>

\* The bytes have ended: an event without its empty line still counts.
LastEvent(payload) ==
  /\ reading
  /\ connection = "closed" /\ wire = <<>> /\ BlankLines = {}
  /\ payload = ExtractDataPayload(buffer)
  /\ buffer' = <<>>
  /\ reading' = FALSE
  /\ UNCHANGED <<wire, connection>>

\* The connection broke: reading on throws.
ReadFails ==
  /\ reading
  /\ connection = "broken" /\ BlankLines = {}
  /\ reading' = FALSE
  /\ UNCHANGED <<wire, connection, buffer>>
=============================================================================
