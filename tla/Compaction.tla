----------------------------- MODULE Compaction -----------------------------
(***************************************************************************)
(* What the query engine does to a history before it sends it: the token    *)
(* estimate (src/util/tokens.ts) and the three passes over the messages     *)
(* (src/orchestrator/compaction): pruning of tool outputs, snipping of runs *)
(* of failed calls, and micro-compaction.                                   *)
(*                                                                         *)
(* A text is its length in characters; of a tool result's text the count in *)
(* its '[truncated: original N chars]' marker is kept too, 0 without one.   *)
(***************************************************************************)
EXTENDS Integers, SequencesExt

CONSTANTS Files,                  \* the arguments of read_file calls
          NoFile,                 \* a result of any other tool
          MaxToolOutputChars,     \* longest output outside the tail
          ProtectedTailMessages,  \* the tail pruning and micro-compaction spare
          ProtectedTailTokens,    \* the tail snipping spares
          CommandChars,           \* length of a result's command
          CallChars,              \* length of one call in tool_calls
          MarkerChars,            \* length of the truncation marker
          PlaceholderChars,       \* length of '[micro-compacted]'
          SnipChars               \* length of the note that replaces a run

ASSUME CompactionAssumptions ==
  /\ NoFile \notin Files
  /\ {MaxToolOutputChars, ProtectedTailMessages, ProtectedTailTokens, CommandChars,
      CallChars, MarkerChars, PlaceholderChars, SnipChars} \subseteq Nat

User      == [role : {"user"}, chars : Nat]
Note      == [role : {"system"}, chars : Nat]
Assistant == [role : {"assistant"}, chars : Nat, reasoning : Nat, calls : Seq(Nat)]
Output    == [read : Files \cup {NoFile}, error : BOOLEAN, chars : Nat, original : Nat]
Result    == [role : {"tool"}, re : Nat, read : Files \cup {NoFile}, error : BOOLEAN,
              chars : Nat, original : Nat]
Message   == User \cup Note \cup Assistant \cup Result

IsResult(m) == m.role = "tool"
IsFailure(m) == IsResult(m) /\ m.error

-----------------------------------------------------------------------------
(* Token estimate                                                          *)

Tokens(chars) == (chars + 3) \div 4

MessageTokens(m) ==
  CASE m.role = "tool"      -> Tokens(m.chars) + Tokens(CommandChars) + 8
    [] m.role = "assistant" -> Tokens(m.chars) + 4 + Tokens(m.reasoning)
                                 + Tokens(CallChars * Len(m.calls))
    [] OTHER                -> Tokens(m.chars) + 4

HistoryTokens(h) == FoldLeft(LAMBDA n, m : n + MessageTokens(m), 0, h)

-----------------------------------------------------------------------------
(* The passes.  Each gives, for every message, what takes its place.        *)

\* The first index the message-counting passes spare.
TailStart(h) == IF Len(h) > ProtectedTailMessages THEN Len(h) - ProtectedTailMessages + 1 ELSE 1

\* An earlier read of a file that is read again.
Superseded(h, i) ==
  /\ IsResult(h[i]) /\ h[i].read # NoFile
  /\ \E j \in i+1..Len(h) : IsResult(h[j]) /\ h[j].read = h[i].read

\* Mutant of Truncated: the marker of an earlier truncation is not recognised.
TruncatedAgain(m) ==
  IF IsResult(m) /\ m.chars > MaxToolOutputChars
    THEN [m EXCEPT !.chars = MaxToolOutputChars + MarkerChars, !.original = m.chars]
    ELSE m

Truncated(m) ==
  IF IsResult(m) /\ m.chars > MaxToolOutputChars /\ m.original = 0
    THEN [m EXCEPT !.chars = MaxToolOutputChars + MarkerChars, !.original = m.chars]
    ELSE m

\* Mutant of PruneToolOutputs: the newest read takes the place of the first one.
PruneInPlace(h) ==
  LET newest(i) == CHOOSE j \in 1..Len(h) :
                     IsResult(h[j]) /\ h[j].read = h[i].read /\ ~Superseded(h, j)
      repeated(i) == \E j \in 1..i-1 : Superseded(h, j) /\ h[j].read = h[i].read
  IN FlattenSeq([i \in 1..Len(h) |->
       IF IsResult(h[i]) /\ repeated(i) THEN <<>>
       ELSE IF Superseded(h, i) THEN <<h[newest(i)]>>
       ELSE <<IF i < TailStart(h) THEN Truncated(h[i]) ELSE h[i]>>])

\* Layer 1: superseded reads are dropped wherever they are; a long output
\* before the tail is truncated.
PruneToolOutputs(h) ==
  FlattenSeq([i \in 1..Len(h) |->
    IF Superseded(h, i) THEN <<>>
    ELSE <<IF i < TailStart(h) THEN Truncated(h[i]) ELSE h[i]>>])

\* computeProtectedStart: the shortest tail of at least ProtectedTailTokens.
ProtectedStart(h) ==
  LET long == {i \in 1..Len(h) : HistoryTokens(SubSeq(h, i, Len(h))) >= ProtectedTailTokens}
  IN IF long = {} THEN 1 ELSE CHOOSE i \in long : \A j \in long : j <= i

\* Layer 2: a run of three or more failures before the tail becomes one note.
SnipDeadEnds(h) ==
  LET start     == ProtectedStart(h)
      failed(i) == i \in 1..start - 1 /\ IsFailure(h[i])
      dead(i)   == \E first \in i-2..i : \A j \in first..first+2 : failed(j)
  IN FlattenSeq([i \in 1..Len(h) |->
       IF ~dead(i) THEN <<h[i]>>
       ELSE IF failed(i - 1) THEN <<>>
       ELSE <<[role |-> "system", chars |-> SnipChars]>>])

\* Mutant of MicroCompact: the tail is one message short.
MicroCompactIntoTail(h) ==
  [i \in 1..Len(h) |->
     IF IsResult(h[i]) /\ i <= TailStart(h)
       THEN [h[i] EXCEPT !.chars = PlaceholderChars, !.original = 0] ELSE h[i]]

\* Layer 3: the placeholder takes the place of every output before the tail.
MicroCompact(h) ==
  [i \in 1..Len(h) |->
     IF IsResult(h[i]) /\ i < TailStart(h)
       THEN [h[i] EXCEPT !.chars = PlaceholderChars, !.original = 0] ELSE h[i]]

Compact(h) == MicroCompact(SnipDeadEnds(PruneToolOutputs(h)))

\* R2: an assistant message without tool calls is sent without its reasoning.
ApplyR2(h) ==
  [i \in 1..Len(h) |->
     IF h[i].role = "assistant" /\ h[i].calls = <<>> THEN [h[i] EXCEPT !.reasoning = 0] ELSE h[i]]
=============================================================================
