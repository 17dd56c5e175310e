---------------------------- MODULE AgentSession ----------------------------
(***************************************************************************)
(* A session over several orchestrator processes: the loop of ReactLoop,    *)
(* the two files in which each turn is logged when it completes             *)
(* (onTurnComplete of src/index.ts, src/memory/conversationLog.ts,          *)
(* src/memory/markdownStore.ts), a crash or a failed write at any point,    *)
(* and --resume (src/index.ts, src/runtime/resume.ts).                      *)
(*                                                                         *)
(* Only one process of a session runs at a time.                            *)
(***************************************************************************)
EXTENDS ReactLoop, SequencesExt

CONSTANTS TornWrites,   \* what a crash may leave of the line being appended
          MaxResumes    \* bound: processes after the first

ASSUME LogAssumptions ==
  /\ TornWrites \subseteq {"partial", "unterminated"}
  /\ MaxResumes \in Nat

VARIABLES
  lines,       \* the .jsonl file: its lines, and whether each parses
  tail,        \* how its last line ends
  transcript,  \* the .md file: the ids of the messages rendered in it
  mdStarted,   \* this process has written the .md header (initPromise)
  mdDone,      \* the message being logged is in the .md, not yet in the .jsonl
  flushed,     \* lastSnapshotLen: how much of the history is logged
  loaded,      \* initialHistory.length: how much of it the process started with
  resultLost,  \* a result has been lost to the line appended to its own
  resumes      \* processes started with --resume

logVars == <<lines, tail, transcript, mdStarted, mdDone, flushed, loaded, resultLost, resumes>>
sessionVars == <<vars, logVars>>

Line == [msg : Message, parses : BOOLEAN]

SessionTypeOK ==
  /\ TypeOK
  /\ lines \in Seq(Line)
  /\ tail \in {"newline", "partial", "unterminated"}
  /\ transcript \in Seq(Nat)
  /\ mdStarted \in BOOLEAN
  /\ mdDone \in BOOLEAN
  /\ flushed \in 0..Len(history)
  /\ loaded \in 0..flushed
  /\ resultLost \in BOOLEAN
  /\ resumes \in 0..MaxResumes

SessionInit ==
  /\ Init
  /\ lines = <<>>
  /\ tail = "newline"
  /\ transcript = <<>>
  /\ mdStarted = FALSE
  /\ mdDone = FALSE
  /\ flushed = 0 /\ loaded = 0
  /\ resultLost = FALSE
  /\ resumes = 0

-----------------------------------------------------------------------------
(* Logging the delta of a completed turn                                   *)

\* appendFile of one line, of which the file ends up with what left says.  A line
\* that follows a torn one continues it, and the two do not parse, even if the torn one
\* lacked but its newline and was read back so far.
AppendLine(m, left) ==
  /\ lines' = IF tail = "newline"
                THEN Append(lines, [msg |-> m, parses |-> left # "partial"])
                ELSE [lines EXCEPT ![Len(lines)].parses = FALSE]
  /\ tail' = IF tail # "newline" /\ left = "unterminated" THEN "partial" ELSE left
  /\ resultLost' =
       (resultLost \/ (tail = "unterminated" /\ lines[Len(lines)].msg.role = "tool"))

\* The first appendTurn of a process writes the .md header with writeFile.
WriteHeader ==
  /\ phase = "turnDone" /\ flushed < Len(history)
  /\ ~mdStarted
  /\ mdStarted' = TRUE
  /\ transcript' = <<>>
  /\ UNCHANGED <<vars, lines, tail, mdDone, flushed, loaded, resultLost, resumes>>

AppendMarkdown ==
  /\ phase = "turnDone" /\ flushed < Len(history)
  /\ mdStarted /\ ~mdDone
  /\ transcript' = Append(transcript, history[flushed + 1].id)
  /\ mdDone' = TRUE
  /\ UNCHANGED <<vars, lines, tail, mdStarted, flushed, loaded, resultLost, resumes>>

AppendJsonl ==
  /\ phase = "turnDone" /\ mdDone
  /\ AppendLine(history[flushed + 1], "newline")
  /\ mdDone' = FALSE
  /\ flushed' = flushed + 1
  /\ UNCHANGED <<vars, transcript, mdStarted, loaded, resumes>>

\* Everything is logged; the REPL prompts again.
FinishTurn ==
  /\ flushed = Len(history)
  /\ CompleteTurn
  /\ UNCHANGED logVars

-----------------------------------------------------------------------------
(* The end of a process and --resume                                       *)

\* The process dies, or a write fails and the error leaves main: what was in
\* memory is gone, and the line being appended may be torn.
Crash ==
  /\ phase # "ended"
  /\ phase' = "ended"
  /\ \/ UNCHANGED <<lines, tail, resultLost>>
     \/ /\ mdDone
        /\ \E left \in TornWrites : AppendLine(history[flushed + 1], left)
  /\ UNCHANGED <<history, loopVars, registryVars, fresh, prompts,
                 transcript, mdStarted, mdDone, flushed, loaded, resumes>>

\* The messages of the lines that parse.
Parsed(ls) ==
  FlattenSeq([i \in 1..Len(ls) |-> IF ls[i].parses THEN <<ls[i].msg>> ELSE <<>>])

\* readSession: a line that does not parse is skipped, the torn last one included.
Recorded == Parsed(lines)

\* Mutant of SafeToResume: one result is enough for all calls of the turn.
SafeToResumeOnFirst(h) ==
  LET withCalls == {i \in DOMAIN h : h[i].calls # <<>>} IN
  \A i \in withCalls : (\A j \in withCalls : j <= i) =>
    \E j \in (i + 1)..Len(h) : h[j].role = "tool" /\ h[j].re = h[i].calls[1]

\* isSafeToResume: the last assistant turn with tool calls has all its results.
SafeToResume(h) ==
  LET withCalls == {i \in DOMAIN h : h[i].calls # <<>>} IN
  \A i \in withCalls : (\A j \in withCalls : j <= i) =>
    \A k \in DOMAIN h[i].calls :
      \E j \in (i + 1)..Len(h) : h[j].role = "tool" /\ h[j].re = h[i].calls[k]

\* Mutant of FlushedAt: lastSnapshotLen starts at 0 (the log is written again).
FlushedFromZero(h) == 0

\* lastSnapshotLen of a resumed session: all of the loaded history is logged.
FlushedAt(h) == Len(h)

\* A new process with --resume; refused for an empty log or an unsafe one.
Resume ==
  /\ phase = "ended"
  /\ resumes < MaxResumes
  /\ Recorded # <<>>
  /\ SafeToResume(Recorded)
  /\ phase' = "prompt"
  /\ history' = Recorded
  /\ flushed' = FlushedAt(Recorded) /\ loaded' = Len(Recorded)
  /\ tools' = Native
  /\ allowlist' \in Allowlists
  /\ iter' = 0 /\ role' = "repl-with-reasoning" /\ offered' = {}
  /\ batch' = <<>> /\ running' = Nothing
  /\ mdStarted' = FALSE /\ mdDone' = FALSE
  /\ resumes' = resumes + 1
  /\ UNCHANGED <<fresh, prompts, lines, tail, transcript, resultLost>>

ProcessStep == (Submit \/ ChangeSpore \/ McpServerExits \/ Quit \/ LoopStep) /\ UNCHANGED logVars

LogStep == WriteHeader \/ AppendMarkdown \/ AppendJsonl \/ FinishTurn

SessionNext == ProcessStep \/ LogStep \/ Crash \/ Resume

SessionSpec == SessionInit /\ [][SessionNext]_sessionVars

-----------------------------------------------------------------------------
(* Properties                                                              *)

\* The history without the c messages of which the last is the first this process logged.
Without(c) ==
  [i \in 1..(Len(history) - c) |-> history[IF i > loaded + 1 - c THEN i + c ELSE i]]

\* The ids of the messages of h behind the l-th, up to the n-th.
Rendered(h, l, n) == [i \in 1..(n - l) |-> h[l + i].id]

\* At the prompt the .jsonl holds the history, every message once and in order, over any
\* number of resumes.  Behind a line torn by a crash the first message of the process is
\* lost, and with it the one before where that line lacked but its newline.  The .md
\* holds, once a turn is logged, what this process has logged, all of that and nothing
\* else: the header that a process writes first (conversationLog.ts 38-46) takes the
\* messages it was started with out of it, although index.ts 331-333 does not log them
\* again because "they are already in the .jsonl + .md".
LogTracksHistory ==
  phase = "prompt" =>
    /\ \/ Recorded = history
       \/ /\ loaded \in 1..(Len(history) - 1)
          /\ Recorded \in {Without(1), Without(2)}
    /\ loaded < Len(history) => transcript = Rendered(history, loaded, Len(history))

\* Resumed any number of times after any crash, the history a request is made from holds
\* no open call (isSafeToResume), until a result is lost that had been read back from a
\* line without its newline: resume.ts looks at the last turn with calls only.
AnsweredUnlessLost == resultLost \/ CallsAnswered

-----------------------------------------------------------------------------
(* The inductive invariant                                                 *)

\* What the log is made from: only assistant turns have calls, with ids of their own.
WellFormed(m) ==
  /\ m.role # "assistant" => m.calls = <<>>
  /\ m.reasoning => m.calls # <<>>
  /\ \A a, b \in DOMAIN m.calls : m.calls[a] = m.calls[b] => a = b

MessagesWellFormed ==
  /\ \A i \in DOMAIN history : WellFormed(history[i])
  /\ \A i \in DOMAIN lines : WellFormed(lines[i].msg)

\* A torn line is a line; cut short it does not parse, without its newline it does.
TornLine ==
  tail # "newline" => lines # <<>> /\ lines[Len(lines)].parses = (tail = "unterminated")

\* r holds the first n messages of h, in order, but for c of which the last is the user
\* message behind the l-th.
RecordOf(r, h, n, l, c) ==
  /\ c # 0 => l \in 1..(n - 1) /\ h[l + 1].role = "user"
  /\ Len(r) = n - c
  /\ \A i \in 1..Len(r) : r[i] = h[IF c # 0 /\ i > l + 1 - c THEN i + c ELSE i]

\* What a running process has logged is on disk, but for what a torn line has cost; it
\* starts with all that is recorded, and what it logs first is a prompt.
LogIsCurrent ==
  phase # "ended" =>
    /\ \E c \in 0..2 :
         /\ RecordOf(Recorded, history, flushed, loaded, c)
         /\ c = 2 => resultLost \/ history[loaded].role # "tool"
         /\ flushed = loaded => c = 0
    /\ tail # "newline" => flushed = loaded /\ loaded # 0
    /\ loaded < Len(history) => history[loaded + 1].role = "user"

\* A turn is logged between its end and the next prompt, and nowhere else.
TurnLogged ==
  /\ phase = "prompt" => flushed = Len(history)
  /\ phase \in {"request", "stream", "invoke"} => flushed < Len(history)
  /\ mdDone => mdStarted /\ flushed < Len(history) /\ phase \in {"turnDone", "ended"}

\* The messages the .md is ahead of the .jsonl.
Ahead == IF mdDone THEN 1 ELSE 0

TranscriptIsCurrent ==
  IF mdStarted
    THEN transcript = Rendered(history, loaded, flushed + Ahead)
    ELSE flushed = loaded

\* The calls of h are answered behind them, as far as h goes.
AnsweredSoFar(h) ==
  \A i \in DOMAIN h : \A k \in DOMAIN h[i].calls :
    i + k <= Len(h) => h[i + k].role = "tool" /\ h[i + k].re = h[i].calls[k]

LoopRuns == phase # "ended" => LoopShape

RecordAnswered == resultLost \/ AnsweredSoFar(Recorded)

LogInv ==
  /\ SessionTypeOK /\ LoopRuns /\ AnsweredUnlessLost
  /\ MessagesWellFormed /\ TornLine /\ LogIsCurrent /\ TurnLogged
  /\ TranscriptIsCurrent /\ RecordAnswered
=============================================================================
