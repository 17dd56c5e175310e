------------------------------ MODULE Subagent ------------------------------
(***************************************************************************)
(* One call of spawn_subagent, in the orchestrator and in the process it    *)
(* starts.                                                                 *)
(*                                                                         *)
(* The tool (src/tools/spawn_subagent.ts) looks the persona up, reads its   *)
(* file and starts a Node process (src/spores/childProcessSpawn.ts), which  *)
(* reads one request, runs a loop of its own (src/spores/subagentLoop.ts)   *)
(* and writes one line of JSON (src/spores/subagentRunner.ts).  The         *)
(* orchestrator answers when the process and its pipes are closed; a timer  *)
(* sends SIGTERM and a second one SIGKILL.                                  *)
(***************************************************************************)
EXTENDS Integers, Sequences

CONSTANTS MaxSteps,  \* requests of a subagent (20 in subagentRunner.ts)
          MaxBatch   \* bound: tool calls of one reply

ASSUME SubagentAssumptions == MaxSteps \in Nat \ {0} /\ MaxBatch \in Nat \ {0}

VARIABLES
  call,       \* where the tool's handler is, or what it answered
  timer,      \* the timeout timer is armed
  killTimer,  \* the SIGKILL timer is armed
  timedOut,
  received,   \* stdoutBuf: what has arrived of the response
  child,      \* the process: how it ended, once it has
  signal,     \* the strongest signal sent to it
  written,    \* what it has written to its stdout
  runner,     \* where its main() is
  step,       \* requests answered
  messages,   \* the conversation it sends
  pending     \* toolCalls of the reply still to be run

callVars == <<call, timer, killTimer, timedOut, received>>
childVars == <<child, signal, written>>
loopVars == <<runner, step, messages, pending>>
subagentVars == <<callVars, childVars, loopVars>>

Answers == {"ok", "timeout", "exit", "invalid", "spawn failed", "unknown persona", "threw"}

Ended == {"exit0", "exit1", "killed"}

\* The loop appends the text of a reply and never its calls.
Assistant == [role |-> "assistant"]
Result(id) == [role |-> "tool", re |-> id]

\* The ids the model gives to the calls of its next reply (n of them).
CallIds(n) == [i \in 1..n |-> step * MaxBatch + i]

SubagentTypeOK ==
  /\ call \in {"lookup", "reading", "running", "lost"} \cup Answers
  /\ {timer, killTimer, timedOut} \subseteq BOOLEAN
  /\ {received, written} \subseteq {"nothing", "part", "response"}
  /\ child \in {"none", "up"} \cup Ended
  /\ signal \in {"none", "SIGTERM", "SIGKILL"}
  /\ runner \in {"off", "request", "streaming", "tools", "responding", "failing"}
  /\ step \in 0..MaxSteps
  /\ runner \in {"streaming", "tools"} => step < MaxSteps
  /\ pending \in Seq(1..(MaxSteps * MaxBatch))
  /\ runner = "tools" <=> pending # <<>>
  /\ Len(messages) <= 2 + MaxSteps * (MaxBatch + 1)

SubagentInit ==
  /\ call = "lookup"
  /\ timer = FALSE /\ killTimer = FALSE /\ timedOut = FALSE
  /\ received = "nothing"
  /\ child = "none" /\ signal = "none" /\ written = "nothing"
  /\ runner = "off" /\ step = 0 /\ messages = <<>> /\ pending = <<>>

-----------------------------------------------------------------------------
(* The orchestrator                                                        *)

\* The personas of the active spore are searched, of all spores without one.
FindPersona ==
  /\ call = "lookup"
  /\ call' \in {"reading", "unknown persona"}
  /\ UNCHANGED <<timer, killTimer, timedOut, received, childVars, loopVars>>

\* The persona's file is read and the process started; it may not start.
Spawn ==
  /\ call = "reading"
  /\ \/ /\ call' = "threw"
        /\ UNCHANGED <<timer, childVars, loopVars>>
     \/ /\ call' = "running"
        /\ timer' = TRUE
        /\ child' \in {"none", "up"}
        /\ runner' = IF child' = "up" THEN "request" ELSE "off"
        /\ UNCHANGED <<signal, written, step, messages, pending>>
  /\ UNCHANGED <<killTimer, timedOut, received>>

\* 'error': there is no process.
SpawnFailed ==
  /\ call = "running"
  /\ child = "none"
  /\ call' = "spawn failed"
  /\ timer' = FALSE /\ killTimer' = FALSE
  /\ UNCHANGED <<timedOut, received, childVars, loopVars>>

\* Mutant of Timeout: the call is answered without waiting for the process.
TimeoutAnswers ==
  /\ timer
  /\ timer' = FALSE /\ killTimer' = TRUE /\ timedOut' = TRUE
  /\ signal' = "SIGTERM"
  /\ call' = "timeout"
  /\ UNCHANGED <<received, child, written, loopVars>>

\* The timer: SIGTERM, and a second timer.
Timeout ==
  /\ timer
  /\ timer' = FALSE /\ killTimer' = TRUE /\ timedOut' = TRUE
  /\ signal' = "SIGTERM"
  /\ UNCHANGED <<call, received, child, written, loopVars>>

\* Mutant of Kill: the second timer repeats the first signal.
TermAgain ==
  /\ killTimer
  /\ killTimer' = FALSE
  /\ signal' = "SIGTERM"
  /\ UNCHANGED <<call, timer, timedOut, received, child, written, loopVars>>

Kill ==
  /\ killTimer
  /\ killTimer' = FALSE
  /\ signal' = "SIGKILL"
  /\ UNCHANGED <<call, timer, timedOut, received, child, written, loopVars>>

StdoutData ==
  /\ call = "running"
  /\ received # written
  /\ received' = written
  /\ UNCHANGED <<call, timer, killTimer, timedOut, childVars, loopVars>>

\* What 'close' makes of the end of the process.
AnswerOf ==
  CASE timedOut -> "timeout"
    [] ~timedOut /\ child # "exit0" -> "exit"
    [] ~timedOut /\ child = "exit0" /\ received = "response" -> "ok"
    [] OTHER -> "invalid"

\* Mutant of Close: 'exit' is taken for 'close', which need not wait for the pipes.
Exit ==
  /\ call = "running"
  /\ child \in Ended
  /\ timer' = FALSE /\ killTimer' = FALSE
  /\ call' = AnswerOf
  /\ UNCHANGED <<timedOut, received, childVars, loopVars>>

\* 'close': the process has ended and its output has been read.
Close ==
  /\ call = "running"
  /\ child \in Ended
  /\ received = written
  /\ timer' = FALSE /\ killTimer' = FALSE
  /\ call' = AnswerOf
  /\ UNCHANGED <<timedOut, received, childVars, loopVars>>

\* The orchestrator dies; nobody times the process any more.
OrchestratorDies ==
  /\ call \in {"lookup", "reading", "running"}
  /\ call' = "lost"
  /\ timer' = FALSE /\ killTimer' = FALSE
  /\ UNCHANGED <<timedOut, received, childVars, loopVars>>

-----------------------------------------------------------------------------
(* The process                                                             *)

\* The request is parsed and the client made, or main() catches what that throws.
ReadRequest ==
  /\ child = "up" /\ runner = "request"
  /\ \/ runner' = "streaming" /\ messages' = <<[role |-> "system"], [role |-> "user"]>>
     \/ runner' = "failing" /\ UNCHANGED messages
  /\ UNCHANGED <<callVars, childVars, step, pending>>

\* A reply, complete or cut short by an error event, which the loop ignores: only its
\* text is kept.  Without calls it is the final answer, were it empty.
StreamEnds ==
  /\ child = "up" /\ runner = "streaming"
  /\ \E n \in 0..MaxBatch :
       /\ pending' = CallIds(n)
       /\ runner' = IF n = 0 THEN "responding" ELSE "tools"
  /\ messages' = Append(messages, Assistant)
  /\ UNCHANGED <<callVars, childVars, step>>

\* The loop's condition, after the last call of a reply.
NextStep ==
  /\ step' = step + 1
  /\ runner' = IF step' < MaxSteps THEN "streaming" ELSE "responding"

\* Mutant of ToolReturns: a tool that throws ends the loop over the calls.
ToolReturnsOrThrows ==
  /\ child = "up" /\ runner = "tools"
  /\ \/ /\ messages' = Append(messages, Result(Head(pending)))
        /\ pending' = Tail(pending)
        /\ IF pending' = <<>> THEN NextStep ELSE UNCHANGED <<runner, step>>
     \/ /\ pending' = <<>>
        /\ NextStep
        /\ UNCHANGED messages
  /\ UNCHANGED <<callVars, childVars>>

\* Result, error or auto-rejected approval: each call gets its message.
ToolReturns ==
  /\ child = "up" /\ runner = "tools"
  /\ messages' = Append(messages, Result(Head(pending)))
  /\ pending' = Tail(pending)
  /\ IF pending' = <<>> THEN NextStep ELSE UNCHANGED <<runner, step>>
  /\ UNCHANGED <<callVars, childVars>>

\* The line is longer than the pipe holds: write waits for the other end to read.
WritePart ==
  /\ child = "up" /\ runner \in {"responding", "failing"}
  /\ written = "nothing"
  /\ written' = "part"
  /\ UNCHANGED <<callVars, child, signal, loopVars>>

\* The log is flushed, the line written to its end, and the process exits by its outcome,
\* unless it is killed just before.
Respond ==
  /\ child = "up" /\ runner \in {"responding", "failing"}
  /\ written' = "response"
  /\ child' \in {IF runner = "responding" THEN "exit0" ELSE "exit1", "killed"}
  /\ runner' = "off"
  /\ UNCHANGED <<callVars, signal, step, messages, pending>>

\* The process dies: an error outside main's try, a signal sent or from elsewhere.
ChildDies ==
  /\ child = "up"
  /\ child' \in {"exit1", "killed"}
  /\ runner' = "off" /\ pending' = <<>>
  /\ UNCHANGED <<callVars, signal, written, step, messages>>

-----------------------------------------------------------------------------
SubagentNext ==
  \/ FindPersona \/ Spawn \/ SpawnFailed \/ Timeout \/ Kill \/ StdoutData \/ Close
  \/ OrchestratorDies
  \/ ReadRequest \/ StreamEnds \/ ToolReturns \/ WritePart \/ Respond
  \/ ChildDies

SubagentSpec == SubagentInit /\ [][SubagentNext]_subagentVars

\* The orchestrator's event loop runs and SIGKILL kills.  The process need not make
\* any progress of its own, nor obey SIGTERM.
SubagentFairness ==
  /\ WF_subagentVars(FindPersona) /\ WF_subagentVars(Spawn) /\ WF_subagentVars(SpawnFailed)
  /\ WF_subagentVars(Timeout) /\ WF_subagentVars(Kill) /\ WF_subagentVars(StdoutData) /\ WF_subagentVars(Close)
  /\ WF_subagentVars(signal = "SIGKILL" /\ ChildDies)

SubagentFairSpec == SubagentSpec /\ SubagentFairness

-----------------------------------------------------------------------------
(* Properties                                                              *)

\* When the call is answered its process is gone and no timer is left to signal
\* whatever has that pid by then (childProcessSpawn.ts 76-100).
AnsweredWhenGone ==
  call \in Answers => child # "up" /\ ~timer /\ ~killTimer

\* The answer is what became of the process: its own response only after a good exit,
\* never "invalid" for a response still in the pipe or cut short by a death, a timeout only
\* after a signal; whatever the order of the timers, the output and the end
\* (childProcessSpawn.ts 81-123).
AnswerIsChilds ==
  /\ call = "ok" => child = "exit0" /\ received = "response"
  /\ call # "invalid"
  /\ call = "timeout" => signal # "none"
  /\ call = "exit" => child \in {"exit1", "killed"}

\* Before each request the conversation holds one result for each call of the last
\* reply, in the order of the calls, whatever the tools threw.
ResultsComplete ==
  (runner = "streaming" /\ step > 0) =>
    \E n \in 1..MaxBatch :
      /\ n + 1 <= Len(messages)
      /\ messages[Len(messages) - n].role = "assistant"
      /\ \A i \in 1..n :
           messages[Len(messages) - n + i] = Result((step - 1) * MaxBatch + i)

\* A call of spawn_subagent comes back while the orchestrator lives, whatever the
\* process does or ignores: "Process killed via SIGTERM then SIGKILL; tool returns
\* timeout error" (v1.3-spores-design.md 390).
SubagentReturns == (call = "running") ~> (call \in Answers \cup {"lost"})
=============================================================================
