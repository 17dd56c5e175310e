---------------------------- MODULE QueryEngine ----------------------------
(***************************************************************************)
(* The query engine (src/orchestrator/QueryEngine.ts) as the ReAct loop     *)
(* drives it: the history grows by prompts, replies and tool results, and   *)
(* before each request it is checked against the budget                     *)
(* (src/orchestrator/compaction/budgetChecker.ts), compacted or refused.    *)
(* The history itself is never compacted.                                   *)
(***************************************************************************)
EXTENDS Compaction

CONSTANTS WorkingBudget,        \* tokens
          PruneThresholdPct, RefusalThresholdPct,
          PromptLengths,        \* lengths of a prompt or a reply
          ReasoningLengths,     \* lengths of a reply's reasoning_content
          Outputs,              \* what a tool may return
          MaxBatch,             \* bound: calls of one reply
          MaxMessages,          \* bound: messages of the history
          NoRequest, Refused    \* no request is out; it was refused and the session is over

ASSUME EngineAssumptions ==
  /\ WorkingBudget \in Nat /\ PruneThresholdPct \in Nat /\ RefusalThresholdPct \in Nat
  /\ PruneThresholdPct <= RefusalThresholdPct
  /\ PromptLengths \subseteq Nat /\ ReasoningLengths \subseteq Nat
  /\ Outputs \subseteq Output
  /\ MaxBatch \in Nat /\ MaxMessages \in Nat
  /\ {NoRequest, Refused} \cap Seq(Message) = {}

VARIABLES
  history,   \* QueryEngine.history
  request,   \* the messages of the request in flight
  pending,   \* ids of the calls of the last reply that are not answered
  ready      \* the loop is about to prepare a request

vars == <<history, request, pending, ready>>

TypeOK ==
  /\ history \in Seq(Message)
  /\ request \in Seq(Message) \cup {NoRequest, Refused}
  /\ pending \in Seq(Nat)
  /\ ready \in BOOLEAN

Init ==
  /\ history = <<>>
  /\ request = NoRequest
  /\ pending = <<>>
  /\ ready = FALSE

\* A prompt of the user starts a turn.  After a refusal, which nobody catches, there is none.
AppendUser ==
  /\ request = NoRequest /\ pending = <<>> /\ ~ready
  /\ Len(history) < MaxMessages
  /\ \E n \in PromptLengths : history' = Append(history, [role |-> "user", chars |-> n])
  /\ ready' = TRUE
  /\ UNCHANGED <<request, pending>>

\* BudgetChecker.check: the estimate reaches a share of the budget.
Reaches(h, pct) == HistoryTokens(h) * 100 >= pct * WorkingBudget

\* The lowest threshold runs all three layers.
Working(h) == IF Reaches(h, PruneThresholdPct) THEN Compact(h) ELSE h

\* Mutant of PrepareRequest: the budget is not checked again after compaction.
PrepareRequestOnce ==
  /\ ready
  /\ ready' = FALSE
  /\ request' = ApplyR2(Working(history))
  /\ UNCHANGED <<history, pending>>

\* prepareRequest: only what the layers leave can be refused.
PrepareRequest ==
  /\ ready
  /\ ready' = FALSE
  /\ request' = IF Reaches(Working(history), RefusalThresholdPct)
                     /\ Reaches(history, PruneThresholdPct)
                  THEN Refused ELSE ApplyR2(Working(history))
  /\ UNCHANGED <<history, pending>>

\* The calls of the session so far, which are numbered: one id per call.
NumCalls(m) == IF m.role = "assistant" THEN Len(m.calls) ELSE 0
CallsIn(h) == FoldLeft(LAMBDA n, m : n + NumCalls(m), 0, h)
CallsMade == CallsIn(history)

\* The stream has ended, by an error too: what was received is appended, the
\* reasoning only with calls, and the calls are to be answered.
AppendAssistant ==
  /\ request \notin {NoRequest, Refused}
  /\ \E n \in PromptLengths, r \in ReasoningLengths, k \in 0..MaxBatch :
       LET calls == [i \in 1..k |-> CallsMade + i] IN
       /\ Len(history) + 1 + k <= MaxMessages
       /\ history' = Append(history, [role |-> "assistant", chars |-> n,
                                      reasoning |-> IF k = 0 THEN 0 ELSE r, calls |-> calls])
       /\ pending' = calls
  /\ request' = NoRequest
  /\ UNCHANGED ready

\* The results come in the order of the calls; after the last there is the next
\* request, unless maxIterations is reached and the turn is over.
AppendToolResult ==
  /\ pending # <<>>
  /\ \E o \in Outputs :
       history' = Append(history, [role |-> "tool", re |-> Head(pending), read |-> o.read,
                                   error |-> o.error, chars |-> o.chars, original |-> o.original])
  /\ pending' = Tail(pending)
  /\ ready' \in IF Tail(pending) = <<>> THEN BOOLEAN ELSE {FALSE}
  /\ UNCHANGED request

Next == AppendUser \/ PrepareRequest \/ AppendAssistant \/ AppendToolResult

Spec == Init /\ [][Next]_vars

-----------------------------------------------------------------------------
(* Properties                                                              *)

Sent == IF request \in {NoRequest, Refused} THEN <<>> ELSE request

ResultsIn(h) == {m \in Range(h) : IsResult(m)}

\* "Most recent N messages are immune", "Newest wins": a result that no later read of its
\* file supersedes and that is no failure reaches the model, in the tail as it is; the
\* newest result of a file anywhere, were it as a placeholder.
ResultsKept ==
  Sent # <<>> =>
    \A i \in 1..Len(history) :
      (IsResult(history[i]) /\ ~Superseded(history, i) /\ ~history[i].error) =>
        /\ i >= TailStart(history) => history[i] \in Range(Sent)
        /\ history[i].read # NoFile => \E m \in ResultsIn(Sent) : m.re = history[i].re

\* The results of a history follow their calls and come in their order.
InOrder(h) ==
  \A j \in 1..Len(h) : IsResult(h[j]) =>
    /\ \E i \in 1..j-1 : h[i].role = "assistant" /\ h[j].re \in Range(h[i].calls)
    /\ \A i \in 1..j-1 : IsResult(h[i]) => h[i].re < h[j].re

\* Compaction never sends a result ahead of its call, twice, or out of the order of
\* the calls, whatever the passes dropped or replaced.
ResultsFollowCalls == InOrder(Sent)

\* "Idempotence": each pass leaves its own result alone, the recorded original length
\* of a truncated output included.
PassesIdempotent ==
  ready =>
    /\ LET p == PruneToolOutputs(history) IN PruneToolOutputs(p) = p
    /\ LET s == SnipDeadEnds(history) IN SnipDeadEnds(s) = s
    /\ LET m == MicroCompact(history) IN MicroCompact(m) = m

\* No request whose estimate reaches the refusal threshold is sent.
SentWithinBudget ==
  request \notin {NoRequest, Refused} => ~Reaches(request, RefusalThresholdPct)

\* "produce well-formed output": in a request, every call of an assistant message
\* has its result, the condition --resume refuses a session for.
RequestWellFormed ==
  \A m \in Range(Sent) : m.role = "assistant" =>
    \A c \in Range(m.calls) : \E r \in ResultsIn(Sent) : r.re = c

-----------------------------------------------------------------------------
(* The inductive invariant behind these properties                         *)

\* The loop does one thing at a time.
OneAtATime ==
  /\ ready => request = NoRequest /\ pending = <<>>
  /\ pending # <<>> => request = NoRequest

\* The next result answers the first call that has none, which is in the history.
Numbered ==
  LET answered == CallsMade - Len(pending) IN
  /\ \A j \in 1..Len(history) : IsResult(history[j]) => history[j].re <= answered
  /\ \A k \in 1..Len(pending) :
       /\ pending[k] = answered + k
       /\ \E i \in 1..Len(history) :
            history[i].role = "assistant" /\ pending[k] \in Range(history[i].calls)

\* A request is what the passes make of the history, within the budget.
RequestOfHistory ==
  request \notin {NoRequest, Refused} =>
    /\ request = ApplyR2(Working(history))
    /\ ~(Reaches(Working(history), RefusalThresholdPct) /\ Reaches(history, PruneThresholdPct))

IInv == TypeOK /\ OneAtATime /\ InOrder(history) /\ Numbered /\ RequestOfHistory
=============================================================================
