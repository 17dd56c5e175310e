----------------------------- MODULE ReactLoop -----------------------------
(***************************************************************************)
(* One orchestrator process: the REPL (src/runtime/replSession.ts), the     *)
(* ReAct loop (src/orchestrator/reactLoop.ts), the history it builds in the *)
(* query engine (src/orchestrator/QueryEngine.ts) and the tool registry     *)
(* with its allowlist (src/tools/registry.ts, src/runtime/bootTools.ts).    *)
(*                                                                         *)
(* A message keeps what the properties tell apart: its role, the ids of its *)
(* tool calls, whether it carries reasoning_content, and, for a tool        *)
(* result, the call it answers, the tool and whether it succeeded.          *)
(***************************************************************************)
EXTENDS Naturals, Sequences

CONSTANTS Names,         \* names the model may call, registered or not
          Native,        \* the tools bootTools registers
          Coordination,  \* those of them no allowlist hides
          Germinate,     \* germinate_spore, one of these
          Namespaces,    \* for each spore, the tool names with its prefix
          Allowlists,    \* what setActiveSpore can install
          NoAllowlist,   \* the null allowlist: no spore, or one without allowed_tools
          MaxIters,      \* maxIterations of the loop (25)
          MaxBatch,      \* bound: tool calls in one assistant turn
          MaxPrompts,    \* bound: prompts submitted
          Nothing        \* no call is running; no tool in a message

ASSUME Assumptions ==
  /\ Germinate \in Coordination /\ Coordination \subseteq Native /\ Native \subseteq Names
  /\ Namespaces \subseteq SUBSET Names
  /\ NoAllowlist \in Allowlists /\ Allowlists \ {NoAllowlist} \subseteq SUBSET Names
  /\ MaxIters \in Nat \ {0} /\ MaxBatch \in Nat /\ MaxPrompts \in Nat
  /\ Nothing \notin [id : Nat, tool : Names]

VARIABLES
  phase,      \* where runReplSession and runReactLoop are
  history,    \* QueryEngine.history
  iter,       \* the loop's iteration
  role,       \* the role the current request is routed by
  offered,    \* the tools defined in the current request
  batch,      \* pendingCalls not yet begun, or begun and not answered
  running,    \* the call whose tool.run is awaited
  tools,      \* ToolRegistry.tools, by name
  allowlist,  \* ToolRegistry.activeAllowlist
  fresh,      \* the next unused id
  prompts     \* prompts submitted so far

vars == <<phase, history, iter, role, offered, batch, running, tools, allowlist, fresh, prompts>>
registryVars == <<tools, allowlist>>
loopVars == <<iter, role, offered, batch, running>>

Call    == [id : Nat, tool : Names]
Message == [role : {"user", "assistant", "tool"}, id : Nat, calls : Seq(Nat),
            reasoning : BOOLEAN, re : Nat, tool : Names \cup {Nothing}, ok : BOOLEAN]

TypeOK ==
  /\ phase \in {"prompt", "request", "stream", "invoke", "turnDone", "ended"}
  /\ history \in Seq(Message)
  /\ iter \in 0..MaxIters
  /\ role \in {"repl-with-reasoning", "repl-execution"}
  /\ offered \subseteq Names
  /\ batch \in Seq(Call)
  /\ running \in Call \cup {Nothing}
  /\ tools \subseteq Names
  /\ allowlist \in Allowlists
  /\ fresh \in Nat
  /\ prompts \in 0..MaxPrompts

User(n) ==
  [role |-> "user", id |-> n, calls |-> <<>>, reasoning |-> FALSE,
   re |-> 0, tool |-> Nothing, ok |-> TRUE]
Assistant(n, ids, r) ==
  [role |-> "assistant", id |-> n, calls |-> ids, reasoning |-> r,
   re |-> 0, tool |-> Nothing, ok |-> TRUE]
Result(n, c, success) ==
  [role |-> "tool", id |-> n, calls |-> <<>>, reasoning |-> FALSE,
   re |-> c.id, tool |-> c.tool, ok |-> success]

\* getActiveTools: what the model is offered, and what invoke lets through.
ActiveTools ==
  IF allowlist = NoAllowlist THEN tools ELSE tools \cap (Coordination \cup allowlist)

\* Mutant of RetainedReasoning: only the latest message is looked at.
RetainedInLastMessage ==
  history # <<>> /\ history[Len(history)].calls # <<>> /\ history[Len(history)].reasoning

\* hasRetainedReasoning: some assistant turn has both tool calls and reasoning.
RetainedReasoning ==
  \E i \in DOMAIN history : history[i].calls # <<>> /\ history[i].reasoning

Init ==
  /\ phase = "prompt"
  /\ history = <<>>
  /\ iter = 0
  /\ role = "repl-with-reasoning"
  /\ offered = {}
  /\ batch = <<>>
  /\ running = Nothing
  /\ tools = Native
  /\ allowlist \in Allowlists
  /\ fresh = 1
  /\ prompts = 0

-----------------------------------------------------------------------------
(* The REPL                                                                *)

\* A prompt, typed or expanded from a pack command, starts a turn.
Submit ==
  /\ phase = "prompt"
  /\ prompts < MaxPrompts
  /\ history' = Append(history, User(fresh))
  /\ fresh' = fresh + 1
  /\ prompts' = prompts + 1
  /\ iter' = 0
  /\ phase' = "request"
  /\ UNCHANGED <<role, offered, batch, running, registryVars>>

\* deregisterByPrefix, or a teardown that finds nothing to remove.
TearDownSpore == UNCHANGED tools \/ \E ns \in Namespaces : tools' = tools \ ns

\* /spore pin and /spore unpin re-derive the allowlist between turns; unpin tears
\* the spore down.
ChangeSpore ==
  /\ phase = "prompt"
  /\ TearDownSpore
  /\ allowlist' \in Allowlists
  /\ UNCHANGED <<phase, history, fresh, prompts, loopVars>>

\* The MCP server of a spore dies, at any time: its wrappers are deregistered.
McpServerExits ==
  /\ phase # "ended"
  /\ TearDownSpore
  /\ UNCHANGED <<phase, history, allowlist, fresh, prompts, loopVars>>

\* /quit and /exit.
Quit ==
  /\ phase = "prompt"
  /\ phase' = "ended"
  /\ UNCHANGED <<history, registryVars, fresh, prompts, loopVars>>

\* onTurnComplete.
CompleteTurn ==
  /\ phase = "turnDone"
  /\ phase' = "prompt"
  /\ UNCHANGED <<history, registryVars, fresh, prompts, loopVars>>

-----------------------------------------------------------------------------
(* runReactLoop                                                            *)

\* Route the request and offer the active tools.  prepareRequest throws when the
\* working budget is exhausted, which no caller catches: the session ends.
PrepareRequest ==
  /\ phase = "request"
  /\ role' = IF iter = 0 \/ RetainedReasoning
               THEN "repl-with-reasoning" ELSE "repl-execution"
  /\ \/ phase' = "stream" /\ offered' = ActiveTools
     \/ phase' = "ended" /\ UNCHANGED offered
  /\ UNCHANGED <<history, iter, batch, running, registryVars, fresh, prompts>>

\* Mutant of StreamEnds: a stream without calls is taken for a failure and requested again.
StreamEndsRetrying ==
  /\ phase = "stream"
  /\ \E names \in UNION {[1..n -> Names] : n \in 0..MaxBatch}, reasoning \in BOOLEAN :
       LET ids == [k \in 1..Len(names) |-> fresh + k] IN
       IF names = <<>>
         THEN phase' = "request" /\ UNCHANGED <<history, batch, fresh>>
         ELSE /\ history' = Append(history, Assistant(fresh, ids, reasoning))
              /\ batch' = [k \in 1..Len(names) |-> [id |-> fresh + k, tool |-> names[k]]]
              /\ fresh' = fresh + Len(names) + 1
              /\ phase' = "invoke"
  /\ UNCHANGED <<iter, role, offered, running, registryVars, prompts>>

\* The stream ends, of itself or after an 'error' event: the assistant turn is
\* appended with the calls and the reasoning received so far; reasoning is kept
\* only next to tool calls, and a turn without calls is terminal.
StreamEnds ==
  /\ phase = "stream"
  /\ \E names \in UNION {[1..n -> Names] : n \in 0..MaxBatch}, reasoning \in BOOLEAN :
       LET ids == [k \in 1..Len(names) |-> fresh + k] IN
       /\ history' = Append(history, Assistant(fresh, ids, reasoning /\ names # <<>>))
       /\ batch' = [k \in 1..Len(names) |-> [id |-> fresh + k, tool |-> names[k]]]
       /\ fresh' = fresh + Len(names) + 1
       /\ phase' = IF names = <<>> THEN "turnDone" ELSE "invoke"
  /\ UNCHANGED <<iter, role, offered, running, registryVars, prompts>>

\* The result of a call, good or bad, is appended and the loop moves on.
Answer(call, success) ==
  /\ history' = Append(history, Result(fresh, call, success))
  /\ fresh' = fresh + 1
  /\ batch' = Tail(batch)
  /\ running' = Nothing

\* Mutant of DenyTool: the denied call is dropped without an error result.
DenyToolSilently ==
  /\ phase = "invoke" /\ running = Nothing /\ batch # <<>>
  /\ Head(batch).tool \notin ActiveTools
  /\ batch' = Tail(batch)
  /\ UNCHANGED <<phase, history, iter, role, offered, running, registryVars, fresh, prompts>>

\* invoke throws: the name is unknown, or hidden by the allowlist of this moment.
DenyTool ==
  /\ phase = "invoke" /\ running = Nothing /\ batch # <<>>
  /\ Head(batch).tool \notin ActiveTools
  /\ Answer(Head(batch), FALSE)
  /\ UNCHANGED <<phase, iter, role, offered, registryVars, prompts>>

\* Mutant of StartTool: invoke consults the registry and not the allowlist.
StartAnyTool ==
  /\ phase = "invoke" /\ running = Nothing /\ batch # <<>>
  /\ Head(batch).tool \in tools
  /\ running' = Head(batch)
  /\ UNCHANGED <<phase, history, iter, role, offered, batch, registryVars, fresh, prompts>>

\* invoke runs the tool; the loop awaits it.
StartTool ==
  /\ phase = "invoke" /\ running = Nothing /\ batch # <<>>
  /\ Head(batch).tool \in ActiveTools
  /\ running' = Head(batch)
  /\ UNCHANGED <<phase, history, iter, role, offered, batch, registryVars, fresh, prompts>>

\* The tool resolves, or throws (a HITL veto, invalid arguments, its own error).
\* germinate_spore may register wrappers of its spore and fail or succeed after
\* that; only when it succeeds does the spore's allowlist replace the current.
ToolReturns ==
  /\ phase = "invoke" /\ running # Nothing
  /\ \E success \in BOOLEAN :
       /\ Answer(running, success)
       /\ \/ UNCHANGED registryVars
          \/ /\ running.tool = Germinate
             /\ \E ns \in Namespaces : \E new \in SUBSET ns : tools' = tools \cup new
             /\ IF success THEN allowlist' \in Allowlists ELSE UNCHANGED allowlist
  /\ UNCHANGED <<phase, iter, role, offered, prompts>>

\* All calls answered: next iteration, or the loop gives up with an error event.
NextIteration ==
  /\ phase = "invoke" /\ running = Nothing /\ batch = <<>>
  /\ iter' = iter + 1
  /\ phase' = IF iter + 1 < MaxIters THEN "request" ELSE "turnDone"
  /\ UNCHANGED <<history, role, offered, batch, running, registryVars, fresh, prompts>>

LoopStep ==
  \/ PrepareRequest \/ StreamEnds \/ DenyTool \/ StartTool \/ ToolReturns \/ NextIteration

Next == Submit \/ ChangeSpore \/ McpServerExits \/ Quit \/ CompleteTurn \/ LoopStep

Spec == Init /\ [][Next]_vars

\* The loop runs on; streams end and tools return (a bash call whose worker is
\* gone does not: see BashDispatch).  Nothing forces the user to type.
FairSpec == Spec /\ WF_vars(CompleteTurn) /\ WF_vars(LoopStep)

-----------------------------------------------------------------------------
(* Properties                                                              *)

\* The calls of h are answered by the tool messages right behind them, in order,
\* except for the last ones, which are still in todo.
AnsweredExcept(h, todo) ==
  \A i \in DOMAIN h : \A k \in DOMAIN h[i].calls :
    IF i + k <= Len(h)
      THEN h[i + k].role = "tool" /\ h[i + k].re = h[i].calls[k]
      ELSE i + k - Len(h) <= Len(todo) /\ todo[i + k - Len(h)].id = h[i].calls[k]

\* Whatever the registry, the user or a tool answers, each tool call gets its one
\* result in place, so the history a request is made from never holds an open call
\* (what resume.ts calls a malformed next request).
CallsAnswered ==
  /\ AnsweredExcept(history, batch)
  /\ phase \in {"prompt", "request", "stream", "turnDone"} => batch = <<>>

\* R2: a request routed to the execution role has no reasoning in its history.
FlashCarriesNoReasoning ==
  phase = "stream" /\ role = "repl-execution" =>
    \A i \in DOMAIN history : ~history[i].reasoning

\* The calls of the current batch that have been answered.
AnsweredNow ==
  {i \in DOMAIN history :
     history[i].role = "tool" /\
     \A j \in i..Len(history) : history[j].role = "tool"}

\* A tool runs without having been offered in this turn's request only if an
\* earlier call of the same batch was germinate_spore (registry.ts, invoke).
OfferedUnlessGerminated ==
  running # Nothing /\ running.tool \notin offered =>
    \E i \in AnsweredNow : history[i].tool = Germinate

\* A turn ends: back at the prompt or out of the session, whatever the model
\* streams, as long as its tools return (maxIterations).
TurnEnds == phase \notin {"prompt", "ended"} ~> phase \in {"prompt", "ended"}

-----------------------------------------------------------------------------
(* The inductive invariant                                                 *)

\* The awaited call is the first of the batch.
RunningIsHead ==
  running # Nothing => phase = "invoke" /\ batch # <<>> /\ running = Head(batch)

\* Inside the loop the iteration is below the limit.
IterBelowLimit == phase \in {"request", "stream", "invoke"} => iter < MaxIters

\* Reasoning is kept only in turns that have tool calls.
ReasoningWithCalls ==
  \A i \in DOMAIN history : history[i].reasoning => history[i].calls # <<>>

\* All that the registry and the allowlist let through was offered, until a spore
\* germinates.
ActiveIsOffered ==
  /\ phase = "stream" => ActiveTools \subseteq offered
  /\ phase = "invoke" /\ ~(ActiveTools \subseteq offered) =>
       \E i \in AnsweredNow : history[i].tool = Germinate

\* What holds of the loop whatever history it starts from.
LoopShape ==
  /\ TypeOK /\ RunningIsHead /\ IterBelowLimit
  /\ ReasoningWithCalls /\ FlashCarriesNoReasoning
  /\ ActiveIsOffered /\ OfferedUnlessGerminated

IInv == LoopShape /\ CallsAnswered

=============================================================================
