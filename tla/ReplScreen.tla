----------------------------- MODULE ReplScreen -----------------------------
(***************************************************************************)
(* The screen of a session: the AppState of src/index.ts and the closures   *)
(* around it, what App (src/ui/App.tsx) mounts for it, and the two ways in  *)
(* which the user answers, the input box and the approval prompt of         *)
(* src/security/hitlGate.ts.  It runs with the loop of ReactLoop, whose     *)
(* events change it between any two awaits.                                 *)
(*                                                                         *)
(* A text on screen is the set of assistant messages it was streamed for,   *)
(* by the id each gets when it is appended.  A text the user types is n when *)
(* it is sent, trimmed, as message n, -n when it is the command whose body is *)
(* sent as message n, and 0 when nothing is sent for it.                    *)
(***************************************************************************)
EXTENDS ReactLoop, Integers, SequencesExt

CONSTANT MaxTurns   \* bound: entries above the live region, but for the user's turns

ASSUME ScreenAssumptions == MaxTurns \in Nat

VARIABLES
  repl,          \* what runReplSession awaits at the prompt
  shown,         \* state of index.ts
  contentText,   \* the buffers of the same name
  reasoningText,
  pending,       \* pendingApprovals
  resolvers,     \* the keys of approvalResolvers
  verdict,       \* what the user answered for the running call
  blank          \* an empty prompt has been submitted

screenVars == <<repl, shown, contentText, reasoningText, pending, resolvers, verdict, blank>>
allVars == <<vars, screenVars>>
askVars == <<pending, resolvers, verdict>>

CardStatus == {"running", "completed", "failed", "rejected"}

ScreenTypeOK ==
  /\ TypeOK
  /\ repl \in {"boot", "reading", "command", "unpinning", "turn", "ended"}
  /\ shown.phase \in {"streaming", "awaiting_input"}
  /\ shown.userInput \in Int
  /\ \A i \in DOMAIN shown.turns :
       shown.turns[i].prompt \in Int /\ shown.turns[i].content \in SUBSET Nat
  /\ \A id \in DOMAIN shown.cards : id \in Nat /\ shown.cards[id] \in CardStatus
  /\ {shown.reasoning, shown.content, contentText, reasoningText, resolvers} \subseteq SUBSET Nat
  /\ {shown.approvals, pending} \subseteq Seq(Nat)
  /\ verdict \in {"none", "approve", "reject"}
  /\ blank \in BOOLEAN

ScreenInit ==
  /\ Init
  /\ repl = "boot"
  /\ shown = [phase |-> "awaiting_input", userInput |-> 0, turns |-> <<>>, cards |-> <<>>,
              reasoning |-> {}, content |-> {}, approvals |-> <<>>]
  /\ contentText = {} /\ reasoningText = {}
  /\ pending = <<>> /\ resolvers = {}
  /\ verdict = "none"
  /\ blank = FALSE

-----------------------------------------------------------------------------
(* What the handlers do to the state                                       *)

\* An entry above the live region; a command or a notice has no prompt.
WithTurn(s, prompt, text) ==
  [s EXCEPT !.turns = Append(@, [prompt |-> prompt, content |-> text])]

\* The full reconstructions: the live region starts anew.
Cleared(s, phaseOfRepl, input) ==
  [s EXCEPT !.phase = phaseOfRepl, !.userInput = input, !.cards = <<>>,
            !.reasoning = {}, !.content = {}, !.approvals = <<>>]

\* readNextPrompt's then, when a prompt has been typed.
Prompted(input) == Cleared(shown, "streaming", input)

\* Mutant of SlashOutput: the phase is left as the prompt set it.
SlashOutputStreaming(s) == WithTurn(Cleared(s, "streaming", 0), 0, {})

\* onSlashOutput
SlashOutput(s) == WithTurn(Cleared(s, "awaiting_input", 0), 0, {})

\* Mutant of SystemMessage: the state is reconstructed, the approvals forgotten.
SystemMessageAnew(s) == [WithTurn(s, 0, {}) EXCEPT !.approvals = <<>>]

\* emit of a system_message
SystemMessage(s) == WithTurn(s, 0, {})

SetCard(s, id, status) == [s EXCEPT !.cards[id] = status]

\* The entries with one of these prompts.
TurnsOf(turns, prompt) ==
  FlattenSeq([n \in 1..Len(turns) |-> IF turns[n].prompt \in prompt THEN <<turns[n]>> ELSE <<>>])

RoomForNotice == Len(TurnsOf(shown.turns, {0})) < MaxTurns

-----------------------------------------------------------------------------
(* At the prompt                                                           *)

\* The worker is up and runReplSession asks for the first prompt.
Booted ==
  /\ repl = "boot"
  /\ repl' = "reading"
  /\ UNCHANGED <<vars, shown, contentText, reasoningText, askVars, blank>>

InputBoxMounted == shown.phase = "awaiting_input"

\* Enter in the input box while readNextPrompt waits; else the text is dropped.
CanEnter == InputBoxMounted /\ repl = "reading"

EnterPrompt ==
  /\ CanEnter
  /\ Submit
  /\ shown' = Prompted(fresh)
  /\ repl' = "turn"
  /\ UNCHANGED <<contentText, reasoningText, askVars, blank>>

\* runReplSession skips it and reads on.
EnterBlank ==
  /\ CanEnter
  /\ shown' = Prompted(0)
  /\ blank' = TRUE
  /\ UNCHANGED <<vars, repl, contentText, reasoningText, askVars>>

EnterQuit ==
  /\ CanEnter
  /\ Quit
  /\ shown' = Prompted(0)
  /\ repl' = "ended"
  /\ UNCHANGED <<contentText, reasoningText, askVars, blank>>

\* /caveman, /spore list, and whatever else is answered at once.
EnterQuery ==
  /\ CanEnter
  /\ RoomForNotice
  /\ shown' = SlashOutput(Prompted(0))
  /\ UNCHANGED <<vars, repl, contentText, reasoningText, askVars, blank>>

\* A command that reads or writes a file first.
EnterCommand ==
  /\ CanEnter
  /\ RoomForNotice
  /\ shown' = Prompted(-fresh)
  /\ repl' = "command"
  /\ UNCHANGED <<vars, contentText, reasoningText, askVars, blank>>

\* /pack:command: its body, read from the pack, is sent; the screen keeps the command.
CommandExpands ==
  /\ repl = "command"
  /\ Submit
  /\ repl' = "turn"
  /\ UNCHANGED <<shown, contentText, reasoningText, askVars, blank>>

\* /spore pin
CommandPins ==
  /\ repl = "command"
  /\ UNCHANGED tools /\ ChangeSpore
  /\ shown' = SlashOutput(shown)
  /\ repl' = "reading"
  /\ UNCHANGED <<contentText, reasoningText, askVars, blank>>

\* /spore unpin answers before it awaits the end of the server.
CommandUnpins ==
  /\ repl = "command"
  /\ UNCHANGED allowlist /\ ChangeSpore
  /\ shown' = SlashOutput(shown)
  /\ repl' = "unpinning"
  /\ UNCHANGED <<contentText, reasoningText, askVars, blank>>

\* Then the allowlist is lifted; where no spore was pinned nothing is announced.
Unpinned ==
  /\ repl = "unpinning"
  /\ UNCHANGED tools /\ allowlist' = NoAllowlist /\ ChangeSpore
  /\ shown' \in {shown, SystemMessage(shown)}
  /\ repl' = "reading"
  /\ UNCHANGED <<contentText, reasoningText, askVars, blank>>

\* The file cannot be read or written: the error leaves main.
CommandThrows ==
  /\ repl = "command"
  /\ Quit
  /\ repl' = "ended"
  /\ UNCHANGED <<shown, contentText, reasoningText, askVars, blank>>

-----------------------------------------------------------------------------
(* In a turn                                                               *)

ScreenPrepareRequest ==
  /\ PrepareRequest
  /\ repl' = IF phase' = "ended" THEN "ended" ELSE repl
  /\ UNCHANGED <<shown, contentText, reasoningText, askVars, blank>>

ReasoningDelta ==
  /\ phase = "stream"
  /\ reasoningText' = reasoningText \cup {fresh}
  /\ shown' = [shown EXCEPT !.reasoning = reasoningText']
  /\ UNCHANGED <<vars, repl, contentText, askVars, blank>>

ContentDelta ==
  /\ phase = "stream"
  /\ contentText' = contentText \cup {fresh}
  /\ shown' = [shown EXCEPT !.content = contentText']
  /\ UNCHANGED <<vars, repl, reasoningText, askVars, blank>>

\* tool_call, once per call of the turn.
WithCards(s, ids) ==
  [s EXCEPT !.cards = [id \in DOMAIN @ \cup ids |-> IF id \in ids THEN "running" ELSE @[id]]]

\* Mutant of TurnComplete: the cards are cleared with the texts.
TurnCompleteClearing(s) ==
  /\ shown' = [s EXCEPT !.reasoning = {}, !.content = {}, !.cards = <<>>]
  /\ contentText' = {} /\ reasoningText' = {}

\* turn_complete, between the calls of an assistant turn and their results.
TurnComplete(s) ==
  /\ shown' = [s EXCEPT !.reasoning = {}, !.content = {}]
  /\ contentText' = {} /\ reasoningText' = {}

\* The stream ends with the reasoning it has shown.
ScreenStreamEnds ==
  /\ StreamEnds
  /\ LET turn == history'[Len(history')]
         calls == {turn.calls[k] : k \in DOMAIN turn.calls}
     IN
     /\ turn.reasoning = (calls # {} /\ reasoningText # {})
     /\ IF calls = {} THEN UNCHANGED <<shown, contentText, reasoningText>>
                      ELSE TurnComplete(WithCards(shown, calls))
  /\ UNCHANGED <<repl, askVars, blank>>

ScreenDenyTool ==
  /\ DenyTool
  /\ shown' = SetCard(shown, Head(batch).id, "failed")
  /\ UNCHANGED <<repl, contentText, reasoningText, askVars, blank>>

ScreenStartTool == StartTool /\ UNCHANGED screenVars

\* requestApproval
Ask(id) ==
  /\ resolvers' = resolvers \cup {id}
  /\ pending' = Append(pending, id)
  /\ shown' = [shown EXCEPT !.approvals = pending']

\* checkBash, checkWrite and checkRead ask when the arguments are risky, checkMcp always;
\* nobody gates germinate_spore.
RequestApproval ==
  /\ running # Nothing /\ running.tool # Germinate
  /\ verdict = "none" /\ pending = <<>>
  /\ Ask(running.id)
  /\ UNCHANGED <<vars, repl, contentText, reasoningText, verdict, blank>>

\* onApprovalResponse
AnswerHead(decision) ==
  /\ pending # <<>> /\ Head(pending) \in resolvers
  /\ pending' = Tail(pending)
  /\ resolvers' = resolvers \ {Head(pending)}
  /\ verdict' = decision
  /\ shown' = [shown EXCEPT !.approvals = pending']

\* Y or N in the mounted prompt.
ApprovalResponse(decision) ==
  /\ shown.approvals # <<>>
  /\ AnswerHead(decision)
  /\ UNCHANGED <<vars, repl, contentText, reasoningText, blank>>

\* A rejected tool of the program throws; a rejected wrapper says so in its result.
ScreenToolReturns ==
  /\ pending = <<>>
  /\ ToolReturns
  /\ LET ok == history'[Len(history')].ok IN
     /\ verdict = "reject" => ok = (running.tool \notin Native)
     /\ shown' = SetCard(shown, running.id,
          IF ok THEN "completed" ELSE IF verdict = "reject" THEN "rejected" ELSE "failed")
  /\ verdict' = "none"
  /\ UNCHANGED <<repl, contentText, reasoningText, pending, resolvers, blank>>

ScreenNextIteration == NextIteration /\ UNCHANGED screenVars

\* Mutant of ScreenCompleteTurn: the live region is cleared before the turn is read off.
ScreenCompleteTurnCleared ==
  /\ CompleteTurn
  /\ LET cleared == Cleared(shown, "awaiting_input", 0) IN
     shown' = WithTurn(cleared, cleared.userInput, contentText)
  /\ contentText' = {} /\ reasoningText' = {}
  /\ repl' = "reading"
  /\ UNCHANGED <<askVars, blank>>

\* onTurnComplete; the turn has been logged.
ScreenCompleteTurn ==
  /\ CompleteTurn
  /\ shown' = Cleared(WithTurn(shown, shown.userInput, contentText), "awaiting_input", 0)
  /\ contentText' = {} /\ reasoningText' = {}
  /\ repl' = "reading"
  /\ UNCHANGED <<askVars, blank>>

\* The death of an MCP server is announced, at any time.
ScreenMcpServerExits ==
  /\ RoomForNotice
  /\ McpServerExits
  /\ shown' = SystemMessage(shown)
  /\ UNCHANGED <<repl, contentText, reasoningText, askVars, blank>>

-----------------------------------------------------------------------------

AtPrompt ==
  \/ Booted \/ EnterPrompt \/ EnterBlank \/ EnterQuit \/ EnterQuery \/ EnterCommand
  \/ CommandExpands \/ CommandPins \/ CommandUnpins \/ Unpinned \/ CommandThrows

InTurn ==
  \/ ScreenPrepareRequest \/ ScreenStreamEnds \/ ScreenDenyTool \/ ScreenStartTool
  \/ ScreenToolReturns \/ ScreenNextIteration \/ ScreenCompleteTurn
  \/ \E decision \in {"approve", "reject"} : ApprovalResponse(decision)

ScreenNext ==
  AtPrompt \/ InTurn \/ ReasoningDelta \/ ContentDelta \/ RequestApproval \/ ScreenMcpServerExits

ScreenSpec == ScreenInit /\ [][ScreenNext]_allVars

-----------------------------------------------------------------------------
(* Properties                                                              *)

\* Whenever a prompt is awaited, the input box in which to type it is mounted (App.tsx
\* 268).  "Empty submit just re-prompts" (replSession.ts 123), but no redraw brings the
\* input box back after it.
InputBoxShown == repl = "reading" => InputBoxMounted

\* After every turn, command, notice and unpin of a session in which no empty prompt
\* was submitted, the input box is there when a prompt is awaited, and a mounted input
\* box is heard, but while the session boots or an unpin waits for a server.
InputBoxHeard ==
  /\ blank \/ InputBoxShown
  /\ InputBoxMounted => repl \in {"boot", "reading", "unpinning"}

\* The messages since the last prompt.
ThisTurn == {i \in DOMAIN history : \A j \in i..Len(history) : history[j].role # "user"}

\* Whether the turn made the call id, has a result of it, has a good one.
Made(id) == \E i \in ThisTurn : \E k \in DOMAIN history[i].calls : history[i].calls[k] = id
Resolved(id) == \E i \in ThisTurn : history[i].role = "tool" /\ history[i].re = id
ResolvedWell(id) ==
  \E i \in ThisTurn : history[i].role = "tool" /\ history[i].re = id /\ history[i].ok

\* The cards of the turn are its calls, a card settled when the result of the call is in
\* the history and with its outcome; a veto shows on a tool that throws for it.
CardsMatchResults ==
  /\ \A i \in ThisTurn : \A k \in DOMAIN history[i].calls :
       history[i].calls[k] \in DOMAIN shown.cards
  /\ \A id \in DOMAIN shown.cards :
       /\ Made(id)
       /\ shown.cards[id] = "running" <=> ~Resolved(id)
       /\ shown.cards[id] = "completed" <=> ResolvedWell(id)

\* What is shown as being thought and said is of the request that is streaming.
ShowsThisRequest == phase = "stream" => shown.reasoning \cup shown.content \subseteq {fresh}

\* The live region of a running turn shows the calls of the turn with what came of them
\* and the texts of this request alone: turn_complete comes between the calls and their
\* results and must clear the texts and not the cards (index.ts 474-483).
LiveRegionExact ==
  phase \notin {"prompt", "ended"} => CardsMatchResults /\ ShowsThisRequest

\* An answer: an assistant turn without calls.
Terminal(m) == m.role = "assistant" /\ m.calls = <<>>

\* The user message that the i-th message of h would answer.
Asked(h, i) ==
  {j \in 1..(i - 1) :
     h[j].role = "user" /\ \A k \in (j + 1)..(i - 1) : h[k].role # "user" /\ ~Terminal(h[k])}

\* buildTurnsFromHistory: each user message with its terminal answer.
BuildTurns(h) ==
  FlattenSeq([i \in 1..Len(h) |->
    IF Terminal(h[i]) /\ Asked(h, i) # {}
      THEN <<[prompt |-> h[CHOOSE j \in Asked(h, i) : TRUE].id, answer |-> h[i].id]>>
      ELSE <<>>])

\* The message that is sent for a typed text, and the texts that these are sent for.
Sent(typed) == IF typed < 0 THEN -typed ELSE typed
TypedFor(ids) == ids \cup {-n : n \in ids}

\* What the user has seen, own, is what was built: each turn that came to an answer, in
\* order, with that answer and under the message sent for what the user had typed; a
\* turn that did not come to an answer shows nothing as one.
Matches(own, built) ==
  LET answered == TypedFor({built[n].prompt : n \in 1..Len(built)})
      seen == TurnsOf(own, answered)
  IN
  /\ Len(seen) = Len(built)
  /\ \A n \in 1..Len(built) :
       Sent(seen[n].prompt) = built[n].prompt /\ seen[n].content \subseteq {built[n].answer}
  /\ \A n \in 1..Len(own) : own[n].prompt \notin answered => own[n].content = {}

\* The turns of the user, without those of commands that sent nothing and notices.
Own(turns) == TurnsOf(turns, Int \ {0})

\* At the prompt, the turns that --resume would build from the history are those the user
\* has seen, one for one and with their answers; a prompt is shown as it was typed, and a
\* /pack:command, which the screen keeps, as the body that was sent for it
\* (replSession.ts 175, index.ts 568, resume.ts 72).
TurnsAsResumed == phase = "prompt" => Matches(Own(shown.turns), BuildTurns(history))

\* A tool that waits for approval waits alone, its request is on the screen and its
\* answer has somewhere to go, whatever else redraws the screen (index.ts 480-491).
ApprovalAnswerable ==
  /\ pending = shown.approvals
  /\ pending # <<>> => /\ running # Nothing /\ pending = <<running.id>>
                       /\ resolvers = {running.id} /\ shown.phase = "streaming"

-----------------------------------------------------------------------------
(* The inductive invariant                                                 *)

Fields == {"phase", "userInput", "turns", "cards", "reasoning", "content", "approvals"}

\* What the REPL awaits, where the loop is and what is mounted go together.
PhasesAgree ==
  /\ running # Nothing => phase = "invoke"
  /\ phase \notin {"prompt", "ended"} => repl = "turn" /\ shown.phase = "streaming"
  /\ repl = "command" => shown.phase = "streaming"
  /\ repl \in {"boot", "unpinning"} => shown.phase = "awaiting_input"

ScreenInv ==
  /\ DOMAIN shown = Fields
  /\ PhasesAgree
  /\ InputBoxHeard
  /\ ApprovalAnswerable
  /\ pending = <<>> => resolvers = {}

\* An id is used once: no result answers a call that is still in the batch.
IdsFresh ==
  /\ \A i \in DOMAIN history :
       /\ history[i].role = "tool" => history[i].re < fresh
       /\ \A k \in DOMAIN history[i].calls : history[i].calls[k] < fresh
  /\ \A k \in DOMAIN batch :
       /\ batch[k].id < fresh
       /\ \A j \in DOMAIN batch : batch[j].id = batch[k].id => j = k
       /\ \A i \in DOMAIN history : history[i].role = "tool" => history[i].re # batch[k].id

\* Buffers and screen are empty but while a stream runs and after the last of the turn.
TextsOfRequest ==
  LET texts == contentText \cup reasoningText \cup shown.content \cup shown.reasoning IN
  /\ phase \in {"prompt", "request", "invoke"} => texts = {}
  /\ phase = "stream" => texts \subseteq {fresh}

\* Cards go with the turn, and each call of the batch has its own.
CardsOfTurn ==
  /\ phase = "prompt" => shown.cards = <<>>
  /\ phase \notin {"prompt", "ended"} =>
       CardsMatchResults /\ \A k \in DOMAIN batch : batch[k].id \in DOMAIN shown.cards

RegionInv == IdsFresh /\ TextsOfRequest /\ CardsOfTurn

InTheTurn == phase \in {"request", "stream", "invoke", "turnDone"}

\* The turn that is running, as it will be added.
ThisEntry == [prompt |-> shown.userInput, content |-> contentText]

\* The text typed for the running turn was sent as the last user message, and as no
\* message before.
PromptOfTurn ==
  /\ fresh # 0 /\ shown.userInput \in Int
  /\ repl = "command" => shown.userInput = -fresh
  /\ shown.turns \in Seq([prompt : Int, content : SUBSET Nat]) /\ contentText \in SUBSET Nat
  /\ \A n \in DOMAIN shown.turns : Sent(shown.turns[n].prompt) < fresh
  /\ InTheTurn =>
       /\ Sent(shown.userInput) \in 1..(fresh - 1)
       /\ \A n \in DOMAIN shown.turns : Sent(shown.turns[n].prompt) # Sent(shown.userInput)
  /\ phase \in {"request", "stream", "invoke"} =>
       \E u \in Asked(history, Len(history) + 1) : history[u].id = Sent(shown.userInput)

\* What will have been seen once the turn that is done is added is what was built.
TurnsMatch ==
  LET own == Own(shown.turns) IN
  /\ phase \in {"prompt", "request", "stream", "invoke"} => Matches(own, BuildTurns(history))
  /\ phase = "turnDone" => Matches(Append(own, ThisEntry), BuildTurns(history))

TurnsInv == PromptOfTurn /\ TurnsMatch
=============================================================================
