# Verification of myceliate-cli

TLA+ models of the orchestrator of myceliate-cli, TLC runs over small instances
and machine-checked (TLAPS) theorems for all values of the constants. Paths
below are relative to the repository; `PROJECT.json` maps every definition to
the lines it translates.

## 1. The system

The program is a terminal agent. One *orchestrator* process runs a REPL; each
prompt starts a ReAct loop that streams a model's turn, runs the tools it calls
one after the other and feeds the results back. Shell commands leave the
process through a BullMQ queue in Redis and run in a *worker* process. Spores
(skill packs) change the system prompt, restrict the tools and may bring an MCP
server, a further child process. Subagents run in child processes of their own.

| component | state it keeps | operations | properties that make it correct |
|---|---|---|---|
| bash dispatch (`tools/bash.ts`, `queue/*`, `runtime/workerLifecycle.ts`) | pending-jobs Map, shutdown flag; BullMQ jobs, locks, attempts; bash processes | dispatch, approve, enqueue, track, finish; worker exit, shutdown, SIGKILL timer; spawn, timeout, close | the Map is exact; a vetoed command never starts; no two live executions; bounded re-execution; a result means that a worker is done with the command; tracked calls settle; a closing worker exits |
| ReAct loop (`orchestrator/reactLoop.ts`, `QueryEngine.ts`) | history, iteration, pending calls | route, request, stream, invoke, append | each call has its one result in place; the execution model sees no reasoning; turns end |
| tool registry (`tools/registry.ts`, `runtime/bootTools.ts`) | tools, allowlist | register, deregister, setActiveAllowlist, invoke | only offered tools run |
| REPL (`runtime/replSession.ts`) | active spore | prompt, slash commands, quit | spore changes only between turns; every path leads back to a prompt that can be typed into |
| conversation log (`memory/*`, `runtime/resume.ts`) | `.md`, `.jsonl`, flush cursor | append the delta of a turn, read, resume | the log is the history, each message once, but for what a torn line costs; no history with open calls is resumed, unless a result was lost that way |
| HITL (`security/hitlGate.ts`, `index.ts`) | FIFO of requests, Map of resolvers | ask, answer | each request is answered once, by the answer given to it |
| compaction (`orchestrator/compaction/*`) | none (pure passes) | prune, snip, compact, budget | protected tail intact; calls stay paired; idempotent |
| spores (`spores/*`, `tools/germinate_spore.ts`) | registry, pin file, system sections, active spore | boot, pin, unpin, germinate | prompt, allowlist, pin and UI agree on the active spore |
| MCP (`runtime/mcpLifecycle.ts`, `mcp/McpClient.ts`) | active Map, client flags | spawn, initialise, call, crash, teardown | one server per spore; no wrapper without a server |
| subagents (`spores/childProcessSpawn.ts`, `subagentLoop.ts`) | child process, timers | spawn, time out, kill, answer | one answer; the child is gone |
| screen (`index.ts`, `ui/*`) | AppState, text buffers | redraw on each event, mount input box and approval prompt | cards follow results; texts of one request at a time; shown turns are those of the log |
| stream parsers (`transport/sseClient.ts`, `adapters/v4/*`, `adapters/v3/*`) | buffer, mode, collected fragments | feed, flush | where a reply is cut does not matter, but for a V4 delta that ends inside a `</param>` |
| discovery and boot (`spores/SporeRegistry.ts`, `spores/bootSpores.ts`) | the registry | scan the tiers, read a spore's files, germinate the pin | what is found is one whole spore |
| installer (`cli/mcpInstall.ts`) | staging directory, the notes read | read the notes, list the tools, write, remove, rename | no half spore at the target; the user's notes survive |
| logger (`util/logger.ts`) | queue, chain of appends | enqueue, append a batch, flush | entries in order and once; a failure costs its batch only; a flush is complete |
| configuration, secrets, schema translator, file tools, markdown | none | | |

How they interact: `index.ts` wires everything. The loop calls the registry,
which calls tools; the bash tool awaits the HITL bridge, then Redis, then the
race between the job's outcome and the worker's exit. `germinate_spore` writes
to the registry, the engine's system sections and the pin file while the loop
waits for it. MCP servers, workers and subagents report through event callbacks
that run between any two awaits. At the end of a turn the delta of the history
is appended to two files. `mcp install` is a process of its own: it writes a
spore where the sessions of the machine discover spores, possibly at the same time.

What is hard here: processes that die at any await; a queue shared by all
sessions of a machine; exit events racing results; a registry and an allowlist
that change between offer and dispatch; files cut short by a crash and read by
the next process. `PROJECT.json` lists the hazards at their lines.

## 2. Modules

| module | models |
|---|---|
| `ShellCalls` | the abstract promise of the bash tool to its caller |
| `BashDispatch` | sessions, workers, bash processes, the BullMQ queue |
| `BashDispatch_proofs` | its theorems |
| `ReactLoop` | REPL, loop, history, registry and allowlist |
| `ReplScreen` | `ReactLoop` with the screen, the input box and the approval bridge |
| `AgentSession` | `ReactLoop` over several processes with the log files, crashes and `--resume` |
| `Session_proofs` | the theorems of `ReactLoop`, `ReplScreen` and `AgentSession`: screen and log extend the loop, and rest on its invariant |
| `Compaction` | the token estimate and the three compaction passes, as operators |
| `QueryEngine` | the history, the budget and `prepareRequest`, driven as the loop drives them |
| `QueryEngine_proofs` | its theorems, with the lemmas on the passes |
| `SporeSession` | which spore is active, the pin, the system sections, the MCP servers |
| `McpInstall` | installations of one spore beside each other, and the user's notes in it |
| `SporeBoot` | `McpInstall` with a session that discovers and germinates the spore meanwhile |
| `SessionLogger` | the logger's chain of appends, and the end of a session that flushes it |
| `Files_proofs` | the theorems of `SporeBoot`, `McpInstall` and `SessionLogger`: what is left on disk |
| `Subagent` | one call of `spawn_subagent`: the parent's timers, the child process, its loop |
| `Spores_proofs` | the theorems of `SporeSession` and `Subagent` |
| `SseStream` | server-sent events out of chunks |
| `DsmlStream` | the incremental parser of DSML |
| `V3Stream` | the collector of V3's fragments |
| `ResponseStream` | a streamed response: server, network, `V4Adapter.stream` with its two DSML parsers or `V3Adapter.stream` |
| `SseStream_proofs` | what normalising line ends and cutting off events leave of a stream, as lemmas |
| `ResponseStream_proofs` | the theorems of `ResponseStream` |
| `SequenceLemmas` | what the proofs need to know of filters, sums, concatenations and maxima over sequences |
| `MC...` | instances for TLC |

**BashDispatch.** A session is an orchestrator process and the worker it owns.
`call` is the program counter of the bash tool's `run`: `hitl` (awaiting the
user), `adding` (about to enqueue), `added` (Redis has the job, the reply is
under way), `waiting` (in the race), then one of the settled values. The step
from `added` to `waiting` is separate because the worker can exit in that await.
`pendingJobs` is the Map of `workerLifecycle.ts`, `exitSeen` says that its
`exit` listener has run, `shutdownInitiated` is its flag. `worker` is the OS
process (`closing` from SIGTERM on); the child that `startWorker` spawns is the
`pnpm` around it, with which it is identified, except that a SIGKILL to pnpm may
or may not take the worker along. `job`, `lock`, `attempts` and `stalled` are
BullMQ's; its actions (`MoveToActive`, `MoveToCompleted`, `RecoverStalled`) are
external and follow the semantics the code relies on: FIFO order is not assumed,
a lock expires only after its holder is gone, `maxStalledCount` recoveries.
`proc[w][c]` is what became of the bash process of call `c` in worker `w`: `running`,
`killed` by the job's timer, `closed`; it survives its worker. `runBashJob` also
resolves at an `error` of the child: when no bash could be started (`refused`: a `cwd`
that does not exist is enough) and when the SIGKILL is not permitted (`escaped`: bash has
become a program of another user). `Resolved` are the values at which the job completes;
only a spawn that throws (`SpawnThrows`) fails it. A command whose child keeps the pipes
open (`Lingering`) need not reach `close` after the SIGKILL. Only the orchestrators of
`Mortal` sessions are killed.

**ShellCalls.** Vetting, starts, ends, runners that give up and the one answer of each
call. A result says that a runner is done with the command: it ran to its end, or the
runner gave it up, as it could not start it or could not kill it at its limit. That is
less than a caller may expect, and all that `runBashJob` gives: the answer carries the
error text, with an exit code of null. `Answer` and the `started`, `ended` and `givenUp`
sets are the refinement mapping `Promise` in
`BashDispatch`; the property `KeepsPromise` is the abstract specification under
it.

**ReactLoop.** `phase` is where `runReplSession` and `runReactLoop` are.
Messages are records with the fields the properties need; ids are fresh numbers.
The stream of a turn is one step: nothing else of this state changes while it
runs except the registry, and an `error` event only ends it early with the calls
received so far. `PrepareRequest` may end the session (a refused budget, which
no caller catches). `tools` is the registry: `germinate_spore` adds names of a
spore's namespace, also when it fails afterwards, and a dying MCP server or an
unpin removes a namespace (`McpServerExits`, `ChangeSpore`). `invoke` is
`DenyTool` or `StartTool`; `ToolReturns` is its result, success or error, with
the allowlist a successful germination installs.

**ReplScreen** extends `ReactLoop`, whose steps it leaves as they are, by the state of
`index.ts`. `shown` is the AppState (a text is the set of assistant messages it
was streamed for; what the user typed is n when it was sent as message n, -n when it is
the `/pack:command` whose body was sent as message n, 0 when nothing was sent: the screen keeps the
command, the history has its body), `contentText` and `reasoningText` are the buffers, `pending`
and `resolvers` the two halves of the approval bridge. `repl` is what
`runReplSession` awaits: the start of the worker, the prompt, the file of a
command, the end of a server after an unpin, or the turn. What an event handler
does to the state is an operator (`WithTurn`, `Cleared`, `SlashOutput`,
`TurnComplete`, `SystemMessage`, ...), used by the action of the code that emits
the event, in the same step: handlers run synchronously. The input box takes
input only while `shown.phase` is `awaiting_input`, an approval prompt while
`shown.approvals` has a head. `verdict` is what the asking tool learns.
`RequestApproval` is any gated tool: whether the arguments are risky is a choice.

**AgentSession** extends `ReactLoop`. The log of a turn is written message by
message, first the `.md`, then the `.jsonl`; a process may die, or a write fail
and end it, between any two steps, leaving the line complete, cut (`partial`:
it does not parse) or whole without its newline (`unterminated`: it parses until the
next line is appended to it). `Resume` is
`--resume`: read the parsable lines, refuse an empty or unsafe history, set the
flush cursor to its length. `loaded` is that length, `resultLost` remembers that a
result was lost which had been read back from an unterminated line.

**Compaction** and **QueryEngine.** A text is its length; a result also has the
count in its truncation marker. The passes of `src/orchestrator/compaction` are
operators that say, for every message, what takes its place. `QueryEngine` grows
a history by the three `append` methods in the order `runReactLoop` calls them
and lets `prepareRequest` send it, compacted and without the reasoning R2 drops,
or refuse it; nobody catches a refusal, so it is the last step. The four
thresholds of the budget collapse to two, because every verdict but `none` runs
all three passes. The system sections are not counted by the budget and are not
part of this module.

**SporeSession.** `phase` is the await at which the session stands: the prompt,
a turn, the awaits of `germinate_spore` (`spawning`: `initialize`, `listing`:
`listTools`, `reading`: SKILL.md, `pinning`: the pin file), of an MCP wrapper
(`asking`: the approval of a sensitive tool, which a user may never give; `calling`:
the request to the server), `unpinning` (the end
of the server), and at the end of a session `flushing` and `closing`. Code
between two awaits is one action. `procs` counts the server processes there
really are, `entry` is the Map of `McpLifecycle`, in which a process may have
died unseen (`exited`) until its close event runs (`ServerExitEvent`, possible
at every await); the event removes the entry and, before anything else runs,
the wrappers. `pin`, `active`, `allowlist`, `shown` and `sections` are what a
switch of spores writes, in `germinate_spore` at different awaits, any of which
may throw; a pin that cannot be written may be left empty (`NoSpore`). A section
is what it holds: the base prompt, a germinated body, the commands of a spore.
`--no-spore` is the empty registry. A session may be followed by another with
the pin it left. A call of an MCP tool (`CallTool`, `CallVetted`, `CallReturns`,
`CallFails`) changes nothing but the phase; it is here because the server may die, or
hang, at either of its awaits. A wrapper holds the client it was registered with:
`WrappersServed` implies that a spore spawned anew never meets wrappers of the old
server.

**Subagent.** `call`, `timer`, `killTimer`, `timedOut` and `received` are the
closure of `childProcessSpawn`: where the call is, its two timers and what has
arrived of the response. `child`, `signal` and `written` are the process as the
operating system has it (`written` may be `part`: the line is longer than the pipe holds,
and a process that dies then leaves it cut), `runner`, `step`, `messages` and `pending` the `main` of
`subagentRunner.ts` and its loop. The call is answered at `close`, when the
process is gone and its pipe has been read (`Close`), or when there never was a
process (`SpawnFailed`). An error event of the stream is ignored by the loop, so
`StreamEnds` covers it: no text and no calls make a final answer. The process
may die at any point, by a signal or without. Every call has a closure and a
process of its own and calls share no state, so one call is the whole behaviour.

**McpInstall.** A process of `mcp install` is at one of its awaits: `connecting`
(start, `initialize` and `listTools` of the server), `writing` the staging
directory file by file, `removing` the target file by file (`--regenerate`),
`renaming`. `target` is the directory of the spore, each file with the
installation it is from, `notes` what the user has written below the marker of
its SKILL.md, `kept` the notes a process has read. A synchronous stretch of code
is one step. Any step may fail, and the process may be killed (`Kill`); both give
up the staging directory, since what is left there is never read (its name starts
with a dot). The history variables `authored`, `known`, `torn` and `removed`
only observe. Assumed: staging directories of different processes differ (their
names end in a timestamp), an edit of the notes is atomic, the SKILL.md has its
marker. Installations do not write personas.

**SporeBoot** extends `McpInstall` by a session: `boot` is the await of
`SporeRegistry.discover` and `bootSpores` at which it stands, `loading` and
`listing` what `loadSpore` has read and has still to read of the installed
spore. The project's tier may override it; the bundled tier is the default that
the installed spore overrides, and is left out. The body is read anew by a boot
with a pin and by each `germinate_spore`. Generated command files parse. With
`--no-spore` none of this runs.

**SessionLogger.** Entries and the links of the promise chain are numbered alike,
one link per entry; `queue` and `batch` are the entries not yet taken and those
being appended. `session` is where `main` stands (running, awaiting the flush,
closing). An append that fails is assumed to leave nothing in the file.

**SseStream**, **DsmlStream** and **ResponseStream.** A text is a sequence of
pieces, a marker two of them (`<` and its rest), since the code either finds a
marker whole or, after a `<`, waits for a `>`: where it is cut inside makes no
difference. `parser` has the fields of the two `DsmlParser`s (content and
reasoning); each pass of the loops in `feed` and `consumeBlockSegment` is an
action, taken while `busy`. `Consume` is the body of `for await` in
`V4Adapter.stream` or `V3Adapter.stream`, as `protocol` says. With V3 texts pass
and calls are sent apart from them, the id first and then the arguments piece by
piece under an index, interleaved with the texts and with each other;
`pendingCalls` collects them until the finish_reason. The server sends pieces of a reply, `ReplyWire`, in deltas;
the reply is made of texts and calls, so that what ought to be delivered
(`Meaning`) does not depend on the parser: for V4 sections, each a text without the start of
a block and a block of calls, and a last text (`V4Text`); for V3 both texts and calls
whose arguments are a whole JSON object or nothing (`V3Reply`, `WholeObject`). `cut` remembers that a delta ended
inside a `</param>`.

## 3. Runs

| run | instance | shows |
|---|---|---|
| `dispatch` | two sessions, two calls of one of them, one needing approval, one whose spawn throws | `TypeOK` (the attempts keep their limit), `TrackingExact`, `VetoHolds`, `OneLiveExecution`, `ExecutionsBounded`, refinement `KeepsPromise`, and under `FairSpec` `TrackedCallSettles`, `ClosingWorkerExits` |
| `loop` | three iterations, two calls each, one MCP namespace, no allowlist or an empty one | `CallsAnswered`, `FlashCarriesNoReasoning`, `OfferedUnlessGerminated`, `TurnEnds` under `FairSpec` |
| `log` | three prompts, two resumes, lines cut short or without their newline | `AnsweredUnlessLost` (no open call over resumes, until a result is lost), `LogTracksHistory` |
| `compact` | histories of up to nine messages, tail of two | `ResultsKept`, `ResultsFollowCalls`, `PassesIdempotent`, `SentWithinBudget` |
| `wellformed` | up to five failed calls of one reply | *violation*: calls without results are sent |
| `spores` | two MCP spores and a plain one, with and without restrictions and commands, prompts of up to three sections | `OneActiveSpore`, `OneBody`, `WrappersServed`, `ServersOwned`, `CommandEnds` under `FairSpec` |
| `baseprompt` | the same | *violation*: a switch of spores in a session booted with a pin drops the base prompt |
| `subagent` | three steps of two calls | `AnsweredWhenGone`, `AnswerIsChilds`, `ResultsComplete`, `SubagentReturns` under `SubagentFairSpec` |
| `stream` | two V4 replies and one of V3 (text, calls, parameters, reasoning), LF or CR LF, deltas of up to two pieces, chunks of up to five symbols | `CallsIntact`, `ReplyDelivered` |
| `screen` | two prompts of two iterations with one call each, commands, one notice or command at most | `InputBoxHeard`, `LiveRegionExact`, `TurnsAsResumed`, `ApprovalAnswerable` |
| `boot` | two installations of a spore that may be there already, each with or without `--regenerate`, one command, one note, one session | `TargetWhole`, `NotesKept`, `FoundIsWhole`, `InstallEnds` under `FairSpec` |
| `logger` | six entries, bursts of two | `LogInOrder`, `FlushedIsLogged`, `LogSettles` under `LoggerFairSpec` |

*Bounds.* Two sessions are needed for a worker to run a foreign job and for a
recovery, and one that may be killed (`Mortal`) while the other goes on; two calls for one to queue behind the other in a worker with
`Concurrency` 1 (the code's 4 only makes room for more). `MaxStalled` 1 is the
code's value; two attempts instead of its three are enough to fail and to retry. In the loop, three iterations are needed
for a latch set in the first and read in the third; two calls per turn for a
germination before another call. In the log, two resumes are needed to append
onto a torn line and then read it. The compaction instance keeps the code's
thresholds and the true lengths of placeholder, marker and note, and scales the
tails and the budget down so that nine messages reach past every boundary: a
run of three failures fits before the tail or straddles it, a file is read in
the tail and before it, one long output is worth the distance between two
thresholds. Of the spores, one has everything a
manifest may bring, one only a server and one only a restriction; `MaxSections` 3
lets a pinned session add two sections by slash commands. Three steps of a
subagent are one before, one at and one after the first full batch; the code's
limit is 20. A delta of one piece cuts every marker and one of two carries a
whole one; a chunk of five symbols spans two events (`MaxWire` lets the server
send before all is received). Events have one data line, as a JSON text has.
On the screen, two prompts let a turn find what another has left, and two
iterations put a `turn_complete` between two requests and let a turn end without an
answer; each has one call, as the order of the calls of a batch is `loop`'s, and no
wrapper is registered, as the registry is `loop`'s too. Entries
without a prompt (`MaxTurns`) only stand between turns, so one is enough.
Two installations are one that is at work while another comes, with every
combination of the flag; one command is a file that may or may not be part of a
spore, and so tells two installations apart; one note can be there before, during
and after a regeneration. Six entries in bursts of two let a link take the
entries of several and later links find nothing, before and after a failure and
the flush. The types of `dispatch` are a property because its attempts are a
count with a limit; the `TypeOK` of the other modules served while they were
written, and is proved where "Proofs" says so.
`MaxSteps`, `MaxIters`, `MaxBatch`, `MaxPrompts`, `MaxResumes`, `MaxSections`,
`MaxTurns`, `MaxLogged`, `MaxBurst`, `MaxChunk`, `MaxDelta` and `MaxWire` bound only the
instances; the theorems hold for all.

*Left out of the passing instances*, because the property then fails and the
code promises no more: a command whose background child holds the output pipes
(`Lingering = {c1}` breaks `ClosingWorkerExits`: `runBashJob` resolves on
`close`, which waits for every holder of the pipes). Placeholders longer than the outputs they replace can also
raise a history over the refusal threshold: `SentWithinBudget` says that it is
then refused, not that it would not have fitted uncompacted.

*Known limits* are stated by the properties rather than by runs of their own.
A tool may run that the request did not offer, when a `germinate_spore` before
it in the batch has just replaced the allowlist; `OfferedUnlessGerminated` says
that this is the only way. The `.md` of a resumed session is truncated by the
header of the new process (`conversationLog.ts:38-46`), although `index.ts:331-333` does
not log the rehydrated messages again because "they are already in the .jsonl + .md";
`LogTracksHistory` says that the `.md` holds exactly what this
process has logged. A log line that lacks but its newline is read back by `--resume` and
lost when the next line is appended to it, together with that; when it was a result, the
session after that may be resumed with an open call, since `isSafeToResume`
(`resume.ts:23`) looks at the last assistant turn with calls only: `AnsweredUnlessLost`
excepts this (`resultLost`). `--resume` shows the body of a pack command
(`resume.ts:72`, as sent by `replSession.ts:175`) where the screen had the command
(`index.ts:568`); `TurnsAsResumed` says that they are the same turns. A call of bash is answered with a
result when no bash was started (an invalid `cwd`), or when the SIGKILL of its timer was
refused and the command goes on (`bashJob.ts:104`); `KeepsPromise` says so. A session that quits while its worker runs the command of
another session kills that worker after two seconds and leaves the command
running; `KeepsPromise` and `OneLiveExecution` say what still holds.

*Further limits* met while modelling, which no run of their own shows:

Dispatch, loop and screen

- A worker that exits between `queue.add` and `trackJob` leaves a call that nobody
  rejects (`tools/bash.ts:94`): the exit handler has run over an empty Map.
  `TrackedCallSettles` speaks of calls registered while the worker lives.
- A delta that ends inside a `</param>` is never recognised as one
  (`dsmlParser.ts:151`): the wait that `safeContentPrefix` gives the block markers is
  missing there, so the argument swallows what follows or the calls are lost.
  `v4-dsmlParser.test.ts:33` ("handles markers split across feeds") splits a block
  marker only. `CallsIntact` and `ReplyDelivered` except such replies (`cut`).
- An empty Enter leaves no input box: `index.ts:572` sets `streaming` before the
  prompt is looked at, and `replSession.ts:123` ("Empty submit just re-prompts.") goes
  back without a `turn_complete`, so `App.tsx:268` does not mount it again.
  `InputBoxHeard` excepts `blank`.
- The subagent's loop ignores error events of the stream (`subagentLoop.ts:103`): a
  request that failed counts as a final answer without text.
- When `queueEvents.close()` or `queue.close()` rejects (`index.ts:600`), the servers
  and the worker are not torn down.
- The subagent's loop appends its assistant messages without their `tool_calls`
  (`subagentLoop.ts:135`), so its second request carries results of calls that no
  message makes. `ResultsComplete` says only that the results are there.
- With V3 a finish_reason that comes right after the name of a call delivers it
  with no arguments (`v3/parser.ts:84`); one that comes later makes it an error.
  `V3CallsAsMade` says so.
- Text entered while the worker starts, or while an unpin waits for its server, is
  dropped (`index.ts:171`): `InputBoxHeard` excepts `boot` and `unpinning`.
- A rejected call of an MCP wrapper returns its rejection as a result
  (`germinate_spore.ts:163`), so its card shows `completed`, where the tools of the
  program throw and show `rejected`. `LiveRegionExact` ties the card to the result in
  the history, which is no error either.
- `reasonStartedAt` is not set anew when a turn starts, although the comment at
  `index.ts:323` says that the buffers are: the first duration of a turn counts the
  time at the prompt. Times are not modelled.
- The approval prompt answers once per mount (`ApprovalPrompt.tsx:14`) and has no
  key, so a second queued request could not be answered in the same mount.
  `ApprovalAnswerable` says that a tool never waits beside another.

Spores, servers and installations

- `mcpInstall.ts:7` says that no partial install is ever left. A regeneration removes
  the target file by file before it renames (`:143`), so one that fails or is killed
  there leaves part of the old spore, or none, and the notes are gone with it.
  `TargetWhole` and `NotesKept` state what does hold. A plain installation may take
  the emptied name in between: the regeneration's rename then fails and the notes are
  lost.
- Notes written while a regeneration talks to its server are lost (read before the
  connection, `:56`), and each regeneration adds a newline to those it keeps.
- Two tools whose names are the same in kebab case share a command file; the
  name to install under is not held against the rule that the manifest has for names.
- The client is not closed when `listTools` fails (`:93`).
- A session that discovers a spore while it is regenerated may take manifest, body
  and commands from two installations; `FoundIsWhole` says that this is the only way.
  A boot with a pin ends with an error when the SKILL.md goes between discovery and
  germination (`bootSpores.ts:53`).
- A `call_timeout_ms` above the SDK's default of 60 s is cut to that
  (`McpClient.ts:246`), as the SDK's own timer fires first.
- What is logged after the flush of the end of a session may not reach the file.

*Deadlock* is not checked: sessions end, prompts are not forced and jobs may
have no worker, so the systems really stop.

*Fairness.* `BashDispatch!FairSpec`: the event loop runs pending handlers (exit
events, timers, resumed awaits), BullMQ serves its queue and runs its stalled
check, timers fire. Not assumed: that a command ends by itself, that a user
answers, that a process dies, that a lingering child lets go.
`ReactLoop!FairSpec`: the loop continues, streams end (the HTTP response ends or
errors) and tools return. A bash call may hang after a
crash (above); `TurnEnds` is about the loop itself.
`SporeSession!FairSpec`: local files and the closing of a server return
(the SDK ends in SIGKILL), the initialisation timer, the SDK's request timeout and
that of a call fire. Not assumed: that a server answers, or dies, or that a user
answers a prompt; `CommandEnds` therefore excepts `asking`.
`SporeBoot!FairSpec`: an installation's file operations return or fail and its timers
fire. Not assumed: that the server answers, that anyone installs, edits or kills.
`SessionLogger!LoggerFairSpec`: the chain's promises run, appends return or fail, and `main`
goes on from the flush.
`Subagent!SubagentFairSpec`: the event loop of the orchestrator and its timers run, and
SIGKILL kills. Not assumed: that the subagent makes progress or obeys SIGTERM.

## 4. Proofs

`BashDispatch_proofs` (all constants arbitrary under `Assumptions`): `TypeCorrect`,
`TrackingCorrect`, `VetoCorrect`, `OneLiveCorrect`, `ExecutionsCorrect` and the
refinement `DispatchKeepsPromise`. The inductive invariant `IInv` adds to the
checked invariants what they lean on: an unfinished job has attempts left
(`AttemptsInv`, which `TypeOK` needs), a session has one open call (the loop is
sequential), registered calls wait (`TrackedWait`), exactly active jobs are locked,
by a started worker (`LockInv`), a live bash process of a live worker belongs to the
job that worker holds, or could not be killed and its job has completed (`RunInv`), and
answers agree with Redis and a completed job with a worker that is done with it, by a close or
an error (`AnswerInv`).
`OneLiveExecution` then follows from `RunInv`, since a job has one lock holder.
`ExecutionsCorrect` leans on `Counted`: a waiting job has been started at most once
per recovery, an active one once more, by the worker that holds it. The refinement
is proved step by step: a step that settles a call is a `Report` (`AnswerStep`), the
steps of a job start or end a run, give it up or stutter, and a worker's exit changes the answer
of at most the one open call.

`Session_proofs`, the loop (`ReactLoop`): `LoopTypeCorrect`, `AnsweredCorrect`,
`FlashCorrect`, `OfferedCorrect` from `LoopInvariant`. `AnsweredExcept` generalises the
pairing of calls and results to a history with open calls; the lemmas `AppendTurn` and
`AppendResult` say how a turn opens and a result answers them. `ReasoningWithCalls`
makes the latch of `hasRetainedReasoning` complete, `ActiveIsOffered` relates the
registry and the allowlist to the offer, and `AnsweredNow` keeps a germination in sight.

`Session_proofs`, the log (`AgentSession`): `SessionInvariant`, and from it
`SessionAnswered` (no history with an open call is sent, however often the session has
crashed and been resumed, until a result is lost) and `LogCorrect` (`LogTracksHistory`), for
whatever a crash may leave of a line. `LogInv` is about three
things that are written at different times. `LogIsCurrent`: the messages read back from
the lines are the history up to the flush cursor, but for a gap of at most two behind
those the process was started with (`loaded`): the first it has logged, which is a user's, and the last it was
started with, where the line of that lacked its newline. There is one gap at most, because a
process that resumes onto a torn line sets its cursor to what it has read. `TurnLogged`: the cursor is at the end at every
prompt and nowhere else is anything written. `RecordAnswered`: until a result is lost, the log never
has results that answer something else (`AnsweredSoFar`), so what `isSafeToResume` looks at, the
last turn with calls, decides about all of it. `TranscriptIsCurrent`: the `.md` holds exactly the
messages from `loaded` up to the cursor, or one more while a line is written; `MessagesWellFormed` says that no
message but an assistant's makes calls; `LoopRuns` gives each process
`LoopShape`, the loop's invariant without the answered calls, which a resumed history
has to satisfy again (`ResumeKeeps`).

`Session_proofs`, the screen (`ReplScreen`): `ScreenKeepsLoop`, the screen with its
commands and approvals implements `ReactLoop` (every step is one of the loop or changes
nothing of it), so the loop's theorems hold there too; `HeardCorrect` and
`AnswerableCorrect` from `ScreenInv`, which adds that what the REPL awaits, where the
loop is and what is mounted go together (`PhasesAgree`): a redraw that clears the
approvals happens only where no tool runs. `LiveRegionCorrect` adds `RegionInv`: an id
is used once, so that no result answers a call still in the batch (`IdsFresh`);
buffers and screen are empty where a request starts (`TextsOfRequest`); and the cards
go with the turn (`CardsOfTurn`). A result settles the card of its call and no other
(`CardsOnResult`), a turn adds cards that nothing has answered (`CardsOnTurn`).
`ResumeShowsSeen` (`TurnsAsResumed`) adds `TurnsInv`: what the user typed for the running turn was
sent as the last user message, as it is or as the body of a command, and as none before (`PromptOfTurn`), and what has been seen,
without commands and notices, is what `buildTurnsFromHistory` makes of the history, or
will be once the turn that is done is added (`TurnsMatch`). Of the messages appended to
a history only an answer without calls adds a rebuilt turn (`BuildsOn`), the one the
screen adds (`SeenAnswered`); a prompt without an answer adds none to either
(`SeenUnanswered`).

`QueryEngine_proofs`, the history and what compaction makes of it, for any
thresholds, tails and lengths of outputs: `EngineTypes`, `RequestsInOrder`
(`ResultsFollowCalls`), `NewestResultsSent` (`ResultsKept`: of the results that are no failure and not
read again later, those in the tail are sent unchanged, the last of a file as itself, cut short or as a placeholder), `PassesSettle`
(`PassesIdempotent`) and `BudgetHolds` (`SentWithinBudget`) from `EngineInvariant`. Its
`IInv`: one reply is answered at a time (`OneAtATime`), calls are numbered as they
were made (`Numbered`), each result comes behind its call and in its order (`InOrder`), and
a request is what the passes make of the history (`RequestOfHistory`). The passes are
described once, by where each message left has come from: a pass *descends* (`Descends`)
when it keeps the order, the answers and which call a result is of, and
*keeps* (`Keeps`) when tail and newest reads survive; each pass does both
(`PruneDescends`, `SnipDescends`, `InPlaceDescends`, `PruneKeeps`, `SnipKeeps`,
`MicroKeeps`) and so do three in a row, although each computes its tail on what the pass
before it left. That `snipDeadEnds` leaves its own result alone (`SnipIdempotent`) is the
hard one: its notes move the boundary of the tail, but it leaves the tail itself alone
(`SnipSparesTail`) and what is before the new boundary was before the old (`SnipTail`),
so no failure is dead that was not (`NoneDead`). Estimates are sums, so that dropping reasoning or a message never raises one
(`R2Shrinks`).

`Spores_proofs`, the session (`SporeSession`): `TypeCorrect`, `ActiveCorrect`, `WrappersCorrect`,
`ServersCorrect`, `BodyCorrect` (`OneBody`: replacing the body filters all others out,
`Replaced`). `PinCleared` adds that the
pin is already gone while the server of an unpinned spore ends; `Owned` and `NoneLeft` add
to `ServersOwned` where the process of a spore is at each await.

`Spores_proofs`, the subagent (`Subagent`): `GoneCorrect`, `AnswerCorrect` and `ResultsCorrect`. `CallInv` says which state
of the process and of the timers each state of the call allows; that the
response is written to its end before a good exit, and read before `close`, gives the rest: a
process that dies with it half written has not exited well.
`ConversationInv` follows the subagent's own loop: the calls it has left come behind
those whose results are in the conversation, in the order of the reply that made them.

`Files_proofs`, installations (`McpInstall`, `SporeBoot`; any set of installations, commands and notes): `BootCorrect` and
from it `TargetCorrect`, `NotesCorrect`, `FoundCorrect`. `InstallInv` adds what is
staged at each await (`Staged`), that only a regeneration in its removal, or stopped
there, has torn the target (`Torn`), and where the notes are (`NotesRead`);
`BootInv` adds what the session has read at each await (`ReadSoFar`) and that it is
what is there as long as nothing has changed the directory (`AsIs`). The many steps
of an installation come down to a few cases (gives up, installs, removes, other).

`Files_proofs`, the log (`SessionLogger`; any bursts): `LoggerCorrect`, `OrderCorrect`, `FlushCorrect`.
`Behind` says that what is queued was queued behind the links that have settled: a
link may find its entry taken by an earlier one, never by a later one. That is why
the flush, which awaits links, has awaited entries.

`ResponseStream_proofs` (any set of replies that satisfies `ReplyAssumptions`, any
bounds): `CallsDelivered` (`CallsIntact`) and `RepliesDelivered` (`ReplyDelivered`), from
`StreamInvariant`. What a parser has yielded says nothing by itself; `StreamInv` says what
it makes together with all that is still to come, layer by layer:

1. *Bytes* (`Carried`). Buffer and wire together carry a sequence `Q` of data: each
   stands behind its `data:`, and between two of them there is a gap, line ends of which
   an empty line is left wherever a chunk ends. `SseStream_proofs` shows that this is what
   a chunk with its normalised line ends keeps (CR at
   the end of one chunk and LF at the start of the next become two line ends, which does no
   harm where each event has one line of data), that the event cut off holds the first of `Q` or nothing, and that
   the rest carries the rest.
2. *Deltas* (`Slices`). `Q` is what the server has cut off its reply: the `n`-th begins
   where `at[n]` of each part has been sent, the last ends at `sent`, a finish_reason is
   followed by nothing but `[DONE]`, and no boundary is inside a `</param>` unless `cut`.
3. *Parser* (`Heard`). Of the first `at[1]` pieces, the part that has been handled, V4 has
   yielded a prefix of the meaning, and the rest of the meaning is *ahead* (`V4Inv`,
   `Channel`): `Ahead(ch, p, X, R)` says that parser `p` in front of `X`, its own buffer
   included, means `R`. It has a case for each place a parser can be at: in the text
   (`InText`), between calls (`InCalls`), between the parameters of a call (`InCall`) and in a
   value (`InValue`). Each pass of the loops of `feed` and `consumeBlockSegment` yields the
   first of `R` and leaves the rest ahead (`EmitContentPasses`, `OpenBlockPasses`, `ReadTagPasses`,
   `ReadValuePasses`, `EndParamPasses`, `AwaitTagPasses`, `SkipTextPasses`); here it matters that a search
   in the buffer finds what a search in all of `X` would find, or waits. For
   `ReadValuePasses` that is false of a buffer that ends between `<` and `/param>`, which is
   what `NoSplit` excludes and what `cut` excepts in the properties: a value takes the
   start of its own end marker. Of V3 the collected fragments are what the first `at[1]`
   of each call come to (`V3Inv`, `Gathers`). When the stream is `Ended`, both properties hold
   and nothing follows that could change them (`Settled`).

The meaning of a reply is built with `FlattenSeq`, so is its wire, and neither is unfolded
but by one section, call or parameter at a time (`FlattenFrom`).
`StreamInv` quantifies over all sequences `Q` and is beyond TLC; the properties are
what the run `stream` checks.
What is assumed: markers, call tags and parameter tags differ (`DsmlAssumptions`); a text
has no start of a block in it, which would be one, and a value no `&lt;` of its own, which
would go over the wire as `&amp;lt;` (`V4Text`); the calls of one V3 reply have different
ids, and their arguments are nothing or an object of which no proper prefix is one
(`WholeObject`; arguments that are no JSON are yielded as an error and mean nothing).

`SequenceLemmas`. The models filter with `FlattenSeq` of sequences of at most one
element and add with folds, both recursive in the library. Induction is available for a
property stated as a set of numbers (`Induct`, from the well-foundedness of `<`), and
that is enough to unfold them once: `FlattenUnits` says that a filter lists the
kept indices in increasing order (`Enumerates`), `EnumerationsAgree` that there is one such
list, `FlattenAppend` and `FlattenMore` what a filter does as the sequence grows,
`SetSumsArePrefixSums` that a fold with + is the last of its prefix sums, `FlattenFrom` and
`FlattenConcat` how a text is flattened part by part. The proofs of
the components cite these and unfold no recursion themselves.

Only model-checked:

- all liveness (`TrackedCallSettles`, `ClosingWorkerExits`, `TurnEnds`, `CommandEnds`,
  `InstallEnds`, `LogSettles`, `SubagentReturns`): it needs ENABLED, which the provers
  do not have.

## 5. Not modelled, and why

| part | reason |
|---|---|
| `ui/banner-art.ts` | 26,551 lines of ASCII art, three quarters of the repository's implementation lines. The map covers 35 % of the 8,544 others |
| `mcp/SchemaTranslator.ts`, `cli/parseSubcommand.ts` | pure functions from JSON schemas and argument vectors to text and records, without state; `McpInstall` has their result as a set of files |
| `security/redactor.ts`, `secretFileFilter.ts`, `dangerousPatterns.ts` | patterns over text; that they may match or not is a choice in `BashDispatch` and `ReplScreen` |
| file tools (`tools/readFile.ts`, `writeFile.ts`, `grep.ts`, `listDir.ts`) | one file operation each, no state kept; to the loop they are tools that return or fail, to the gate requests like any other |
| configuration and cost (`runtime/dotenv.ts`, `roleToModel.ts`, `cavemanMode.ts`, `costCalculator.ts`, `ui/onboarding.ts`) | look-ups and arithmetic that no later step depends on |
| `ui/markdown`, layout | rendering: the text so far is parsed from scratch each time, so that no state is left to be wrong |
| content and truncation of command output | data: the passes of `Compaction` know its length only |

`CallsAnswered` is about the history kept by the engine; the history as sent after
compaction is the subject of `QueryEngine`, where it fails (`wellformed`).

Every part of the program that keeps state over an await or over a call is now in
a module, and every invariant of a run that passes is proved. What is left to do:

1. A history as sent that is well-formed: `QueryEngine` shows what is wrong with it
   (`wellformed`). Two passes break it: `snipDeadEnds` replaces the results of a run of
   failures (`snipper.ts:32`) and the de-duplication of reads drops results
   (`toolOutputPruner.ts:24`), and both leave the assistant messages with their calls. Only when both
   keep or drop calls and results together can `RequestWellFormed` hold and be proved.

A module added to the plan is composed with a checked one where they interact,
so that a run keeps asking one question of the system.
