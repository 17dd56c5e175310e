---------------------------- MODULE SporeSession ----------------------------
(***************************************************************************)
(* Which spore a session runs, and the MCP servers it keeps.                *)
(*                                                                         *)
(* A project's pin file names the spore a session boots with                *)
(* (src/spores/bootSpores.ts).  The model switches spores by                *)
(* germinate_spore (src/tools/germinate_spore.ts), the user by /spore pin   *)
(* and /spore unpin (src/runtime/replSession.ts, the onActiveSporeChange of *)
(* src/index.ts).  A switch reaches the pin file, the active spore, the     *)
(* tool allowlist, the UI and the sections of the system prompt.  The       *)
(* germination of an MCP spore also starts a server process, kept in the    *)
(* Map of src/runtime/mcpLifecycle.ts, and registers wrappers of its tools, *)
(* which ask the user for sensitive ones and then call the server;          *)
(* processes may die at any time, which is seen when the close event of     *)
(* their transport runs (src/mcp/McpClient.ts).                             *)
(***************************************************************************)
EXTENDS Integers, FiniteSets, SequencesExt

CONSTANTS Spores,       \* the spores that can be discovered
          McpSpores,    \* those with an mcp_server in their manifest
          Restricting,  \* those with allowed_tools in their manifest
          Commanding,   \* those with slash commands
          NoSpore,
          MaxSections   \* bound: sections of the system prompt when the user pins

ASSUME SporeAssumptions ==
  /\ McpSpores \subseteq Spores /\ Restricting \subseteq Spores /\ Commanding \subseteq Spores
  /\ NoSpore \notin Spores
  /\ MaxSections \in Nat

VARIABLES
  phase,      \* where the session is, and whether there is one
  target,     \* the spore being germinated, or whose server is called or being torn down
  registry,   \* SporeRegistry: empty under --no-spore
  pin,        \* the pin file; NoSpore when it is absent or names no spore
  active,     \* activeSpore of index.ts
  allowlist,  \* the spore whose allowed_tools the registry enforces
  shown,      \* uiActiveSpore of index.ts
  sections,   \* QueryEngine.systemSections
  entry,      \* McpLifecycle._active: no entry, one with a live process, or a dead one
  wrappers,   \* the spores whose wrappers are in the tool registry
  procs       \* how many server processes of each spore run

sporeVars == <<registry, pin, active, allowlist, shown, sections>>
serverVars == <<entry, wrappers, procs>>
vars == <<phase, target, sporeVars, serverVars>>

MaybeSpore == Spores \cup {NoSpore}
Section == [base : BOOLEAN, body : MaybeSpore, commands : MaybeSpore]

\* All but the system sections: what the theorems rest on.
StateOK ==
  /\ phase \in {"down", "prompt", "turn", "spawning", "listing", "reading", "pinning",
                "asking", "calling", "unpinning", "flushing", "closing"}
  /\ target \in MaybeSpore
  /\ phase \in {"spawning", "listing", "asking", "calling", "unpinning"} => target \in McpSpores
  /\ phase \in {"reading", "pinning"} => target \in Spores
  /\ registry \subseteq Spores
  /\ {pin, active, allowlist, shown} \subseteq MaybeSpore
  /\ entry \in [McpSpores -> {"none", "live", "exited"}]
  /\ wrappers \subseteq McpSpores
  /\ procs \in [McpSpores -> Nat]

TypeOK == StateOK /\ sections \in Seq(Section)

Init ==
  /\ phase = "down"
  /\ target = NoSpore
  /\ registry = {}
  /\ pin \in MaybeSpore
  /\ active = NoSpore /\ allowlist = NoSpore /\ shown = NoSpore
  /\ sections = <<>>
  /\ entry = [s \in McpSpores |-> "none"]
  /\ wrappers = {}
  /\ procs = [s \in McpSpores |-> 0]

-----------------------------------------------------------------------------
(* What a switch of spores does                                            *)

\* setActiveSpore: a spore without allowed_tools lifts the restriction.
Restriction(s) == IF s \in Restricting THEN s ELSE NoSpore

\* composeSystemSections, as far as it depends on the active spore.
CommandsOf(s) == IF s \in Commanding THEN s ELSE NoSpore

\* Mutant of ReplaceGerminated: the section is appended.
AppendSection(section) == sections' = Append(sections, section)

\* replaceGerminatedSection: every section with a germinated body goes, whatever
\* else it holds.
ReplaceGerminated(section) ==
  LET kept(x) == IF x.body = NoSpore THEN <<x>> ELSE <<>>
  IN sections' = Append(FlattenSeq([i \in 1..Len(sections) |-> kept(sections[i])]), section)

\* Mutant of SetActive: the allowlist of the spore before stays.
SetActiveAlone(s) ==
  /\ active' = s
  /\ shown' = s
  /\ UNCHANGED allowlist

SetActive(s) ==
  /\ active' = s
  /\ shown' = s
  /\ allowlist' = Restriction(s)

\* onActiveSporeChange, after a slash command.
SwitchTo(s) ==
  /\ SetActive(s)
  /\ ReplaceGerminated([base |-> FALSE, body |-> NoSpore, commands |-> CommandsOf(s)])

\* One process of s is gone, when there is one.
OneLess(s) == [procs EXCEPT ![s] = IF @ > 0 THEN @ - 1 ELSE 0]

-----------------------------------------------------------------------------
(* The session                                                             *)

\* bootSpores and main: the prompt starts as one section.
Boot ==
  /\ phase = "down"
  /\ registry' \in {{}, Spores}
  /\ LET s == IF pin \in registry' THEN pin ELSE NoSpore IN
     /\ SetActive(s)
     /\ sections' = <<[base |-> TRUE, body |-> s, commands |-> CommandsOf(s)]>>
  /\ phase' = "prompt"
  /\ entry' = [s \in McpSpores |-> "none"]
  /\ wrappers' = {}
  /\ UNCHANGED <<target, pin, procs>>

Submit ==
  /\ phase = "prompt"
  /\ phase' = "turn"
  /\ UNCHANGED <<target, sporeVars, serverVars>>

TurnEnds ==
  /\ phase = "turn"
  /\ phase' = "prompt"
  /\ UNCHANGED <<target, sporeVars, serverVars>>

\* /quit, or an error nobody catches in a turn: the finally of main.
Leave ==
  /\ phase \in {"prompt", "turn"}
  /\ phase' = "flushing"
  /\ UNCHANGED <<target, sporeVars, serverVars>>

\* /spore pin s.
SlashPin(s) ==
  /\ phase = "prompt"
  /\ s \in registry
  /\ Len(sections) < MaxSections
  /\ pin' = s
  /\ SwitchTo(s)
  /\ UNCHANGED <<phase, target, registry, serverVars>>

\* Writing or removing the pin throws: the session ends; the file may be empty.
SlashFails ==
  /\ phase = "prompt"
  /\ pin' \in {pin, NoSpore}
  /\ phase' = "flushing"
  /\ UNCHANGED <<target, registry, active, allowlist, shown, sections, serverVars>>

\* /spore unpin: teardownMcpSpore removes the wrappers and the entry of the active
\* spore and awaits the end of its server, if it has one.
Unpin ==
  /\ phase = "prompt"
  /\ Len(sections) < MaxSections
  /\ pin' = NoSpore
  /\ wrappers' = wrappers \ {active}
  /\ IF active \in McpSpores /\ entry[active] # "none"
       THEN /\ entry' = [entry EXCEPT ![active] = "none"]
            /\ target' = active
            /\ phase' = "unpinning"
            /\ UNCHANGED <<active, allowlist, shown, sections>>
       ELSE /\ SwitchTo(NoSpore)
            /\ UNCHANGED <<phase, target, entry>>
  /\ UNCHANGED <<registry, procs>>

\* client.close() has ended the server: by EOF, SIGTERM or SIGKILL.
Unpinned ==
  /\ phase = "unpinning"
  /\ procs' = OneLess(target)
  /\ SwitchTo(NoSpore)
  /\ phase' = "prompt"
  /\ UNCHANGED <<target, registry, pin, entry, wrappers>>

\* Mutant of TeardownAll: only the server of the active spore is ended.
TeardownActive ==
  /\ phase = "flushing"
  /\ entry' = [s \in McpSpores |-> "none"]
  /\ procs' = [s \in McpSpores |-> IF s = active THEN 0 ELSE procs[s]]
  /\ phase' = "down"
  /\ UNCHANGED <<target, sporeVars, wrappers>>

\* teardownAll empties the Map and closes every client it held.
TeardownAll ==
  /\ phase = "flushing"
  /\ entry' = [s \in McpSpores |-> "none"]
  /\ phase' = "closing"
  /\ UNCHANGED <<target, sporeVars, wrappers, procs>>

\* Every close has settled; the worker is stopped and the process ends.
SessionEnds ==
  /\ phase = "closing"
  /\ procs' = [s \in McpSpores |-> 0]
  /\ phase' = "down"
  /\ UNCHANGED <<target, sporeVars, entry, wrappers>>

-----------------------------------------------------------------------------
(* germinate_spore, one step per await                                     *)

\* The handler up to its first await: an MCP spore without an entry is spawned.
Germinate(s) ==
  /\ phase = "turn"
  /\ s \in registry
  /\ target' = s
  /\ IF s \notin McpSpores
       THEN phase' = "reading" /\ UNCHANGED procs
     ELSE IF entry[s] # "none"
       THEN phase' = "listing" /\ UNCHANGED procs
       ELSE phase' = "spawning" /\ procs' = [procs EXCEPT ![s] = @ + 1]
  /\ UNCHANGED <<sporeVars, entry, wrappers>>

\* initialize() has returned: the exit listener is set and the entry made, maybe for
\* a server that has died since it answered.
Spawned ==
  /\ phase = "spawning"
  /\ entry' = [entry EXCEPT ![target] = IF procs[target] > 0 THEN "live" ELSE "exited"]
  /\ phase' = "listing"
  /\ UNCHANGED <<target, sporeVars, wrappers, procs>>

\* Mutant of SpawnFails: only the death of the server ends the initialisation.
SpawnFailsOnExit ==
  /\ phase = "spawning"
  /\ procs[target] = 0
  /\ phase' = "turn"
  /\ UNCHANGED <<target, sporeVars, serverVars>>

\* initialize() fails or times out, and closes the transport.
SpawnFails ==
  /\ phase = "spawning"
  /\ procs' = OneLess(target)
  /\ phase' = "turn"
  /\ UNCHANGED <<target, sporeVars, entry, wrappers>>

\* The tools are listed, by a server that may have died since it answered, and
\* their wrappers registered where they are missing.
Listed ==
  /\ phase = "listing"
  /\ entry[target] # "none"
  /\ wrappers' = wrappers \cup {target}
  /\ phase' = "reading"
  /\ UNCHANGED <<target, sporeVars, entry, procs>>

\* listTools rejects: the server answers with an error, is gone, or takes too long.
ListFails ==
  /\ phase = "listing"
  /\ phase' = "turn"
  /\ UNCHANGED <<target, sporeVars, serverVars>>

\* The body of SKILL.md takes the place of the germinated section, or the read throws.
ReadBody ==
  /\ phase = "reading"
  /\ \/ /\ ReplaceGerminated([base |-> FALSE, body |-> target, commands |-> NoSpore])
        /\ phase' = "pinning"
     \/ /\ phase' = "turn"
        /\ UNCHANGED sections
  /\ UNCHANGED <<target, registry, pin, active, allowlist, shown, serverVars>>

\* The pin is written, the UI told and the spore active; or the write throws and
\* the call fails with the body in the prompt.
WritePin ==
  /\ phase = "pinning"
  /\ \/ pin' = target /\ SetActive(target)
     \/ pin' \in {pin, NoSpore} /\ UNCHANGED <<active, allowlist, shown>>
  /\ phase' = "turn"
  /\ UNCHANGED <<target, registry, sections, serverVars>>

-----------------------------------------------------------------------------
(* The wrapper of an MCP tool                                              *)

\* The model calls a tool of s; for one of its sensitive_tools the user is asked first.
CallTool(s) ==
  /\ phase = "turn"
  /\ s \in wrappers
  /\ target' = s
  /\ phase' \in {"asking", "calling"}
  /\ UNCHANGED <<sporeVars, serverVars>>

\* The user rejects the call, or approves it: by then the server, and with it the
\* wrapper, may be gone.
CallVetted ==
  /\ phase = "asking"
  /\ phase' \in {"turn", "calling"}
  /\ UNCHANGED <<target, sporeVars, serverVars>>

CallReturns ==
  /\ phase = "calling"
  /\ procs[target] > 0
  /\ phase' = "turn"
  /\ UNCHANGED <<target, sporeVars, serverVars>>

\* The client is faulted, the connection closes or the timeout wins the race; the server
\* may go on with the call, and stays.
CallFails ==
  /\ phase = "calling"
  /\ phase' = "turn"
  /\ UNCHANGED <<target, sporeVars, serverVars>>

-----------------------------------------------------------------------------
(* Server processes                                                        *)

ServerDies(s) ==
  /\ procs[s] > 0
  /\ procs' = [procs EXCEPT ![s] = @ - 1]
  /\ entry' = [entry EXCEPT ![s] = IF @ = "live" THEN "exited" ELSE @]
  /\ UNCHANGED <<phase, target, sporeVars, wrappers>>

\* Mutant of ServerExitEvent: the Map forgets the server, the registry does not.
ServerExitKeepingWrappers(s) ==
  /\ phase # "down"
  /\ entry[s] = "exited"
  /\ entry' = [entry EXCEPT ![s] = "none"]
  /\ UNCHANGED <<phase, target, sporeVars, wrappers, procs>>

\* The transport's close event: the entry goes, and with it, at once, the wrappers.
ServerExitEvent(s) ==
  /\ phase # "down"
  /\ entry[s] = "exited"
  /\ entry' = [entry EXCEPT ![s] = "none"]
  /\ wrappers' = wrappers \ {s}
  /\ UNCHANGED <<phase, target, sporeVars, procs>>

-----------------------------------------------------------------------------

Command == Boot \/ Submit \/ TurnEnds \/ Leave \/ SlashFails \/ Unpin \/ \E s \in Spores : SlashPin(s)

Continue == Unpinned \/ TeardownAll \/ SessionEnds \/ ReadBody \/ WritePin

Next ==
  \/ Command
  \/ Continue
  \/ \E s \in Spores : Germinate(s)
  \/ Spawned \/ SpawnFails \/ Listed \/ ListFails
  \/ CallVetted \/ CallReturns \/ CallFails
  \/ \E s \in McpSpores : CallTool(s) \/ ServerDies(s) \/ ServerExitEvent(s)

Spec == Init /\ [][Next]_vars

\* Timers fire and the awaits of local files return; a server need not answer.
Fairness ==
  WF_vars(Continue) /\ WF_vars(SpawnFails) /\ WF_vars(ListFails) /\ WF_vars(CallFails)

FairSpec == Spec /\ Fairness

-----------------------------------------------------------------------------
(* Properties                                                              *)

\* Whatever germinations, pins and failed writes came before, the spore the session
\* runs, the one the user sees and the one whose allowed_tools are enforced are the
\* same, and the pin file makes the next session run it or none (index.ts 291-303,
\* 387-417).
OneActiveSpore ==
  phase # "down" =>
    /\ shown = active
    /\ allowlist = Restriction(active)
    /\ registry # {} => pin \in {active, NoSpore}

\* "at most one body section" (v1.5-mycelium-design.md, 5.1.6), over all germinations
\* and pins of a session booted with or without a pin.
OneBody == Cardinality({i \in DOMAIN sections : sections[i].body # NoSpore}) <= 1

\* While a session runs, a registered wrapper has a server in the Map: one whose
\* death was noticed has no wrapper the model could be offered.
WrappersServed ==
  phase \notin {"closing", "down"} => \A s \in wrappers : entry[s] # "none"

\* A spore has at most one server process, and the lifecycle knows of it: it is in
\* the Map, being started, or being closed; none is left when the session is over.
ServersOwned ==
  \A s \in McpSpores : procs[s] > 0 =>
    /\ procs[s] = 1
    /\ \/ entry[s] = "live"
       \/ phase \in {"spawning", "unpinning"} /\ s = target
       \/ phase = "closing"

\* Germination, the call of an MCP tool (once the user has agreed to it), unpinning and
\* the end of a session come to an end, whatever the server does or fails to do.
CommandEnds ==
  phase \in {"spawning", "listing", "reading", "pinning", "calling", "unpinning",
            "flushing", "closing"}
    ~> phase \in {"turn", "prompt", "down"}

\* "replaceGerminatedSection drops any prior germinated body before pushing the new
\* one" (index.ts 292): the base prompt stays.
BasePromptKept == phase # "down" => \E i \in DOMAIN sections : sections[i].base
=============================================================================
