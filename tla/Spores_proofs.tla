--------------------------- MODULE Spores_proofs ----------------------------
(***************************************************************************)
(* Proofs about a session with spores and about the subagents it starts.   *)
(*                                                                         *)
(* SporeSession: for every set of spores and whatever their manifests, pin,*)
(* prompt, allowlist and wrappers agree across the awaits of a germination *)
(* and of an unpin.  Subagent: for loops and replies of any length, the    *)
(* answer of a call is what became of its process, and each request of a   *)
(* subagent carries the results of all its calls.                          *)
(***************************************************************************)
EXTENDS SporeSession, Subagent, SequenceLemmas, FiniteSetTheorems

-----------------------------------------------------------------------------
(* A session with spores                                                  *)

\* Every step keeps the types of all but the system sections; the spore an await is about has what it needs.
LEMMA StateStep == StateOK /\ [Next]_vars => StateOK'
<1> USE SporeAssumptions DEF StateOK, MaybeSpore
<1> USE DEF sporeVars, serverVars
<1> SUFFICES ASSUME StateOK, [Next]_vars PROVE StateOK'
  OBVIOUS
<1>1. ASSUME NEW s \in MaybeSpore PROVE Restriction(s) \in MaybeSpore
  BY DEF Restriction
<1>2. ASSUME NEW s \in McpSpores PROVE OneLess(s) \in [McpSpores -> Nat]
  BY DEF OneLess
<1>3. CASE Boot
  <2>1. entry' \in [McpSpores -> {"none", "live", "exited"}] BY <1>3 DEF Boot
  <2>2. PICK s \in MaybeSpore : SetActive(s) BY <1>3 DEF Boot
  <2>3. {active', shown', allowlist'} \subseteq MaybeSpore BY <1>1, <2>2 DEF SetActive
  <2> QED BY <1>3, <2>1, <2>3 DEF Boot
<1>4. CASE Submit BY <1>4 DEF Submit
<1>5. CASE TurnEnds BY <1>5 DEF TurnEnds
<1>6. CASE Leave BY <1>6 DEF Leave
<1>7. CASE SlashFails BY <1>7 DEF SlashFails
<1>8. ASSUME NEW s \in Spores, SlashPin(s) PROVE StateOK'
  BY <1>1, <1>8 DEF SlashPin, SwitchTo, SetActive
<1>9. CASE Unpin
  <2>1. CASE active \in McpSpores /\ entry[active] # "none"
    BY <1>9, <2>1 DEF Unpin
  <2>2. CASE ~(active \in McpSpores /\ entry[active] # "none")
    BY <1>1, <1>9, <2>2 DEF Unpin, SwitchTo, SetActive
  <2> QED BY <2>1, <2>2
<1>10. CASE Unpinned
  <2>1. procs' \in [McpSpores -> Nat] BY <1>2, <1>10 DEF Unpinned
  <2> QED BY <1>1, <1>10, <2>1 DEF Unpinned, SwitchTo, SetActive
<1>11. CASE TeardownAll BY <1>11 DEF TeardownAll
<1>12. CASE SessionEnds BY <1>12 DEF SessionEnds
<1>13. ASSUME NEW s \in Spores, Germinate(s) PROVE StateOK'
  <2>1. CASE s \notin McpSpores BY <1>13, <2>1 DEF Germinate
  <2>2. CASE s \in McpSpores BY <1>13, <2>2 DEF Germinate
  <2> QED BY <2>1, <2>2
<1>14. CASE Spawned BY <1>14 DEF Spawned
<1>15. CASE SpawnFails BY <1>2, <1>15 DEF SpawnFails
<1>16. CASE Listed BY <1>16 DEF Listed
<1>17. CASE ListFails BY <1>17 DEF ListFails
<1>18. CASE ReadBody BY <1>18 DEF ReadBody
<1>19. CASE WritePin BY <1>1, <1>19 DEF WritePin, SetActive
<1>20. ASSUME NEW s \in McpSpores, ServerDies(s) PROVE StateOK'
  BY <1>20 DEF ServerDies
<1>21. ASSUME NEW s \in McpSpores, ServerExitEvent(s) PROVE StateOK'
  BY <1>21 DEF ServerExitEvent
<1>22. CASE CallVetted \/ CallReturns \/ CallFails
  BY <1>22 DEF CallVetted, CallReturns, CallFails
<1>23. ASSUME NEW s \in McpSpores, CallTool(s) PROVE StateOK'
  BY <1>23 DEF CallTool
<1>24. CASE UNCHANGED vars BY <1>24 DEF vars
<1> QED
  BY <1>3, <1>4, <1>5, <1>6, <1>7, <1>8, <1>9, <1>10, <1>11, <1>12, <1>13, <1>14,
     <1>15, <1>16, <1>17, <1>18, <1>19, <1>20, <1>21, <1>22,
     <1>23, <1>24
  DEF Next, Command, Continue

\* The types hold in every reachable state.
THEOREM StateCorrect == Spec => []StateOK
<1>1. Init => StateOK
  BY SporeAssumptions DEF Init, StateOK, MaybeSpore
<1>2. StateOK /\ [Next]_vars => StateOK'
  BY StateStep
<1> QED BY <1>1, <1>2, PTL DEF Spec

-----------------------------------------------------------------------------
\* While the server of an unpinned spore is being ended, the session still runs that
\* spore but the pin is gone; nothing else runs that could write it.
PinCleared == phase = "unpinning" => pin = NoSpore

LEMMA ClearedStep ==
  ASSUME StateOK, PinCleared, [Next]_vars PROVE PinCleared'
<1> USE DEF PinCleared, sporeVars
<1>1. CASE Boot \/ (\E s \in Spores : SlashPin(s)) \/ Unpin
  BY <1>1 DEF Boot, SlashPin, Unpin
<1>2. CASE Submit \/ TurnEnds \/ Leave \/ SlashFails
  BY <1>2 DEF Submit, TurnEnds, Leave, SlashFails
<1>3. CASE Continue
  BY <1>3 DEF Continue, Unpinned, TeardownAll, SessionEnds, ReadBody, WritePin
<1>4. CASE \E s \in Spores : Germinate(s) BY <1>4 DEF Germinate
<1>5. CASE Spawned \/ SpawnFails \/ Listed \/ ListFails
  BY <1>5 DEF Spawned, SpawnFails, Listed, ListFails
<1>6. CASE \E s \in McpSpores : ServerDies(s) \/ ServerExitEvent(s)
  BY <1>6 DEF ServerDies, ServerExitEvent
<1>7. CASE (\E s \in McpSpores : CallTool(s)) \/ CallVetted \/ CallReturns \/ CallFails
  BY <1>7 DEF CallTool, CallVetted, CallReturns, CallFails
<1>8. CASE UNCHANGED vars BY <1>8 DEF vars
<1> QED BY <1>1, <1>2, <1>3, <1>4, <1>5, <1>6, <1>7, <1>8 DEF Next, Command

\* Of the steps that touch pin, active, allowlist or shown, a failed write leaves the
\* spore alone and can only empty the pin; every other one switches all four at once.
LEMMA SwitchStep ==
  ASSUME StateOK, PinCleared, OneActiveSpore, [Next]_vars PROVE OneActiveSpore'
<1> USE SporeAssumptions DEF StateOK, MaybeSpore, OneActiveSpore, Restriction, SetActive
<1> USE DEF sporeVars, serverVars
<1>1. CASE Boot BY <1>1 DEF Boot
<1>2. CASE \E s \in Spores : SlashPin(s) BY <1>2 DEF SlashPin, SwitchTo
<1>3. CASE SlashFails BY <1>3 DEF SlashFails
<1>4. CASE Unpin BY <1>4 DEF Unpin, SwitchTo
<1>5. CASE Unpinned BY <1>5 DEF Unpinned, SwitchTo, PinCleared
<1>6. CASE WritePin BY <1>6 DEF WritePin
<1>7. CASE Submit \/ TurnEnds \/ Leave \/ TeardownAll \/ SessionEnds \/ ReadBody
  BY <1>7 DEF Submit, TurnEnds, Leave, TeardownAll, SessionEnds, ReadBody
<1>8. CASE \E s \in Spores : Germinate(s) BY <1>8 DEF Germinate
<1>9. CASE Spawned \/ SpawnFails \/ Listed \/ ListFails
  BY <1>9 DEF Spawned, SpawnFails, Listed, ListFails
<1>10. CASE \E s \in McpSpores : ServerDies(s) \/ ServerExitEvent(s)
  BY <1>10 DEF ServerDies, ServerExitEvent
<1>11. CASE (\E s \in McpSpores : CallTool(s)) \/ CallVetted \/ CallReturns \/ CallFails
  BY <1>11 DEF CallTool, CallVetted, CallReturns, CallFails
<1>12. CASE UNCHANGED vars BY <1>12 DEF vars
<1> QED
  BY <1>1, <1>2, <1>3, <1>4, <1>5, <1>6, <1>7, <1>8, <1>9, <1>10, <1>11, <1>12
  DEF Next, Command, Continue

\* Pin file, active spore, enforced allowlist and the spore on the screen agree in every
\* session (germinate_spore.ts 193-206, index.ts 387-417, replSession.ts 206-228).
THEOREM ActiveCorrect == Spec => []OneActiveSpore
<1>1. Init => PinCleared /\ OneActiveSpore
  BY DEF Init, PinCleared, OneActiveSpore
<1>2. StateOK /\ PinCleared /\ OneActiveSpore /\ [Next]_vars => PinCleared' /\ OneActiveSpore'
  BY ClearedStep, SwitchStep
<1> QED BY <1>1, <1>2, StateCorrect, PTL DEF Spec

-----------------------------------------------------------------------------
\* Entry and wrappers go together: the only steps that take an entry from the Map while
\* the session runs are an unpin and the close event, and both take the wrappers too.
LEMMA WrapperStep ==
  ASSUME StateOK, WrappersServed, [Next]_vars PROVE WrappersServed'
<1> USE SporeAssumptions DEF StateOK, WrappersServed, sporeVars, serverVars
<1>1. CASE Boot BY <1>1 DEF Boot
<1>2. CASE Submit \/ TurnEnds \/ Leave \/ SlashFails \/ ReadBody \/ WritePin
  BY <1>2 DEF Submit, TurnEnds, Leave, SlashFails, ReadBody, WritePin
<1>3. CASE \E s \in Spores : SlashPin(s) \/ Germinate(s)
  BY <1>3 DEF SlashPin, Germinate
<1>4. CASE Unpin
  <2>1. CASE active \in McpSpores /\ entry[active] # "none" BY <1>4, <2>1 DEF Unpin
  <2>2. CASE ~(active \in McpSpores /\ entry[active] # "none") BY <1>4, <2>2 DEF Unpin
  <2> QED BY <2>1, <2>2
<1>5. CASE Unpinned \/ TeardownAll \/ SessionEnds
  BY <1>5 DEF Unpinned, TeardownAll, SessionEnds
<1>6. CASE Spawned BY <1>6 DEF Spawned
<1>7. CASE Listed BY <1>7 DEF Listed
<1>8. CASE SpawnFails \/ ListFails BY <1>8 DEF SpawnFails, ListFails
<1>9. ASSUME NEW s \in McpSpores, ServerDies(s) PROVE WrappersServed'
  BY <1>9 DEF ServerDies
<1>10. ASSUME NEW s \in McpSpores, ServerExitEvent(s) PROVE WrappersServed'
  BY <1>10 DEF ServerExitEvent
<1>11. CASE (\E s \in McpSpores : CallTool(s)) \/ CallVetted \/ CallReturns \/ CallFails
  BY <1>11 DEF CallTool, CallVetted, CallReturns, CallFails
<1>12. CASE UNCHANGED vars BY <1>12 DEF vars
<1> QED
  BY <1>1, <1>2, <1>3, <1>4, <1>5, <1>6, <1>7, <1>8, <1>9, <1>10, <1>11, <1>12
  DEF Next, Command, Continue

\* A registered wrapper of an MCP tool has a server in the Map of McpLifecycle
\* (germinate_spore.ts 128-183, mcpLifecycle.ts 169-182, bootTools.ts 254-270).
THEOREM WrappersCorrect == Spec => []WrappersServed
<1>1. Init => WrappersServed
  BY DEF Init, WrappersServed
<1>2. StateOK /\ WrappersServed /\ [Next]_vars => WrappersServed'
  BY WrapperStep
<1> QED BY <1>1, <1>2, StateCorrect, PTL DEF Spec

-----------------------------------------------------------------------------
\* No server outlives its session: SessionEnds has awaited the close of all.
NoneLeft == phase = "down" => \A s \in McpSpores : procs[s] = 0

Owned == NoneLeft /\ ServersOwned

\* A server is started only without an entry, so without a process; the process of an
\* entry is handed over to the await that ends it.
LEMMA OwnedStep ==
  ASSUME StateOK, Owned, [Next]_vars PROVE Owned'
<1> USE SporeAssumptions
    DEF StateOK, Owned, NoneLeft, ServersOwned, OneLess, sporeVars, serverVars
<1>1. CASE Boot BY <1>1 DEF Boot
<1>2. CASE Submit \/ TurnEnds \/ Leave \/ SlashFails \/ ReadBody \/ WritePin \/ ListFails
  BY <1>2 DEF Submit, TurnEnds, Leave, SlashFails, ReadBody, WritePin, ListFails
<1>3. ASSUME NEW s \in Spores, SlashPin(s) PROVE Owned'
  BY <1>3 DEF SlashPin
<1>4. ASSUME NEW s \in Spores, Germinate(s) PROVE Owned'
  <2>1. CASE s \in McpSpores /\ entry[s] = "none"
    <3>1. procs[s] = 0 BY <1>4, <2>1 DEF Germinate
    <3>2. procs' = [procs EXCEPT ![s] = 1] /\ phase' = "spawning" /\ target' = s
      BY <1>4, <2>1, <3>1 DEF Germinate
    <3> QED BY <1>4, <2>1, <3>2 DEF Germinate
  <2>2. CASE ~(s \in McpSpores /\ entry[s] = "none")
    BY <1>4, <2>2 DEF Germinate
  <2> QED BY <2>1, <2>2
<1>5. CASE Unpin
  <2>1. CASE active \in McpSpores /\ entry[active] # "none" BY <1>5, <2>1 DEF Unpin
  <2>2. CASE ~(active \in McpSpores /\ entry[active] # "none") BY <1>5, <2>2 DEF Unpin
  <2> QED BY <2>1, <2>2
<1>6. CASE Unpinned BY <1>6 DEF Unpinned
<1>7. CASE TeardownAll BY <1>7 DEF TeardownAll
<1>8. CASE SessionEnds BY <1>8 DEF SessionEnds
<1>9. CASE Spawned BY <1>9 DEF Spawned
<1>10. CASE SpawnFails BY <1>10 DEF SpawnFails
<1>11. CASE Listed BY <1>11 DEF Listed
<1>12. ASSUME NEW s \in McpSpores, ServerDies(s) PROVE Owned'
  BY <1>12 DEF ServerDies
<1>13. ASSUME NEW s \in McpSpores, ServerExitEvent(s) PROVE Owned'
  BY <1>13 DEF ServerExitEvent
<1>14. CASE CallVetted \/ CallReturns \/ CallFails
  BY <1>14 DEF CallVetted, CallReturns, CallFails
<1>15. ASSUME NEW s \in McpSpores, CallTool(s) PROVE Owned'
  BY <1>15 DEF CallTool
<1>16. CASE UNCHANGED vars BY <1>16 DEF vars
<1> QED
  BY <1>1, <1>2, <1>3, <1>4, <1>5, <1>6, <1>7, <1>8, <1>9, <1>10, <1>11, <1>12,
     <1>13, <1>14, <1>15, <1>16
  DEF Next, Command, Continue

\* A spore has at most one server process, which the lifecycle knows of
\* (mcpLifecycle.ts 119-189, 203-266).
THEOREM ServersCorrect == Spec => []ServersOwned
<1>1. Init => Owned
  BY DEF Init, Owned, NoneLeft, ServersOwned
<1>2. StateOK /\ Owned /\ [Next]_vars => Owned'
  BY OwnedStep
<1>3. Owned => ServersOwned
  BY DEF Owned
<1> QED BY <1>1, <1>2, <1>3, StateCorrect, PTL DEF Spec

-----------------------------------------------------------------------------
\* The sections with a germinated body.
Germinated(s) == {i \in DOMAIN s : s[i].body # NoSpore}

SectionsOK == sections \in Seq(Section) /\ OneBody

LEMMA AtMostOne ==
  ASSUME NEW S, NEW x, S \subseteq {x}
  PROVE  Cardinality(S) <= 1
<1>1. CASE S = {}
  <2>1. Cardinality(S) = 0 BY <1>1, FS_EmptySet
  <2> QED BY <2>1
<1>2. CASE S = {x}
  <2>1. Cardinality(S) = 1 BY <1>2, FS_Singleton
  <2> QED BY <2>1
<1> QED BY <1>1, <1>2

\* What replaceGerminatedSection leaves has no body but the one it brings.
LEMMA Replaced ==
  ASSUME sections \in Seq(Section), NEW section \in Section, ReplaceGerminated(section)
  PROVE  SectionsOK'
<1> DEFINE a == [i \in 1..Len(sections) |->
                   IF sections[i].body = NoSpore THEN <<sections[i]>> ELSE <<>>]
           left == FlattenSeq(a)
           n == Len(left)
           Plain == {x \in Section : x.body = NoSpore}
<1>1. Len(sections) \in Nat /\ \A i \in 1..Len(sections) : sections[i] \in Section
  OBVIOUS
<1>2. \A i \in 1..Len(sections) : a[i] = <<>> \/ \E x \in Plain : a[i] = <<x>>
  BY <1>1
<1>3. a \in Seq(Seq(Plain)) /\ Len(a) = Len(sections)
  <2>1. \A i \in 1..Len(sections) :
          (IF sections[i].body = NoSpore THEN <<sections[i]>> ELSE <<>>) \in Seq(Plain)
    BY <1>1
  <2> QED BY <1>1, <2>1
<1>4. sections' = Append(left, section) BY DEF ReplaceGerminated
<1> HIDE DEF a
<1>5. left \in Seq(Plain) BY <1>2, <1>3, FlattenUnits
<1> HIDE DEF left
<1>6. /\ n \in Nat /\ sections' \in Seq(Section)
      /\ DOMAIN sections' = 1..n+1
      /\ \A i \in 1..n : sections'[i].body = NoSpore
  <2>1. left \in Seq(Section) BY <1>5
  <2>2. sections' \in Seq(Section) /\ Len(sections') = n + 1 /\ n \in Nat BY <1>4, <2>1
  <2>3. \A i \in 1..n : sections'[i] = left[i] /\ left[i] \in Plain BY <1>4, <1>5
  <2>4. \A i \in 1..n : left[i].body = NoSpore BY <2>3
  <2> QED BY <2>2, <2>3, <2>4
<1>7. Germinated(sections') \subseteq {n + 1}
  <2>1. \A i \in 1..n+1 : i \in 1..n \/ i = n + 1 BY <1>6
  <2> QED BY <1>6, <2>1 DEF Germinated
<1>8. Cardinality(Germinated(sections')) <= 1 BY <1>7, AtMostOne
<1> QED BY <1>6, <1>8 DEF SectionsOK, OneBody, Germinated

LEMMA SectionsStep == ASSUME StateOK, SectionsOK, [Next]_vars PROVE SectionsOK'
<1> USE DEF sporeVars, serverVars
<1>1. sections \in Seq(Section) BY DEF SectionsOK
<1>2. SUFFICES ASSUME sections' # sections PROVE SectionsOK'
  BY DEF SectionsOK, OneBody
<1>3. \A s \in MaybeSpore : CommandsOf(s) \in MaybeSpore BY DEF CommandsOf, MaybeSpore
<1>4. ASSUME NEW s \in MaybeSpore, SwitchTo(s) PROVE SectionsOK'
  <2>1. [base |-> FALSE, body |-> NoSpore, commands |-> CommandsOf(s)] \in Section
    BY <1>3 DEF Section, MaybeSpore
  <2> QED BY <1>1, <1>4, <2>1, Replaced DEF SwitchTo
<1>5. CASE Boot
  <2>1. PICK s \in MaybeSpore :
          sections' = <<[base |-> TRUE, body |-> s, commands |-> CommandsOf(s)]>>
    BY <1>5 DEF Boot, MaybeSpore, StateOK
  <2> DEFINE x == [base |-> TRUE, body |-> s, commands |-> CommandsOf(s)]
  <2>2. x \in Section BY <1>3 DEF Section
  <2> HIDE DEF x
  <2>3. sections' = <<x>> BY <2>1 DEF x
  <2>4. sections' \in Seq(Section) /\ DOMAIN sections' = {1} BY <2>2, <2>3
  <2>5. Germinated(sections') \subseteq {1} BY <2>4 DEF Germinated
  <2>6. Cardinality(Germinated(sections')) <= 1 BY <2>5, AtMostOne
  <2> QED BY <2>4, <2>6 DEF SectionsOK, OneBody, Germinated
<1>6. CASE \E s \in Spores : SlashPin(s) BY <1>4, <1>6 DEF SlashPin, MaybeSpore
<1>7. CASE Unpin \/ Unpinned
  <2>1. NoSpore \in MaybeSpore BY DEF MaybeSpore
  <2>2. SwitchTo(NoSpore) BY <1>2, <1>7 DEF Unpin, Unpinned
  <2> QED BY <1>4, <2>1, <2>2
<1>8. CASE ReadBody
  <2>1. [base |-> FALSE, body |-> target, commands |-> NoSpore] \in Section
    BY DEF StateOK, Section, MaybeSpore
  <2>2. ReplaceGerminated([base |-> FALSE, body |-> target, commands |-> NoSpore])
    BY <1>2, <1>8 DEF ReadBody
  <2> QED BY <1>1, <2>1, <2>2, Replaced
<1>9. CASE Submit \/ TurnEnds \/ Leave \/ SlashFails \/ TeardownAll \/ SessionEnds \/ WritePin
  BY <1>2, <1>9 DEF Submit, TurnEnds, Leave, SlashFails, TeardownAll, SessionEnds, WritePin
<1>10. CASE (\E s \in Spores : Germinate(s)) \/ Spawned \/ SpawnFails \/ Listed \/ ListFails
  BY <1>2, <1>10 DEF Germinate, Spawned, SpawnFails, Listed, ListFails
<1>11. CASE \E s \in McpSpores : ServerDies(s) \/ ServerExitEvent(s) \/ CallTool(s)
  BY <1>2, <1>11 DEF ServerDies, ServerExitEvent, CallTool
<1>12. CASE CallVetted \/ CallReturns \/ CallFails
  BY <1>2, <1>12 DEF CallVetted, CallReturns, CallFails
<1>13. CASE UNCHANGED vars BY <1>2, <1>13 DEF vars
<1> QED BY <1>5, <1>6, <1>7, <1>8, <1>9, <1>10, <1>11, <1>12, <1>13 DEF Next, Command, Continue

LEMMA SectionsCorrect == Spec => []SectionsOK
<1>1. Init => SectionsOK
  <2> SUFFICES ASSUME Init PROVE SectionsOK
    OBVIOUS
  <2>1. sections = <<>> BY DEF Init
  <2>2. sections \in Seq(Section) /\ DOMAIN sections = {} BY <2>1
  <2>3. Germinated(sections) \subseteq {1} BY <2>2 DEF Germinated
  <2>4. Cardinality(Germinated(sections)) <= 1 BY <2>3, AtMostOne
  <2> QED BY <2>2, <2>4 DEF SectionsOK, OneBody, Germinated
<1>2. StateOK /\ SectionsOK /\ [Next]_vars => SectionsOK' BY SectionsStep
<1> QED BY <1>1, <1>2, StateCorrect, PTL DEF Spec

\* The prompt holds the body of one spore at most, over every order of boots, pins,
\* unpins and germinations (QueryEngine.replaceGerminatedSection).
THEOREM BodyCorrect == Spec => []OneBody
<1>1. SectionsOK => OneBody BY DEF SectionsOK
<1> QED BY <1>1, SectionsCorrect, PTL

\* Every variable has its type, the system sections too.
THEOREM TypeCorrect == Spec => []TypeOK
<1>1. StateOK /\ SectionsOK => TypeOK BY DEF SectionsOK, TypeOK
<1> QED BY <1>1, StateCorrect, SectionsCorrect, PTL

-----------------------------------------------------------------------------
(* A call of spawn_subagent                                                *)

\* What the answer leans on: nothing runs before the process is started, only one that
\* wrote its response exits well, and the timer's flag is set with its signal.
CallInv ==
  /\ call \in {"lookup", "reading"} => child = "none" /\ ~timer /\ ~killTimer /\ ~timedOut
  /\ child = "exit0" => written = "response"
  /\ timedOut => signal # "none"

SubagentInv == CallInv /\ AnsweredWhenGone /\ AnswerIsChilds

LEMMA SubagentInvStep == SubagentInv /\ [SubagentNext]_subagentVars => SubagentInv'
<1> USE DEF CallInv, AnsweredWhenGone, AnswerIsChilds, Answers, Ended,
            callVars, childVars, loopVars
<1> SUFFICES ASSUME SubagentInv, [SubagentNext]_subagentVars PROVE SubagentInv'
  OBVIOUS
<1> USE DEF SubagentInv
<1>1. CASE FindPersona BY <1>1 DEF FindPersona
<1>2. CASE Spawn
  <2>1. call = "reading" /\ child = "none" /\ ~killTimer /\ ~timedOut BY <1>2 DEF Spawn
  <2>2. UNCHANGED <<killTimer, timedOut, received, signal, written>> BY <1>2 DEF Spawn
  <2>3. CASE call' = "threw" BY <1>2, <2>1, <2>2, <2>3 DEF Spawn
  <2>4. CASE call' = "running" BY <1>2, <2>1, <2>2, <2>4 DEF Spawn
  <2> QED BY <1>2, <2>3, <2>4 DEF Spawn
<1>3. CASE SpawnFailed BY <1>3 DEF SpawnFailed
<1>4. CASE Timeout BY <1>4 DEF Timeout
<1>5. CASE Kill BY <1>5 DEF Kill
<1>6. CASE StdoutData BY <1>6 DEF StdoutData
<1>7. CASE Close BY <1>7 DEF Close, AnswerOf
<1>8. CASE OrchestratorDies BY <1>8 DEF OrchestratorDies
<1>9. CASE ReadRequest BY <1>9 DEF ReadRequest
<1>10. CASE StreamEnds BY <1>10 DEF StreamEnds
<1>11. CASE ToolReturns BY <1>11 DEF ToolReturns
<1>12. CASE Respond BY <1>12 DEF Respond
<1>15. CASE WritePart BY <1>15 DEF WritePart
<1>13. CASE ChildDies BY <1>13 DEF ChildDies
<1>14. CASE UNCHANGED subagentVars BY <1>14 DEF subagentVars
<1> QED
  BY <1>1, <1>2, <1>3, <1>4, <1>5, <1>6, <1>7, <1>8, <1>9, <1>10, <1>11, <1>12,
     <1>13, <1>14, <1>15
  DEF SubagentNext

\* What the parent knows of the call and what the process is go together at every await
\* (childProcessSpawn.ts 43-120).
THEOREM SubagentCorrect == SubagentSpec => []SubagentInv
<1>1. SubagentInit => SubagentInv
  BY DEF SubagentInit, SubagentInv, CallInv, AnsweredWhenGone, AnswerIsChilds, Answers
<1> QED BY <1>1, SubagentInvStep, PTL DEF SubagentSpec

\* An answered call has no process and no timer (childProcessSpawn.ts 76-100).
THEOREM GoneCorrect == SubagentSpec => []AnsweredWhenGone
<1>1. SubagentInv => AnsweredWhenGone BY DEF SubagentInv
<1> QED BY <1>1, SubagentCorrect, PTL

\* The answer tells what became of the process (childProcessSpawn.ts 81-123).
THEOREM AnswerCorrect == SubagentSpec => []AnswerIsChilds
<1>1. SubagentInv => AnswerIsChilds BY DEF SubagentInv
<1> QED BY <1>1, SubagentCorrect, PTL

-----------------------------------------------------------------------------
(* The conversation                                                        *)

Message == {[role |-> "system"], [role |-> "user"], Assistant} \cup {Result(id) : id \in Nat}

\* The calls of the reply to request s have the ids behind this one.
Base(s) == s * MaxBatch

LEMMA BaseNat == \A s \in Nat : Base(s) \in Nat
  BY SubagentAssumptions DEF Base

\* The last k messages of m are the results of the first k calls of the reply to request
\* s, behind the message of that reply.
ResultsOf(m, s, k) ==
  /\ k + 1 <= Len(m)
  /\ m[Len(m) - k] = Assistant
  /\ \A i \in 1..k : m[Len(m) - k + i] = Result(Base(s) + i)

\* The calls that are left when those before have a result, of n of the reply to
\* request s.
CallsLeft(p, s, n) ==
  /\ Len(p) \in 1..n
  /\ \A i \in 1..Len(p) : p[i] = Base(s) + (n - Len(p)) + i

\* While the calls of a reply are run, those that are left follow those with a result.
RunSoFar ==
  runner = "tools" =>
    \E n \in 1..MaxBatch :
      CallsLeft(pending, step, n) /\ ResultsOf(messages, step, n - Len(pending))

\* Before the first request nothing has been said.
Unsaid ==
  call \in {"lookup", "reading"} \/ runner = "request" => step = 0 /\ pending = <<>>

Answered ==
  runner = "streaming" /\ step > 0 => \E n \in 1..MaxBatch : ResultsOf(messages, step - 1, n)

ConversationInv ==
  /\ step \in Nat
  /\ messages \in Seq(Message)
  /\ pending \in Seq(Nat)
  /\ call \in {"lookup", "reading"} => runner = "off"
  /\ Unsaid /\ RunSoFar /\ Answered

LEMMA ReplyOpens ==
  ASSUME NEW m \in Seq(Message), NEW s \in Nat
  PROVE  Append(m, Assistant) \in Seq(Message) /\ ResultsOf(Append(m, Assistant), s, 0)
<1>1. Assistant \in Message BY DEF Message
<1>2. /\ Append(m, Assistant) \in Seq(Message)
      /\ Len(Append(m, Assistant)) = Len(m) + 1
      /\ Append(m, Assistant)[Len(m) + 1] = Assistant
  BY <1>1, AppendProperties
<1>3. Len(m) \in Nat BY LenProperties
<1> QED BY <1>2, <1>3 DEF ResultsOf

LEMMA ResultFollows ==
  ASSUME NEW m \in Seq(Message), NEW s \in Nat, NEW k \in Nat, ResultsOf(m, s, k)
  PROVE  LET r == Result(Base(s) + k + 1) IN
         Append(m, r) \in Seq(Message) /\ ResultsOf(Append(m, r), s, k + 1)
<1> DEFINE r == Result(Base(s) + k + 1)
           a == Append(m, r)
<1>b. Base(s) \in Nat BY BaseNat
<1>1. Base(s) + k + 1 \in Nat BY <1>b
<1>2. r \in Message BY <1>1 DEF Message
<1>3. /\ a \in Seq(Message) /\ Len(a) = Len(m) + 1
      /\ \A i \in 1..Len(m) : a[i] = m[i]
      /\ a[Len(m) + 1] = r
  BY <1>2, AppendProperties
<1>4. Len(m) \in Nat BY LenProperties
<1> HIDE DEF a
<1>5. Len(a) - (k + 1) = Len(m) - k /\ Len(m) - k \in 1..Len(m)
  BY <1>3, <1>4 DEF ResultsOf
<1>6. a[Len(m) - k] = Assistant BY <1>3, <1>5 DEF ResultsOf
<1>7. ASSUME NEW i \in 1..(k + 1)
      PROVE  a[Len(m) - k + i] = Result(Base(s) + i)
  <2>1. CASE i = k + 1
    <3>1. Len(m) - k + i = Len(m) + 1 BY <2>1, <1>4
    <3>2. Base(s) + k + 1 = Base(s) + i BY <2>1, <1>b
    <3> QED BY <3>1, <3>2, <1>3
  <2>2. CASE i \in 1..k
    <3>1. Len(m) - k + i \in 1..Len(m) BY <2>2, <1>4, <1>5
    <3>2. m[Len(m) - k + i] = Result(Base(s) + i) BY <2>2 DEF ResultsOf
    <3> QED BY <3>1, <3>2, <1>3
  <2> QED BY <2>1, <2>2
<1>8. k + 1 + 1 <= Len(a) BY <1>3, <1>4 DEF ResultsOf
<1>9. ResultsOf(a, s, k + 1) BY <1>5, <1>6, <1>7, <1>8 DEF ResultsOf
<1> QED BY <1>3, <1>9 DEF a

LEMMA CallRuns ==
  ASSUME NEW p \in Seq(Nat), NEW s \in Nat, NEW n \in Nat, CallsLeft(p, s, n)
  PROVE  /\ Tail(p) \in Seq(Nat) /\ Len(Tail(p)) = Len(p) - 1 /\ Len(p) \in 1..n
         /\ Head(p) = Base(s) + (n - Len(p)) + 1
         /\ Tail(p) # <<>> => CallsLeft(Tail(p), s, n)
         /\ Tail(p) = <<>> => Len(p) = 1
<1>1. Len(p) \in 1..n /\ p # <<>>
  BY EmptySeq DEF CallsLeft
<1>2. /\ Tail(p) \in Seq(Nat) /\ Len(Tail(p)) = Len(p) - 1
      /\ \A i \in 1..Len(Tail(p)) : Tail(p)[i] = p[i + 1]
  BY <1>1, HeadTailProperties
<1>3. Head(p) = Base(s) + (n - Len(p)) + 1
  BY <1>1 DEF CallsLeft
<1>4. ASSUME Tail(p) = <<>> PROVE Len(p) = 1
  <2>1. Len(Tail(p)) = 0 BY <1>4, EmptySeq, Zenon
  <2> QED BY <2>1, <1>1, <1>2
<1>5. ASSUME Tail(p) # <<>> PROVE CallsLeft(Tail(p), s, n)
  <2>1. Len(Tail(p)) \in 1..n BY <1>1, <1>2, <1>5, EmptySeq
  <2>2. ASSUME NEW i \in 1..Len(Tail(p))
        PROVE  Tail(p)[i] = Base(s) + (n - Len(Tail(p))) + i
    <3>1. i + 1 \in 1..Len(p) BY <1>1, <1>2
    <3>2. Tail(p)[i] = p[i + 1] BY <1>2
    <3>3. p[i + 1] = Base(s) + (n - Len(p)) + (i + 1) BY <3>1 DEF CallsLeft
    <3>4. Base(s) \in Nat /\ Len(p) \in Nat BY BaseNat, <1>1
    <3>5. Base(s) + (n - Len(p)) + (i + 1) = Base(s) + (n - (Len(p) - 1)) + i BY <3>4
    <3> QED BY <3>2, <3>3, <3>5, <1>2
  <2> QED BY <2>1, <2>2 DEF CallsLeft
<1> QED BY <1>1, <1>2, <1>3, <1>4, <1>5

LEMMA ConversationStep == ConversationInv /\ [SubagentNext]_subagentVars => ConversationInv'
<1> USE SubagentAssumptions
<1> SUFFICES ASSUME ConversationInv, [SubagentNext]_subagentVars PROVE ConversationInv'
  OBVIOUS
<1>a. /\ step \in Nat /\ messages \in Seq(Message) /\ pending \in Seq(Nat)
      /\ call \in {"lookup", "reading"} => runner = "off"
      /\ Unsaid /\ RunSoFar /\ Answered
  BY DEF ConversationInv
<1>e. <<>> \in Seq(Nat)
  BY EmptySeq
<1> DEFINE Same == UNCHANGED <<runner, step, messages, pending>>
<1>1. ASSUME Same, call' \in {"lookup", "reading"} => call \in {"lookup", "reading"}
      PROVE  ConversationInv'
  BY <1>1, <1>a DEF ConversationInv, Unsaid, RunSoFar, Answered
\* A process that ends leaves its conversation.
<1>2. ASSUME runner' = "off", UNCHANGED <<step, messages, call>>,
             pending' = pending \/ pending' = <<>>
      PROVE  ConversationInv'
  <2>1. pending' \in Seq(Nat) BY <1>2, <1>a, <1>e
  <2>2. Unsaid' BY <1>2, <1>a DEF Unsaid
  <2>3. RunSoFar' /\ Answered' BY <1>2 DEF RunSoFar, Answered
  <2> QED BY <1>2, <1>a, <2>1, <2>2, <2>3 DEF ConversationInv
<1>3. CASE FindPersona
  BY <1>1, <1>3 DEF FindPersona, Same, loopVars
<1>4. CASE Spawn
  <2>1. call = "reading" /\ step = 0 /\ pending = <<>> BY <1>4, <1>a DEF Spawn, Unsaid
  <2>2. CASE call' = "threw" /\ UNCHANGED loopVars
    BY <1>1, <2>2 DEF Same, loopVars
  <2>3. CASE call' = "running" /\ runner' \in {"request", "off"}
             /\ UNCHANGED <<step, messages, pending>>
    BY <2>1, <2>3, <1>a DEF ConversationInv, Unsaid, RunSoFar, Answered
  <2> QED BY <1>4, <2>2, <2>3 DEF Spawn
<1>5. CASE SpawnFailed \/ Timeout \/ Kill \/ StdoutData \/ Close \/ OrchestratorDies
  <2>1. Same BY <1>5 DEF SpawnFailed, Timeout, Kill, StdoutData, Close, OrchestratorDies, loopVars
  <2>2. call' \notin {"lookup", "reading"} \/ call' = call
    BY <1>5 DEF SpawnFailed, Timeout, Kill, StdoutData, Close, OrchestratorDies, AnswerOf
  <2> QED BY <1>1, <2>1, <2>2
<1>6. CASE ReadRequest
  <2>1. step = 0 /\ pending = <<>> /\ UNCHANGED <<step, pending, call>>
    BY <1>6, <1>a DEF ReadRequest, Unsaid, callVars
  <2>2. call \notin {"lookup", "reading"} BY <1>6, <1>a DEF ReadRequest
  <2>3. runner' \in {"streaming", "failing"} BY <1>6 DEF ReadRequest
  <2>4. messages' \in Seq(Message)
    <3>1. <<[role |-> "system"], [role |-> "user"]>> \in Seq(Message) BY DEF Message
    <3> QED BY <1>6, <1>a, <3>1 DEF ReadRequest
  <2> QED
    BY <2>1, <2>2, <2>3, <2>4, <1>a DEF ConversationInv, Unsaid, RunSoFar, Answered
<1>7. CASE StreamEnds
  <2>1. PICK n \in 0..MaxBatch :
          /\ pending' = CallIds(n)
          /\ runner' = IF n = 0 THEN "responding" ELSE "tools"
    BY <1>7 DEF StreamEnds
  <2>2. messages' = Append(messages, Assistant) /\ UNCHANGED <<call, step>>
        /\ runner = "streaming"
    BY <1>7 DEF StreamEnds, callVars
  <2>3. messages' \in Seq(Message) /\ ResultsOf(messages', step, 0)
    BY <2>2, <1>a, ReplyOpens
  <2>4. pending' \in Seq(Nat) /\ Len(pending') = n
        /\ \A i \in 1..n : pending'[i] = Base(step) + i
    <3>1. pending' = [i \in 1..n |-> Base(step) + i] BY <2>1 DEF CallIds, Base
    <3>2. Base(step) \in Nat BY <1>a, BaseNat
    <3>3. \A i \in 1..n : Base(step) + i \in Nat BY <3>2
    <3> QED BY <3>1, <3>3
  <2>5. Unsaid' /\ Answered' BY <2>1, <2>2, <1>a DEF Unsaid, Answered
  <2>6. ASSUME n # 0 PROVE CallsLeft(pending', step, n) /\ n - Len(pending') = 0
    BY <2>4, <2>6, <1>a, BaseNat DEF CallsLeft
  <2>7. RunSoFar' BY <2>1, <2>2, <2>3, <2>6 DEF RunSoFar
  <2> QED BY <2>1, <2>2, <2>3, <2>4, <2>5, <2>7, <1>a DEF ConversationInv
<1>8. CASE ToolReturns
  <2>1. PICK n \in 1..MaxBatch :
          CallsLeft(pending, step, n) /\ ResultsOf(messages, step, n - Len(pending))
    BY <1>8, <1>a DEF ToolReturns, RunSoFar
  <2>2. /\ messages' = Append(messages, Result(Head(pending)))
        /\ pending' = Tail(pending)
        /\ UNCHANGED call /\ runner = "tools"
        /\ IF pending' = <<>> THEN NextStep ELSE UNCHANGED <<runner, step>>
    BY <1>8 DEF ToolReturns, callVars
  <2>3. /\ pending' \in Seq(Nat) /\ Len(pending') = Len(pending) - 1 /\ Len(pending) \in 1..n
        /\ Head(pending) = Base(step) + (n - Len(pending)) + 1
        /\ pending' # <<>> => CallsLeft(pending', step, n)
        /\ pending' = <<>> => Len(pending) = 1
    <3>1. n \in Nat OBVIOUS
    <3> QED BY <3>1, <2>1, <2>2, <1>a, CallRuns
  <2>4. n - Len(pending) \in Nat /\ n - Len(pending') = n - Len(pending) + 1
    BY <2>3
  <2>5. messages' \in Seq(Message) /\ ResultsOf(messages', step, n - Len(pending'))
    BY <2>1, <2>2, <2>3, <2>4, <1>a, ResultFollows
  <2>6. call \notin {"lookup", "reading"} BY <2>2, <1>a
  <2>7. CASE pending' = <<>>
    <3>0. Len(pending) = 1 /\ Len(pending') = 0 BY <2>3, <2>7
    <3>1. n - Len(pending') = n BY <3>0
    <3>2. step' \in Nat /\ step' - 1 = step /\ runner' \in {"streaming", "responding"}
      BY <2>2, <2>7, <1>a DEF NextStep
    <3>3. Answered' BY <2>5, <3>1, <3>2 DEF Answered
    <3>4. Unsaid' /\ RunSoFar' BY <2>2, <2>6, <3>2 DEF Unsaid, RunSoFar
    <3> QED BY <2>2, <2>3, <2>5, <2>6, <3>2, <3>3, <3>4 DEF ConversationInv
  <2>8. CASE pending' # <<>>
    <3>1. UNCHANGED <<runner, step>> BY <2>2, <2>8
    <3>2. RunSoFar' BY <2>3, <2>5, <2>8, <3>1 DEF RunSoFar
    <3>3. Unsaid' /\ Answered' BY <2>2, <2>6, <3>1 DEF Unsaid, Answered
    <3> QED BY <2>2, <2>3, <2>5, <2>6, <3>1, <3>2, <3>3, <1>a DEF ConversationInv
  <2> QED BY <2>7, <2>8
<1>9. CASE Respond
  BY <1>2, <1>9 DEF Respond, callVars
<1>10. CASE ChildDies
  BY <1>2, <1>10 DEF ChildDies, callVars
<1>12. CASE WritePart
  BY <1>1, <1>12 DEF WritePart, loopVars, callVars, Same
<1>11. CASE UNCHANGED subagentVars
  BY <1>1, <1>11 DEF subagentVars, loopVars, callVars, Same
<1> QED
  BY <1>3, <1>4, <1>5, <1>6, <1>7, <1>8, <1>9, <1>10, <1>11, <1>12 DEF SubagentNext

\* The results a request carries are those of all calls of the reply before it, in
\* order (subagentLoop.ts 140-162).
THEOREM ResultsCorrect == SubagentSpec => []ResultsComplete
<1>1. SubagentInit => ConversationInv
  BY EmptySeq DEF SubagentInit, ConversationInv, Unsaid, RunSoFar, Answered
<1>2. ConversationInv => ResultsComplete
  BY DEF ConversationInv, Answered, ResultsComplete, ResultsOf, Assistant, Base
<1> QED BY <1>1, <1>2, ConversationStep, PTL DEF SubagentSpec
=============================================================================
