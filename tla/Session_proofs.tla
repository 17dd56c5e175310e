---------------------------- MODULE Session_proofs ----------------------------
(***************************************************************************)
(* Proofs about a session: runReactLoop and the REPL (ReactLoop), the log   *)
(* and its resume (AgentSession) and the screen (ReplScreen), for every     *)
(* registry, allowlist and bound.  The log and the screen extend the loop   *)
(* and not each other: the invariant of each rests on that of the loop.     *)
(***************************************************************************)
EXTENDS AgentSession, ReplScreen, SequenceLemmas

-----------------------------------------------------------------------------
(* The loop                                                                *)

\* The call ids of a message in a history form a sequence of numbers.
LEMMA MessageCalls ==
  ASSUME NEW h \in Seq(Message), NEW i \in 1..Len(h)
  PROVE  h[i].calls \in Seq(Nat) /\ DOMAIN h[i].calls = 1..Len(h[i].calls)
<1>1. h[i] \in Message BY ElementOfSeq
<1>2. h[i].calls \in Seq(Nat) BY <1>1 DEF Message
<1> QED BY <1>2

\* A turn appended to a fully answered history opens exactly its own calls.
LEMMA AppendTurn ==
  ASSUME NEW h \in Seq(Message), AnsweredExcept(h, <<>>),
         NEW m \in Message, NEW todo \in Seq(Call), Len(todo) = Len(m.calls),
         \A k \in 1..Len(m.calls) : todo[k].id = m.calls[k]
  PROVE  AnsweredExcept(Append(h, m), todo)
<1> DEFINE g == Append(h, m)
<1>1. g \in Seq(Message) /\ Len(g) = Len(h) + 1 /\ DOMAIN g = 1..(Len(h) + 1)
      /\ g[Len(h) + 1] = m /\ \A i \in 1..Len(h) : g[i] = h[i]
  OBVIOUS
<1>2. \A i \in 1..Len(h) : DOMAIN h[i].calls = 1..Len(h[i].calls)
  BY MessageCalls
<1>3. DOMAIN m.calls = 1..Len(m.calls)
  BY DEF Message
<1>4. \A i \in 1..Len(h) : \A k \in 1..Len(h[i].calls) :
        i + k <= Len(h) /\ h[i + k].role = "tool" /\ h[i + k].re = h[i].calls[k]
  BY <1>2 DEF AnsweredExcept
<1> HIDE DEF g
<1>5. ASSUME NEW i \in DOMAIN g, NEW k \in DOMAIN g[i].calls
      PROVE  IF i + k <= Len(g)
               THEN g[i + k].role = "tool" /\ g[i + k].re = g[i].calls[k]
               ELSE i + k - Len(g) <= Len(todo) /\ todo[i + k - Len(g)].id = g[i].calls[k]
  <2>1. CASE i <= Len(h)
    <3>1. i \in 1..Len(h) /\ g[i] = h[i] BY <1>1, <2>1
    <3>2. k \in 1..Len(h[i].calls) BY <1>2, <3>1
    <3>3. i + k <= Len(h) /\ h[i + k].role = "tool" /\ h[i + k].re = h[i].calls[k]
      BY <1>4, <3>1, <3>2
    <3>4. g[i + k] = h[i + k] BY <1>1, <3>1, <3>2, <3>3
    <3> QED BY <1>1, <3>1, <3>2, <3>3, <3>4
  <2>2. CASE i = Len(h) + 1 BY <1>1, <1>3, <2>2
  <2> QED BY <1>1, <2>1, <2>2
<1> QED BY <1>5 DEF AnsweredExcept, g

\* The result of the first open call answers it and no other.
LEMMA AppendResult ==
  ASSUME NEW h \in Seq(Message), NEW todo \in Seq(Call), todo # <<>>,
         AnsweredExcept(h, todo),
         NEW m \in Message, m.role = "tool", m.re = Head(todo).id, m.calls = <<>>
  PROVE  AnsweredExcept(Append(h, m), Tail(todo))
<1> DEFINE g == Append(h, m)
           rest == Tail(todo)
<1>1. g \in Seq(Message) /\ Len(g) = Len(h) + 1 /\ DOMAIN g = 1..(Len(h) + 1)
      /\ g[Len(h) + 1] = m /\ \A i \in 1..Len(h) : g[i] = h[i]
  OBVIOUS
<1>2. rest \in Seq(Call) /\ Len(rest) = Len(todo) - 1 /\ Len(todo) \in Nat
      /\ todo[1] = Head(todo) /\ \A j \in 1..Len(rest) : rest[j] = todo[j + 1]
  OBVIOUS
<1>3. \A i \in 1..Len(h) : DOMAIN h[i].calls = 1..Len(h[i].calls)
  BY MessageCalls
<1>4. \A i \in 1..Len(h) : \A k \in 1..Len(h[i].calls) :
        IF i + k <= Len(h)
          THEN h[i + k].role = "tool" /\ h[i + k].re = h[i].calls[k]
          ELSE i + k - Len(h) <= Len(todo) /\ todo[i + k - Len(h)].id = h[i].calls[k]
  <2> SUFFICES ASSUME NEW i \in 1..Len(h), NEW k \in 1..Len(h[i].calls)
               PROVE  i \in DOMAIN h /\ k \in DOMAIN h[i].calls
    BY DEF AnsweredExcept
  <2> QED BY <1>3
<1> HIDE DEF g, rest
<1>5. ASSUME NEW i \in DOMAIN g, NEW k \in DOMAIN g[i].calls
      PROVE  IF i + k <= Len(g)
               THEN g[i + k].role = "tool" /\ g[i + k].re = g[i].calls[k]
               ELSE i + k - Len(g) <= Len(rest) /\ rest[i + k - Len(g)].id = g[i].calls[k]
  <2>1. i \in 1..Len(h) /\ k \in 1..Len(h[i].calls) /\ g[i] = h[i]
    <3>1. i # Len(h) + 1 BY <1>1
    <3> QED BY <1>1, <1>3, <3>1
  <2>2. CASE i + k <= Len(h)
    <3>1. h[i + k].role = "tool" /\ h[i + k].re = h[i].calls[k] BY <1>4, <2>1, <2>2
    <3>2. g[i + k] = h[i + k] BY <1>1, <2>1, <2>2
    <3> QED BY <1>1, <2>1, <2>2, <3>1, <3>2
  <2>3. CASE i + k = Len(h) + 1
    <3>1. todo[1].id = h[i].calls[k]
      <4>1. ~(i + k <= Len(h)) /\ i + k - Len(h) = 1 BY <1>1, <2>1, <2>3
      <4>2. todo[i + k - Len(h)].id = h[i].calls[k] BY <1>4, <2>1, <4>1
      <4> QED BY <4>1, <4>2
    <3> QED BY <1>1, <1>2, <2>1, <2>3, <3>1
  <2>4. CASE i + k > Len(h) + 1
    <3>1. i + k - Len(h) <= Len(todo) /\ todo[i + k - Len(h)].id = h[i].calls[k]
      BY <1>4, <2>1, <2>4
    <3> DEFINE j == i + k - Len(h) - 1
    <3>2. i \in Nat /\ k \in Nat /\ Len(h) \in Nat BY <2>1
    <3>3. i + k - Len(g) = j /\ i + k - Len(h) = j + 1 /\ j \in 1..Len(rest) /\ i + k > Len(g)
      BY <1>1, <1>2, <2>4, <3>1, <3>2
    <3> HIDE DEF j
    <3>4. rest[j] = todo[j + 1] BY <1>2, <3>3
    <3>5. todo[j + 1].id = g[i].calls[k] /\ j <= Len(rest) BY <2>1, <3>1, <3>3
    <3>6. ~(i + k <= Len(g)) BY <1>1, <3>2, <3>3
    <3> QED BY <3>3, <3>4, <3>5, <3>6
  <2>5. i \in Nat /\ k \in Nat /\ Len(h) \in Nat BY <2>1
  <2> QED BY <2>2, <2>3, <2>4, <2>5
<1> QED BY <1>5 DEF AnsweredExcept, g, rest

-----------------------------------------------------------------------------
(* The invariant                                                           *)

\* Init establishes the inductive invariant.
LEMMA InitHolds == Init => IInv
<1> SUFFICES ASSUME Init PROVE IInv OBVIOUS
<1>1. TypeOK BY Assumptions DEF Init, TypeOK
<1>2. history = <<>> /\ batch = <<>> /\ running = Nothing /\ phase = "prompt"
  BY DEF Init
<1> QED
  BY <1>1, <1>2 DEF IInv, LoopShape, CallsAnswered, AnsweredExcept, RunningIsHead, IterBelowLimit, ReasoningWithCalls,
     FlashCarriesNoReasoning, ActiveIsOffered, OfferedUnlessGerminated

\* The turn a stream leaves behind, and the batch of its calls.
LEMMA StreamFacts ==
  ASSUME TypeOK, StreamEnds
  PROVE  /\ \E m \in Message :
              /\ history' = Append(history, m)
              /\ m.id = fresh /\ m.role = "assistant" /\ (m.reasoning => m.calls # <<>>)
              /\ Len(batch') = Len(m.calls)
              /\ \A k \in 1..Len(m.calls) : batch'[k].id = m.calls[k] /\ m.calls[k] = fresh + k
              /\ fresh' = fresh + Len(m.calls) + 1
              /\ phase' = IF m.calls = <<>> THEN "turnDone" ELSE "invoke"
         /\ batch' \in Seq(Call) /\ fresh' \in Nat
         /\ phase' \in {"turnDone", "invoke"} /\ (phase' = "turnDone" => batch' = <<>>)
         /\ UNCHANGED <<iter, role, offered, running, registryVars, prompts>>
<1>1. PICK names \in UNION {[1..n -> Names] : n \in 0..MaxBatch}, reasoning \in BOOLEAN :
        /\ history' = Append(history, Assistant(fresh, [k \in 1..Len(names) |-> fresh + k],
                                                reasoning /\ names # <<>>))
        /\ batch' = [k \in 1..Len(names) |-> [id |-> fresh + k, tool |-> names[k]]]
        /\ fresh' = fresh + Len(names) + 1
        /\ phase' = IF names = <<>> THEN "turnDone" ELSE "invoke"
  BY DEF StreamEnds
<1> DEFINE ids == [k \in 1..Len(names) |-> fresh + k]
           m == Assistant(fresh, ids, reasoning /\ names # <<>>)
<1>2. PICK n \in 0..MaxBatch : names \in [1..n -> Names]
  BY <1>1
<1>3. n \in Nat /\ fresh \in Nat BY Assumptions DEF TypeOK
<1>4. names \in Seq(Names) /\ Len(names) = n /\ (names = <<>> <=> n = 0)
  BY <1>2, <1>3
<1>5. ids \in Seq(Nat) /\ Len(ids) = n BY <1>3, <1>4
<1>6. batch' \in Seq(Call) /\ Len(batch') = n /\ \A k \in 1..n : batch'[k].id = ids[k]
  BY <1>1, <1>2, <1>3, <1>4 DEF Call
<1>7. m \in Message /\ m.id = fresh /\ m.role = "assistant" /\ m.calls = ids /\ (m.reasoning => n # 0)
  BY <1>1, <1>3, <1>4, <1>5, Zenon, SMT DEF Assistant, Message
<1>8. fresh' \in Nat BY <1>1, <1>3, <1>4
<1>9. phase' \in {"turnDone", "invoke"} /\ (phase' = "turnDone" => batch' = <<>>)
  BY <1>1, <1>4, <1>6
<1>10. m.reasoning => m.calls # <<>> BY <1>5, <1>7
<1>11. history' = Append(history, m) BY <1>1
<1>12. \A k \in 1..Len(m.calls) : batch'[k].id = m.calls[k] /\ m.calls[k] = fresh + k
  BY <1>3, <1>4, <1>5, <1>6, <1>7
<1>14. fresh' = fresh + Len(m.calls) + 1 BY <1>1, <1>4, <1>5, <1>7
<1>15. phase' = IF m.calls = <<>> THEN "turnDone" ELSE "invoke" BY <1>1, <1>4, <1>5, <1>7
<1>13. UNCHANGED <<iter, role, offered, running, registryVars, prompts>> BY DEF StreamEnds
<1> HIDE DEF ids, m
<1> QED BY <1>13, <1>14, <1>15, <1>11, <1>12, <1>5, <1>6, <1>7, <1>8, <1>9, <1>10

\* What answering a call does.
LEMMA AnswerFacts ==
  ASSUME TypeOK, batch # <<>>, NEW c \in Call, NEW b \in BOOLEAN, Answer(c, b)
  PROVE  /\ Result(fresh, c, b) \in Message
         /\ history' = Append(history, Result(fresh, c, b)) /\ history' \in Seq(Message)
         /\ batch' = Tail(batch) /\ batch' \in Seq(Call)
         /\ fresh' \in Nat /\ running' = Nothing
<1>1. Result(fresh, c, b) \in Message BY DEF Result, Message, Call, TypeOK
<1>2. history' = Append(history, Result(fresh, c, b)) /\ batch' = Tail(batch)
      /\ fresh' = fresh + 1 /\ running' = Nothing
  BY DEF Answer
<1>3. history \in Seq(Message) /\ batch \in Seq(Call) /\ fresh \in Nat BY DEF TypeOK
<1>4. Append(history, Result(fresh, c, b)) \in Seq(Message) BY <1>1, <1>3
<1>5. Tail(batch) \in Seq(Call) BY <1>3
<1> QED BY <1>1, <1>2, <1>3, <1>4, <1>5

\* Every step keeps the types.
LEMMA TypeStep == LoopShape /\ Next => TypeOK'
<1> USE Assumptions DEF registryVars
<1> SUFFICES ASSUME TypeOK, RunningIsHead, IterBelowLimit, Next PROVE TypeOK'
  BY DEF IInv, LoopShape
<1>1. CASE Submit
  <2>1. User(fresh) \in Message BY <1>1 DEF User, Message, TypeOK
  <2> QED BY <1>1, <2>1 DEF Submit, TypeOK
<1>2. CASE ChangeSpore BY <1>2 DEF ChangeSpore, TearDownSpore, TypeOK, loopVars
<1>3. CASE Quit BY <1>3 DEF Quit, TypeOK, loopVars
<1>4. CASE CompleteTurn BY <1>4 DEF CompleteTurn, TypeOK, loopVars
<1>5. CASE PrepareRequest
  <2>1. ActiveTools \subseteq Names BY DEF ActiveTools, TypeOK
  <2> QED BY <1>5, <2>1 DEF PrepareRequest, TypeOK
<1>6. CASE StreamEnds
  <2>1. PICK m \in Message : history' = Append(history, m)
    BY <1>6, StreamFacts
  <2>2. history' \in Seq(Message) BY <2>1 DEF TypeOK
  <2> QED BY <1>6, <2>2, StreamFacts DEF TypeOK
<1>7. CASE DenyTool
  <2>1. batch # <<>> /\ Answer(Head(batch), FALSE) BY <1>7, Zenon DEF DenyTool
  <2>2. Head(batch) \in Call BY <2>1 DEF TypeOK
  <2>3. history' \in Seq(Message) /\ batch' \in Seq(Call) /\ fresh' \in Nat /\ running' = Nothing
    BY <2>1, <2>2, AnswerFacts
  <2> QED BY <1>7, <2>3 DEF DenyTool, TypeOK
<1>8. CASE StartTool BY <1>8 DEF StartTool, TypeOK
<1>9. CASE ToolReturns
  <2>1. batch # <<>> /\ running \in Call
    BY <1>9 DEF ToolReturns, RunningIsHead, TypeOK
  <2>2. PICK b \in BOOLEAN : Answer(running, b) /\ allowlist' \in Allowlists
    BY <1>9 DEF ToolReturns, TypeOK
  <2>3. history' \in Seq(Message) /\ batch' \in Seq(Call) /\ fresh' \in Nat /\ running' = Nothing
    BY <2>1, <2>2, AnswerFacts
  <2> QED BY <1>9, <2>2, <2>3 DEF ToolReturns, TypeOK
<1>10. CASE NextIteration BY <1>10 DEF NextIteration, TypeOK, IterBelowLimit
<1>11. CASE McpServerExits BY <1>11 DEF McpServerExits, TearDownSpore, TypeOK, loopVars
<1> QED
  BY <1>1, <1>2, <1>3, <1>4, <1>5, <1>6, <1>7, <1>8, <1>9, <1>10, <1>11 DEF Next, LoopStep

\* Answering the first open call leaves the others open and nothing else.
LEMMA AnswerKeeps ==
  ASSUME TypeOK, CallsAnswered, batch # <<>>, NEW b \in BOOLEAN,
         Answer(Head(batch), b), phase' = "invoke"
  PROVE  CallsAnswered'
<1>1. Head(batch) \in Call BY DEF TypeOK
<1> DEFINE m == Result(fresh, Head(batch), b)
<1>2. m \in Message /\ history' = Append(history, m) /\ batch' = Tail(batch)
  BY <1>1, AnswerFacts
<1>3. m.role = "tool" /\ m.re = Head(batch).id /\ m.calls = <<>> BY DEF Result
<1>4. history \in Seq(Message) /\ batch \in Seq(Call) /\ AnsweredExcept(history, batch)
  BY DEF TypeOK, CallsAnswered
<1> HIDE DEF m
<1>5. AnsweredExcept(Append(history, m), Tail(batch)) BY <1>2, <1>3, <1>4, AppendResult
<1>6. AnsweredExcept(history, batch)' BY <1>2, <1>5 DEF AnsweredExcept
<1> QED BY <1>6 DEF CallsAnswered

\* Every step keeps the calls answered: a turn is appended only to a history
\* without open calls, and a result answers the first open call.
LEMMA AnsweredStep == IInv /\ Next => CallsAnswered'
<1> SUFFICES ASSUME TypeOK, CallsAnswered, RunningIsHead, Next PROVE CallsAnswered'
  BY DEF IInv, LoopShape
<1>1. CASE Submit
  <2>1. User(fresh) \in Message /\ User(fresh).calls = <<>>
    BY DEF User, Message, TypeOK
  <2>2. batch = <<>> /\ AnsweredExcept(history, <<>>)
    BY <1>1 DEF Submit, CallsAnswered
  <2>3. AnsweredExcept(Append(history, User(fresh)), <<>>)
    <3>1. <<>> \in Seq(Call) /\ Len(<<>>) = Len(User(fresh).calls) /\ 1..Len(User(fresh).calls) = {}
      BY <2>1
    <3>2. history \in Seq(Message) BY DEF TypeOK
    <3> QED BY <2>1, <2>2, <3>1, <3>2, AppendTurn
  <2> QED BY <1>1, <2>2, <2>3 DEF Submit, CallsAnswered
<1>2. CASE ChangeSpore BY <1>2 DEF ChangeSpore, CallsAnswered, AnsweredExcept, loopVars
<1>3. CASE Quit BY <1>3 DEF Quit, CallsAnswered, AnsweredExcept, loopVars
<1>4. CASE CompleteTurn BY <1>4 DEF CompleteTurn, CallsAnswered, AnsweredExcept, loopVars
<1>5. CASE PrepareRequest BY <1>5 DEF PrepareRequest, CallsAnswered, AnsweredExcept
<1>6. CASE StreamEnds
  <2>1. PICK m \in Message :
          /\ history' = Append(history, m)
          /\ Len(batch') = Len(m.calls)
          /\ \A k \in 1..Len(m.calls) : batch'[k].id = m.calls[k]
    BY <1>6, StreamFacts
  <2>2. AnsweredExcept(history, <<>>)
    <3>1. phase = "stream" BY <1>6 DEF StreamEnds
    <3> QED BY <3>1 DEF CallsAnswered
  <2>3. batch' \in Seq(Call) /\ history \in Seq(Message) BY <1>6, StreamFacts DEF TypeOK
  <2>4. AnsweredExcept(Append(history, m), batch') BY <2>1, <2>2, <2>3, AppendTurn
  <2>5. phase' \in {"prompt", "request", "stream", "turnDone"} => batch' = <<>>
    BY <1>6, StreamFacts
  <2>6. AnsweredExcept(history, batch)' BY <2>1, <2>4 DEF AnsweredExcept
  <2> QED BY <2>5, <2>6 DEF CallsAnswered
<1>7. CASE DenyTool
  <2>1. batch # <<>> /\ Answer(Head(batch), FALSE) /\ phase' = "invoke"
    BY <1>7, Zenon DEF DenyTool
  <2>2. Head(batch) \in Call BY <2>1 DEF TypeOK
  <2> QED BY <2>1, <2>2, AnswerKeeps
<1>8. CASE StartTool BY <1>8 DEF StartTool, CallsAnswered, AnsweredExcept
<1>9. CASE ToolReturns
  <2>1. batch # <<>> /\ running = Head(batch) /\ running \in Call /\ phase' = "invoke"
    BY <1>9 DEF ToolReturns, RunningIsHead, TypeOK
  <2>2. PICK b \in BOOLEAN : Answer(running, b)
    BY <1>9 DEF ToolReturns
  <2> QED BY <2>1, <2>2, AnswerKeeps
<1>10. CASE NextIteration BY <1>10 DEF NextIteration, CallsAnswered, AnsweredExcept
<1>11. CASE McpServerExits BY <1>11 DEF McpServerExits, CallsAnswered, AnsweredExcept, loopVars
<1> QED
  BY <1>1, <1>2, <1>3, <1>4, <1>5, <1>6, <1>7, <1>8, <1>9, <1>10, <1>11 DEF Next, LoopStep

\* The history grows by one message at a time, and only by an assistant turn that
\* has calls does it gain reasoning.
LEMMA HistoryGrows ==
  ASSUME TypeOK, RunningIsHead, Next
  PROVE  \/ UNCHANGED history
         \/ \E m \in Message : history' = Append(history, m) /\ (m.reasoning => m.calls # <<>>)
<1>1. CASE Submit
  <2>1. User(fresh) \in Message /\ ~User(fresh).reasoning BY DEF User, Message, TypeOK
  <2> QED BY <1>1, <2>1 DEF Submit
<1>2. CASE StreamEnds BY <1>2, StreamFacts
<1>3. CASE DenyTool
  <2>1. batch # <<>> /\ Answer(Head(batch), FALSE) BY <1>3, Zenon DEF DenyTool
  <2>2. Head(batch) \in Call BY <2>1 DEF TypeOK
  <2>3. Result(fresh, Head(batch), FALSE) \in Message
        /\ history' = Append(history, Result(fresh, Head(batch), FALSE))
    BY <2>1, <2>2, AnswerFacts
  <2>4. ~Result(fresh, Head(batch), FALSE).reasoning BY DEF Result
  <2> QED BY <2>3, <2>4
<1>4. CASE ToolReturns
  <2>1. batch # <<>> /\ running \in Call BY <1>4 DEF ToolReturns, RunningIsHead, TypeOK
  <2>2. PICK b \in BOOLEAN : Answer(running, b) BY <1>4 DEF ToolReturns
  <2>3. Result(fresh, running, b) \in Message /\ history' = Append(history, Result(fresh, running, b))
    BY <2>1, <2>2, AnswerFacts
  <2>4. ~Result(fresh, running, b).reasoning BY DEF Result
  <2> QED BY <2>3, <2>4
<1>5. CASE ~(Submit \/ StreamEnds \/ DenyTool \/ ToolReturns)
  BY <1>5 DEF Next, LoopStep, ChangeSpore, McpServerExits, Quit, CompleteTurn, PrepareRequest, StartTool, NextIteration
<1> QED BY <1>1, <1>2, <1>3, <1>4, <1>5

\* Reasoning stays next to tool calls, so the latch of hasRetainedReasoning sees all of it.
LEMMA ReasoningStep == LoopShape /\ Next => ReasoningWithCalls'
<1> SUFFICES ASSUME TypeOK, RunningIsHead, ReasoningWithCalls, Next PROVE ReasoningWithCalls'
  BY DEF IInv, LoopShape
<1>1. CASE UNCHANGED history BY <1>1 DEF ReasoningWithCalls
<1>2. ASSUME NEW m \in Message, history' = Append(history, m), m.reasoning => m.calls # <<>>
      PROVE  ReasoningWithCalls'
  <2>1. history \in Seq(Message) BY DEF TypeOK
  <2>2. DOMAIN history' = 1..(Len(history) + 1) /\ history'[Len(history) + 1] = m
        /\ DOMAIN history = 1..Len(history) /\ \A i \in 1..Len(history) : history'[i] = history[i]
    BY <1>2, <2>1
  <2> QED BY <1>2, <2>2 DEF ReasoningWithCalls
<1> QED BY <1>1, <1>2, HistoryGrows

\* A request is prepared for the execution role only from a history without reasoning.
LEMMA FlashStep == LoopShape /\ Next => FlashCarriesNoReasoning'
<1> SUFFICES ASSUME ReasoningWithCalls, FlashCarriesNoReasoning, TypeOK, Next,
                    phase' = "stream", role' = "repl-execution"
             PROVE  \A i \in DOMAIN history' : ~history'[i].reasoning
  BY DEF FlashCarriesNoReasoning, IInv, LoopShape
<1>1. CASE McpServerExits
  BY <1>1 DEF McpServerExits, loopVars, FlashCarriesNoReasoning
<1>2. CASE ~McpServerExits
  <2>1. ~StreamEnds BY StreamFacts
  <2>2. PrepareRequest
    BY <1>2, <2>1 DEF Next, LoopStep, Submit, ChangeSpore, Quit, CompleteTurn, DenyTool,
       StartTool, ToolReturns, NextIteration, TypeOK
  <2>3. ~RetainedReasoning /\ UNCHANGED history BY <2>2 DEF PrepareRequest
  <2> QED BY <2>3 DEF RetainedReasoning, ReasoningWithCalls
<1> QED BY <1>1, <1>2

\* The loop's own bookkeeping.
LEMMA LoopStepKeeps == LoopShape /\ Next => (RunningIsHead /\ IterBelowLimit)'
<1> SUFFICES ASSUME TypeOK, RunningIsHead, IterBelowLimit, Next
             PROVE  (RunningIsHead /\ IterBelowLimit)'
  BY DEF IInv, LoopShape
<1>1. CASE Submit BY <1>1, Assumptions DEF Submit, RunningIsHead, IterBelowLimit
<1>2. CASE StreamEnds
  <2>1. phase = "stream" BY <1>2 DEF StreamEnds
  <2> QED BY <1>2, <2>1, StreamFacts DEF RunningIsHead, IterBelowLimit
<1>3. CASE DenyTool
  <2>1. running' = Nothing BY <1>3 DEF DenyTool, Answer
  <2> QED BY <1>3, <2>1 DEF DenyTool, RunningIsHead, IterBelowLimit
<1>4. CASE ToolReturns
  <2>1. running' = Nothing BY <1>4 DEF ToolReturns, Answer
  <2> QED BY <1>4, <2>1 DEF ToolReturns, RunningIsHead, IterBelowLimit
<1>5. CASE NextIteration BY <1>5 DEF NextIteration, RunningIsHead, IterBelowLimit
<1>6. CASE StartTool BY <1>6 DEF StartTool, RunningIsHead, IterBelowLimit
<1>7. CASE ChangeSpore \/ McpServerExits \/ Quit \/ CompleteTurn
  BY <1>7 DEF ChangeSpore, McpServerExits, Quit, CompleteTurn, loopVars, RunningIsHead,
     IterBelowLimit
<1>8. CASE PrepareRequest BY <1>8 DEF PrepareRequest, RunningIsHead, IterBelowLimit
<1> QED BY <1>1, <1>2, <1>3, <1>4, <1>5, <1>6, <1>7, <1>8 DEF Next, LoopStep

\* An answered call of the current batch was germinate_spore.
Germinated == \E i \in AnsweredNow : history[i].tool = Germinate

\* A further result of the batch hides no earlier one, and may itself be a germination.
LEMMA GerminatedStays ==
  ASSUME TypeOK, NEW c \in Call, NEW b \in BOOLEAN, batch # <<>>, Answer(c, b)
  PROVE  /\ Germinated => Germinated'
         /\ c.tool = Germinate => Germinated'
<1> DEFINE m == Result(fresh, c, b)
<1>1. m \in Message /\ history' = Append(history, m) /\ history \in Seq(Message)
  BY AnswerFacts DEF TypeOK
<1>2. m.role = "tool" /\ m.tool = c.tool BY DEF Result
<1> HIDE DEF m
<1>3. /\ DOMAIN history = 1..Len(history) /\ Len(history) \in Nat
      /\ Len(history') = Len(history) + 1 /\ DOMAIN history' = 1..(Len(history) + 1)
      /\ history'[Len(history) + 1] = m
      /\ \A i \in 1..Len(history) : history'[i] = history[i]
  BY <1>1
<1>4. ASSUME NEW i \in AnsweredNow PROVE i \in AnsweredNow' /\ history'[i] = history[i]
  <2>1. i \in 1..Len(history) /\ \A j \in i..Len(history) : history[j].role = "tool"
    BY <1>3, <1>4 DEF AnsweredNow
  <2>2. \A j \in i..(Len(history) + 1) : history'[j].role = "tool"
    BY <1>2, <1>3, <2>1
  <2> QED BY <1>3, <2>1, <2>2 DEF AnsweredNow
<1>5. Len(history) + 1 \in AnsweredNow'
  <2>1. \A j \in (Len(history) + 1)..Len(history') : j = Len(history) + 1 BY <1>3
  <2> QED BY <1>2, <1>3, <2>1 DEF AnsweredNow
<1>6. Germinated => Germinated' BY <1>4 DEF Germinated
<1>7. c.tool = Germinate => Germinated' BY <1>2, <1>3, <1>5 DEF Germinated
<1> QED BY <1>6, <1>7

\* What the registry and the allowlist let through outgrows the offer only by a
\* germination of the same batch; a server that exits only makes it smaller.
LEMMA OfferedStep == LoopShape /\ Next => (ActiveIsOffered /\ OfferedUnlessGerminated)'
<1> USE DEF Germinated
<1> SUFFICES ASSUME TypeOK, RunningIsHead, ActiveIsOffered, OfferedUnlessGerminated, Next
             PROVE  (ActiveIsOffered /\ OfferedUnlessGerminated)'
  BY DEF IInv, LoopShape
<1>1. CASE Submit \/ ChangeSpore \/ Quit \/ CompleteTurn
  BY <1>1 DEF Submit, ChangeSpore, Quit, CompleteTurn, loopVars, RunningIsHead,
     ActiveIsOffered, OfferedUnlessGerminated
<1>2. CASE PrepareRequest
  BY <1>2 DEF PrepareRequest, RunningIsHead, ActiveIsOffered, OfferedUnlessGerminated, ActiveTools,
     registryVars
<1>3. CASE StreamEnds
  <2>1. phase = "stream" BY <1>3 DEF StreamEnds
  <2>2. running' = Nothing /\ UNCHANGED <<offered, tools, allowlist>> /\ phase' # "stream"
    BY <1>3, <2>1, StreamFacts DEF RunningIsHead, registryVars
  <2>3. ActiveTools \subseteq offered BY <2>1 DEF ActiveIsOffered
  <2> QED BY <2>2, <2>3 DEF ActiveIsOffered, OfferedUnlessGerminated, ActiveTools
<1>4. CASE DenyTool
  <2>1. batch # <<>> /\ Answer(Head(batch), FALSE) /\ phase = "invoke" /\ phase' = "invoke"
        /\ UNCHANGED <<offered, tools, allowlist>>
    BY <1>4, Zenon DEF DenyTool, registryVars
  <2>2. Head(batch) \in Call BY <2>1 DEF TypeOK
  <2>3. Germinated => Germinated' BY <2>1, <2>2, GerminatedStays
  <2>4. running' = Nothing BY <2>1 DEF Answer
  <2> QED BY <2>1, <2>3, <2>4 DEF ActiveIsOffered, OfferedUnlessGerminated, ActiveTools
<1>5. CASE StartTool
  <2>1. phase = "invoke" /\ running' = Head(batch) /\ running'.tool \in ActiveTools
        /\ UNCHANGED <<phase, history, offered, tools, allowlist>>
    BY <1>5 DEF StartTool, registryVars
  <2> QED BY <2>1 DEF ActiveIsOffered, OfferedUnlessGerminated, ActiveTools, AnsweredNow
<1>6. CASE ToolReturns
  <2>1. batch # <<>> /\ running \in Call /\ phase = "invoke" /\ phase' = "invoke" /\ offered' = offered
    BY <1>6 DEF ToolReturns, RunningIsHead, TypeOK
  <2>2. PICK b \in BOOLEAN : /\ Answer(running, b)
                             /\ UNCHANGED <<tools, allowlist>> \/ running.tool = Germinate
    BY <1>6 DEF ToolReturns, registryVars
  <2>3. /\ Germinated => Germinated'
        /\ running.tool = Germinate => Germinated'
    BY <2>1, <2>2, GerminatedStays
  <2>4. running' = Nothing BY <2>2 DEF Answer
  <2> QED BY <2>1, <2>2, <2>3, <2>4 DEF ActiveIsOffered, OfferedUnlessGerminated, ActiveTools
<1>7. CASE NextIteration
  BY <1>7 DEF NextIteration, ActiveIsOffered, OfferedUnlessGerminated
<1>8. CASE McpServerExits
  <2>1. UNCHANGED <<phase, history, offered, running, allowlist>>
    BY <1>8 DEF McpServerExits, loopVars
  <2>2. ActiveTools' \subseteq ActiveTools
    BY <1>8, <2>1 DEF McpServerExits, TearDownSpore, ActiveTools
  <2> QED BY <2>1, <2>2 DEF ActiveIsOffered, OfferedUnlessGerminated, AnsweredNow
<1> QED BY <1>1, <1>2, <1>3, <1>4, <1>5, <1>6, <1>7, <1>8 DEF Next, LoopStep

\* Every step keeps what does not depend on the calls being answered.
LEMMA ShapeStep == LoopShape /\ [Next]_vars => LoopShape'
<1>1. CASE Next
  BY <1>1, TypeStep, ReasoningStep, FlashStep, LoopStepKeeps, OfferedStep DEF LoopShape
<1>2. CASE UNCHANGED vars
  BY <1>2 DEF vars, registryVars, LoopShape, TypeOK, RunningIsHead, IterBelowLimit,
     ReasoningWithCalls, FlashCarriesNoReasoning, ActiveIsOffered, OfferedUnlessGerminated,
     AnsweredNow, ActiveTools
<1> QED BY <1>1, <1>2

\* And the calls answered, where they are.
LEMMA AnsweredStays == LoopShape /\ CallsAnswered /\ [Next]_vars => CallsAnswered'
<1>1. CASE Next BY <1>1, AnsweredStep DEF IInv
<1>2. CASE UNCHANGED vars BY <1>2 DEF vars, CallsAnswered, AnsweredExcept
<1> QED BY <1>1, <1>2

\* Every step keeps the inductive invariant.
LEMMA InvariantStep == IInv /\ [Next]_vars => IInv'
BY ShapeStep, AnsweredStays DEF IInv

-----------------------------------------------------------------------------
(* Theorems on the loop of one process                                     *)

\* The inductive invariant holds of every behaviour.
THEOREM LoopInvariant == Spec => []IInv
BY InitHolds, InvariantStep, PTL DEF Spec

\* Each variable of the loop keeps its type; the iteration stays within maxIterations.
THEOREM LoopTypeCorrect == Spec => []TypeOK
BY LoopInvariant, PTL DEF IInv, LoopShape

\* Every tool call of the history has its one result, in order, or is still to be
\* answered in this turn (QueryEngine.history, appendToolResult).
THEOREM AnsweredCorrect == Spec => []CallsAnswered
BY LoopInvariant, PTL DEF IInv, LoopShape

\* No request routed to the execution role carries reasoning (hasRetainedReasoning
\* against the role choice of runReactLoop).
THEOREM FlashCorrect == Spec => []FlashCarriesNoReasoning
BY LoopInvariant, PTL DEF IInv, LoopShape

\* A tool runs unoffered only behind a germinate_spore of the same batch (invoke, setActiveSpore).
THEOREM OfferedCorrect == Spec => []OfferedUnlessGerminated
BY LoopInvariant, PTL DEF IInv, LoopShape

-----------------------------------------------------------------------------
(* What the log is read back as                                            *)

\* The message of a line that parses, nothing for one that does not.
Kept(l) == IF l.parses THEN <<l.msg>> ELSE <<>>

LEMMA LineOfLines ==
  ASSUME NEW ls \in Seq(Line)
  PROVE  /\ \A i \in 1..Len(ls) : Kept(ls[i]) \in Seq(Message)
         /\ [i \in 1..Len(ls) |-> Kept(ls[i])] \in Seq(Seq(Message))
         /\ Parsed(ls) = FlattenSeq([i \in 1..Len(ls) |-> Kept(ls[i])])
<1>1. ASSUME NEW i \in 1..Len(ls) PROVE Kept(ls[i]) \in Seq(Message)
  <2>1. ls[i] \in Line BY ElementOfSeq
  <2>2. ls[i].msg \in Message BY <2>1 DEF Line
  <2>3. <<ls[i].msg>> \in Seq(Message) BY <2>2
  <2>4. <<>> \in Seq(Message) OBVIOUS
  <2> QED BY <2>3, <2>4 DEF Kept
<1>2. [i \in 1..Len(ls) |-> Kept(ls[i])] \in Seq(Seq(Message))
  <2> DEFINE Msg(i) == Kept(ls[i])
             X == Seq(Message)
  <2>1. \A i \in 1..Len(ls) : Msg(i) \in X BY <1>1
  <2>2. Len(ls) \in Nat OBVIOUS
  <2> HIDE DEF Msg, X
  <2>3. [i \in 1..Len(ls) |-> Msg(i)] \in Seq(X) BY <2>1, <2>2
  <2> QED BY <2>3 DEF Msg, X
<1>3. Parsed(ls) = FlattenSeq([i \in 1..Len(ls) |-> Kept(ls[i])])
  BY Zenon DEF Parsed, Kept
<1> QED BY <1>1, <1>2, <1>3

\* The messages read back are messages of lines.
LEMMA ParsedMessages ==
  ASSUME NEW ls \in Seq(Line)
  PROVE  /\ Parsed(ls) \in Seq(Message)
         /\ \A k \in 1..Len(Parsed(ls)) : \E i \in 1..Len(ls) : Parsed(ls)[k] = ls[i].msg
<1> DEFINE a == [i \in 1..Len(ls) |-> Kept(ls[i])]
           r == Parsed(ls)
<1>1. a \in Seq(Seq(Message)) /\ r = FlattenSeq(a) BY LineOfLines
<1>2. Len(a) = Len(ls) /\ Len(ls) \in Nat /\ \A i \in 1..Len(ls) : a[i] = Kept(ls[i]) OBVIOUS
<1>3. \A i \in 1..Len(ls) : ls[i].msg \in Message
  <2> TAKE i \in 1..Len(ls)
  <2>1. ls[i] \in Line BY ElementOfSeq
  <2> QED BY <2>1 DEF Line
<1> HIDE DEF a, r
<1>4. \A i \in 1..Len(a) : a[i] = <<>> \/ \E x \in Message : a[i] = <<x>>
  BY <1>2, <1>3 DEF Kept
<1>5. FlattenSeq(a) \in Seq(Message) /\ \E f : Picks(FlattenSeq(a), a, f, Occupied(a, Len(a)))
  BY <1>1, <1>4, FlattenUnits
<1>6. r \in Seq(Message) BY <1>1, <1>5
<1>7. PICK f : Picks(r, a, f, Occupied(a, Len(a))) BY <1>1, <1>5
<1>8. ASSUME NEW k \in 1..Len(r) PROVE \E i \in 1..Len(ls) : r[k] = ls[i].msg
  <2>1. r[k] = a[f[k]][1] /\ f \in [1..Len(r) -> Occupied(a, Len(a))]
    BY <1>7 DEF Picks, Enumerates
  <2>2. f[k] \in Occupied(a, Len(a)) BY <2>1
  <2>3. f[k] \in 1..Len(ls) /\ a[f[k]] # <<>> BY <1>2, <2>2 DEF Occupied
  <2>4. a[f[k]] = Kept(ls[f[k]]) BY <1>2, <2>3
  <2>5. a[f[k]] = <<ls[f[k]].msg>> BY <2>3, <2>4 DEF Kept
  <2>6. r[k] = ls[f[k]].msg BY <2>1, <2>5
  <2> QED BY <2>3, <2>6
<1> QED BY <1>6, <1>8 DEF r

\* A line appended adds its message, unless it is torn.
LEMMA ParsedAppend ==
  ASSUME NEW ls \in Seq(Line), NEW l \in Line
  PROVE  Parsed(Append(ls, l)) = IF l.parses THEN Append(Parsed(ls), l.msg) ELSE Parsed(ls)
<1> DEFINE a == [i \in 1..Len(ls) |-> Kept(ls[i])]
           more == Append(ls, l)
           b == [i \in 1..Len(more) |-> Kept(more[i])]
           r == Parsed(ls)
<1>1. more \in Seq(Line) /\ Len(more) = Len(ls) + 1 /\ more[Len(ls) + 1] = l /\ Len(ls) \in Nat
      /\ \A i \in 1..Len(ls) : more[i] = ls[i]
  OBVIOUS
<1>2. a \in Seq(Seq(Message)) /\ r = FlattenSeq(a) BY LineOfLines
<1>3. Parsed(more) = FlattenSeq(b) /\ Kept(l) \in Seq(Message)
  <2>3. Len(ls) + 1 \in 1..Len(more) BY <1>1
  <2> HIDE DEF more
  <2>1. Kept(more[Len(ls) + 1]) \in Seq(Message)
    <3>1. \A i \in 1..Len(more) : Kept(more[i]) \in Seq(Message) BY <1>1, LineOfLines
    <3> QED BY <2>3, <3>1
  <2>2. Parsed(more) = FlattenSeq(b) BY <1>1, LineOfLines
  <2> QED BY <1>1, <2>1, <2>2
<1>4. b = Append(a, Kept(l))
  <2>1. Len(a) = Len(ls) /\ \A i \in 1..Len(ls) : a[i] = Kept(ls[i]) BY <1>1
  <2>2. \A i \in 1..Len(more) : b[i] = Kept(more[i]) OBVIOUS
  <2>3. b = [i \in 1..(Len(ls) + 1) |-> b[i]] BY <1>1
  <2> DEFINE n == Len(ls)
             u == Kept(l)
             c == Append(a, u)
  <2>4. /\ c = [i \in 1..(n + 1) |-> c[i]] /\ c[n + 1] = u
        /\ \A i \in 1..n : c[i] = a[i]
    <3> HIDE DEF u
    <3>1. a \in Seq(Seq(Message)) /\ u \in Seq(Message) /\ Len(a) = n BY <1>2, <1>3, <2>1 DEF u
    <3> HIDE DEF a, n
    <3>2. c \in Seq(Seq(Message)) /\ Len(c) = n + 1 /\ n \in Nat BY <3>1
    <3>3. c[n + 1] = u /\ \A i \in 1..n : c[i] = a[i] BY <3>1
    <3> HIDE DEF c
    <3>4. c = [i \in 1..(n + 1) |-> c[i]] BY <3>2
    <3> QED BY <3>3, <3>4
  <2>5. \A i \in 1..(n + 1) : b[i] = c[i]
    <3>1. \A i \in 1..(n + 1) : b[i] = Kept(more[i]) BY <1>1, <2>2
    <3> TAKE i \in 1..(n + 1)
    <3>2. CASE i = n + 1 BY <1>1, <2>4, <3>1, <3>2
    <3>3. CASE i # n + 1
      <4>1. i \in 1..n BY <1>1, <3>3
      <4>2. b[i] = Kept(ls[i]) BY <1>1, <3>1, <4>1
      <4>3. c[i] = Kept(ls[i]) BY <2>1, <2>4, <4>1
      <4> QED BY <4>2, <4>3
    <3> QED BY <3>2, <3>3
  <2> HIDE DEF b, c, a, more
  <2>6. b = c BY <2>3, <2>4, <2>5
  <2> QED BY <2>6 DEF c
<1> HIDE DEF a, b, r, more
<1>5. FlattenSeq(b) = r \o Kept(l) BY <1>2, <1>3, <1>4, FlattenAppend
<1>6. r \in Seq(Message) /\ l.msg \in Message BY ParsedMessages DEF r, Line
<1>7. CASE l.parses
  <2>1. Kept(l) = <<l.msg>> BY <1>7 DEF Kept
  <2>2. r \o <<l.msg>> = Append(r, l.msg) BY <1>6
  <2> QED BY <1>3, <1>5, <1>7, <2>1, <2>2 DEF r, more
<1>8. CASE ~l.parses
  <2>1. Kept(l) = <<>> BY <1>8 DEF Kept
  <2>2. r \o <<>> = r BY <1>6
  <2> QED BY <1>3, <1>5, <1>8, <2>1, <2>2 DEF r, more
<1> QED BY <1>7, <1>8

LEMMA ParsedEmpty == Parsed(<<>>) = <<>>
<1>1. <<>> \in Seq(Line) OBVIOUS
<1>2. /\ Parsed(<<>>) \in Seq(Message)
      /\ \A k \in 1..Len(Parsed(<<>>)) : \E i \in 1..Len(<<>>) : Parsed(<<>>)[k] = <<>>[i].msg
  BY <1>1, ParsedMessages
<1> DEFINE r == Parsed(<<>>)
<1>3. r \in Seq(Message) /\ 1..Len(r) = {}
  <2>1. 1..Len(<<>>) = {} OBVIOUS
  <2> QED BY <1>2, <2>1
<1> HIDE DEF r
<1>4. Len(r) = 0
  <2>1. Len(r) \in Nat BY <1>3
  <2>2. Len(r) \notin 1..Len(r) BY <1>3
  <2> QED BY <2>1, <2>2
<1>5. r = <<>> BY <1>3, <1>4
<1> QED BY <1>5 DEF r
-----------------------------------------------------------------------------
(* Histories and their logs                                                *)

\* The place of the i-th recorded message in a history of which c are lost at l + 1.
Place(i, l, c) == IF c # 0 /\ i > l + 1 - c THEN i + c ELSE i

\* What is logged of a history in which calls are answered is answered too where the
\* first message that is missing is no result: no call waits across it.
LEMMA LoggedAnswered ==
  ASSUME NEW h \in Seq(Message), NEW todo, AnsweredExcept(h, todo),
         NEW f \in 0..Len(h), NEW c \in 0..2, NEW l \in Nat, NEW r \in Seq(Message),
         RecordOf(r, h, f, l, c), c = 2 => h[l].role # "tool"
  PROVE  AnsweredSoFar(r)
<1> DEFINE p == l + 2 - c
<1>1. \A i \in 1..Len(h) : \A k \in 1..Len(h[i].calls) :
        i + k <= Len(h) => h[i + k].role = "tool" /\ h[i + k].re = h[i].calls[k]
  <2> SUFFICES ASSUME NEW i \in 1..Len(h), NEW k \in 1..Len(h[i].calls), i + k <= Len(h)
               PROVE  h[i + k].role = "tool" /\ h[i + k].re = h[i].calls[k]
    OBVIOUS
  <2>1. i \in DOMAIN h /\ k \in DOMAIN h[i].calls BY MessageCalls
  <2> QED BY <2>1 DEF AnsweredExcept
<1>2. DOMAIN r = 1..Len(r) /\ Len(r) \in Nat /\ Len(h) \in Nat /\ f \in Nat /\ f <= Len(h) OBVIOUS
<1>0. /\ c # 0 => p \in 1..(f + 1 - c) /\ h[p].role # "tool"
      /\ Len(r) = f - c
      /\ \A i \in 1..Len(r) : r[i] = h[IF c # 0 /\ i >= p THEN i + c ELSE i]
  <2>1. /\ c # 0 => l \in 1..(f - 1) /\ h[l + 1].role = "user"
        /\ Len(r) = f - c
        /\ \A i \in 1..Len(r) : r[i] = h[IF c # 0 /\ i > l + 1 - c THEN i + c ELSE i]
    BY DEF RecordOf
  <2>2. \A i \in 1..Len(r) : i > l + 1 - c <=> i >= p BY <1>2
  <2>3. c # 0 => h[p].role # "tool"
    <3>1. CASE c = 1
      <4>1. p = l + 1 BY <3>1
      <4> HIDE DEF p
      <4> QED BY <2>1, <3>1, <4>1
    <3>2. CASE c = 2
      <4>1. p = l BY <3>2
      <4> HIDE DEF p
      <4> QED BY <3>2, <4>1
    <3> QED BY <3>1, <3>2
  <2>4. c # 0 => p \in 1..(f + 1 - c) BY <1>2, <2>1
  <2> HIDE DEF p
  <2> QED BY <2>1, <2>2, <2>3, <2>4
<1>9. p \in Int OBVIOUS
<1> HIDE DEF p
<1>3. ASSUME NEW i \in 1..Len(r), NEW k \in 1..Len(r[i].calls), i + k <= Len(r)
      PROVE  r[i + k].role = "tool" /\ r[i + k].re = r[i].calls[k]
  <2>1. i \in Nat /\ k \in Nat /\ k >= 1 BY MessageCalls
  <2>2. i + k \in 1..Len(r) BY <1>2, <1>3, <2>1
  <2> DEFINE j == i + k
  <2>3. j \in 1..Len(r) /\ j \in Nat BY <2>2
  <2>4. r[j] = h[IF c # 0 /\ j >= p THEN j + c ELSE j] BY <1>0, <2>3
  <2>5. CASE c = 0
    <3>1. r[i] = h[i] /\ r[j] = h[j] /\ i \in 1..Len(h) /\ j <= Len(h) BY <1>0, <1>2, <2>3, <2>4, <2>5
    <3>2. k \in 1..Len(h[i].calls) BY <3>1
    <3>3. h[i + k].role = "tool" /\ h[i + k].re = h[i].calls[k] BY <1>1, <3>1, <3>2
    <3> QED BY <3>1, <3>3
  <2>6. CASE c # 0 /\ i >= p
    <3>1. r[i] = h[i + c] /\ i + c \in 1..Len(h) BY <1>0, <1>2, <2>6
    <3>2. j >= p /\ j + c <= Len(h) BY <1>0, <1>2, <1>9, <2>1, <2>3, <2>6
    <3>3. r[j] = h[j + c] BY <2>4, <2>6, <3>2
    <3> DEFINE g == i + c
    <3>4. g \in 1..Len(h) /\ r[i] = h[g] /\ j + c = g + k BY <2>1, <3>1
    <3> HIDE DEF g
    <3>5. k \in 1..Len(h[g].calls) BY <3>4
    <3>6. h[g + k].role = "tool" /\ h[g + k].re = h[g].calls[k] BY <1>1, <3>2, <3>4, <3>5
    <3> QED BY <3>3, <3>4, <3>6
  <2>7. CASE c # 0 /\ i < p
    <3>1. r[i] = h[i] /\ i \in 1..Len(h) /\ p \in 1..Len(h) /\ Len(r) + c = f BY <1>0, <1>2, <2>7
    <3>2. k \in 1..Len(h[i].calls) BY <3>1
    <3>3. CASE j < p
      <4>1. r[j] = h[j] /\ j <= Len(h) BY <2>4, <2>3, <3>1, <3>3
      <4>2. h[i + k].role = "tool" /\ h[i + k].re = h[i].calls[k] BY <1>1, <3>1, <3>2, <4>1
      <4> QED BY <3>1, <4>1, <4>2
    <3>4. CASE j >= p
      <4> DEFINE d == p - i
      <4>0. p \in Nat /\ i < p /\ i + k >= p BY <2>7, <3>1, <3>4
      <4>1. d \in 1..k /\ i + d = p BY <2>1, <4>0
      <4> HIDE DEF d
      <4>2. d \in 1..Len(h[i].calls) BY <3>2, <4>1
      <4>4. i + d <= Len(h) BY <3>1, <4>1
      <4>5. h[i + d].role = "tool" BY <1>1, <3>1, <4>2, <4>4
      <4>3. h[p].role = "tool" BY <4>1, <4>5
      <4> QED BY <1>0, <2>7, <4>3
    <3> QED BY <2>3, <3>1, <3>3, <3>4
  <2> QED BY <1>9, <2>1, <2>5, <2>6, <2>7
<1>4. \A i \in 1..Len(r) : DOMAIN r[i].calls = 1..Len(r[i].calls) BY MessageCalls
<1> QED BY <1>2, <1>3, <1>4 DEF AnsweredSoFar

\* Without its last message, what is answered as far as it goes still is.
LEMMA AnsweredPrefix ==
  ASSUME NEW r \in Seq(Message), NEW x \in Message, AnsweredSoFar(Append(r, x))
  PROVE  AnsweredSoFar(r)
<1> DEFINE g == Append(r, x)
<1>1. /\ Len(r) \in Nat /\ DOMAIN r = 1..Len(r) /\ Len(g) = Len(r) + 1 /\ DOMAIN g = 1..(Len(r) + 1)
      /\ \A i \in 1..Len(r) : g[i] = r[i]
  OBVIOUS
<1>2. AnsweredSoFar(g) OBVIOUS
<1> HIDE DEF g
<1>3. ASSUME NEW i \in DOMAIN r, NEW k \in DOMAIN r[i].calls, i + k <= Len(r)
      PROVE  r[i + k].role = "tool" /\ r[i + k].re = r[i].calls[k]
  <2>1. i \in 1..Len(r) /\ k \in 1..Len(r[i].calls) /\ r[i].calls \in Seq(Nat)
    BY <1>1, <1>3, MessageCalls
  <2>2. k \in Nat /\ i \in Nat /\ i + k \in 1..Len(r) BY <1>1, <1>3, <2>1
  <2>3. i \in DOMAIN g /\ k \in DOMAIN g[i].calls /\ i + k <= Len(g) BY <1>1, <1>3, <2>1, <2>2
  <2>4. g[i + k].role = "tool" /\ g[i + k].re = g[i].calls[k] BY <1>2, <2>3 DEF AnsweredSoFar
  <2> QED BY <1>1, <2>1, <2>2, <2>4
<1> QED BY <1>3 DEF AnsweredSoFar

\* What is recorded of a history stays true as the history goes on.
LEMMA RecordStays ==
  ASSUME NEW h \in Seq(Message), NEW m \in Message, NEW n \in 0..Len(h), NEW c \in 0..2,
         NEW l \in Nat, NEW r \in Seq(Message), RecordOf(r, h, n, l, c)
  PROVE  RecordOf(r, Append(h, m), n, l, c)
<1> DEFINE g == Append(h, m)
<1>1. Len(h) \in Nat /\ \A i \in 1..Len(h) : g[i] = h[i] OBVIOUS
<1> HIDE DEF g
<1>2. /\ c # 0 => l \in 1..(n - 1) /\ h[l + 1].role = "user"
      /\ Len(r) = n - c
      /\ \A i \in 1..Len(r) : r[i] = h[Place(i, l, c)]
  BY DEF RecordOf, Place
<1>3. c # 0 => l \in 1..(n - 1) /\ g[l + 1].role = "user"
  <2> SUFFICES ASSUME c # 0 PROVE l \in 1..(n - 1) /\ g[l + 1].role = "user"
    OBVIOUS
  <2>1. l + 1 \in 1..Len(h) BY <1>1, <1>2
  <2> QED BY <1>1, <1>2, <2>1
<1>4. ASSUME NEW i \in 1..Len(r) PROVE r[i] = g[Place(i, l, c)]
  <2>1. Place(i, l, c) \in 1..Len(h) BY <1>1, <1>2 DEF Place
  <2> QED BY <1>1, <1>2, <2>1
<1> QED BY <1>2, <1>3, <1>4 DEF RecordOf, Place, g

\* The next message recorded too.
LEMMA RecordGrows ==
  ASSUME NEW h, NEW n \in Nat, NEW c \in 0..2, NEW l \in Nat, NEW r \in Seq(Message),
         h[n + 1] \in Message, RecordOf(r, h, n, l, c)
  PROVE  RecordOf(Append(r, h[n + 1]), h, n + 1, l, c)
<1> DEFINE m == h[n + 1]
           s == Append(r, m)
<1>1. m \in Message OBVIOUS
<1> HIDE DEF m
<1>2. /\ Len(r) \in Nat /\ Len(s) = Len(r) + 1 /\ s[Len(r) + 1] = m
      /\ \A i \in 1..Len(r) : s[i] = r[i]
  BY <1>1
<1> HIDE DEF s
<1>3. /\ c # 0 => l \in 1..(n - 1) /\ h[l + 1].role = "user"
      /\ Len(r) = n - c
      /\ \A i \in 1..Len(r) : r[i] = h[Place(i, l, c)]
  BY DEF RecordOf, Place
<1>4. Len(s) = n + 1 - c BY <1>2, <1>3
<1>5. ASSUME NEW i \in 1..Len(s) PROVE s[i] = h[Place(i, l, c)]
  <2>1. CASE i = Len(r) + 1
    <3>1. i = n + 1 - c BY <1>2, <1>3, <2>1
    <3>2. Place(i, l, c) = n + 1 BY <1>3, <3>1 DEF Place
    <3> QED BY <1>2, <2>1, <3>2 DEF m
  <2>2. CASE i # Len(r) + 1
    <3>1. i \in 1..Len(r) BY <1>2, <2>2
    <3> QED BY <1>2, <1>3, <3>1
  <2> QED BY <2>1, <2>2
<1>6. c # 0 => l \in 1..(n + 1 - 1) /\ h[l + 1].role = "user" BY <1>3
<1> QED BY <1>4, <1>5, <1>6 DEF RecordOf, Place, s, m

\* The next message lost, and with it the last recorded one where c is 2.
LEMMA RecordLoses ==
  ASSUME NEW h, NEW l \in Nat, l # 0, NEW r, RecordOf(r, h, l, l, 0), h[l + 1].role = "user",
         NEW c \in 1..2, NEW s \in Seq(Message), Len(s) = l + 1 - c, \A i \in 1..Len(s) : s[i] = r[i]
  PROVE  RecordOf(s, h, l + 1, l, c)
<1>1. Len(r) = l /\ \A i \in 1..Len(r) : r[i] = h[i] BY DEF RecordOf
<1>2. \A i \in 1..Len(s) : s[i] = h[IF c # 0 /\ i > l + 1 - c THEN i + c ELSE i]
  <2> TAKE i \in 1..Len(s)
  <2>1. ~(i > l + 1 - c) /\ i \in 1..Len(r) BY <1>1
  <2> QED BY <1>1, <2>1
<1>3. l \in 1..(l + 1 - 1) OBVIOUS
<1> QED BY <1>2, <1>3 DEF RecordOf

\* A log that is safe to resume from and answered as far as it goes has no open call:
\* behind the last turn with calls there are only results, and for each call one.
LEMMA SafeIsAnswered ==
  ASSUME NEW h \in Seq(Message), \A i \in DOMAIN h : WellFormed(h[i]),
         AnsweredSoFar(h), SafeToResume(h)
  PROVE  AnsweredExcept(h, <<>>)
<1>1. DOMAIN h = 1..Len(h) /\ Len(h) \in Nat OBVIOUS
<1>2. \A i \in 1..Len(h) : /\ h[i].calls \in Seq(Nat)
                           /\ DOMAIN h[i].calls = 1..Len(h[i].calls) /\ Len(h[i].calls) \in Nat
  <2> TAKE i \in 1..Len(h)
  <2>1. h[i].calls \in Seq(Nat) BY MessageCalls
  <2> QED BY <2>1
<1>3. \A i \in 1..Len(h) : \A k \in 1..Len(h[i].calls) :
        i + k <= Len(h) => h[i + k].role = "tool" /\ h[i + k].re = h[i].calls[k]
  BY <1>1, <1>2 DEF AnsweredSoFar
<1>4. ASSUME NEW i \in 1..Len(h), NEW k \in 1..Len(h[i].calls), ~(i + k <= Len(h)) PROVE FALSE
  <2>1. i \in Nat /\ k \in Nat /\ h[i].calls # <<>>
    <3>1. Len(h[i].calls) # 0 BY <1>2
    <3> QED BY <1>2, <3>1
  <2>2. ASSUME NEW j \in 1..Len(h), j > i
        PROVE  /\ j - i \in 1..Len(h[i].calls) /\ j - i < k
               /\ h[j].role = "tool" /\ h[j].re = h[i].calls[j - i] /\ h[j].calls = <<>>
    <3> DEFINE l == j - i
    <3>1. l \in 1..Len(h[i].calls) /\ i + l = j /\ l < k BY <1>1, <1>2, <1>4, <2>1, <2>2
    <3> HIDE DEF l
    <3>2. h[j].role = "tool" /\ h[j].re = h[i].calls[l] BY <1>3, <3>1
    <3>3. h[j].calls = <<>> BY <1>1, <3>2 DEF WellFormed
    <3> QED BY <3>1, <3>2, <3>3 DEF l
  <2>3. \A j \in {l \in DOMAIN h : h[l].calls # <<>>} : j <= i
    BY <1>1, <2>1, <2>2
  <2>4. \E j \in (i + 1)..Len(h) : h[j].role = "tool" /\ h[j].re = h[i].calls[k]
    <3>1. i \in {l \in DOMAIN h : h[l].calls # <<>>} BY <1>1, <2>1
    <3>2. k \in DOMAIN h[i].calls BY <1>2
    <3> QED BY <2>3, <3>1, <3>2, Zenon DEF SafeToResume
  <2>5. PICK j \in (i + 1)..Len(h) : h[j].re = h[i].calls[k] BY <2>4
  <2>6. j \in 1..Len(h) /\ j > i BY <1>1, <2>1
  <2>7. j - i \in 1..Len(h[i].calls) /\ j - i < k /\ h[j].re = h[i].calls[j - i] BY <2>2, <2>6
  <2>8. \A a, b \in 1..Len(h[i].calls) : h[i].calls[a] = h[i].calls[b] => a = b
    BY <1>1, <1>2 DEF WellFormed
  <2> DEFINE l == j - i
  <2>9. l \in 1..Len(h[i].calls) /\ l # k /\ h[j].re = h[i].calls[l] BY <2>1, <2>7
  <2> HIDE DEF l
  <2>10. h[i].calls[l] = h[i].calls[k] BY <2>5, <2>9
  <2> QED BY <2>8, <2>9, <2>10
<1> QED BY <1>1, <1>2, <1>3, <1>4 DEF AnsweredExcept
\* What is rendered of a history stays so as the history goes on.
LEMMA RenderedStays ==
  ASSUME NEW h \in Seq(Message), NEW m \in Message, NEW n \in 0..Len(h), NEW l \in 0..n
  PROVE  Rendered(Append(h, m), l, n) = Rendered(h, l, n)
<1> DEFINE g == Append(h, m)
<1>1. \A i \in 1..Len(h) : g[i] = h[i] OBVIOUS
<1>2. Len(h) \in Nat OBVIOUS
<1> HIDE DEF g
<1>3. \A i \in 1..(n - l) : l + i \in 1..Len(h) BY <1>2
<1>4. \A i \in 1..(n - l) : g[l + i].id = h[l + i].id BY <1>1, <1>3
<1> QED BY <1>4 DEF Rendered, g

\* The next message rendered.
LEMMA RenderedGrows ==
  ASSUME NEW h \in Seq(Message), NEW n \in 0..(Len(h) - 1), NEW l \in 0..n
  PROVE  /\ Rendered(h, l, n) \in Seq(Nat)
         /\ Append(Rendered(h, l, n), h[n + 1].id) = Rendered(h, l, n + 1)
<1> DEFINE Id(i) == h[l + i].id
           k == n - l
           s == Rendered(h, l, n)
           d == h[n + 1].id
<1>1. k \in Nat /\ n + 1 - l = k + 1 /\ l + (k + 1) = n + 1 OBVIOUS
<1>2. \A i \in 1..(k + 1) : Id(i) \in Nat
  <2> TAKE i \in 1..(k + 1)
  <2>1. l + i \in 1..Len(h) OBVIOUS
  <2>2. h[l + i] \in Message BY <2>1, ElementOfSeq
  <2> QED BY <2>2 DEF Message
<1>3. d = Id(k + 1) /\ k + 1 \in 1..(k + 1) BY <1>1
<1>4. s = [i \in 1..k |-> Id(i)] /\ Rendered(h, l, n + 1) = [i \in 1..(k + 1) |-> Id(i)]
  BY <1>1 DEF Rendered
<1> HIDE DEF Id, k, s, d
<1>5. d \in Nat BY <1>2, <1>3
<1>6. s \in Seq(Nat) /\ Len(s) = k /\ \A i \in 1..k : s[i] = Id(i) BY <1>1, <1>2, <1>4
<1> DEFINE u == Append(s, d)
<1>7. /\ u \in Seq(Nat) /\ Len(u) = k + 1 /\ u[k + 1] = d
      /\ \A i \in 1..k : u[i] = s[i]
  BY <1>1, <1>5, <1>6
<1> HIDE DEF u
<1>8. \A i \in 1..(k + 1) : u[i] = Id(i)
  <2> TAKE i \in 1..(k + 1)
  <2>1. i \in 1..k \/ i = k + 1 BY <1>1
  <2> QED BY <1>3, <1>6, <1>7, <2>1
<1>9. u = [i \in 1..(k + 1) |-> u[i]] BY <1>7
<1>10. u = [i \in 1..(k + 1) |-> Id(i)] BY <1>8, <1>9
<1> QED BY <1>4, <1>6, <1>10 DEF s, u, d

-----------------------------------------------------------------------------
(* The steps of the loop                                                   *)

\* What a step of the loop does to the history and the phase.
LEMMA LoopHistory ==
  ASSUME LoopShape, Submit \/ ChangeSpore \/ McpServerExits \/ Quit \/ LoopStep
  PROVE  /\ phase # "ended"
         /\ \/ /\ history' = history
               /\ phase' \in {phase, "ended"} \/ phase \in {"request", "invoke"}
               /\ phase' # phase => phase' # "prompt"
            \/ /\ \E m \in Message : history' = Append(history, m) /\ WellFormed(m)
                                     /\ (phase = "prompt" => m.role = "user")
               /\ phase \in {"prompt", "stream", "invoke"}
               /\ phase' \in {"request", "invoke", "turnDone"}
<1>0. TypeOK /\ RunningIsHead BY DEF LoopShape
<1>1. CASE Submit
  <2> DEFINE m == User(fresh)
  <2>1. m \in Message BY <1>0 DEF User, Message, TypeOK
  <2>2. m.calls = <<>> /\ m.role = "user" /\ m.reasoning = FALSE BY DEF User
  <2>3. WellFormed(m)
    <3>1. DOMAIN m.calls = {} BY <2>2
    <3> QED BY <2>2, <3>1 DEF WellFormed
  <2> HIDE DEF m
  <2>4. history' = Append(history, m) /\ phase = "prompt" /\ phase' = "request"
    BY <1>1 DEF Submit, m
  <2> QED BY <2>1, <2>2, <2>3, <2>4
<1>2. CASE ChangeSpore BY <1>2 DEF ChangeSpore
<1>3. CASE McpServerExits BY <1>3 DEF McpServerExits
<1>4. CASE Quit BY <1>4 DEF Quit
<1>5. CASE PrepareRequest BY <1>5 DEF PrepareRequest
<1>6. CASE StreamEnds
  <2>1. PICK m \in Message :
          /\ history' = Append(history, m)
          /\ m.role = "assistant" /\ (m.reasoning => m.calls # <<>>)
          /\ \A k \in 1..Len(m.calls) : m.calls[k] = fresh + k
          /\ phase' = IF m.calls = <<>> THEN "turnDone" ELSE "invoke"
    BY <1>0, <1>6, StreamFacts
  <2>2. phase = "stream" BY <1>6 DEF StreamEnds
  <2>3. WellFormed(m)
    <3>1. m.calls \in Seq(Nat) /\ fresh \in Nat BY <1>0 DEF Message, TypeOK
    <3>2. DOMAIN m.calls = 1..Len(m.calls) /\ Len(m.calls) \in Nat BY <3>1
    <3>3. ASSUME NEW a \in DOMAIN m.calls, NEW b \in DOMAIN m.calls, m.calls[a] = m.calls[b]
          PROVE  a = b
      <4>1. a \in Nat /\ b \in Nat /\ m.calls[a] = fresh + a /\ m.calls[b] = fresh + b
        BY <2>1, <3>2
      <4>2. a \in Nat /\ b \in Nat BY <4>1
      <4>3. fresh \in Nat BY <3>1
      <4>4. fresh + a = fresh + b BY <3>3, <4>1
      <4> QED BY <4>2, <4>3, <4>4
    <3> QED BY <2>1, <3>3 DEF WellFormed
  <2> QED BY <2>1, <2>2, <2>3
<1>7. ASSUME NEW c \in Call, NEW b \in BOOLEAN, batch # <<>>, Answer(c, b),
             phase = "invoke", phase' = "invoke"
      PROVE  \E m \in Message : history' = Append(history, m) /\ WellFormed(m)
                                /\ (phase = "prompt" => m.role = "user")
  <2> DEFINE m == Result(fresh, c, b)
  <2>1. m \in Message /\ history' = Append(history, m) BY <1>0, <1>7, AnswerFacts
  <2>2. m.calls = <<>> /\ m.reasoning = FALSE BY DEF Result
  <2>3. WellFormed(m)
    <3>1. DOMAIN m.calls = {} BY <2>2
    <3> QED BY <2>2, <3>1 DEF WellFormed
  <2> HIDE DEF m
  <2> QED BY <1>7, <2>1, <2>3
<1>8. CASE DenyTool
  <2>1. batch # <<>> /\ Answer(Head(batch), FALSE) /\ phase = "invoke" /\ phase' = "invoke"
    BY <1>8, Zenon DEF DenyTool
  <2>2. Head(batch) \in Call BY <1>0, <2>1 DEF TypeOK
  <2> QED BY <1>7, <2>1, <2>2
<1>9. CASE StartTool BY <1>9 DEF StartTool
<1>10. CASE ToolReturns
  <2>1. batch # <<>> /\ running \in Call /\ phase = "invoke" /\ phase' = "invoke"
    BY <1>0, <1>10 DEF ToolReturns, RunningIsHead, TypeOK
  <2>2. PICK b \in BOOLEAN : Answer(running, b) BY <1>10 DEF ToolReturns
  <2> QED BY <1>7, <2>1, <2>2
<1>11. CASE NextIteration BY <1>11 DEF NextIteration
<1> QED BY <1>1, <1>2, <1>3, <1>4, <1>5, <1>6, <1>8, <1>9, <1>10, <1>11 DEF LoopStep

\* What an empty stretch of a history renders.
LEMMA RenderedNone ==
  ASSUME NEW h, NEW l \in Nat
  PROVE  Rendered(h, l, l) = <<>>
<1>1. 1..(l - l) = {} OBVIOUS
<1> QED BY <1>1 DEF Rendered

\* The numbers of a session.
LEMMA SessionFacts ==
  ASSUME LogInv
  PROVE  /\ history \in Seq(Message) /\ Len(history) \in Nat /\ DOMAIN history = 1..Len(history)
         /\ flushed \in 0..Len(history) /\ flushed \in Nat /\ flushed <= Len(history)
         /\ loaded \in 0..flushed /\ loaded \in Nat /\ loaded <= flushed
         /\ lines \in Seq(Line) /\ Len(lines) \in Nat /\ DOMAIN lines = 1..Len(lines)
         /\ transcript \in Seq(Nat)
         /\ Recorded \in Seq(Message) /\ Len(Recorded) \in Nat
         /\ DOMAIN Recorded = 1..Len(Recorded)
         /\ \A k \in 1..Len(Recorded) : WellFormed(Recorded[k])
<1>1. /\ history \in Seq(Message) /\ flushed \in 0..Len(history) /\ loaded \in 0..flushed
      /\ lines \in Seq(Line) /\ transcript \in Seq(Nat)
  BY DEF LogInv, SessionTypeOK, TypeOK
<1>2. Recorded \in Seq(Message) /\
      \A k \in 1..Len(Recorded) : \E i \in 1..Len(lines) : Recorded[k] = lines[i].msg
  BY <1>1, ParsedMessages DEF Recorded
<1>3. \A i \in 1..Len(lines) : WellFormed(lines[i].msg)
  BY <1>1 DEF LogInv, MessagesWellFormed
<1>4. \A k \in 1..Len(Recorded) : WellFormed(Recorded[k])
  <2> TAKE k \in 1..Len(Recorded)
  <2>1. PICK i \in 1..Len(lines) : Recorded[k] = lines[i].msg BY <1>2
  <2> QED BY <1>3, <2>1
<1>5. /\ Len(history) \in Nat /\ flushed \in Nat /\ flushed <= Len(history)
      /\ loaded \in Nat /\ loaded <= flushed
  BY <1>1
<1> QED BY <1>1, <1>2, <1>4, <1>5

\* A step of the loop, and one that leaves it alone, keeps what a running process does.
LEMMA LoopKeeps ==
  ASSUME LogInv, phase # "ended", [Next]_vars, resultLost => resultLost'
  PROVE  TypeOK' /\ LoopRuns' /\ AnsweredUnlessLost'
<1>1. LoopShape /\ AnsweredUnlessLost BY DEF LogInv, LoopRuns
<1>2. LoopShape' BY <1>1, ShapeStep
<1>3. TypeOK' /\ LoopRuns' BY <1>2 DEF LoopShape, LoopRuns
<1>4. CASE resultLost BY <1>3, <1>4 DEF AnsweredUnlessLost
<1>5. CASE ~resultLost
  <2>1. CallsAnswered BY <1>1, <1>5 DEF AnsweredUnlessLost
  <2>2. CallsAnswered' BY <1>1, <2>1, AnsweredStays
  <2> QED BY <1>3, <2>2 DEF AnsweredUnlessLost
<1> QED BY <1>4, <1>5

\* A step of the loop keeps the log true: it adds to the history behind what is logged.
LEMMA ProcessKeeps == LogInv /\ ProcessStep => LogInv'
<1> SUFFICES ASSUME LogInv, ProcessStep PROVE LogInv'
  OBVIOUS
<1>0. /\ SessionTypeOK /\ LoopRuns /\ MessagesWellFormed /\ TornLine /\ LogIsCurrent
      /\ TurnLogged /\ TranscriptIsCurrent /\ RecordAnswered
  BY DEF LogInv
<1>1. Submit \/ ChangeSpore \/ McpServerExits \/ Quit \/ LoopStep BY DEF ProcessStep
<1>2. UNCHANGED <<lines, tail, transcript, mdStarted, mdDone, flushed, loaded, resultLost, resumes>>
  BY DEF ProcessStep, logVars
<1>3. phase # "ended"
  BY <1>1 DEF Submit, ChangeSpore, McpServerExits, Quit, LoopStep, PrepareRequest, StreamEnds,
     DenyTool, StartTool, ToolReturns, NextIteration
<1>4. LoopShape BY <1>0, <1>3 DEF LoopRuns
<1>5. TypeOK' /\ LoopRuns' /\ AnsweredUnlessLost'
  <2>1. Next BY <1>1 DEF Next
  <2> QED BY <1>2, <1>3, <2>1, LoopKeeps
<1>7. /\ history \in Seq(Message) /\ Len(history) \in Nat /\ DOMAIN history = 1..Len(history)
      /\ flushed \in 0..Len(history) /\ flushed \in Nat /\ flushed <= Len(history)
      /\ loaded \in 0..flushed /\ loaded \in Nat /\ loaded <= flushed
      /\ Recorded \in Seq(Message)
  BY SessionFacts
<1>8. Recorded' = Recorded BY <1>2 DEF Recorded
<1>9. TornLine' /\ RecordAnswered'
  BY <1>0, <1>2, <1>8 DEF TornLine, RecordAnswered, AnsweredSoFar
<1>10. /\ phase = "prompt" => flushed = Len(history)
       /\ phase \in {"request", "stream", "invoke"} => flushed < Len(history) /\ ~mdDone
       /\ mdDone => mdStarted /\ flushed < Len(history) /\ phase = "turnDone"
  BY <1>0, <1>3 DEF TurnLogged
<1>11. CASE /\ history' = history
            /\ phase' \in {phase, "ended"} \/ phase \in {"request", "invoke"}
            /\ phase' # phase => phase' # "prompt"
  <2>1. SessionTypeOK' BY <1>0, <1>2, <1>5, <1>11 DEF SessionTypeOK
  <2>2. MessagesWellFormed' BY <1>0, <1>2, <1>11 DEF MessagesWellFormed, WellFormed
  <2>3. LogIsCurrent'
    BY <1>0, <1>2, <1>3, <1>8, <1>11, Zenon DEF LogIsCurrent
  <2>4. TurnLogged'
    <3>1. phase' \in {"prompt", "request", "stream", "invoke", "turnDone", "ended"} BY <1>5 DEF TypeOK
    <3> QED BY <1>2, <1>10, <1>11, <3>1 DEF TurnLogged
  <2>5. TranscriptIsCurrent' BY <1>0, <1>2, <1>11, Zenon DEF TranscriptIsCurrent, Ahead
  <2> QED BY <1>5, <1>9, <2>1, <2>2, <2>3, <2>4, <2>5 DEF LogInv
<1>12. ASSUME NEW m \in Message, history' = Append(history, m), WellFormed(m),
              phase = "prompt" => m.role = "user",
              phase \in {"prompt", "stream", "invoke"},
              phase' \in {"request", "invoke", "turnDone"}
       PROVE  LogInv'
  <2>0. /\ history' \in Seq(Message) /\ Len(history') = Len(history) + 1
        /\ DOMAIN history' = 1..(Len(history) + 1) /\ history'[Len(history) + 1] = m
        /\ \A i \in 1..Len(history) : history'[i] = history[i]
    BY <1>7, <1>12
  <2>1. SessionTypeOK'
    <3>1. flushed' \in 0..Len(history)' BY <1>2, <1>7, <2>0
    <3> QED BY <1>0, <1>2, <1>5, <3>1 DEF SessionTypeOK
  <2>2. MessagesWellFormed'
    <3>1. ASSUME NEW i \in DOMAIN history' PROVE WellFormed(history'[i])
      <4>1. CASE i = Len(history) + 1 BY <1>12, <2>0, <4>1
      <4>2. CASE i # Len(history) + 1
        <5>1. i \in 1..Len(history) BY <1>7, <2>0, <4>2
        <5>2. WellFormed(history[i]) BY <1>0, <1>7, <5>1 DEF MessagesWellFormed
        <5> QED BY <2>0, <5>1, <5>2
      <4> QED BY <4>1, <4>2
    <3>2. \A i \in DOMAIN lines' : WellFormed(lines'[i].msg) BY <1>0, <1>2 DEF MessagesWellFormed
    <3> QED BY <3>1, <3>2 DEF MessagesWellFormed, WellFormed
  <2>3. LogIsCurrent'
    <3>0. /\ Len(history) \in Nat /\ flushed \in Nat /\ loaded \in Nat
          /\ loaded <= flushed /\ flushed <= Len(history)
      BY <1>7
    <3>1. PICK c \in 0..2 :
            /\ RecordOf(Recorded, history, flushed, loaded, c)
            /\ c = 2 => resultLost \/ history[loaded].role # "tool"
            /\ flushed = loaded => c = 0
      BY <1>0, <1>3 DEF LogIsCurrent
    <3>2. RecordOf(Recorded', history', flushed', loaded', c)
      <4>1. RecordOf(Recorded, Append(history, m), flushed, loaded, c)
        BY <1>7, <3>1, RecordStays
      <4> QED BY <1>2, <1>8, <1>12, <4>1
    <3>3. c = 2 => resultLost' \/ history'[loaded'].role # "tool"
      <4> SUFFICES ASSUME c = 2 PROVE resultLost' \/ history'[loaded'].role # "tool"
        OBVIOUS
      <4>1. loaded \in 1..(flushed - 1) BY <3>1 DEF RecordOf
      <4>2. loaded \in 1..Len(history) BY <1>7, <4>1
      <4>3. history'[loaded] = history[loaded] BY <2>0, <4>2
      <4> QED BY <1>2, <3>1, <4>3
    <3>4. loaded' < Len(history') => history'[loaded' + 1].role = "user"
      <4>1. CASE loaded < Len(history)
        <5>1. history[loaded + 1].role = "user" BY <1>0, <1>3, <4>1 DEF LogIsCurrent
        <5>2. loaded + 1 \in 1..Len(history) BY <1>7, <4>1
        <5> QED BY <1>2, <2>0, <5>1, <5>2
      <4>2. CASE loaded = Len(history)
        <5>1. flushed = Len(history) BY <3>0, <4>2
        <5>2. phase = "prompt" BY <3>0, <1>10, <1>12, <5>1
        <5> QED BY <1>2, <1>12, <2>0, <4>2, <5>2
      <4>3. loaded < Len(history) \/ loaded = Len(history) BY <3>0
      <4> QED BY <4>1, <4>2, <4>3
    <3>5. tail' # "newline" => flushed' = loaded' /\ loaded' # 0
      BY <1>0, <1>2, <1>3 DEF LogIsCurrent
    <3>6. flushed' = loaded' => c = 0 BY <1>2, <3>1
    <3> QED BY <3>2, <3>3, <3>4, <3>5, <3>6, Zenon DEF LogIsCurrent
  <2>4. TurnLogged'
    <3>1. flushed < Len(history') BY <1>7, <2>0
    <3>2. ~mdDone \/ (mdDone /\ mdStarted /\ phase' = "turnDone") BY <1>10, <1>12
    <3> QED BY <1>2, <1>12, <3>1, <3>2 DEF TurnLogged
  <2>5. TranscriptIsCurrent'
    <3>1. Ahead' = Ahead BY <1>2 DEF Ahead
    <3>2. CASE mdStarted
      <4>1. flushed + Ahead \in 0..Len(history) /\ loaded \in 0..(flushed + Ahead)
        <5>1. CASE mdDone
          <6>1. flushed < Len(history) BY <1>10, <5>1
          <6>2. flushed + 1 \in 0..Len(history) /\ loaded \in 0..(flushed + 1) BY <1>7, <6>1
          <6> QED BY <5>1, <6>2 DEF Ahead
        <5>2. CASE ~mdDone
          <6>1. flushed + 0 \in 0..Len(history) /\ loaded \in 0..(flushed + 0) BY <1>7
          <6> QED BY <5>2, <6>1 DEF Ahead
        <5> QED BY <5>1, <5>2
      <4>2. Rendered(Append(history, m), loaded, flushed + Ahead) = Rendered(history, loaded, flushed + Ahead)
        BY <1>7, <4>1, RenderedStays
      <4>3. transcript = Rendered(history, loaded, flushed + Ahead)
        BY <1>0, <3>2 DEF TranscriptIsCurrent
      <4>4. transcript' = Rendered(history', loaded', flushed' + Ahead')
        BY <1>2, <1>12, <3>1, <4>2, <4>3
      <4> QED BY <1>2, <3>2, <4>4 DEF TranscriptIsCurrent
    <3>3. CASE ~mdStarted BY <1>0, <1>2, <3>3 DEF TranscriptIsCurrent
    <3> QED BY <3>2, <3>3
  <2> QED BY <1>5, <1>9, <2>1, <2>2, <2>3, <2>4, <2>5 DEF LogInv
<1> QED BY <1>1, <1>4, <1>11, <1>12, LoopHistory
-----------------------------------------------------------------------------
(* The steps of the log                                                    *)

\* Cutting the last line of a file: what is before it stays.
LEMMA LastLineCut ==
  ASSUME NEW ls \in Seq(Line), ls # <<>>
  PROVE  \E f \in Seq(Line) :
           /\ ls = Append(f, ls[Len(ls)])
           /\ [ls EXCEPT ![Len(ls)].parses = FALSE] = Append(f, [ls[Len(ls)] EXCEPT !.parses = FALSE])
<1> DEFINE n == Len(ls)
           f == SubSeq(ls, 1, n - 1)
           l == ls[n]
           cut == [l EXCEPT !.parses = FALSE]
           g == [ls EXCEPT ![n] = cut]
<1>1. n \in Nat /\ n # 0 /\ n \in 1..n /\ ls \in Seq(Line) OBVIOUS
<1>2. l \in Line BY <1>1, ElementOfSeq
<1>3. cut \in Line BY <1>2 DEF Line
<1>4. [ls EXCEPT ![Len(ls)].parses = FALSE] = g OBVIOUS
<1>5. /\ g \in Seq(Line) /\ Len(g) = n /\ g[n] = cut
      /\ \A i \in 1..(n - 1) : g[i] = ls[i]
  <2> HIDE DEF cut
  <2> QED BY <1>1, <1>3
<1>6. f \in Seq(Line) /\ Len(f) = n - 1 /\ \A i \in 1..(n - 1) : f[i] = ls[i]
  <2>1. f \in Seq(Line) BY <1>1
  <2>2. Len(f) = n - 1 BY <1>1
  <2>3. \A i \in 1..(n - 1) : f[i] = ls[i]
    <3> TAKE i \in 1..(n - 1)
    <3>1. f[i] = ls[1 + i - 1] /\ 1 + i - 1 = i BY <1>1, <2>2
    <3> QED BY <3>1
  <2> QED BY <2>1, <2>2, <2>3
<1> HIDE DEF cut, g, f, l
<1>7. ASSUME NEW s \in Seq(Line), Len(s) = n, \A i \in 1..(n - 1) : s[i] = ls[i]
      PROVE  s = Append(f, s[n])
  <2> DEFINE e == s[n]
             t == Append(f, e)
  <2>1. e \in Line BY <1>1, <1>7, ElementOfSeq
  <2> HIDE DEF e
  <2>2. t \in Seq(Line) /\ Len(t) = n /\ t[n] = e /\ \A i \in 1..(n - 1) : t[i] = f[i]
    BY <1>1, <1>6, <2>1
  <2> HIDE DEF t
  <2>3. \A i \in 1..n : t[i] = s[i]
    <3> TAKE i \in 1..n
    <3>1. i \in 1..(n - 1) \/ i = n BY <1>1
    <3> QED BY <1>6, <1>7, <2>2, <3>1 DEF e
  <2>4. t = [i \in 1..n |-> t[i]] /\ s = [i \in 1..n |-> s[i]] BY <1>7, <2>2
  <2>5. t = s BY <2>3, <2>4
  <2> QED BY <2>5 DEF t, e
<1>8. ls = Append(f, ls[n]) BY <1>1, <1>7
<1>9. g = Append(f, cut) BY <1>5, <1>7
<1> QED BY <1>4, <1>6, <1>8, <1>9 DEF cut, l

\* Appending a line, whole or torn, to a file whose last line is whole or torn: behind a
\* whole line it is recorded unless it is cut short, and behind a torn line it is not; if
\* that one lacked but its newline, it is not recorded any more either.
LEMMA LineAppended ==
  ASSUME LogInv, NEW m \in Message, WellFormed(m),
         NEW left \in {"newline", "partial", "unterminated"}, AppendLine(m, left)
  PROVE  /\ lines' \in Seq(Line) /\ tail' \in {"newline", "partial", "unterminated"}
         /\ left # "unterminated" => tail' = left
         /\ resultLost' \in BOOLEAN /\ (resultLost => resultLost')
         /\ \A i \in DOMAIN lines' : WellFormed(lines'[i].msg)
         /\ TornLine'
         /\ tail = "newline" => Recorded' = IF left = "partial" THEN Recorded ELSE Append(Recorded, m)
         /\ tail = "partial" => Recorded' = Recorded
         /\ tail = "unterminated" =>
              \E x \in Message : Recorded = Append(Recorded', x) /\ (x.role = "tool" => resultLost')
<1>1. lines \in Seq(Line) /\ Len(lines) \in Nat /\ DOMAIN lines = 1..Len(lines)
  BY SessionFacts
<1>2. tail \in {"newline", "partial", "unterminated"} /\ resultLost \in BOOLEAN
  BY DEF LogInv, SessionTypeOK
<1>3. \A i \in 1..Len(lines) : WellFormed(lines[i].msg)
  BY <1>1 DEF LogInv, MessagesWellFormed
<1>4. /\ tail' = IF tail # "newline" /\ left = "unterminated" THEN "partial" ELSE left
      /\ resultLost' =
           (resultLost \/ (tail = "unterminated" /\ lines[Len(lines)].msg.role = "tool"))
  BY DEF AppendLine
<1>5. /\ tail' \in {"newline", "partial", "unterminated"} /\ (left # "unterminated" => tail' = left)
      /\ resultLost' \in BOOLEAN /\ (resultLost => resultLost')
      /\ tail = "unterminated" /\ lines[Len(lines)].msg.role = "tool" => resultLost'
  BY <1>2, <1>4
<1>6. CASE tail = "newline"
  <2> DEFINE l == [msg |-> m, parses |-> left # "partial"]
  <2>1. lines' = Append(lines, l) BY <1>6 DEF AppendLine
  <2>2. l \in Line /\ l.msg = m /\ (l.parses <=> left # "partial")
    <3>1. (left # "partial") \in BOOLEAN OBVIOUS
    <3>2. l.msg = m /\ l.parses = (left # "partial") OBVIOUS
    <3>3. l \in Line BY <3>1 DEF Line
    <3> QED BY <3>1, <3>2, <3>3
  <2>a. l.parses \in BOOLEAN BY <2>2 DEF Line
  <2> HIDE DEF l
  <2>3. /\ lines' \in Seq(Line) /\ Len(lines') = Len(lines) + 1
        /\ DOMAIN lines' = 1..(Len(lines) + 1) /\ lines'[Len(lines) + 1] = l
        /\ \A i \in 1..Len(lines) : lines'[i] = lines[i]
    BY <1>1, <2>1, <2>2
  <2>4. \A i \in DOMAIN lines' : WellFormed(lines'[i].msg)
    <3> TAKE i \in DOMAIN lines'
    <3>1. CASE i = Len(lines) + 1
      <4>1. lines'[i].msg = m BY <2>2, <2>3, <3>1
      <4> QED BY <4>1
    <3>2. CASE i # Len(lines) + 1
      <4>1. i \in 1..Len(lines) BY <1>1, <2>3, <3>2
      <4>2. lines'[i].msg = lines[i].msg BY <2>3, <4>1
      <4> QED BY <1>3, <4>1, <4>2
    <3> QED BY <3>1, <3>2
  <2>5. TornLine'
    <3>1. tail' = left BY <1>4, <1>6
    <3>2. lines' # <<>> /\ lines'[Len(lines')] = l
      <4>1. Len(lines') # 0 BY <1>1, <2>3
      <4> QED BY <2>3, <4>1
    <3>3. left # "newline" => l.parses = (left = "unterminated") BY <2>2, <2>a
    <3> QED BY <3>1, <3>2, <3>3 DEF TornLine
  <2>6. Recorded' = IF l.parses THEN Append(Recorded, m) ELSE Recorded
    <3>1. Recorded' = Parsed(Append(lines, l)) BY <2>1 DEF Recorded
    <3>2. Parsed(Append(lines, l)) = IF l.parses THEN Append(Parsed(lines), l.msg) ELSE Parsed(lines)
      BY <1>1, <2>2, ParsedAppend
    <3> QED BY <2>2, <3>1, <3>2 DEF Recorded
  <2> QED BY <1>5, <1>6, <2>2, <2>3, <2>4, <2>5, <2>6
<1>7. CASE tail # "newline"
  <2> DEFINE l == lines[Len(lines)]
             cut == [l EXCEPT !.parses = FALSE]
  <2>1. lines # <<>> /\ l.parses = (tail = "unterminated") BY <1>7 DEF LogInv, TornLine
  <2>2. lines' = [lines EXCEPT ![Len(lines)].parses = FALSE] BY <1>7 DEF AppendLine
  <2>3. PICK f \in Seq(Line) : lines = Append(f, l) /\ lines' = Append(f, cut)
    BY <1>1, <2>1, <2>2, LastLineCut
  <2>4. Len(lines) \in 1..Len(lines)
    <3>1. Len(lines) # 0 BY <1>1, <2>1
    <3> QED BY <1>1, <3>1
  <2>5. l \in Line BY <1>1, <2>4, ElementOfSeq
  <2>6. WellFormed(l.msg) BY <1>3, <2>4
  <2>7. cut \in Line /\ cut.msg = l.msg /\ cut.parses = FALSE BY <2>5 DEF Line
  <2>8. l.msg \in Message /\ l.parses \in BOOLEAN BY <2>5 DEF Line
  <2>9. tail = "unterminated" /\ l.msg.role = "tool" => resultLost' BY <1>5
  <2> DEFINE k == Len(f)
  <2>10. /\ k \in Nat /\ Len(lines) = k + 1 /\ DOMAIN f = 1..k
         /\ \A i \in 1..k : lines[i] = f[i]
    <3> HIDE DEF l
    <3> QED BY <2>3, <2>5
  <2> HIDE DEF l, cut
  <2>11. /\ lines' \in Seq(Line) /\ Len(lines') = k + 1 /\ DOMAIN lines' = 1..(k + 1)
         /\ lines'[k + 1] = cut /\ \A i \in 1..k : lines'[i] = f[i]
    BY <2>3, <2>7
  <2>12. \A i \in DOMAIN lines' : WellFormed(lines'[i].msg)
    <3> TAKE i \in DOMAIN lines'
    <3>1. CASE i = k + 1 BY <2>6, <2>7, <2>11, <3>1
    <3>2. CASE i # k + 1
      <4>1. i \in 1..k BY <2>10, <2>11, <3>2
      <4>2. lines'[i] = lines[i] /\ i \in 1..Len(lines) BY <2>10, <2>11, <4>1
      <4> QED BY <1>3, <4>2
    <3> QED BY <3>1, <3>2
  <2>13. TornLine'
    <3>1. tail' \in {"newline", "partial"} BY <1>4, <1>7
    <3>2. lines' # <<>> /\ lines'[Len(lines')].parses = FALSE
      <4>1. Len(lines') # 0 BY <2>10, <2>11
      <4> QED BY <2>7, <2>11, <4>1
    <3> QED BY <3>1, <3>2 DEF TornLine
  <2>14. Recorded' = Parsed(f)
    <3>1. Parsed(Append(f, cut)) = Parsed(f) BY <2>7, ParsedAppend
    <3> QED BY <2>3, <3>1 DEF Recorded
  <2>15. Recorded = IF l.parses THEN Append(Parsed(f), l.msg) ELSE Parsed(f)
    <3>1. Parsed(Append(f, l)) = IF l.parses THEN Append(Parsed(f), l.msg) ELSE Parsed(f)
      BY <2>5, ParsedAppend
    <3> QED BY <2>3, <3>1 DEF Recorded
  <2>16. tail = "partial" => Recorded' = Recorded BY <2>1, <2>14, <2>15 DEF l
  <2>17. tail = "unterminated" => Recorded = Append(Recorded', l.msg)
    BY <2>1, <2>14, <2>15 DEF l
  <2> QED BY <1>5, <1>7, <2>8, <2>9, <2>11, <2>12, <2>13, <2>16, <2>17
<1> QED BY <1>6, <1>7

\* Writing the .md, before a line of the .jsonl, keeps it what this process has logged.
LEMMA MarkdownKeeps == LogInv /\ (WriteHeader \/ AppendMarkdown) => LogInv'
<1> SUFFICES ASSUME LogInv, WriteHeader \/ AppendMarkdown PROVE LogInv'
  OBVIOUS
<1>0. /\ SessionTypeOK /\ LoopRuns /\ MessagesWellFormed /\ TornLine /\ LogIsCurrent
      /\ TurnLogged /\ TranscriptIsCurrent /\ RecordAnswered
  BY DEF LogInv
<1>1. /\ UNCHANGED <<vars, lines, tail, flushed, loaded, resultLost, resumes>>
      /\ phase = "turnDone" /\ flushed < Len(history)
  BY DEF WriteHeader, AppendMarkdown
<1>2. /\ UNCHANGED <<phase, history, iter, role, offered, batch, running, tools, allowlist, fresh, prompts>>
      /\ Recorded' = Recorded
  BY <1>1 DEF vars, Recorded
<1>3. TypeOK' /\ LoopRuns' /\ AnsweredUnlessLost' BY <1>1, LoopKeeps
<1>5. MessagesWellFormed' BY <1>0, <1>1, <1>2 DEF MessagesWellFormed, WellFormed
<1>6. TornLine' /\ RecordAnswered'
  BY <1>0, <1>1, <1>2 DEF TornLine, RecordAnswered, AnsweredSoFar
<1>7. LogIsCurrent'
  BY <1>0, <1>1, <1>2, Zenon DEF LogIsCurrent
<1>8. /\ transcript \in Seq(Nat) /\ flushed \in Nat /\ Len(history) \in Nat
      /\ history \in Seq(Message) /\ loaded \in 0..flushed /\ loaded \in Nat
  BY SessionFacts
<1>9. CASE WriteHeader
  <2>1. mdStarted' = TRUE /\ transcript' = <<>> /\ mdDone' = mdDone /\ ~mdStarted BY <1>9 DEF WriteHeader
  <2>2. ~mdDone BY <1>0, <2>1 DEF TurnLogged
  <2>3. <<>> \in Seq(Nat) OBVIOUS
  <2>4. SessionTypeOK' BY <1>0, <1>1, <1>2, <1>3, <2>1, <2>3 DEF SessionTypeOK
  <2>5. TurnLogged' BY <1>0, <1>1, <1>2, <2>1, <2>2 DEF TurnLogged
  <2>6. TranscriptIsCurrent'
    <3>1. flushed = loaded BY <1>0, <2>1 DEF TranscriptIsCurrent
    <3>2. flushed' + Ahead' = loaded BY <1>1, <1>8, <2>1, <2>2, <3>1 DEF Ahead
    <3>3. Rendered(history', loaded, loaded) = <<>> BY <1>8, RenderedNone
    <3>4. transcript' = Rendered(history', loaded', flushed' + Ahead') BY <1>1, <2>1, <3>2, <3>3
    <3> QED BY <2>1, <3>4 DEF TranscriptIsCurrent
  <2> QED BY <1>3, <1>5, <1>6, <1>7, <2>4, <2>5, <2>6 DEF LogInv
<1>10. CASE AppendMarkdown
  <2> DEFINE d == history[flushed + 1].id
  <2>1. /\ mdStarted /\ ~mdDone /\ mdStarted' = mdStarted /\ mdDone' = TRUE
        /\ transcript' = Append(transcript, d)
    BY <1>10 DEF AppendMarkdown
  <2>2. d \in Nat
    <3>1. flushed + 1 \in 1..Len(history) BY <1>1, <1>8
    <3>2. history[flushed + 1] \in Message BY <1>8, <3>1, ElementOfSeq
    <3> QED BY <3>2 DEF Message
  <2> HIDE DEF d
  <2>3. transcript' \in Seq(Nat) BY <1>8, <2>1, <2>2
  <2>4. SessionTypeOK' BY <1>0, <1>1, <1>2, <1>3, <2>1, <2>3 DEF SessionTypeOK
  <2>5. TurnLogged'
    <3>1. flushed' < Len(history') /\ phase' = "turnDone" /\ mdStarted' = TRUE BY <1>1, <1>2, <1>0, <2>1 DEF SessionTypeOK
    <3> QED BY <3>1 DEF TurnLogged
  <2>6. TranscriptIsCurrent'
    <3>1. flushed' + Ahead' = flushed + 1 BY <1>1, <2>1 DEF Ahead
    <3>2. transcript = Rendered(history, loaded, flushed)
      <4>1. flushed + Ahead = flushed BY <1>8, <2>1 DEF Ahead
      <4>2. transcript = Rendered(history, loaded, flushed + Ahead) BY <1>0, <2>1 DEF TranscriptIsCurrent
      <4> QED BY <4>1, <4>2
    <3>3. flushed \in 0..(Len(history) - 1) BY <1>1, <1>8
    <3>4. Append(transcript, d) = Rendered(history, loaded, flushed + 1)
      BY <1>8, <3>2, <3>3, RenderedGrows DEF d
    <3>5. transcript' = Rendered(history', loaded', flushed' + Ahead') BY <1>1, <1>2, <2>1, <3>1, <3>4
    <3> QED BY <2>1, <3>5 DEF TranscriptIsCurrent
  <2> QED BY <1>3, <1>5, <1>6, <1>7, <2>4, <2>5, <2>6 DEF LogInv
<1> QED BY <1>9, <1>10

\* Logging the next message: behind a whole line it is recorded, behind a torn one, where
\* it is the first of this process, it is lost, and perhaps the one before it too.
LEMMA JsonlKeeps == LogInv /\ AppendJsonl => LogInv'
<1> SUFFICES ASSUME LogInv, AppendJsonl PROVE LogInv'
  OBVIOUS
<1>0. /\ SessionTypeOK /\ LoopRuns /\ MessagesWellFormed /\ TornLine /\ LogIsCurrent
      /\ TurnLogged /\ TranscriptIsCurrent /\ RecordAnswered
  BY DEF LogInv
<1> DEFINE m == history[flushed + 1]
<1>1. /\ UNCHANGED <<vars, transcript, mdStarted, loaded, resumes>>
      /\ phase = "turnDone" /\ mdDone /\ mdDone' = FALSE /\ flushed' = flushed + 1
      /\ AppendLine(m, "newline")
  BY DEF AppendJsonl
<1>2. UNCHANGED <<phase, history, iter, role, offered, batch, running, tools, allowlist, fresh, prompts>>
  BY <1>1 DEF vars
<1>5. mdStarted /\ flushed < Len(history) BY <1>0, <1>1 DEF TurnLogged
<1>6. /\ history \in Seq(Message) /\ Len(history) \in Nat /\ flushed \in Nat
      /\ flushed + 1 \in 1..Len(history) /\ DOMAIN history = 1..Len(history)
      /\ loaded \in 0..flushed /\ loaded \in Nat /\ loaded <= flushed
      /\ Recorded \in Seq(Message) /\ Len(Recorded) \in Nat
  BY <1>5, SessionFacts
<1>7. m \in Message /\ WellFormed(m)
  <2>1. m \in Message BY <1>6, ElementOfSeq
  <2>2. flushed + 1 \in DOMAIN history BY <1>6
  <2> QED BY <1>0, <2>1, <2>2 DEF MessagesWellFormed
<1> HIDE DEF m
<1>8. /\ lines' \in Seq(Line) /\ tail' = "newline"
      /\ resultLost' \in BOOLEAN /\ (resultLost => resultLost')
      /\ \A i \in DOMAIN lines' : WellFormed(lines'[i].msg)
      /\ TornLine'
      /\ tail = "newline" => Recorded' = Append(Recorded, m)
      /\ tail = "partial" => Recorded' = Recorded
      /\ tail = "unterminated" =>
           \E x \in Message : Recorded = Append(Recorded', x) /\ (x.role = "tool" => resultLost')
  <2>1. "newline" \in {"newline", "partial", "unterminated"} OBVIOUS
  <2>2. /\ lines' \in Seq(Line) /\ tail' \in {"newline", "partial", "unterminated"}
        /\ "newline" # "unterminated" => tail' = "newline"
        /\ resultLost' \in BOOLEAN /\ (resultLost => resultLost')
        /\ \A i \in DOMAIN lines' : WellFormed(lines'[i].msg)
        /\ TornLine'
        /\ tail = "newline" =>
             Recorded' = IF "newline" = "partial" THEN Recorded ELSE Append(Recorded, m)
        /\ tail = "partial" => Recorded' = Recorded
        /\ tail = "unterminated" =>
             \E x \in Message : Recorded = Append(Recorded', x) /\ (x.role = "tool" => resultLost')
    BY <1>1, <1>7, <2>1, LineAppended
  <2> QED BY <2>2
<1>3. TypeOK' /\ LoopRuns' /\ AnsweredUnlessLost' BY <1>1, <1>8, LoopKeeps
<1>10. MessagesWellFormed'
  BY <1>0, <1>2, <1>8 DEF MessagesWellFormed, WellFormed
<1>11. SessionTypeOK'
  <2>1. flushed' \in 0..Len(history') /\ loaded' \in 0..flushed' BY <1>1, <1>2, <1>6
  <2>2. tail' \in {"newline", "partial", "unterminated"} BY <1>8
  <2> QED BY <1>0, <1>1, <1>3, <1>8, <2>1, <2>2 DEF SessionTypeOK
<1>12. TurnLogged'
  <2>1. phase' = "turnDone" /\ ~mdDone' BY <1>1, <1>2
  <2> QED BY <2>1 DEF TurnLogged
<1>13. TranscriptIsCurrent'
  <2>1. transcript = Rendered(history, loaded, flushed + Ahead) BY <1>0, <1>5 DEF TranscriptIsCurrent
  <2>2. flushed' + Ahead' = flushed + Ahead BY <1>1, <1>6 DEF Ahead
  <2>3. transcript' = Rendered(history', loaded', flushed' + Ahead') BY <1>1, <1>2, <2>1, <2>2
  <2> QED BY <1>1, <1>5, <2>3 DEF TranscriptIsCurrent
<1>14. PICK c \in 0..2 :
         /\ RecordOf(Recorded, history, flushed, loaded, c)
         /\ c = 2 => resultLost \/ history[loaded].role # "tool"
         /\ flushed = loaded => c = 0
  BY <1>0, <1>1 DEF LogIsCurrent
<1>15. Recorded' \in Seq(Message) BY <1>8, ParsedMessages DEF Recorded
<1>16. \E d \in 0..2 : /\ RecordOf(Recorded', history, flushed + 1, loaded, d)
                       /\ d = 2 => resultLost' \/ history[loaded].role # "tool"
  <2>1. CASE tail = "newline"
    <3>1. Recorded' = Append(Recorded, history[flushed + 1]) BY <1>8, <2>1 DEF m
    <3>2. RecordOf(Append(Recorded, history[flushed + 1]), history, flushed + 1, loaded, c)
      BY <1>6, <1>7, <1>14, RecordGrows DEF m
    <3> QED BY <1>8, <1>14, <3>1, <3>2
  <2>2. CASE tail # "newline"
    <3>1. flushed = loaded /\ loaded # 0 BY <1>0, <1>1, <2>2 DEF LogIsCurrent
    <3>2. RecordOf(Recorded, history, loaded, loaded, 0) BY <1>14, <3>1
    <3>3. history[loaded + 1].role = "user" BY <1>0, <1>1, <1>5, <3>1 DEF LogIsCurrent
    <3>4. Len(Recorded) = loaded /\ \A i \in 1..Len(Recorded) : Recorded[i] = history[i]
      <4>1. Len(Recorded) = loaded - 0 BY <3>2 DEF RecordOf
      <4>2. \A i \in 1..Len(Recorded) : Recorded[i] = history[i] BY <3>2 DEF RecordOf
      <4> QED BY <1>6, <4>1, <4>2
    <3>5. CASE tail = "partial"
      <4>1. Recorded' = Recorded BY <1>8, <3>5
      <4>2. Len(Recorded) = loaded + 1 - 1 BY <1>6, <3>4
      <4>3. 1 \in 1..2 /\ 1 \in 0..2 OBVIOUS
      <4>4. RecordOf(Recorded, history, loaded + 1, loaded, 1)
        BY <1>6, <3>1, <3>2, <3>3, <4>2, <4>3, RecordLoses
      <4> QED BY <3>1, <4>1, <4>3, <4>4
    <3>6. CASE tail = "unterminated"
      <4>1. PICK x \in Message : Recorded = Append(Recorded', x) /\ (x.role = "tool" => resultLost')
        BY <1>8, <3>6
      <4> DEFINE s == Recorded'
                 r == Recorded
      <4>2. s \in Seq(Message) /\ r = Append(s, x) BY <1>15, <4>1
      <4> HIDE DEF s, r
      <4>3. /\ Len(s) \in Nat /\ Len(r) = Len(s) + 1 /\ r[Len(s) + 1] = x
            /\ \A i \in 1..Len(s) : s[i] = r[i]
        BY <4>2
      <4>4. Len(s) = loaded + 1 - 2 /\ x = history[loaded]
        <5>1. Len(s) + 1 = loaded /\ loaded \in 1..Len(r) BY <1>6, <3>1, <3>4, <4>3 DEF r
        <5>2. r[loaded] = history[loaded] BY <3>4, <5>1 DEF r
        <5> QED BY <4>3, <5>1, <5>2
      <4>5. 2 \in 1..2 /\ 2 \in 0..2 OBVIOUS
      <4>6. RecordOf(r, history, loaded, loaded, 0) BY <3>2 DEF r
      <4>7. RecordOf(s, history, loaded + 1, loaded, 2)
        <5>1. /\ loaded \in Nat /\ loaded # 0 /\ Len(s) = loaded + 1 - 2
              /\ \A i \in 1..Len(s) : s[i] = r[i]
          BY <1>6, <3>1, <4>3, <4>4
        <5> QED BY <3>3, <4>2, <4>5, <4>6, <5>1, RecordLoses
      <4>8. history[loaded].role = "tool" => resultLost' BY <4>1, <4>4
      <4>9. RecordOf(Recorded', history, flushed + 1, loaded, 2) BY <3>1, <4>7 DEF s
      <4> QED BY <4>5, <4>8, <4>9
    <3>7. tail \in {"newline", "partial", "unterminated"} BY <1>0 DEF SessionTypeOK
    <3> QED BY <2>2, <3>5, <3>6, <3>7
  <2> QED BY <2>1, <2>2
<1>17. LogIsCurrent'
  <2>1. PICK d \in 0..2 : /\ RecordOf(Recorded', history, flushed + 1, loaded, d)
                          /\ d = 2 => resultLost' \/ history[loaded].role # "tool"
    BY <1>16
  <2>2. /\ RecordOf(Recorded', history', flushed', loaded', d)
        /\ d = 2 => resultLost' \/ history'[loaded'].role # "tool"
    BY <1>1, <1>2, <2>1
  <2>3. flushed' # loaded' BY <1>1, <1>6
  <2>4. loaded' < Len(history') => history'[loaded' + 1].role = "user"
    BY <1>0, <1>1, <1>2 DEF LogIsCurrent
  <2> QED BY <1>8, <2>2, <2>3, <2>4, Zenon DEF LogIsCurrent
<1>18. RecordAnswered'
  <2> SUFFICES ASSUME ~resultLost' PROVE AnsweredSoFar(Recorded')
    BY DEF RecordAnswered, AnsweredSoFar
  <2>1. PICK d \in 0..2 : /\ RecordOf(Recorded', history, flushed + 1, loaded, d)
                          /\ d = 2 => resultLost' \/ history[loaded].role # "tool"
    BY <1>16
  <2>3. flushed + 1 \in 0..Len(history) BY <1>6
  <2>4. AnsweredExcept(history, batch) BY <1>8 DEF LogInv, AnsweredUnlessLost, CallsAnswered
  <2> QED BY <1>6, <1>15, <2>1, <2>3, <2>4, LoggedAnswered
<1> QED BY <1>3, <1>8, <1>10, <1>11, <1>12, <1>13, <1>17, <1>18 DEF LogInv

\* Back at the prompt, with all of the history logged.
LEMMA FinishKeeps == LogInv /\ FinishTurn => LogInv'
<1> SUFFICES ASSUME LogInv, FinishTurn PROVE LogInv'
  OBVIOUS
<1>0. /\ SessionTypeOK /\ LoopRuns /\ MessagesWellFormed /\ TornLine /\ LogIsCurrent
      /\ TurnLogged /\ TranscriptIsCurrent /\ RecordAnswered
  BY DEF LogInv
<1>1. /\ CompleteTurn /\ phase = "turnDone" /\ phase' = "prompt" /\ history' = history
      /\ flushed = Len(history)
      /\ UNCHANGED <<lines, tail, transcript, mdStarted, mdDone, flushed, loaded, resultLost, resumes>>
  BY DEF FinishTurn, CompleteTurn, logVars
<1>2. TypeOK' /\ LoopRuns' /\ AnsweredUnlessLost'
  <2>1. Next BY <1>1 DEF Next
  <2> QED BY <1>1, <2>1, LoopKeeps
<1>4. Recorded' = Recorded BY <1>1 DEF Recorded
<1>5. SessionTypeOK' BY <1>0, <1>1, <1>2 DEF SessionTypeOK
<1>6. MessagesWellFormed' BY <1>0, <1>1 DEF MessagesWellFormed, WellFormed
<1>7. TornLine' /\ RecordAnswered'
  BY <1>0, <1>1, <1>4 DEF TornLine, RecordAnswered, AnsweredSoFar
<1>8. LogIsCurrent' BY <1>0, <1>1, <1>4, Zenon DEF LogIsCurrent
<1>9. TurnLogged'
  <2>1. ~mdDone
    <3>1. ~(flushed < Len(history)) BY <1>1, SessionFacts
    <3> QED BY <1>0, <3>1 DEF TurnLogged
  <2> QED BY <1>1, <2>1 DEF TurnLogged
<1>10. TranscriptIsCurrent' BY <1>0, <1>1, Zenon DEF TranscriptIsCurrent, Ahead
<1> QED BY <1>2, <1>5, <1>6, <1>7, <1>8, <1>9, <1>10 DEF LogInv

\* A process that ends leaves what it has recorded, and perhaps a torn line behind it,
\* which may have taken the one before it along.
LEMMA CrashKeeps == LogInv /\ Crash => LogInv'
<1> SUFFICES ASSUME LogInv, Crash PROVE LogInv'
  OBVIOUS
<1>0. /\ SessionTypeOK /\ AnsweredUnlessLost /\ MessagesWellFormed /\ TornLine /\ LogIsCurrent
      /\ TurnLogged /\ TranscriptIsCurrent /\ RecordAnswered
  BY DEF LogInv
<1>1. /\ phase # "ended" /\ phase' = "ended"
      /\ UNCHANGED <<history, iter, role, offered, batch, running, tools, allowlist, fresh, prompts>>
      /\ UNCHANGED <<transcript, mdStarted, mdDone, flushed, loaded, resumes>>
  BY DEF Crash, loopVars, registryVars
<1>3. /\ lines' \in Seq(Line) /\ tail' \in {"newline", "partial", "unterminated"}
      /\ resultLost' \in BOOLEAN /\ (resultLost => resultLost')
      /\ \A i \in DOMAIN lines' : WellFormed(lines'[i].msg)
      /\ TornLine'
      /\ RecordAnswered'
  <2>1. CASE UNCHANGED <<lines, tail, resultLost>>
    <3>1. TornLine' BY <1>0, <2>1 DEF TornLine
    <3>2. \A i \in DOMAIN lines' : WellFormed(lines'[i].msg) BY <1>0, <2>1 DEF MessagesWellFormed
    <3>3. /\ lines' \in Seq(Line) /\ tail' \in {"newline", "partial", "unterminated"}
          /\ resultLost' \in BOOLEAN
      BY <1>0, <2>1 DEF SessionTypeOK
    <3>4. Recorded' = Recorded BY <2>1 DEF Recorded
    <3>5. RecordAnswered' BY <1>0, <2>1, <3>4 DEF RecordAnswered, AnsweredSoFar
    <3> QED BY <2>1, <3>1, <3>2, <3>3, <3>5
  <2>2. CASE mdDone /\ \E left \in TornWrites : AppendLine(history[flushed + 1], left)
    <3> DEFINE m == history[flushed + 1]
    <3>1. PICK left \in TornWrites : AppendLine(m, left) BY <2>2
    <3>2. /\ history \in Seq(Message) /\ Len(history) \in Nat /\ DOMAIN history = 1..Len(history)
          /\ flushed \in Nat /\ flushed + 1 \in 1..Len(history)
          /\ loaded \in Nat /\ Recorded \in Seq(Message)
      <4>1. flushed < Len(history) BY <1>0, <2>2 DEF TurnLogged
      <4> QED BY <4>1, SessionFacts
    <3>3. m \in Message /\ WellFormed(m)
      <4>1. m \in Message BY <3>2, ElementOfSeq
      <4>2. flushed + 1 \in DOMAIN history BY <3>2
      <4> QED BY <1>0, <4>1, <4>2 DEF MessagesWellFormed
    <3> HIDE DEF m
    <3>4. left \in {"newline", "partial", "unterminated"} BY LogAssumptions
    <3>5. /\ lines' \in Seq(Line) /\ tail' \in {"newline", "partial", "unterminated"}
          /\ resultLost' \in BOOLEAN /\ (resultLost => resultLost')
          /\ \A i \in DOMAIN lines' : WellFormed(lines'[i].msg)
          /\ TornLine'
          /\ tail = "newline" => Recorded' = IF left = "partial" THEN Recorded ELSE Append(Recorded, m)
          /\ tail = "partial" => Recorded' = Recorded
          /\ tail = "unterminated" =>
               \E x \in Message : Recorded = Append(Recorded', x) /\ (x.role = "tool" => resultLost')
      BY <3>1, <3>3, <3>4, LineAppended
    <3>6. Recorded' \in Seq(Message) BY <3>5, ParsedMessages DEF Recorded
    <3>7. RecordAnswered'
      <4> SUFFICES ASSUME ~resultLost' PROVE AnsweredSoFar(Recorded')
        BY DEF RecordAnswered, AnsweredSoFar
      <4>1. ~resultLost /\ AnsweredSoFar(Recorded) BY <1>0, <3>5 DEF RecordAnswered
      <4>2. CASE Recorded' = Recorded BY <4>1, <4>2
      <4>3. CASE tail = "unterminated"
        <5>1. PICK x \in Message : Recorded = Append(Recorded', x) BY <3>5, <4>3
        <5> QED BY <3>6, <4>1, <5>1, AnsweredPrefix
      <4>4. CASE Recorded' = Append(Recorded, m)
        <5>1. PICK c \in 0..2 : /\ RecordOf(Recorded, history, flushed, loaded, c)
                                /\ c = 2 => resultLost \/ history[loaded].role # "tool"
          BY <1>0, <1>1 DEF LogIsCurrent
        <5>2. RecordOf(Recorded', history, flushed + 1, loaded, c)
          BY <3>2, <3>3, <4>4, <5>1, RecordGrows DEF m
        <5>3. AnsweredExcept(history, batch) BY <1>0, <4>1 DEF AnsweredUnlessLost, CallsAnswered
        <5>4. flushed + 1 \in 0..Len(history) BY <3>2
        <5> QED BY <3>2, <3>6, <4>1, <5>1, <5>2, <5>3, <5>4, LoggedAnswered
      <4>5. tail \in {"newline", "partial", "unterminated"} BY <1>0 DEF SessionTypeOK
      <4> QED BY <3>5, <4>2, <4>3, <4>4, <4>5
    <3> QED BY <3>5, <3>7
  <2> QED BY <2>1, <2>2 DEF Crash
<1>2. TypeOK' /\ LoopRuns' /\ AnsweredUnlessLost'
  <2>1. TypeOK BY <1>0 DEF SessionTypeOK
  <2>2. TypeOK' BY <1>1, <2>1 DEF TypeOK
  <2>3. CallsAnswered => CallsAnswered' BY <1>1 DEF CallsAnswered, AnsweredExcept
  <2>4. LoopRuns' BY <1>1 DEF LoopRuns
  <2>5. AnsweredUnlessLost' BY <1>0, <1>3, <2>3 DEF AnsweredUnlessLost
  <2> QED BY <2>2, <2>4, <2>5
<1>4. SessionTypeOK' BY <1>0, <1>1, <1>2, <1>3 DEF SessionTypeOK
<1>5. MessagesWellFormed' BY <1>0, <1>1, <1>3 DEF MessagesWellFormed, WellFormed
<1>7. LogIsCurrent' BY <1>1 DEF LogIsCurrent
<1>8. TurnLogged' BY <1>0, <1>1 DEF TurnLogged
<1>9. TranscriptIsCurrent' BY <1>0, <1>1, Zenon DEF TranscriptIsCurrent, Ahead
<1> QED BY <1>2, <1>3, <1>4, <1>5, <1>7, <1>8, <1>9 DEF LogInv

\* A process that resumes starts from all that is recorded, and no call of it is open
\* unless a result is lost.
LEMMA ResumeKeeps == LogInv /\ Resume => LogInv'
<1> SUFFICES ASSUME LogInv, Resume PROVE LogInv'
  OBVIOUS
<1>0. /\ SessionTypeOK /\ MessagesWellFormed /\ TornLine /\ RecordAnswered
  BY DEF LogInv
<1> DEFINE r == Recorded
<1>1. /\ resumes < MaxResumes /\ SafeToResume(r) /\ r # <<>>
      /\ phase' = "prompt" /\ history' = r /\ flushed' = Len(r) /\ loaded' = Len(r)
      /\ tools' = Native /\ allowlist' \in Allowlists
      /\ iter' = 0 /\ role' = "repl-with-reasoning" /\ offered' = {}
      /\ batch' = <<>> /\ running' = Nothing
      /\ mdStarted' = FALSE /\ mdDone' = FALSE
      /\ resumes' = resumes + 1
      /\ UNCHANGED <<fresh, prompts, lines, tail, transcript, resultLost>>
  BY DEF Resume, FlushedAt
<1>2. /\ r \in Seq(Message) /\ Len(r) \in Nat /\ DOMAIN r = 1..Len(r)
      /\ \A k \in 1..Len(r) : WellFormed(r[k])
  BY SessionFacts
<1>3. r' = r BY <1>1 DEF Recorded
<1>4. resultLost \/ AnsweredExcept(r, <<>>)
  <2> SUFFICES ASSUME ~resultLost PROVE AnsweredExcept(r, <<>>)
    OBVIOUS
  <2>1. \A k \in DOMAIN r : WellFormed(r[k]) BY <1>2
  <2> HIDE DEF r
  <2>2. AnsweredSoFar(r) BY <1>0 DEF r, RecordAnswered
  <2> QED BY <1>1, <1>2, <2>1, <2>2, SafeIsAnswered
<1> HIDE DEF r
<1>5. TypeOK'
  <2>1. TypeOK BY <1>0 DEF SessionTypeOK
  <2>2. Native \subseteq Names /\ 0 \in 0..MaxIters /\ <<>> \in Seq(Call) BY Assumptions
  <2> QED BY <1>1, <1>2, <2>1, <2>2 DEF TypeOK
<1>6. AnsweredUnlessLost'
  <2>1. CASE resultLost BY <1>1, <2>1 DEF AnsweredUnlessLost
  <2>2. CASE ~resultLost
    <3>1. AnsweredExcept(history', batch') BY <1>1, <1>4, <2>2
    <3>2. AnsweredExcept(history, batch)' BY <3>1 DEF AnsweredExcept
    <3> QED BY <1>1, <3>2 DEF AnsweredUnlessLost, CallsAnswered
  <2> QED BY <2>1, <2>2
<1>7. LoopShape'
  <2>1. \A i \in DOMAIN r : r[i].reasoning => r[i].calls # <<>> BY <1>2 DEF WellFormed
  <2>2. ReasoningWithCalls' BY <1>1, <2>1 DEF ReasoningWithCalls
  <2>3. RunningIsHead' BY <1>1 DEF RunningIsHead
  <2>4. IterBelowLimit' BY <1>1 DEF IterBelowLimit
  <2>5. FlashCarriesNoReasoning' BY <1>1 DEF FlashCarriesNoReasoning
  <2>6. ActiveIsOffered' BY <1>1 DEF ActiveIsOffered
  <2>7. OfferedUnlessGerminated' BY <1>1 DEF OfferedUnlessGerminated
  <2> QED BY <1>5, <2>2, <2>3, <2>4, <2>5, <2>6, <2>7 DEF LoopShape
<1>8. LoopRuns' BY <1>7 DEF LoopRuns
<1>9. SessionTypeOK'
  <2>1. resumes' \in 0..MaxResumes BY <1>0, <1>1, LogAssumptions DEF SessionTypeOK
  <2>2. flushed' \in 0..Len(history') /\ loaded' \in 0..flushed' BY <1>1, <1>2
  <2> QED BY <1>0, <1>1, <1>5, <2>1, <2>2 DEF SessionTypeOK
<1>10. MessagesWellFormed'
  <2>1. \A i \in DOMAIN history' : WellFormed(history'[i]) BY <1>1, <1>2
  <2>2. \A i \in DOMAIN lines' : WellFormed(lines'[i].msg) BY <1>0, <1>1 DEF MessagesWellFormed
  <2> QED BY <2>1, <2>2 DEF MessagesWellFormed, WellFormed
<1>11. TornLine' /\ RecordAnswered'
  BY <1>0, <1>1, <1>3 DEF TornLine, RecordAnswered, AnsweredSoFar, r
<1>12. LogIsCurrent'
  <2>1. RecordOf(r, r, Len(r), Len(r), 0)
    <3>1. Len(r) = Len(r) - 0 BY <1>2
    <3> QED BY <3>1 DEF RecordOf
  <2>2. RecordOf(Recorded', history', flushed', loaded', 0) BY <1>1, <1>3, <2>1 DEF r
  <2>3. 0 \in 0..2 /\ 0 # 2 OBVIOUS
  <2>4. flushed' = loaded' /\ loaded' # 0 /\ ~(loaded' < Len(history')) BY <1>1, <1>2
  <2> QED BY <2>2, <2>3, <2>4, Zenon DEF LogIsCurrent
<1>13. TurnLogged' BY <1>1 DEF TurnLogged
<1>14. TranscriptIsCurrent' BY <1>1 DEF TranscriptIsCurrent
<1> QED BY <1>6, <1>8, <1>9, <1>10, <1>11, <1>12, <1>13, <1>14 DEF LogInv

\* A session begins with an empty log.
LEMMA SessionBegins == SessionInit => LogInv
<1> SUFFICES ASSUME SessionInit PROVE LogInv
  OBVIOUS
<1>1. /\ Init /\ lines = <<>> /\ tail = "newline" /\ transcript = <<>> /\ ~mdStarted /\ ~mdDone
      /\ flushed = 0 /\ loaded = 0 /\ resumes = 0 /\ mdStarted \in BOOLEAN /\ mdDone \in BOOLEAN
      /\ resultLost = FALSE
  BY DEF SessionInit
<1>2. LoopShape /\ TypeOK /\ CallsAnswered /\ history = <<>> /\ phase = "prompt"
  BY <1>1, InitHolds DEF Init, IInv, LoopShape
<1>3. Recorded = <<>> BY <1>1, ParsedEmpty DEF Recorded
<1>4. <<>> \in Seq(Line) /\ <<>> \in Seq(Nat) /\ Len(<<>>) = 0 /\ DOMAIN <<>> = {} /\ 1..0 = {}
  OBVIOUS
<1>5. SessionTypeOK
  <2>1. 0 \in 0..Len(history) /\ 0 \in 0..0 /\ 0 \in 0..MaxResumes /\ FALSE \in BOOLEAN
    BY <1>2, <1>4, LogAssumptions
  <2> QED BY <1>1, <1>2, <1>4, <2>1 DEF SessionTypeOK
<1>6. LoopRuns /\ AnsweredUnlessLost BY <1>2 DEF LoopRuns, AnsweredUnlessLost
<1>7. MessagesWellFormed BY <1>1, <1>2, <1>4 DEF MessagesWellFormed
<1>8. TornLine /\ TurnLogged /\ TranscriptIsCurrent
  BY <1>1, <1>2, <1>4 DEF TornLine, TurnLogged, TranscriptIsCurrent
<1>9. RecordAnswered BY <1>3, <1>4 DEF RecordAnswered, AnsweredSoFar
<1>10. LogIsCurrent
  <2>1. RecordOf(<<>>, <<>>, 0, 0, 0) BY <1>4 DEF RecordOf
  <2>2. RecordOf(Recorded, history, flushed, loaded, 0) BY <1>1, <1>2, <1>3, <2>1
  <2>3. 0 \in 0..2 /\ 0 # 2 OBVIOUS
  <2>4. ~(loaded < Len(history)) BY <1>1, <1>2, <1>4
  <2> QED BY <1>1, <2>2, <2>3, <2>4 DEF LogIsCurrent
<1> QED BY <1>5, <1>6, <1>7, <1>8, <1>9, <1>10 DEF LogInv

-----------------------------------------------------------------------------
(* Theorems on a session                                                   *)

\* Over any number of processes, what is on disk, what is in memory and what the loop
\* does stay in step, whatever a crash leaves of the line that is being written.
THEOREM SessionInvariant == SessionSpec => []LogInv
<1>1. LogInv /\ [SessionNext]_sessionVars => LogInv'
  <2> SUFFICES ASSUME LogInv, [SessionNext]_sessionVars PROVE LogInv'
    OBVIOUS
  <2>1. CASE ProcessStep BY <2>1, ProcessKeeps
  <2>2. CASE WriteHeader \/ AppendMarkdown BY <2>2, MarkdownKeeps
  <2>3. CASE AppendJsonl BY <2>3, JsonlKeeps
  <2>4. CASE FinishTurn BY <2>4, FinishKeeps
  <2>5. CASE Crash BY <2>5, CrashKeeps
  <2>6. CASE Resume BY <2>6, ResumeKeeps
  <2>7. CASE UNCHANGED sessionVars
    <3>1. /\ UNCHANGED vars
          /\ UNCHANGED <<lines, tail, transcript, mdStarted, mdDone, flushed, loaded, resultLost, resumes>>
      BY <2>7 DEF sessionVars, logVars
    <3>2. UNCHANGED <<phase, history, iter, role, offered, batch, running, tools, allowlist, fresh, prompts>>
      BY <3>1 DEF vars
    <3>3. Recorded' = Recorded BY <3>1 DEF Recorded
    <3>4. LoopShape => LoopShape' BY <3>1, ShapeStep
    <3>5. TypeOK' = TypeOK /\ CallsAnswered' = CallsAnswered
      BY <3>2 DEF TypeOK, CallsAnswered, AnsweredExcept
    <3>6. SessionTypeOK' /\ AnsweredUnlessLost' /\ LoopRuns'
      BY <3>1, <3>2, <3>4, <3>5 DEF LogInv, SessionTypeOK, LoopRuns, AnsweredUnlessLost
    <3>7. MessagesWellFormed' /\ TornLine' /\ TurnLogged' /\ RecordAnswered'
      BY <3>1, <3>2, <3>3
         DEF LogInv, MessagesWellFormed, WellFormed, TornLine, TurnLogged, RecordAnswered, AnsweredSoFar
    <3>8. LogIsCurrent' /\ TranscriptIsCurrent'
      BY <3>1, <3>2, <3>3, Zenon DEF LogInv, LogIsCurrent, TranscriptIsCurrent, Ahead
    <3> QED BY <3>6, <3>7, <3>8 DEF LogInv
  <2> QED BY <2>1, <2>2, <2>3, <2>4, <2>5, <2>6, <2>7 DEF SessionNext, LogStep
<1> QED BY <1>1, SessionBegins, PTL DEF SessionSpec

\* Resumed any number of times, the history a request is made from holds no open call
\* (isSafeToResume, resume.ts), as long as no result is lost to a line that continues
\* its own.
THEOREM SessionAnswered == SessionSpec => []AnsweredUnlessLost
<1>1. LogInv => AnsweredUnlessLost BY DEF LogInv
<1> QED BY <1>1, SessionInvariant, PTL

\* At the prompt the .jsonl holds the history, but for what a torn line has cost, and the
\* .md, once a turn is logged, what this process has logged and nothing else
\* (onTurnComplete, readSession).
THEOREM LogCorrect == SessionSpec => []LogTracksHistory
<1>1. LogInv => LogTracksHistory
  <2> SUFFICES ASSUME LogInv, phase = "prompt"
               PROVE  /\ \/ Recorded = history
                         \/ /\ loaded \in 1..(Len(history) - 1)
                            /\ Recorded \in {Without(1), Without(2)}
                      /\ loaded < Len(history) => transcript = Rendered(history, loaded, Len(history))
    BY DEF LogTracksHistory
  <2>1. LogIsCurrent /\ TurnLogged /\ TranscriptIsCurrent BY DEF LogInv
  <2>2. flushed = Len(history) /\ ~mdDone BY <2>1 DEF TurnLogged
  <2>3. /\ history \in Seq(Message) /\ Recorded \in Seq(Message)
        /\ Len(history) \in Nat /\ loaded \in Nat
    BY SessionFacts
  <2>4. PICK c \in 0..2 : RecordOf(Recorded, history, Len(history), loaded, c)
    BY <2>1, <2>2 DEF LogIsCurrent
  <2>5. \/ Recorded = history
        \/ /\ loaded \in 1..(Len(history) - 1)
           /\ Recorded \in {Without(1), Without(2)}
    <3> DEFINE h == history
               r == Recorded
    <3>1. /\ c # 0 => loaded \in 1..(Len(h) - 1)
          /\ Len(r) = Len(h) - c
          /\ \A i \in 1..Len(r) : r[i] = h[IF c # 0 /\ i > loaded + 1 - c THEN i + c ELSE i]
      BY <2>4 DEF RecordOf
    <3>2. r = [i \in 1..Len(r) |-> r[i]] /\ h = [i \in 1..Len(h) |-> h[i]] BY <2>3
    <3> HIDE DEF h, r
    <3>3. CASE c = 0
      <4>1. Len(h) \in Nat BY <2>3 DEF h
      <4>2. Len(r) = Len(h) /\ \A i \in 1..Len(h) : r[i] = h[i] BY <3>1, <3>3, <4>1
      <4>3. r = h BY <3>2, <4>2
      <4> QED BY <4>3 DEF r, h
    <3>4. CASE c # 0
      <4>1. \A i \in 1..(Len(h) - c) : r[i] = h[IF i > loaded + 1 - c THEN i + c ELSE i]
        BY <3>1, <3>4
      <4>2. r = [i \in 1..(Len(h) - c) |-> r[i]] BY <3>1, <3>2
      <4>3. r = [i \in 1..(Len(h) - c) |-> h[IF i > loaded + 1 - c THEN i + c ELSE i]]
        BY <4>1, <4>2, Zenon
      <4>4. r = Without(c) BY <4>3 DEF Without, h
      <4>5. c = 1 \/ c = 2 BY <3>4
      <4>6. r \in {Without(1), Without(2)} BY <4>4, <4>5
      <4> QED BY <3>1, <3>4, <4>6 DEF r, h
    <3> QED BY <3>3, <3>4
  <2>6. loaded < Len(history) => transcript = Rendered(history, loaded, Len(history))
    <3> SUFFICES ASSUME loaded < Len(history)
                 PROVE  transcript = Rendered(history, loaded, Len(history))
      OBVIOUS
    <3>1. flushed # loaded BY <2>2, <2>3
    <3>2. transcript = Rendered(history, loaded, flushed + Ahead)
      BY <2>1, <3>1 DEF TranscriptIsCurrent
    <3>3. flushed + Ahead = Len(history) BY <2>2, <2>3 DEF Ahead
    <3> QED BY <3>2, <3>3
  <2> QED BY <2>5, <2>6
<1> QED BY <1>1, SessionInvariant, PTL

-----------------------------------------------------------------------------
(* The screen, whatever the user types and answers                         *)

LEMMA ScreenInitHolds == ScreenInit => ScreenInv
BY DEF ScreenInit, Init, ScreenInv, Fields, PhasesAgree, InputBoxHeard, InputBoxShown,
       InputBoxMounted, ApprovalAnswerable

\* Every step of the screen is one of the loop, or none of its business.
LEMMA ScreenStepIsLoopStep == ScreenNext => Next \/ UNCHANGED vars
<1> SUFFICES ASSUME ScreenNext PROVE Next \/ UNCHANGED vars
  OBVIOUS
<1>1. CASE AtPrompt
  BY <1>1 DEF AtPrompt, Booted, EnterPrompt, EnterBlank, EnterQuit, EnterQuery, EnterCommand,
              CommandExpands, CommandPins, CommandUnpins, Unpinned, CommandThrows, Next
<1>2. CASE InTurn
  BY <1>2 DEF InTurn, ScreenPrepareRequest, ScreenStreamEnds, ScreenDenyTool, ScreenStartTool,
              ScreenToolReturns, ScreenNextIteration, ScreenCompleteTurn, ApprovalResponse,
              Next, LoopStep
<1>3. CASE ReasoningDelta \/ ContentDelta \/ RequestApproval \/ ScreenMcpServerExits
  BY <1>3 DEF ReasoningDelta, ContentDelta, RequestApproval, ScreenMcpServerExits, Next
<1> QED BY <1>1, <1>2, <1>3 DEF ScreenNext

-----------------------------------------------------------------------------
(* The screen                                                              *)

\* A state with all its fields keeps them, whichever handler writes it.
LEMMA Redrawn ==
  ASSUME NEW s, DOMAIN s = Fields
  PROVE  /\ \A p, t : /\ DOMAIN WithTurn(s, p, t) = Fields
                      /\ WithTurn(s, p, t).phase = s.phase
                      /\ WithTurn(s, p, t).approvals = s.approvals
         /\ \A ph, n : /\ DOMAIN Cleared(s, ph, n) = Fields
                       /\ Cleared(s, ph, n).phase = ph
                       /\ Cleared(s, ph, n).approvals = <<>>
BY DEF WithTurn, Cleared, Fields

\* At the prompt no approval is pending.
LEMMA NoneAsked ==
  ASSUME ScreenInv, phase # "invoke" PROVE pending = <<>> /\ shown.approvals = <<>>
BY DEF ScreenInv, PhasesAgree, ApprovalAnswerable

LEMMA PromptStep == ScreenInv /\ AtPrompt => ScreenInv'
<1> SUFFICES ASSUME ScreenInv, AtPrompt PROVE ScreenInv'
  OBVIOUS
<1> USE DEF ScreenInv, PhasesAgree, InputBoxHeard, InputBoxShown, InputBoxMounted,
            ApprovalAnswerable
<1>1. CASE Booted BY <1>1 DEF Booted, vars, askVars, Fields
<1>2. CASE EnterPrompt
  BY <1>2, Redrawn, NoneAsked DEF EnterPrompt, CanEnter, Submit, Prompted, askVars
<1>3. CASE EnterBlank
  BY <1>3, Redrawn, NoneAsked DEF EnterBlank, CanEnter, Prompted, vars, askVars
<1>4. CASE EnterQuit
  BY <1>4, Redrawn, NoneAsked DEF EnterQuit, CanEnter, Quit, loopVars, Prompted, askVars
<1>5. CASE EnterQuery
  BY <1>5, Redrawn, NoneAsked DEF EnterQuery, CanEnter, SlashOutput, Prompted, vars, askVars
<1>6. CASE EnterCommand
  BY <1>6, Redrawn, NoneAsked DEF EnterCommand, CanEnter, Prompted, vars, askVars
<1>7. CASE CommandExpands
  BY <1>7, NoneAsked DEF CommandExpands, Submit, askVars
<1>8. CASE CommandPins \/ CommandUnpins
  BY <1>8, Redrawn, NoneAsked
     DEF CommandPins, CommandUnpins, ChangeSpore, loopVars, SlashOutput, askVars
<1>9. CASE Unpinned
  BY <1>9, Redrawn, NoneAsked DEF Unpinned, ChangeSpore, loopVars, SystemMessage, askVars
<1>10. CASE CommandThrows
  BY <1>10, NoneAsked DEF CommandThrows, Quit, loopVars, askVars
<1> QED BY <1>1, <1>2, <1>3, <1>4, <1>5, <1>6, <1>7, <1>8, <1>9, <1>10 DEF AtPrompt

LEMMA DeltaStep == ScreenInv /\ (ReasoningDelta \/ ContentDelta) => ScreenInv'
BY DEF ScreenInv, PhasesAgree, InputBoxHeard, InputBoxShown, InputBoxMounted, ApprovalAnswerable,
       ReasoningDelta, ContentDelta, vars, askVars, Fields

LEMMA TurnStep == ScreenInv /\ InTurn => ScreenInv'
<1> SUFFICES ASSUME ScreenInv, InTurn PROVE ScreenInv'
  OBVIOUS
<1> USE DEF ScreenInv, PhasesAgree, InputBoxHeard, InputBoxShown, InputBoxMounted,
            ApprovalAnswerable
<1>1. CASE ScreenPrepareRequest
  BY <1>1, NoneAsked DEF ScreenPrepareRequest, PrepareRequest, askVars
<1>2. CASE ScreenStreamEnds
  <2>1. /\ shown'.phase = shown.phase /\ shown'.approvals = shown.approvals
        /\ DOMAIN shown' = Fields
    BY <1>2 DEF ScreenStreamEnds, TurnComplete, WithCards, Fields
  <2>2. phase = "stream" /\ phase' \in {"turnDone", "invoke"} /\ UNCHANGED running
    BY <1>2 DEF ScreenStreamEnds, StreamEnds
  <2> QED BY <1>2, <2>1, <2>2, NoneAsked DEF ScreenStreamEnds, askVars
<1>3. CASE ScreenDenyTool
  BY <1>3 DEF ScreenDenyTool, DenyTool, Answer, SetCard, askVars, Fields
<1>4. CASE ScreenStartTool
  BY <1>4 DEF ScreenStartTool, StartTool, screenVars
<1>5. CASE ScreenToolReturns
  <2>1. /\ shown'.phase = shown.phase /\ shown'.approvals = shown.approvals
        /\ DOMAIN shown' = Fields
    BY <1>5 DEF ScreenToolReturns, SetCard, Fields
  <2>2. phase = "invoke" /\ phase' = "invoke" /\ running' = Nothing
    BY <1>5 DEF ScreenToolReturns, ToolReturns, Answer
  <2> QED BY <1>5, <2>1, <2>2 DEF ScreenToolReturns
<1>6. CASE ScreenNextIteration
  BY <1>6, NoneAsked DEF ScreenNextIteration, NextIteration, screenVars
<1>7. CASE ScreenCompleteTurn
  BY <1>7, Redrawn, NoneAsked DEF ScreenCompleteTurn, CompleteTurn, loopVars, askVars
<1>8. CASE \E decision \in {"approve", "reject"} : ApprovalResponse(decision)
  <2>1. pending' = <<>> /\ resolvers' = {} /\ shown' = [shown EXCEPT !.approvals = <<>>]
    <3>1. PICK decision \in {"approve", "reject"} : ApprovalResponse(decision)
      BY <1>8
    <3>2. pending = <<running.id>> /\ resolvers = {running.id}
      BY <3>1 DEF ApprovalResponse, AnswerHead
    <3>3. Head(pending) = running.id /\ Tail(pending) = <<>>
      BY <3>2
    <3> QED BY <3>1, <3>2, <3>3 DEF ApprovalResponse, AnswerHead
  <2> QED BY <1>8, <2>1 DEF ApprovalResponse, AnswerHead, vars, Fields
<1> QED BY <1>1, <1>2, <1>3, <1>4, <1>5, <1>6, <1>7, <1>8 DEF InTurn

LEMMA AsyncStep == ScreenInv /\ (RequestApproval \/ ScreenMcpServerExits) => ScreenInv'
<1> SUFFICES ASSUME ScreenInv, RequestApproval \/ ScreenMcpServerExits PROVE ScreenInv'
  OBVIOUS
<1> USE DEF ScreenInv, PhasesAgree, InputBoxHeard, InputBoxShown, InputBoxMounted,
            ApprovalAnswerable
<1>1. CASE RequestApproval
  <2>1. pending' = <<running.id>> /\ resolvers' = {running.id}
    BY <1>1 DEF RequestApproval, Ask
  <2> QED BY <1>1, <2>1 DEF RequestApproval, Ask, vars, Fields
<1>2. CASE ScreenMcpServerExits
  BY <1>2, Redrawn
     DEF ScreenMcpServerExits, McpServerExits, loopVars, SystemMessage, askVars
<1> QED BY <1>1, <1>2

LEMMA ScreenStep == ScreenInv /\ [ScreenNext]_allVars => ScreenInv'
<1> SUFFICES ASSUME ScreenInv, [ScreenNext]_allVars PROVE ScreenInv'
  OBVIOUS
<1>1. CASE UNCHANGED allVars
  BY <1>1 DEF allVars, screenVars, vars, ScreenInv, PhasesAgree, InputBoxHeard,
              InputBoxShown, InputBoxMounted, ApprovalAnswerable
<1> QED BY <1>1, PromptStep, DeltaStep, TurnStep, AsyncStep DEF ScreenNext

-----------------------------------------------------------------------------
(* The live region                                                         *)

\* A history with one more message.
LEMMA Appended ==
  ASSUME NEW h \in Seq(Message), NEW m \in Message
  PROVE  /\ Append(h, m) \in Seq(Message)
         /\ Len(h) \in Nat /\ DOMAIN h = 1..Len(h) /\ Len(Append(h, m)) = Len(h) + 1
         /\ DOMAIN Append(h, m) = DOMAIN h \cup {Len(h) + 1} /\ Len(h) + 1 \notin DOMAIN h
         /\ Append(h, m)[Len(h) + 1] = m
         /\ \A i \in DOMAIN h : Append(h, m)[i] = h[i]
OBVIOUS

\* A prompt starts the turn anew, any other message belongs to it.
LEMMA TurnGrows ==
  ASSUME history \in Seq(Message), NEW m \in Message, history' = Append(history, m)
  PROVE  /\ m.role = "user" => ThisTurn' = {}
         /\ m.role # "user" => ThisTurn' = ThisTurn \cup {Len(history) + 1}
<1> DEFINE n == Len(history) + 1
<1>1. /\ Len(history) \in Nat /\ DOMAIN history = 1..Len(history) /\ Len(history') = n
      /\ DOMAIN history' = 1..n /\ history'[n] = m
      /\ \A i \in 1..Len(history) : history'[i] = history[i]
  BY Appended
<1>2. ThisTurn' = {i \in 1..n : \A j \in i..n : history'[j].role # "user"}
  BY <1>1 DEF ThisTurn
<1>3. ASSUME m.role = "user" PROVE ThisTurn' = {}
  <2>1. \A i \in 1..n : n \in i..n BY <1>1
  <2> QED BY <1>1, <1>2, <1>3, <2>1
<1>4. ASSUME m.role # "user" PROVE ThisTurn' = ThisTurn \cup {n}
  <2>1. n \in ThisTurn'
    <3>1. \A j \in n..n : j = n BY <1>1
    <3> QED BY <1>1, <1>2, <1>4, <3>1
  <2>2. ASSUME NEW i \in 1..Len(history)
        PROVE  (\A j \in i..n : history'[j].role # "user") <=>
               (\A j \in i..Len(history) : history[j].role # "user")
    <3>1. i..n = i..Len(history) \cup {n} /\ i..Len(history) \subseteq 1..Len(history) BY <1>1
    <3> QED BY <1>1, <1>4, <3>1
  <2>3. 1..n = 1..Len(history) \cup {n} BY <1>1
  <2> QED BY <1>1, <1>2, <2>1, <2>2, <2>3 DEF ThisTurn
<1> QED BY <1>3, <1>4

\* The ids in a history are numbers.
LEMMA IdsAreNumbers ==
  ASSUME NEW h \in Seq(Message), NEW i \in DOMAIN h
  PROVE  h[i].re \in Nat /\ \A k \in DOMAIN h[i].calls : h[i].calls[k] \in Nat
<1>1. DOMAIN h = 1..Len(h) OBVIOUS
<1>2. h[i] \in Message BY <1>1, ElementOfSeq
<1>3. h[i].re \in Nat /\ h[i].calls \in Seq(Nat) BY <1>2 DEF Message
<1>4. \A k \in DOMAIN h[i].calls : h[i].calls[k] \in Nat BY <1>3
<1> QED BY <1>3, <1>4

\* The ids an appended turn gives out are new, and a result uses up that of its call.
LEMMA IdsStep == IInv /\ IdsFresh /\ Next => IdsFresh'
<1> SUFFICES ASSUME IInv, IdsFresh, Next PROVE IdsFresh'
  OBVIOUS
<1> USE DEF IInv, LoopShape
<1>1. history \in Seq(Message) /\ batch \in Seq(Call) /\ fresh \in Nat BY DEF TypeOK
<1>2. ASSUME NEW c \in Call, NEW b \in BOOLEAN, batch # <<>>, c = Head(batch), Answer(c, b)
      PROVE  IdsFresh'
  <2> DEFINE m == Result(fresh, c, b)
  <2>1. m \in Message /\ history' = Append(history, m) /\ batch' = Tail(batch)
        /\ fresh' = fresh + 1
    BY <1>2, AnswerFacts DEF Answer
  <2>2. m.role = "tool" /\ m.re = c.id /\ m.calls = <<>> BY DEF Result
  <2> HIDE DEF m
  <2>3. /\ DOMAIN history' = DOMAIN history \cup {Len(history) + 1}
        /\ history'[Len(history) + 1] = m /\ \A i \in DOMAIN history : history'[i] = history[i]
    BY <1>1, <2>1, Appended
  <2>4. /\ c = batch[1] /\ 1 \in DOMAIN batch
        /\ \A k \in DOMAIN batch' : /\ k + 1 \in DOMAIN batch /\ batch'[k] = batch[k + 1]
                                    /\ k \in Nat /\ k + 1 # 1
    BY <1>1, <1>2, <2>1
  <2>5. c.id \in Nat /\ c.id < fresh BY <1>2, <2>4 DEF IdsFresh, Call
  <2>6. \A i \in DOMAIN history : /\ history[i].re \in Nat
                                  /\ \A k \in DOMAIN history[i].calls : history[i].calls[k] \in Nat
    BY <1>1, IdsAreNumbers
  <2>7. ASSUME NEW i \in DOMAIN history'
        PROVE  /\ history'[i].role = "tool" => history'[i].re < fresh'
               /\ \A k \in DOMAIN history'[i].calls : history'[i].calls[k] < fresh'
    <3>1. CASE i \in DOMAIN history BY <1>1, <2>1, <2>3, <2>6, <3>1 DEF IdsFresh
    <3>2. CASE i = Len(history) + 1 BY <1>1, <2>1, <2>2, <2>3, <2>5, <3>2
    <3> QED BY <2>3, <3>1, <3>2
  <2>8. ASSUME NEW k \in DOMAIN batch'
        PROVE  /\ batch'[k].id < fresh'
               /\ \A j \in DOMAIN batch' : batch'[j].id = batch'[k].id => j = k
               /\ \A i \in DOMAIN history' :
                    history'[i].role = "tool" => history'[i].re # batch'[k].id
    <3>1. batch'[k].id \in Nat /\ batch'[k].id < fresh
      <4>1. batch[k + 1] \in Call BY <1>1, <2>4, ElementOfSeq
      <4> QED BY <2>4, <4>1 DEF IdsFresh, Call
    <3>2. \A j \in DOMAIN batch' : batch'[j].id = batch'[k].id => j = k
      BY <2>4 DEF IdsFresh
    <3>3. batch'[k].id # c.id BY <2>4 DEF IdsFresh
    <3>4. \A i \in DOMAIN history : history[i].role = "tool" => history[i].re # batch'[k].id
      BY <2>4 DEF IdsFresh
    <3> QED BY <1>1, <2>1, <2>2, <2>3, <3>1, <3>2, <3>3, <3>4
  <2> QED BY <2>7, <2>8 DEF IdsFresh
<1>3. CASE Submit
  <2>1. User(fresh) \in Message /\ User(fresh).role = "user" /\ User(fresh).calls = <<>>
    BY <1>1 DEF User, Message, TypeOK
  <2>2. batch = <<>> /\ batch' = <<>> BY <1>3 DEF Submit, CallsAnswered
  <2>3. /\ DOMAIN history' = DOMAIN history \cup {Len(history) + 1} /\ fresh' = fresh + 1
        /\ history'[Len(history) + 1] = User(fresh)
        /\ \A i \in DOMAIN history : history'[i] = history[i]
    BY <1>1, <1>3, <2>1, Appended DEF Submit
  <2>4. \A i \in DOMAIN history : /\ history[i].re \in Nat
                                  /\ \A k \in DOMAIN history[i].calls : history[i].calls[k] \in Nat
    BY <1>1, IdsAreNumbers
  <2>5. ASSUME NEW i \in DOMAIN history'
        PROVE  /\ history'[i].role = "tool" => history'[i].re < fresh'
               /\ \A k \in DOMAIN history'[i].calls : history'[i].calls[k] < fresh'
    <3>1. CASE i \in DOMAIN history BY <1>1, <2>3, <2>4, <3>1 DEF IdsFresh
    <3>2. CASE i = Len(history) + 1 BY <2>1, <2>3, <3>2
    <3> QED BY <2>3, <3>1, <3>2
  <2> QED BY <2>2, <2>5 DEF IdsFresh
<1>4. CASE StreamEnds
  <2>1. PICK m \in Message :
          /\ history' = Append(history, m) /\ m.role = "assistant"
          /\ Len(batch') = Len(m.calls)
          /\ \A k \in 1..Len(m.calls) : batch'[k].id = m.calls[k] /\ m.calls[k] = fresh + k
          /\ fresh' = fresh + Len(m.calls) + 1
    BY <1>4, StreamFacts
  <2>2. batch' \in Seq(Call) /\ DOMAIN batch' = 1..Len(m.calls)
        /\ DOMAIN m.calls = 1..Len(m.calls) /\ Len(m.calls) \in Nat
    BY <1>4, <2>1, StreamFacts DEF Message
  <2>3. /\ DOMAIN history' = DOMAIN history \cup {Len(history) + 1}
        /\ history'[Len(history) + 1] = m /\ \A i \in DOMAIN history : history'[i] = history[i]
    BY <1>1, <2>1, Appended
  <2>4. \A i \in DOMAIN history : /\ history[i].re \in Nat
                                  /\ \A k \in DOMAIN history[i].calls : history[i].calls[k] \in Nat
    BY <1>1, IdsAreNumbers
  <2>5. ASSUME NEW i \in DOMAIN history'
        PROVE  /\ history'[i].role = "tool" => history'[i].re < fresh'
               /\ \A k \in DOMAIN history'[i].calls : history'[i].calls[k] < fresh'
    <3>1. CASE i \in DOMAIN history BY <1>1, <2>1, <2>2, <2>3, <2>4, <3>1 DEF IdsFresh
    <3>2. CASE i = Len(history) + 1
      <4>1. history'[i] = m BY <2>3, <3>2
      <4>2. \A k \in DOMAIN m.calls : m.calls[k] = fresh + k /\ k <= Len(m.calls) /\ k \in Nat
        BY <2>1, <2>2
      <4>3. \A k \in DOMAIN m.calls : m.calls[k] < fresh' BY <1>1, <2>1, <2>2, <4>2
      <4>4. m.role # "tool" BY <2>1
      <4> QED BY <4>1, <4>3, <4>4
    <3> QED BY <2>3, <3>1, <3>2
  <2>6. ASSUME NEW k \in DOMAIN batch'
        PROVE  /\ batch'[k].id < fresh'
               /\ \A j \in DOMAIN batch' : batch'[j].id = batch'[k].id => j = k
               /\ \A i \in DOMAIN history' :
                    history'[i].role = "tool" => history'[i].re # batch'[k].id
    <3>1. batch'[k].id = fresh + k /\ k \in 1..Len(m.calls) BY <2>1, <2>2
    <3>2. \A j \in DOMAIN batch' : batch'[j].id = fresh + j /\ j \in Nat BY <2>1, <2>2
    <3>3. \A i \in DOMAIN history : history[i].role = "tool" => history[i].re < fresh
      BY DEF IdsFresh
    <3> QED BY <1>1, <2>1, <2>2, <2>3, <2>4, <3>1, <3>2, <3>3
  <2> QED BY <2>5, <2>6 DEF IdsFresh
<1>5. CASE DenyTool
  <2>1. batch # <<>> /\ Answer(Head(batch), FALSE) BY <1>5, Zenon DEF DenyTool
  <2>2. Head(batch) \in Call BY <1>1, <2>1
  <2> QED BY <1>2, <2>1, <2>2
<1>6. CASE ToolReturns
  <2>1. batch # <<>> /\ running = Head(batch) /\ running \in Call
    BY <1>6 DEF ToolReturns, RunningIsHead, TypeOK
  <2>2. PICK b \in BOOLEAN : Answer(running, b) BY <1>6 DEF ToolReturns
  <2> QED BY <1>2, <2>1, <2>2
<1>7. CASE ChangeSpore \/ McpServerExits \/ Quit \/ CompleteTurn
  BY <1>7 DEF ChangeSpore, McpServerExits, Quit, CompleteTurn, loopVars, IdsFresh
<1>8. CASE PrepareRequest \/ StartTool \/ NextIteration
  BY <1>8 DEF PrepareRequest, StartTool, NextIteration, IdsFresh
<1> QED BY <1>3, <1>4, <1>5, <1>6, <1>7, <1>8 DEF Next, LoopStep

\* What one more message of the turn does to calls and results.
LEMMA TurnReads ==
  ASSUME history \in Seq(Message), NEW m \in Message, history' = Append(history, m),
         m.role # "user"
  PROVE  \A id : /\ Made(id)' <=> Made(id) \/ \E k \in DOMAIN m.calls : m.calls[k] = id
                 /\ Resolved(id)' <=> Resolved(id) \/ (m.role = "tool" /\ m.re = id)
                 /\ ResolvedWell(id)' <=>
                      ResolvedWell(id) \/ (m.role = "tool" /\ m.re = id /\ m.ok)
<1> DEFINE n == Len(history) + 1
<1>1. /\ ThisTurn' = ThisTurn \cup {n} /\ history'[n] = m
      /\ \A i \in ThisTurn : history'[i] = history[i]
  BY Appended, TurnGrows DEF ThisTurn
<1> HIDE DEF n
<1>2. ASSUME NEW id
      PROVE  Made(id)' <=> Made(id) \/ \E k \in DOMAIN m.calls : m.calls[k] = id
  BY <1>1 DEF Made
<1>3. ASSUME NEW id
      PROVE  /\ Resolved(id)' <=> Resolved(id) \/ (m.role = "tool" /\ m.re = id)
             /\ ResolvedWell(id)' <=>
                  ResolvedWell(id) \/ (m.role = "tool" /\ m.re = id /\ m.ok)
  BY <1>1 DEF Resolved, ResolvedWell
<1> QED BY <1>2, <1>3

\* The cards are those of the calls made.
LEMMA CardsAreCalls ==
  CardsMatchResults =>
    \A id : (id \in DOMAIN shown.cards <=> Made(id))
BY DEF CardsMatchResults, Made

\* A result settles the card of its call and no other.
LEMMA CardsOnResult ==
  ASSUME history \in Seq(Message), NEW m \in Message, history' = Append(history, m),
         m.role = "tool", m.calls = <<>>, CardsMatchResults, m.re \in DOMAIN shown.cards,
         \A i \in DOMAIN history : history[i].role = "tool" => history[i].re # m.re,
         DOMAIN shown'.cards = DOMAIN shown.cards,
         \A id \in DOMAIN shown.cards : id # m.re => shown'.cards[id] = shown.cards[id],
         shown'.cards[m.re] # "running", shown'.cards[m.re] = "completed" <=> m.ok
  PROVE  CardsMatchResults'
<1>1. \A id : Made(id)' <=> Made(id)
  <2>1. DOMAIN m.calls = {} OBVIOUS
  <2> QED BY <2>1, TurnReads
<1>2. ~ResolvedWell(m.re) BY DEF ResolvedWell, ThisTurn
<1>3. \A id : /\ Resolved(id)' <=> Resolved(id) \/ m.re = id
              /\ ResolvedWell(id)' <=> ResolvedWell(id) \/ (m.re = id /\ m.ok)
  BY TurnReads
<1>4. ASSUME NEW id \in DOMAIN shown'.cards
      PROVE  /\ Made(id)'
             /\ shown'.cards[id] = "running" <=> ~Resolved(id)'
             /\ shown'.cards[id] = "completed" <=> ResolvedWell(id)'
  <2>1. /\ Made(id)
        /\ shown.cards[id] = "running" <=> ~Resolved(id)
        /\ shown.cards[id] = "completed" <=> ResolvedWell(id)
    BY <1>4 DEF CardsMatchResults
  <2> QED BY <1>1, <1>2, <1>3, <1>4, <2>1
<1>5. \A id : Made(id)' => id \in DOMAIN shown'.cards BY <1>1, CardsAreCalls
<1>6. ASSUME NEW i \in ThisTurn', NEW k \in DOMAIN history'[i].calls
      PROVE  history'[i].calls[k] \in DOMAIN shown'.cards
  <2>1. PICK c : c = history'[i].calls[k] OBVIOUS
  <2>2. Made(c)' BY <2>1 DEF Made
  <2> QED BY <1>5, <2>1, <2>2
<1> QED BY <1>4, <1>5, <1>6 DEF CardsMatchResults

\* An assistant turn adds the cards of its calls, which nothing answers yet.
LEMMA CardsOnTurn ==
  ASSUME history \in Seq(Message), NEW m \in Message, history' = Append(history, m),
         m.role = "assistant", CardsMatchResults,
         NEW C, \A id : id \in C <=> \E k \in DOMAIN m.calls : m.calls[k] = id,
         \A i \in DOMAIN history : history[i].role = "tool" => history[i].re \notin C,
         DOMAIN shown'.cards = DOMAIN shown.cards \cup C,
         \A id \in DOMAIN shown'.cards :
           shown'.cards[id] = IF id \in C THEN "running" ELSE shown.cards[id]
  PROVE  CardsMatchResults'
<1>1. \A id : Made(id)' <=> Made(id) \/ id \in C BY TurnReads
<1>2. \A id : (Resolved(id)' <=> Resolved(id)) /\ (ResolvedWell(id)' <=> ResolvedWell(id))
  BY TurnReads
<1>3. \A id \in C : ~Resolved(id) /\ ~ResolvedWell(id)
  BY DEF Resolved, ResolvedWell, ThisTurn
<1>4. ASSUME NEW id \in DOMAIN shown'.cards
      PROVE  /\ Made(id)'
             /\ shown'.cards[id] = "running" <=> ~Resolved(id)'
             /\ shown'.cards[id] = "completed" <=> ResolvedWell(id)'
  <2>1. CASE id \in C BY <1>1, <1>2, <1>3, <2>1
  <2>2. CASE id \notin C
    <3>1. id \in DOMAIN shown.cards /\ shown'.cards[id] = shown.cards[id] BY <2>2
    <3> QED BY <1>1, <1>2, <3>1 DEF CardsMatchResults
  <2> QED BY <2>1, <2>2
<1>5. \A id : Made(id)' => id \in DOMAIN shown'.cards BY <1>1, CardsAreCalls
<1>6. ASSUME NEW i \in ThisTurn', NEW k \in DOMAIN history'[i].calls
      PROVE  history'[i].calls[k] \in DOMAIN shown'.cards
  <2>1. PICK c : c = history'[i].calls[k] OBVIOUS
  <2>2. Made(c)' BY <2>1 DEF Made
  <2> QED BY <1>5, <2>1, <2>2
<1> QED BY <1>4, <1>5, <1>6 DEF CardsMatchResults

\* What the handlers do to the live region.
LEMMA RegionRedrawn ==
  ASSUME NEW s, DOMAIN s = Fields
  PROVE  /\ \A p, t : /\ WithTurn(s, p, t).cards = s.cards
                      /\ WithTurn(s, p, t).content = s.content
                      /\ WithTurn(s, p, t).reasoning = s.reasoning
         /\ \A ph, n : /\ Cleared(s, ph, n).cards = <<>>
                       /\ Cleared(s, ph, n).content = {}
                       /\ Cleared(s, ph, n).reasoning = {}
         /\ \A ids : /\ DOMAIN WithCards(s, ids).cards = DOMAIN s.cards \cup ids
                     /\ \A id \in DOMAIN s.cards \cup ids :
                          WithCards(s, ids).cards[id] =
                            IF id \in ids THEN "running" ELSE s.cards[id]
BY DEF WithTurn, Cleared, SetCard, WithCards, Fields

\* The REPL awaits something else than a turn only where none runs.
LEMMA NoTurn ==
  ASSUME ScreenInv, repl # "turn" PROVE phase \in {"prompt", "ended"}
BY DEF ScreenInv, PhasesAgree

\* The texts start empty with each request, through whatever handler.
LEMMA TextsStep == IInv /\ ScreenInv /\ TextsOfRequest /\ ScreenNext => TextsOfRequest'
<1> SUFFICES ASSUME IInv, ScreenInv, TextsOfRequest, ScreenNext PROVE TextsOfRequest'
  OBVIOUS
<1> USE DEF TextsOfRequest
<1>1. DOMAIN shown = Fields BY DEF ScreenInv
<1>2. ASSUME AtPrompt PROVE TextsOfRequest'
  <2>1. CASE Booted \/ CommandThrows
    BY <2>1 DEF Booted, CommandThrows, Quit, vars
  <2>2. CASE EnterPrompt \/ EnterBlank \/ EnterQuit \/ EnterCommand
    BY <1>1, <2>2, RegionRedrawn, NoTurn
       DEF EnterPrompt, EnterBlank, EnterQuit, EnterCommand, CanEnter, Submit, Quit, Prompted, vars
  <2>3. CASE EnterQuery
    <3>1. DOMAIN Prompted(0) = Fields BY <1>1, Redrawn DEF Prompted
    <3>2. DOMAIN Cleared(Prompted(0), "awaiting_input", 0) = Fields BY <3>1, Redrawn
    <3>3. shown'.content = {} /\ shown'.reasoning = {}
      BY <2>3, <3>1, <3>2, RegionRedrawn DEF EnterQuery, SlashOutput
    <3> QED BY <2>3, <3>3, NoTurn DEF EnterQuery, CanEnter, vars
  <2>4. CASE CommandExpands BY <2>4 DEF CommandExpands, Submit
  <2>5. CASE CommandPins \/ CommandUnpins
    <3>1. DOMAIN Cleared(shown, "awaiting_input", 0) = Fields BY <1>1, Redrawn
    <3>2. shown'.content = {} /\ shown'.reasoning = {}
      BY <1>1, <2>5, <3>1, RegionRedrawn DEF CommandPins, CommandUnpins, SlashOutput
    <3> QED BY <2>5, <3>2 DEF CommandPins, CommandUnpins, ChangeSpore
  <2>6. CASE Unpinned
    <3>1. shown'.content = shown.content /\ shown'.reasoning = shown.reasoning
      BY <1>1, <2>6, RegionRedrawn DEF Unpinned, SystemMessage
    <3> QED BY <2>6, <3>1 DEF Unpinned, ChangeSpore
  <2> QED BY <1>2, <2>1, <2>2, <2>3, <2>4, <2>5, <2>6 DEF AtPrompt
<1>3. CASE ReasoningDelta \/ ContentDelta
  BY <1>1, <1>3 DEF ReasoningDelta, ContentDelta, vars, Fields
<1>4. CASE RequestApproval
  BY <1>1, <1>4 DEF RequestApproval, Ask, vars, Fields
<1>5. CASE ScreenMcpServerExits
  BY <1>1, <1>5, RegionRedrawn DEF ScreenMcpServerExits, McpServerExits, SystemMessage
<1>6. CASE InTurn
  <2>1. CASE ScreenPrepareRequest BY <2>1 DEF ScreenPrepareRequest, PrepareRequest
  <2>2. CASE ScreenStreamEnds
    <3>1. PICK m \in Message : /\ history' = Append(history, m)
                               /\ phase' = IF m.calls = <<>> THEN "turnDone" ELSE "invoke"
      BY <2>2, StreamFacts DEF ScreenStreamEnds, IInv, LoopShape
    <3>2. history'[Len(history')] = m
      BY <3>1, Appended DEF IInv, LoopShape, TypeOK
    <3>3. ASSUME m.calls # <<>>
          PROVE  contentText' = {} /\ reasoningText' = {}
                 /\ shown'.content = {} /\ shown'.reasoning = {}
      <4>1. {m.calls[k] : k \in DOMAIN m.calls} # {}
        <5>1. m.calls \in Seq(Nat) BY DEF Message
        <5>2. 1 \in DOMAIN m.calls BY <3>3, <5>1
        <5> QED BY <5>2
      <4>2. TurnComplete(WithCards(shown, {m.calls[k] : k \in DOMAIN m.calls}))
        BY <2>2, <3>2, <4>1 DEF ScreenStreamEnds
      <4>3. DOMAIN WithCards(shown, {m.calls[k] : k \in DOMAIN m.calls}) = Fields
        BY <1>1 DEF WithCards
      <4> QED BY <4>2, <4>3 DEF TurnComplete, Fields
    <3> QED BY <3>1, <3>3
  <2>3. CASE ScreenDenyTool
    <3>1. PICK st : shown' = SetCard(shown, Head(batch).id, st) BY <2>3 DEF ScreenDenyTool
    <3>2. shown'.content = shown.content /\ shown'.reasoning = shown.reasoning
      BY <1>1, <3>1 DEF SetCard, Fields
    <3> QED BY <2>3, <3>2 DEF ScreenDenyTool, DenyTool
  <2>4. CASE ScreenStartTool \/ ScreenNextIteration
    BY <2>4 DEF ScreenStartTool, ScreenNextIteration, StartTool, NextIteration, screenVars
  <2>5. CASE ScreenToolReturns
    <3>1. shown'.content = shown.content /\ shown'.reasoning = shown.reasoning
      <4>1. PICK st : shown' = SetCard(shown, running.id, st) BY <2>5 DEF ScreenToolReturns
      <4> QED BY <1>1, <4>1 DEF SetCard, Fields
    <3> QED BY <2>5, <3>1 DEF ScreenToolReturns, ToolReturns
  <2>6. CASE ScreenCompleteTurn
    <3>1. DOMAIN WithTurn(shown, shown.userInput, contentText) = Fields BY <1>1, Redrawn
    <3>2. shown'.content = {} /\ shown'.reasoning = {}
      BY <2>6, <3>1, RegionRedrawn DEF ScreenCompleteTurn
    <3> QED BY <2>6, <3>2 DEF ScreenCompleteTurn, CompleteTurn
  <2>7. CASE \E decision \in {"approve", "reject"} : ApprovalResponse(decision)
    BY <1>1, <2>7 DEF ApprovalResponse, AnswerHead, vars, Fields
  <2> QED BY <1>6, <2>1, <2>2, <2>3, <2>4, <2>5, <2>6, <2>7 DEF InTurn
<1> QED BY <1>2, <1>3, <1>4, <1>5, <1>6 DEF ScreenNext

\* A step that leaves history, batch and cards alone keeps them in step.
LEMMA CardsKept ==
  ASSUME CardsOfTurn, UNCHANGED <<history, batch>>, shown'.cards = shown.cards,
         phase' \in {"prompt", "ended"} \/ phase \notin {"prompt", "ended"},
         phase' = "prompt" => phase = "prompt"
  PROVE  CardsOfTurn'
BY DEF CardsOfTurn, CardsMatchResults, Made, Resolved, ResolvedWell, ThisTurn

\* An answered call has its card settled, whatever answered it.
LEMMA CardsOnAnswer ==
  ASSUME IInv, ScreenInv, IdsFresh, CardsOfTurn, phase = "invoke", phase' = "invoke",
         batch # <<>>, NEW c \in Call, c = Head(batch), NEW b \in BOOLEAN, Answer(c, b),
         NEW st, st # "running", st = "completed" <=> b, shown' = SetCard(shown, c.id, st)
  PROVE  CardsOfTurn'
<1> DEFINE m == Result(fresh, c, b)
<1>1. history \in Seq(Message) /\ batch \in Seq(Call) BY DEF IInv, LoopShape, TypeOK
<1>2. m \in Message /\ history' = Append(history, m) /\ batch' = Tail(batch)
  BY AnswerFacts DEF IInv, LoopShape
<1>3. m.role = "tool" /\ m.re = c.id /\ m.calls = <<>> /\ (m.ok <=> b) BY DEF Result
<1> HIDE DEF m
<1>4. /\ c = batch[1] /\ 1 \in DOMAIN batch
      /\ \A k \in DOMAIN batch' : k + 1 \in DOMAIN batch /\ batch'[k] = batch[k + 1]
  BY <1>1, <1>2
<1>5. /\ CardsMatchResults /\ c.id \in DOMAIN shown.cards
      /\ \A k \in DOMAIN batch' : batch'[k].id \in DOMAIN shown.cards
  BY <1>4 DEF CardsOfTurn
<1>6. \A i \in DOMAIN history : history[i].role = "tool" => history[i].re # m.re
  BY <1>3, <1>4 DEF IdsFresh
<1>7. shown'.cards = [shown.cards EXCEPT ![c.id] = st]
  BY DEF SetCard, ScreenInv, Fields
<1>8. /\ DOMAIN shown'.cards = DOMAIN shown.cards /\ shown'.cards[c.id] = st
      /\ \A id \in DOMAIN shown.cards : id # c.id => shown'.cards[id] = shown.cards[id]
  BY <1>5, <1>7
<1>9. CardsMatchResults' BY <1>1, <1>2, <1>3, <1>5, <1>6, <1>8, CardsOnResult
<1> QED BY <1>5, <1>8, <1>9 DEF CardsOfTurn

\* The cards follow the turn through every handler.
LEMMA CardsStep == IInv /\ ScreenInv /\ IdsFresh /\ CardsOfTurn /\ ScreenNext => CardsOfTurn'
<1> SUFFICES ASSUME IInv, ScreenInv, IdsFresh, CardsOfTurn, ScreenNext PROVE CardsOfTurn'
  OBVIOUS
<1>1. DOMAIN shown = Fields BY DEF ScreenInv
<1>2. history \in Seq(Message) /\ fresh \in Nat BY DEF IInv, LoopShape, TypeOK
<1>3. ASSUME Submit, shown'.cards = <<>> PROVE CardsOfTurn'
  <2>1. User(fresh) \in Message /\ User(fresh).role = "user" /\ history' = Append(history, User(fresh))
    BY <1>2, <1>3 DEF Submit, User, Message
  <2>2. ThisTurn' = {} BY <1>2, <2>1, TurnGrows
  <2>3. batch' = <<>> /\ phase' = "request"
    BY <1>3 DEF Submit, IInv, LoopShape, CallsAnswered
  <2> QED BY <1>3, <2>2, <2>3 DEF CardsOfTurn, CardsMatchResults
<1>4. ASSUME AtPrompt PROVE CardsOfTurn'
  <2>1. CASE Booted BY <2>1, CardsKept DEF Booted, vars
  <2>2. CASE EnterPrompt
    BY <1>1, <1>3, <2>2, RegionRedrawn DEF EnterPrompt, Prompted
  <2>3. CASE EnterBlank \/ EnterQuit \/ EnterCommand
    BY <1>1, <2>3, RegionRedrawn, NoTurn
       DEF EnterBlank, EnterQuit, EnterCommand, CanEnter, Quit, Prompted, vars, CardsOfTurn
  <2>4. CASE EnterQuery
    <3>1. DOMAIN Prompted(0) = Fields BY <1>1, Redrawn DEF Prompted
    <3>2. DOMAIN Cleared(Prompted(0), "awaiting_input", 0) = Fields BY <3>1, Redrawn
    <3>3. shown'.cards = <<>> BY <2>4, <3>1, <3>2, RegionRedrawn DEF EnterQuery, SlashOutput
    <3> QED BY <2>4, <3>3, NoTurn DEF EnterQuery, CanEnter, vars, CardsOfTurn
  <2>5. CASE CommandExpands
    <3>1. phase = "prompt" /\ shown'.cards = <<>>
      BY <2>5 DEF CommandExpands, Submit, CardsOfTurn
    <3> QED BY <1>3, <2>5, <3>1 DEF CommandExpands
  <2>6. CASE CommandPins \/ CommandUnpins
    <3>1. DOMAIN Cleared(shown, "awaiting_input", 0) = Fields BY <1>1, Redrawn
    <3>2. shown'.cards = <<>>
      BY <1>1, <2>6, <3>1, RegionRedrawn DEF CommandPins, CommandUnpins, SlashOutput
    <3> QED BY <2>6, <3>2 DEF CommandPins, CommandUnpins, ChangeSpore, CardsOfTurn
  <2>7. CASE Unpinned
    <3>1. shown'.cards = shown.cards BY <1>1, <2>7, RegionRedrawn DEF Unpinned, SystemMessage
    <3> QED BY <2>7, <3>1, CardsKept DEF Unpinned, ChangeSpore, loopVars
  <2>8. CASE CommandThrows
    BY <2>8 DEF CommandThrows, Quit, CardsOfTurn
  <2> QED BY <1>4, <2>1, <2>2, <2>3, <2>4, <2>5, <2>6, <2>7, <2>8 DEF AtPrompt
<1>5. CASE ReasoningDelta \/ ContentDelta
  <2>1. shown'.cards = shown.cards BY <1>1, <1>5 DEF ReasoningDelta, ContentDelta, Fields
  <2> QED BY <1>5, <2>1, CardsKept DEF ReasoningDelta, ContentDelta, vars
<1>6. CASE RequestApproval
  <2>1. shown'.cards = shown.cards BY <1>1, <1>6 DEF RequestApproval, Ask, Fields
  <2> QED BY <1>6, <2>1, CardsKept DEF RequestApproval, vars
<1>7. CASE ScreenMcpServerExits
  <2>1. shown'.cards = shown.cards
    BY <1>1, <1>7, RegionRedrawn DEF ScreenMcpServerExits, SystemMessage
  <2> QED BY <1>7, <2>1, CardsKept DEF ScreenMcpServerExits, McpServerExits, loopVars
<1>8. CASE InTurn
  <2>1. CASE ScreenPrepareRequest
    BY <2>1, CardsKept DEF ScreenPrepareRequest, PrepareRequest
  <2>2. CASE ScreenStreamEnds
    <3>1. PICK m \in Message :
            /\ history' = Append(history, m) /\ m.role = "assistant"
            /\ Len(batch') = Len(m.calls)
            /\ \A k \in 1..Len(m.calls) : batch'[k].id = m.calls[k] /\ m.calls[k] = fresh + k
      BY <2>2, StreamFacts DEF ScreenStreamEnds, IInv, LoopShape
    <3>2. batch' \in Seq(Call) /\ m.calls \in Seq(Nat) /\ DOMAIN batch' = DOMAIN m.calls
          /\ DOMAIN m.calls = 1..Len(m.calls)
      BY <2>2, <3>1, StreamFacts DEF ScreenStreamEnds, IInv, LoopShape, Message
    <3> DEFINE C == {m.calls[k] : k \in DOMAIN m.calls}
    <3>3. history'[Len(history')] = m BY <1>2, <3>1, Appended
    <3>4. /\ DOMAIN shown'.cards = DOMAIN shown.cards \cup C
          /\ \A id \in DOMAIN shown'.cards :
               shown'.cards[id] = IF id \in C THEN "running" ELSE shown.cards[id]
      <4>1. CASE C = {} BY <2>2, <3>3, <4>1 DEF ScreenStreamEnds
      <4>2. CASE C # {}
        <5>1. TurnComplete(WithCards(shown, C)) BY <2>2, <3>3, <4>2 DEF ScreenStreamEnds
        <5>2. DOMAIN WithCards(shown, C) = Fields BY <1>1 DEF WithCards
        <5>3. shown'.cards = WithCards(shown, C).cards
          BY <5>1, <5>2 DEF TurnComplete, Fields
        <5> QED BY <1>1, <5>3, RegionRedrawn
      <4> QED BY <4>1, <4>2
    <3>5. \A id : id \in C <=> \E k \in DOMAIN m.calls : m.calls[k] = id OBVIOUS
    <3> HIDE DEF C
    <3>6. ASSUME NEW i \in DOMAIN history, history[i].role = "tool" PROVE history[i].re \notin C
      <4>1. history[i].re \in Nat /\ history[i].re < fresh
        BY <1>2, <3>6, IdsAreNumbers DEF IdsFresh
      <4>2. \A k \in DOMAIN m.calls : m.calls[k] = fresh + k /\ k \in Nat BY <3>1, <3>2
      <4> QED BY <1>2, <3>5, <4>1, <4>2
    <3>7. CardsMatchResults
      BY <2>2 DEF ScreenStreamEnds, StreamEnds, CardsOfTurn
    <3>8. CardsMatchResults' BY <1>2, <3>1, <3>4, <3>5, <3>6, <3>7, CardsOnTurn
    <3>9. \A k \in DOMAIN batch' : batch'[k].id \in DOMAIN shown'.cards
      BY <3>1, <3>2, <3>4, <3>5
    <3>10. phase' # "prompt" BY <2>2, StreamFacts DEF ScreenStreamEnds, IInv, LoopShape
    <3> QED BY <3>8, <3>9, <3>10 DEF CardsOfTurn
  <2>3. CASE ScreenDenyTool
    <3>1. batch # <<>> /\ Answer(Head(batch), FALSE) /\ phase = "invoke" /\ phase' = "invoke"
          /\ shown' = SetCard(shown, Head(batch).id, "failed")
      BY <2>3, Zenon DEF ScreenDenyTool, DenyTool
    <3>2. Head(batch) \in Call BY <3>1 DEF IInv, LoopShape, TypeOK
    <3>3. PICK b \in BOOLEAN : Answer(Head(batch), b) /\ ~b BY <3>1
    <3>4. PICK st : st = "failed" OBVIOUS
    <3>5. st # "running" /\ st # "completed" /\ shown' = SetCard(shown, Head(batch).id, st)
      BY <3>1, <3>4
    <3> QED BY <3>1, <3>2, <3>3, <3>5, CardsOnAnswer
  <2>4. CASE ScreenStartTool
    BY <2>4, CardsKept DEF ScreenStartTool, StartTool, screenVars
  <2>5. CASE ScreenToolReturns
    <3>1. batch # <<>> /\ running = Head(batch) /\ running \in Call
          /\ phase = "invoke" /\ phase' = "invoke"
      BY <2>5 DEF ScreenToolReturns, ToolReturns, IInv, LoopShape, RunningIsHead, TypeOK
    <3>2. PICK b \in BOOLEAN : Answer(running, b)
      BY <2>5 DEF ScreenToolReturns, ToolReturns
    <3>3. history'[Len(history')].ok = b
      <4>1. Result(fresh, running, b) \in Message
            /\ history' = Append(history, Result(fresh, running, b))
        BY <3>1, <3>2, AnswerFacts DEF IInv, LoopShape
      <4>2. history'[Len(history')] = Result(fresh, running, b) BY <1>2, <4>1, Appended
      <4> QED BY <4>2 DEF Result
    <3>4. PICK st \in CardStatus : /\ shown' = SetCard(shown, running.id, st)
                                   /\ st # "running" /\ (st = "completed" <=> b)
      BY <2>5, <3>3 DEF ScreenToolReturns, CardStatus
    <3> QED BY <3>1, <3>2, <3>4, CardsOnAnswer
  <2>6. CASE ScreenNextIteration
    BY <2>6, CardsKept DEF ScreenNextIteration, NextIteration, screenVars
  <2>7. CASE ScreenCompleteTurn
    <3>1. DOMAIN WithTurn(shown, shown.userInput, contentText) = Fields BY <1>1, Redrawn
    <3>2. shown'.cards = <<>> BY <2>7, <3>1, RegionRedrawn DEF ScreenCompleteTurn
    <3> QED BY <2>7, <3>2 DEF ScreenCompleteTurn, CompleteTurn, CardsOfTurn
  <2>8. CASE \E decision \in {"approve", "reject"} : ApprovalResponse(decision)
    <3>1. shown'.cards = shown.cards BY <1>1, <2>8 DEF ApprovalResponse, AnswerHead, Fields
    <3> QED BY <2>8, <3>1, CardsKept DEF ApprovalResponse, vars
  <2> QED BY <1>8, <2>1, <2>2, <2>3, <2>4, <2>5, <2>6, <2>7, <2>8 DEF InTurn
<1> QED BY <1>4, <1>5, <1>6, <1>7, <1>8 DEF ScreenNext

\* Together: the live region is right after every step.
LEMMA RegionStep == IInv /\ ScreenInv /\ RegionInv /\ [ScreenNext]_allVars => RegionInv'
<1> SUFFICES ASSUME IInv, ScreenInv, RegionInv, [ScreenNext]_allVars PROVE RegionInv'
  OBVIOUS
<1>1. CASE ScreenNext
  <2>1. IdsFresh'
    <3>1. CASE Next BY <3>1, IdsStep DEF RegionInv
    <3>2. CASE UNCHANGED vars BY <3>2 DEF vars, RegionInv, IdsFresh
    <3> QED BY <1>1, <3>1, <3>2, ScreenStepIsLoopStep
  <2> QED BY <1>1, <2>1, TextsStep, CardsStep DEF RegionInv
<1>2. CASE UNCHANGED allVars
  <2>1. UNCHANGED <<vars, shown, contentText, reasoningText>>
    BY <1>2 DEF allVars, screenVars
  <2>2. UNCHANGED <<phase, history, batch, fresh>> BY <2>1 DEF vars
  <2>3. CardsOfTurn' BY <2>1, <2>2, CardsKept DEF RegionInv
  <2> QED BY <2>1, <2>2, <2>3 DEF RegionInv, IdsFresh, TextsOfRequest
<1> QED BY <1>1, <1>2

-----------------------------------------------------------------------------

\* With the screen around it the loop is still the loop: what holds of runReactLoop and
\* the REPL holds whatever the user types and answers and however deltas arrive.
THEOREM ScreenKeepsLoop == ScreenSpec => Spec
<1>1. ScreenInit => Init BY DEF ScreenInit
<1>2. [ScreenNext]_allVars => [Next]_vars
  BY ScreenStepIsLoopStep DEF allVars
<1> QED BY <1>1, <1>2, PTL DEF ScreenSpec, Spec

\* The inductive invariant of the screen.
THEOREM ScreenInvariant == ScreenSpec => []ScreenInv
BY ScreenInitHolds, ScreenStep, PTL DEF ScreenSpec

\* The inductive invariant of the live region.
THEOREM RegionInvariant == ScreenSpec => []RegionInv
<1>1. ScreenInit => RegionInv
  BY DEF ScreenInit, Init, RegionInv, IdsFresh, TextsOfRequest, CardsOfTurn
<1>2. ScreenSpec => []IInv BY ScreenKeepsLoop, LoopInvariant, PTL
<1> QED BY <1>1, <1>2, RegionStep, ScreenInvariant, PTL DEF ScreenSpec

\* The live region of a running turn has a card for each of its calls, settled when and
\* as the call is, and no text but that of the request that streams (index.ts 474-483).
THEOREM LiveRegionCorrect == ScreenSpec => []LiveRegionExact
<1>1. IInv /\ ScreenInv /\ RegionInv => LiveRegionExact
  BY DEF RegionInv, CardsOfTurn, TextsOfRequest, LiveRegionExact, ShowsThisRequest
<1>2. ScreenSpec => []IInv BY ScreenKeepsLoop, LoopInvariant, PTL
<1> QED BY <1>1, <1>2, RegionInvariant, ScreenInvariant, PTL

\* The input box is there at every prompt, but for empty ones, and heard (index.ts 365).
THEOREM HeardCorrect == ScreenSpec => []InputBoxHeard
<1>1. ScreenInv => InputBoxHeard BY DEF ScreenInv
<1> QED BY <1>1, ScreenInvariant, PTL

\* No redraw takes away an approval that a tool waits for (index.ts 485-494).
THEOREM AnswerableCorrect == ScreenSpec => []ApprovalAnswerable
<1>1. ScreenInv => ApprovalAnswerable BY DEF ScreenInv
<1> QED BY <1>1, ScreenInvariant, PTL

-----------------------------------------------------------------------------
(* The turns above the live region                                         *)

Turn == [prompt : Int, content : SUBSET Nat]
Built == [prompt : Nat, answer : Nat]

\* The entry at n, if it is one of those wanted.
Wanted(ts, wanted, n) == IF ts[n].prompt \in wanted THEN <<ts[n]>> ELSE <<>>

LEMMA WantedTurns ==
  ASSUME NEW ts \in Seq(Turn), NEW wanted
  PROVE  /\ [n \in 1..Len(ts) |-> Wanted(ts, wanted, n)] \in Seq(Seq(Turn))
         /\ TurnsOf(ts, wanted) = FlattenSeq([n \in 1..Len(ts) |-> Wanted(ts, wanted, n)])
<1> DEFINE W(n) == Wanted(ts, wanted, n)
           X == Seq(Turn)
<1>1. ASSUME NEW n \in 1..Len(ts) PROVE W(n) \in X
  <2>1. ts[n] \in Turn BY ElementOfSeq
  <2>2. <<ts[n]>> \in Seq(Turn) BY <2>1
  <2>3. <<>> \in Seq(Turn) OBVIOUS
  <2> QED BY <2>2, <2>3 DEF Wanted
<1>2. Len(ts) \in Nat OBVIOUS
<1> HIDE DEF W, X
<1>3. [n \in 1..Len(ts) |-> W(n)] \in Seq(X) BY <1>1, <1>2
<1>4. TurnsOf(ts, wanted) = FlattenSeq([n \in 1..Len(ts) |-> W(n)])
  BY Zenon DEF TurnsOf, Wanted, W
<1> QED BY <1>3, <1>4 DEF W, X

\* The entries found are entries, and wanted.
LEMMA TurnsOfMembers ==
  ASSUME NEW ts \in Seq(Turn), NEW wanted
  PROVE  /\ TurnsOf(ts, wanted) \in Seq(Turn)
         /\ \A k \in 1..Len(TurnsOf(ts, wanted)) :
              \E n \in 1..Len(ts) : TurnsOf(ts, wanted)[k] = ts[n] /\ ts[n].prompt \in wanted
<1> DEFINE a == [n \in 1..Len(ts) |-> Wanted(ts, wanted, n)]
           s == TurnsOf(ts, wanted)
<1>1. a \in Seq(Seq(Turn)) /\ s = FlattenSeq(a) BY WantedTurns
<1>2. Len(a) = Len(ts) /\ Len(ts) \in Nat /\ \A n \in 1..Len(ts) : a[n] = Wanted(ts, wanted, n)
  OBVIOUS
<1>3. \A n \in 1..Len(ts) : ts[n] \in Turn BY ElementOfSeq
<1> HIDE DEF a, s
<1>4. \A n \in 1..Len(a) : a[n] = <<>> \/ \E x \in Turn : a[n] = <<x>>
  BY <1>2, <1>3 DEF Wanted
<1>5. s \in Seq(Turn) /\ \E f : Picks(s, a, f, Occupied(a, Len(a)))
  BY <1>1, <1>4, FlattenUnits
<1>6. PICK f : Picks(s, a, f, Occupied(a, Len(a))) BY <1>5
<1>7. ASSUME NEW k \in 1..Len(s)
      PROVE  \E n \in 1..Len(ts) : s[k] = ts[n] /\ ts[n].prompt \in wanted
  <2>1. s[k] = a[f[k]][1] /\ f \in [1..Len(s) -> Occupied(a, Len(a))]
    BY <1>6 DEF Picks, Enumerates
  <2>2. f[k] \in Occupied(a, Len(a)) BY <2>1
  <2>3. f[k] \in 1..Len(ts) /\ a[f[k]] # <<>> BY <1>2, <2>2 DEF Occupied
  <2>4. a[f[k]] = Wanted(ts, wanted, f[k]) BY <1>2, <2>3
  <2>5. a[f[k]] = <<ts[f[k]]>> /\ ts[f[k]].prompt \in wanted BY <2>3, <2>4 DEF Wanted
  <2>6. s[k] = ts[f[k]] BY <2>1, <2>5
  <2> QED BY <2>3, <2>5, <2>6
<1> QED BY <1>5, <1>7 DEF s

\* One entry more is found behind the others, or not at all.
LEMMA TurnsOfAppend ==
  ASSUME NEW ts \in Seq(Turn), NEW t \in Turn, NEW wanted
  PROVE  TurnsOf(Append(ts, t), wanted) =
           IF t.prompt \in wanted THEN Append(TurnsOf(ts, wanted), t) ELSE TurnsOf(ts, wanted)
<1> DEFINE more == Append(ts, t)
           n == Len(ts)
           a == [i \in 1..Len(ts) |-> Wanted(ts, wanted, i)]
           b == [i \in 1..Len(more) |-> Wanted(more, wanted, i)]
           s == TurnsOf(ts, wanted)
<1>1. /\ more \in Seq(Turn) /\ Len(more) = n + 1 /\ n \in Nat /\ more[n + 1] = t
      /\ \A i \in 1..n : more[i] = ts[i]
  OBVIOUS
<1>2. a \in Seq(Seq(Turn)) /\ s = FlattenSeq(a) BY WantedTurns
<1>3. b \in Seq(Seq(Turn)) /\ TurnsOf(more, wanted) = FlattenSeq(b)
  <2> HIDE DEF more
  <2> QED BY <1>1, WantedTurns
<1>4. Len(a) = n /\ \A i \in 1..n : a[i] = Wanted(ts, wanted, i) BY <1>1
<1>5. Len(b) = n + 1 /\ \A i \in 1..(n + 1) : b[i] = Wanted(more, wanted, i) BY <1>1
<1>6. s \in Seq(Turn) BY TurnsOfMembers
<1> HIDE DEF a, b, more, n, s
<1>7. \A i \in 1..n : b[i] = a[i] BY <1>1, <1>4, <1>5 DEF Wanted
<1>8. b[n + 1] = IF t.prompt \in wanted THEN <<t>> ELSE <<>> BY <1>1, <1>5 DEF Wanted
<1>9. FlattenSeq(b) = s \o b[n + 1]
  <2>1. OneMore(Turn, a, b) BY <1>2, <1>3, <1>4, <1>5, <1>7 DEF OneMore
  <2>2. FlattenSeq(b) = FlattenSeq(a) \o b[Len(a) + 1] BY <2>1, FlattenMore
  <2> QED BY <1>2, <1>4, <2>2
<1>10. s \o <<t>> = Append(s, t) /\ s \o <<>> = s BY <1>6
<1> QED BY <1>3, <1>8, <1>9, <1>10 DEF more, s

\* What is found depends on the prompts there are.
LEMMA TurnsOfSame ==
  ASSUME NEW ts \in Seq(Turn), NEW p, NEW q,
         \A n \in 1..Len(ts) : ts[n].prompt \in p <=> ts[n].prompt \in q
  PROVE  TurnsOf(ts, p) = TurnsOf(ts, q)
<1>1. \A n \in 1..Len(ts) : Wanted(ts, p, n) = Wanted(ts, q, n) BY DEF Wanted
<1>2. [n \in 1..Len(ts) |-> Wanted(ts, p, n)] = [n \in 1..Len(ts) |-> Wanted(ts, q, n)] BY <1>1
<1> QED BY <1>2, WantedTurns

-----------------------------------------------------------------------------
(* The turns of a history                                                  *)

\* The turn that the i-th message of h ends, if any.
Ended(h, i) ==
  IF Terminal(h[i]) /\ Asked(h, i) # {}
    THEN <<[prompt |-> h[CHOOSE j \in Asked(h, i) : TRUE].id, answer |-> h[i].id]>>
    ELSE <<>>

\* At most one user message is asked, and it is one of the messages before.
LEMMA AskedOnce ==
  ASSUME NEW h \in Seq(Message), NEW i \in Nat, NEW u \in Asked(h, i)
  PROVE  (CHOOSE j \in Asked(h, i) : TRUE) = u /\ u \in 1..(i - 1)
<1>1. ASSUME NEW v \in Asked(h, i), NEW w \in Asked(h, i), v < w PROVE FALSE
  <2>1. w \in (v + 1)..(i - 1) BY <1>1 DEF Asked
  <2> QED BY <2>1 DEF Asked
<1>2. u \in 1..(i - 1) BY DEF Asked
<1> DEFINE v == CHOOSE j \in Asked(h, i) : TRUE
<1>3. v \in Asked(h, i) OBVIOUS
<1> HIDE DEF v
<1>4. v \in 1..(i - 1) BY <1>3 DEF Asked
<1>5. v = u \/ v < u \/ u < v BY <1>2, <1>4
<1> QED BY <1>1, <1>2, <1>3, <1>5 DEF v

LEMMA EndedTurns ==
  ASSUME NEW h \in Seq(Message)
  PROVE  /\ [i \in 1..Len(h) |-> Ended(h, i)] \in Seq(Seq(Built))
         /\ \A i \in 1..Len(h) : Ended(h, i) = <<>> \/ \E b \in Built : Ended(h, i) = <<b>>
         /\ BuildTurns(h) = FlattenSeq([i \in 1..Len(h) |-> Ended(h, i)])
         /\ BuildTurns(h) \in Seq(Built)
<1> DEFINE E(i) == Ended(h, i)
           X == Seq(Built)
           a == [i \in 1..Len(h) |-> E(i)]
<1>1. ASSUME NEW i \in 1..Len(h) PROVE E(i) = <<>> \/ \E b \in Built : E(i) = <<b>>
  <2>1. \A j \in 1..Len(h) : h[j].id \in Nat
    <3> TAKE j \in 1..Len(h)
    <3>1. h[j] \in Message BY ElementOfSeq
    <3> QED BY <3>1 DEF Message
  <2>2. ASSUME NEW u \in Asked(h, i) PROVE h[CHOOSE j \in Asked(h, i) : TRUE].id \in Nat
    <3>1. (CHOOSE j \in Asked(h, i) : TRUE) = u /\ u \in 1..(i - 1) BY AskedOnce
    <3>2. u \in 1..Len(h) BY <3>1
    <3> QED BY <2>1, <3>1, <3>2
  <2> QED BY <2>1, <2>2 DEF Ended, Built
<1>2. \A i \in 1..Len(h) : E(i) \in X
  <2> TAKE i \in 1..Len(h)
  <2>1. <<>> \in Seq(Built) /\ \A b \in Built : <<b>> \in Seq(Built) OBVIOUS
  <2> HIDE DEF E
  <2> QED BY <1>1, <2>1
<1>3. Len(h) \in Nat OBVIOUS
<1>4. BuildTurns(h) = FlattenSeq([i \in 1..Len(h) |-> E(i)])
  BY Zenon DEF BuildTurns, Ended, E
<1> HIDE DEF E, X
<1>5. a \in Seq(X) /\ Len(a) = Len(h) /\ \A i \in 1..Len(h) : a[i] = E(i) BY <1>2, <1>3
<1>6. a \in Seq(Seq(Built)) BY <1>5 DEF X
<1> HIDE DEF a
<1>7. \A i \in 1..Len(a) : a[i] = <<>> \/ \E b \in Built : a[i] = <<b>> BY <1>1, <1>5
<1>8. FlattenSeq(a) \in Seq(Built) BY <1>6, <1>7, FlattenUnits
<1> QED BY <1>1, <1>4, <1>6, <1>8 DEF a, E

\* Whom a message answers does not depend on those behind it.
LEMMA AskedStays ==
  ASSUME NEW h \in Seq(Message), NEW m \in Message, NEW i \in 1..(Len(h) + 1)
  PROVE  Asked(Append(h, m), i) = Asked(h, i)
<1> DEFINE g == Append(h, m)
<1>1. Len(h) \in Nat /\ \A j \in 1..Len(h) : g[j] = h[j] OBVIOUS
<1> HIDE DEF g
<1>2. 1..(i - 1) \subseteq 1..Len(h) /\ \A j \in 1..(i - 1) : (j + 1)..(i - 1) \subseteq 1..Len(h)
  BY <1>1
<1>3. \A j \in 1..(i - 1) :
        (g[j].role = "user" /\ \A k \in (j + 1)..(i - 1) : g[k].role # "user" /\ ~Terminal(g[k])) <=>
        (h[j].role = "user" /\ \A k \in (j + 1)..(i - 1) : h[k].role # "user" /\ ~Terminal(h[k]))
  BY <1>1, <1>2, Zenon
<1> QED BY <1>3 DEF Asked, g

\* An answer ends the turn it answers; no other message ends one.
LEMMA BuildsOn ==
  ASSUME NEW h \in Seq(Message), NEW m \in Message
  PROVE  /\ ~Terminal(m) => BuildTurns(Append(h, m)) = BuildTurns(h)
         /\ \A u \in Asked(h, Len(h) + 1) : Terminal(m) =>
              BuildTurns(Append(h, m)) =
                Append(BuildTurns(h), [prompt |-> h[u].id, answer |-> m.id])
<1> DEFINE g == Append(h, m)
           n == Len(h)
           a == [i \in 1..Len(h) |-> Ended(h, i)]
           b == [i \in 1..Len(g) |-> Ended(g, i)]
           r == BuildTurns(h)
<1>1. /\ g \in Seq(Message) /\ Len(g) = n + 1 /\ n \in Nat /\ g[n + 1] = m
      /\ \A i \in 1..n : g[i] = h[i]
  OBVIOUS
<1>2. a \in Seq(Seq(Built)) /\ r = FlattenSeq(a) /\ r \in Seq(Built) BY EndedTurns
<1>3. b \in Seq(Seq(Built)) /\ BuildTurns(g) = FlattenSeq(b)
      /\ \A i \in 1..Len(g) : Ended(g, i) = <<>> \/ \E x \in Built : Ended(g, i) = <<x>>
  <2> HIDE DEF g
  <2> QED BY <1>1, EndedTurns
<1>4. Len(a) = n /\ \A i \in 1..n : a[i] = Ended(h, i) BY <1>1
<1>5. Len(b) = n + 1 /\ \A i \in 1..(n + 1) : b[i] = Ended(g, i) BY <1>1
<1>6. \A i \in 1..(n + 1) : Asked(g, i) = Asked(h, i) BY AskedStays
<1>7. \A i \in 1..n : \A j \in Asked(h, i) : (CHOOSE k \in Asked(h, i) : TRUE) \in 1..n
  <2> TAKE i \in 1..n
  <2> TAKE j \in Asked(h, i)
  <2>1. n \in Nat BY <1>1
  <2>2. i \in Nat BY <2>1
  <2>3. (CHOOSE k \in Asked(h, i) : TRUE) = j /\ j \in 1..(i - 1) BY <2>2, AskedOnce
  <2>4. j \in 1..n BY <2>1, <2>3
  <2> QED BY <2>3, <2>4
<1> HIDE DEF a, b, g, n, r
<1>8. \A i \in 1..n : b[i] = a[i]
  <2> TAKE i \in 1..n
  <2>1. i \in 1..(n + 1) BY <1>1
  <2>2. Asked(g, i) = Asked(h, i) /\ g[i] = h[i] BY <1>1, <1>6, <2>1
  <2>3. Ended(g, i) = Ended(h, i)
    <3>1. CASE Asked(h, i) = {} BY <2>2, <3>1 DEF Ended
    <3>2. CASE Asked(h, i) # {}
      <4> DEFINE u == CHOOSE k \in Asked(h, i) : TRUE
      <4>1. u \in 1..n BY <1>7, <3>2
      <4>2. g[u] = h[u] BY <1>1, <4>1
      <4> QED BY <2>2, <4>2 DEF Ended
    <3> QED BY <3>1, <3>2
  <2> QED BY <1>4, <1>5, <2>1, <2>3
<1>9. FlattenSeq(b) = r \o b[n + 1]
  <2>1. OneMore(Built, a, b) BY <1>2, <1>3, <1>4, <1>5, <1>8 DEF OneMore
  <2>2. FlattenSeq(b) = FlattenSeq(a) \o b[Len(a) + 1] BY <2>1, FlattenMore
  <2> QED BY <1>2, <1>4, <2>2
<1>10. b[n + 1] = Ended(g, n + 1)
  <2>1. n + 1 \in 1..(n + 1) BY <1>1
  <2> QED BY <1>5, <2>1
<1>11. ASSUME ~Terminal(m) PROVE BuildTurns(g) = r
  <2>1. Ended(g, n + 1) = <<>> BY <1>1, <1>11 DEF Ended
  <2>2. r \o <<>> = r BY <1>2
  <2> QED BY <1>3, <1>9, <1>10, <2>1, <2>2
<1>12. ASSUME NEW u \in Asked(h, n + 1), Terminal(m)
       PROVE  BuildTurns(g) = Append(r, [prompt |-> h[u].id, answer |-> m.id])
  <2> DEFINE x == [prompt |-> h[u].id, answer |-> m.id]
  <2>1. (CHOOSE k \in Asked(h, n + 1) : TRUE) = u /\ u \in 1..n
    <3> DEFINE z == n + 1
    <3>1. z \in Nat /\ z - 1 = n /\ u \in Asked(h, z) BY <1>1, <1>12
    <3> HIDE DEF z
    <3>2. (CHOOSE k \in Asked(h, z) : TRUE) = u /\ u \in 1..(z - 1) BY <3>1, AskedOnce
    <3> QED BY <3>1, <3>2 DEF z
  <2>2. Asked(g, n + 1) = Asked(h, n + 1) /\ g[u] = h[u]
    <3>1. n + 1 \in 1..(n + 1) BY <1>1
    <3> QED BY <1>1, <1>6, <2>1, <3>1
  <2>3. Ended(g, n + 1) = <<x>> BY <1>1, <1>12, <2>1, <2>2 DEF Ended
  <2>4. x \in Built
    <3> DEFINE z == n + 1
    <3>1. z \in 1..Len(g) /\ Ended(g, z) = <<x>> BY <1>1, <1>3, <2>3
    <3> HIDE DEF z, x
    <3>2. z \in 1..Len(g) BY <3>1
    <3>3. Ended(g, z) = <<>> \/ \E y \in Built : Ended(g, z) = <<y>> BY <1>3, <3>2, Zenon
    <3>4. Ended(g, z) # <<>> BY <3>1
    <3>5. PICK y \in Built : Ended(g, z) = <<y>> BY <3>3, <3>4
    <3>6. <<x>> = <<y>> BY <3>1, <3>5
    <3>7. x = y BY <3>6
    <3> QED BY <3>5, <3>7
  <2> HIDE DEF x
  <2>5. r \o <<x>> = Append(r, x) BY <1>2, <2>4
  <2> QED BY <1>3, <1>9, <1>10, <2>3, <2>5 DEF x
<1> QED BY <1>11, <1>12 DEF g, n, r
-----------------------------------------------------------------------------
(* Seen and built                                                          *)

Answered(built) == {built[n].prompt : n \in 1..Len(built)}

\* A typed text is one of those sent for some messages when its message is one of them.
LEMMA TypedSent ==
  ASSUME NEW built \in Seq(Built), NEW p \in Int
  PROVE  p \in TypedFor(Answered(built)) <=> Sent(p) \in Answered(built)
<1>1. \A n \in 1..Len(built) : built[n].prompt \in Nat
  <2> TAKE n \in 1..Len(built)
  <2>1. built[n] \in Built BY ElementOfSeq
  <2> QED BY <2>1 DEF Built
<1>2. Answered(built) \subseteq Nat BY <1>1 DEF Answered
<1>3. \A ids \in SUBSET Nat : p \in TypedFor(ids) <=> Sent(p) \in ids BY DEF TypedFor, Sent
<1> QED BY <1>2, <1>3

LEMMA MatchesForm ==
  ASSUME NEW own, NEW built
  PROVE  Matches(own, built) <=>
           /\ Len(TurnsOf(own, TypedFor(Answered(built)))) = Len(built)
           /\ \A n \in 1..Len(built) :
                /\ Sent(TurnsOf(own, TypedFor(Answered(built)))[n].prompt) = built[n].prompt
                /\ TurnsOf(own, TypedFor(Answered(built)))[n].content \subseteq {built[n].answer}
           /\ \A n \in 1..Len(own) :
                own[n].prompt \notin TypedFor(Answered(built)) => own[n].content = {}
BY Zenon DEF Matches, Answered

\* Nothing seen is nothing built.
LEMMA MatchesNothing == Matches(<<>>, <<>>)
<1> DEFINE none == <<>>
<1>1. none \in Seq(Turn) /\ Len(none) = 0 OBVIOUS
<1> HIDE DEF none
<1>2. TurnsOf(none, TypedFor(Answered(none))) \in Seq(Turn) BY <1>1, TurnsOfMembers
<1>3. \A k \in 1..Len(TurnsOf(none, TypedFor(Answered(none)))) : \E n \in 1..Len(none) : TRUE
  BY <1>1, TurnsOfMembers
<1>4. Len(TurnsOf(none, TypedFor(Answered(none)))) = 0
  <2> DEFINE s == TurnsOf(none, TypedFor(Answered(none)))
  <2>1. Len(s) \in Nat BY <1>2
  <2>2. \A k \in 1..Len(s) : \E n \in 1..Len(none) : TRUE BY <1>3
  <2> HIDE DEF s
  <2>3. 1 \notin 1..Len(s) BY <1>1, <2>2
  <2>4. Len(s) = 0 BY <2>1, <2>3
  <2> QED BY <2>4 DEF s
<1> QED BY <1>1, <1>4, MatchesForm DEF none

\* An answered prompt is one that was seen.
LEMMA AnsweredSeen ==
  ASSUME NEW own \in Seq(Turn), NEW built \in Seq(Built), Matches(own, built),
         NEW p \in Answered(built)
  PROVE  \E n \in 1..Len(own) : Sent(own[n].prompt) = p
<1> DEFINE s == TurnsOf(own, TypedFor(Answered(built)))
<1>1. PICK n \in 1..Len(built) : built[n].prompt = p BY DEF Answered
<1>2. Len(s) = Len(built) /\ Sent(s[n].prompt) = p BY <1>1, MatchesForm
<1>3. \A k \in 1..Len(s) : \E i \in 1..Len(own) : s[k] = own[i] BY TurnsOfMembers
<1> QED BY <1>1, <1>2, <1>3

\* A new prompt without an answer adds nothing to what was built.
LEMMA SeenUnanswered ==
  ASSUME NEW own \in Seq(Turn), NEW built \in Seq(Built), Matches(own, built),
         NEW t \in Turn, t.content = {},
         \A n \in 1..Len(own) : Sent(own[n].prompt) # Sent(t.prompt)
  PROVE  Matches(Append(own, t), built)
<1>1. t.prompt \notin TypedFor(Answered(built))
  <2>1. Sent(t.prompt) \notin Answered(built) BY AnsweredSeen
  <2>2. t.prompt \in Int BY DEF Turn
  <2> QED BY <2>1, <2>2, TypedSent
<1>2. TurnsOf(Append(own, t), TypedFor(Answered(built))) = TurnsOf(own, TypedFor(Answered(built)))
  BY <1>1, TurnsOfAppend
<1>3. \A n \in 1..Len(Append(own, t)) :
        Append(own, t)[n] = t \/ \E i \in 1..Len(own) : Append(own, t)[n] = own[i]
  OBVIOUS
<1>4. \A n \in 1..Len(own) :
        own[n].prompt \notin TypedFor(Answered(built)) => own[n].content = {}
  BY MatchesForm
<1>5. \A n \in 1..Len(Append(own, t)) :
        Append(own, t)[n].prompt \notin TypedFor(Answered(built)) =>
          Append(own, t)[n].content = {}
  BY <1>3, <1>4
<1> HIDE DEF Matches
<1> QED BY <1>2, <1>5, MatchesForm

\* A new prompt with its answer is the turn built for it.
LEMMA SeenAnswered ==
  ASSUME NEW own \in Seq(Turn), NEW built \in Seq(Built), Matches(own, built),
         NEW t \in Turn, NEW b \in Built, b.prompt = Sent(t.prompt), t.content \subseteq {b.answer},
         \A n \in 1..Len(own) : Sent(own[n].prompt) # Sent(t.prompt)
  PROVE  Matches(Append(own, t), Append(built, b))
<1> DEFINE more == Append(own, t)
           grown == Append(built, b)
           before == TypedFor(Answered(built))
           after == TypedFor(Answered(grown))
           s == TurnsOf(own, before)
<1>1. /\ Len(built) \in Nat /\ Len(grown) = Len(built) + 1 /\ grown[Len(built) + 1] = b
      /\ \A n \in 1..Len(built) : grown[n] = built[n]
      /\ grown \in Seq(Built)
  OBVIOUS
<1>2. \A n \in 1..Len(more) : more[n] = t \/ \E i \in 1..Len(own) : more[n] = own[i]
  OBVIOUS
<1>3. more = Append(own, t) OBVIOUS
<1> HIDE DEF more, grown
<1>4. Answered(grown) = Answered(built) \cup {Sent(t.prompt)}
  <2>1. 1..Len(grown) = 1..Len(built) \cup {Len(built) + 1} BY <1>1
  <2> QED BY <1>1, <2>1 DEF Answered
<1>5. /\ t.prompt \in after
      /\ \A n \in 1..Len(own) : own[n].prompt \in after <=> own[n].prompt \in before
  <2>1. \A p \in Int : /\ p \in before <=> Sent(p) \in Answered(built)
                       /\ p \in after <=> Sent(p) \in Answered(grown)
    BY <1>1, TypedSent
  <2>2. t.prompt \in Int BY DEF Turn
  <2>3. ASSUME NEW n \in 1..Len(own) PROVE own[n].prompt \in Int
    <3>1. own[n] \in Turn BY ElementOfSeq
    <3> QED BY <3>1 DEF Turn
  <2> HIDE DEF before, after
  <2> QED BY <1>4, <2>1, <2>2, <2>3
<1>6. TurnsOf(more, after) = Append(s, t)
  <2> HIDE DEF before, after
  <2>1. TurnsOf(own, after) = s BY <1>5, TurnsOfSame
  <2> QED BY <1>3, <1>5, <2>1, TurnsOfAppend
<1>7. s \in Seq(Turn) BY TurnsOfMembers
<1>8. /\ Len(s) = Len(built)
      /\ \A n \in 1..Len(built) :
           Sent(s[n].prompt) = built[n].prompt /\ s[n].content \subseteq {built[n].answer}
      /\ \A n \in 1..Len(own) : own[n].prompt \notin before => own[n].content = {}
  BY MatchesForm
<1> HIDE DEF s
<1> DEFINE r == Append(s, t)
<1>9. /\ Len(r) = Len(built) + 1 /\ r[Len(built) + 1] = t
      /\ \A n \in 1..Len(built) : r[n] = s[n]
  BY <1>7, <1>8
<1> HIDE DEF r
<1>10. \A n \in 1..Len(grown) :
         Sent(r[n].prompt) = grown[n].prompt /\ r[n].content \subseteq {grown[n].answer}
  <2> TAKE n \in 1..Len(grown)
  <2>1. CASE n \in 1..Len(built) BY <1>1, <1>8, <1>9, <2>1
  <2>2. CASE n = Len(built) + 1 BY <1>1, <1>9, <2>2
  <2> QED BY <1>1, <2>1, <2>2
<1>11. \A n \in 1..Len(more) : more[n].prompt \notin after => more[n].content = {}
  <2> HIDE DEF before, after
  <2> QED BY <1>2, <1>5, <1>8
<1>12. TurnsOf(more, after) = r /\ Len(r) = Len(grown) BY <1>1, <1>6, <1>9 DEF r
<1>13. Matches(more, grown) BY <1>10, <1>11, <1>12, MatchesForm
<1> QED BY <1>13 DEF more, grown

\* The turns of the user are entries of the screen; an entry is one of them by its prompt.
LEMMA OwnTurns ==
  ASSUME NEW ts \in Seq(Turn)
  PROVE  /\ Own(ts) \in Seq(Turn)
         /\ \A k \in 1..Len(Own(ts)) : \E n \in 1..Len(ts) : Own(ts)[k] = ts[n]
         /\ \A t \in Turn : Own(Append(ts, t)) = IF t.prompt = 0 THEN Own(ts) ELSE Append(Own(ts), t)
<1>1. \A t \in Turn : t.prompt \in Int \ {0} <=> t.prompt # 0 BY DEF Turn
<1>2. \A t \in Turn : Own(Append(ts, t)) =
         IF t.prompt \in Int \ {0} THEN Append(Own(ts), t) ELSE Own(ts)
  BY TurnsOfAppend DEF Own
<1>3. \A t \in Turn : Own(Append(ts, t)) = IF t.prompt = 0 THEN Own(ts) ELSE Append(Own(ts), t)
  BY <1>1, <1>2
<1> QED BY <1>3, TurnsOfMembers DEF Own
-----------------------------------------------------------------------------
(* The turns through every handler                                         *)

\* What the entries and the prompt of the turn become.
LEMMA TurnsRedrawn ==
  ASSUME NEW s, DOMAIN s = Fields
  PROVE  /\ \A p, t : /\ WithTurn(s, p, t).turns = Append(s.turns, [prompt |-> p, content |-> t])
                      /\ WithTurn(s, p, t).userInput = s.userInput
         /\ \A ph, n : Cleared(s, ph, n).turns = s.turns /\ Cleared(s, ph, n).userInput = n
         /\ \A id, st : SetCard(s, id, st).turns = s.turns /\ SetCard(s, id, st).userInput = s.userInput
         /\ \A ids : /\ WithCards(s, ids).turns = s.turns /\ WithCards(s, ids).userInput = s.userInput
                     /\ DOMAIN WithCards(s, ids) = Fields
BY DEF WithTurn, Cleared, SetCard, WithCards, Fields

Notice == [prompt |-> 0, content |-> {}]

LEMMA NoticeAdded ==
  ASSUME NEW s, DOMAIN s = Fields
  PROVE  /\ SystemMessage(s).turns = Append(s.turns, Notice)
         /\ SystemMessage(s).userInput = s.userInput
         /\ SlashOutput(s).turns = Append(s.turns, Notice)
         /\ SlashOutput(s).userInput = 0
<1>1. ASSUME NEW r, DOMAIN r = Fields
      PROVE  /\ WithTurn(r, 0, {}).turns = Append(r.turns, Notice)
             /\ WithTurn(r, 0, {}).userInput = r.userInput
  BY <1>1 DEF WithTurn, Notice, Fields
<1> DEFINE c == Cleared(s, "awaiting_input", 0)
<1>2. DOMAIN c = Fields /\ c.turns = s.turns /\ c.userInput = 0 BY Redrawn, TurnsRedrawn
<1> HIDE DEF c
<1>3. SlashOutput(s) = WithTurn(c, 0, {}) BY DEF SlashOutput, c
<1> QED BY <1>1, <1>2, <1>3 DEF SystemMessage

\* The history is left alone, at most a notice is added and the turn stays what it is.
Quiet ==
  /\ UNCHANGED <<history, fresh>>
  /\ shown'.turns = shown.turns \/ shown'.turns = Append(shown.turns, Notice)
  /\ shown'.userInput \in Int /\ contentText' \in SUBSET Nat
  /\ repl' = "command" => shown'.userInput = -fresh
  /\ phase' = phase \/ phase' = "ended" \/ (phase = "request" /\ phase' = "stream")
  /\ InTheTurn => shown'.userInput = shown.userInput
  /\ phase = "turnDone" => contentText' = contentText

\* All entries were sent below a bound; none is of the turn u.
Below(ts, bound) == \A n \in DOMAIN ts : Sent(ts[n].prompt) < bound
NotOf(ts, u) == \A n \in DOMAIN ts : Sent(ts[n].prompt) # u

LEMMA EntryAdded ==
  ASSUME NEW ts \in Seq(Turn), NEW t \in Turn
  PROVE  /\ Append(ts, t) \in Seq(Turn)
         /\ \A bound : Below(ts, bound) /\ Sent(t.prompt) < bound => Below(Append(ts, t), bound)
         /\ \A u : NotOf(ts, u) /\ Sent(t.prompt) # u => NotOf(Append(ts, t), u)
<1> DEFINE more == Append(ts, t)
<1>1. more \in Seq(Turn) OBVIOUS
<1>2. \A n \in DOMAIN more : more[n] = t \/ \E i \in DOMAIN ts : more[n] = ts[i] OBVIOUS
<1> HIDE DEF more
<1>3. ASSUME NEW bound, Below(ts, bound), Sent(t.prompt) < bound PROVE Below(more, bound)
  BY <1>2, <1>3 DEF Below
<1>4. ASSUME NEW u, NotOf(ts, u), Sent(t.prompt) # u PROVE NotOf(more, u)
  BY <1>2, <1>4 DEF NotOf
<1> QED BY <1>1, <1>3, <1>4 DEF more

\* The invariant with its parts named.
LEMMA PromptForm ==
  PromptOfTurn <=>
    /\ fresh # 0 /\ shown.userInput \in Int
    /\ repl = "command" => shown.userInput = -fresh
    /\ shown.turns \in Seq(Turn) /\ contentText \in SUBSET Nat
    /\ Below(shown.turns, fresh)
    /\ InTheTurn =>
         Sent(shown.userInput) \in 1..(fresh - 1) /\ NotOf(shown.turns, Sent(shown.userInput))
    /\ phase \in {"request", "stream", "invoke"} =>
         \E u \in Asked(history, Len(history) + 1) : history[u].id = Sent(shown.userInput)
BY DEF PromptOfTurn, Turn, Below, NotOf

\* So does every step that is quiet in this sense.
LEMMA QuietStep == fresh \in Nat /\ TurnsInv /\ Quiet => TurnsInv'
<1> SUFFICES ASSUME fresh \in Nat, TurnsInv, Quiet PROVE TurnsInv'
  OBVIOUS
<1>1. shown.turns \in Seq(Turn) BY PromptForm DEF TurnsInv
<1>2. Notice \in Turn /\ Notice.prompt = 0 /\ Sent(Notice.prompt) = 0 BY DEF Notice, Turn, Sent
<1>3. InTheTurn' => InTheTurn BY DEF Quiet, InTheTurn
<1>4. 0 < fresh BY PromptForm DEF TurnsInv
<1>5. shown'.turns \in Seq(Turn) BY <1>1, <1>2, EntryAdded DEF Quiet
<1>6. Below(shown'.turns, fresh)
  <2>1. Below(shown.turns, fresh) BY PromptForm DEF TurnsInv
  <2>2. Below(Append(shown.turns, Notice), fresh) BY <1>1, <1>2, <1>4, <2>1, EntryAdded
  <2> QED BY <2>1, <2>2 DEF Quiet
<1>7. InTheTurn => NotOf(shown'.turns, Sent(shown'.userInput))
  <2> SUFFICES ASSUME InTheTurn PROVE NotOf(shown'.turns, Sent(shown'.userInput))
    OBVIOUS
  <2>1. Sent(shown.userInput) \in 1..(fresh - 1) /\ NotOf(shown.turns, Sent(shown.userInput))
    BY PromptForm DEF TurnsInv
  <2>2. Sent(shown.userInput) # 0 BY <2>1
  <2>3. shown'.userInput = shown.userInput BY DEF Quiet
  <2> QED BY <1>1, <1>2, <2>1, <2>2, <2>3, EntryAdded DEF Quiet
<1>8. InTheTurn' => Sent(shown'.userInput) \in 1..(fresh - 1)
  BY <1>3, PromptForm DEF TurnsInv, Quiet
<1>9. phase' \in {"request", "stream", "invoke"} =>
        \E u \in Asked(history', Len(history') + 1) : history'[u].id = Sent(shown'.userInput)
  BY PromptForm DEF TurnsInv, Quiet, InTheTurn
<1>10. fresh' = fresh /\ history' = history BY DEF Quiet
<1>11. PromptOfTurn'
  BY <1>3, <1>4, <1>5, <1>6, <1>7, <1>8, <1>9, <1>10 DEF Quiet, PromptOfTurn, Turn, Below, NotOf
<1>12. Own(shown'.turns) = Own(shown.turns) BY <1>1, <1>2, OwnTurns DEF Quiet
<1>13. phase' \in {"prompt", "request", "stream", "invoke"} =>
         phase \in {"prompt", "request", "stream", "invoke"}
  BY DEF Quiet
<1>14. phase' = "turnDone" => phase = "turnDone" /\ ThisEntry' = ThisEntry
  BY DEF Quiet, ThisEntry, InTheTurn
<1>15. TurnsMatch'
  BY <1>10, <1>12, <1>13, <1>14, Zenon DEF TurnsInv, TurnsMatch
<1> QED BY <1>11, <1>15 DEF TurnsInv
\* A prompt is taken: it is new, and it is what is asked.
LEMMA PromptTaken ==
  ASSUME IInv, TurnsInv, Submit, shown'.turns = shown.turns,
         shown'.userInput \in {fresh, -fresh}, contentText' = contentText, repl' = "turn"
  PROVE  TurnsInv'
<1> DEFINE m == User(fresh)
           n == Len(history) + 1
<1>1. history \in Seq(Message) /\ fresh \in Nat BY DEF IInv, LoopShape, TypeOK
<1>2. /\ m \in Message /\ m.role = "user" /\ m.id = fresh /\ ~Terminal(m)
      /\ history' = Append(history, m) /\ fresh' = fresh + 1
      /\ phase = "prompt" /\ phase' = "request"
  BY <1>1 DEF Submit, User, Message, Terminal
<1> HIDE DEF m
<1>3. /\ Len(history) \in Nat /\ Len(history') = n /\ history'[n] = m
  BY <1>1, <1>2, Appended
<1>4. n \in Nat /\ n \in 1..n /\ (n + 1)..n = {} /\ n + 1 - 1 = n BY <1>3
<1> HIDE DEF n
<1>5. n \in Asked(history', Len(history') + 1) BY <1>2, <1>3, <1>4 DEF Asked
<1>6. BuildTurns(history') = BuildTurns(history) BY <1>1, <1>2, BuildsOn
<1>7. shown.turns \in Seq(Turn) /\ Below(shown.turns, fresh) /\ fresh # 0 /\ contentText \in SUBSET Nat
  BY PromptForm DEF TurnsInv
<1>8. \A k \in DOMAIN shown.turns : Sent(shown.turns[k].prompt) \in Nat
  <2> TAKE k \in DOMAIN shown.turns
  <2>1. shown.turns[k] \in Turn BY <1>7, ElementOfSeq
  <2> QED BY <2>1 DEF Turn, Sent
<1>9. Below(shown.turns, fresh + 1) /\ NotOf(shown.turns, fresh) /\ fresh \in 1..(fresh + 1 - 1)
  BY <1>1, <1>7, <1>8 DEF Below, NotOf
<1>10. history'[n].id = Sent(shown'.userInput) /\ Sent(shown'.userInput) = fresh
  BY <1>1, <1>2, <1>3 DEF Sent
<1>11. PromptOfTurn'
  <2>1. \E u \in Asked(history', Len(history') + 1) : history'[u].id = Sent(shown'.userInput)
    BY <1>5, <1>10
  <2>2. fresh' # 0 /\ shown'.userInput \in Int /\ Sent(shown'.userInput) \in 1..(fresh' - 1)
    BY <1>1, <1>2, <1>9, <1>10
  <2>3. shown'.turns \in Seq(Turn) /\ contentText' \in SUBSET Nat BY <1>7
  <2>4. Below(shown'.turns, fresh') /\ NotOf(shown'.turns, Sent(shown'.userInput))
    BY <1>2, <1>9, <1>10
  <2>5. repl' # "command" OBVIOUS
  <2> QED BY <2>1, <2>2, <2>3, <2>4, <2>5 DEF PromptOfTurn, Turn, Below, NotOf
<1>12. TurnsMatch' BY <1>2, <1>6, Zenon DEF TurnsInv, TurnsMatch
<1> QED BY <1>11, <1>12 DEF TurnsInv

\* A message that neither prompts nor answers leaves the prompt to be answered.
LEMMA AskedAhead ==
  ASSUME NEW h \in Seq(Message), NEW m \in Message, m.role # "user", ~Terminal(m),
         NEW u \in Asked(h, Len(h) + 1)
  PROVE  u \in Asked(Append(h, m), Len(Append(h, m)) + 1) /\ Append(h, m)[u] = h[u]
<1> DEFINE g == Append(h, m)
           n == Len(h) + 1
<1>1. /\ Len(h) \in Nat /\ Len(g) = n /\ g[n] = m /\ \A i \in 1..Len(h) : g[i] = h[i]
  OBVIOUS
<1>2. n \in Nat /\ n - 1 = Len(h) /\ n + 1 - 1 = n /\ 1..n = 1..Len(h) \cup {n} BY <1>1
<1> HIDE DEF g, n
<1>3. u \in 1..Len(h) /\ h[u].role = "user"
      /\ \A k \in (u + 1)..Len(h) : h[k].role # "user" /\ ~Terminal(h[k])
  <2>1. u \in Asked(h, n) BY DEF n
  <2> QED BY <1>2, <2>1 DEF Asked
<1>4. (u + 1)..n = (u + 1)..Len(h) \cup {n} /\ (u + 1)..Len(h) \subseteq 1..Len(h)
  BY <1>1, <1>2, <1>3 DEF n
<1>5. \A k \in (u + 1)..n : g[k].role # "user" /\ ~Terminal(g[k]) BY <1>1, <1>3, <1>4
<1>6. u \in 1..n /\ g[u] = h[u] BY <1>1, <1>2, <1>3
<1>7. u \in Asked(g, n + 1) BY <1>2, <1>3, <1>5, <1>6 DEF Asked
<1> QED BY <1>1, <1>6, <1>7 DEF g

\* The loop appends such a message.
LEMMA MessageAdded ==
  ASSUME IInv, TurnsInv, phase \in {"stream", "invoke"}, phase' = "invoke", fresh' \in Nat,
         NEW m \in Message, m.role # "user", ~Terminal(m), history' = Append(history, m),
         fresh' > fresh, shown'.turns = shown.turns, shown'.userInput = shown.userInput,
         contentText' \in SUBSET Nat, repl' # "command"
  PROVE  TurnsInv'
<1>1. history \in Seq(Message) /\ fresh \in Nat BY DEF IInv, LoopShape, TypeOK
<1>2. /\ shown.turns \in Seq(Turn) /\ Below(shown.turns, fresh) /\ fresh # 0
      /\ shown.userInput \in Int
      /\ Sent(shown.userInput) \in 1..(fresh - 1) /\ NotOf(shown.turns, Sent(shown.userInput))
  BY PromptForm DEF TurnsInv, InTheTurn
<1>3. PICK u \in Asked(history, Len(history) + 1) : history[u].id = Sent(shown.userInput)
  BY PromptForm DEF TurnsInv
<1>4. u \in Asked(history', Len(history') + 1) /\ history'[u].id = Sent(shown.userInput)
  BY <1>1, <1>3, AskedAhead
<1>5. BuildTurns(history') = BuildTurns(history) BY <1>1, BuildsOn
<1>6. \A k \in DOMAIN shown.turns : Sent(shown.turns[k].prompt) \in Nat
  <2> TAKE k \in DOMAIN shown.turns
  <2>1. shown.turns[k] \in Turn BY <1>2, ElementOfSeq
  <2> QED BY <2>1 DEF Turn, Sent
<1>7. Below(shown.turns, fresh') BY <1>1, <1>2, <1>6 DEF Below
<1>8. Sent(shown.userInput) \in 1..(fresh' - 1) /\ fresh' # 0 BY <1>1, <1>2
<1>9. PromptOfTurn' BY <1>2, <1>4, <1>7, <1>8 DEF PromptOfTurn, Turn, Below, NotOf
<1>10. TurnsMatch' BY <1>5, Zenon DEF TurnsInv, TurnsMatch
<1> QED BY <1>9, <1>10 DEF TurnsInv

\* No prompt of the turn is among the user's turns before it.
LEMMA PromptIsNew ==
  ASSUME NEW ts \in Seq(Turn), NEW u, NotOf(ts, u)
  PROVE  \A n \in 1..Len(Own(ts)) : Sent(Own(ts)[n].prompt) # u
BY OwnTurns DEF NotOf

\* The answer of the turn is appended: it is what will be seen.
LEMMA AnswerAdded ==
  ASSUME IInv, TurnsInv, TextsOfRequest, phase = "stream", phase' = "turnDone", fresh' \in Nat,
         NEW m \in Message, m.id = fresh, Terminal(m), history' = Append(history, m),
         fresh' > fresh, shown'.turns = shown.turns, shown'.userInput = shown.userInput,
         contentText' = contentText, repl' # "command"
  PROVE  TurnsInv'
<1>1. history \in Seq(Message) /\ fresh \in Nat BY DEF IInv, LoopShape, TypeOK
<1>2. /\ shown.turns \in Seq(Turn) /\ Below(shown.turns, fresh) /\ fresh # 0
      /\ shown.userInput \in Int
      /\ Sent(shown.userInput) \in 1..(fresh - 1) /\ NotOf(shown.turns, Sent(shown.userInput))
      /\ contentText \in SUBSET Nat
  BY PromptForm DEF TurnsInv, InTheTurn
<1>3. PICK u \in Asked(history, Len(history) + 1) : history[u].id = Sent(shown.userInput)
  BY PromptForm DEF TurnsInv
<1> DEFINE b == [prompt |-> Sent(shown.userInput), answer |-> fresh]
<1>4. BuildTurns(history') = Append(BuildTurns(history), b) BY <1>1, <1>3, BuildsOn
<1>5. ThisEntry \in Turn /\ ThisEntry.prompt = shown.userInput /\ ThisEntry.content = contentText
  BY <1>1, <1>2 DEF ThisEntry, Turn
<1>6. b \in Built /\ b.prompt = Sent(shown.userInput) /\ b.answer = fresh BY <1>1, <1>2 DEF Built
<1> HIDE DEF b
<1>7. contentText \subseteq {fresh} BY DEF TextsOfRequest
<1>8. Own(shown.turns) \in Seq(Turn) /\ BuildTurns(history) \in Seq(Built)
  BY <1>1, <1>2, OwnTurns, EndedTurns
<1>9. Matches(Own(shown.turns), BuildTurns(history)) BY DEF TurnsInv, TurnsMatch
<1>10. \A n \in 1..Len(Own(shown.turns)) : Sent(Own(shown.turns)[n].prompt) # Sent(ThisEntry.prompt)
  BY <1>2, <1>5, PromptIsNew
<1>11. Matches(Append(Own(shown.turns), ThisEntry), Append(BuildTurns(history), b))
  BY <1>5, <1>6, <1>7, <1>8, <1>9, <1>10, SeenAnswered
<1>12. ThisEntry' = ThisEntry BY DEF ThisEntry
<1>13. TurnsMatch' BY <1>4, <1>11, <1>12 DEF TurnsMatch
<1>14. \A k \in DOMAIN shown.turns : Sent(shown.turns[k].prompt) \in Nat
  <2> TAKE k \in DOMAIN shown.turns
  <2>1. shown.turns[k] \in Turn BY <1>2, ElementOfSeq
  <2> QED BY <2>1 DEF Turn, Sent
<1>15. Below(shown.turns, fresh') BY <1>1, <1>2, <1>14 DEF Below
<1>16. Sent(shown.userInput) \in 1..(fresh' - 1) /\ fresh' # 0 BY <1>1, <1>2
<1>17. PromptOfTurn' BY <1>2, <1>15, <1>16 DEF PromptOfTurn, Turn, Below, NotOf
<1> QED BY <1>13, <1>17 DEF TurnsInv

\* The loop goes on, or gives up with nothing to show.
LEMMA LoopGoesOn ==
  ASSUME IInv, TurnsInv, TextsOfRequest, NextIteration, UNCHANGED screenVars
  PROVE  TurnsInv'
<1>1. /\ history' = history /\ fresh' = fresh /\ shown' = shown /\ contentText' = contentText
      /\ repl' = repl /\ phase = "invoke" /\ phase' \in {"request", "turnDone"}
  BY DEF NextIteration, screenVars
<1>2. PromptOfTurn' BY <1>1 DEF TurnsInv, PromptOfTurn, InTheTurn
<1>3. Matches(Own(shown.turns), BuildTurns(history)) BY <1>1 DEF TurnsInv, TurnsMatch
<1>4. ASSUME phase' = "turnDone" PROVE Matches(Append(Own(shown.turns), ThisEntry), BuildTurns(history))
  <2>1. /\ shown.turns \in Seq(Turn) /\ shown.userInput \in Int
        /\ NotOf(shown.turns, Sent(shown.userInput)) /\ contentText \in SUBSET Nat
    BY <1>1, PromptForm DEF TurnsInv, InTheTurn
  <2>2. ThisEntry \in Turn /\ ThisEntry.prompt = shown.userInput /\ ThisEntry.content = contentText
    BY <2>1 DEF ThisEntry, Turn
  <2>3. contentText = {} BY <1>1 DEF TextsOfRequest
  <2>4. history \in Seq(Message) BY DEF IInv, LoopShape, TypeOK
  <2>5. Own(shown.turns) \in Seq(Turn) /\ BuildTurns(history) \in Seq(Built)
    BY <2>1, <2>4, OwnTurns, EndedTurns
  <2>6. \A n \in 1..Len(Own(shown.turns)) : Sent(Own(shown.turns)[n].prompt) # Sent(ThisEntry.prompt)
    BY <2>1, <2>2, PromptIsNew
  <2> QED BY <1>3, <2>2, <2>3, <2>5, <2>6, SeenUnanswered
<1>5. ThisEntry' = ThisEntry BY <1>1 DEF ThisEntry
<1>6. TurnsMatch' BY <1>1, <1>3, <1>4, <1>5 DEF TurnsMatch
<1> QED BY <1>2, <1>6 DEF TurnsInv

\* The turn is added as it was to be.
LEMMA TurnAdded ==
  ASSUME IInv, ScreenInv, TurnsInv, ScreenCompleteTurn
  PROVE  TurnsInv'
<1> DEFINE s == WithTurn(shown, shown.userInput, contentText)
<1>1. /\ history' = history /\ fresh' = fresh /\ contentText' = {} /\ repl' = "reading"
      /\ phase = "turnDone" /\ phase' = "prompt" /\ shown' = Cleared(s, "awaiting_input", 0)
  BY DEF ScreenCompleteTurn, CompleteTurn, loopVars
<1>2. DOMAIN shown = Fields BY DEF ScreenInv
<1>3. DOMAIN s = Fields /\ s.turns = Append(shown.turns, ThisEntry)
  BY <1>2, Redrawn, TurnsRedrawn DEF ThisEntry
<1> HIDE DEF s
<1>4. shown'.turns = Append(shown.turns, ThisEntry) /\ shown'.userInput = 0
  BY <1>1, <1>3, TurnsRedrawn
<1>5. /\ shown.turns \in Seq(Turn) /\ Below(shown.turns, fresh) /\ fresh # 0 /\ contentText \in SUBSET Nat
      /\ shown.userInput \in Int /\ Sent(shown.userInput) \in 1..(fresh - 1)
  BY <1>1, PromptForm DEF TurnsInv, InTheTurn
<1>6. fresh \in Nat BY DEF IInv, LoopShape, TypeOK
<1>7. ThisEntry \in Turn /\ ThisEntry.prompt = shown.userInput /\ Sent(ThisEntry.prompt) < fresh
      /\ ThisEntry.prompt # 0
  BY <1>5, <1>6 DEF ThisEntry, Turn, Sent
<1>8. shown'.turns \in Seq(Turn) /\ Below(shown'.turns, fresh) BY <1>4, <1>5, <1>7, EntryAdded
<1>9. PromptOfTurn' BY <1>1, <1>4, <1>5, <1>8 DEF PromptOfTurn, Turn, Below, NotOf, InTheTurn
<1>10. Own(shown'.turns) = Append(Own(shown.turns), ThisEntry) BY <1>4, <1>5, <1>7, OwnTurns
<1>11. TurnsMatch' BY <1>1, <1>10, Zenon DEF TurnsInv, TurnsMatch
<1> QED BY <1>9, <1>11 DEF TurnsInv
\* What the REPL does at the prompt is quiet but for the prompts themselves.
LEMMA TurnsAtPrompt == IInv /\ ScreenInv /\ RegionInv /\ TurnsInv /\ AtPrompt => TurnsInv'
<1> SUFFICES ASSUME IInv, ScreenInv, RegionInv, TurnsInv, AtPrompt PROVE TurnsInv'
  OBVIOUS
<1>1. DOMAIN shown = Fields BY DEF ScreenInv
<1>2. fresh \in Nat BY DEF IInv, LoopShape, TypeOK
<1>3. /\ shown.userInput \in Int /\ contentText \in SUBSET Nat
      /\ repl = "command" => shown.userInput = -fresh
  BY DEF TurnsInv, PromptOfTurn
<1>4. ASSUME Quiet PROVE TurnsInv' BY <1>2, <1>4, QuietStep
<1>5. repl # "turn" => ~InTheTurn BY NoTurn DEF InTheTurn
<1>6. \A ph, n : /\ DOMAIN Cleared(shown, ph, n) = Fields
                 /\ Cleared(shown, ph, n).turns = shown.turns /\ Cleared(shown, ph, n).userInput = n
  BY <1>1, Redrawn, TurnsRedrawn
<1>7. CASE Booted
  <2>1. Quiet BY <1>3, <1>7 DEF Booted, vars, Quiet
  <2> QED BY <1>4, <2>1
<1>8. CASE EnterPrompt
  BY <1>6, <1>8, PromptTaken DEF EnterPrompt, Prompted
<1>9. CASE EnterBlank \/ EnterQuit
  <2>1. repl = "reading" /\ shown' = Prompted(0) /\ UNCHANGED contentText /\ repl' # "command"
    BY <1>9 DEF EnterBlank, EnterQuit, CanEnter
  <2>2. UNCHANGED <<history, fresh>> /\ (phase' = phase \/ phase' = "ended")
    BY <1>9 DEF EnterBlank, EnterQuit, Quit, vars
  <2>3. ~InTheTurn /\ shown'.turns = shown.turns /\ shown'.userInput = 0
    BY <1>5, <1>6, <2>1 DEF Prompted
  <2>4. Quiet BY <1>3, <2>1, <2>2, <2>3 DEF Quiet, InTheTurn
  <2> QED BY <1>4, <2>4
<1>10. CASE EnterCommand
  <2>1. Quiet
    BY <1>2, <1>3, <1>5, <1>6, <1>10 DEF EnterCommand, CanEnter, Prompted, vars, Quiet, InTheTurn
  <2> QED BY <1>4, <2>1
<1>11. CASE EnterQuery
  <2>1. /\ DOMAIN Prompted(0) = Fields /\ Prompted(0).turns = shown.turns BY <1>6 DEF Prompted
  <2>2. /\ SlashOutput(Prompted(0)).turns = Append(shown.turns, Notice)
        /\ SlashOutput(Prompted(0)).userInput = 0
    BY <2>1, NoticeAdded
  <2>3. Quiet BY <1>3, <1>5, <1>11, <2>2 DEF EnterQuery, CanEnter, vars, Quiet, InTheTurn
  <2> QED BY <1>4, <2>3
<1>12. CASE CommandExpands
  BY <1>3, <1>12, PromptTaken DEF CommandExpands
<1>13. CASE CommandPins \/ CommandUnpins
  <2>1. SlashOutput(shown).turns = Append(shown.turns, Notice) /\ SlashOutput(shown).userInput = 0
    BY <1>1, NoticeAdded
  <2>2. /\ shown' = SlashOutput(shown) /\ UNCHANGED <<history, fresh, phase, contentText>>
        /\ repl = "command" /\ repl' # "command"
    BY <1>13 DEF CommandPins, CommandUnpins, ChangeSpore
  <2>3. Quiet BY <1>3, <1>5, <2>1, <2>2 DEF Quiet, InTheTurn
  <2> QED BY <1>4, <2>3
<1>14. CASE Unpinned
  <2>1. SystemMessage(shown).turns = Append(shown.turns, Notice)
        /\ SystemMessage(shown).userInput = shown.userInput
    BY <1>1, NoticeAdded
  <2>2. Quiet
    BY <1>3, <1>14, <2>1 DEF Unpinned, ChangeSpore, Quiet, InTheTurn
  <2> QED BY <1>4, <2>2
<1>15. CASE CommandThrows
  <2>1. Quiet BY <1>3, <1>5, <1>15 DEF CommandThrows, Quit, Quiet, InTheTurn
  <2> QED BY <1>4, <2>1
<1> QED BY <1>7, <1>8, <1>9, <1>10, <1>11, <1>12, <1>13, <1>14, <1>15 DEF AtPrompt

\* So is what may happen at any time.
LEMMA TurnsAnyTime ==
  IInv /\ ScreenInv /\ TurnsInv /\
    (ReasoningDelta \/ ContentDelta \/ RequestApproval \/ ScreenMcpServerExits
       \/ \E decision \in {"approve", "reject"} : ApprovalResponse(decision)) => TurnsInv'
<1> SUFFICES ASSUME IInv, ScreenInv, TurnsInv,
                    ReasoningDelta \/ ContentDelta \/ RequestApproval \/ ScreenMcpServerExits
                      \/ \E decision \in {"approve", "reject"} : ApprovalResponse(decision)
             PROVE  TurnsInv'
  OBVIOUS
<1> SUFFICES Quiet
  <2>1. fresh \in Nat BY DEF IInv, LoopShape, TypeOK
  <2> QED BY <2>1, QuietStep
<1>1. DOMAIN shown = Fields BY DEF ScreenInv
<1>2. fresh \in Nat BY DEF IInv, LoopShape, TypeOK
<1>3. /\ shown.userInput \in Int /\ contentText \in SUBSET Nat
      /\ repl = "command" => shown.userInput = -fresh
  BY DEF TurnsInv, PromptOfTurn
<1>4. CASE ReasoningDelta \/ ContentDelta
  <2>1. shown'.turns = shown.turns /\ shown'.userInput = shown.userInput
    BY <1>1, <1>4 DEF ReasoningDelta, ContentDelta, Fields
  <2>2. contentText' \in SUBSET Nat BY <1>2, <1>3, <1>4 DEF ReasoningDelta, ContentDelta
  <2> QED BY <1>3, <1>4, <2>1, <2>2 DEF ReasoningDelta, ContentDelta, vars, Quiet
<1>5. CASE RequestApproval
  <2>1. shown'.turns = shown.turns /\ shown'.userInput = shown.userInput
    BY <1>1, <1>5 DEF RequestApproval, Ask, Fields
  <2> QED BY <1>3, <1>5, <2>1 DEF RequestApproval, vars, Quiet
<1>6. CASE ScreenMcpServerExits
  <2>1. shown'.turns = Append(shown.turns, Notice) /\ shown'.userInput = shown.userInput
    BY <1>1, <1>6, NoticeAdded DEF ScreenMcpServerExits
  <2> QED BY <1>3, <1>6, <2>1 DEF ScreenMcpServerExits, McpServerExits, Quiet
<1>7. CASE \E decision \in {"approve", "reject"} : ApprovalResponse(decision)
  <2>1. shown'.turns = shown.turns /\ shown'.userInput = shown.userInput
    BY <1>1, <1>7 DEF ApprovalResponse, AnswerHead, Fields
  <2> QED BY <1>3, <1>7, <2>1 DEF ApprovalResponse, AnswerHead, vars, Quiet
<1> QED BY <1>4, <1>5, <1>6, <1>7

\* A result is appended, whatever the tool did.
LEMMA TurnsOnAnswer ==
  ASSUME IInv, ScreenInv, TurnsInv, phase = "invoke", phase' = "invoke", batch # <<>>,
         NEW c \in Call, NEW b \in BOOLEAN, Answer(c, b), NEW id, NEW st,
         shown' = SetCard(shown, id, st), UNCHANGED <<repl, contentText>>
  PROVE  TurnsInv'
<1> DEFINE m == Result(fresh, c, b)
<1>1. fresh \in Nat /\ m \in Message /\ history' = Append(history, m) /\ fresh' \in Nat
  BY AnswerFacts DEF IInv, LoopShape, TypeOK
<1>2. fresh' > fresh BY <1>1 DEF Answer
<1>3. m.role # "user" /\ ~Terminal(m) BY DEF Result, Terminal
<1> HIDE DEF m
<1>4. shown'.turns = shown.turns /\ shown'.userInput = shown.userInput
  BY TurnsRedrawn DEF ScreenInv
<1>5. repl' # "command" BY DEF ScreenInv, PhasesAgree
<1>6. contentText' \in SUBSET Nat BY DEF TurnsInv, PromptOfTurn
<1> QED BY <1>1, <1>2, <1>3, <1>4, <1>5, <1>6, MessageAdded

LEMMA TurnsInTurn == IInv /\ ScreenInv /\ RegionInv /\ TurnsInv /\ InTurn => TurnsInv'
<1> SUFFICES ASSUME IInv, ScreenInv, RegionInv, TurnsInv, InTurn PROVE TurnsInv'
  OBVIOUS
<1>1. DOMAIN shown = Fields /\ fresh \in Nat /\ history \in Seq(Message)
  BY DEF ScreenInv, IInv, LoopShape, TypeOK
<1>2. /\ shown.userInput \in Int /\ contentText \in SUBSET Nat
      /\ repl = "command" => shown.userInput = -fresh
  BY DEF TurnsInv, PromptOfTurn
<1>3. TextsOfRequest BY DEF RegionInv
<1>4. CASE ScreenPrepareRequest
  <2>1. Quiet BY <1>2, <1>4 DEF ScreenPrepareRequest, PrepareRequest, Quiet
  <2> QED BY <1>1, <2>1, QuietStep
<1>5. CASE ScreenStreamEnds
  <2>1. PICK m \in Message :
          /\ history' = Append(history, m) /\ m.id = fresh /\ m.role = "assistant"
          /\ fresh' = fresh + Len(m.calls) + 1
          /\ phase' = IF m.calls = <<>> THEN "turnDone" ELSE "invoke"
    BY <1>5, StreamFacts DEF ScreenStreamEnds, IInv, LoopShape
  <2>2. phase = "stream" /\ fresh' \in Nat /\ m.calls \in Seq(Nat) /\ Len(m.calls) \in Nat
    BY <1>1, <1>5, <2>1 DEF ScreenStreamEnds, StreamEnds, Message
  <2>3. fresh' > fresh BY <1>1, <2>1, <2>2
  <2>4. history'[Len(history')] = m BY <1>1, <2>1, Appended
  <2>5. repl' # "command" BY <1>5, <2>2 DEF ScreenStreamEnds, ScreenInv, PhasesAgree
  <2> DEFINE C == {m.calls[k] : k \in DOMAIN m.calls}
  <2>6. /\ C = {} => UNCHANGED <<shown, contentText>>
        /\ C # {} => TurnComplete(WithCards(shown, C))
    BY <1>5, <2>4 DEF ScreenStreamEnds
  <2>7. C = {} <=> m.calls = <<>>
    <3>1. DOMAIN m.calls = 1..Len(m.calls) BY <2>2
    <3>2. CASE m.calls = <<>> BY <3>2
    <3>3. CASE m.calls # <<>>
      <4>1. 1 \in DOMAIN m.calls BY <2>2, <3>1, <3>3
      <4>2. m.calls[1] \in C BY <4>1
      <4> QED BY <3>3, <4>2
    <3> QED BY <3>2, <3>3
  <2> HIDE DEF C
  <2>8. /\ shown'.turns = shown.turns /\ shown'.userInput = shown.userInput
        /\ contentText' \in SUBSET Nat
    <3>1. CASE C = {} BY <1>2, <2>6, <3>1
    <3>2. CASE C # {}
      <4> DEFINE s == WithCards(shown, C)
      <4>1. DOMAIN s = Fields /\ s.turns = shown.turns /\ s.userInput = shown.userInput
        BY <1>1, TurnsRedrawn
      <4>2. TurnComplete(s) BY <2>6, <3>2
      <4> HIDE DEF s
      <4> QED BY <4>1, <4>2 DEF TurnComplete, Fields
    <3> QED BY <3>1, <3>2
  <2>9. CASE m.calls = <<>>
    <3>1. phase' = "turnDone" /\ Terminal(m) /\ contentText' = contentText
      BY <2>1, <2>6, <2>7, <2>9 DEF Terminal
    <3> QED BY <1>3, <2>1, <2>2, <2>3, <2>5, <2>8, <3>1, AnswerAdded
  <2>10. CASE m.calls # <<>>
    <3>1. phase' = "invoke" /\ ~Terminal(m) /\ m.role # "user" BY <2>1, <2>10 DEF Terminal
    <3> QED BY <2>1, <2>2, <2>3, <2>5, <2>8, <3>1, MessageAdded
  <2> QED BY <2>9, <2>10
<1>6. CASE ScreenDenyTool
  <2>1. batch # <<>> /\ Answer(Head(batch), FALSE) /\ phase = "invoke" /\ phase' = "invoke"
        /\ shown' = SetCard(shown, Head(batch).id, "failed") /\ UNCHANGED <<repl, contentText>>
    BY <1>6, Zenon DEF ScreenDenyTool, DenyTool
  <2>2. Head(batch) \in Call BY <2>1 DEF IInv, LoopShape, TypeOK
  <2>3. PICK b \in BOOLEAN : Answer(Head(batch), b) BY <2>1
  <2> QED BY <2>1, <2>2, <2>3, TurnsOnAnswer
<1>7. CASE ScreenStartTool
  <2>1. Quiet BY <1>2, <1>7 DEF ScreenStartTool, StartTool, screenVars, Quiet
  <2> QED BY <1>1, <2>1, QuietStep
<1>8. CASE ScreenToolReturns
  <2>1. batch # <<>> /\ running \in Call /\ phase = "invoke" /\ phase' = "invoke"
        /\ UNCHANGED <<repl, contentText>>
    BY <1>8 DEF ScreenToolReturns, ToolReturns, IInv, LoopShape, RunningIsHead, TypeOK
  <2>2. PICK b \in BOOLEAN : Answer(running, b) BY <1>8 DEF ScreenToolReturns, ToolReturns
  <2>3. PICK st : shown' = SetCard(shown, running.id, st) BY <1>8 DEF ScreenToolReturns
  <2> QED BY <2>1, <2>2, <2>3, TurnsOnAnswer
<1>9. CASE ScreenNextIteration BY <1>3, <1>9, LoopGoesOn DEF ScreenNextIteration
<1>10. CASE ScreenCompleteTurn BY <1>10, TurnAdded
<1>11. CASE \E decision \in {"approve", "reject"} : ApprovalResponse(decision)
  BY <1>11, TurnsAnyTime
<1> QED BY <1>4, <1>5, <1>6, <1>7, <1>8, <1>9, <1>10, <1>11 DEF InTurn

LEMMA TurnsStep == IInv /\ ScreenInv /\ RegionInv /\ TurnsInv /\ [ScreenNext]_allVars => TurnsInv'
<1> SUFFICES ASSUME IInv, ScreenInv, RegionInv, TurnsInv, [ScreenNext]_allVars PROVE TurnsInv'
  OBVIOUS
<1>1. CASE UNCHANGED allVars
  <2>1. UNCHANGED <<phase, history, fresh, shown, contentText, repl>>
    BY <1>1 DEF allVars, screenVars, vars
  <2> QED BY <2>1 DEF TurnsInv, PromptOfTurn, TurnsMatch, InTheTurn, ThisEntry
<1> QED BY <1>1, TurnsAtPrompt, TurnsAnyTime, TurnsInTurn DEF ScreenNext

LEMMA TurnsInit == ScreenInit => TurnsInv
<1> SUFFICES ASSUME ScreenInit PROVE TurnsInv
  OBVIOUS
<1>1. /\ history = <<>> /\ fresh = 1 /\ phase = "prompt" /\ repl = "boot" /\ contentText = {}
      /\ shown.turns = <<>> /\ shown.userInput = 0
  BY DEF ScreenInit, Init
<1>2. PromptOfTurn BY <1>1 DEF PromptOfTurn, InTheTurn
<1>3. Own(<<>>) = <<>> /\ BuildTurns(<<>>) = <<>>
  <2> DEFINE none == <<>>
  <2>1. none \in Seq(Turn) /\ none \in Seq(Message) /\ Len(none) = 0 OBVIOUS
  <2> HIDE DEF none
  <2>2. [n \in 1..Len(none) |-> Wanted(none, Int \ {0}, n)] = <<>>
        /\ [n \in 1..Len(none) |-> Ended(none, n)] = <<>>
    BY <2>1
  <2>3. TurnsOf(none, Int \ {0}) = FlattenSeq(<<>>) BY <2>1, <2>2, WantedTurns
  <2>4. BuildTurns(none) = FlattenSeq(<<>>) BY <2>1, <2>2, EndedTurns
  <2> QED BY <2>3, <2>4, FlattenNothing DEF Own, none
<1>4. TurnsMatch BY <1>1, <1>3, MatchesNothing DEF TurnsMatch
<1> QED BY <1>2, <1>4 DEF TurnsInv

\* The turns on screen are those of the history, and the text typed for the running turn
\* was sent, as it is or as the body it stands for, as the message that is asked.
THEOREM TurnsInvariant == ScreenSpec => []TurnsInv
BY TurnsInit, TurnsStep, RegionInvariant, ScreenInvariant, ScreenKeepsLoop, LoopInvariant, PTL
   DEF ScreenSpec

\* At every prompt, what stands above it is what --resume would rebuild from the history
\* (buildTurnsFromHistory): each prompt that got its answer once, in order, with it, where
\* the screen has the command of a /pack:command and the history the body sent for it.
THEOREM ResumeShowsSeen == ScreenSpec => []TurnsAsResumed
<1>1. TurnsInv => TurnsAsResumed BY DEF TurnsInv, TurnsMatch, TurnsAsResumed
<1> QED BY <1>1, TurnsInvariant, PTL
=============================================================================
