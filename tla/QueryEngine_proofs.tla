-------------------------- MODULE QueryEngine_proofs --------------------------
(* Proofs about QueryEngine, for every budget, every size and every output of a tool. *)
EXTENDS QueryEngine, SequenceLemmas

\* The role of a message says which record it is.
LEMMA Roles ==
  ASSUME NEW m \in Message
  PROVE  /\ m.role \in {"user", "system", "assistant", "tool"}
         /\ IsResult(m) => m \in Result
         /\ m.role = "assistant" => m \in Assistant
         /\ m.chars \in Nat
BY DEF Message, User, Note, Assistant, Result, IsResult

LEMMA TruncatedKeeps ==
  ASSUME NEW m \in Message
  PROVE  /\ Truncated(m) \in Message
         /\ Truncated(m).role = m.role
         /\ IsResult(m) => /\ Truncated(m).re = m.re /\ Truncated(m).read = m.read
                           /\ Truncated(m).error = m.error
         /\ ~IsResult(m) => Truncated(m) = m
         /\ Truncated(Truncated(m)) = Truncated(m)
<1>1. CASE IsResult(m) /\ m.chars > MaxToolOutputChars /\ m.original = 0
  <2> DEFINE t == [m EXCEPT !.chars = MaxToolOutputChars + MarkerChars, !.original = m.chars]
  <2>1. m \in Result BY <1>1, Roles
  <2>2. MaxToolOutputChars \in Nat /\ MarkerChars \in Nat BY CompactionAssumptions
  <2>3. /\ t \in Result /\ t.original > 0 /\ t.role = m.role /\ t.re = m.re
        /\ t.read = m.read /\ t.error = m.error
    <3>1. m.chars \in Nat /\ m.chars > 0 BY <1>1, <2>1, <2>2 DEF Result
    <3>2. MaxToolOutputChars + MarkerChars \in Nat BY <2>2
    <3>3. t \in Result BY <2>1, <3>1, <3>2 DEF Result
    <3>4. t.original = m.chars /\ t.role = m.role /\ t.re = m.re /\ t.read = m.read /\ t.error = m.error
      BY <2>1 DEF Result
    <3> QED BY <3>1, <3>3, <3>4
  <2>4. Truncated(m) = t BY <1>1 DEF Truncated
  <2> HIDE DEF t
  <2>5. t.original # 0 /\ t \in Message BY <2>3 DEF Result, Message
  <2>6. Truncated(t) = t BY <2>5 DEF Truncated
  <2> QED BY <1>1, <2>3, <2>4, <2>5, <2>6
<1>2. CASE ~(IsResult(m) /\ m.chars > MaxToolOutputChars /\ m.original = 0)
  BY <1>2 DEF Truncated
<1> QED BY <1>1, <1>2

-----------------------------------------------------------------------------
(* What the passes leave                                                   *)

\* Where the messages of a pruned history come from.
IsPruned(h, s, f) ==
  /\ Enumerates(f, Len(s), {i \in 1..Len(h) : ~Superseded(h, i)})
  /\ \A k \in 1..Len(s) : s[k] = IF f[k] < TailStart(h) THEN Truncated(h[f[k]]) ELSE h[f[k]]

LEMMA Pruned ==
  ASSUME NEW h \in Seq(Message)
  PROVE  PruneToolOutputs(h) \in Seq(Message) /\ \E f : IsPruned(h, PruneToolOutputs(h), f)
<1> DEFINE new(i) == IF i < TailStart(h) THEN Truncated(h[i]) ELSE h[i]
           a == [i \in 1..Len(h) |-> IF Superseded(h, i) THEN <<>> ELSE <<new(i)>>]
           s == PruneToolOutputs(h)
<1>1. Len(h) \in Nat OBVIOUS
<1>2. \A i \in 1..Len(h) : new(i) \in Message
  <2> SUFFICES ASSUME NEW i \in 1..Len(h) PROVE new(i) \in Message
    OBVIOUS
  <2>1. h[i] \in Message OBVIOUS
  <2> QED BY <2>1, TruncatedKeeps
<1>3. s = FlattenSeq(a) BY DEF PruneToolOutputs
<1> HIDE DEF new, s
<1>4. \A i \in 1..Len(h) : a[i] = IF Superseded(h, i) THEN <<>> ELSE <<new(i)>> OBVIOUS
<1>5. a \in Seq(Seq(Message)) /\ Len(a) = Len(h)
  <2>1. \A i \in 1..Len(h) : (IF Superseded(h, i) THEN <<>> ELSE <<new(i)>>) \in Seq(Message)
    BY <1>2
  <2> QED BY <1>1, <2>1
<1> HIDE DEF a
<1>6. \A i \in 1..Len(a) : a[i] = <<>> \/ \E x \in Message : a[i] = <<x>> BY <1>2, <1>4, <1>5
<1>7. s \in Seq(Message) /\ \E f : Picks(s, a, f, Occupied(a, Len(a)))
  BY <1>3, <1>5, <1>6, FlattenUnits
<1>8. PICK f : Picks(s, a, f, Occupied(a, Len(a))) BY <1>7
<1>9. Occupied(a, Len(a)) = {i \in 1..Len(h) : ~Superseded(h, i)}
  <2>1. \A i \in 1..Len(h) : a[i] # <<>> <=> ~Superseded(h, i)
    <3>1. \A x : <<x>> # <<>> OBVIOUS
    <3> QED BY <1>4, <3>1
  <2> QED BY <1>5, <2>1 DEF Occupied
<1>10. ASSUME NEW k \in 1..Len(s) PROVE s[k] = new(f[k])
  <2>1. f[k] \in 1..Len(h) /\ ~Superseded(h, f[k]) BY <1>8, <1>9 DEF Picks, Enumerates
  <2>2. s[k] = a[f[k]][1] BY <1>8 DEF Picks
  <2>3. a[f[k]] = <<new(f[k])>> BY <1>4, <2>1
  <2> QED BY <2>2, <2>3
<1>11. IsPruned(h, s, f) BY <1>8, <1>9, <1>10 DEF IsPruned, Picks, new
<1> QED BY <1>7, <1>11 DEF s

\* A failure before the protected tail, and one in a run of three.
Failed(h, i) == i \in 1..ProtectedStart(h) - 1 /\ IsFailure(h[i])
Dead(h, i) == \E first \in i-2..i : \A j \in first..first+2 : Failed(h, j)

LEMMA DeadFailed == ASSUME NEW h, NEW i \in Int, Dead(h, i) PROVE Failed(h, i)
<1>1. PICK first \in i-2..i : \A j \in first..first+2 : Failed(h, j) BY DEF Dead
<1>2. i \in first..first+2 OBVIOUS
<1> QED BY <1>1, <1>2

DeadEnd == [role |-> "system", chars |-> SnipChars]

IsSnipped(h, s, f) ==
  /\ Enumerates(f, Len(s), {i \in 1..Len(h) : ~(Dead(h, i) /\ Failed(h, i - 1))})
  /\ \A k \in 1..Len(s) : s[k] = IF Dead(h, f[k]) THEN DeadEnd ELSE h[f[k]]

LEMMA Snipped ==
  ASSUME NEW h \in Seq(Message)
  PROVE  SnipDeadEnds(h) \in Seq(Message) /\ \E f : IsSnipped(h, SnipDeadEnds(h), f)
<1> DEFINE gone(i) == Dead(h, i) /\ Failed(h, i - 1)
           new(i) == IF Dead(h, i) THEN DeadEnd ELSE h[i]
           a == [i \in 1..Len(h) |-> IF gone(i) THEN <<>> ELSE <<new(i)>>]
           s == SnipDeadEnds(h)
<1>1. Len(h) \in Nat OBVIOUS
<1>2. \A i \in 1..Len(h) : new(i) \in Message
  <2>1. DeadEnd \in Message BY CompactionAssumptions DEF DeadEnd, Message, Note
  <2> QED BY <2>1
<1>3. s = FlattenSeq(a)
  <2>1. s = FlattenSeq([i \in 1..Len(h) |-> IF ~Dead(h, i) THEN <<h[i]>>
                                           ELSE IF Failed(h, i - 1) THEN <<>> ELSE <<DeadEnd>>])
    BY DEF SnipDeadEnds, Dead, Failed, DeadEnd
  <2>2. \A i \in 1..Len(h) : (IF gone(i) THEN <<>> ELSE <<new(i)>>)
                               = IF ~Dead(h, i) THEN <<h[i]>>
                                 ELSE IF Failed(h, i - 1) THEN <<>> ELSE <<DeadEnd>>
    OBVIOUS
  <2> HIDE DEF s, gone, new
  <2>3. a = [i \in 1..Len(h) |-> IF ~Dead(h, i) THEN <<h[i]>>
                                  ELSE IF Failed(h, i - 1) THEN <<>> ELSE <<DeadEnd>>]
    BY <2>2
  <2> QED BY <2>1, <2>3
<1> HIDE DEF gone, new, s
<1>4. \A i \in 1..Len(h) : a[i] = IF gone(i) THEN <<>> ELSE <<new(i)>> OBVIOUS
<1>5. a \in Seq(Seq(Message)) /\ Len(a) = Len(h)
  <2>1. \A i \in 1..Len(h) : (IF gone(i) THEN <<>> ELSE <<new(i)>>) \in Seq(Message)
    BY <1>2
  <2> QED BY <1>1, <2>1
<1> HIDE DEF a
<1>6. \A i \in 1..Len(a) : a[i] = <<>> \/ \E x \in Message : a[i] = <<x>> BY <1>2, <1>4, <1>5
<1>7. s \in Seq(Message) /\ \E f : Picks(s, a, f, Occupied(a, Len(a)))
  BY <1>3, <1>5, <1>6, FlattenUnits
<1>8. PICK f : Picks(s, a, f, Occupied(a, Len(a))) BY <1>7
<1>9. Occupied(a, Len(a)) = {i \in 1..Len(h) : ~gone(i)}
  <2>1. \A i \in 1..Len(h) : a[i] # <<>> <=> ~gone(i)
    <3>1. \A x : <<x>> # <<>> OBVIOUS
    <3> QED BY <1>4, <3>1
  <2> QED BY <1>5, <2>1 DEF Occupied
<1>10. ASSUME NEW k \in 1..Len(s) PROVE s[k] = new(f[k])
  <2>1. f[k] \in 1..Len(h) /\ ~gone(f[k]) BY <1>8, <1>9 DEF Picks, Enumerates
  <2>2. s[k] = a[f[k]][1] BY <1>8 DEF Picks
  <2>3. a[f[k]] = <<new(f[k])>> BY <1>4, <2>1
  <2> QED BY <2>2, <2>3
<1>11. IsSnipped(h, s, f) BY <1>8, <1>9, <1>10 DEF IsSnipped, Picks, new, gone
<1> QED BY <1>7, <1>11 DEF s

\* A message the tail-counting passes replace, and what by.
Placeholder(m) == [m EXCEPT !.chars = PlaceholderChars, !.original = 0]

LEMMA PlaceholderKeeps ==
  ASSUME NEW m \in Message, IsResult(m)
  PROVE  /\ Placeholder(m) \in Message /\ Placeholder(m).role = m.role
         /\ Placeholder(m).re = m.re /\ Placeholder(m).read = m.read
         /\ Placeholder(m).error = m.error
         /\ Placeholder(Placeholder(m)) = Placeholder(m)
<1>1. m \in Result BY Roles
<1>2. PlaceholderChars \in Nat BY CompactionAssumptions
<1>3. Placeholder(m) \in Result BY <1>1, <1>2 DEF Placeholder, Result
<1>4. /\ Placeholder(m).role = m.role
      /\ Placeholder(m).re = m.re /\ Placeholder(m).read = m.read
      /\ Placeholder(m).error = m.error
  BY <1>1 DEF Placeholder, Result
<1>5. Placeholder(Placeholder(m)) = Placeholder(m) BY <1>1 DEF Placeholder, Result
<1> QED BY <1>3, <1>4, <1>5 DEF Message

LEMMA MicroCompacted ==
  ASSUME NEW h \in Seq(Message)
  PROVE  /\ MicroCompact(h) \in Seq(Message)
         /\ Len(MicroCompact(h)) = Len(h)
         /\ \A i \in 1..Len(h) :
              MicroCompact(h)[i] = IF IsResult(h[i]) /\ i < TailStart(h)
                                     THEN Placeholder(h[i]) ELSE h[i]
<1> DEFINE new(i) == IF IsResult(h[i]) /\ i < TailStart(h) THEN Placeholder(h[i]) ELSE h[i]
<1>1. MicroCompact(h) = [i \in 1..Len(h) |-> new(i)] BY DEF MicroCompact, Placeholder
<1>2. ASSUME NEW i \in 1..Len(h) PROVE new(i) \in Message
  <2>1. h[i] \in Message OBVIOUS
  <2> QED BY <2>1, PlaceholderKeeps
<1> HIDE DEF new
<1>3. [i \in 1..Len(h) |-> new(i)] \in Seq(Message) BY <1>2
<1> QED BY <1>1, <1>3 DEF new

\* The message without its reasoning, where it has no calls.
WithoutIdleReasoning(m) ==
  IF m.role = "assistant" /\ m.calls = <<>> THEN [m EXCEPT !.reasoning = 0] ELSE m

LEMMA IdleReasoningDropped ==
  ASSUME NEW m \in Message
  PROVE  /\ WithoutIdleReasoning(m) \in Message
         /\ WithoutIdleReasoning(m).role = m.role
         /\ m.role = "assistant" => WithoutIdleReasoning(m).calls = m.calls
         /\ m.role # "assistant" => WithoutIdleReasoning(m) = m
<1>1. CASE m.role = "assistant" /\ m.calls = <<>>
  <2>1. m \in Assistant BY <1>1, Roles
  <2>2. [m EXCEPT !.reasoning = 0] \in Assistant BY <2>1 DEF Assistant
  <2>3. /\ [m EXCEPT !.reasoning = 0].role = m.role
        /\ [m EXCEPT !.reasoning = 0].calls = m.calls
    BY <2>1 DEF Assistant
  <2> QED BY <1>1, <2>2, <2>3 DEF WithoutIdleReasoning, Message
<1>2. CASE ~(m.role = "assistant" /\ m.calls = <<>>) BY <1>2 DEF WithoutIdleReasoning
<1> QED BY <1>1, <1>2

LEMMA AppliedR2 ==
  ASSUME NEW h \in Seq(Message)
  PROVE  /\ ApplyR2(h) \in Seq(Message)
         /\ Len(ApplyR2(h)) = Len(h)
         /\ \A i \in 1..Len(h) : ApplyR2(h)[i] = WithoutIdleReasoning(h[i])
<1>1. ApplyR2(h) = [i \in 1..Len(h) |-> WithoutIdleReasoning(h[i])]
  BY DEF ApplyR2, WithoutIdleReasoning
<1>2. \A i \in 1..Len(h) : WithoutIdleReasoning(h[i]) \in Message
  BY IdleReasoningDropped, ElementOfSeq
<1>3. [i \in 1..Len(h) |-> WithoutIdleReasoning(h[i])] \in Seq(Message) BY <1>2
<1> QED BY <1>1, <1>3

-----------------------------------------------------------------------------
(* The token estimate                                                      *)

LEMMA TokensOfText ==
  ASSUME NEW a \in Nat, NEW b \in Nat, a <= b
  PROVE  Tokens(a) \in Nat /\ Tokens(b) \in Nat /\ Tokens(a) <= Tokens(b)
BY DEF Tokens

LEMMA ProductIsNat == ASSUME NEW a \in Nat, NEW b \in Nat PROVE a * b \in Nat
OBVIOUS

\* A message has an estimate, and loses none of it but by losing text.
LEMMA TokensOfMessage ==
  ASSUME NEW m \in Message
  PROVE  /\ MessageTokens(m) \in Nat
         /\ MessageTokens(WithoutIdleReasoning(m)) \in Nat
         /\ MessageTokens(WithoutIdleReasoning(m)) <= MessageTokens(m)
<1>1. CommandChars \in Nat /\ CallChars \in Nat BY CompactionAssumptions
<1>2. CASE m.role = "assistant"
  <2>1. m \in Assistant BY <1>2, Roles
  <2>2. m.chars \in Nat /\ m.reasoning \in Nat /\ Len(m.calls) \in Nat BY <2>1 DEF Assistant
  <2>3. CallChars * Len(m.calls) \in Nat BY <1>1, <2>2, ProductIsNat
  <2> DEFINE c == CallChars * Len(m.calls)
             tokens(r) == Tokens(m.chars) + 4 + Tokens(r) + Tokens(c)
  <2> HIDE DEF c
  <2>4. \A r \in Nat : tokens(r) \in Nat
    <3> SUFFICES ASSUME NEW r \in Nat PROVE tokens(r) \in Nat
      OBVIOUS
    <3>1. c \in Nat BY <2>3 DEF c
    <3>2. Tokens(m.chars) \in Nat /\ Tokens(r) \in Nat /\ Tokens(c) \in Nat
      BY <2>2, <3>1, TokensOfText
    <3> QED BY <3>2
  <2>5. tokens(0) <= tokens(m.reasoning)
    <3>1. 0 <= m.reasoning /\ c \in Nat BY <2>2, <2>3 DEF c
    <3>2. Tokens(0) \in Nat /\ Tokens(m.reasoning) \in Nat /\ Tokens(0) <= Tokens(m.reasoning)
      BY <2>2, <3>1, TokensOfText
    <3>3. Tokens(m.chars) \in Nat /\ Tokens(c) \in Nat BY <2>2, <3>1, TokensOfText
    <3> QED BY <3>2, <3>3
  <2> HIDE DEF tokens
  <2>6. MessageTokens(m) = tokens(m.reasoning) BY <1>2 DEF MessageTokens, tokens, c
  <2>7. MessageTokens(WithoutIdleReasoning(m)) \in {tokens(0), tokens(m.reasoning)}
    <3>1. CASE m.calls = <<>>
      <4> DEFINE w == [m EXCEPT !.reasoning = 0]
      <4>1. w.role = "assistant" /\ w.chars = m.chars /\ w.reasoning = 0 /\ w.calls = m.calls
        BY <1>2, <2>1 DEF Assistant
      <4>2. WithoutIdleReasoning(m) = w BY <1>2, <3>1 DEF WithoutIdleReasoning
      <4> HIDE DEF w
      <4>3. MessageTokens(w) = tokens(0) BY <4>1 DEF MessageTokens, tokens, c
      <4> QED BY <4>2, <4>3
    <3>2. CASE m.calls # <<>>
      <4>1. WithoutIdleReasoning(m) = m BY <3>2 DEF WithoutIdleReasoning
      <4> QED BY <2>6, <4>1
    <3> QED BY <3>1, <3>2
  <2> QED BY <2>2, <2>4, <2>5, <2>6, <2>7
<1>3. CASE m.role # "assistant"
  <2>1. WithoutIdleReasoning(m) = m BY <1>3 DEF WithoutIdleReasoning
  <2>2. m.chars \in Nat BY Roles
  <2>3. Tokens(m.chars) \in Nat /\ Tokens(CommandChars) \in Nat BY <1>1, <2>2, TokensOfText
  <2>4. MessageTokens(m) = IF m.role = "tool" THEN Tokens(m.chars) + Tokens(CommandChars) + 8
                                              ELSE Tokens(m.chars) + 4
    BY <1>3 DEF MessageTokens
  <2> QED BY <2>1, <2>3, <2>4
<1> QED BY <1>2, <1>3

\* The estimate of a history is the sum of those of its messages.
LEMMA TokensAreSums ==
  ASSUME NEW h \in Seq(Message)
  PROVE  \E p : /\ PrefixSums(p, [i \in 1..Len(h) |-> MessageTokens(h[i])], Len(h))
                /\ HistoryTokens(h) = p[Len(h)]
<1> DEFINE n == Len(h)
           v == [i \in 1..n |-> MessageTokens(h[i])]
           E(f) == f = [s \in SUBSET DOMAIN h |->
                          IF s = {} THEN 0 ELSE f[s \ {Max(s)}] + MessageTokens(h[Max(s)])]
           f == CHOOSE f : E(f)
<1>1. n \in Nat /\ DOMAIN h = 1..n OBVIOUS
<1>2. HistoryTokens(h) = f[DOMAIN h] BY DEF HistoryTokens, FoldLeft, MapThenFoldSet
<1>3. \A i \in 1..n : MessageTokens(h[i]) \in Nat BY TokensOfMessage, ElementOfSeq
<1>4. v \in [1..n -> Nat] BY <1>3
<1> HIDE DEF n, f
<1>5. \A g : SetSums(g, v, n) <=> E(g)
  <2> TAKE g
  <2>1. ASSUME NEW s \in SUBSET (1..n)
        PROVE  (IF s = {} THEN 0 ELSE g[s \ {Max(s)}] + v[Max(s)])
                = IF s = {} THEN 0 ELSE g[s \ {Max(s)}] + MessageTokens(h[Max(s)])
    <3>1. CASE s = {} BY <3>1
    <3>2. CASE s # {}
      <4>1. Max(s) \in 1..n BY <1>1, <3>2, MaxExists
      <4> QED BY <4>1
    <3> QED BY <3>1, <3>2
  <2> HIDE DEF v
  <2>2. [s \in SUBSET (1..n) |-> IF s = {} THEN 0 ELSE g[s \ {Max(s)}] + v[Max(s)]]
          = [s \in SUBSET (1..n) |-> IF s = {} THEN 0 ELSE g[s \ {Max(s)}] + MessageTokens(h[Max(s)])]
    BY <2>1
  <2> QED BY <1>1, <2>2 DEF SetSums
<1> HIDE DEF v
<1>6. \E g : E(g) BY <1>1, <1>4, <1>5, SetSumsExist
<1>7. E(f) BY <1>6 DEF f
<1> HIDE DEF E
<1>8. SetSums(f, v, n) BY <1>5, <1>7
<1>9. PICK p : PrefixSums(p, v, n) /\ p[n] = f[1..n] BY <1>1, <1>4, <1>8, SetSumsArePrefixSums
<1>10. HistoryTokens(h) = p[n] BY <1>1, <1>2, <1>9
<1> QED BY <1>9, <1>10 DEF v, n

\* R2 makes a history no larger.
LEMMA R2Shrinks ==
  ASSUME NEW h \in Seq(Message)
  PROVE  /\ HistoryTokens(h) \in Nat /\ HistoryTokens(ApplyR2(h)) \in Nat
         /\ HistoryTokens(ApplyR2(h)) <= HistoryTokens(h)
<1> DEFINE n == Len(h)
           r == ApplyR2(h)
           v == [i \in 1..n |-> MessageTokens(r[i])]
           w == [i \in 1..n |-> MessageTokens(h[i])]
<1>1. n \in Nat OBVIOUS
<1>2. r \in Seq(Message) /\ Len(r) = n /\ \A i \in 1..n : r[i] = WithoutIdleReasoning(h[i])
  BY AppliedR2
<1>3. PICK q : PrefixSums(q, w, n) /\ HistoryTokens(h) = q[n] BY TokensAreSums
<1> HIDE DEF r
<1>4. PICK p : PrefixSums(p, v, n) /\ HistoryTokens(r) = p[n]
  <2>1. \E p : /\ PrefixSums(p, [i \in 1..Len(r) |-> MessageTokens(r[i])], Len(r))
               /\ HistoryTokens(r) = p[Len(r)]
    BY <1>2, TokensAreSums
  <2> QED BY <1>2, <2>1
<1>5. ASSUME NEW i \in 1..n
      PROVE  v[i] \in Nat /\ w[i] \in Nat /\ v[i] <= w[i]
  <2>1. h[i] \in Message OBVIOUS
  <2>2. v[i] = MessageTokens(WithoutIdleReasoning(h[i])) /\ w[i] = MessageTokens(h[i]) BY <1>2
  <2> HIDE DEF v, w
  <2> QED BY <2>1, <2>2, TokensOfMessage
<1>6. v \in [1..n -> Nat] /\ w \in [1..n -> Nat]
  <2>1. v = [i \in 1..n |-> v[i]] /\ w = [i \in 1..n |-> w[i]] OBVIOUS
  <2> HIDE DEF v, w
  <2> QED BY <1>5, <2>1
<1> HIDE DEF n, v, w
<1>7. p[n] \in Nat /\ q[n] \in Nat /\ p[n] <= q[n]
  BY <1>1, <1>3, <1>4, <1>5, <1>6, PrefixSumsMonotone
<1> QED BY <1>3, <1>4, <1>7 DEF r

-----------------------------------------------------------------------------
(* The number of calls                                                     *)

LEMMA CallsOfMessage == ASSUME NEW m \in Message PROVE NumCalls(m) \in Nat
<1>1. CASE m.role = "assistant"
  <2>1. m \in Assistant BY <1>1, Roles
  <2>2. m.calls \in Seq(Nat) BY <2>1 DEF Assistant
  <2> QED BY <1>1, <2>2 DEF NumCalls
<1>2. CASE m.role # "assistant" BY <1>2 DEF NumCalls
<1> QED BY <1>1, <1>2

\* So is the number of calls.
LEMMA CallsAreSums ==
  ASSUME NEW h \in Seq(Message)
  PROVE  \E p : /\ PrefixSums(p, [i \in 1..Len(h) |-> NumCalls(h[i])], Len(h))
                /\ CallsIn(h) = p[Len(h)]
<1> DEFINE n == Len(h)
           v == [i \in 1..n |-> NumCalls(h[i])]
           E(f) == f = [s \in SUBSET DOMAIN h |->
                          IF s = {} THEN 0 ELSE f[s \ {Max(s)}] + NumCalls(h[Max(s)])]
           f == CHOOSE f : E(f)
<1>1. n \in Nat /\ DOMAIN h = 1..n OBVIOUS
<1>2. CallsIn(h) = f[DOMAIN h] BY DEF CallsIn, FoldLeft, MapThenFoldSet
<1>3. \A i \in 1..n : NumCalls(h[i]) \in Nat BY CallsOfMessage, ElementOfSeq
<1>4. v \in [1..n -> Nat] BY <1>3
<1> HIDE DEF n, f
<1>5. \A g : SetSums(g, v, n) <=> E(g)
  <2> TAKE g
  <2>1. ASSUME NEW s \in SUBSET (1..n)
        PROVE  (IF s = {} THEN 0 ELSE g[s \ {Max(s)}] + v[Max(s)])
                = IF s = {} THEN 0 ELSE g[s \ {Max(s)}] + NumCalls(h[Max(s)])
    <3>1. CASE s = {} BY <3>1
    <3>2. CASE s # {}
      <4>1. Max(s) \in 1..n BY <1>1, <3>2, MaxExists
      <4> QED BY <4>1
    <3> QED BY <3>1, <3>2
  <2> HIDE DEF v
  <2>2. [s \in SUBSET (1..n) |-> IF s = {} THEN 0 ELSE g[s \ {Max(s)}] + v[Max(s)]]
          = [s \in SUBSET (1..n) |-> IF s = {} THEN 0 ELSE g[s \ {Max(s)}] + NumCalls(h[Max(s)])]
    BY <2>1
  <2> QED BY <1>1, <2>2 DEF SetSums
<1> HIDE DEF v
<1>6. \E g : E(g) BY <1>1, <1>4, <1>5, SetSumsExist
<1>7. E(f) BY <1>6 DEF f
<1> HIDE DEF E
<1>8. SetSums(f, v, n) BY <1>5, <1>7
<1>9. PICK p : PrefixSums(p, v, n) /\ p[n] = f[1..n] BY <1>1, <1>4, <1>8, SetSumsArePrefixSums
<1>10. CallsIn(h) = p[n] BY <1>1, <1>2, <1>9
<1> QED BY <1>9, <1>10 DEF v, n

LEMMA CallsAppended ==
  ASSUME NEW h \in Seq(Message), NEW m \in Message
  PROVE  /\ CallsIn(h) \in Nat
         /\ CallsIn(Append(h, m)) = CallsIn(h) + NumCalls(m)
<1> DEFINE n == Len(h)
           a == Append(h, m)
           v == [i \in 1..n |-> NumCalls(h[i])]
           w == [i \in 1..(n + 1) |-> NumCalls(a[i])]
<1>1. /\ n \in Nat /\ a \in Seq(Message) /\ Len(a) = n + 1
      /\ a[n + 1] = m /\ \A i \in 1..n : a[i] = h[i]
  OBVIOUS
<1> HIDE DEF a
<1>2. PICK p : PrefixSums(p, v, n) /\ CallsIn(h) = p[n] BY CallsAreSums
<1>3. PICK q : PrefixSums(q, w, n + 1) /\ CallsIn(a) = q[n + 1]
  <2>1. \E q : /\ PrefixSums(q, [i \in 1..Len(a) |-> NumCalls(a[i])], Len(a))
               /\ CallsIn(a) = q[Len(a)]
    BY <1>1, CallsAreSums
  <2> QED BY <1>1, <2>1
<1>4. v \in [1..n -> Nat] /\ w \in [1..(n + 1) -> Nat]
  <2>1. \A i \in 1..n : NumCalls(h[i]) \in Nat BY CallsOfMessage, ElementOfSeq
  <2>2. \A i \in 1..(n + 1) : NumCalls(a[i]) \in Nat BY <1>1, CallsOfMessage, ElementOfSeq
  <2> QED BY <2>1, <2>2
<1>5. w[n + 1] = NumCalls(m) /\ \A i \in 1..n : v[i] = w[i] BY <1>1
<1> HIDE DEF n, v, w
<1>6. p[n] \in Nat /\ q[n + 1] = p[n] + w[n + 1]
  BY <1>1, <1>2, <1>3, <1>4, <1>5, PrefixSumsExtend
<1> QED BY <1>2, <1>3, <1>5, <1>6 DEF a

LEMMA CallsCounted == ASSUME NEW h \in Seq(Message) PROVE CallsIn(h) \in Nat
<1>1. [role |-> "user", chars |-> 0] \in Message BY DEF Message, User
<1> QED BY <1>1, CallsAppended

LEMMA NoCalls == CallsIn(<<>>) = 0
<1> DEFINE e == << >>
<1>1. e \in Seq(Message) /\ Len(e) = 0 OBVIOUS
<1>2. \E p : /\ PrefixSums(p, [i \in 1..Len(e) |-> NumCalls(e[i])], Len(e))
             /\ CallsIn(e) = p[Len(e)]
  BY <1>1, CallsAreSums
<1> HIDE DEF e
<1>3. CallsIn(e) = 0 BY <1>1, <1>2 DEF PrefixSums
<1> QED BY <1>3 DEF e

-----------------------------------------------------------------------------
(* Order: a pass that keeps the order of what it leaves, the answers and    *)
(* their calls, keeps every result behind its call and in its place         *)

Descends(h, s, f) ==
  /\ f \in [1..Len(s) -> 1..Len(h)]
  /\ Increasing(f, Len(s))
  /\ \A k \in 1..Len(s) : IsResult(s[k]) => IsResult(h[f[k]]) /\ s[k].re = h[f[k]].re
  /\ \A i \in 1..Len(h) : h[i].role = "assistant" =>
       \E k \in 1..Len(s) : f[k] = i /\ s[k].role = "assistant" /\ s[k].calls = h[i].calls

LEMMA OrderKept ==
  ASSUME NEW h \in Seq(Message), NEW s \in Seq(Message), NEW f, Descends(h, s, f), InOrder(h)
  PROVE  InOrder(s)
<1>1. /\ Len(s) \in Nat /\ Len(h) \in Nat
      /\ \A k \in 1..Len(s) : f[k] \in 1..Len(h)
  <2>1. Len(s) \in Nat /\ Len(h) \in Nat OBVIOUS
  <2>2. f \in [1..Len(s) -> 1..Len(h)] BY DEF Descends
  <2> QED BY <2>1, <2>2
<1>2. ASSUME NEW j \in 1..Len(s), IsResult(s[j])
      PROVE  \E i \in 1..j-1 : s[i].role = "assistant" /\ s[j].re \in Range(s[i].calls)
  <2>1. f[j] \in 1..Len(h) /\ IsResult(h[f[j]]) /\ s[j].re = h[f[j]].re
    BY <1>2 DEF Descends
  <2>2. PICK i \in 1..f[j]-1 : h[i].role = "assistant" /\ h[f[j]].re \in Range(h[i].calls)
    BY <2>1 DEF InOrder
  <2>3. i \in 1..Len(h) /\ i < f[j] BY <1>1, <2>1
  <2>4. PICK k \in 1..Len(s) : f[k] = i /\ s[k].role = "assistant" /\ s[k].calls = h[i].calls
    BY <2>2, <2>3 DEF Descends
  <2>5. k < j
    <3>1. j < k => f[j] < f[k] BY DEF Descends, Increasing
    <3>2. f[k] < f[j] /\ f[k] \in Int /\ f[j] \in Int BY <1>1, <2>3, <2>4
    <3>3. k # j BY <3>2
    <3> QED BY <3>1, <3>2, <3>3
  <2>6. k \in 1..j-1 BY <2>5
  <2> QED BY <2>1, <2>2, <2>4, <2>6
<1>3. ASSUME NEW j \in 1..Len(s), IsResult(s[j]), NEW i \in 1..j-1, IsResult(s[i])
      PROVE  s[i].re < s[j].re
  <2>1. i \in 1..Len(s) /\ i < j BY <1>1
  <2>2. f[i] < f[j] BY <2>1 DEF Descends, Increasing
  <2>3. f[i] \in 1..f[j]-1 BY <1>1, <2>1, <2>2
  <2>4. /\ IsResult(h[f[i]]) /\ s[i].re = h[f[i]].re
        /\ IsResult(h[f[j]]) /\ s[j].re = h[f[j]].re
    BY <1>3, <2>1 DEF Descends
  <2>5. h[f[i]].re < h[f[j]].re BY <1>1, <2>3, <2>4 DEF InOrder
  <2> QED BY <2>4, <2>5
<1> QED BY <1>2, <1>3 DEF InOrder

LEMMA PruneDescends ==
  ASSUME NEW h \in Seq(Message), NEW s \in Seq(Message), NEW f, IsPruned(h, s, f)
  PROVE  Descends(h, s, f)
<1>1. /\ f \in [1..Len(s) -> {i \in 1..Len(h) : ~Superseded(h, i)}]
      /\ Increasing(f, Len(s))
      /\ \A i \in 1..Len(h) : ~Superseded(h, i) => \E k \in 1..Len(s) : f[k] = i
  BY DEF IsPruned, Enumerates
<1>2. f \in [1..Len(s) -> 1..Len(h)] BY <1>1
<1>3. ASSUME NEW k \in 1..Len(s)
      PROVE  /\ h[f[k]] \in Message
             /\ s[k] = Truncated(h[f[k]]) \/ s[k] = h[f[k]]
  BY <1>2 DEF IsPruned
<1>4. ASSUME NEW k \in 1..Len(s), IsResult(s[k])
      PROVE  IsResult(h[f[k]]) /\ s[k].re = h[f[k]].re
  BY <1>3, <1>4, TruncatedKeeps DEF IsResult
<1>5. ASSUME NEW i \in 1..Len(h), h[i].role = "assistant"
      PROVE  \E k \in 1..Len(s) : f[k] = i /\ s[k].role = "assistant" /\ s[k].calls = h[i].calls
  <2>1. ~IsResult(h[i]) BY <1>5 DEF IsResult
  <2>2. PICK k \in 1..Len(s) : f[k] = i BY <1>1, <2>1 DEF Superseded
  <2>3. s[k] = h[i] BY <1>3, <2>1, <2>2, TruncatedKeeps
  <2> QED BY <1>5, <2>2, <2>3
<1> QED BY <1>1, <1>2, <1>4, <1>5 DEF Descends

LEMMA SnipDescends ==
  ASSUME NEW h \in Seq(Message), NEW s \in Seq(Message), NEW f, IsSnipped(h, s, f)
  PROVE  Descends(h, s, f)
<1>1. /\ f \in [1..Len(s) -> {i \in 1..Len(h) : ~(Dead(h, i) /\ Failed(h, i - 1))}]
      /\ Increasing(f, Len(s))
      /\ \A i \in 1..Len(h) : ~Dead(h, i) => \E k \in 1..Len(s) : f[k] = i
  BY DEF IsSnipped, Enumerates
<1>2. f \in [1..Len(s) -> 1..Len(h)] BY <1>1
<1>3. \A k \in 1..Len(s) : s[k] = IF Dead(h, f[k]) THEN DeadEnd ELSE h[f[k]] BY DEF IsSnipped
<1>4. DeadEnd.role = "system" BY DEF DeadEnd
<1>5. \A k \in 1..Len(s) : IsResult(s[k]) => IsResult(h[f[k]]) /\ s[k].re = h[f[k]].re
  BY <1>3, <1>4 DEF IsResult
<1>6. ASSUME NEW i \in 1..Len(h), h[i].role = "assistant"
      PROVE  \E k \in 1..Len(s) : f[k] = i /\ s[k].role = "assistant" /\ s[k].calls = h[i].calls
  <2>1. ~Dead(h, i) BY <1>6, DeadFailed DEF Failed, IsFailure, IsResult
  <2>2. PICK k \in 1..Len(s) : f[k] = i BY <1>1, <2>1
  <2>3. s[k] = h[i] BY <1>3, <2>1, <2>2
  <2> QED BY <1>6, <2>2, <2>3
<1> QED BY <1>1, <1>2, <1>5, <1>6 DEF Descends

\* The passes that change no more than messages where they are.
LEMMA InPlaceDescends ==
  ASSUME NEW h \in Seq(Message), NEW s \in Seq(Message), Len(s) = Len(h),
         \A i \in 1..Len(h) : /\ IsResult(s[i]) => IsResult(h[i]) /\ s[i].re = h[i].re
                              /\ h[i].role = "assistant" =>
                                   s[i].role = "assistant" /\ s[i].calls = h[i].calls
  PROVE  Descends(h, s, [i \in 1..Len(h) |-> i])
<1> DEFINE id == [i \in 1..Len(h) |-> i]
<1>1. Len(h) \in Nat /\ \A i \in 1..Len(h) : id[i] = i OBVIOUS
<1>2. id \in [1..Len(s) -> 1..Len(h)] OBVIOUS
<1> HIDE DEF id
<1>3. Increasing(id, Len(s)) BY <1>1 DEF Increasing
<1>4. Descends(h, s, id) BY <1>1, <1>2, <1>3 DEF Descends
<1> QED BY <1>4 DEF id

LEMMA CompactInOrder ==
  ASSUME NEW h \in Seq(Message)
  PROVE  Compact(h) \in Seq(Message) /\ (InOrder(h) => InOrder(Compact(h)))
<1> DEFINE p == PruneToolOutputs(h)
           s == SnipDeadEnds(p)
           m == MicroCompact(s)
<1>1. p \in Seq(Message) /\ \E f : IsPruned(h, p, f) BY Pruned
<1>2. InOrder(h) => InOrder(p)
  <2>1. PICK f : IsPruned(h, p, f) BY <1>1
  <2> HIDE DEF p
  <2>2. Descends(h, p, f) BY <1>1, <2>1, PruneDescends
  <2> QED BY <1>1, <2>2, OrderKept
<1> HIDE DEF p
<1>3. s \in Seq(Message) /\ \E f : IsSnipped(p, s, f) BY <1>1, Snipped
<1>4. InOrder(p) => InOrder(s)
  <2>1. PICK f : IsSnipped(p, s, f) BY <1>3
  <2> HIDE DEF s
  <2>2. Descends(p, s, f) BY <1>1, <1>3, <2>1, SnipDescends
  <2> QED BY <1>1, <1>3, <2>2, OrderKept
<1> HIDE DEF s
<1>5. /\ m \in Seq(Message) /\ Len(m) = Len(s)
      /\ \A i \in 1..Len(s) : m[i] = IF IsResult(s[i]) /\ i < TailStart(s)
                                       THEN Placeholder(s[i]) ELSE s[i]
  BY <1>3, MicroCompacted
<1> HIDE DEF m
<1>6. ASSUME NEW i \in 1..Len(s)
      PROVE  /\ IsResult(m[i]) => IsResult(s[i]) /\ m[i].re = s[i].re
             /\ s[i].role = "assistant" => m[i].role = "assistant" /\ m[i].calls = s[i].calls
  <2>1. s[i] \in Message BY <1>3, ElementOfSeq
  <2>2. CASE IsResult(s[i])
    <3>1. m[i] = Placeholder(s[i]) \/ m[i] = s[i] BY <1>5
    <3>2. m[i].re = s[i].re BY <2>1, <2>2, <3>1, PlaceholderKeeps
    <3> QED BY <2>2, <3>2 DEF IsResult
  <2>3. CASE ~IsResult(s[i])
    <3>1. m[i] = s[i] BY <1>5, <2>3
    <3> QED BY <2>3, <3>1
  <2> QED BY <2>2, <2>3
<1>7. Descends(s, m, [i \in 1..Len(s) |-> i]) BY <1>3, <1>5, <1>6, InPlaceDescends
<1>8. InOrder(s) => InOrder(m) BY <1>3, <1>5, <1>7, OrderKept
<1>9. Compact(h) = m BY DEF Compact, m, s, p
<1> QED BY <1>2, <1>4, <1>5, <1>8, <1>9

LEMMA R2InOrder ==
  ASSUME NEW h \in Seq(Message), InOrder(h)
  PROVE  InOrder(ApplyR2(h))
<1> DEFINE r == ApplyR2(h)
<1>1. r \in Seq(Message) /\ Len(r) = Len(h) /\ \A i \in 1..Len(h) : r[i] = WithoutIdleReasoning(h[i])
  BY AppliedR2
<1> HIDE DEF r
<1>2. ASSUME NEW i \in 1..Len(h)
      PROVE  /\ IsResult(r[i]) => IsResult(h[i]) /\ r[i].re = h[i].re
             /\ h[i].role = "assistant" => r[i].role = "assistant" /\ r[i].calls = h[i].calls
  <2>1. h[i] \in Message /\ r[i] = WithoutIdleReasoning(h[i]) BY <1>1, ElementOfSeq
  <2> QED BY <2>1, IdleReasoningDropped DEF IsResult
<1>3. Descends(h, r, [i \in 1..Len(h) |-> i]) BY <1>1, <1>2, InPlaceDescends
<1>4. InOrder(r) BY <1>1, <1>3, OrderKept
<1> QED BY <1>4 DEF r

-----------------------------------------------------------------------------
(* The tail: what is left of it is in the tail of what is left              *)

LEMMA TailKept ==
  ASSUME NEW h \in Seq(Message), NEW s \in Seq(Message),
         NEW f \in [1..Len(s) -> 1..Len(h)], Increasing(f, Len(s)),
         NEW k \in 1..Len(s), f[k] >= TailStart(h)
  PROVE  k >= TailStart(s)
<1> DEFINE n == Len(s)
           N == Len(h)
           d == n - k
<1>1. n \in Nat /\ N \in Nat /\ k \in 1..n /\ ProtectedTailMessages \in Nat
  BY CompactionAssumptions
<1> HIDE DEF n, N
<1>2. f \in [1..n -> Int] /\ f[k] \in 1..N /\ f[n] \in 1..N BY <1>1 DEF n, N
<1>3. d \in Nat /\ k + d <= n /\ k + d = n BY <1>1
<1> HIDE DEF d
<1>4. f[k] + d <= f[k + d] BY <1>1, <1>2, <1>3, EnumerationGaps DEF n
<1>5. f[k] + d <= N
  <2>1. f[k] + d <= f[n] BY <1>3, <1>4
  <2> QED BY <1>1, <1>2, <1>3, <2>1
<1>6. n - k <= N - f[k] BY <1>1, <1>2, <1>5 DEF d
<1>7. N > ProtectedTailMessages => N - f[k] < ProtectedTailMessages
  BY <1>1, <1>2 DEF TailStart, N
<1>8. n > ProtectedTailMessages => n - k < ProtectedTailMessages
  <2>1. N <= ProtectedTailMessages => n - k < ProtectedTailMessages
    BY <1>1, <1>2, <1>6
  <2> QED BY <1>1, <1>2, <1>6, <1>7, <2>1
<1> QED BY <1>1, <1>8 DEF TailStart, n

\* Result i of h, which is no failure, is left in s, and as it was if it was in the tail.
Keeps(h, s, i) ==
  \E k \in 1..Len(s) :
    /\ IsResult(s[k]) /\ ~s[k].error /\ s[k].re = h[i].re
    /\ i >= TailStart(h) => s[k] = h[i] /\ k >= TailStart(s)

LEMMA KeepsTransitive ==
  ASSUME NEW h, NEW s, NEW r, NEW i, Keeps(h, s, i),
         \A k \in 1..Len(s) : IsResult(s[k]) /\ ~s[k].error => Keeps(s, r, k)
  PROVE  Keeps(h, r, i)
<1>1. PICK k \in 1..Len(s) :
        /\ IsResult(s[k]) /\ ~s[k].error /\ s[k].re = h[i].re
        /\ i >= TailStart(h) => s[k] = h[i] /\ k >= TailStart(s)
  BY DEF Keeps
<1>2. Keeps(s, r, k) BY <1>1
<1>3. PICK j \in 1..Len(r) :
        /\ IsResult(r[j]) /\ ~r[j].error /\ r[j].re = s[k].re
        /\ k >= TailStart(s) => r[j] = s[k] /\ j >= TailStart(r)
  BY <1>2 DEF Keeps
<1> QED BY <1>1, <1>3 DEF Keeps

LEMMA PruneKeeps ==
  ASSUME NEW h \in Seq(Message), NEW s \in Seq(Message), NEW f, IsPruned(h, s, f),
         NEW i \in 1..Len(h), IsResult(h[i]), ~h[i].error, ~Superseded(h, i)
  PROVE  Keeps(h, s, i)
<1>1. PICK k \in 1..Len(s) : f[k] = i BY DEF IsPruned, Enumerates
<1>2. f \in [1..Len(s) -> 1..Len(h)] /\ Increasing(f, Len(s)) BY DEF IsPruned, Enumerates
<1>3. s[k] = IF i < TailStart(h) THEN Truncated(h[i]) ELSE h[i] BY <1>1 DEF IsPruned
<1>4. h[i] \in Message /\ TailStart(h) \in Int
  BY CompactionAssumptions, ElementOfSeq DEF TailStart
<1>5. IsResult(s[k]) /\ s[k].error = h[i].error /\ s[k].re = h[i].re
  BY <1>3, <1>4, TruncatedKeeps DEF IsResult
<1>6. i >= TailStart(h) => s[k] = h[i] BY <1>3, <1>4
<1>7. i >= TailStart(h) => k >= TailStart(s) BY <1>1, <1>2, TailKept
<1> QED BY <1>5, <1>6, <1>7 DEF Keeps

LEMMA SnipKeeps ==
  ASSUME NEW h \in Seq(Message), NEW s \in Seq(Message), NEW f, IsSnipped(h, s, f),
         NEW i \in 1..Len(h), IsResult(h[i]), ~h[i].error
  PROVE  Keeps(h, s, i)
<1>1. ~Dead(h, i) BY DeadFailed DEF Failed, IsFailure
<1>2. PICK k \in 1..Len(s) : f[k] = i BY <1>1 DEF IsSnipped, Enumerates
<1>3. f \in [1..Len(s) -> 1..Len(h)] /\ Increasing(f, Len(s)) BY DEF IsSnipped, Enumerates
<1>4. s[k] = h[i] BY <1>1, <1>2 DEF IsSnipped
<1>5. i >= TailStart(h) => k >= TailStart(s) BY <1>2, <1>3, TailKept
<1> QED BY <1>4, <1>5 DEF Keeps

LEMMA MicroKeeps ==
  ASSUME NEW h \in Seq(Message), NEW i \in 1..Len(h), IsResult(h[i]), ~h[i].error
  PROVE  Keeps(h, MicroCompact(h), i)
<1> DEFINE m == MicroCompact(h)
<1>1. /\ Len(m) = Len(h)
      /\ m[i] = IF IsResult(h[i]) /\ i < TailStart(h) THEN Placeholder(h[i]) ELSE h[i]
  BY MicroCompacted
<1> HIDE DEF m
<1>2. h[i] \in Message /\ TailStart(h) \in Int
  BY CompactionAssumptions, ElementOfSeq DEF TailStart
<1>3. TailStart(m) = TailStart(h) BY <1>1 DEF TailStart
<1>4. IsResult(m[i]) /\ m[i].error = h[i].error /\ m[i].re = h[i].re
  BY <1>1, <1>2, PlaceholderKeeps DEF IsResult
<1>5. i >= TailStart(h) => m[i] = h[i] BY <1>1, <1>2
<1>6. Keeps(h, m, i) BY <1>1, <1>3, <1>4, <1>5 DEF Keeps
<1> QED BY <1>6 DEF m

LEMMA R2Keeps ==
  ASSUME NEW h \in Seq(Message), NEW i \in 1..Len(h), IsResult(h[i]), ~h[i].error
  PROVE  Keeps(h, ApplyR2(h), i)
<1> DEFINE r == ApplyR2(h)
<1>1. Len(r) = Len(h) /\ r[i] = WithoutIdleReasoning(h[i]) BY AppliedR2
<1> HIDE DEF r
<1>2. h[i] \in Message /\ h[i].role # "assistant" BY ElementOfSeq DEF IsResult
<1>3. r[i] = h[i] BY <1>1, <1>2, IdleReasoningDropped
<1>4. TailStart(r) = TailStart(h) BY <1>1 DEF TailStart
<1>5. Keeps(h, r, i) BY <1>1, <1>3, <1>4 DEF Keeps
<1> QED BY <1>5 DEF r

LEMMA CompactKeeps ==
  ASSUME NEW h \in Seq(Message),
         NEW i \in 1..Len(h), IsResult(h[i]), ~h[i].error, ~Superseded(h, i)
  PROVE  Keeps(h, Compact(h), i)
<1> DEFINE p == PruneToolOutputs(h)
           s == SnipDeadEnds(p)
           m == MicroCompact(s)
<1>1. p \in Seq(Message) /\ \E f : IsPruned(h, p, f) BY Pruned
<1>2. Keeps(h, p, i)
  <2>1. PICK f : IsPruned(h, p, f) BY <1>1
  <2> HIDE DEF p
  <2> QED BY <1>1, <2>1, PruneKeeps
<1> HIDE DEF p
<1>3. s \in Seq(Message) /\ \E f : IsSnipped(p, s, f) BY <1>1, Snipped
<1>4. \A k \in 1..Len(p) : IsResult(p[k]) /\ ~p[k].error => Keeps(p, s, k)
  <2>1. PICK f : IsSnipped(p, s, f) BY <1>3
  <2> HIDE DEF s
  <2> QED BY <1>1, <1>3, <2>1, SnipKeeps
<1> HIDE DEF s
<1>5. \A k \in 1..Len(s) : IsResult(s[k]) /\ ~s[k].error => Keeps(s, m, k)
  BY <1>3, MicroKeeps
<1> HIDE DEF m
<1>6. Keeps(h, s, i) BY <1>2, <1>4, KeepsTransitive
<1>7. Keeps(h, m, i) BY <1>5, <1>6, KeepsTransitive
<1>8. Compact(h) = m BY DEF Compact, m, s, p
<1> QED BY <1>7, <1>8

-----------------------------------------------------------------------------
(* Idempotence                                                             *)

LEMMA PruneIdempotent ==
  ASSUME NEW h \in Seq(Message)
  PROVE  PruneToolOutputs(PruneToolOutputs(h)) = PruneToolOutputs(h)
<1> DEFINE p == PruneToolOutputs(h)
<1>1. p \in Seq(Message) /\ \E f : IsPruned(h, p, f) BY Pruned
<1>2. PICK f : IsPruned(h, p, f) BY <1>1
<1> HIDE DEF p
<1>3. /\ f \in [1..Len(p) -> {i \in 1..Len(h) : ~Superseded(h, i)}]
      /\ f \in [1..Len(p) -> 1..Len(h)]
      /\ Increasing(f, Len(p))
      /\ \A k \in 1..Len(p) : p[k] = IF f[k] < TailStart(h) THEN Truncated(h[f[k]]) ELSE h[f[k]]
  BY <1>2 DEF IsPruned, Enumerates
<1>4. Len(p) \in Nat /\ Len(h) \in Nat /\ TailStart(p) \in Int /\ TailStart(h) \in Int
  BY <1>1, CompactionAssumptions DEF TailStart
<1>5. ASSUME NEW k \in 1..Len(p)
      PROVE  /\ p[k] \in Message /\ f[k] \in 1..Len(h)
             /\ p[k].role = h[f[k]].role
             /\ IsResult(p[k]) => p[k].read = h[f[k]].read
  <2>1. f[k] \in 1..Len(h) BY <1>3
  <2>2. h[f[k]] \in Message BY <2>1, ElementOfSeq
  <2>3. p[k] = Truncated(h[f[k]]) \/ p[k] = h[f[k]] BY <1>3
  <2> QED BY <2>1, <2>2, <2>3, TruncatedKeeps DEF IsResult
<1>6. ASSUME NEW k \in 1..Len(p) PROVE ~Superseded(p, k)
  <2> SUFFICES ASSUME Superseded(p, k) PROVE FALSE
    OBVIOUS
  <2>1. PICK j \in k+1..Len(p) : IsResult(p[j]) /\ p[j].read = p[k].read BY DEF Superseded
  <2>2. j \in 1..Len(p) /\ k < j BY <1>4
  <2>3. f[k] < f[j] BY <1>3, <2>2 DEF Increasing
  <2>4. f[k] \in 1..Len(h) /\ f[j] \in f[k]+1..Len(h) BY <1>4, <1>5, <2>2, <2>3
  <2>5. IsResult(h[f[k]]) /\ h[f[k]].read # NoFile BY <1>5 DEF Superseded, IsResult
  <2>6. IsResult(h[f[j]]) /\ h[f[j]].read = h[f[k]].read
    BY <1>5, <2>1, <2>2 DEF Superseded, IsResult
  <2>7. Superseded(h, f[k]) BY <2>4, <2>5, <2>6 DEF Superseded
  <2> QED BY <1>3, <2>7
<1>7. ASSUME NEW k \in 1..Len(p) PROVE k < TailStart(p) => Truncated(p[k]) = p[k]
  <2> SUFFICES ASSUME k < TailStart(p) PROVE Truncated(p[k]) = p[k]
    OBVIOUS
  <2>1. ~(f[k] >= TailStart(h)) BY <1>1, <1>3, <1>4, TailKept
  <2>2. f[k] < TailStart(h) /\ h[f[k]] \in Message BY <1>4, <1>5, <2>1, ElementOfSeq
  <2>3. p[k] = Truncated(h[f[k]]) BY <1>3, <2>2
  <2> QED BY <2>2, <2>3, TruncatedKeeps
<1>8. PruneToolOutputs(p) = p
  <2> DEFINE new(i) == IF i < TailStart(p) THEN Truncated(p[i]) ELSE p[i]
             a == [i \in 1..Len(p) |-> IF Superseded(p, i) THEN <<>> ELSE <<new(i)>>]
  <2>1. PruneToolOutputs(p) = FlattenSeq(a) BY DEF PruneToolOutputs
  <2>2. \A i \in 1..Len(p) : new(i) = p[i] BY <1>7
  <2> HIDE DEF new
  <2>3. \A i \in 1..Len(p) : a[i] = <<p[i]>> BY <1>6, <2>2
  <2>4. a = [i \in 1..Len(p) |-> <<p[i]>>] BY <2>3
  <2> HIDE DEF a
  <2>5. FlattenSeq([i \in 1..Len(p) |-> <<p[i]>>]) = p BY <1>1, FlattenUnchanged
  <2> QED BY <2>1, <2>4, <2>5
<1> QED BY <1>8 DEF p

LEMMA MicroIdempotent ==
  ASSUME NEW h \in Seq(Message)
  PROVE  MicroCompact(MicroCompact(h)) = MicroCompact(h)
<1> DEFINE m == MicroCompact(h)
           r == MicroCompact(m)
<1>1. /\ m \in Seq(Message) /\ Len(m) = Len(h)
      /\ \A i \in 1..Len(h) : m[i] = IF IsResult(h[i]) /\ i < TailStart(h)
                                       THEN Placeholder(h[i]) ELSE h[i]
  BY MicroCompacted
<1> HIDE DEF m
<1>2. /\ r \in Seq(Message) /\ Len(r) = Len(h)
      /\ \A i \in 1..Len(h) : r[i] = IF IsResult(m[i]) /\ i < TailStart(m)
                                       THEN Placeholder(m[i]) ELSE m[i]
  BY <1>1, MicroCompacted
<1> HIDE DEF r
<1>3. TailStart(m) = TailStart(h) BY <1>1 DEF TailStart
<1>4. ASSUME NEW i \in 1..Len(h) PROVE r[i] = m[i]
  <2>1. h[i] \in Message BY ElementOfSeq
  <2>2. CASE IsResult(h[i]) /\ i < TailStart(h)
    <3>1. m[i] = Placeholder(h[i]) BY <1>1, <2>2
    <3>2. IsResult(m[i]) BY <2>1, <2>2, <3>1, PlaceholderKeeps DEF IsResult
    <3>3. r[i] = Placeholder(m[i]) BY <1>2, <1>3, <2>2, <3>2
    <3> QED BY <2>1, <2>2, <3>1, <3>3, PlaceholderKeeps
  <2>3. CASE ~(IsResult(h[i]) /\ i < TailStart(h))
    <3>1. m[i] = h[i] BY <1>1, <2>3
    <3> QED BY <1>2, <1>3, <2>3, <3>1
  <2> QED BY <2>2, <2>3
<1>5. r = m BY <1>1, <1>2, <1>4
<1> QED BY <1>5 DEF r, m

\* The tail snipping spares starts at the last message from which on there are enough tokens.
EnoughFrom(h, i) == HistoryTokens(SubSeq(h, i, Len(h))) >= ProtectedTailTokens

LEMMA ProtectedStartIs ==
  ASSUME NEW h \in Seq(Message)
  PROVE  /\ ProtectedStart(h) \in Nat
         /\ ProtectedStart(h) > 1 =>
              ProtectedStart(h) \in 1..Len(h) /\ EnoughFrom(h, ProtectedStart(h))
         /\ \A i \in 1..Len(h) : EnoughFrom(h, i) => i <= ProtectedStart(h)
<1> DEFINE long == {i \in 1..Len(h) : EnoughFrom(h, i)}
<1>1. Len(h) \in Nat /\ long \in SUBSET (1..Len(h)) OBVIOUS
<1>2. ProtectedStart(h) = IF long = {} THEN 1 ELSE CHOOSE i \in long : \A j \in long : j <= i
  BY DEF ProtectedStart, EnoughFrom
<1>3. \A i \in long : i \in 1..Len(h) /\ EnoughFrom(h, i) OBVIOUS
<1>4. \A i \in 1..Len(h) : EnoughFrom(h, i) => i \in long OBVIOUS
<1> HIDE DEF long
<1>5. CASE long = {} BY <1>2, <1>4, <1>5
<1>6. CASE long # {}
  <2>1. \E i \in long : \A j \in long : j <= i BY <1>1, <1>6, MaxExists
  <2>2. ProtectedStart(h) \in long /\ \A j \in long : j <= ProtectedStart(h) BY <1>2, <1>6, <2>1
  <2>3. ProtectedStart(h) \in 1..Len(h) BY <1>3, <2>2
  <2> QED BY <1>3, <1>4, <2>2, <2>3
<1> QED BY <1>5, <1>6

\* From the tail on, snipping leaves the history as it is.
LEMMA SnipSparesTail ==
  ASSUME NEW h \in Seq(Message), NEW s \in Seq(Message), NEW f, IsSnipped(h, s, f),
         NEW k \in 1..Len(s), f[k] >= ProtectedStart(h)
  PROVE  f[k] \in 1..Len(h) /\ SubSeq(s, k, Len(s)) = SubSeq(h, f[k], Len(h))
<1> DEFINE n == Len(s)
           N == Len(h)
           D == {i \in 1..Len(h) : ~(Dead(h, i) /\ Failed(h, i - 1))}
           S == SubSeq(s, k, n)
           H == SubSeq(h, f[k], N)
<1>1. n \in Nat /\ N \in Nat /\ D \in SUBSET (1..N) /\ k \in 1..n OBVIOUS
<1>2. Enumerates(f, n, D) BY DEF IsSnipped
<1>3. f[k] \in 1..N BY <1>2 DEF Enumerates
<1>4. ProtectedStart(h) \in Nat BY ProtectedStartIs
<1>5. \A i \in 1..N : i >= f[k] => ~Dead(h, i) BY <1>3, <1>4, DeadFailed DEF Failed
<1>6. DenseFrom(f, k, n, N, D)
  <2>1. \A i \in 1..N : i >= f[k] => i \in D BY <1>5
  <2> QED BY <1>1, <2>1 DEF DenseFrom
<1> HIDE DEF D, n, N
<1>7. n - k = N - f[k] /\ \A d \in Nat : k + d <= n => f[k + d] = f[k] + d
  BY <1>1, <1>2, <1>6, EnumerationDense
<1>8. /\ S \in Seq(Message) /\ Len(S) = n - k + 1
      /\ \A i \in 1..n-k+1 : S[i] = s[k+i-1]
  <2>1. \A i \in k..n : s[i] \in Message BY <1>1 DEF n
  <2>2. k \in Int /\ n \in Int /\ k <= n BY <1>1
  <2> QED BY <2>1, <2>2, SubSeqProperties
<1>9. /\ H \in Seq(Message) /\ Len(H) = N - f[k] + 1
      /\ \A i \in 1..N-f[k]+1 : H[i] = h[f[k]+i-1]
  <2> DEFINE m == f[k]
  <2>1. \A i \in m..N : h[i] \in Message BY <1>1, <1>3 DEF N
  <2>2. m \in Int /\ N \in Int /\ m <= N BY <1>1, <1>3
  <2> HIDE DEF m
  <2>3. /\ SubSeq(h, m, N) \in Seq(Message) /\ Len(SubSeq(h, m, N)) = N - m + 1
        /\ \A i \in 1..N-m+1 : SubSeq(h, m, N)[i] = h[m+i-1]
    BY <2>1, <2>2, SubSeqProperties
  <2> QED BY <2>3 DEF m
<1>10. ASSUME NEW i \in 1..n-k+1 PROVE S[i] = H[i]
  <2> DEFINE d == i - 1
             j == k + d
             x == f[k] + d
  <2>1. d \in Nat /\ k + d <= n /\ k+i-1 = j /\ f[k]+i-1 = x BY <1>1, <1>3
  <2>2. j \in 1..n BY <1>1, <2>1
  <2>3. f[j] = x BY <1>7, <2>1
  <2>4. x \in 1..N /\ x >= f[k] BY <1>1, <1>3, <1>7, <2>1
  <2>5. S[i] = s[j] BY <1>8, <2>1
  <2>6. H[i] = h[x] BY <1>7, <1>9, <2>1
  <2> HIDE DEF d, j, x
  <2>7. s[j] = h[f[j]]
    <3>1. ~Dead(h, f[j]) BY <1>5, <2>3, <2>4
    <3> QED BY <2>2, <3>1 DEF IsSnipped, n
  <2> QED BY <2>3, <2>5, <2>6, <2>7
<1> HIDE DEF S, H
<1>11. Len(S) = Len(H) /\ \A i \in 1..Len(S) : S[i] = H[i] BY <1>7, <1>8, <1>9, <1>10
<1>12. S = H BY <1>8, <1>9, <1>11
<1> QED BY <1>3, <1>12 DEF S, H, n, N

\* So what is left before the tail was before it.
LEMMA SnipTail ==
  ASSUME NEW h \in Seq(Message), NEW s \in Seq(Message), NEW f, IsSnipped(h, s, f),
         NEW k \in 1..Len(s), k < ProtectedStart(s)
  PROVE  f[k] < ProtectedStart(h)
<1> DEFINE j == ProtectedStart(s)
<1>1. f \in [1..Len(s) -> 1..Len(h)] /\ Increasing(f, Len(s)) BY DEF IsSnipped, Enumerates
<1>2. j \in 1..Len(s) /\ EnoughFrom(s, j) BY ProtectedStartIs
<1>3. f[k] \in 1..Len(h) /\ f[j] \in 1..Len(h) /\ f[k] < f[j] BY <1>1, <1>2 DEF Increasing
<1>4. ProtectedStart(h) \in Nat BY ProtectedStartIs
<1> HIDE DEF j
<1>5. SUFFICES ASSUME f[k] >= ProtectedStart(h) PROVE FALSE
  BY <1>3, <1>4
<1>6. f[j] >= ProtectedStart(h) BY <1>3, <1>4, <1>5
<1>7. SubSeq(s, j, Len(s)) = SubSeq(h, f[j], Len(h)) BY <1>2, <1>6, SnipSparesTail
<1>8. EnoughFrom(h, f[j]) BY <1>2, <1>7 DEF EnoughFrom
<1>9. f[j] <= ProtectedStart(h) BY <1>3, <1>8, ProtectedStartIs
<1> QED BY <1>3, <1>4, <1>5, <1>9

\* A failure behind a dead one is dead, so what was between two failures that are
\* left and next to each other is left too.
LEMMA DeadBackwards ==
  ASSUME NEW h \in Seq(Message), NEW i \in Int, Dead(h, i), Failed(h, i - 1)
  PROVE  Dead(h, i - 1)
<1>1. PICK first \in i-2..i : \A j \in first..first+2 : Failed(h, j) BY DEF Dead
<1>2. CASE first <= i - 1
  <2>1. first \in (i-1)-2..(i-1) BY <1>1, <1>2
  <2> QED BY <1>1, <2>1 DEF Dead
<1>3. CASE first = i
  <2>1. i - 1 \in (i-1)-2..(i-1) OBVIOUS
  <2>2. \A j \in (i-1)..(i-1)+2 : j = i - 1 \/ j \in first..first+2 BY <1>3
  <2>3. \A j \in (i-1)..(i-1)+2 : Failed(h, j) BY <1>1, <2>2
  <2> QED BY <2>1, <2>3 DEF Dead
<1> QED BY <1>1, <1>2, <1>3

LEMMA FailuresConsecutive ==
  ASSUME NEW h \in Seq(Message), NEW s \in Seq(Message), NEW f, IsSnipped(h, s, f),
         NEW k \in 1..Len(s), k + 1 \in 1..Len(s), Failed(h, f[k]), ~Dead(h, f[k])
  PROVE  f[k + 1] = f[k] + 1
<1> DEFINE n == Len(s)
           N == Len(h)
           j == k + 1
           D == {i \in 1..Len(h) : ~(Dead(h, i) /\ Failed(h, i - 1))}
<1>1. n \in Nat /\ N \in Nat /\ D \subseteq 1..N /\ j \in 1..n /\ k < j OBVIOUS
<1>2. /\ f \in [1..n -> D] /\ \A a, b \in 1..n : a < b => f[a] < f[b]
      /\ \A i \in D : \E a \in 1..n : f[a] = i
  BY DEF IsSnipped, Enumerates, Increasing
<1>3. f[k] \in 1..N /\ f[j] \in 1..N /\ f[k] < f[j] BY <1>1, <1>2
<1> DEFINE i == f[k] + 1
<1>4. i \in 1..N /\ i - 1 = f[k] /\ i <= f[j] BY <1>1, <1>3
<1> HIDE DEF i
<1>5. ~(Dead(h, i) /\ Failed(h, i - 1))
  <2>1. i \in Int BY <1>4
  <2> QED BY <1>4, <2>1, DeadBackwards
<1>6. PICK a \in 1..n : f[a] = i BY <1>2, <1>4, <1>5
<1>7. k < a
  <2>1. a < k => f[a] < f[k] BY <1>2
  <2>2. f[k] < f[a] BY <1>3, <1>4, <1>6
  <2>3. a # k BY <1>3, <2>2
  <2> QED BY <1>3, <1>4, <1>6, <2>1, <2>2, <2>3
<1>8. a = j \/ j < a BY <1>7
<1>9. j < a => f[j] < f[a] BY <1>1, <1>2
<1>10. f[j] = i BY <1>3, <1>4, <1>6, <1>8, <1>9
<1> QED BY <1>10 DEF i, j

LEMMA NoneDead ==
  ASSUME NEW h \in Seq(Message), NEW s \in Seq(Message), NEW f, IsSnipped(h, s, f),
         NEW i \in 1..Len(s)
  PROVE  ~Dead(s, i)
<1> SUFFICES ASSUME Dead(s, i) PROVE FALSE
  OBVIOUS
<1>1. PICK k \in i-2..i : \A j \in k..k+2 : Failed(s, j) BY DEF Dead
<1>2. Failed(s, k) /\ Failed(s, k + 1) /\ Failed(s, k + 2) BY <1>1
<1>3. /\ Len(s) \in Nat /\ k \in Int
      /\ f \in [1..Len(s) -> 1..Len(h)]
      /\ \A j \in 1..Len(s) : s[j] = IF Dead(h, f[j]) THEN DeadEnd ELSE h[f[j]]
  BY <1>1 DEF IsSnipped, Enumerates
<1>4. ASSUME NEW j \in Int, Failed(s, j)
      PROVE  j \in 1..Len(s) /\ Failed(h, f[j]) /\ ~Dead(h, f[j])
  <2>1. j >= 1 /\ j < ProtectedStart(s) /\ IsFailure(s[j]) /\ ProtectedStart(s) \in Nat
    BY <1>4, ProtectedStartIs DEF Failed
  <2>2. j \in 1..Len(s)
    <3>1. ProtectedStart(s) \in 1..Len(s) BY <2>1, ProtectedStartIs
    <3> QED BY <1>3, <2>1, <3>1
  <2>3. f[j] < ProtectedStart(h) /\ f[j] \in 1..Len(h) BY <1>3, <2>1, <2>2, SnipTail
  <2>4. ~Dead(h, f[j])
    <3>1. ~IsFailure(DeadEnd) BY DEF IsFailure, IsResult, DeadEnd
    <3> QED BY <1>3, <2>1, <2>2, <3>1
  <2>5. IsFailure(h[f[j]]) BY <1>3, <2>1, <2>2, <2>4
  <2>6. ProtectedStart(h) \in Nat BY ProtectedStartIs
  <2>7. f[j] \in 1..ProtectedStart(h) - 1 BY <1>3, <2>3, <2>6
  <2> QED BY <2>2, <2>4, <2>5, <2>7 DEF Failed
<1>5. k \in 1..Len(s) /\ Failed(h, f[k]) /\ ~Dead(h, f[k]) BY <1>2, <1>3, <1>4
<1> DEFINE b == k + 1
           c == k + 2
<1>6. b \in 1..Len(s) /\ Failed(h, f[b]) /\ ~Dead(h, f[b])
  <2>1. b \in Int BY <1>3
  <2> QED BY <1>2, <1>4, <2>1
<1>7. c \in 1..Len(s) /\ Failed(h, f[c]) /\ c = b + 1
  <2>1. c \in Int /\ c = b + 1 BY <1>3
  <2> QED BY <1>2, <1>4, <2>1
<1>8. f[b] = f[k] + 1 BY <1>5, <1>6, FailuresConsecutive
<1> HIDE DEF b, c
<1>9. f[c] = f[b] + 1
  <2>1. f[b + 1] = f[b] + 1 BY <1>6, <1>7, FailuresConsecutive
  <2> QED BY <1>7, <2>1
<1> DEFINE x == f[k]
<1>10. x \in Int BY <1>3, <1>5
<1> HIDE DEF x
<1>11. Failed(h, x) /\ Failed(h, x + 1) /\ Failed(h, x + 2)
  <2>1. f[b] = x + 1 /\ f[c] = x + 2 BY <1>8, <1>9, <1>10 DEF x
  <2> QED BY <1>5, <1>6, <1>7, <2>1 DEF x
<1>12. \A j \in x..x+2 : Failed(h, j)
  <2>1. \A j \in x..x+2 : j = x \/ j = x + 1 \/ j = x + 2 BY <1>10
  <2> QED BY <1>11, <2>1
<1>13. x \in x-2..x BY <1>10
<1>14. Dead(h, x) BY <1>12, <1>13 DEF Dead
<1> QED BY <1>5, <1>14 DEF x

LEMMA SnipIdempotent ==
  ASSUME NEW h \in Seq(Message)
  PROVE  SnipDeadEnds(SnipDeadEnds(h)) = SnipDeadEnds(h)
<1> DEFINE s == SnipDeadEnds(h)
<1>1. s \in Seq(Message) /\ \E f : IsSnipped(h, s, f) BY Snipped
<1>2. PICK f : IsSnipped(h, s, f) BY <1>1
<1> HIDE DEF s
<1>3. \A i \in 1..Len(s) : ~Dead(s, i) BY <1>1, <1>2, NoneDead
<1>4. SnipDeadEnds(s) = FlattenSeq([i \in 1..Len(s) |->
                          IF ~Dead(s, i) THEN <<s[i]>>
                          ELSE IF Failed(s, i - 1) THEN <<>> ELSE <<DeadEnd>>])
  BY DEF SnipDeadEnds, Dead, Failed, DeadEnd
<1>5. [i \in 1..Len(s) |-> IF ~Dead(s, i) THEN <<s[i]>>
                           ELSE IF Failed(s, i - 1) THEN <<>> ELSE <<DeadEnd>>]
        = [i \in 1..Len(s) |-> <<s[i]>>]
  BY <1>3
<1>6. SnipDeadEnds(s) = s BY <1>1, <1>4, <1>5, FlattenUnchanged
<1> QED BY <1>6 DEF s

-----------------------------------------------------------------------------
(* The invariant                                                           *)

LEMMA WorkingHistory ==
  ASSUME NEW h \in Seq(Message)
  PROVE  /\ Working(h) \in Seq(Message)
         /\ InOrder(h) => InOrder(Working(h))
         /\ \A i \in 1..Len(h) :
              IsResult(h[i]) /\ ~h[i].error /\ ~Superseded(h, i) => Keeps(h, Working(h), i)
<1>1. CASE Reaches(h, PruneThresholdPct)
  <2>1. Working(h) = Compact(h) BY <1>1 DEF Working
  <2> QED BY <2>1, CompactInOrder, CompactKeeps
<1>2. CASE ~Reaches(h, PruneThresholdPct)
  <2>1. Working(h) = h BY <1>2 DEF Working
  <2> QED BY <2>1 DEF Keeps
<1> QED BY <1>1, <1>2

LEMMA EngineInit == Init => IInv
<1> SUFFICES ASSUME Init PROVE IInv
  OBVIOUS
<1>1. TypeOK
  <2>1. <<>> \in Seq(Message) /\ <<>> \in Seq(Nat) OBVIOUS
  <2> QED BY <2>1, Zenon DEF Init, TypeOK
<1>2. OneAtATime BY DEF Init, OneAtATime
<1>3. Len(history) = 0 /\ Len(pending) = 0 BY DEF Init
<1>4. InOrder(history) /\ Numbered BY <1>3 DEF InOrder, Numbered
<1>5. RequestOfHistory BY DEF Init, RequestOfHistory
<1> QED BY <1>1, <1>2, <1>4, <1>5 DEF IInv

\* A message that is no result leaves the order as it is, and the calls of the ones before.
LEMMA AppendedInOrder ==
  ASSUME NEW h \in Seq(Message), NEW m \in Message, InOrder(h),
         IsResult(m) => /\ \E i \in 1..Len(h) : h[i].role = "assistant" /\ m.re \in Range(h[i].calls)
                        /\ \A i \in 1..Len(h) : IsResult(h[i]) => h[i].re < m.re
  PROVE  InOrder(Append(h, m))
<1> DEFINE a == Append(h, m)
           n == Len(h)
<1>1. /\ n \in Nat /\ a \in Seq(Message) /\ Len(a) = n + 1
      /\ a[n + 1] = m /\ \A i \in 1..n : a[i] = h[i]
  OBVIOUS
<1> HIDE DEF a
<1>2. SUFFICES ASSUME NEW j \in 1..Len(a), IsResult(a[j])
               PROVE  /\ \E i \in 1..j-1 : a[i].role = "assistant" /\ a[j].re \in Range(a[i].calls)
                      /\ \A i \in 1..j-1 : IsResult(a[i]) => a[i].re < a[j].re
  BY DEF InOrder, a
<1>3. CASE j \in 1..n
  <2>1. \A i \in 1..j-1 : a[i] = h[i] BY <1>1, <1>3
  <2>2. a[j] = h[j] BY <1>1, <1>3
  <2> QED BY <1>2, <1>3, <2>1, <2>2 DEF InOrder
<1>4. CASE j = n + 1
  <2>1. 1..j-1 = 1..n BY <1>1, <1>4
  <2>2. a[j] = m BY <1>1, <1>4
  <2> QED BY <1>1, <1>2, <2>1, <2>2
<1> QED BY <1>1, <1>3, <1>4

LEMMA HistoryGrows ==
  ASSUME TypeOK, NEW m \in Message, history' = Append(history, m)
  PROVE  /\ history' \in Seq(Message) /\ Len(history) \in Nat
         /\ Len(history') = Len(history) + 1
         /\ history'[Len(history) + 1] = m
         /\ \A i \in 1..Len(history) : history'[i] = history[i]
         /\ CallsMade \in Nat /\ CallsMade' = CallsMade + NumCalls(m)
         /\ ~IsResult(m) => (InOrder(history) => InOrder(history'))
<1>1. history \in Seq(Message) BY DEF TypeOK
<1>2. CallsIn(history) \in Nat /\ CallsIn(Append(history, m)) = CallsIn(history) + NumCalls(m)
  BY <1>1, CallsAppended
<1>3. CallsMade \in Nat /\ CallsMade' = CallsMade + NumCalls(m) BY <1>2 DEF CallsMade
<1>4. ~IsResult(m) => (InOrder(history) => InOrder(history')) BY <1>1, AppendedInOrder
<1> QED BY <1>1, <1>3, <1>4

\* What a message appended to the history leaves of the numbering of the calls.
LEMMA StillNumbered ==
  ASSUME TypeOK, Numbered, NEW m \in Message, history' = Append(history, m)
  PROVE  /\ ~IsResult(m) => \A j \in 1..Len(history') : IsResult(history'[j]) =>
              history'[j].re <= CallsMade - Len(pending)
         /\ \A j \in 1..Len(history') : IsResult(history'[j]) =>
              history'[j] = m \/ history'[j].re <= CallsMade - Len(pending)
         /\ \A c : (\E i \in 1..Len(history) :
                      history[i].role = "assistant" /\ c \in Range(history[i].calls))
                   => \E i \in 1..Len(history') :
                        history'[i].role = "assistant" /\ c \in Range(history'[i].calls)
<1>1. /\ Len(history) \in Nat /\ Len(history') = Len(history) + 1
      /\ history'[Len(history) + 1] = m
      /\ \A i \in 1..Len(history) : history'[i] = history[i]
  BY HistoryGrows
<1>2. \A j \in 1..Len(history') : j \in 1..Len(history) \/ j = Len(history) + 1 BY <1>1
<1>3. \A i \in 1..Len(history) : i \in 1..Len(history') BY <1>1
<1>4. \A j \in 1..Len(history) : IsResult(history[j]) => history[j].re <= CallsMade - Len(pending)
  BY DEF Numbered
<1>5. \A j \in 1..Len(history') : IsResult(history'[j]) =>
        history'[j] = m \/ history'[j].re <= CallsMade - Len(pending)
  BY <1>1, <1>2, <1>4
<1>6. ~IsResult(m) => \A j \in 1..Len(history') : IsResult(history'[j]) =>
        history'[j].re <= CallsMade - Len(pending)
  BY <1>1, <1>2, <1>4
<1> QED BY <1>1, <1>3, <1>5, <1>6

LEMMA UserStep == ASSUME IInv, AppendUser PROVE IInv'
<1>1. TypeOK /\ OneAtATime /\ InOrder(history) /\ Numbered BY DEF IInv
<1>2. PICK n \in PromptLengths : history' = Append(history, [role |-> "user", chars |-> n])
  BY DEF AppendUser
<1> DEFINE m == [role |-> "user", chars |-> n]
<1>3. m \in Message /\ m.role = "user" BY EngineAssumptions DEF Message, User
<1>4. history' = Append(history, m) BY <1>2
<1> HIDE DEF m
<1>5. /\ request = NoRequest /\ pending = <<>> /\ ready' = TRUE
      /\ request' = NoRequest /\ pending' = <<>>
  BY DEF AppendUser
<1>6. ~IsResult(m) /\ NumCalls(m) = 0 BY <1>3 DEF IsResult, NumCalls
<1>7. /\ history' \in Seq(Message) /\ CallsMade' = CallsMade + NumCalls(m)
      /\ CallsMade \in Nat /\ InOrder(history')
  BY <1>1, <1>3, <1>4, <1>6, HistoryGrows
<1>8. TypeOK' BY <1>1, <1>5, <1>7, Zenon DEF TypeOK
<1>9. OneAtATime' BY <1>5 DEF OneAtATime
<1>10. Numbered'
  <2>1. \A j \in 1..Len(history') : IsResult(history'[j]) =>
          history'[j].re <= CallsMade - Len(pending)
    BY <1>1, <1>3, <1>4, <1>6, StillNumbered
  <2>2. CallsMade' = CallsMade BY <1>6, <1>7
  <2>3. Len(pending') = 0 /\ Len(pending) = 0 BY <1>5
  <2> QED BY <2>1, <2>2, <2>3 DEF Numbered
<1>11. RequestOfHistory' BY <1>5 DEF RequestOfHistory
<1>12. InOrder(history)' BY <1>7
<1> QED BY <1>8, <1>9, <1>10, <1>11, <1>12 DEF IInv

LEMMA PrepareStep == ASSUME IInv, PrepareRequest PROVE IInv'
<1>1. TypeOK /\ OneAtATime /\ InOrder(history) /\ Numbered BY DEF IInv
<1>2. history' = history /\ pending' = pending /\ ready /\ ready' = FALSE BY DEF PrepareRequest
<1>3. pending = <<>> BY <1>1, <1>2 DEF OneAtATime
<1> DEFINE refused == /\ Reaches(Working(history), RefusalThresholdPct)
                      /\ Reaches(history, PruneThresholdPct)
<1>4. request' = IF refused THEN Refused ELSE ApplyR2(Working(history)) BY DEF PrepareRequest
<1>5. Working(history) \in Seq(Message) BY <1>1, WorkingHistory DEF TypeOK
<1>6. request' \in Seq(Message) \cup {Refused}
  <2>1. ApplyR2(Working(history)) \in Seq(Message) BY <1>5, AppliedR2
  <2> QED BY <1>4, <2>1, Zenon
<1>7. TypeOK'
  <2>1. history' \in Seq(Message) /\ pending' \in Seq(Nat) BY <1>1, <1>2, Zenon DEF TypeOK
  <2> QED BY <1>2, <1>6, <2>1, Zenon DEF TypeOK
<1>8. OneAtATime' BY <1>2, <1>3 DEF OneAtATime
<1>9. InOrder(history)' BY <1>1, <1>2
<1>10. Numbered'
  <2>1. CallsMade' = CallsMade BY <1>2 DEF CallsMade
  <2> QED BY <1>1, <1>2, <2>1 DEF Numbered
<1>11. RequestOfHistory'
  <2>1. CASE refused BY <1>4, <2>1 DEF RequestOfHistory
  <2>2. CASE ~refused
    <3>1. request' = ApplyR2(Working(history)) BY <1>4, <2>2
    <3>2. Working(history)' = Working(history) BY <1>2
    <3> QED BY <1>2, <2>2, <3>1, <3>2 DEF RequestOfHistory
  <2> QED BY <2>1, <2>2
<1> QED BY <1>7, <1>8, <1>9, <1>10, <1>11 DEF IInv

LEMMA AssistantStep == ASSUME IInv, AppendAssistant PROVE IInv'
<1>1. TypeOK /\ OneAtATime /\ InOrder(history) /\ Numbered BY DEF IInv
<1>2. PICK n \in PromptLengths, r \in ReasoningLengths, k \in 0..MaxBatch :
        /\ history' = Append(history,
             [role |-> "assistant", chars |-> n,
              reasoning |-> IF k = 0 THEN 0 ELSE r, calls |-> [i \in 1..k |-> CallsMade + i]])
        /\ pending' = [i \in 1..k |-> CallsMade + i]
  BY DEF AppendAssistant
<1> DEFINE calls == [i \in 1..k |-> CallsMade + i]
           m == [role |-> "assistant", chars |-> n,
                 reasoning |-> IF k = 0 THEN 0 ELSE r, calls |-> calls]
<1>3. request # NoRequest /\ request' = NoRequest /\ ready' = ready BY DEF AppendAssistant
<1>4. pending = <<>> /\ ready = FALSE /\ ready \in BOOLEAN BY <1>1, <1>3 DEF OneAtATime, TypeOK
<1>5. k \in Nat BY EngineAssumptions
<1>6. CallsMade \in Nat BY <1>1, CallsCounted DEF TypeOK, CallsMade
<1>7. calls \in Seq(Nat) /\ Len(calls) = k /\ \A i \in 1..k : calls[i] = CallsMade + i
  BY <1>5, <1>6
<1>8. history' = Append(history, m) /\ pending' = calls BY <1>2
<1> HIDE DEF calls
<1>9. m \in Message /\ m.role = "assistant" /\ m.calls = calls
  <2>1. m \in Assistant BY <1>7, EngineAssumptions DEF Assistant
  <2> QED BY <2>1 DEF Message
<1> HIDE DEF m
<1>10. ~IsResult(m) /\ NumCalls(m) = k BY <1>7, <1>9 DEF IsResult, NumCalls
<1>11. /\ history' \in Seq(Message) /\ Len(history) \in Nat /\ Len(history') = Len(history) + 1
       /\ history'[Len(history) + 1] = m /\ CallsMade' = CallsMade + k /\ InOrder(history')
  BY <1>1, <1>8, <1>9, <1>10, HistoryGrows
<1>12. TypeOK' BY <1>3, <1>4, <1>7, <1>8, <1>11, Zenon DEF TypeOK
<1>13. OneAtATime' BY <1>3, <1>4 DEF OneAtATime
<1>14. InOrder(history)' BY <1>11
<1>15. Numbered'
  <2>1. \A j \in 1..Len(history') : IsResult(history'[j]) =>
          history'[j].re <= CallsMade - Len(pending)
    BY <1>1, <1>8, <1>9, <1>10, StillNumbered
  <2>2. CallsMade' - Len(pending') = CallsMade /\ Len(pending) = 0
    <3>1. Len(pending') = k /\ Len(pending) = 0 BY <1>4, <1>7, <1>8
    <3> QED BY <1>5, <1>6, <1>11, <3>1
  <2>3. \A j \in 1..Len(history') : IsResult(history'[j]) => history'[j].re <= CallsMade
    BY <1>6, <2>1, <2>2
  <2>4. ASSUME NEW i \in 1..Len(pending')
        PROVE  /\ pending'[i] = CallsMade + i
               /\ \E j \in 1..Len(history') :
                    history'[j].role = "assistant" /\ pending'[i] \in Range(history'[j].calls)
    <3>1. i \in 1..k /\ pending'[i] = calls[i] BY <1>7, <1>8
    <3>2. i \in DOMAIN calls BY <1>7, <3>1
    <3>3. calls[i] \in Range(calls) BY <3>2 DEF Range
    <3>4. Len(history) + 1 \in 1..Len(history') BY <1>11
    <3> QED BY <1>7, <1>9, <1>11, <3>1, <3>3, <3>4
  <2> QED BY <2>2, <2>3, <2>4 DEF Numbered
<1>16. RequestOfHistory' BY <1>3 DEF RequestOfHistory
<1> QED BY <1>12, <1>13, <1>14, <1>15, <1>16 DEF IInv

LEMMA ResultStep == ASSUME IInv, AppendToolResult PROVE IInv'
<1>1. TypeOK /\ OneAtATime /\ InOrder(history) /\ Numbered BY DEF IInv
<1>2. PICK o \in Outputs :
        history' = Append(history, [role |-> "tool", re |-> Head(pending), read |-> o.read,
                                    error |-> o.error, chars |-> o.chars, original |-> o.original])
  BY DEF AppendToolResult
<1> DEFINE m == [role |-> "tool", re |-> Head(pending), read |-> o.read,
                 error |-> o.error, chars |-> o.chars, original |-> o.original]
           rest == Tail(pending)
           answered == CallsMade - Len(pending)
<1>3. /\ pending # <<>> /\ pending' = rest /\ request' = request
      /\ ready' \in IF rest = <<>> THEN BOOLEAN ELSE {FALSE}
  BY DEF AppendToolResult
<1>4. pending \in Seq(Nat) /\ request = NoRequest BY <1>1, <1>3 DEF TypeOK, OneAtATime
<1>5. /\ rest \in Seq(Nat) /\ Len(pending) \in Nat /\ Len(pending) >= 1
      /\ Len(rest) = Len(pending) - 1 /\ Head(pending) \in Nat /\ Head(pending) = pending[1]
      /\ \A k \in 1..Len(rest) : rest[k] = pending[k + 1]
  BY <1>3, <1>4
<1>6. history' = Append(history, m) BY <1>2
<1> HIDE DEF rest
<1>7. m \in Message /\ m.re = Head(pending) /\ IsResult(m) /\ m.role # "assistant"
  <2>1. o \in Output BY EngineAssumptions
  <2>2. /\ o.read \in Files \cup {NoFile} /\ o.error \in BOOLEAN
        /\ o.chars \in Nat /\ o.original \in Nat
    BY <2>1 DEF Output
  <2>3. m \in Result BY <1>5, <2>2, Zenon DEF Result
  <2> QED BY <2>3 DEF Message, IsResult
<1> HIDE DEF m
<1>8. CallsMade \in Nat /\ history \in Seq(Message) BY <1>1, CallsCounted DEF TypeOK, CallsMade
<1>9. /\ \A j \in 1..Len(history) : IsResult(history[j]) => history[j].re <= answered
      /\ \A k \in 1..Len(pending) :
           /\ pending[k] = answered + k
           /\ \E i \in 1..Len(history) :
                history[i].role = "assistant" /\ pending[k] \in Range(history[i].calls)
  BY <1>1 DEF Numbered
<1>10. answered \in Int BY <1>5, <1>8
<1>11. /\ m.re = answered + 1
       /\ \E i \in 1..Len(history) :
            history[i].role = "assistant" /\ m.re \in Range(history[i].calls)
  <2>1. 1 \in 1..Len(pending) BY <1>5
  <2> QED BY <1>5, <1>7, <1>9, <2>1
<1>12. history' \in Seq(Message) /\ CallsMade' = CallsMade
  <2>1. NumCalls(m) = 0 BY <1>7 DEF NumCalls
  <2>2. history' \in Seq(Message) /\ CallsMade' = CallsMade + NumCalls(m)
    BY <1>1, <1>6, <1>7, HistoryGrows
  <2> QED BY <1>8, <2>1, <2>2
<1>13. TypeOK'
  <2>1. ready' \in BOOLEAN BY <1>3
  <2>2. request' \in Seq(Message) \cup {NoRequest, Refused} BY <1>1, <1>3 DEF TypeOK
  <2> QED BY <1>3, <1>5, <1>12, <2>1, <2>2, Zenon DEF TypeOK
<1>14. OneAtATime' BY <1>3, <1>4 DEF OneAtATime
<1>15. InOrder(history)'
  <2>1. \A i \in 1..Len(history) : IsResult(history[i]) => history[i].re < m.re
    <3>1. ASSUME NEW i \in 1..Len(history), IsResult(history[i]) PROVE history[i].re < m.re
      <4>1. history[i] \in Result BY <1>8, <3>1, ElementOfSeq, Roles
      <4>2. history[i].re \in Nat BY <4>1 DEF Result
      <4>3. history[i].re <= answered BY <1>9, <3>1
      <4> HIDE DEF answered
      <4> QED BY <1>10, <1>11, <4>2, <4>3
    <3> QED BY <3>1
  <2>2. InOrder(Append(history, m)) BY <1>1, <1>7, <1>8, <1>11, <2>1, AppendedInOrder
  <2> QED BY <1>6, <2>2
<1>16. Numbered'
  <2> DEFINE next == CallsMade' - Len(pending')
  <2>1. next = answered + 1 BY <1>3, <1>5, <1>8, <1>12
  <2>2. ASSUME NEW j \in 1..Len(history'), IsResult(history'[j]) PROVE history'[j].re <= next
    <3>1. history'[j] = m \/ history'[j].re <= CallsMade - Len(pending)
      BY <1>1, <1>6, <1>7, <2>2, StillNumbered
    <3>2. history'[j] \in Result BY <1>12, <2>2, ElementOfSeq, Roles
    <3>3. history'[j].re \in Nat BY <3>2 DEF Result
    <3>4. CASE history'[j] = m BY <1>10, <1>11, <2>1, <3>4
    <3>5. CASE history'[j].re <= CallsMade - Len(pending)
      <4>1. history'[j].re <= answered BY <3>5
      <4> HIDE DEF next, answered
      <4> QED BY <1>10, <2>1, <3>3, <4>1
    <3> QED BY <3>1, <3>4, <3>5
  <2>3. ASSUME NEW k \in 1..Len(pending')
        PROVE  /\ pending'[k] = next + k
               /\ \E i \in 1..Len(history') :
                    history'[i].role = "assistant" /\ pending'[k] \in Range(history'[i].calls)
    <3> DEFINE j == k + 1
    <3>1. k \in 1..Len(rest) /\ j \in 1..Len(pending) /\ k \in Nat BY <1>3, <1>5
    <3>2. pending'[k] = pending[j] BY <1>3, <1>5, <3>1
    <3>3. pending[j] = answered + j BY <1>9, <3>1
    <3>4. answered + j = next + k BY <1>10, <2>1, <3>1
    <3> HIDE DEF j, answered, next
    <3>5. \E i \in 1..Len(history) :
            history[i].role = "assistant" /\ pending[j] \in Range(history[i].calls)
      BY <1>9, <3>1 DEF answered
    <3>6. \E i \in 1..Len(history') :
            history'[i].role = "assistant" /\ pending[j] \in Range(history'[i].calls)
      BY <1>1, <1>6, <1>7, <3>5, StillNumbered
    <3> QED BY <3>2, <3>3, <3>4, <3>6
  <2> QED BY <2>2, <2>3 DEF Numbered
<1>17. RequestOfHistory' BY <1>3, <1>4 DEF RequestOfHistory
<1> QED BY <1>13, <1>14, <1>15, <1>16, <1>17 DEF IInv

LEMMA EngineStep == IInv /\ [Next]_vars => IInv'
<1> SUFFICES ASSUME IInv, [Next]_vars PROVE IInv'
  OBVIOUS
<1>1. CASE AppendUser BY <1>1, UserStep
<1>2. CASE PrepareRequest BY <1>2, PrepareStep
<1>3. CASE AppendAssistant BY <1>3, AssistantStep
<1>4. CASE AppendToolResult BY <1>4, ResultStep
<1>5. CASE UNCHANGED vars
  <2>1. history' = history /\ request' = request /\ pending' = pending /\ ready' = ready
    BY <1>5 DEF vars
  <2>2. CallsMade' = CallsMade BY <2>1 DEF CallsMade
  <2> QED BY <2>1, <2>2 DEF IInv, TypeOK, OneAtATime, Numbered, RequestOfHistory, Working, Reaches
<1> QED BY <1>1, <1>2, <1>3, <1>4, <1>5 DEF Next

\* Numbered calls, answered in order, and a request that is made of the history as it is
\* (QueryEngine.ts 94-186, as runReactLoop drives it).
THEOREM EngineInvariant == Spec => []IInv
<1>1. Init => IInv BY EngineInit
<1>2. IInv /\ [Next]_vars => IInv' BY EngineStep
<1> QED BY <1>1, <1>2, PTL DEF Spec

\* The history, the request and the open calls have their types: in particular what
\* compaction makes of a history is a history again (QueryEngine.prepareRequest).
THEOREM EngineTypes == Spec => []TypeOK
<1>1. IInv => TypeOK BY DEF IInv
<1> QED BY <1>1, EngineInvariant, PTL

LEMMA SentHistory ==
  ASSUME IInv
  PROVE  Sent = <<>> \/ (Sent = ApplyR2(Working(history)) /\ request = Sent
                          /\ request \notin {NoRequest, Refused})
BY DEF IInv, RequestOfHistory, Sent

\* In whatever a request holds, a result comes behind its call and the results in the
\* order of the calls: the passes of src/orchestrator/compaction drop and replace
\* messages, but move and repeat none.
THEOREM RequestsInOrder == Spec => []ResultsFollowCalls
<1>1. ASSUME IInv PROVE ResultsFollowCalls
  <2>1. CASE Sent = <<>> BY <2>1 DEF ResultsFollowCalls, InOrder
  <2>2. CASE Sent = ApplyR2(Working(history))
    <3>1. history \in Seq(Message) /\ InOrder(history) BY <1>1 DEF IInv, TypeOK
    <3>2. Working(history) \in Seq(Message) /\ InOrder(Working(history))
      BY <3>1, WorkingHistory
    <3>3. InOrder(ApplyR2(Working(history))) BY <3>2, R2InOrder
    <3> QED BY <2>2, <3>3 DEF ResultsFollowCalls
  <2> QED BY <1>1, <2>1, <2>2, SentHistory
<1>2. IInv => ResultsFollowCalls BY <1>1
<1> QED BY <1>2, EngineInvariant, PTL

\* A request has the results of the protected tail unchanged, but for failures and reads
\* that a later one supersedes, and for the last read of a file, if it is no failure, a
\* result of its call: itself, cut short, or a placeholder (toolOutputPruner.ts,
\* snipper.ts, microCompactor.ts, over three tail boundaries, each computed on what the
\* pass before left).
THEOREM NewestResultsSent == Spec => []ResultsKept
<1>1. ASSUME IInv PROVE ResultsKept
  <2> SUFFICES ASSUME Sent # <<>>, NEW i \in 1..Len(history), IsResult(history[i]),
                      ~Superseded(history, i), ~history[i].error
               PROVE  /\ i >= TailStart(history) => history[i] \in Range(Sent)
                      /\ history[i].read # NoFile => \E m \in ResultsIn(Sent) : m.re = history[i].re
    BY DEF ResultsKept
  <2>1. Sent = ApplyR2(Working(history)) BY <1>1, SentHistory
  <2>2. history \in Seq(Message) BY <1>1 DEF IInv, TypeOK
  <2> DEFINE w == Working(history)
  <2>3. w \in Seq(Message) /\ Keeps(history, w, i) BY <2>2, WorkingHistory
  <2> HIDE DEF w
  <2>4. \A k \in 1..Len(w) : IsResult(w[k]) /\ ~w[k].error => Keeps(w, ApplyR2(w), k)
    BY <2>3, R2Keeps
  <2>5. Keeps(history, ApplyR2(w), i) BY <2>3, <2>4, KeepsTransitive
  <2>6. Keeps(history, Sent, i) BY <2>1, <2>5 DEF w
  <2>7. PICK k \in 1..Len(Sent) :
          /\ IsResult(Sent[k]) /\ Sent[k].re = history[i].re
          /\ i >= TailStart(history) => Sent[k] = history[i]
    BY <2>6 DEF Keeps
  <2>8. Sent \in Seq(Message) BY <2>1, <2>3, AppliedR2 DEF w
  <2>9. Sent[k] \in Range(Sent)
    <3>1. k \in DOMAIN Sent BY <2>8
    <3> QED BY <3>1 DEF Range
  <2> QED BY <2>7, <2>9 DEF ResultsIn
<1>2. IInv => ResultsKept BY <1>1
<1> QED BY <1>2, EngineInvariant, PTL

\* Each pass leaves its own result alone, so that compacting afresh before every request
\* (QueryEngine.prepareRequest) stacks no marker and eats no further into the history.
THEOREM PassesSettle == Spec => []PassesIdempotent
<1>1. ASSUME IInv PROVE PassesIdempotent
  <2>1. history \in Seq(Message) BY <1>1 DEF IInv, TypeOK
  <2> QED BY <2>1, PruneIdempotent, SnipIdempotent, MicroIdempotent DEF PassesIdempotent
<1>2. IInv => PassesIdempotent BY <1>1
<1> QED BY <1>2, EngineInvariant, PTL

LEMMA ProductMonotone ==
  ASSUME NEW a \in Nat, NEW b \in Nat, NEW c \in Nat, a <= b PROVE a * c <= b * c
OBVIOUS

\* What is sent is under the refusal threshold, although the verdict was on another
\* history than the one that is sent (budgetChecker.ts, QueryEngine.prepareRequest).
THEOREM BudgetHolds == Spec => []SentWithinBudget
<1>1. ASSUME IInv PROVE SentWithinBudget
  <2> SUFFICES ASSUME request \notin {NoRequest, Refused}
               PROVE  ~Reaches(request, RefusalThresholdPct)
    BY DEF SentWithinBudget
  <2> DEFINE w == Working(history)
             R == RefusalThresholdPct * WorkingBudget
             P == PruneThresholdPct * WorkingBudget
  <2>1. /\ request = ApplyR2(w)
        /\ ~(Reaches(w, RefusalThresholdPct) /\ Reaches(history, PruneThresholdPct))
    BY <1>1 DEF IInv, RequestOfHistory
  <2>2. history \in Seq(Message) BY <1>1 DEF IInv, TypeOK
  <2>3. w \in Seq(Message) BY <2>2, WorkingHistory
  <2>4. R \in Nat /\ P \in Nat /\ P <= R BY EngineAssumptions, ProductIsNat, ProductMonotone
  <2>5. ~Reaches(w, RefusalThresholdPct)
    <3>1. CASE Reaches(history, PruneThresholdPct) BY <2>1, <3>1
    <3>2. CASE ~Reaches(history, PruneThresholdPct)
      <4>1. w = history BY <3>2 DEF Working
      <4>2. HistoryTokens(history) \in Nat BY <2>2, R2Shrinks
      <4>3. ~(HistoryTokens(history) * 100 >= P) BY <3>2 DEF Reaches
      <4> HIDE DEF P, R, w
      <4>4. ~(HistoryTokens(history) * 100 >= R) BY <2>4, <4>2, <4>3
      <4> QED BY <4>1, <4>4 DEF Reaches, R
    <3> QED BY <3>1, <3>2
  <2> HIDE DEF w
  <2>6. /\ HistoryTokens(w) \in Nat /\ HistoryTokens(request) \in Nat
        /\ HistoryTokens(request) <= HistoryTokens(w)
    BY <2>1, <2>3, R2Shrinks
  <2>7. ~(HistoryTokens(w) * 100 >= R) BY <2>5 DEF Reaches
  <2> HIDE DEF R, P
  <2>8. ~(HistoryTokens(request) * 100 >= R) BY <2>4, <2>6, <2>7
  <2> QED BY <2>8 DEF Reaches, R
<1>2. IInv => SentWithinBudget BY <1>1
<1> QED BY <1>2, EngineInvariant, PTL
=============================================================================
