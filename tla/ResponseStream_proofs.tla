----------------------- MODULE ResponseStream_proofs ------------------------
(***************************************************************************)
(* The events of a response are its reply: whatever the reply says, however*)
(* it is cut into events and the events into chunks, the parsers yield its *)
(* reasoning, its text and its calls as they were written, and no call from*)
(* a response that broke off inside it.                                    *)
(*                                                                         *)
(* The invariant relates what is left to what has been yielded.  Left are  *)
(* the data on the wire and in the buffer of the client (Carried), which are*)
(* the pieces of what the server wrote (Slices), and what the parser holds *)
(* of them: Ahead, for V4, the meaning of its state followed by that text; *)
(* Gathers, for V3, the fragments its calls have come to.  What was yielded*)
(* and what is left make the reply together.                               *)
(***************************************************************************)
EXTENDS ResponseStream, SseStream_proofs

-----------------------------------------------------------------------------
(* What is carried                                                         *)

\* What the data of an event may be.
Payloads ==
  {DoneMarker, Finish, Junk} \cup
  {Delta(part, SubSeq(ReplyWire(part), a, b)) : part \in Parts, a \in Nat, b \in Nat}

\* What is on the wire.
WireSymbols == Payloads \cup {LF, CR, Data, Comment}

\* The bytes in flight and in the buffer are of these, and CR is gone from the buffer.
WireOK == buffer \in Seq(WireSymbols) /\ wire \in Seq(WireSymbols)
          /\ \A i \in 1..Len(buffer) : buffer[i] # CR

\* Q is the data of the events in the buffer and in flight.
Carried(Q) ==
  \E pos : /\ Carries(Payloads, buffer \o wire, Q, pos)
           /\ connection = "open" => Complete(buffer \o wire, Q, pos)

\* The data of an event are not ends of lines or their prefixes.
LEMMA PayloadsApart == Apart(Payloads)
<1>1. \A p : Body(p).sym = "body" BY DEF Body
<1>2. DoneMarker.sym = "[DONE]" BY DEF DoneMarker, Symbol
<1>3. \A x \in Payloads : x.sym = "body" \/ x.sym = "[DONE]"
  <2>1. Finish.sym = "body" /\ Junk.sym = "body" BY <1>1 DEF Finish, Junk
  <2>2. \A part, s : Delta(part, s).sym = "body" BY <1>1 DEF Delta
  <2> QED BY <1>2, <2>1, <2>2 DEF Payloads
<1>4. LF.sym = "LF" /\ CR.sym = "CR" /\ Data.sym = "data:" /\ Comment.sym = ":"
  BY DEF LF, CR, Data, Comment, Symbol
<1>5. \A x \in Payloads : x \notin {LF, CR, Data, Comment}
  <2> TAKE x \in Payloads
  <2>1. x # LF BY <1>3, <1>4
  <2>2. x # CR BY <1>3, <1>4
  <2>3. x # Data BY <1>3, <1>4
  <2>4. x # Comment BY <1>3, <1>4
  <2> QED BY <2>1, <2>2, <2>3, <2>4
<1> QED BY <1>5 DEF Apart

\* The pieces of a sequence that is cut in two.
LEMMA CutInTwo ==
  ASSUME NEW S, NEW s \in Seq(S), NEW n \in 0..Len(s)
  PROVE  /\ SubSeq(s, 1, n) \in Seq(S) /\ SubSeq(s, n + 1, Len(s)) \in Seq(S)
         /\ Len(SubSeq(s, 1, n)) = n /\ Len(SubSeq(s, n + 1, Len(s))) = Len(s) - n
         /\ SubSeq(s, 1, n) \o SubSeq(s, n + 1, Len(s)) = s
         /\ \A i \in 1..n : SubSeq(s, 1, n)[i] = s[i]
         /\ \A i \in 1..(Len(s) - n) : SubSeq(s, n + 1, Len(s))[i] = s[n + i]
<1> DEFINE a == SubSeq(s, 1, n)
           b == SubSeq(s, n + 1, Len(s))
<1>1. a \in Seq(S) /\ Len(a) = n /\ \A i \in 1..n : a[i] = s[i] OBVIOUS
<1>2. b \in Seq(S) /\ Len(b) = Len(s) - n /\ \A i \in 1..(Len(s) - n) : b[i] = s[n + i]
  OBVIOUS
<1> HIDE DEF a, b
<1>6. Len(s) \in Nat /\ n \in Nat OBVIOUS
<1> DEFINE c == a \o b
<1>3. /\ c \in Seq(S) /\ Len(c) = Len(s)
      /\ \A i \in 1..Len(s) : c[i] = IF i <= n THEN a[i] ELSE b[i - n]
  BY <1>1, <1>2
<1> HIDE DEF c
<1>4. \A i \in 1..Len(s) : c[i] = s[i]
  <2> TAKE i \in 1..Len(s)
  <2>1. CASE i <= n BY <1>1, <1>3, <2>1
  <2>2. CASE i > n
    <3>1. i - n \in 1..(Len(s) - n) /\ n + (i - n) = i BY <2>2
    <3> QED BY <1>2, <1>3, <2>2, <3>1
  <2> QED BY <1>6, <2>1, <2>2
<1>5. c = s BY <1>3, <1>4
<1> QED BY <1>1, <1>2, <1>5 DEF a, b, c

\* A chunk that is received, cut anywhere, changes nothing about what is carried.
LEMMA ReceiveKeeps ==
  ASSUME WireOK, ReceiveChunk, Payloads' = Payloads, NEW Q, Carried(Q)
  PROVE  WireOK' /\ Carried(Q)'
<1> DEFINE S == WireSymbols
           t == buffer \o wire
<1>1. PICK n \in 1..MaxChunk :
        /\ n <= Len(wire)
        /\ buffer' = NormaliseLineEndings(buffer \o SubSeq(wire, 1, n))
        /\ wire' = SubSeq(wire, n + 1, Len(wire))
  BY DEF ReceiveChunk
<1>2. connection' = connection BY DEF ReceiveChunk
<1>3. buffer \in Seq(S) /\ wire \in Seq(S) /\ S' = S BY DEF WireOK, WireSymbols
<1> DEFINE a == SubSeq(wire, 1, n)
           r == SubSeq(wire, n + 1, Len(wire))
           s == buffer \o a
           N == NormaliseLineEndings(s)
<1>4. a \in Seq(S) /\ r \in Seq(S) /\ a \o r = wire
  <2>0. n \in 0..Len(wire) BY <1>1, <1>3
  <2> HIDE DEF S
  <2> QED BY <1>3, <2>0, CutInTwo
<1>5. s \in Seq(S)
  <2> HIDE DEF S, a
  <2> QED BY <1>3, <1>4
<1>6. s \o r = t
  <2>1. AssociativeOn(S) BY Associative
  <2> HIDE DEF S, a, r
  <2> QED BY <1>3, <1>4, <2>1 DEF AssociativeOn
<1> HIDE DEF s, N, a, r
<1>7. /\ N \in Seq(S) /\ (\A i \in 1..Len(N) : N[i] # CR)
      /\ \E h : Thinned(s \o r, N \o r, h)
  BY <1>4, <1>5, PayloadsApart, NormalisedThins DEF WireSymbols, N
<1>8. PICK h : Thinned(t, N \o r, h) BY <1>6, <1>7
<1>9. N \o r \in Seq(S)
  <2> HIDE DEF S
  <2> QED BY <1>4, <1>7
<1>10. PICK pos : Carries(Payloads, t, Q, pos) /\ (connection = "open" => Complete(t, Q, pos))
  BY DEF Carried
<1>11. \E pos2 : /\ Carries(Payloads, N \o r, Q, pos2)
                 /\ Complete(t, Q, pos) => Complete(N \o r, Q, pos2)
  <2> HIDE DEF t
  <2> QED BY <1>8, <1>9, <1>10, PayloadsApart, ThinnedCarries DEF WireSymbols
<1>12. buffer' = N /\ wire' = r BY <1>1 DEF N, s, a, r
<1>13. WireOK'
  <2>1. N \in Seq(WireSymbols') BY <1>3, <1>7
  <2>2. r \in Seq(WireSymbols') BY <1>3, <1>4
  <2> QED BY <1>7, <1>12, <2>1, <2>2 DEF WireOK
<1>14. Carried(Q)'
  <2>1. PICK pos2 : /\ Carries(Payloads, N \o r, Q, pos2)
                    /\ Complete(t, Q, pos) => Complete(N \o r, Q, pos2)
    BY <1>11
  <2> QED BY <1>2, <1>10, <1>12, <2>1 DEF Carried
<1> QED BY <1>13, <1>14

\* The smallest element of a set, when it is known.
LEMMA MinIs ==
  ASSUME NEW s \in SUBSET Int, NEW x \in s, \A y \in s : x <= y
  PROVE  Min(s) = x
<1>1. \A m \in s : (\A y \in s : m <= y) => m = x OBVIOUS
<1> QED BY <1>1 DEF Min

\* A set of natural numbers that is not empty has a smallest one.
LEMMA MinExists ==
  ASSUME NEW s \in SUBSET Nat, s # {}
  PROVE  Min(s) \in s /\ \A y \in s : Min(s) <= y
<1> DEFINE Least == \E x \in s : \A y \in s : x <= y
           S == {k \in Nat : (\E x \in s : x <= k) => Least}
<1>1. 0 \in S
  <2> SUFFICES ASSUME NEW x \in s, x <= 0 PROVE Least
    OBVIOUS
  <2>1. x = 0 /\ \A y \in s : x <= y OBVIOUS
  <2> QED BY <2>1
<1>2. ASSUME NEW k \in Nat, k \in S PROVE k + 1 \in S
  <2> SUFFICES ASSUME NEW x \in s, x <= k + 1 PROVE Least
    OBVIOUS
  <2>1. CASE \E y \in s : y <= k BY <1>2, <2>1
  <2>2. CASE ~\E y \in s : y <= k
    <3>1. \A y \in s : x <= y BY <2>2
    <3> QED BY <3>1
  <2> QED BY <2>1, <2>2
<1> HIDE DEF S
<1>3. Nat \subseteq S BY <1>1, <1>2, Induct
<1>4. PICK x \in s : TRUE OBVIOUS
<1>5. x \in S /\ x <= x BY <1>3
<1>6. Least BY <1>4, <1>5 DEF S
<1> QED BY <1>6 DEF Min

\* What is extracted is the first of what is carried, or nothing.
LEMMA ConsumeTakes ==
  ASSUME WireOK, Payloads' = Payloads, NEW Q, Carried(Q), NEW payload,
         NextEvent(payload) \/ LastEvent(payload)
  PROVE  /\ WireOK'
         /\ \/ payload = <<>> /\ Carried(Q)'
            \/ Q # <<>> /\ payload = <<Q[1]>> /\ Carried(Tail(Q))'
<1> DEFINE S == WireSymbols
           b == buffer
           t == buffer \o wire
<1>1. /\ b \in Seq(S) /\ wire \in Seq(S) /\ S' = S /\ (\A i \in 1..Len(b) : b[i] # CR)
      /\ wire' = wire /\ connection' = connection
  BY DEF WireOK, WireSymbols, NextEvent, LastEvent
<1>2. PICK pos : Carries(Payloads, t, Q, pos) /\ (connection = "open" => Complete(t, Q, pos))
  BY DEF Carried
<1>3. /\ t \in Seq(S) /\ Q \in Seq(Payloads)
      /\ pos \in [1..Len(Q) -> 1..Len(t)]
      /\ \A n \in 1..Len(Q) : t[pos[n]] = Q[n]
  BY <1>2 DEF Carries, WireSymbols
<1>4. /\ Len(t) = Len(b) + Len(wire) /\ Len(b) \in Nat /\ Len(wire) \in Nat /\ Len(Q) \in Nat
      /\ \A i \in 1..Len(b) : t[i] = b[i]
  <2> HIDE DEF S
  <2> QED BY <1>1, <1>3, ConcatProperties
<1>5. \A i \in 1..Len(b) : BlankLines \cap {i} = {} => ~(i < Len(b) /\ b[i] = LF /\ b[i + 1] = LF)
  BY <1>4 DEF BlankLines
<1>6. \A end \in 0..Len(b) : OneEvent(b, end) =>
        /\ Len(Q) > 1 => pos[2] > end
        /\ ExtractDataPayload(SubSeq(b, 1, end)) =
             IF Len(Q) > 0 /\ pos[1] <= end THEN <<Q[1]>> ELSE <<>>
  BY <1>1, <1>2, PayloadsApart, EventHolds DEF WireSymbols
<1> HIDE DEF t
<1>7. CASE LastEvent(payload)
  <2>1. BlankLines = {} /\ wire = <<>> /\ payload = ExtractDataPayload(buffer) /\ buffer' = <<>>
    BY <1>7 DEF LastEvent
  <2>2. OneEvent(b, Len(b)) BY <1>4, <1>5, <2>1 DEF OneEvent
  <2>3. SubSeq(b, 1, Len(b)) = b BY <1>1, SubSeqFull
  <2>4. Len(t) = Len(b) BY <1>4, <2>1
  <2>5. Len(b) \in 0..Len(b) BY <1>4
  <2>6. /\ Len(Q) > 1 => pos[2] > Len(b)
        /\ payload = IF Len(Q) > 0 /\ pos[1] <= Len(b) THEN <<Q[1]>> ELSE <<>>
    BY <1>6, <2>1, <2>2, <2>3, <2>5
  <2>7. Len(Q) \in {0, 1}
    <3>1. Len(Q) > 1 => 2 \in 1..Len(Q) BY <1>4
    <3>2. Len(Q) > 1 => pos[2] \in 1..Len(t) BY <1>3, <3>1
    <3> QED BY <1>4, <2>4, <2>6, <3>2
  <2>8. WireOK' BY <1>1, <2>1 DEF WireOK
  <2>9. ASSUME NEW q, q = <<>> PROVE Carried(q)'
    <3>1. PICK pos2 : Carries(Payloads, <<>>, <<>>, pos2) /\ Complete(<<>>, <<>>, pos2)
      BY NothingCarries
    <3>2. (buffer \o wire)' = <<>> BY <1>1, <2>1
    <3> QED BY <2>9, <3>1, <3>2 DEF Carried
  <2>10. CASE Len(Q) = 0
    <3>1. Q = <<>> BY <1>3, <2>10
    <3> QED BY <2>6, <2>8, <2>9, <2>10, <3>1 DEF Carried
  <2>11. CASE Len(Q) = 1
    <3>1. Q # <<>> /\ Tail(Q) = <<>>
      <4> DEFINE X == Payloads
                 T == Tail(Q)
      <4>3. Q \in Seq(X) /\ Q # <<>>
        <5>1. Q # <<>>
          <6> SUFFICES ASSUME Q = <<>> PROVE FALSE OBVIOUS
          <6> QED BY <2>11
        <5> QED BY <1>3, <5>1
      <4> HIDE DEF X
      <4>4. T \in Seq(X) /\ Len(T) = Len(Q) - 1 BY <4>3, HeadTailProperties
      <4>1. T \in Seq(X) /\ Len(T) = 0 BY <2>11, <4>4
      <4>2. Tail(Q) = <<>> BY <4>1, EmptySeq
      <4> QED BY <2>11, <4>2
    <3>2. pos[1] <= Len(b)
      <4>1. 1 \in 1..Len(Q) BY <2>11
      <4> QED BY <1>3, <2>4, <4>1
    <3>3. Carried(Tail(Q))' BY <2>9, <3>1 DEF Carried
    <3>4. payload = <<Q[1]>> BY <2>6, <2>11, <3>2
    <3> QED BY <2>8, <3>1, <3>3, <3>4
  <2> QED BY <2>7, <2>10, <2>11
<1>8. CASE NextEvent(payload)
  <2> DEFINE k == Min(BlankLines)
             m == k + 1
  <2>1. BlankLines # {} /\ BlankLines \in SUBSET Nat BY <1>4, <1>8 DEF NextEvent, BlankLines
  <2>2. k \in BlankLines /\ \A y \in BlankLines : k <= y BY <2>1, MinExists
  <2>3. k \in 1..(Len(b) - 1) /\ b[k] = LF /\ b[k + 1] = LF BY <2>2 DEF BlankLines
  <2>4. payload = ExtractDataPayload(SubSeq(b, 1, k - 1)) /\ buffer' = SubSeq(b, k + 2, Len(b))
    BY <1>8 DEF NextEvent
  <2>5. \A i \in 1..(Len(b) - 1) : i < k => ~(b[i] = LF /\ b[i + 1] = LF)
    BY <2>2, <2>3 DEF BlankLines
  <2> HIDE DEF k
  <2>6. k - 1 \in 0..Len(b) /\ OneEvent(b, k - 1)
    <3>1. k - 1 \in 0..Len(b) BY <1>4, <2>3
    <3>2. \A i \in 1..((k - 1) - 1) : i \in 1..(Len(b) - 1) /\ i < k BY <1>4, <2>3
    <3> QED BY <2>5, <3>1, <3>2 DEF OneEvent
  <2>7. /\ Len(Q) > 1 => pos[2] > k - 1
        /\ payload = IF Len(Q) > 0 /\ pos[1] <= k - 1 THEN <<Q[1]>> ELSE <<>>
    BY <1>6, <2>4, <2>6
  <2>8. t[k] = LF /\ t[m] = LF /\ m \in 1..Len(t) /\ k \in 1..Len(t) BY <1>4, <2>3
  <2>9. \A n \in 1..Len(Q) : pos[n] # k /\ pos[n] # m /\ pos[n] \in Nat
    <3> TAKE n \in 1..Len(Q)
    <3>1. t[pos[n]] \in Payloads BY <1>3
    <3>2. LF \notin Payloads BY PayloadsApart DEF Apart
    <3> QED BY <1>3, <1>4, <2>8, <3>1, <3>2
  <2>10. Len(Q) > 1 => pos[2] > m
    <3>1. Len(Q) > 1 => 2 \in 1..Len(Q) BY <1>4
    <3> QED BY <2>3, <2>7, <2>9, <3>1
  <2>11. Len(Q) > 0 => (pos[1] <= k - 1 <=> pos[1] <= m)
    <3>1. Len(Q) > 0 => 1 \in 1..Len(Q) BY <1>4
    <3> QED BY <2>3, <2>9, <3>1
  <2> DEFINE Q2 == IF Len(Q) > 0 /\ pos[1] <= m THEN Tail(Q) ELSE Q
             t2 == SubSeq(t, m + 1, Len(t))
  <2>12. \E pos2 : Carries(Payloads, t2, Q2, pos2) /\ (Complete(t, Q, pos) => Complete(t2, Q2, pos2))
    BY <1>2, <2>8, <2>10, PayloadsApart, DropCarries
  <2>13. /\ buffer' \in Seq(S) /\ (buffer \o wire)' = t2
         /\ \A i \in 1..Len(buffer') : buffer'[i] # CR
    <3> DEFINE r == SubSeq(b, m + 1, Len(b))
    <3>1. /\ r \in Seq(S) /\ Len(r) = Len(b) - m /\ m \in Nat /\ m <= Len(b)
          /\ \A i \in 1..(Len(b) - m) : r[i] = b[m + i] /\ m + i \in 1..Len(b)
      <4>1. m \in 0..Len(b) BY <1>4, <2>3
      <4> HIDE DEF S, m
      <4>2. r \in Seq(S) /\ Len(r) = Len(b) - m /\ \A i \in 1..(Len(b) - m) : r[i] = b[m + i]
        BY <1>1, <4>1, CutInTwo
      <4>3. m \in Nat /\ m <= Len(b) BY <1>4, <4>1
      <4>4. \A i \in 1..(Len(b) - m) : m + i \in 1..Len(b) BY <1>4, <4>3
      <4> QED BY <4>2, <4>3, <4>4
    <3>2. m + 1 = k + 2 BY <2>3
    <3>3. \A i \in 1..Len(r) : r[i] # CR BY <1>1, <3>1
    <3>4. r \o wire = t2
      <4> HIDE DEF S, m, r
      <4>1. /\ r \o wire \in Seq(S) /\ Len(r \o wire) = Len(t) - m
            /\ \A i \in 1..(Len(t) - m) : (r \o wire)[i] =
                 IF i <= Len(b) - m THEN r[i] ELSE wire[i - (Len(b) - m)]
        <5> DEFINE n == Len(r)
                   l == Len(b)
                   w == Len(wire)
        <5>1. /\ r \o wire \in Seq(S) /\ Len(r \o wire) = n + w
              /\ \A i \in 1..(n + w) : (r \o wire)[i] = IF i <= n THEN r[i] ELSE wire[i - n]
          BY <1>1, <3>1, ConcatProperties
        <5>2. n = l - m /\ n + w = Len(t) - m
          <6>1. n = l - m /\ Len(t) = l + w /\ l \in Nat /\ w \in Nat /\ m \in Nat BY <1>4, <3>1
          <6> HIDE DEF n, l, w
          <6> QED BY <6>1
        <5> QED BY <5>1, <5>2
      <4>2. /\ t2 \in Seq(S) /\ Len(t2) = Len(t) - m
            /\ \A i \in 1..(Len(t) - m) : t2[i] = t[m + i]
        <5>1. m \in 0..Len(t) BY <1>4, <3>1
        <5> QED BY <1>3, <5>1, CutInTwo
      <4>3. \A i \in 1..Len(t) : t[i] = IF i <= Len(b) THEN b[i] ELSE wire[i - Len(b)]
        BY <1>1, <1>4, ConcatProperties DEF t
      <4> DEFINE c == r \o wire
      <4> HIDE DEF c, t2
      <4>4. \A i \in 1..(Len(t) - m) : c[i] = t2[i]
        <5> TAKE i \in 1..(Len(t) - m)
        <5>1. CASE i <= Len(b) - m
          <6>1. i \in 1..(Len(b) - m) /\ m + i \in 1..Len(t) /\ m + i <= Len(b)
            BY <1>4, <3>1, <5>1
          <6> QED BY <3>1, <4>1, <4>2, <4>3, <5>1, <6>1 DEF c
        <5>2. CASE i > Len(b) - m
          <6>1. m + i \in 1..Len(t) /\ ~(m + i <= Len(b)) /\ i - (Len(b) - m) = (m + i) - Len(b)
                /\ ~(i <= Len(b) - m)
            BY <1>4, <3>1, <5>2
          <6> QED BY <4>1, <4>2, <4>3, <6>1 DEF c
        <5> QED BY <1>4, <3>1, <5>1, <5>2
      <4> QED BY <4>1, <4>2, <4>4 DEF c
    <3> QED BY <1>1, <2>4, <3>1, <3>2, <3>3, <3>4
  <2> HIDE DEF t2, Q2, m
  <2>14. WireOK' BY <1>1, <2>13 DEF WireOK
  <2>15. ASSUME NEW q, q = Q2 PROVE Carried(q)'
    <3>1. PICK pos2 : /\ Carries(Payloads, t2, Q2, pos2)
                      /\ Complete(t, Q, pos) => Complete(t2, Q2, pos2)
      BY <2>12
    <3>2. connection' = "open" => Complete(t2, Q2, pos2) BY <1>1, <1>2, <3>1
    <3> QED BY <2>13, <2>15, <3>1, <3>2 DEF Carried
  <2>16. CASE Len(Q) > 0 /\ pos[1] <= k - 1
    <3>1. Q2 = Tail(Q) BY <2>11, <2>16 DEF Q2
    <3>2. Q # <<>> BY <2>16
    <3> QED BY <2>7, <2>14, <2>15, <2>16, <3>1, <3>2 DEF Carried
  <2>17. CASE ~(Len(Q) > 0 /\ pos[1] <= k - 1)
    <3>1. Q2 = Q BY <2>11, <2>17 DEF Q2
    <3> QED BY <2>7, <2>14, <2>15, <2>17, <3>1 DEF Carried
  <2> QED BY <2>16, <2>17
<1> QED BY <1>7, <1>8

\* What the server sends is of the symbols of the wire.
LEMMA EventTyped ==
  ASSUME LineEnd(lineEnd), NEW x \in Payloads
  PROVE  /\ Event(x) \in Seq(WireSymbols) /\ <<Data, x>> \in Seq(WireSymbols)
         /\ <<Comment>> \o lineEnd \in Seq(WireSymbols)
         /\ lineEnd \in Seq(WireSymbols)
<1> DEFINE S == WireSymbols
           d == <<Data, x>>
<1>1. lineEnd \in Seq(Ends) BY LineEndShape
<1>2. Ends \subseteq S /\ Comment \in S /\ Data \in S /\ x \in S BY DEF Ends, WireSymbols
<1> HIDE DEF S
<1>3. lineEnd \in Seq(S) BY <1>1, <1>2
<1>4. d \in Seq(S) /\ <<Comment>> \in Seq(S) BY <1>2
<1> HIDE DEF d
<1>5. d \o lineEnd \o lineEnd \in Seq(S) /\ <<Comment>> \o lineEnd \in Seq(S) BY <1>3, <1>4
<1> QED BY <1>3, <1>4, <1>5 DEF Event, S, d

\* An event that is sent is carried behind the others.
LEMMA EventSent ==
  ASSUME WireOK, Payloads' = Payloads, NEW Q, Carried(Q), NEW x \in Payloads, LineEnd(lineEnd),
         connection = "open", connection' = connection, buffer' = buffer, wire' = wire \o Event(x)
  PROVE  WireOK' /\ Carried(Append(Q, x))'
<1> DEFINE S == WireSymbols
           t == buffer \o wire
           e == Event(x)
           Q2 == Append(Q, x)
<1>1. buffer \in Seq(S) /\ wire \in Seq(S) /\ S' = S /\ (\A i \in 1..Len(buffer) : buffer[i] # CR)
  BY DEF WireOK, WireSymbols
<1>2. e \in Seq(S) BY EventTyped
<1>3. PICK pos : Carries(Payloads, t, Q, pos) /\ Complete(t, Q, pos) BY DEF Carried
<1>4. e = <<Data, x>> \o lineEnd \o lineEnd BY DEF Event
<1>5. \E pos2 : Carries(Payloads, t \o e, Q2, pos2) /\ Complete(t \o e, Q2, pos2)
  BY <1>3, <1>4, PayloadsApart, EventCarries
<1> HIDE DEF S, e, Q2
<1>6. wire' = wire \o e BY DEF e
<1>7. buffer \o (wire \o e) = t \o e
  <2>1. AssociativeOn(S) BY Associative
  <2> QED BY <1>1, <1>2, <2>1 DEF AssociativeOn
<1>8. (buffer \o wire)' = t \o e BY <1>6, <1>7
<1>9. wire \o e \in Seq(S) BY <1>1, <1>2
<1>10. WireOK' BY <1>1, <1>6, <1>9 DEF WireOK, S
<1>11. PICK pos2 : Carries(Payloads, t \o e, Q2, pos2) /\ Complete(t \o e, Q2, pos2) BY <1>5
<1>12. Carried(Append(Q, x))' BY <1>8, <1>11 DEF Carried, Q2
<1> QED BY <1>10, <1>12

\* Where no byte is, nothing is carried.
LEMMA NothingCarried ==
  ASSUME NEW Q, Carried(Q), buffer = <<>>, wire = <<>>
  PROVE  Q = <<>>
<1> DEFINE t == buffer \o wire
<1>1. PICK pos : Carries(Payloads, t, Q, pos) BY DEF Carried
<1>2. t = <<>> /\ Len(<<>>) = 0 OBVIOUS
<1>3. Q \in Seq(Payloads) /\ pos \in [1..Len(Q) -> 1..0] BY <1>1, <1>2 DEF Carries
<1>4. Len(Q) = 0
  <2>1. Len(Q) \in Nat BY <1>3
  <2>2. CASE Len(Q) > 0
    <3>1. 1 \in 1..Len(Q) BY <2>1, <2>2
    <3>2. pos[1] \in 1..0 BY <1>3, <3>1
    <3> QED BY <3>2
  <2> QED BY <2>1, <2>2
<1> QED BY <1>3, <1>4, EmptySeq

\* Junk behind a comment is carried; both come first.
LEMMA JunkSent ==
  ASSUME Payloads' = Payloads, LineEnd(lineEnd), buffer = <<>>, wire = <<>>,
         connection = "open", connection' = connection, buffer' = buffer,
         wire' = wire \o (<<Comment>> \o lineEnd \o Event(Junk))
  PROVE  WireOK' /\ Carried(<<Junk>>)'
<1> DEFINE S == WireSymbols
           t == <<Comment>> \o lineEnd
           e == Event(Junk)
<1>1. Junk \in Payloads BY DEF Payloads
<1>2. e \in Seq(S) /\ t \in Seq(S) BY <1>1, EventTyped
<1>3. PICK pos : Carries(Payloads, t, <<>>, pos) /\ Complete(t, <<>>, pos)
  BY PayloadsApart, CommentCarries
<1>4. e = <<Data, Junk>> \o lineEnd \o lineEnd BY DEF Event
<1>5. \E pos2 : Carries(Payloads, t \o e, Append(<<>>, Junk), pos2)
                /\ Complete(t \o e, Append(<<>>, Junk), pos2)
  BY <1>1, <1>3, <1>4, PayloadsApart, EventCarries
<1>6. wire' = <<>> \o (t \o e) BY DEF t, e
<1>7. S' = S BY DEF WireSymbols
<1> HIDE DEF S, e, t
<1>8. t \o e \in Seq(S) BY <1>2
<1>9. wire' = t \o e /\ (buffer \o wire)' = t \o e
  <2> DEFINE c == t \o e
  <2>1. c \in Seq(S) BY <1>8
  <2>2. wire' = <<>> \o c BY <1>6
  <2> HIDE DEF c
  <2>3. <<>> \o c = c BY <2>1, ConcatEmptySeq
  <2>4. buffer' = <<>> OBVIOUS
  <2> QED BY <2>2, <2>3, <2>4 DEF c
<1>10. Append(<<>>, Junk) = <<Junk>> OBVIOUS
<1>11. WireOK'
  <2>0. <<>> \in Seq(S) /\ buffer' = <<>> OBVIOUS
  <2>1. buffer' \in Seq(S) /\ \A i \in 1..Len(buffer') : buffer'[i] # CR BY <2>0
  <2> QED BY <1>7, <1>8, <1>9, <2>1 DEF WireOK, S
<1>12. Carried(<<Junk>>)'
  <2>1. PICK pos2 : Carries(Payloads, t \o e, <<Junk>>, pos2) /\ Complete(t \o e, <<Junk>>, pos2)
    BY <1>5, <1>10
  <2> QED BY <1>9, <2>1 DEF Carried
<1> QED BY <1>11, <1>12

\* A data line without its empty line is carried when the connection is closed behind it.
LEMMA LineSent ==
  ASSUME WireOK, Payloads' = Payloads, NEW Q, Carried(Q), NEW x \in Payloads, LineEnd(lineEnd),
         connection = "open", connection' = "closed", buffer' = buffer, wire' = wire \o <<Data, x>>
  PROVE  WireOK' /\ Carried(Append(Q, x))'
<1> DEFINE S == WireSymbols
           t == buffer \o wire
           e == <<Data, x>>
           Q2 == Append(Q, x)
<1>1. buffer \in Seq(S) /\ wire \in Seq(S) /\ S' = S /\ (\A i \in 1..Len(buffer) : buffer[i] # CR)
  BY DEF WireOK, WireSymbols
<1>2. e \in Seq(S) BY EventTyped
<1>3. PICK pos : Carries(Payloads, t, Q, pos) /\ Complete(t, Q, pos) BY DEF Carried
<1>5. \E pos2 : Carries(Payloads, t \o e, Q2, pos2)
  BY <1>3, PayloadsApart, LineCarries
<1> HIDE DEF S, e, Q2
<1>6. wire' = wire \o e BY DEF e
<1>7. buffer \o (wire \o e) = t \o e
  <2>1. AssociativeOn(S) BY Associative
  <2> QED BY <1>1, <1>2, <2>1 DEF AssociativeOn
<1>8. (buffer \o wire)' = t \o e BY <1>6, <1>7
<1>9. wire \o e \in Seq(S) BY <1>1, <1>2
<1>10. WireOK' BY <1>1, <1>6, <1>9 DEF WireOK, S
<1>11. PICK pos2 : Carries(Payloads, t \o e, Q2, pos2) BY <1>5
<1>12. Carried(Append(Q, x))' BY <1>8, <1>11 DEF Carried, Q2
<1> QED BY <1>10, <1>12

-----------------------------------------------------------------------------
(* What the data are from                                                  *)

\* The reply does not change while it is sent.
Setting ==
  /\ protocol \in {"v3", "v4"}
  /\ reply \in (IF protocol = "v3" THEN V3Replies ELSE Replies)
  /\ lineEnd \in LineEnds

\* A delta ends inside a "</param>".
Splits(f) ==
  protocol = "v4" /\ \E ch \in Channels :
    /\ 0 < f[ch] /\ f[ch] < Len(ReplyWire(ch))
    /\ ReplyWire(ch)[f[ch]] = "<" /\ ReplyWire(ch)[f[ch] + 1] = "/param"

\* What may have been sent of the parts: V3 begins its calls one after the other.
Boundary(f) ==
  /\ f \in [Parts -> Nat]
  /\ \A part \in Parts : f[part] <= Len(ReplyWire(part))
  /\ \A id1, id2 \in V3Ids : V3Index(id1) < V3Index(id2) /\ f[id2] > 0 => f[id1] > 0
  /\ ~cut => ~Splits(f)

\* The data x takes the parts from f to g.
Adds(x, f, g) ==
  \/ x \in {Finish, Junk, DoneMarker} /\ f = g
  \/ \E part \in Parts :
       /\ f[part] < g[part]
       /\ \A other \in Parts \ {part} : f[other] = g[other]
       /\ x = Delta(part, SubSeq(ReplyWire(part), f[part] + 1, g[part]))

\* The n-th of the data of Q begins where at[n] of the parts has been sent.
Slices(Q, at) ==
  /\ Q \in Seq(Payloads)
  /\ DOMAIN at = 1..(Len(Q) + 1)
  /\ \A n \in 1..(Len(Q) + 1) : Boundary(at[n])
  /\ \A n \in 1..Len(Q) : Adds(Q[n], at[n], at[n + 1])
  /\ at[Len(Q) + 1] = sent
  /\ \A n \in 1..Len(Q) : Q[n] = Finish =>
       /\ at[n] = sent /\ finished
       /\ \A m \in (n + 1)..Len(Q) : Q[m] = DoneMarker

\* Q is the data still to be handled, and at where they are from.
Queue(Q, at) == WireOK /\ Carried(Q) /\ Slices(Q, at)

\* Nothing but [DONE] may come.
Settled(Q) == finished /\ \A n \in 1..Len(Q) : Q[n] = DoneMarker

\* The data of events can be told apart.
LEMMA PayloadsDiffer ==
  /\ Finish # Junk /\ Finish # DoneMarker /\ Junk # DoneMarker
  /\ \A part, s : Delta(part, s) \notin {Finish, Junk, DoneMarker}
  /\ Finish.payload.type = "finish" /\ Junk.payload.type = "junk"
<1>1. \A p : Body(p).sym = "body" /\ Body(p).payload = p BY DEF Body
<1>2. DoneMarker.sym = "[DONE]" BY DEF DoneMarker, Symbol
<1>3. Finish.payload.type = "finish" /\ Finish.sym = "body" BY <1>1 DEF Finish
<1>4. Junk.payload.type = "junk" /\ Junk.sym = "body" BY <1>1 DEF Junk
<1>5. \A part, s : /\ Delta(part, s).payload.type \in {"calls", "delta"}
                   /\ Delta(part, s).sym = "body"
  <2> TAKE part, s
  <2>1. CASE part \in V3Ids BY <1>1, <2>1 DEF Delta
  <2>2. CASE part \notin V3Ids BY <1>1, <2>2 DEF Delta
  <2> QED BY <2>1, <2>2
<1>6. Finish # Junk /\ Finish # DoneMarker /\ Junk # DoneMarker
  BY <1>2, <1>3, <1>4
<1>7. ASSUME NEW part, NEW s PROVE Delta(part, s) \notin {Finish, Junk, DoneMarker}
  <2>1. Delta(part, s) # Finish BY <1>3, <1>5
  <2>2. Delta(part, s) # Junk BY <1>4, <1>5
  <2>3. Delta(part, s) # DoneMarker BY <1>2, <1>5
  <2> QED BY <2>1, <2>2, <2>3
<1> QED BY <1>3, <1>4, <1>6, <1>7

\* What is defined by the reply is the same as long as the reply is.
LEMMA SameReply ==
  ASSUME protocol' = protocol, reply' = reply
  PROVE  /\ Parts' = Parts /\ V3Ids' = V3Ids /\ Payloads' = Payloads
         /\ \A part : ReplyWire(part)' = ReplyWire(part) /\ V3Index(part)' = V3Index(part)
<1>1. Parts' = Parts /\ V3Ids' = V3Ids BY DEF Parts, V3Ids
<1>2. \A part : V3Index(part)' = V3Index(part) BY DEF V3Index
<1>3. \A part : ReplyWire(part)' = ReplyWire(part)
  BY <1>1, <1>2 DEF ReplyWire, V3CallWire
<1>4. \A part, s : Delta(part, s)' = Delta(part, s) BY <1>1 DEF Delta
<1>5. Payloads' = Payloads BY <1>1, <1>3, <1>4 DEF Payloads
<1> QED BY <1>1, <1>2, <1>3, <1>5

\* More is sent.
LEMMA SlicesMore ==
  ASSUME protocol' = protocol, reply' = reply, NEW Q, NEW at, Slices(Q, at),
         NEW x \in Payloads, Adds(x, sent, sent'), Boundary(sent)', cut => cut',
         finished => finished', x = Finish => finished' /\ sent' = sent,
         finished => x = DoneMarker
  PROVE  \E at2 : Slices(Append(Q, x), at2)' /\ at2[1] = at[1]
<1> DEFINE n == Len(Q)
           Q2 == Append(Q, x)
<1>1. /\ Q \in Seq(Payloads) /\ n \in Nat /\ DOMAIN at = 1..(n + 1) /\ at[n + 1] = sent
      /\ \A k \in 1..n : Adds(Q[k], at[k], at[k + 1])
      /\ \A k \in 1..(n + 1) : Boundary(at[k])
      /\ \A k \in 1..n : Q[k] = Finish =>
           /\ at[k] = sent /\ finished
           /\ \A m \in (k + 1)..n : Q[m] = DoneMarker
  BY DEF Slices
<1>2. Q2 \in Seq(Payloads) /\ Len(Q2) = n + 1 /\ Q2[n + 1] = x /\ \A k \in 1..n : Q2[k] = Q[k]
  BY <1>1
<1>3. Parts' = Parts /\ V3Ids' = V3Ids /\ Payloads' = Payloads
      /\ \A part : ReplyWire(part)' = ReplyWire(part) /\ V3Index(part)' = V3Index(part)
  BY SameReply
<1>4. \A f : Boundary(f) => Boundary(f)'
  BY <1>3 DEF Boundary, Splits
<1>5. \A y, f, g : Adds(y, f, g) => Adds(y, f, g)'
  <2>1. \A part, s : Delta(part, s)' = Delta(part, s) BY <1>3 DEF Delta
  <2> QED BY <1>3, <2>1 DEF Adds
<1>6. PICK s2 : s2 = sent' OBVIOUS
<1> DEFINE at2 == [k \in 1..(n + 2) |-> IF k <= n + 1 THEN at[k] ELSE s2]
<1>7. /\ DOMAIN at2 = 1..(Len(Q2) + 1) /\ at2[n + 2] = s2
      /\ \A k \in 1..(n + 1) : at2[k] = at[k]
  <2>1. n + 2 \in 1..(n + 2) /\ ~(n + 2 <= n + 1) BY <1>1
  <2>2. \A k \in 1..(n + 1) : k \in 1..(n + 2) /\ k <= n + 1 BY <1>1
  <2>3. Len(Q2) + 1 = n + 2 BY <1>1, <1>2
  <2> QED BY <2>1, <2>2, <2>3
<1> HIDE DEF Q2, at2
<1>8. \A k \in 1..(n + 2) : Boundary(at2[k])'
  <2> TAKE k \in 1..(n + 2)
  <2>1. CASE k \in 1..(n + 1) BY <1>1, <1>4, <1>7, <2>1
  <2>2. CASE k = n + 2
    <3>1. at2[k] = s2 /\ Boundary(s2)' BY <1>6, <1>7, <2>2 DEF Boundary, Splits
    <3> QED BY <3>1
  <2> QED BY <1>1, <2>1, <2>2
<1>9. \A k \in 1..(n + 1) : Adds(Q2[k], at2[k], at2[k + 1])'
  <2> TAKE k \in 1..(n + 1)
  <2>1. CASE k \in 1..n
    <3>1. k + 1 \in 1..(n + 1) BY <1>1, <2>1
    <3>2. Q2[k] = Q[k] /\ at2[k] = at[k] /\ at2[k + 1] = at[k + 1] BY <1>2, <1>7, <2>1, <3>1
    <3> QED BY <1>1, <1>5, <2>1, <3>2
  <2>2. CASE k = n + 1
    <3>1. Q2[k] = x /\ at2[k] = sent /\ at2[k + 1] = s2
      <4>1. (n + 1) + 1 = n + 2 /\ n + 1 \in 1..(n + 1) BY <1>1
      <4> QED BY <1>1, <1>2, <1>7, <2>2, <4>1
    <3> QED BY <1>5, <1>6, <3>1
  <2> QED BY <1>1, <2>1, <2>2
<1>10. ASSUME NEW k \in 1..(n + 1), Q2[k] = Finish
       PROVE  /\ at2[k] = s2 /\ finished'
              /\ \A m \in (k + 1)..(n + 1) : Q2[m] = DoneMarker
  <2>1. CASE k \in 1..n
    <3>1. Q[k] = Finish /\ at2[k] = at[k] BY <1>2, <1>7, <1>10, <2>1
    <3>2. at[k] = sent /\ finished /\ \A m \in (k + 1)..n : Q[m] = DoneMarker
      BY <1>1, <2>1, <3>1
    <3>3. x = DoneMarker BY <3>2
    <3>4. sent' = sent
      <4>1. \A part, s : x # Delta(part, s) BY <3>3, PayloadsDiffer
      <4> QED BY <4>1 DEF Adds
    <3>5. \A m \in (k + 1)..(n + 1) : m = n + 1 \/ (m \in (k + 1)..n /\ m \in 1..n)
      <4>1. n \in Nat /\ k \in 1..n BY <1>1, <2>1
      <4> HIDE DEF n
      <4> QED BY <4>1
    <3> QED BY <1>2, <1>6, <3>1, <3>2, <3>3, <3>4, <3>5
  <2>2. CASE k = n + 1
    <3>1. x = Finish /\ at2[k] = sent
      <4>1. n + 1 \in 1..(n + 1) BY <1>1
      <4> QED BY <1>1, <1>2, <1>7, <1>10, <2>2, <4>1
    <3>2. \A m \in (k + 1)..(n + 1) : FALSE BY <1>1, <2>2
    <3> QED BY <1>6, <3>1, <3>2
  <2> QED BY <1>1, <2>1, <2>2
<1>11. Len(Q2) + 1 = n + 2 BY <1>1, <1>2
<1>12. Slices(Q2, at2)'
  <2>1. Q2 \in Seq(Payloads') BY <1>2, <1>3
  <2>2. at2[Len(Q2) + 1] = s2 /\ DOMAIN at2 = 1..(Len(Q2) + 1) BY <1>7, <1>11
  <2>3. \A k \in 1..(Len(Q2) + 1) : Boundary(at2[k])' BY <1>8, <1>11
  <2>4. \A k \in 1..Len(Q2) : Adds(Q2[k], at2[k], at2[k + 1])' BY <1>2, <1>9
  <2>5. \A k \in 1..Len(Q2) : Q2[k] = Finish =>
          /\ at2[k] = s2 /\ finished'
          /\ \A m \in (k + 1)..Len(Q2) : Q2[m] = DoneMarker
    BY <1>2, <1>10
  <2> QED BY <1>6, <2>1, <2>2, <2>3, <2>4, <2>5 DEF Slices, Finish, Body, DoneMarker
<1>13. at2[1] = at[1]
  <2>1. 1 \in 1..(n + 1) BY <1>1
  <2> QED BY <1>7, <2>1
<1> QED BY <1>12, <1>13 DEF Q2

\* The data to come are from the same places when nothing is sent or taken.
LEMMA SlicesSame ==
  ASSUME UNCHANGED <<protocol, reply, sent, finished, cut>>, NEW Q, NEW at, Slices(Q, at)
  PROVE  Slices(Q, at)'
<1>1. Parts' = Parts /\ V3Ids' = V3Ids /\ Payloads' = Payloads
      /\ \A part : ReplyWire(part)' = ReplyWire(part) /\ V3Index(part)' = V3Index(part)
  BY SameReply
<1>2. \A f : Boundary(f) => Boundary(f)'
  BY <1>1 DEF Boundary, Splits
<1>3. \A y, f, g : Adds(y, f, g) => Adds(y, f, g)'
  <2>1. \A part, s : Delta(part, s)' = Delta(part, s) BY <1>1 DEF Delta
  <2> QED BY <1>1, <2>1 DEF Adds
<1> QED BY <1>1, <1>2, <1>3 DEF Slices

\* The first of the data is taken.
LEMMA SlicesLess ==
  ASSUME UNCHANGED <<protocol, reply, sent, finished, cut>>, NEW Q, NEW at, Slices(Q, at), Q # <<>>
  PROVE  \E at2 : Slices(Tail(Q), at2)' /\ at2[1] = at[2]
<1> DEFINE n == Len(Q)
           Q2 == Tail(Q)
           at2 == [k \in 1..n |-> at[k + 1]]
<1>1. /\ Q \in Seq(Payloads) /\ n \in Nat /\ DOMAIN at = 1..(n + 1) /\ at[n + 1] = sent
      /\ \A k \in 1..n : Adds(Q[k], at[k], at[k + 1])
      /\ \A k \in 1..(n + 1) : Boundary(at[k])
      /\ \A k \in 1..n : Q[k] = Finish =>
           /\ at[k] = sent /\ finished
           /\ \A m \in (k + 1)..n : Q[m] = DoneMarker
  BY DEF Slices
<1>2. /\ n > 0
      /\ Q2 \in Seq(Payloads) /\ Len(Q2) = n - 1 /\ \A k \in 1..(n - 1) : Q2[k] = Q[k + 1]
  <2> DEFINE X == Payloads
  <2>1. Q \in Seq(X) /\ Q # <<>> BY <1>1
  <2> HIDE DEF X
  <2>2. Q2 \in Seq(X) /\ Len(Q2) = n - 1 BY <2>1, HeadTailProperties
  <2>3. \A k \in 1..(n - 1) : Q2[k] = Q[k + 1] BY <2>1
  <2> QED BY <1>1, <2>1, <2>2, <2>3, EmptySeq DEF X
<1>3. DOMAIN at2 = 1..n /\ \A k \in 1..n : at2[k] = at[k + 1] OBVIOUS
<1> HIDE DEF Q2, at2, n
<1>4. \A k \in 1..(n - 1) : k \in 1..n /\ k + 1 \in 1..n /\ k + 1 \in 1..(n + 1)
  BY <1>1, <1>2
<1>5. (n - 1) + 1 = n /\ n \in 1..n /\ 1 \in 1..n BY <1>1, <1>2
<1>6. Slices(Q2, at2)
  <2>1. \A k \in 1..n : Boundary(at2[k])
    <3>1. \A k \in 1..n : k + 1 \in 1..(n + 1) BY <1>1
    <3> QED BY <1>1, <1>3, <3>1
  <2>2. \A k \in 1..(n - 1) : Adds(Q2[k], at2[k], at2[k + 1]) BY <1>1, <1>2, <1>3, <1>4
  <2>3. at2[n] = sent BY <1>1, <1>3, <1>5
  <2>4. ASSUME NEW k \in 1..(n - 1), Q2[k] = Finish
        PROVE  /\ at2[k] = sent /\ finished
               /\ \A m \in (k + 1)..(n - 1) : Q2[m] = DoneMarker
    <3>1. Q[k + 1] = Finish /\ at2[k] = at[k + 1] BY <1>2, <1>3, <1>4, <2>4
    <3>2. \A m \in (k + 1)..(n - 1) : m \in 1..(n - 1) /\ m + 1 \in ((k + 1) + 1)..n
      BY <1>1
    <3> QED BY <1>1, <1>2, <1>4, <3>1, <3>2
  <2> QED BY <1>2, <1>3, <1>5, <2>1, <2>2, <2>3, <2>4 DEF Slices
<1>7. PICK c, d : c = Q2 /\ d = at2 OBVIOUS
<1>8. Slices(c, d)' BY <1>6, <1>7, SlicesSame
<1>9. 1 + 1 = 2 /\ at2[1] = at[1 + 1] BY <1>3, <1>5
<1>10. Slices(Tail(Q), d)' BY <1>7, <1>8 DEF Q2
<1> QED BY <1>7, <1>9, <1>10

-----------------------------------------------------------------------------
(* The steps of the queue                                                  *)

\* Whatever the server and the network do adds to the queue at most.
LEMMA ServerStep ==
  ASSUME Setting, NEW Q, NEW at, Queue(Q, at),
         SendDelta \/ SendJunk \/ SendFinish \/ CloseConnection \/ BreakConnection
  PROVE  \E Q2, at2 : Queue(Q2, at2)' /\ at2[1] = at[1] /\ (Settled(Q) => Settled(Q2)')
<1>1. /\ UNCHANGED <<protocol, reply, lineEnd, buffer>> /\ connection = "open"
      /\ (cut => cut') /\ (finished => finished')
  <2>1. CASE SendDelta BY <2>1 DEF SendDelta, Sends
  <2>2. CASE SendJunk BY <2>2 DEF SendJunk, Sends
  <2>3. CASE SendFinish BY <2>3 DEF SendFinish, Sends
  <2>4. CASE CloseConnection BY <2>4 DEF CloseConnection
  <2>5. CASE BreakConnection BY <2>5 DEF BreakConnection, serverVars
  <2> QED BY <2>1, <2>2, <2>3, <2>4, <2>5
<1>2. /\ WireOK /\ Carried(Q) /\ Slices(Q, at)
  BY DEF Queue
<1>3. Payloads' = Payloads /\ Parts' = Parts /\ V3Ids' = V3Ids
      /\ \A part : ReplyWire(part)' = ReplyWire(part) /\ V3Index(part)' = V3Index(part)
  BY <1>1, SameReply
<1>4. LineEnd(lineEnd) BY ReplyAssumptions DEF Setting, LineEnd
<1>5. Boundary(sent)
  <2>1. Len(Q) + 1 \in 1..(Len(Q) + 1) BY <1>2 DEF Slices
  <2> QED BY <1>2, <2>1 DEF Slices
<1>6. \A x : finished => (Settled(Q) => (x = DoneMarker => (finished' => Settled(Append(Q, x))')))
  <2> SUFFICES ASSUME NEW x, Settled(Q), x = DoneMarker, finished'
               PROVE Settled(Append(Q, x))'
    OBVIOUS
  <2>1. Q \in Seq(Payloads) BY <1>2 DEF Slices
  <2>2. \A n \in 1..Len(Append(Q, x)) : Append(Q, x)[n] = DoneMarker
    BY <2>1 DEF Settled
  <2> QED BY <2>2 DEF Settled, DoneMarker
<1>7. ASSUME NEW x \in Payloads, Adds(x, sent, sent'), Boundary(sent)',
             x = Finish => finished' /\ sent' = sent, finished => x = DoneMarker,
             WireOK' /\ Carried(Append(Q, x))'
      PROVE  \E Q2, at2 : Queue(Q2, at2)' /\ at2[1] = at[1] /\ (Settled(Q) => Settled(Q2)')
  <2>1. PICK at2 : Slices(Append(Q, x), at2)' /\ at2[1] = at[1]
    BY <1>1, <1>2, <1>7, SlicesMore
  <2>2. Settled(Q) => Settled(Append(Q, x))'
    <3>1. Settled(Q) => finished BY DEF Settled
    <3> QED BY <1>1, <1>6, <1>7, <3>1
  <2>3. Queue(Append(Q, x), at2)' BY <1>7, <2>1 DEF Queue
  <2> QED BY <2>1, <2>2, <2>3
<1>8. CASE SendDelta
  <2>1. PICK part \in Parts, n \in 1..MaxDelta :
          LET w == ReplyWire(part)
              to == sent[part] + n
          IN
          /\ to <= Len(w)
          /\ part \in V3Ids => \A id \in V3Ids : V3Index(id) < V3Index(part) => sent[id] > 0
          /\ Sends(Event(Delta(part, SubSeq(w, sent[part] + 1, to))))
          /\ sent' = [sent EXCEPT ![part] = to]
          /\ cut' = (cut \/ (protocol = "v4" /\ w[to] = "<" /\ to < Len(w) /\ w[to + 1] = "/param"))
    BY <1>8 DEF SendDelta
  <2> DEFINE w == ReplyWire(part)
             to == sent[part] + n
  <2>20. PICK x : x = Delta(part, SubSeq(w, sent[part] + 1, to)) OBVIOUS
  <2>2. /\ to <= Len(w)
        /\ part \in V3Ids => \A id \in V3Ids : V3Index(id) < V3Index(part) => sent[id] > 0
        /\ Sends(Event(x))
        /\ sent' = [sent EXCEPT ![part] = to]
        /\ cut' = (cut \/ (protocol = "v4" /\ w[to] = "<" /\ to < Len(w) /\ w[to + 1] = "/param"))
    BY <2>1, <2>20
  <2>3. ~finished /\ finished' = finished BY <1>8 DEF SendDelta
  <2>4. sent \in [Parts -> Nat] /\ n \in Nat /\ n >= 1 /\ to \in Nat /\ sent[part] < to
    <3>1. sent \in [Parts -> Nat] BY <1>5 DEF Boundary
    <3>2. MaxDelta \in Nat BY BoundAssumptions
    <3> QED BY <3>1, <3>2
  <2>5. x \in Payloads BY <2>4, <2>20 DEF Payloads
  <2> HIDE DEF to
  <2>6. /\ sent' \in [Parts -> Nat] /\ sent'[part] = to
        /\ \A other \in Parts \ {part} : sent'[other] = sent[other]
    BY <2>2, <2>4
  <2>7. Adds(x, sent, sent') BY <2>4, <2>6, <2>20 DEF Adds
  <2>8. Boundary(sent)'
    <3>1. \A other \in Parts : sent'[other] <= Len(ReplyWire(other))
      BY <1>5, <2>2, <2>6 DEF Boundary
    <3>2. ASSUME NEW id1 \in V3Ids, NEW id2 \in V3Ids, V3Index(id1) < V3Index(id2), sent'[id2] > 0
          PROVE  sent'[id1] > 0
      <4>0. id1 \in Parts /\ id2 \in Parts BY DEF Parts
      <4>1. CASE id1 = part BY <2>4, <2>6, <4>1
      <4>2. CASE id1 # part /\ id2 = part
        BY <2>2, <2>6, <3>2, <4>0, <4>2
      <4>3. CASE id1 # part /\ id2 # part
        BY <1>5, <2>6, <3>2, <4>0, <4>3 DEF Boundary
      <4> QED BY <4>1, <4>2, <4>3
    <3>3. ASSUME ~cut', NEW ch \in Channels, protocol = "v4", 0 < sent'[ch],
                 sent'[ch] < Len(ReplyWire(ch)), ReplyWire(ch)[sent'[ch]] = "<",
                 ReplyWire(ch)[sent'[ch] + 1] = "/param"
          PROVE  FALSE
      <4>0. ch \in Parts BY DEF Parts
      <4>1. CASE ch = part BY <2>2, <2>6, <3>3, <4>1
      <4>2. CASE ch # part
        <5>1. sent'[ch] = sent[ch] /\ ~cut BY <2>2, <2>6, <3>3, <4>0, <4>2
        <5> QED BY <1>5, <3>3, <5>1 DEF Boundary, Splits
      <4> QED BY <4>1, <4>2
    <3> QED BY <1>1, <1>3, <2>6, <3>1, <3>2, <3>3 DEF Boundary, Splits
  <2>9. x # Finish BY <2>20, PayloadsDiffer
  <2>10. WireOK' /\ Carried(Append(Q, x))'
    BY <1>2, <1>3, <1>4, <2>2, <2>5, EventSent DEF Sends
  <2> QED BY <1>7, <2>3, <2>5, <2>7, <2>8, <2>9, <2>10
<1>9. ASSUME sent' = sent, cut' = cut PROVE Boundary(sent)'
  BY <1>1, <1>3, <1>5, <1>9 DEF Boundary, Splits
<1>10. ASSUME NEW x \in {Finish, Junk, DoneMarker}, sent' = sent
       PROVE  x \in Payloads /\ Adds(x, sent, sent')
  BY <1>10 DEF Payloads, Adds
<1>11. CASE SendJunk
  <2>1. /\ wire = <<>> /\ buffer = <<>> /\ ~finished
        /\ Sends(<<Comment>> \o lineEnd \o Event(Junk)) /\ UNCHANGED <<sent, finished, cut>>
    BY <1>11 DEF SendJunk
  <2>2. Q = <<>> BY <1>2, <2>1, NothingCarried
  <2>3. WireOK' /\ Carried(<<Junk>>)'
    BY <1>3, <1>4, <2>1, JunkSent DEF Sends
  <2>4. Append(Q, Junk) = <<Junk>> BY <2>2
  <2>5. Carried(Append(Q, Junk))' BY <2>3, <2>4 DEF Carried, Junk, Body
  <2> QED BY <1>7, <1>9, <1>10, <2>1, <2>3, <2>5, PayloadsDiffer
<1>12. CASE SendFinish
  <2>1. ~finished /\ finished' /\ Sends(Event(Finish)) /\ UNCHANGED <<sent, cut>>
    BY <1>12 DEF SendFinish
  <2>2. Finish \in Payloads BY DEF Payloads
  <2>3. WireOK' /\ Carried(Append(Q, Finish))'
    BY <1>2, <1>3, <1>4, <2>1, <2>2, EventSent DEF Sends
  <2> QED BY <1>7, <1>9, <1>10, <2>1, <2>3
<1>13. CASE BreakConnection \/ (CloseConnection /\ wire' = wire)
  <2>1. UNCHANGED <<wire, sent, cut>> /\ connection' # "open" /\ (finished' = finished \/ (~finished /\ finished'))
    BY <1>13 DEF BreakConnection, CloseConnection, serverVars
  <2>2. WireOK' BY <1>1, <1>2, <1>3, <2>1 DEF WireOK, WireSymbols
  <2>3. Carried(Q)'
    <3>1. PICK pos : Carries(Payloads, buffer \o wire, Q, pos) BY <1>2 DEF Carried
    <3> QED BY <1>1, <1>3, <2>1, <3>1 DEF Carried
  <2>4. Slices(Q, at)'
    <3>1. \A f : Boundary(f) => Boundary(f)' BY <1>1, <1>3, <2>1 DEF Boundary, Splits
    <3>2. \A y, f, g : Adds(y, f, g) => Adds(y, f, g)'
      <4>1. \A part, s : Delta(part, s)' = Delta(part, s) BY <1>3 DEF Delta
      <4> QED BY <1>3, <4>1 DEF Adds
    <3> QED BY <1>1, <1>2, <1>3, <2>1, <3>1, <3>2 DEF Slices
  <2>5. Settled(Q) => Settled(Q)' BY <1>1 DEF Settled
  <2> QED BY <2>2, <2>3, <2>4, <2>5 DEF Queue
<1>14. CASE CloseConnection /\ wire' # wire
  <2>1. PICK x \in {DoneMarker, Finish} :
          /\ wire' = wire \o <<Data, x>> /\ UNCHANGED <<sent, cut>> /\ connection' = "closed"
          /\ x = DoneMarker => finished' = finished
          /\ x = Finish => ~finished /\ finished'
    <3>1. CASE wire' = wire \o <<Data, DoneMarker>> /\ UNCHANGED finished
      BY <1>14, <3>1, PayloadsDiffer DEF CloseConnection
    <3>2. CASE wire' = wire \o <<Data, Finish>> /\ ~finished /\ finished' = TRUE
      BY <1>14, <3>2, PayloadsDiffer DEF CloseConnection
    <3> QED BY <1>14, <3>1, <3>2 DEF CloseConnection
  <2>2. x \in Payloads BY DEF Payloads
  <2>3. WireOK' /\ Carried(Append(Q, x))'
    BY <1>1, <1>2, <1>3, <1>4, <2>1, <2>2, LineSent
  <2> QED BY <1>7, <1>9, <1>10, <2>1, <2>3, PayloadsDiffer
<1> QED BY <1>8, <1>11, <1>12, <1>13, <1>14

\* Receiving a chunk leaves the queue alone.
LEMMA ReceiveStep ==
  ASSUME NEW Q, NEW at, Queue(Q, at), Receive
  PROVE  Queue(Q, at)' /\ (Settled(Q) => Settled(Q)')
<1>1. ReceiveChunk /\ UNCHANGED serverVars BY DEF Receive
<1>2. Payloads' = Payloads BY <1>1, SameReply DEF serverVars
<1>3. WireOK /\ Carried(Q) /\ Slices(Q, at) BY DEF Queue
<1>4. WireOK' /\ Carried(Q)' BY <1>1, <1>2, <1>3, ReceiveKeeps
<1>5. Slices(Q, at)' BY <1>1, <1>3, SlicesSame DEF serverVars
<1> QED BY <1>1, <1>4, <1>5 DEF Queue, Settled, serverVars

\* What is consumed is the first of the data, or nothing.
LEMMA ConsumeStep ==
  ASSUME NEW Q, NEW at, Queue(Q, at), NEW payload, NextEvent(payload) \/ LastEvent(payload),
         UNCHANGED serverVars
  PROVE  \/ payload = <<>> /\ Queue(Q, at)' /\ (Settled(Q) => Settled(Q)')
         \/ /\ Q # <<>> /\ payload = <<Q[1]>>
            /\ \E at2 : Queue(Tail(Q), at2)' /\ at2[1] = at[2]
            /\ Settled(Q) => Settled(Tail(Q))'
            /\ finished /\ (\A m \in 2..Len(Q) : Q[m] = DoneMarker) => Settled(Tail(Q))'
<1>2. Payloads' = Payloads BY SameReply DEF serverVars
<1>3. WireOK /\ Carried(Q) /\ Slices(Q, at) BY DEF Queue
<1>4. /\ WireOK'
      /\ \/ payload = <<>> /\ Carried(Q)'
         \/ Q # <<>> /\ payload = <<Q[1]>> /\ Carried(Tail(Q))'
  BY <1>2, <1>3, ConsumeTakes
<1>5. CASE payload = <<>> /\ Carried(Q)'
  <2>1. Slices(Q, at)' BY <1>3, SlicesSame DEF serverVars
  <2> QED BY <1>4, <1>5, <2>1 DEF Queue, Settled, serverVars
<1>6. CASE Q # <<>> /\ payload = <<Q[1]>> /\ Carried(Tail(Q))'
  <2>1. PICK at2 : Slices(Tail(Q), at2)' /\ at2[1] = at[2]
    BY <1>3, <1>6, SlicesLess DEF serverVars
  <2>2. Queue(Tail(Q), at2)' BY <1>4, <1>6, <2>1 DEF Queue
  <2>3. finished /\ (\A m \in 2..Len(Q) : Q[m] = DoneMarker) => Settled(Tail(Q))'
    <3>1. Q \in Seq(Payloads) BY <1>3 DEF Slices
    <3>2. \A k \in 1..Len(Tail(Q)) : k + 1 \in 2..Len(Q) /\ Tail(Q)[k] = Q[k + 1] BY <1>6, <3>1
    <3> QED BY <3>2 DEF Settled, serverVars, DoneMarker
  <2>4. Settled(Q) => finished /\ (\A m \in 2..Len(Q) : Q[m] = DoneMarker)
    BY DEF Settled
  <2> QED BY <1>6, <2>1, <2>2, <2>3, <2>4
<1> QED BY <1>4, <1>5, <1>6

-----------------------------------------------------------------------------
(* What is ahead on the wire                                               *)

\* Flattening sequences begins with the first of them.
LEMMA FlattenFirst ==
  ASSUME NEW Q, NEW a \in Seq(Seq(Q)), NEW b \in Seq(Seq(Q)), Len(a) > 0, Len(b) = Len(a) - 1,
         \A i \in 1..Len(b) : b[i] = a[i + 1]
  PROVE  FlattenSeq(a) = a[1] \o FlattenSeq(b) /\ FlattenSeq(b) \in Seq(Q) /\ a[1] \in Seq(Q)
<1> DEFINE X == Seq(Q)
           c == SubSeq(a, 2, Len(a))
<1>1. a \in Seq(X) /\ b \in Seq(X) /\ 1 \in 1..Len(a) /\ Len(a) \in Nat OBVIOUS
<1>2. a[1] \in X /\ SubSeq(a, 1, Len(a)) = a BY <1>1, SubSeqFull
<1>3. 1 + 1 = 2 OBVIOUS
<1>4. FlattenSeq(SubSeq(a, 1, Len(a))) = a[1] \o FlattenSeq(SubSeq(a, 1 + 1, Len(a)))
      /\ FlattenSeq(SubSeq(a, 1 + 1, Len(a))) \in Seq(Q)
  BY <1>1, FlattenFrom
<1> HIDE DEF X
<1>5. c \in Seq(X) /\ Len(c) = Len(a) - 1 /\ \A i \in 1..(Len(a) - 1) : c[i] = a[i + 1]
  <2>1. 1 \in 0..Len(a) BY <1>1
  <2>2. /\ SubSeq(a, 1 + 1, Len(a)) \in Seq(X) /\ Len(SubSeq(a, 1 + 1, Len(a))) = Len(a) - 1
        /\ \A i \in 1..(Len(a) - 1) : SubSeq(a, 1 + 1, Len(a))[i] = a[1 + i]
    BY <1>1, <2>1, CutInTwo
  <2>3. \A i \in 1..(Len(a) - 1) : 1 + i = i + 1 OBVIOUS
  <2> QED BY <1>3, <2>2, <2>3
<1> HIDE DEF c
<1>6. b = c
  <2>1. Len(b) = Len(c) /\ \A i \in 1..Len(b) : b[i] = c[i] BY <1>5
  <2>2. b \in Seq(X) /\ c \in Seq(X) BY <1>1, <1>5
  <2> QED BY <2>1, <2>2, SeqEqual
<1> QED BY <1>2, <1>3, <1>4, <1>6 DEF c, X

\* The pieces of a value before its entities.
Raw == Piece \ {"&lt;"}

\* The rests of tags are pieces and differ from one another and from text.
LEMMA Pieces ==
  /\ {"<", "x", "&lt;", "open", "close", "/call", "/param"} \subseteq Piece
  /\ CallTags \subseteq Piece /\ ParamTags \subseteq Piece /\ Rests \subseteq Piece
  /\ {"open", "close", "/call", "/param"} \subseteq Rests /\ "<" \notin Rests
  /\ CallTags \subseteq Rests /\ ParamTags \subseteq Rests
  /\ \A x \in CallTags \cup ParamTags : x \notin {"<", "open", "close", "/call", "/param", None}
  /\ CallTags \cap ParamTags = {} /\ None \notin Rests /\ None \notin Channels
  /\ V4Param = [key : ParamTags, value : Seq(Raw)]
  BY DsmlAssumptions DEF Piece, Rests, OtherRests, Ordinary, V4Param, Raw

\* An escaped value has no "<", and resolving its entities gives the value back.
LEMMA Escaped ==
  ASSUME NEW v \in Seq(Raw)
  PROVE  /\ Escape(v) \in Seq(Piece) /\ Len(Escape(v)) = Len(v)
         /\ \A i \in 1..Len(v) : Escape(v)[i] # "<"
         /\ \A i \in 1..Len(v) : Escape(v)[i] = IF v[i] = "<" THEN "&lt;" ELSE v[i]
         /\ Unescape(Escape(v)) = v
<1> DEFINE e == Escape(v)
<1>1. v = [i \in 1..Len(v) |-> v[i]] /\ Len(v) \in Nat /\ \A i \in 1..Len(v) : v[i] \in Raw
  OBVIOUS
<1>2. e = [i \in 1..Len(v) |-> IF v[i] = "<" THEN "&lt;" ELSE v[i]] BY <1>1 DEF Escape
<1>3. \A i \in 1..Len(v) : (IF v[i] = "<" THEN "&lt;" ELSE v[i]) \in Piece
  BY <1>1, Pieces DEF Raw
<1>4. e \in Seq(Piece) /\ Len(e) = Len(v)
  <2> DEFINE n == Len(v)
  <2>1. n \in Nat /\ e \in [1..n -> Piece] BY <1>1, <1>2, <1>3
  <2> HIDE DEF n, e
  <2>2. e \in Seq(Piece) /\ Len(e) = n BY <2>1
  <2> QED BY <2>2 DEF n
<1>5. \A i \in 1..Len(v) : e[i] = IF v[i] = "<" THEN "&lt;" ELSE v[i] BY <1>2
<1>6. \A i \in 1..Len(v) : e[i] # "<" BY <1>5
<1> HIDE DEF e
<1>7. Unescape(e) = [i \in 1..Len(v) |-> IF e[i] = "&lt;" THEN "<" ELSE e[i]]
  BY <1>4 DEF Unescape
<1>8. \A i \in 1..Len(v) : (IF e[i] = "&lt;" THEN "<" ELSE e[i]) = v[i]
  <2> TAKE i \in 1..Len(v)
  <2>1. v[i] # "&lt;" BY <1>1 DEF Raw
  <2> QED BY <1>5, <2>1
<1>9. Unescape(e) = [i \in 1..Len(v) |-> v[i]] BY <1>7, <1>8
<1> QED BY <1>1, <1>4, <1>5, <1>6, <1>9 DEF e

\* A sequence of two.
LEMMA Two ==
  ASSUME NEW S, NEW x \in S, NEW y \in S
  PROVE  <<x, y>> \in Seq(S) /\ Len(<<x, y>>) = 2 /\ <<x, y>>[1] = x /\ <<x, y>>[2] = y
OBVIOUS

\* What is ahead in a text, and the calls and parameters it is made of.
WireOf(r) == FlattenSeq([i \in DOMAIN r.sections |-> SectionWire(r.sections[i])]) \o r.rest
CallsWire(calls) == FlattenSeq([i \in DOMAIN calls |-> CallWire(calls[i])])
ParamsWire(params) == FlattenSeq([i \in DOMAIN params |-> ParamWire(params[i])])

\* What is ahead in a block, in a call, in a value.
BlockWire(calls, r) == CallsWire(calls) \o (<<"<", "close">> \o WireOf(r))
CallRest(params, calls, r) == ParamsWire(params) \o (<<"<", "/call">> \o BlockWire(calls, r))
ValueRest(v, params, calls, r) == Escape(v) \o (<<"<", "/param">> \o CallRest(params, calls, r))

\* A parameter on the wire is a sequence of pieces.
LEMMA ParamWireTyped ==
  ASSUME NEW p \in V4Param
  PROVE  ParamWire(p) \in Seq(Piece)
<1>1. p.key \in Piece /\ "<" \in Piece /\ "/param" \in Piece /\ p.value \in Seq(Raw) BY Pieces
<1> DEFINE a == <<"<", p.key>>
           e == Escape(p.value)
           z == <<"<", "/param">>
<1>2. a \in Seq(Piece) /\ e \in Seq(Piece) /\ z \in Seq(Piece) BY <1>1, Escaped, Two
<1> HIDE DEF a, e, z
<1>3. a \o e \o z \in Seq(Piece) BY <1>2
<1> QED BY <1>3 DEF ParamWire, a, e, z

\* And so are parameters,
LEMMA ParamsWireTyped ==
  ASSUME NEW params \in Seq(V4Param)
  PROVE  /\ [i \in DOMAIN params |-> ParamWire(params[i])] \in Seq(Seq(Piece))
         /\ ParamsWire(params) \in Seq(Piece)
<1> DEFINE a == [i \in DOMAIN params |-> ParamWire(params[i])]
           P == V4Param
<1>1. DOMAIN params = 1..Len(params) /\ Len(params) \in Nat /\ \A i \in 1..Len(params) : params[i] \in P
  <2>1. params \in Seq(P) OBVIOUS
  <2> HIDE DEF P
  <2> QED BY <2>1
<1>2. \A i \in 1..Len(params) : ParamWire(params[i]) \in Seq(Piece) BY <1>1, ParamWireTyped
<1>3. a \in Seq(Seq(Piece)) BY <1>1, <1>2
<1>4. <<>> \in Seq(Seq(Piece)) OBVIOUS
<1> HIDE DEF a
<1>5. FlattenSeq(a) \in Seq(Piece) BY <1>3, <1>4, FlattenConcat
<1> QED BY <1>3, <1>5 DEF a, ParamsWire

\* a call,
LEMMA CallWireTyped ==
  ASSUME NEW c \in V4Call
  PROVE  CallWire(c) \in Seq(Piece)
<1>1. c.id \in Piece /\ "<" \in Piece /\ "/call" \in Piece /\ c.params \in Seq(V4Param)
  BY Pieces DEF V4Call
<1> DEFINE a == <<"<", c.id>>
           e == ParamsWire(c.params)
           z == <<"<", "/call">>
<1>2. a \in Seq(Piece) /\ e \in Seq(Piece) /\ z \in Seq(Piece) BY <1>1, ParamsWireTyped, Two
<1> HIDE DEF a, e, z
<1>3. a \o e \o z \in Seq(Piece) BY <1>2
<1> QED BY <1>3 DEF CallWire, a, e, z, ParamsWire

\* calls,
LEMMA CallsWireTyped ==
  ASSUME NEW calls \in Seq(V4Call)
  PROVE  /\ [i \in DOMAIN calls |-> CallWire(calls[i])] \in Seq(Seq(Piece))
         /\ CallsWire(calls) \in Seq(Piece)
<1> DEFINE a == [i \in DOMAIN calls |-> CallWire(calls[i])]
           P == V4Call
<1>1. DOMAIN calls = 1..Len(calls) /\ Len(calls) \in Nat /\ \A i \in 1..Len(calls) : calls[i] \in P
  <2>1. calls \in Seq(P) OBVIOUS
  <2> HIDE DEF P
  <2> QED BY <2>1
<1>2. \A i \in 1..Len(calls) : CallWire(calls[i]) \in Seq(Piece) BY <1>1, CallWireTyped
<1>3. a \in Seq(Seq(Piece)) BY <1>1, <1>2
<1> HIDE DEF a
<1>5. FlattenSeq(a) \in Seq(Piece) BY <1>3, FlattenConcat
<1> QED BY <1>3, <1>5 DEF a, CallsWire

\* a section with its block,
LEMMA SectionWireTyped ==
  ASSUME NEW s \in Section
  PROVE  SectionWire(s) \in Seq(Piece)
<1>1. s.text \in Seq(Piece) /\ "<" \in Piece /\ "open" \in Piece /\ "close" \in Piece
      /\ s.calls \in Seq(V4Call)
  BY Pieces DEF Section, PlainText
<1> DEFINE a == <<"<", "open">>
           e == CallsWire(s.calls)
           z == <<"<", "close">>
           t == s.text
<1>2. t \in Seq(Piece) /\ a \in Seq(Piece) /\ e \in Seq(Piece) /\ z \in Seq(Piece)
  BY <1>1, CallsWireTyped, Two
<1> HIDE DEF a, e, z, t
<1>3. t \o a \o e \o z \in Seq(Piece) BY <1>2
<1> QED BY <1>3 DEF SectionWire, a, e, z, t, CallsWire

\* a text with its sections,
LEMMA WireOfTyped ==
  ASSUME NEW r \in V4Text
  PROVE  /\ [i \in DOMAIN r.sections |-> SectionWire(r.sections[i])] \in Seq(Seq(Piece))
         /\ r.rest \in Seq(Piece)
         /\ WireOf(r) \in Seq(Piece)
<1> DEFINE ss == r.sections
           a == [i \in DOMAIN ss |-> SectionWire(ss[i])]
           P == Section
           t == r.rest
<1>1. DOMAIN ss = 1..Len(ss) /\ Len(ss) \in Nat /\ \A i \in 1..Len(ss) : ss[i] \in P
  <2>1. ss \in Seq(P) BY DEF V4Text
  <2> HIDE DEF P, ss
  <2> QED BY <2>1
<1>2. \A i \in 1..Len(ss) : SectionWire(ss[i]) \in Seq(Piece) BY <1>1, SectionWireTyped
<1>3. a \in Seq(Seq(Piece)) BY <1>1, <1>2
<1>4. t \in Seq(Piece) BY DEF V4Text, PlainText
<1> HIDE DEF a, t
<1>5. FlattenSeq(a) \in Seq(Piece) BY <1>3, FlattenConcat
<1>6. FlattenSeq(a) \o t \in Seq(Piece) BY <1>4, <1>5
<1> QED BY <1>3, <1>4, <1>6 DEF a, t, WireOf

\* and all that can be ahead in a text, a block, a call or a value.
LEMMA RestsTyped ==
  ASSUME NEW r \in V4Text, NEW calls \in Seq(V4Call), NEW params \in Seq(V4Param), NEW v \in Seq(Raw)
  PROVE  /\ WireOf(r) \in Seq(Piece) /\ BlockWire(calls, r) \in Seq(Piece)
         /\ CallRest(params, calls, r) \in Seq(Piece)
         /\ ValueRest(v, params, calls, r) \in Seq(Piece)
<1> DEFINE w == WireOf(r)
           c == CallsWire(calls)
           p == ParamsWire(params)
           e == Escape(v)
           z1 == <<"<", "close">>
           z2 == <<"<", "/call">>
           z3 == <<"<", "/param">>
<1>1. /\ w \in Seq(Piece) /\ c \in Seq(Piece) /\ p \in Seq(Piece) /\ e \in Seq(Piece)
      /\ z1 \in Seq(Piece) /\ z2 \in Seq(Piece) /\ z3 \in Seq(Piece)
  BY WireOfTyped, CallsWireTyped, ParamsWireTyped, Escaped, Pieces, Two
<1> HIDE DEF w, c, p, e, z1, z2, z3
<1> DEFINE B == c \o (z1 \o w)
           C == p \o (z2 \o B)
<1>2. B \in Seq(Piece) BY <1>1
<1> HIDE DEF B
<1>3. C \in Seq(Piece) BY <1>1, <1>2
<1> HIDE DEF C
<1>4. e \o (z3 \o C) \in Seq(Piece) BY <1>1, <1>3
<1> QED BY <1>1, <1>2, <1>3, <1>4
     DEF BlockWire, CallRest, ValueRest, w, c, p, e, z1, z2, z3, B, C

\* Four sequences one after the other, from the left and from the right.
RegroupsOn(S) == \A a, b, c, d \in Seq(S) : ((a \o b) \o c) \o d = a \o (b \o (c \o d))

\* It makes no difference from which side they are put together.
LEMMA Regroup == \A S : RegroupsOn(S)
<1> SUFFICES ASSUME NEW S, NEW a \in Seq(S), NEW b \in Seq(S), NEW c \in Seq(S), NEW d \in Seq(S)
             PROVE  ((a \o b) \o c) \o d = a \o (b \o (c \o d))
  BY DEF RegroupsOn
<1>1. AssociativeOn(S) BY Associative
<1> DEFINE x == a \o b
           y == c \o d
<1>2. x \in Seq(S) /\ y \in Seq(S) OBVIOUS
<1> HIDE DEF x, y
<1>5. \A u, v \in Seq(S) : (x \o u) \o v = x \o (u \o v) BY <1>1, <1>2 DEF AssociativeOn
<1>3. (x \o c) \o d = x \o (c \o d) BY <1>5, Zenon
<1>4. (a \o b) \o y = a \o (b \o y) BY <1>1, <1>2 DEF AssociativeOn
<1> QED BY <1>3, <1>4 DEF x, y

\* The tail of a sequence that has one.
LEMMA TailTyped ==
  ASSUME NEW S, NEW s \in Seq(S), s # <<>>
  PROVE  /\ Tail(s) \in Seq(S) /\ Len(Tail(s)) = Len(s) - 1 /\ s[1] \in S /\ Len(s) \in Nat
         /\ Len(s) > 0 /\ DOMAIN Tail(s) = 1..(Len(s) - 1) /\ DOMAIN s = 1..Len(s)
         /\ \A i \in 1..(Len(s) - 1) : Tail(s)[i] = s[i + 1] /\ i + 1 \in 1..Len(s)
<1>1. Tail(s) \in Seq(S) /\ Len(Tail(s)) = Len(s) - 1 BY HeadTailProperties
<1>2. Len(s) \in Nat /\ Len(s) > 0 BY EmptySeq
<1>3. s[1] \in S BY <1>2
<1>4. \A i \in 1..(Len(s) - 1) : Tail(s)[i] = s[i + 1] /\ i + 1 \in 1..Len(s) BY <1>2
<1>5. DOMAIN Tail(s) = 1..(Len(s) - 1) /\ DOMAIN s = 1..Len(s) BY <1>1
<1> QED BY <1>1, <1>2, <1>3, <1>4, <1>5

\* A text without a block is what is ahead of it.
LEMMA LastText ==
  ASSUME NEW r \in V4Text, r.sections = <<>>
  PROVE  WireOf(r) = r.rest /\ r.rest \in PlainText
<1>1. [i \in DOMAIN r.sections |-> SectionWire(r.sections[i])] = <<>> OBVIOUS
<1>2. FlattenSeq(<<>>) = <<>> BY FlattenNothing
<1>3. r.rest \in PlainText /\ r.rest \in Seq(Piece) BY DEF V4Text, PlainText
<1>4. <<>> \o r.rest = r.rest BY <1>3, ConcatEmptySeq
<1> QED BY <1>1, <1>2, <1>3, <1>4 DEF WireOf

\* What follows the first section.
After(r) == [r EXCEPT !.sections = Tail(@)]

\* It is a text, and the first section is one.
LEMMA AfterTyped ==
  ASSUME NEW r \in V4Text, r.sections # <<>>
  PROVE  /\ After(r) \in V4Text /\ r.sections[1] \in Section
         /\ After(r).sections = Tail(r.sections) /\ After(r).rest = r.rest
         /\ r.sections[1].text \in PlainText /\ r.sections[1].calls \in Seq(V4Call)
<1>1. r.sections \in Seq(Section) BY DEF V4Text
<1>2. Tail(r.sections) \in Seq(Section) /\ r.sections[1] \in Section BY <1>1, TailTyped
<1>3. r = [sections |-> r.sections, rest |-> r.rest] /\ r.rest \in PlainText BY DEF V4Text
<1>4. After(r) = [sections |-> Tail(r.sections), rest |-> r.rest] BY <1>3 DEF After
<1>5. After(r) \in V4Text BY <1>2, <1>3, <1>4 DEF V4Text
<1> QED BY <1>2, <1>4, <1>5 DEF Section

\* What is ahead in a text is that of its first section, then a block.
LEMMA FirstSection ==
  ASSUME NEW r \in V4Text, r.sections # <<>>
  PROVE  WireOf(r) =
           r.sections[1].text \o (<<"<", "open">> \o BlockWire(r.sections[1].calls, After(r)))
<1> DEFINE ss == r.sections
           s == ss[1]
           a == [i \in DOMAIN ss |-> SectionWire(ss[i])]
           q == After(r)
           b == [i \in DOMAIN q.sections |-> SectionWire(q.sections[i])]
<1>1. ss \in Seq(Section) /\ ss # <<>> BY DEF V4Text
<1>2. q \in V4Text /\ q.sections = Tail(ss) /\ q.rest = r.rest /\ s \in Section BY AfterTyped
<1>3. /\ DOMAIN ss = 1..Len(ss) /\ Len(ss) \in Nat /\ Len(ss) > 0
      /\ DOMAIN q.sections = 1..(Len(ss) - 1)
      /\ \A i \in 1..(Len(ss) - 1) : q.sections[i] = ss[i + 1] /\ i + 1 \in 1..Len(ss)
  BY <1>1, <1>2, TailTyped
<1>4. a \in Seq(Seq(Piece)) /\ b \in Seq(Seq(Piece)) /\ r.rest \in Seq(Piece)
  BY <1>2, WireOfTyped
<1>5. /\ Len(a) = Len(ss) /\ Len(b) = Len(ss) - 1 /\ a[1] = SectionWire(s)
      /\ \A i \in 1..(Len(ss) - 1) : b[i] = a[i + 1]
  BY <1>3
<1>6. WireOf(r) = FlattenSeq(a) \o r.rest /\ WireOf(q) = FlattenSeq(b) \o r.rest
  BY <1>2 DEF WireOf
<1> DEFINE t == s.text
           o == <<"<", "open">>
           C == CallsWire(s.calls)
           z == <<"<", "close">>
           F == FlattenSeq(b)
           e == r.rest
<1>7. SectionWire(s) = ((t \o o) \o C) \o z BY DEF SectionWire, CallsWire
<1> HIDE DEF a, b, s, ss, q
<1>8. FlattenSeq(a) = a[1] \o FlattenSeq(b) /\ FlattenSeq(b) \in Seq(Piece)
  BY <1>3, <1>4, <1>5, FlattenFirst
<1>9. t \in Seq(Piece) /\ s.calls \in Seq(V4Call) BY <1>2 DEF Section, PlainText
<1>10. C \in Seq(Piece) BY <1>9, CallsWireTyped
<1>11. o \in Seq(Piece) /\ z \in Seq(Piece) BY Pieces, Two
<1>12. F \in Seq(Piece) /\ e \in Seq(Piece) BY <1>4, <1>8
<1>13. AssociativeOn(Piece) BY Associative
<1>14. BlockWire(s.calls, q) = C \o (z \o (F \o e)) BY <1>6 DEF BlockWire
<1>15. WireOf(r) = ((((t \o o) \o C) \o z) \o F) \o e BY <1>5, <1>6, <1>7, <1>8
<1> HIDE DEF t, o, C, z, F, e
<1>16. ((t \o o) \o C) \o z = t \o (o \o (C \o z)) 
  <2>1. RegroupsOn(Piece) BY Regroup
  <2>2. t \in Seq(Piece) /\ o \in Seq(Piece) /\ C \in Seq(Piece) /\ z \in Seq(Piece)
    BY <1>9, <1>10, <1>11
  <2>3. \A u, v \in Seq(Piece) : ((t \o o) \o u) \o v = t \o (o \o (u \o v))
    BY <2>1, <2>2 DEF RegroupsOn
  <2> QED BY <2>2, <2>3, Zenon
<1> DEFINE y == C \o z
           x == o \o y
<1>17. y \in Seq(Piece) BY <1>10, <1>11
<1>18. x \in Seq(Piece) /\ F \o e \in Seq(Piece) /\ z \o (F \o e) \in Seq(Piece)
  <2> HIDE DEF y
  <2>1. x \in Seq(Piece) BY <1>11, <1>17
  <2>2. F \o e \in Seq(Piece) BY <1>12
  <2> DEFINE f == F \o e
  <2> HIDE DEF f
  <2>3. z \o f \in Seq(Piece) BY <1>11, <2>2 DEF f
  <2> QED BY <2>1, <2>2, <2>3 DEF f
<1>19. ((t \o x) \o F) \o e = t \o (x \o (F \o e))
  <2> HIDE DEF x
  <2>1. RegroupsOn(Piece) BY Regroup
  <2>2. t \in Seq(Piece) /\ F \in Seq(Piece) /\ e \in Seq(Piece) /\ x \in Seq(Piece)
    BY <1>9, <1>12, <1>18
  <2>3. \A u, v \in Seq(Piece) : ((t \o x) \o u) \o v = t \o (x \o (u \o v))
    BY <2>1, <2>2 DEF RegroupsOn
  <2> QED BY <2>2, <2>3, Zenon
<1>20. x \o (F \o e) = o \o (y \o (F \o e))
  <2> HIDE DEF y
  <2> DEFINE f == F \o e
  <2> HIDE DEF f
  <2>1. f \in Seq(Piece) BY <1>18 DEF f
  <2>2. (o \o y) \o f = o \o (y \o f) BY <1>11, <1>13, <1>17, <2>1 DEF AssociativeOn
  <2> QED BY <2>2 DEF f
<1>21. y \o (F \o e) = C \o (z \o (F \o e))
  <2> DEFINE f == F \o e
  <2> HIDE DEF f
  <2>1. f \in Seq(Piece) BY <1>18 DEF f
  <2>2. (C \o z) \o f = C \o (z \o f) BY <1>10, <1>11, <1>13, <2>1 DEF AssociativeOn
  <2> QED BY <2>2 DEF f
<1>22. WireOf(r) = t \o (o \o (C \o (z \o (F \o e)))) BY <1>15, <1>16, <1>19, <1>20, <1>21
<1>23. WireOf(r) = s.text \o (<<"<", "open">> \o BlockWire(s.calls, q))
  BY <1>14, <1>22 DEF t, o
<1> QED BY <1>23 DEF s, ss, q

\* A block without further calls ends,
LEMMA BlockEnds ==
  ASSUME NEW r \in V4Text
  PROVE  BlockWire(<<>>, r) = <<"<", "close">> \o WireOf(r)
<1>1. CallsWire(<<>>) = <<>>
  <2>1. [i \in DOMAIN <<>> |-> CallWire(<<>>[i])] = <<>> OBVIOUS
  <2> QED BY <2>1, FlattenNothing DEF CallsWire
<1> DEFINE z == <<"<", "close">>
           w == WireOf(r)
<1>2. z \in Seq(Piece) /\ w \in Seq(Piece) BY Pieces, Two, WireOfTyped
<1> HIDE DEF z, w
<1>3. z \o w \in Seq(Piece) BY <1>2
<1>4. <<>> \o (z \o w) = z \o w BY <1>3, ConcatEmptySeq
<1> QED BY <1>1, <1>4 DEF BlockWire, z, w

\* as does a call without further parameters;
LEMMA CallEnds ==
  ASSUME NEW r \in V4Text, NEW calls \in Seq(V4Call)
  PROVE  CallRest(<<>>, calls, r) = <<"<", "/call">> \o BlockWire(calls, r)
<1>1. ParamsWire(<<>>) = <<>>
  <2>1. [i \in DOMAIN <<>> |-> ParamWire(<<>>[i])] = <<>> OBVIOUS
  <2> QED BY <2>1, FlattenNothing DEF ParamsWire
<1> DEFINE z == <<"<", "/call">>
           w == BlockWire(calls, r)
<1>0. <<>> \in Seq(V4Param) /\ <<>> \in Seq(Raw) OBVIOUS
<1>2. z \in Seq(Piece) /\ w \in Seq(Piece) BY <1>0, Pieces, Two, RestsTyped
<1> HIDE DEF z, w
<1>3. z \o w \in Seq(Piece) BY <1>2
<1>4. <<>> \o (z \o w) = z \o w BY <1>3, ConcatEmptySeq
<1> QED BY <1>1, <1>4 DEF CallRest, z, w

\* otherwise the next call is ahead,
LEMMA FirstCall ==
  ASSUME NEW r \in V4Text, NEW calls \in Seq(V4Call), calls # <<>>
  PROVE  /\ calls[1] \in V4Call /\ Tail(calls) \in Seq(V4Call)
         /\ BlockWire(calls, r) = <<"<", calls[1].id>> \o CallRest(calls[1].params, Tail(calls), r)
<1> DEFINE c == calls[1]
           q == Tail(calls)
           a == [i \in DOMAIN calls |-> CallWire(calls[i])]
           b == [i \in DOMAIN q |-> CallWire(q[i])]
<1>2. q \in Seq(V4Call) /\ c \in V4Call BY TailTyped
<1>3. /\ DOMAIN calls = 1..Len(calls) /\ Len(calls) \in Nat /\ Len(calls) > 0
      /\ DOMAIN q = 1..(Len(calls) - 1)
      /\ \A i \in 1..(Len(calls) - 1) : q[i] = calls[i + 1] /\ i + 1 \in 1..Len(calls)
  BY TailTyped
<1>4. a \in Seq(Seq(Piece)) /\ b \in Seq(Seq(Piece)) BY <1>2, CallsWireTyped
<1> HIDE DEF q
<1>5. /\ Len(a) = Len(calls) /\ Len(b) = Len(calls) - 1 /\ a[1] = CallWire(c)
      /\ \A i \in 1..(Len(calls) - 1) : b[i] = a[i + 1]
  BY <1>3
<1>6. CallsWire(calls) = FlattenSeq(a) /\ CallsWire(q) = FlattenSeq(b) BY DEF CallsWire
<1> DEFINE h == <<"<", c.id>>
           P == ParamsWire(c.params)
           z == <<"<", "/call">>
           F == FlattenSeq(b)
           e == <<"<", "close">> \o WireOf(r)
<1>7. CallWire(c) = (h \o P) \o z BY DEF CallWire, ParamsWire
<1> HIDE DEF a, b, c
<1>8. FlattenSeq(a) = a[1] \o F /\ F \in Seq(Piece)
  BY <1>3, <1>4, <1>5, FlattenFirst
<1>9. c.id \in Piece /\ c.params \in Seq(V4Param) BY <1>2, Pieces DEF V4Call
<1>10. P \in Seq(Piece) BY <1>9, ParamsWireTyped
<1>11. h \in Seq(Piece) /\ z \in Seq(Piece) BY <1>9, Pieces, Two
<1>12. e \in Seq(Piece)
  <2> DEFINE w == WireOf(r)
             g == <<"<", "close">>
  <2>1. w \in Seq(Piece) /\ g \in Seq(Piece) BY WireOfTyped, Pieces, Two
  <2> HIDE DEF w, g
  <2>2. g \o w \in Seq(Piece) BY <2>1
  <2> QED BY <2>2 DEF w, g
<1>13. AssociativeOn(Piece) BY Associative
<1>14. CallRest(c.params, q, r) = P \o (z \o (F \o e)) BY <1>6 DEF CallRest, BlockWire
<1>15. BlockWire(calls, r) = (((h \o P) \o z) \o F) \o e BY <1>5, <1>6, <1>7, <1>8 DEF BlockWire
<1> HIDE DEF h, P, z, F, e
<1>16. ((h \o P) \o z) \o F = h \o (P \o (z \o F)) 
  <2>1. RegroupsOn(Piece) BY Regroup
  <2>2. h \in Seq(Piece) /\ P \in Seq(Piece) /\ z \in Seq(Piece) /\ F \in Seq(Piece)
    BY <1>8, <1>10, <1>11
  <2>3. \A u, v \in Seq(Piece) : ((h \o P) \o u) \o v = h \o (P \o (u \o v))
    BY <2>1, <2>2 DEF RegroupsOn
  <2> QED BY <2>2, <2>3, Zenon
<1> DEFINE x == P \o (z \o F)
<1>17. z \o F \in Seq(Piece) BY <1>8, <1>11
<1>18. x \in Seq(Piece)
  <2> DEFINE f == z \o F
  <2> HIDE DEF f
  <2>1. P \o f \in Seq(Piece) BY <1>10, <1>17 DEF f
  <2> QED BY <2>1 DEF f
<1>19. (h \o x) \o e = h \o (x \o e)
  <2> HIDE DEF x
  <2> QED BY <1>11, <1>12, <1>13, <1>18 DEF AssociativeOn
<1>20. x \o e = P \o ((z \o F) \o e)
  <2> DEFINE f == z \o F
  <2> HIDE DEF f
  <2>1. (P \o f) \o e = P \o (f \o e) BY <1>10, <1>12, <1>13, <1>17 DEF AssociativeOn, f
  <2> QED BY <2>1 DEF f
<1>21. (z \o F) \o e = z \o (F \o e) BY <1>8, <1>11, <1>12, <1>13 DEF AssociativeOn
<1>22. BlockWire(calls, r) = h \o (P \o (z \o (F \o e))) BY <1>15, <1>16, <1>19, <1>20, <1>21
<1>23. BlockWire(calls, r) = h \o CallRest(c.params, q, r) BY <1>14, <1>22
<1> QED BY <1>2, <1>23 DEF h, q, c

\* or the next parameter with its value.
LEMMA FirstParam ==
  ASSUME NEW r \in V4Text, NEW calls \in Seq(V4Call), NEW params \in Seq(V4Param), params # <<>>
  PROVE  /\ params[1] \in V4Param /\ Tail(params) \in Seq(V4Param)
         /\ CallRest(params, calls, r) =
              <<"<", params[1].key>> \o ValueRest(params[1].value, Tail(params), calls, r)
<1> DEFINE c == params[1]
           q == Tail(params)
           a == [i \in DOMAIN params |-> ParamWire(params[i])]
           b == [i \in DOMAIN q |-> ParamWire(q[i])]
<1>2. q \in Seq(V4Param) /\ c \in V4Param BY TailTyped
<1>3. /\ DOMAIN params = 1..Len(params) /\ Len(params) \in Nat /\ Len(params) > 0
      /\ DOMAIN q = 1..(Len(params) - 1)
      /\ \A i \in 1..(Len(params) - 1) : q[i] = params[i + 1] /\ i + 1 \in 1..Len(params)
  BY TailTyped
<1>4. a \in Seq(Seq(Piece)) /\ b \in Seq(Seq(Piece)) BY <1>2, ParamsWireTyped
<1> HIDE DEF q
<1>5. /\ Len(a) = Len(params) /\ Len(b) = Len(params) - 1 /\ a[1] = ParamWire(c)
      /\ \A i \in 1..(Len(params) - 1) : b[i] = a[i + 1]
  BY <1>3
<1>6. ParamsWire(params) = FlattenSeq(a) /\ ParamsWire(q) = FlattenSeq(b) BY DEF ParamsWire
<1> DEFINE h == <<"<", c.key>>
           P == Escape(c.value)
           z == <<"<", "/param">>
           F == FlattenSeq(b)
           e == <<"<", "/call">> \o BlockWire(calls, r)
<1>7. ParamWire(c) = (h \o P) \o z BY DEF ParamWire
<1> HIDE DEF a, b, c
<1>8. FlattenSeq(a) = a[1] \o F /\ F \in Seq(Piece)
  BY <1>3, <1>4, <1>5, FlattenFirst
<1>9. c.key \in Piece /\ c.value \in Seq(Raw) BY <1>2, Pieces
<1>10. P \in Seq(Piece) BY <1>9, Escaped
<1>11. h \in Seq(Piece) /\ z \in Seq(Piece) BY <1>9, Pieces, Two
<1>12. e \in Seq(Piece)
  <2> DEFINE w == BlockWire(calls, r)
             g == <<"<", "/call">>
  <2>0. <<>> \in Seq(V4Param) /\ <<>> \in Seq(Raw) OBVIOUS
  <2>1. w \in Seq(Piece) /\ g \in Seq(Piece) BY <2>0, RestsTyped, Pieces, Two
  <2> HIDE DEF w, g
  <2>2. g \o w \in Seq(Piece) BY <2>1
  <2> QED BY <2>2 DEF w, g
<1>13. AssociativeOn(Piece) BY Associative
<1>14. ValueRest(c.value, q, calls, r) = P \o (z \o (F \o e)) BY <1>6 DEF ValueRest, CallRest
<1>15. CallRest(params, calls, r) = (((h \o P) \o z) \o F) \o e
  BY <1>5, <1>6, <1>7, <1>8 DEF CallRest
<1> HIDE DEF h, P, z, F, e
<1>16. ((h \o P) \o z) \o F = h \o (P \o (z \o F)) 
  <2>1. RegroupsOn(Piece) BY Regroup
  <2>2. h \in Seq(Piece) /\ P \in Seq(Piece) /\ z \in Seq(Piece) /\ F \in Seq(Piece)
    BY <1>8, <1>10, <1>11
  <2>3. \A u, v \in Seq(Piece) : ((h \o P) \o u) \o v = h \o (P \o (u \o v))
    BY <2>1, <2>2 DEF RegroupsOn
  <2> QED BY <2>2, <2>3, Zenon
<1> DEFINE x == P \o (z \o F)
<1>17. z \o F \in Seq(Piece) BY <1>8, <1>11
<1>18. x \in Seq(Piece)
  <2> DEFINE f == z \o F
  <2> HIDE DEF f
  <2>1. P \o f \in Seq(Piece) BY <1>10, <1>17 DEF f
  <2> QED BY <2>1 DEF f
<1>19. (h \o x) \o e = h \o (x \o e)
  <2> HIDE DEF x
  <2> QED BY <1>11, <1>12, <1>13, <1>18 DEF AssociativeOn
<1>20. x \o e = P \o ((z \o F) \o e)
  <2> DEFINE f == z \o F
  <2> HIDE DEF f
  <2>1. (P \o f) \o e = P \o (f \o e) BY <1>10, <1>12, <1>13, <1>17 DEF AssociativeOn, f
  <2> QED BY <2>1 DEF f
<1>21. (z \o F) \o e = z \o (F \o e) BY <1>8, <1>11, <1>12, <1>13 DEF AssociativeOn
<1>22. CallRest(params, calls, r) = h \o (P \o (z \o (F \o e))) BY <1>15, <1>16, <1>19, <1>20, <1>21
<1>23. CallRest(params, calls, r) = h \o ValueRest(c.value, q, calls, r) BY <1>14, <1>22
<1> QED BY <1>2, <1>23 DEF h, q, c

-----------------------------------------------------------------------------
(* What it means                                                           *)

\* The calls a channel may yield, and all of what it may yield.
Theirs(ch) == {ToolCall(ch, c.id, Args(c.params)) : c \in V4Call}
Mine(ch) == {Text(ch, x) : x \in Piece} \cup Theirs(ch)

\* What the calls of a block mean,
CallMeanings(ch, calls) == [i \in DOMAIN calls |-> ToolCall(ch, calls[i].id, Args(calls[i].params))]

\* a text with its sections,
MeaningOf(ch, r) ==
  FlattenSeq([i \in DOMAIN r.sections |-> SectionMeaning(ch, r.sections[i])]) \o Texts(ch, r.rest)

\* and a block with what follows it.
BlockMeaning(ch, calls, r) == CallMeanings(ch, calls) \o MeaningOf(ch, r)

\* Text is yielded piece by piece,
LEMMA TextsTyped ==
  ASSUME NEW ch, NEW t \in Seq(Piece)
  PROVE  /\ Texts(ch, t) \in Seq(Mine(ch)) /\ Len(Texts(ch, t)) = Len(t)
         /\ \A i \in 1..Len(t) : Texts(ch, t)[i] = Text(ch, t[i])
<1> DEFINE n == Len(t)
           M == Mine(ch)
<1>1. DOMAIN t = 1..n /\ n \in Nat /\ \A i \in 1..n : t[i] \in Piece OBVIOUS
<1>2. \A i \in 1..n : Text(ch, t[i]) \in M BY <1>1 DEF Mine
<1>3. Texts(ch, t) = [i \in 1..n |-> Text(ch, t[i])] BY <1>1 DEF Texts
<1> HIDE DEF n, M
<1>4. Texts(ch, t) \in [1..n -> M] BY <1>2, <1>3
<1> QED BY <1>1, <1>3, <1>4 DEF n, M

\* so it makes no difference where it is cut.
LEMMA TextsConcat ==
  ASSUME NEW ch, NEW a \in Seq(Piece), NEW b \in Seq(Piece)
  PROVE  Texts(ch, a \o b) = Texts(ch, a) \o Texts(ch, b)
<1> DEFINE M == Mine(ch)
           x == Texts(ch, a \o b)
           y == Texts(ch, a)
           z == Texts(ch, b)
           w == y \o z
           c == a \o b
           n == Len(a)
           m == Len(b)
<1>1. c \in Seq(Piece) /\ Len(c) = n + m /\ n \in Nat /\ m \in Nat
      /\ \A i \in 1..(n + m) : c[i] = IF i <= n THEN a[i] ELSE b[i - n]
  BY ConcatProperties
<1>2. x \in Seq(M) /\ Len(x) = n + m /\ \A i \in 1..(n + m) : x[i] = Text(ch, c[i])
  <2> HIDE DEF c
  <2> QED BY <1>1, TextsTyped DEF c
<1>3. /\ y \in Seq(M) /\ Len(y) = n /\ \A i \in 1..n : y[i] = Text(ch, a[i])
      /\ z \in Seq(M) /\ Len(z) = m /\ \A i \in 1..m : z[i] = Text(ch, b[i])
  BY TextsTyped
<1> HIDE DEF x, y, z, M, c, n, m
<1>4. w \in Seq(M) /\ Len(w) = n + m /\ \A i \in 1..(n + m) : w[i] = IF i <= n THEN y[i] ELSE z[i - n]
  BY <1>1, <1>3, ConcatProperties
<1> HIDE DEF w
<1>5. \A i \in 1..(n + m) : x[i] = w[i]
  <2> TAKE i \in 1..(n + m)
  <2>1. CASE i <= n
    <3>1. i \in 1..n BY <1>1, <2>1
    <3>2. c[i] = a[i] BY <1>1, <2>1
    <3>3. x[i] = Text(ch, a[i]) BY <1>2, <3>2
    <3>4. w[i] = y[i] BY <1>4, <2>1
    <3> QED BY <1>3, <3>1, <3>3, <3>4
  <2>2. CASE ~(i <= n)
    <3>1. i - n \in 1..m BY <1>1, <2>2
    <3>2. c[i] = b[i - n] BY <1>1, <2>2
    <3>3. x[i] = Text(ch, b[i - n]) BY <1>2, <3>2
    <3>4. w[i] = z[i - n] BY <1>4, <2>2
    <3> QED BY <1>3, <3>1, <3>3, <3>4
  <2> QED BY <2>1, <2>2
<1>6. x = w BY <1>2, <1>4, <1>5, SeqEqual
<1> QED BY <1>6 DEF x, w, y, z, c

\* The meanings of calls are calls of their channel,
LEMMA CallMeaningsTyped ==
  ASSUME NEW ch, NEW calls \in Seq(V4Call)
  PROVE  /\ CallMeanings(ch, calls) \in Seq(Mine(ch)) /\ Len(CallMeanings(ch, calls)) = Len(calls)
         /\ \A i \in 1..Len(calls) : CallMeanings(ch, calls)[i] =
              ToolCall(ch, calls[i].id, Args(calls[i].params))
<1> DEFINE n == Len(calls)
           M == Mine(ch)
<1>1. DOMAIN calls = 1..n /\ n \in Nat /\ \A i \in 1..n : calls[i] \in V4Call
  <2> DEFINE C == V4Call
  <2>1. calls \in Seq(C) OBVIOUS
  <2> HIDE DEF C
  <2>2. DOMAIN calls = 1..n /\ n \in Nat /\ \A i \in 1..n : calls[i] \in C BY <2>1
  <2> QED BY <2>2 DEF C
<1>2. \A i \in 1..n : ToolCall(ch, calls[i].id, Args(calls[i].params)) \in M
  BY <1>1 DEF Mine, Theirs
<1>3. CallMeanings(ch, calls) = [i \in 1..n |-> ToolCall(ch, calls[i].id, Args(calls[i].params))]
  BY <1>1 DEF CallMeanings
<1> HIDE DEF n, M
<1>4. CallMeanings(ch, calls) \in [1..n -> M] BY <1>2, <1>3
<1> QED BY <1>1, <1>3, <1>4 DEF n, M

\* that of a section is of its channel,
LEMMA SectionMeaningTyped ==
  ASSUME NEW ch, NEW s \in Section
  PROVE  SectionMeaning(ch, s) \in Seq(Mine(ch))
<1> DEFINE t == Texts(ch, s.text)
           c == CallMeanings(ch, s.calls)
<1>1. s.text \in Seq(Piece) /\ s.calls \in Seq(V4Call) BY DEF Section, PlainText
<1>2. t \in Seq(Mine(ch)) /\ c \in Seq(Mine(ch)) BY <1>1, TextsTyped, CallMeaningsTyped
<1>3. SectionMeaning(ch, s) = t \o c BY DEF SectionMeaning, CallMeanings
<1> HIDE DEF t, c
<1> QED BY <1>2, <1>3

\* that of a text,
LEMMA MeaningOfTyped ==
  ASSUME NEW ch, NEW r \in V4Text
  PROVE  /\ [i \in DOMAIN r.sections |-> SectionMeaning(ch, r.sections[i])] \in Seq(Seq(Mine(ch)))
         /\ MeaningOf(ch, r) \in Seq(Mine(ch))
<1> DEFINE ss == r.sections
           a == [i \in DOMAIN ss |-> SectionMeaning(ch, ss[i])]
           P == Section
           t == Texts(ch, r.rest)
           M == Mine(ch)
<1>1. DOMAIN ss = 1..Len(ss) /\ Len(ss) \in Nat /\ \A i \in 1..Len(ss) : ss[i] \in P
  <2>1. ss \in Seq(P) BY DEF V4Text
  <2> HIDE DEF P, ss
  <2> QED BY <2>1
<1>2. \A i \in 1..Len(ss) : SectionMeaning(ch, ss[i]) \in Seq(M) BY <1>1, SectionMeaningTyped
<1>3. a \in Seq(Seq(M)) BY <1>1, <1>2
<1>4. t \in Seq(M)
  <2>1. r.rest \in Seq(Piece) BY DEF V4Text, PlainText
  <2> QED BY <2>1, TextsTyped
<1> HIDE DEF a, t, M
<1>5. FlattenSeq(a) \in Seq(M) BY <1>3, FlattenConcat
<1>6. FlattenSeq(a) \o t \in Seq(M) BY <1>4, <1>5
<1> QED BY <1>3, <1>4, <1>6 DEF a, t, M, MeaningOf

\* and that of a block.
LEMMA BlockMeaningTyped ==
  ASSUME NEW ch, NEW calls \in Seq(V4Call), NEW r \in V4Text
  PROVE  BlockMeaning(ch, calls, r) \in Seq(Mine(ch))
<1> DEFINE a == CallMeanings(ch, calls)
           b == MeaningOf(ch, r)
<1>1. a \in Seq(Mine(ch)) /\ b \in Seq(Mine(ch)) BY CallMeaningsTyped, MeaningOfTyped
<1> HIDE DEF a, b
<1>2. a \o b \in Seq(Mine(ch)) BY <1>1
<1> QED BY <1>2 DEF a, b, BlockMeaning

\* A text without a block means itself;
LEMMA LastMeaning ==
  ASSUME NEW ch, NEW r \in V4Text, r.sections = <<>>
  PROVE  MeaningOf(ch, r) = Texts(ch, r.rest)
<1>1. [i \in DOMAIN r.sections |-> SectionMeaning(ch, r.sections[i])] = <<>> OBVIOUS
<1>2. FlattenSeq(<<>>) = <<>> BY FlattenNothing
<1>3. r.rest \in Seq(Piece) BY DEF V4Text, PlainText
<1> DEFINE t == Texts(ch, r.rest)
<1>4. t \in Seq(Mine(ch)) BY <1>3, TextsTyped
<1> HIDE DEF t
<1>5. <<>> \o t = t BY <1>4, ConcatEmptySeq
<1> QED BY <1>1, <1>2, <1>5 DEF MeaningOf, t

\* with one, its first section, then a block.
LEMMA FirstMeaning ==
  ASSUME NEW ch, NEW r \in V4Text, r.sections # <<>>
  PROVE  MeaningOf(ch, r) =
           Texts(ch, r.sections[1].text) \o BlockMeaning(ch, r.sections[1].calls, After(r))
<1> DEFINE ss == r.sections
           s == ss[1]
           a == [i \in DOMAIN ss |-> SectionMeaning(ch, ss[i])]
           q == After(r)
           b == [i \in DOMAIN q.sections |-> SectionMeaning(ch, q.sections[i])]
           M == Mine(ch)
<1>1. ss \in Seq(Section) /\ ss # <<>> BY DEF V4Text
<1>2. q \in V4Text /\ q.sections = Tail(ss) /\ q.rest = r.rest /\ s \in Section BY AfterTyped
<1>3. /\ DOMAIN ss = 1..Len(ss) /\ Len(ss) \in Nat /\ Len(ss) > 0
      /\ DOMAIN q.sections = 1..(Len(ss) - 1)
      /\ \A i \in 1..(Len(ss) - 1) : q.sections[i] = ss[i + 1] /\ i + 1 \in 1..Len(ss)
  BY <1>1, <1>2, TailTyped
<1>4. a \in Seq(Seq(M)) /\ b \in Seq(Seq(M)) BY <1>2, MeaningOfTyped
<1>5. /\ Len(a) = Len(ss) /\ Len(b) = Len(ss) - 1 /\ a[1] = SectionMeaning(ch, s)
      /\ \A i \in 1..(Len(ss) - 1) : b[i] = a[i + 1]
  BY <1>3
<1> DEFINE t == Texts(ch, s.text)
           C == CallMeanings(ch, s.calls)
           F == FlattenSeq(b)
           e == Texts(ch, r.rest)
<1>6. MeaningOf(ch, r) = FlattenSeq(a) \o e /\ MeaningOf(ch, q) = F \o e
  BY <1>2 DEF MeaningOf
<1>7. SectionMeaning(ch, s) = t \o C BY DEF SectionMeaning, CallMeanings
<1>14. BlockMeaning(ch, s.calls, q) = C \o (F \o e) BY <1>6 DEF BlockMeaning
<1>9. t \in Seq(M) /\ C \in Seq(M) /\ e \in Seq(M)
  <2>1. s.text \in Seq(Piece) /\ s.calls \in Seq(V4Call) /\ r.rest \in Seq(Piece)
    BY <1>2 DEF Section, PlainText, V4Text
  <2> QED BY <2>1, TextsTyped, CallMeaningsTyped
<1> HIDE DEF a, b, s, ss, q, M
<1>8. FlattenSeq(a) = a[1] \o F /\ F \in Seq(M)
  BY <1>3, <1>4, <1>5, FlattenFirst
<1>15. MeaningOf(ch, r) = ((t \o C) \o F) \o e BY <1>5, <1>6, <1>7, <1>8
<1> HIDE DEF t, C, F, e
<1>16. ((t \o C) \o F) \o e = t \o (C \o (F \o e))
  <2>1. RegroupsOn(M) BY Regroup
  <2>2. \A u, v \in Seq(M) : ((t \o C) \o u) \o v = t \o (C \o (u \o v))
    BY <1>9, <2>1 DEF RegroupsOn
  <2>3. F \in Seq(M) /\ e \in Seq(M) BY <1>8, <1>9
  <2> QED BY <2>2, <2>3, Zenon
<1>23. MeaningOf(ch, r) = t \o BlockMeaning(ch, s.calls, q) BY <1>14, <1>15, <1>16
<1> QED BY <1>23 DEF t, s, ss, q

\* A block without further calls means what follows it;
LEMMA NoMoreCalls ==
  ASSUME NEW ch, NEW r \in V4Text
  PROVE  BlockMeaning(ch, <<>>, r) = MeaningOf(ch, r)
<1>1. CallMeanings(ch, <<>>) = <<>> BY DEF CallMeanings
<1> DEFINE w == MeaningOf(ch, r)
<1>2. w \in Seq(Mine(ch)) BY MeaningOfTyped
<1> HIDE DEF w
<1>3. <<>> \o w = w BY <1>2, ConcatEmptySeq
<1> QED BY <1>1, <1>3 DEF w, BlockMeaning

\* otherwise the next call comes first.
LEMMA NextCall ==
  ASSUME NEW ch, NEW r \in V4Text, NEW calls \in Seq(V4Call), calls # <<>>
  PROVE  BlockMeaning(ch, calls, r) =
           <<ToolCall(ch, calls[1].id, Args(calls[1].params))>> \o BlockMeaning(ch, Tail(calls), r)
<1> DEFINE M == Mine(ch)
           q == Tail(calls)
           a == CallMeanings(ch, calls)
           b == CallMeanings(ch, q)
           x == ToolCall(ch, calls[1].id, Args(calls[1].params))
           w == MeaningOf(ch, r)
<1>1. q \in Seq(V4Call) /\ Len(q) = Len(calls) - 1 /\ Len(calls) > 0 /\ Len(calls) \in Nat
      /\ \A i \in 1..(Len(calls) - 1) : q[i] = calls[i + 1] /\ i + 1 \in 1..Len(calls)
  BY TailTyped
<1>2. /\ a \in Seq(M) /\ Len(a) = Len(calls) /\ a[1] = x
      /\ b \in Seq(M) /\ Len(b) = Len(calls) - 1
      /\ \A i \in 1..(Len(calls) - 1) : b[i] = a[i + 1]
  <2>1. /\ a \in Seq(M) /\ Len(a) = Len(calls)
        /\ \A i \in 1..Len(calls) : a[i] = ToolCall(ch, calls[i].id, Args(calls[i].params))
    BY CallMeaningsTyped
  <2>2. /\ b \in Seq(M) /\ Len(b) = Len(q)
        /\ \A i \in 1..Len(q) : b[i] = ToolCall(ch, q[i].id, Args(q[i].params))
    BY <1>1, CallMeaningsTyped
  <2>3. 1 \in 1..Len(calls) BY <1>1
  <2> HIDE DEF a, b, q, M
  <2> QED BY <1>1, <2>1, <2>2, <2>3
<1>3. w \in Seq(M) BY MeaningOfTyped
<1> HIDE DEF M, a, b, w, q
<1>4. x \in M BY <1>1, <1>2
<1> HIDE DEF x
<1>5. <<x>> \in Seq(M) /\ Len(<<x>>) = 1 /\ <<x>>[1] = x BY <1>4
<1>6. a = <<x>> \o b
  <2> DEFINE h == <<x>>
  <2> HIDE DEF h
  <2> DEFINE c == h \o b
  <2>1. c \in Seq(M) /\ Len(c) = Len(calls)
        /\ \A i \in 1..Len(calls) : c[i] = IF i <= 1 THEN h[i] ELSE b[i - 1]
    <3>1. h \in Seq(M) /\ Len(h) = 1 BY <1>5 DEF h
    <3>2. 1 + (Len(calls) - 1) = Len(calls) BY <1>1
    <3>3. /\ c \in Seq(M) /\ Len(c) = Len(h) + Len(b)
          /\ \A i \in 1..(Len(h) + Len(b)) : c[i] = IF i <= Len(h) THEN h[i] ELSE b[i - Len(h)]
      <4>1. h \in Seq(M) /\ b \in Seq(M) BY <1>2, <3>1
      <4> QED BY <4>1, ConcatProperties
    <3> HIDE DEF c
    <3> QED BY <1>2, <3>1, <3>2, <3>3
  <2> HIDE DEF c
  <2>2. \A i \in 1..Len(calls) : c[i] = a[i]
    <3> TAKE i \in 1..Len(calls)
    <3>1. CASE i = 1 BY <1>2, <1>5, <2>1, <3>1 DEF h
    <3>2. CASE i # 1
      <4>1. ~(i <= 1) /\ i - 1 \in 1..(Len(calls) - 1) /\ (i - 1) + 1 = i BY <1>1, <3>2
      <4> QED BY <1>2, <2>1, <4>1
    <3> QED BY <3>1, <3>2
  <2>3. c = a BY <1>2, <2>1, <2>2, SeqEqual
  <2> QED BY <2>3 DEF c, h
<1>7. (<<x>> \o b) \o w = <<x>> \o (b \o w)
  <2> DEFINE h == <<x>>
  <2>1. h \in Seq(M) BY <1>5
  <2> HIDE DEF h
  <2>2. AssociativeOn(M) BY Associative
  <2>3. (h \o b) \o w = h \o (b \o w) BY <1>2, <1>3, <2>1, <2>2 DEF AssociativeOn
  <2> QED BY <2>3 DEF h
<1>8. BlockMeaning(ch, calls, r) = a \o w /\ BlockMeaning(ch, q, r) = b \o w
  BY DEF BlockMeaning, a, b, w
<1>9. BlockMeaning(ch, calls, r) = <<x>> \o BlockMeaning(ch, q, r) BY <1>6, <1>7, <1>8
<1> QED BY <1>9 DEF x, q

-----------------------------------------------------------------------------
(* The events of a channel, and the calls                                  *)

\* The elements of s that are in T.
Selected(s, T) == FlattenSeq([i \in DOMAIN s |-> IF s[i] \in T THEN <<s[i]>> ELSE <<>>])

\* What is selected is of the same kind.
LEMMA SelectedItems ==
  ASSUME NEW X, NEW T, NEW s \in Seq(X)
  PROVE  /\ [i \in DOMAIN s |-> IF s[i] \in T THEN <<s[i]>> ELSE <<>>] \in Seq(Seq(X))
         /\ Selected(s, T) \in Seq(X)
<1> DEFINE n == Len(s)
           a == [i \in DOMAIN s |-> IF s[i] \in T THEN <<s[i]>> ELSE <<>>]
           Y == Seq(X)
<1>1. DOMAIN s = 1..n /\ n \in Nat /\ \A i \in 1..n : s[i] \in X OBVIOUS
<1>2. \A i \in 1..n : (IF s[i] \in T THEN <<s[i]>> ELSE <<>>) \in Y
  <2> TAKE i \in 1..n
  <2>1. <<s[i]>> \in Y BY <1>1
  <2>2. <<>> \in Y OBVIOUS
  <2> QED BY <2>1, <2>2
<1> HIDE DEF n, Y
<1>3. a \in [1..n -> Y] BY <1>1, <1>2
<1> HIDE DEF a
<1>4. a \in Seq(Y) BY <1>1, <1>3
<1>5. FlattenSeq(a) \in Seq(X) BY <1>4, FlattenConcat DEF Y
<1> QED BY <1>4, <1>5 DEF a, Y, Selected

\* Selecting from two sequences one after the other.
LEMMA SelectedConcat ==
  ASSUME NEW X, NEW T, NEW s \in Seq(X), NEW t \in Seq(X)
  PROVE  /\ Selected(s \o t, T) = Selected(s, T) \o Selected(t, T)
         /\ Selected(s, T) \in Seq(X) /\ Selected(t, T) \in Seq(X)
<1> DEFINE Item(x) == IF x \in T THEN <<x>> ELSE <<>>
           u == s \o t
           a == [i \in DOMAIN s |-> IF s[i] \in T THEN <<s[i]>> ELSE <<>>]
           b == [i \in DOMAIN t |-> IF t[i] \in T THEN <<t[i]>> ELSE <<>>]
           c == [i \in DOMAIN u |-> IF u[i] \in T THEN <<u[i]>> ELSE <<>>]
           Y == Seq(X)
           n == Len(s)
           m == Len(t)
<1>1. u \in Seq(X) /\ Len(u) = n + m /\ n \in Nat /\ m \in Nat
      /\ \A i \in 1..(n + m) : u[i] = IF i <= n THEN s[i] ELSE t[i - n]
  BY ConcatProperties
<1> HIDE DEF u
<1>2. a \in Seq(Y) /\ b \in Seq(Y) /\ c \in Seq(Y) BY <1>1, SelectedItems
<1>3. DOMAIN s = 1..n /\ DOMAIN t = 1..m /\ DOMAIN u = 1..(n + m) BY <1>1
<1>4. /\ Len(a) = n /\ Len(b) = m /\ Len(c) = n + m
      /\ \A i \in 1..n : a[i] = Item(s[i])
      /\ \A i \in 1..m : b[i] = Item(t[i])
      /\ \A i \in 1..(n + m) : c[i] = Item(u[i])
  BY <1>1, <1>3
<1>5. Selected(s, T) = FlattenSeq(a) /\ Selected(t, T) = FlattenSeq(b) /\ Selected(u, T) = FlattenSeq(c)
  BY DEF Selected
<1> HIDE DEF a, b, c, Y, n, m, Item
<1> DEFINE d == a \o b
<1>6. d \in Seq(Y) /\ Len(d) = n + m /\ \A i \in 1..(n + m) : d[i] = IF i <= n THEN a[i] ELSE b[i - n]
  BY <1>2, <1>4, ConcatProperties
<1> HIDE DEF d
<1>7. \A i \in 1..(n + m) : c[i] = d[i]
  <2> TAKE i \in 1..(n + m)
  <2>1. CASE i <= n
    <3>1. i \in 1..n BY <1>1, <2>1
    <3>2. u[i] = s[i] /\ d[i] = a[i] BY <1>1, <1>6, <2>1
    <3> QED BY <1>4, <3>1, <3>2
  <2>2. CASE ~(i <= n)
    <3>1. i - n \in 1..m BY <1>1, <2>2
    <3>2. u[i] = t[i - n] /\ d[i] = b[i - n] BY <1>1, <1>6, <2>2
    <3> QED BY <1>4, <3>1, <3>2
  <2> QED BY <2>1, <2>2
<1>8. c = d BY <1>2, <1>4, <1>6, <1>7, SeqEqual
<1>9. FlattenSeq(a \o b) = FlattenSeq(a) \o FlattenSeq(b) BY <1>2, FlattenConcat DEF Y
<1> QED BY <1>5, <1>8, <1>9, SelectedItems DEF d, u

\* Selecting everything,
LEMMA SelectedAll ==
  ASSUME NEW X, NEW T, NEW s \in Seq(X), \A i \in 1..Len(s) : s[i] \in T
  PROVE  Selected(s, T) = s
<1>1. DOMAIN s = 1..Len(s) OBVIOUS
<1>2. [i \in DOMAIN s |-> IF s[i] \in T THEN <<s[i]>> ELSE <<>>] = [i \in 1..Len(s) |-> <<s[i]>>]
  BY <1>1
<1>3. FlattenSeq([i \in 1..Len(s) |-> <<s[i]>>]) = s BY FlattenUnchanged
<1> QED BY <1>2, <1>3 DEF Selected

\* and selecting nothing.
LEMMA SelectedNone ==
  ASSUME NEW X, NEW T, NEW s \in Seq(X), \A i \in 1..Len(s) : s[i] \notin T
  PROVE  Selected(s, T) = <<>>
<1> DEFINE a == [i \in DOMAIN s |-> IF s[i] \in T THEN <<s[i]>> ELSE <<>>]
<1>1. DOMAIN s = 1..Len(s) /\ Len(s) \in Nat OBVIOUS
<1>2. a \in Seq(Seq(X)) BY SelectedItems
<1>3. Len(a) = Len(s) /\ \A i \in 1..Len(a) : a[i] = <<>> BY <1>1
<1> HIDE DEF a
<1>4. FlattenSeq(a) = <<>> BY <1>2, <1>3, FlattenNone
<1> QED BY <1>4 DEF a, Selected

\* The events of a channel are a selection,
LEMMA OfSelected ==
  ASSUME NEW X, NEW ch, NEW s \in Seq(X)
  PROVE  Of(ch, s) = Selected(s, {e \in X : e.type \in {"text", "tool_call"} /\ e.channel = ch})
<1> DEFINE T == {e \in X : e.type \in {"text", "tool_call"} /\ e.channel = ch}
<1>1. \A i \in DOMAIN s : s[i] \in T <=> s[i].type \in {"text", "tool_call"} /\ s[i].channel = ch
  OBVIOUS
<1> HIDE DEF T
<1>2. [i \in DOMAIN s |-> IF s[i].type \in {"text", "tool_call"} /\ s[i].channel = ch
                          THEN <<s[i]>> ELSE <<>>]
      = [i \in DOMAIN s |-> IF s[i] \in T THEN <<s[i]>> ELSE <<>>]
  BY <1>1
<1> QED BY <1>2 DEF Of, Selected, T

\* and so are the calls.
LEMMA CallsSelected ==
  ASSUME NEW X, NEW s \in Seq(X)
  PROVE  Calls(s) = Selected(s, {e \in X : e.type = "tool_call"})
<1> DEFINE T == {e \in X : e.type = "tool_call"}
<1>1. \A i \in DOMAIN s : s[i] \in T <=> s[i].type = "tool_call" OBVIOUS
<1> HIDE DEF T
<1>2. [i \in DOMAIN s |-> IF s[i].type = "tool_call" THEN <<s[i]>> ELSE <<>>]
      = [i \in DOMAIN s |-> IF s[i] \in T THEN <<s[i]>> ELSE <<>>]
  BY <1>1
<1> QED BY <1>2 DEF Calls, Selected, T

\* The events of a channel in two sequences one after the other,
LEMMA OfConcat ==
  ASSUME NEW X, NEW ch, NEW s \in Seq(X), NEW t \in Seq(X)
  PROVE  Of(ch, s \o t) = Of(ch, s) \o Of(ch, t) /\ Of(ch, s) \in Seq(X) /\ Of(ch, t) \in Seq(X)
<1> DEFINE u == s \o t
<1>1. u \in Seq(X) OBVIOUS
<1> HIDE DEF u
<1> DEFINE T == {e \in X : e.type \in {"text", "tool_call"} /\ e.channel = ch}
<1>2. Of(ch, s) = Selected(s, T) /\ Of(ch, t) = Selected(t, T) /\ Of(ch, u) = Selected(u, T)
  BY <1>1, OfSelected
<1> HIDE DEF T
<1>3. /\ Selected(s \o t, T) = Selected(s, T) \o Selected(t, T)
      /\ Selected(s, T) \in Seq(X) /\ Selected(t, T) \in Seq(X)
  BY SelectedConcat
<1> QED BY <1>2, <1>3 DEF u

\* and the calls in them.
LEMMA CallsConcat ==
  ASSUME NEW X, NEW s \in Seq(X), NEW t \in Seq(X)
  PROVE  Calls(s \o t) = Calls(s) \o Calls(t) /\ Calls(s) \in Seq(X) /\ Calls(t) \in Seq(X)
<1> DEFINE u == s \o t
<1>1. u \in Seq(X) OBVIOUS
<1> HIDE DEF u
<1> DEFINE T == {e \in X : e.type = "tool_call"}
<1>2. Calls(s) = Selected(s, T) /\ Calls(t) = Selected(t, T) /\ Calls(u) = Selected(u, T)
  BY <1>1, CallsSelected
<1> HIDE DEF T
<1>3. /\ Selected(s \o t, T) = Selected(s, T) \o Selected(t, T)
      /\ Selected(s, T) \in Seq(X) /\ Selected(t, T) \in Seq(X)
  BY SelectedConcat
<1> QED BY <1>2, <1>3 DEF u

\* All events are of the channel;
LEMMA OfAll ==
  ASSUME NEW X, NEW ch, NEW s \in Seq(X),
         \A i \in 1..Len(s) : s[i].type \in {"text", "tool_call"} /\ s[i].channel = ch
  PROVE  Of(ch, s) = s
<1>1. \A i \in 1..Len(s) : s[i] \in {e \in X : e.type \in {"text", "tool_call"} /\ e.channel = ch}
  OBVIOUS
<1> DEFINE T == {e \in X : e.type \in {"text", "tool_call"} /\ e.channel = ch}
<1>2. Of(ch, s) = Selected(s, T) BY OfSelected
<1>3. \A i \in 1..Len(s) : s[i] \in T BY <1>1
<1> HIDE DEF T
<1> QED BY <1>2, <1>3, SelectedAll

\* none is;
LEMMA OfNone ==
  ASSUME NEW X, NEW ch, NEW s \in Seq(X),
         \A i \in 1..Len(s) : ~(s[i].type \in {"text", "tool_call"} /\ s[i].channel = ch)
  PROVE  Of(ch, s) = <<>>
<1>1. \A i \in 1..Len(s) : s[i] \notin {e \in X : e.type \in {"text", "tool_call"} /\ e.channel = ch}
  OBVIOUS
<1> DEFINE T == {e \in X : e.type \in {"text", "tool_call"} /\ e.channel = ch}
<1>2. Of(ch, s) = Selected(s, T) BY OfSelected
<1>3. \A i \in 1..Len(s) : s[i] \notin T BY <1>1
<1> HIDE DEF T
<1> QED BY <1>2, <1>3, SelectedNone

\* none is a call.
LEMMA CallsNone ==
  ASSUME NEW X, NEW s \in Seq(X), \A i \in 1..Len(s) : s[i].type # "tool_call"
  PROVE  Calls(s) = <<>>
<1>1. \A i \in 1..Len(s) : s[i] \notin {e \in X : e.type = "tool_call"} OBVIOUS
<1> QED BY <1>1, CallsSelected, SelectedNone

\* A sequence is a prefix of itself with more behind it.
LEMMA PrefixConcat ==
  ASSUME NEW X, NEW a \in Seq(X), NEW b \in Seq(X)
  PROVE  IsPrefix(a, a \o b)
<1> DEFINE c == a \o b
           n == Len(a)
<1>1. c \in Seq(X) /\ Len(c) = n + Len(b) /\ n \in Nat /\ Len(b) \in Nat
      /\ \A i \in 1..(n + Len(b)) : c[i] = IF i <= n THEN a[i] ELSE b[i - n]
  BY ConcatProperties
<1> HIDE DEF c
<1>2. n <= Len(c) BY <1>1
<1>3. n \in 0..Len(c) BY <1>1
<1>4. SubSeq(c, 1, n) \in Seq(X) /\ Len(SubSeq(c, 1, n)) = n
      /\ \A i \in 1..n : SubSeq(c, 1, n)[i] = c[i]
  BY <1>1, <1>3, CutInTwo
<1>5. \A i \in 1..n : c[i] = a[i]
  <2> TAKE i \in 1..n
  <2>1. i \in 1..(n + Len(b)) /\ i <= n BY <1>1
  <2> QED BY <1>1, <2>1
<1>6. SubSeq(c, 1, n) = a
  <2> DEFINE d == SubSeq(c, 1, n)
  <2>1. d \in Seq(X) /\ Len(d) = Len(a) /\ \A i \in 1..Len(d) : d[i] = a[i] BY <1>4, <1>5
  <2> HIDE DEF d
  <2>2. d = a BY <2>1, SeqEqual
  <2> QED BY <2>2 DEF d
<1>7. SubSeq(a, 1, Len(a)) = a BY SubSeqFull
<1> QED BY <1>2, <1>6, <1>7 DEF IsPrefix, c

-----------------------------------------------------------------------------
(* What is ahead of a parser                                               *)

\* Cutting a concatenation within its first part,
LEMMA ConcatCut ==
  ASSUME NEW S, NEW a \in Seq(S), NEW c \in Seq(S), NEW d \in 0..Len(a)
  PROVE  /\ SubSeq(a \o c, 1, d) = SubSeq(a, 1, d)
         /\ SubSeq(a \o c, d + 1, Len(a \o c)) = SubSeq(a, d + 1, Len(a)) \o c
<1> DEFINE t == a \o c
           n == Len(a)
           m == Len(c)
           p == SubSeq(a, 1, d)
           q == SubSeq(a, d + 1, Len(a))
           u == SubSeq(t, 1, d)
           v == SubSeq(t, d + 1, Len(t))
           w == q \o c
<1>1. t \in Seq(S) /\ Len(t) = n + m /\ n \in Nat /\ m \in Nat
      /\ \A i \in 1..(n + m) : t[i] = IF i <= n THEN a[i] ELSE c[i - n]
  BY ConcatProperties
<1> HIDE DEF t
<1>2. d \in 0..n /\ d \in 0..Len(t) BY <1>1
<1>3. /\ p \in Seq(S) /\ Len(p) = d /\ \A i \in 1..d : p[i] = a[i]
      /\ q \in Seq(S) /\ Len(q) = n - d /\ \A i \in 1..(n - d) : q[i] = a[d + i]
  BY <1>2, CutInTwo
<1>4. /\ u \in Seq(S) /\ Len(u) = d /\ \A i \in 1..d : u[i] = t[i]
      /\ v \in Seq(S) /\ Len(v) = n + m - d /\ \A i \in 1..(n + m - d) : v[i] = t[d + i]
  BY <1>1, <1>2, CutInTwo
<1> HIDE DEF p, q, u, v
<1>5. /\ w \in Seq(S) /\ Len(w) = (n - d) + m
      /\ \A i \in 1..((n - d) + m) : w[i] = IF i <= n - d THEN q[i] ELSE c[i - (n - d)]
  BY <1>3, ConcatProperties
<1> HIDE DEF w, n, m
<1>6. u = p
  <2>1. \A i \in 1..d : u[i] = p[i]
    <3> TAKE i \in 1..d
    <3>1. i \in 1..(n + m) /\ i <= n BY <1>1, <1>2
    <3> QED BY <1>1, <1>3, <1>4, <3>1
  <2> QED BY <1>3, <1>4, <2>1, SeqEqual
<1>7. v = w
  <2>1. \A i \in 1..(n + m - d) : v[i] = w[i]
    <3> TAKE i \in 1..(n + m - d)
    <3>0. i \in 1..((n - d) + m) /\ d + i \in 1..(n + m) BY <1>1, <1>2
    <3>1. CASE i <= n - d
      <4>1. i \in 1..(n - d) /\ d + i <= n BY <1>1, <1>2, <3>1
      <4>2. v[i] = a[d + i] BY <1>1, <1>4, <3>0, <4>1
      <4>3. w[i] = q[i] BY <1>5, <3>0, <3>1
      <4> QED BY <1>3, <4>1, <4>2, <4>3
    <3>2. CASE ~(i <= n - d)
      <4>1. ~(d + i <= n) /\ (d + i) - n = i - (n - d) BY <1>1, <1>2, <3>2
      <4>2. v[i] = c[(d + i) - n] BY <1>1, <1>4, <3>0, <4>1
      <4>3. w[i] = c[i - (n - d)] BY <1>5, <3>0, <3>2
      <4> QED BY <4>1, <4>2, <4>3
    <3> QED BY <3>1, <3>2
  <2>2. Len(v) = Len(w) /\ \A i \in 1..Len(v) : v[i] = w[i] BY <1>1, <1>2, <1>4, <1>5, <2>1
  <2> QED BY <1>4, <1>5, <2>2, SeqEqual
<1> QED BY <1>6, <1>7 DEF p, q, u, v, w, t

\* and between its parts.
LEMMA ConcatCutBetween ==
  ASSUME NEW S, NEW a \in Seq(S), NEW c \in Seq(S)
  PROVE  /\ SubSeq(a \o c, 1, Len(a)) = a
         /\ SubSeq(a \o c, Len(a) + 1, Len(a \o c)) = c
<1>1. Len(a) \in 0..Len(a) OBVIOUS
<1>2. SubSeq(a, 1, Len(a)) = a BY SubSeqFull
<1>3. SubSeq(a, Len(a) + 1, Len(a)) = <<>> BY SubSeqEmpty
<1>4. <<>> \o c = c BY ConcatEmptySeq
<1> QED BY <1>1, <1>2, <1>3, <1>4, ConcatCut

\* The first of what is ahead are in the buffer.
Holds(b, X) == X \in Seq(Piece) /\ Len(b) <= Len(X) /\ b = SubSeq(X, 1, Len(b)) /\ b \in Seq(Piece)

\* Taking from the buffer is taking from what is ahead.
LEMMA HoldsAt ==
  ASSUME NEW b, NEW X, Holds(b, X)
  PROVE  /\ Len(b) \in 0..Len(X) /\ Len(b) \in Nat /\ Len(X) \in Nat
         /\ \A i \in 1..Len(b) : b[i] = X[i]
         /\ \A d \in 0..Len(b) :
              /\ SubSeq(b, 1, d) = SubSeq(X, 1, d)
              /\ Holds(Drop(b, d), Drop(X, d)) /\ Len(Drop(b, d)) = Len(b) - d
<1> DEFINE k == Len(b)
           a == SubSeq(X, 1, k)
           c == SubSeq(X, k + 1, Len(X))
<1>1. X \in Seq(Piece) /\ b \in Seq(Piece) /\ k <= Len(X) /\ b = a BY DEF Holds
<1>2. k \in 0..Len(X) BY <1>1
<1>3. /\ \A i \in 1..k : a[i] = X[i]
      /\ c \in Seq(Piece) /\ a \o c = X
  BY <1>1, <1>2, CutInTwo
<1>4. ASSUME NEW d \in 0..k
      PROVE  /\ SubSeq(b, 1, d) = SubSeq(X, 1, d)
             /\ Holds(Drop(b, d), Drop(X, d)) /\ Len(Drop(b, d)) = k - d
  <2> DEFINE e == SubSeq(b, d + 1, k)
             y == SubSeq(X, d + 1, Len(X))
  <2>1. d \in 0..Len(b) OBVIOUS
  <2> HIDE DEF a, c
  <2>2. /\ SubSeq(b \o c, 1, d) = SubSeq(b, 1, d)
        /\ SubSeq(b \o c, d + 1, Len(b \o c)) = SubSeq(b, d + 1, Len(b)) \o c
    BY <1>1, <1>3, <2>1, ConcatCut
  <2>3. b \o c = X BY <1>1, <1>3
  <2>4. SubSeq(b, 1, d) = SubSeq(X, 1, d) /\ y = e \o c BY <2>2, <2>3
  <2>5. e \in Seq(Piece) /\ Len(e) = k - d BY <1>1, <2>1, CutInTwo
  <2> HIDE DEF e, y
  <2>6. y \in Seq(Piece) /\ Len(y) = Len(e) + Len(c) /\ SubSeq(y, 1, Len(e)) = e
    <3>1. e \o c \in Seq(Piece) /\ Len(e \o c) = Len(e) + Len(c) BY <1>3, <2>5, ConcatProperties
    <3>2. SubSeq(e \o c, 1, Len(e)) = e BY <1>3, <2>5, ConcatCutBetween
    <3> QED BY <2>4, <3>1, <3>2
  <2>7. Len(e) <= Len(y)
    <3>1. Len(c) \in Nat /\ Len(e) \in Nat BY <1>3, <2>5
    <3> QED BY <2>6, <3>1
  <2>8. Holds(e, y) BY <2>5, <2>6, <2>7 DEF Holds
  <2> QED BY <2>4, <2>5, <2>8 DEF Drop, e, y
<1>5. \A i \in 1..k : b[i] = X[i] BY <1>1, <1>3
<1>6. Len(X) \in Nat /\ k \in Nat BY <1>1
<1> HIDE DEF a, c, k
<1> QED BY <1>2, <1>4, <1>5, <1>6 DEF k

-----------------------------------------------------------------------------
(* Text                                                                    *)

\* Text is ahead, and perhaps a block.
TextAhead(ch, X, R) ==
  \E T \in PlainText :
    \/ X = T /\ R = Texts(ch, T)
    \/ \E calls \in Seq(V4Call), r \in V4Text :
         /\ X = T \o (<<"<", "open">> \o BlockWire(calls, r))
         /\ R = Texts(ch, T) \o BlockMeaning(ch, calls, r)

\* What is ahead in a whole text is text.
LEMMA TextComes ==
  ASSUME NEW ch, NEW r \in V4Text
  PROVE  TextAhead(ch, WireOf(r), MeaningOf(ch, r))
<1>1. CASE r.sections = <<>>
  <2>1. WireOf(r) = r.rest /\ r.rest \in PlainText BY <1>1, LastText
  <2>2. MeaningOf(ch, r) = Texts(ch, r.rest) BY <1>1, LastMeaning
  <2> QED BY <2>1, <2>2 DEF TextAhead
<1>2. CASE r.sections # <<>>
  <2>1. WireOf(r) = r.sections[1].text \o (<<"<", "open">> \o BlockWire(r.sections[1].calls, After(r)))
    BY <1>2, FirstSection
  <2>2. MeaningOf(ch, r) = Texts(ch, r.sections[1].text) \o BlockMeaning(ch, r.sections[1].calls, After(r))
    BY <1>2, FirstMeaning
  <2>3. /\ After(r) \in V4Text /\ r.sections[1].text \in PlainText
        /\ r.sections[1].calls \in Seq(V4Call)
    BY <1>2, AfterTyped
  <2> QED BY <2>1, <2>2, <2>3 DEF TextAhead
<1> QED BY <1>1, <1>2

\* Text without a block has none when some of it is gone.
LEMMA PlainCut ==
  ASSUME NEW T \in PlainText, NEW d \in 0..Len(T)
  PROVE  Drop(T, d) \in PlainText
<1> DEFINE e == SubSeq(T, d + 1, Len(T))
<1>1. T \in Seq(Piece) /\ Markers("open", T) = {} BY DEF PlainText
<1>2. e \in Seq(Piece) /\ Len(e) = Len(T) - d /\ \A i \in 1..(Len(T) - d) : e[i] = T[d + i]
  BY <1>1, CutInTwo
<1> HIDE DEF e
<1>3. Markers("open", e) = {}
  <2> SUFFICES ASSUME NEW i \in 1..(Len(e) - 1), e[i] = "<", e[i + 1] = "open" PROVE FALSE
    BY DEF Markers
  <2>1. Len(T) \in Nat /\ d \in Nat BY <1>1
  <2>2. i \in 1..(Len(T) - d) /\ i + 1 \in 1..(Len(T) - d) /\ d + i \in 1..(Len(T) - 1)
        /\ d + (i + 1) = (d + i) + 1
    BY <1>2, <2>1
  <2>3. T[d + i] = "<" /\ T[(d + i) + 1] = "open" BY <1>2, <2>2
  <2> QED BY <1>1, <2>2, <2>3 DEF Markers
<1> QED BY <1>2, <1>3 DEF PlainText, Drop, e

\* What is certainly text.
LEMMA SafeText ==
  ASSUME NEW b \in Seq(Piece)
  PROVE  /\ Len(SafePrefix(b)) \in 0..Len(b)
         /\ SafePrefix(b) = SubSeq(b, 1, Len(SafePrefix(b)))
         /\ Drop(b, Len(SafePrefix(b))) \in {<<>>, <<"<">>}
         /\ Len(b) > 0 /\ b[Len(b)] = "<" => Len(SafePrefix(b)) = Len(b) - 1
<1> DEFINE k == Len(b)
<1>1. k \in Nat OBVIOUS
<1>2. CASE b # <<>> /\ b[k] = "<"
  <2>1. k > 0 /\ k - 1 \in 0..k BY <1>1, <1>2, EmptySeq
  <2>2. SafePrefix(b) = SubSeq(b, 1, k - 1) BY <1>2 DEF SafePrefix, Last, Front
  <2>3. Len(SubSeq(b, 1, k - 1)) = k - 1 BY <2>1, CutInTwo
  <2>4. Drop(b, k - 1) = <<"<">>
    <3> DEFINE e == SubSeq(b, (k - 1) + 1, k)
    <3>1. e \in Seq(Piece) /\ Len(e) = k - (k - 1) /\ \A i \in 1..(k - (k - 1)) : e[i] = b[(k - 1) + i]
      BY <2>1, CutInTwo
    <3>2. k - (k - 1) = 1 /\ 1 \in 1..1 /\ (k - 1) + 1 = k BY <1>1
    <3> HIDE DEF e
    <3>3. Len(e) = 1 /\ e[1] = b[k] BY <3>1, <3>2
    <3>4. e = <<"<">> BY <1>2, <3>1, <3>3
    <3> QED BY <3>4 DEF Drop, e
  <2> QED BY <2>1, <2>2, <2>3, <2>4
<1>3. CASE ~(b # <<>> /\ b[k] = "<")
  <2>1. SafePrefix(b) = b BY <1>3 DEF SafePrefix, Last
  <2>2. SubSeq(b, 1, k) = b BY SubSeqFull
  <2>3. Drop(b, k) = <<>> BY SubSeqEmpty DEF Drop
  <2>4. ~(k > 0 /\ b[k] = "<") BY <1>3
  <2>5. k \in 0..k BY <1>1
  <2> DEFINE s == SafePrefix(b)
  <2>6. s = b BY <2>1
  <2> HIDE DEF s, k
  <2>7. Len(s) = k BY <2>6 DEF k
  <2>8. s = SubSeq(b, 1, Len(s)) /\ Drop(b, Len(s)) = <<>> BY <2>2, <2>3, <2>6, <2>7
  <2> QED BY <2>4, <2>5, <2>7, <2>8 DEF s, k
<1> QED BY <1>2, <1>3

\* The fields of a DsmlParser.
Parser ==
  [buffer : Seq(Piece), mode : {"content", "block"},
   call : [id : CallTags \cup {None}, params : Seq(V4Param), key : ParamTags \cup {None},
           value : Seq(Piece)]]

\* The parser is in the text around the blocks,
InText(ch, p, X, R) == p.mode = "content" /\ p.call = NoCall /\ TextAhead(ch, X, R)

\* in a block between its calls,
InCalls(ch, p, X, R) ==
  /\ p.mode = "block" /\ p.call = NoCall
  /\ \E calls \in Seq(V4Call), r \in V4Text :
       X = BlockWire(calls, r) /\ R = BlockMeaning(ch, calls, r)

\* in a call between its parameters; those read and those to come make the call,
InCall(ch, p, X, R) ==
  /\ p.mode = "block" /\ p.call.id \in CallTags /\ p.call.key = None /\ p.call.value = <<>>
  /\ \E params \in Seq(V4Param), calls \in Seq(V4Call), r \in V4Text :
       /\ X = CallRest(params, calls, r)
       /\ R = <<ToolCall(ch, p.call.id, Args(p.call.params \o params))>> \o BlockMeaning(ch, calls, r)

\* or in a value, with u read and v to come.
InValue(ch, p, X, R) ==
  /\ p.mode = "block" /\ p.call.id \in CallTags /\ p.call.key \in ParamTags
  /\ \E u, v \in Seq(Raw), params \in Seq(V4Param), calls \in Seq(V4Call), r \in V4Text :
       /\ p.call.value = Escape(u)
       /\ X = ValueRest(v, params, calls, r)
       /\ R = <<ToolCall(ch, p.call.id,
                 Args(Append(p.call.params, [key |-> p.call.key, value |-> u \o v]) \o params))>>
              \o BlockMeaning(ch, calls, r)

\* X is what the parser p has ahead, the buffer included, and R what it means.
Ahead(ch, p, X, R) ==
  /\ p \in Parser /\ Holds(p.buffer, X) /\ R \in Seq(Mine(ch))
  /\ InText(ch, p, X, R) \/ InCalls(ch, p, X, R) \/ InCall(ch, p, X, R) \/ InValue(ch, p, X, R)

\* The parser p becomes q and yields e.
Reaches(ch, p, q, X, R, e) ==
  \E d \in 0..Len(p.buffer), R2 \in Seq(Mine(ch)) :
    q.buffer = Drop(p.buffer, d) /\ R = e \o R2 /\ Ahead(ch, q, Drop(X, d), R2)

\* A pass of the parser of a channel.
Passes(ch, X, R) ==
  \E q \in Parser, e \in Seq(Mine(ch)) :
    /\ parser' = [parser EXCEPT ![ch] = q]
    /\ events' = events \o e
    /\ busy' = busy \/ (busy' = None /\ q.buffer \in {<<>>, <<"<">>})
    /\ Reaches(ch, parser[ch], q, X, R, e)

-----------------------------------------------------------------------------
(* The parser in the text                                                  *)

\* The first start of a block in the buffer is the one ahead.
LEMMA OpenMarkers ==
  ASSUME NEW T \in PlainText, NEW Z \in Seq(Piece), NEW X, X = T \o (<<"<", "open">> \o Z),
         NEW b, Holds(b, X)
  PROVE  /\ Markers("open", b) = {} => Len(b) <= Len(T) + 1
         /\ Markers("open", b) # {} => Min(Markers("open", b)) = Len(T) + 1 /\ Len(b) >= Len(T) + 2
         /\ Len(X) >= Len(T) + 2
         /\ Len(T) \in Nat
         /\ X[Len(T) + 1] = "<"
         /\ SubSeq(X, 1, Len(T)) = T
         /\ Drop(X, Len(T) + 2) = Z
<1> DEFINE n == Len(T)
           k == Len(b)
           o == <<"<", "open">>
           M == Markers("open", b)
<1>1. T \in Seq(Piece) /\ Markers("open", T) = {} BY DEF PlainText
<1>2. o \in Seq(Piece) /\ Len(o) = 2 /\ o[1] = "<" /\ o[2] = "open" BY Pieces, Two
<1> HIDE DEF o
<1>3. o \o Z \in Seq(Piece) /\ Len(o \o Z) = 2 + Len(Z) /\ (o \o Z)[1] = "<" /\ (o \o Z)[2] = "open"
  <2>0. Z \in Seq(Piece) /\ o \in Seq(Piece) BY <1>2
  <2>1. o \o Z \in Seq(Piece) /\ Len(o \o Z) = Len(o) + Len(Z) BY <2>0, ConcatProperties
  <2>2. 1 \in 1..Len(o) /\ 2 \in 1..Len(o) BY <1>2
  <2>3. \A i \in 1..Len(o) : (o \o Z)[i] = o[i] BY <2>0
  <2> QED BY <1>2, <2>1, <2>2, <2>3
<1>4. n \in Nat /\ k \in Nat /\ Len(Z) \in Nat BY <1>1 DEF Holds
<1> DEFINE oz == o \o Z
<1>5. oz \in Seq(Piece) /\ Len(oz) >= 2 /\ oz[1] = "<" /\ oz[2] = "open" /\ X = T \o oz
  BY <1>3, <1>4 DEF o
<1> HIDE DEF oz
<1>6. /\ X \in Seq(Piece) /\ Len(X) = n + Len(oz)
      /\ \A i \in 1..n : X[i] = T[i]
      /\ X[n + 1] = "<" /\ X[n + 2] = "open"
  <2>1. X \in Seq(Piece) /\ Len(X) = n + Len(oz) BY <1>1, <1>5, ConcatProperties
  <2>2. /\ \A i \in 1..n : (T \o oz)[i] = T[i]
        /\ \A i \in 1..Len(oz) : (T \o oz)[n + i] = oz[i]
    BY <1>1, <1>5
  <2>3. 1 \in 1..Len(oz) /\ 2 \in 1..Len(oz) BY <1>5
  <2> QED BY <1>5, <2>1, <2>2, <2>3
<1>7. \A i \in 1..k : b[i] = X[i] BY HoldsAt
<1>8. k <= Len(X) BY DEF Holds
<1>9. \A i \in M : i >= n + 1
  <2> SUFFICES ASSUME NEW i \in M, ~(i >= n + 1) PROVE FALSE OBVIOUS
  <2>1. i \in 1..(k - 1) /\ b[i] = "<" /\ b[i + 1] = "open" BY DEF Markers
  <2>2. i \in 1..k /\ i + 1 \in 1..k BY <1>4, <2>1
  <2>3. X[i] = "<" /\ X[i + 1] = "open" BY <1>7, <2>1, <2>2
  <2>4. CASE i = n BY <1>6, <2>3, <2>4
  <2>5. CASE i # n
    <3>1. i \in 1..n /\ i + 1 \in 1..n /\ i \in 1..(n - 1) BY <1>4, <2>1, <2>5
    <3>2. T[i] = "<" /\ T[i + 1] = "open" BY <1>6, <2>3, <3>1
    <3> QED BY <1>1, <3>1, <3>2 DEF Markers
  <2> QED BY <2>4, <2>5
<1>10. k >= n + 2 => n + 1 \in M
  <2> SUFFICES ASSUME k >= n + 2 PROVE n + 1 \in M OBVIOUS
  <2>1. n + 1 \in 1..(k - 1) /\ n + 1 \in 1..k /\ n + 2 \in 1..k /\ (n + 1) + 1 = n + 2 BY <1>4
  <2>2. b[n + 1] = "<" /\ b[(n + 1) + 1] = "open" BY <1>6, <1>7, <2>1
  <2> QED BY <2>1, <2>2 DEF Markers
<1>11. M \subseteq 1..(k - 1) BY DEF Markers
<1> HIDE DEF M, n, k
<1>12. M = {} => k <= n + 1 BY <1>4, <1>10
<1>13. M # {} => Min(M) = n + 1 /\ k >= n + 2
  <2> SUFFICES ASSUME M # {} PROVE Min(M) = n + 1 /\ k >= n + 2 OBVIOUS
  <2>1. k >= n + 2
    <3>1. PICK i \in M : TRUE OBVIOUS
    <3>2. i \in 1..(k - 1) /\ i >= n + 1 BY <1>9, <1>11
    <3> QED BY <1>4, <3>2
  <2>2. n + 1 \in M /\ M \in SUBSET Int /\ \A y \in M : n + 1 <= y BY <1>4, <1>9, <1>10, <1>11, <2>1
  <2> QED BY <2>1, <2>2, MinIs
<1>14. Len(X) >= n + 2 BY <1>4, <1>5, <1>6
<1>15. SubSeq(X, 1, n) = T BY <1>1, <1>5, ConcatCutBetween DEF n
<1>16. Drop(X, n + 2) = Z
  <2>1. (T \o o) \o Z = T \o (o \o Z)
    <3>1. AssociativeOn(Piece) BY Associative
    <3> QED BY <1>1, <1>2, <3>1 DEF AssociativeOn
  <2> DEFINE to == T \o o
  <2>2. to \in Seq(Piece) /\ Len(to) = n + 2
    <3>1. to \in Seq(Piece) /\ Len(to) = Len(T) + Len(o) BY <1>1, <1>2, ConcatProperties
    <3> QED BY <1>2, <3>1 DEF n
  <2>3. X = to \o Z BY <1>5, <2>1 DEF oz
  <2> HIDE DEF to
  <2>4. SubSeq(to \o Z, Len(to) + 1, Len(to \o Z)) = Z BY <2>2, ConcatCutBetween
  <2> QED BY <2>2, <2>3, <2>4 DEF Drop
<1> QED BY <1>4, <1>6, <1>12, <1>13, <1>14, <1>15, <1>16 DEF M, n, k

\* The buffer does not end inside a "</param>".
NoSplit(b, X) == 0 < Len(b) /\ Len(b) < Len(X) /\ X[Len(b)] = "<" => X[Len(b) + 1] # "/param"

\* What Ahead says of the fields.
LEMMA Begun ==
  ASSUME NEW ch, NEW p, NEW X, NEW R, Ahead(ch, p, X, R)
  PROVE  /\ p \in Parser /\ p.buffer \in Seq(Piece) /\ Len(p.buffer) \in Nat
         /\ p.call \in [id : CallTags \cup {None}, params : Seq(V4Param), key : ParamTags \cup {None},
                        value : Seq(Piece)]
         /\ p.call.params \in Seq(V4Param)
         /\ Holds(p.buffer, X) /\ R \in Seq(Mine(ch))
BY DEF Ahead, Parser

\* The call that is none.
LEMMA NoCallTyped ==
  /\ NoCall \in [id : CallTags \cup {None}, params : Seq(V4Param), key : ParamTags \cup {None},
                 value : Seq(Piece)]
  /\ NoCall.id = None /\ NoCall.params = <<>> /\ NoCall.key = None /\ NoCall.value = <<>>
<1>1. <<>> \in Seq(V4Param) /\ <<>> \in Seq(Piece) OBVIOUS
<1> QED BY <1>1 DEF NoCall

\* In the mode of content it is text that is ahead.
LEMMA ModeText ==
  ASSUME NEW ch, NEW p, NEW X, NEW R, Ahead(ch, p, X, R), p.mode = "content"
  PROVE  InText(ch, p, X, R)
BY DEF Ahead, InCalls, InCall, InValue

\* feed() emits what is certainly text (dsmlParser.ts), as it was meant.
LEMMA EmitContentPasses ==
  ASSUME NEW ch \in Channels, parser \in [Channels -> Parser], NEW X, NEW R,
         Ahead(ch, parser[ch], X, R), EmitContent(ch)
  PROVE  Passes(ch, X, R)
<1> DEFINE p == parser[ch]
           b == p.buffer
           k == Len(b)
           d == Len(SafePrefix(b))
           q == [p EXCEPT !.buffer = Drop(b, d)]
           e == Texts(ch, SafePrefix(b))
<1>1. /\ p \in Parser /\ b \in Seq(Piece) /\ k \in Nat /\ Holds(b, X)
      /\ R \in Seq(Mine(ch))
  BY Begun
<1>2. p.mode = "content" /\ Markers("open", b) = {} /\ events' = events \o e
      /\ parser' = [parser EXCEPT ![ch].buffer = Drop(@, d)] /\ busy' = None
  BY DEF EmitContent
<1>3. parser' = [parser EXCEPT ![ch] = q] BY <1>2
<1>4. /\ d \in 0..k /\ SafePrefix(b) = SubSeq(b, 1, d) /\ Drop(b, d) \in {<<>>, <<"<">>}
      /\ k > 0 /\ b[k] = "<" => d = k - 1
  BY <1>1, SafeText
<1>5. InText(ch, p, X, R) BY <1>2, ModeText
<1>6. /\ SubSeq(b, 1, d) = SubSeq(X, 1, d)
      /\ Holds(Drop(b, d), Drop(X, d)) /\ k <= Len(X) /\ Len(X) \in Nat
      /\ \A i \in 1..k : b[i] = X[i]
  <2>1. k <= Len(X) BY <1>1 DEF Holds
  <2> HIDE DEF d
  <2> QED BY <1>1, <1>4, <2>1, HoldsAt
<1>7. q \in Parser /\ q.buffer = Drop(b, d) /\ q.mode = "content" /\ q.call = NoCall
  <2>1. p.mode = "content" /\ p.call = NoCall BY <1>5 DEF InText
  <2>2. Drop(b, d) \in Seq(Piece) BY <1>6 DEF Holds
  <2> HIDE DEF d
  <2> QED BY <1>1, <2>1, <2>2 DEF Parser
<1> HIDE DEF d, k, q
<1>8. \E R2 \in Seq(Mine(ch)) : e \in Seq(Mine(ch)) /\ R = e \o R2 /\ TextAhead(ch, Drop(X, d), R2)
  <2> DEFINE s == SafePrefix(b)
  <2>1. s = SubSeq(X, 1, d) /\ e = Texts(ch, s) BY <1>4, <1>6
  <2> HIDE DEF s, e
  <2>2. ASSUME NEW T \in PlainText, d <= Len(T), s = SubSeq(T, 1, d)
        PROVE  /\ Texts(ch, T) = e \o Texts(ch, Drop(T, d)) /\ Drop(T, d) \in PlainText
               /\ e \in Seq(Mine(ch)) /\ Texts(ch, Drop(T, d)) \in Seq(Mine(ch))
               /\ d \in 0..Len(T) /\ T \in Seq(Piece) /\ Drop(T, d) \in Seq(Piece)
    <3>1. T \in Seq(Piece) /\ d \in 0..Len(T) BY <1>1, <1>4, <2>2 DEF PlainText
    <3>2. s \in Seq(Piece) /\ Drop(T, d) \in Seq(Piece) /\ s \o Drop(T, d) = T
      BY <2>2, <3>1, CutInTwo DEF Drop
    <3>3. Texts(ch, s \o Drop(T, d)) = Texts(ch, s) \o Texts(ch, Drop(T, d)) BY <3>2, TextsConcat
    <3>4. Texts(ch, s) \in Seq(Mine(ch)) /\ Texts(ch, Drop(T, d)) \in Seq(Mine(ch))
      BY <3>2, TextsTyped
    <3>5. Drop(T, d) \in PlainText BY <3>1, PlainCut
    <3> QED BY <2>1, <3>1, <3>2, <3>3, <3>4, <3>5
  <2>3. ASSUME NEW T \in PlainText, X = T, R = Texts(ch, T)
        PROVE  \E R2 \in Seq(Mine(ch)) :
                 e \in Seq(Mine(ch)) /\ R = e \o R2 /\ TextAhead(ch, Drop(X, d), R2)
    <3>1. d <= Len(T) BY <1>1, <1>4, <1>6, <2>3
    <3>2. R = e \o Texts(ch, Drop(T, d)) /\ Drop(T, d) \in PlainText /\ e \in Seq(Mine(ch))
          /\ Texts(ch, Drop(T, d)) \in Seq(Mine(ch))
      BY <2>1, <2>2, <2>3, <3>1
    <3>3. TextAhead(ch, Drop(X, d), Texts(ch, Drop(T, d))) BY <2>3, <3>2 DEF TextAhead
    <3> QED BY <3>2, <3>3
  <2>4. ASSUME NEW T \in PlainText, NEW calls \in Seq(V4Call), NEW r \in V4Text,
               X = T \o (<<"<", "open">> \o BlockWire(calls, r)),
               R = Texts(ch, T) \o BlockMeaning(ch, calls, r)
        PROVE  \E R2 \in Seq(Mine(ch)) :
                 e \in Seq(Mine(ch)) /\ R = e \o R2 /\ TextAhead(ch, Drop(X, d), R2)
    <3> DEFINE B == BlockWire(calls, r)
               M == BlockMeaning(ch, calls, r)
               o == <<"<", "open">>
               D == Drop(T, d)
    <3>1. B \in Seq(Piece) /\ M \in Seq(Mine(ch)) /\ <<>> \in Seq(Raw) /\ <<>> \in Seq(V4Param)
      <4>1. <<>> \in Seq(Raw) /\ <<>> \in Seq(V4Param) OBVIOUS
      <4> QED BY <4>1, RestsTyped, BlockMeaningTyped
    <3> HIDE DEF B, M
    <3>2. X = T \o (<<"<", "open">> \o B) /\ R = Texts(ch, T) \o M BY <2>4 DEF B, M
    <3>3. /\ k <= Len(T) + 1 /\ Len(X) >= Len(T) + 2 /\ Len(T) \in Nat
          /\ X[Len(T) + 1] = "<" /\ SubSeq(X, 1, Len(T)) = T
      BY <1>1, <1>2, <3>1, <3>2, OpenMarkers DEF k
    <3>4. d <= Len(T)
      <4>1. CASE k = Len(T) + 1
        <5>1. k > 0 /\ k \in 1..k BY <3>3, <4>1
        <5>2. b[k] = "<" BY <1>6, <3>3, <4>1, <5>1
        <5> QED BY <1>4, <3>3, <4>1, <5>1, <5>2 DEF k
      <4>2. CASE k # Len(T) + 1 BY <1>1, <1>4, <3>3, <4>2 DEF k
      <4> QED BY <4>1, <4>2
    <3>5. o \in Seq(Piece) /\ o \o B \in Seq(Piece)
      <4>1. o \in Seq(Piece) BY Pieces, Two
      <4> HIDE DEF o
      <4> QED BY <3>1, <4>1
    <3> DEFINE oB == o \o B
    <3>6. T \in Seq(Piece) /\ oB \in Seq(Piece) /\ X = T \o oB BY <3>2, <3>5 DEF PlainText
    <3> HIDE DEF oB
    <3>7. d \in 0..Len(T) BY <1>1, <1>4, <3>3, <3>4 DEF k
    <3>8. SubSeq(X, 1, d) = SubSeq(T, 1, d) /\ Drop(X, d) = D \o oB
      BY <3>6, <3>7, ConcatCut DEF Drop
    <3>9. /\ Texts(ch, T) = e \o Texts(ch, D) /\ D \in PlainText
          /\ e \in Seq(Mine(ch)) /\ Texts(ch, D) \in Seq(Mine(ch))
      BY <2>1, <2>2, <3>4, <3>8
    <3> HIDE DEF D
    <3> DEFINE t == Texts(ch, D)
               tM == t \o M
    <3>10. R = (e \o t) \o M /\ t \in Seq(Mine(ch)) BY <3>2, <3>9
    <3>11. TextAhead(ch, Drop(X, d), tM) BY <3>8, <3>9 DEF TextAhead, oB, o, B, M
    <3> HIDE DEF t, e
    <3>12. tM \in Seq(Mine(ch)) BY <3>1, <3>10
    <3>13. R = e \o tM
      <4>1. AssociativeOn(Mine(ch)) BY Associative
      <4> QED BY <3>1, <3>9, <3>10, <4>1 DEF AssociativeOn
    <3> HIDE DEF tM
    <3> QED BY <3>9, <3>11, <3>12, <3>13
  <2> QED BY <1>5, <2>3, <2>4 DEF InText, TextAhead
<1> HIDE DEF e
<1>9. PICK R2 \in Seq(Mine(ch)) :
        e \in Seq(Mine(ch)) /\ R = e \o R2 /\ TextAhead(ch, Drop(X, d), R2)
  BY <1>8
<1>10. Ahead(ch, q, Drop(X, d), R2) BY <1>6, <1>7, <1>9 DEF Ahead, InText
<1>11. Reaches(ch, p, q, X, R, e) BY <1>4, <1>7, <1>9, <1>10 DEF Reaches, k
<1> QED BY <1>2, <1>3, <1>4, <1>7, <1>9, <1>11 DEF Passes, e

\* A block that begins is entered where it was meant to be.
LEMMA OpenBlockPasses ==
  ASSUME NEW ch \in Channels, parser \in [Channels -> Parser], NEW X, NEW R,
         Ahead(ch, parser[ch], X, R), OpenBlock(ch)
  PROVE  Passes(ch, X, R)
<1> DEFINE p == parser[ch]
           b == p.buffer
           m == Min(Markers("open", b))
           q == [p EXCEPT !.buffer = Drop(b, m + 1), !.mode = "block"]
           e == Texts(ch, SubSeq(b, 1, m - 1))
<1>1. /\ p \in Parser /\ b \in Seq(Piece) /\ Len(b) \in Nat /\ Holds(b, X)
      /\ R \in Seq(Mine(ch))
  BY Begun
<1>2. p.mode = "content" /\ Markers("open", b) # {} /\ events' = events \o e
      /\ parser' = [parser EXCEPT ![ch].buffer = Drop(@, m + 1), ![ch].mode = "block"]
      /\ busy' = busy
  BY DEF OpenBlock
<1>3. parser' = [parser EXCEPT ![ch] = q] BY <1>2
<1>4. p.call = NoCall /\ TextAhead(ch, X, R) BY <1>2, ModeText DEF InText
<1>5. ASSUME NEW T \in PlainText, X = T PROVE FALSE
  <2>1. b = SubSeq(T, 1, Len(b)) /\ Len(b) <= Len(T) /\ T \in Seq(Piece) /\ \A i \in 1..Len(b) : b[i] = T[i]
    BY <1>1, <1>5, HoldsAt DEF Holds
  <2>2. Markers("open", b) \subseteq Markers("open", T)
    <3> SUFFICES ASSUME NEW i \in 1..(Len(b) - 1), b[i] = "<", b[i + 1] = "open"
                 PROVE  i \in 1..(Len(T) - 1) /\ T[i] = "<" /\ T[i + 1] = "open"
      BY DEF Markers
    <3>1. i \in 1..Len(b) /\ i + 1 \in 1..Len(b) BY <1>1
    <3> QED BY <1>1, <2>1, <3>1
  <2> QED BY <1>2, <2>2 DEF PlainText
<1>6. PICK T \in PlainText, calls \in Seq(V4Call), r \in V4Text :
        /\ X = T \o (<<"<", "open">> \o BlockWire(calls, r))
        /\ R = Texts(ch, T) \o BlockMeaning(ch, calls, r)
  BY <1>4, <1>5 DEF TextAhead
<1>7. /\ BlockWire(calls, r) \in Seq(Piece) /\ BlockMeaning(ch, calls, r) \in Seq(Mine(ch))
      /\ T \in Seq(Piece)
  <2>1. <<>> \in Seq(Raw) /\ <<>> \in Seq(V4Param) OBVIOUS
  <2> QED BY <2>1, RestsTyped, BlockMeaningTyped DEF PlainText
<1>8. /\ m = Len(T) + 1 /\ Len(b) >= Len(T) + 2 /\ SubSeq(X, 1, Len(T)) = T
      /\ Drop(X, Len(T) + 2) = BlockWire(calls, r) /\ Len(T) \in Nat
  BY <1>1, <1>2, <1>6, <1>7, OpenMarkers
<1> HIDE DEF m
<1> DEFINE d == Len(T) + 2
           n == Len(T)
<1>9. d \in 0..Len(b) /\ n \in 0..Len(b) /\ m - 1 = n /\ m + 1 = d BY <1>1, <1>8
<1> HIDE DEF d, n
<1>10. /\ SubSeq(b, 1, n) = SubSeq(X, 1, n) /\ Holds(Drop(b, d), Drop(X, d))
  BY <1>1, <1>9, HoldsAt
<1>11. e = Texts(ch, T) /\ q.buffer = Drop(b, d) /\ q.mode = "block" /\ q.call = NoCall
       /\ Drop(X, d) = BlockWire(calls, r)
  BY <1>1, <1>4, <1>8, <1>9, <1>10 DEF n, d, Parser
<1>12. q \in Parser
  <2>1. Drop(b, d) \in Seq(Piece) BY <1>10 DEF Holds
  <2>2. Drop(b, m + 1) \in Seq(Piece) BY <1>9, <2>1
  <2> HIDE DEF b
  <2> QED BY <1>1, <2>2 DEF Parser
<1>13. e \in Seq(Mine(ch)) BY <1>7, <1>11, TextsTyped
<1> HIDE DEF q, e
<1>14. Ahead(ch, q, Drop(X, d), BlockMeaning(ch, calls, r))
  BY <1>7, <1>10, <1>11, <1>12 DEF Ahead, InCalls
<1>15. Reaches(ch, p, q, X, R, e) BY <1>6, <1>7, <1>9, <1>11, <1>14 DEF Reaches
<1>16. /\ parser' = [parser EXCEPT ![ch] = q] /\ events' = events \o e
       /\ busy' = busy \/ (busy' = None /\ q.buffer \in {<<>>, <<"<">>})
       /\ Reaches(ch, parser[ch], q, X, R, e)
  BY <1>2, <1>3, <1>15
<1> QED BY <1>12, <1>13, <1>16, Zenon DEF Passes

-----------------------------------------------------------------------------
(* The parser between the tags of a block                                  *)

\* A tag at the beginning is found there.
LEMMA TagFound ==
  ASSUME NEW s \in Seq(Piece), NEW tag \in Rests, Len(s) >= 2, s[1] = "<", s[2] = tag
  PROVE  /\ Contains(s, "<") /\ TagStart(s) = 1 /\ TagEnds(s) # {} /\ Min(TagEnds(s)) = 2
<1>1. Len(s) \in Nat /\ DOMAIN s = 1..Len(s) /\ 1 \in 1..Len(s) /\ 2 \in 1..Len(s) OBVIOUS
<1>2. Contains(s, "<") BY <1>1 DEF Contains
<1>3. TagStart(s) = 1
  <2> DEFINE A == {i \in DOMAIN s : s[i] = "<"}
  <2>1. A \in SUBSET Int /\ 1 \in A /\ \A y \in A : 1 <= y BY <1>1
  <2> HIDE DEF A
  <2>2. Min(A) = 1 BY <2>1, MinIs
  <2> QED BY <2>2 DEF A, TagStart
<1>4. 2 \in TagEnds(s) /\ \A y \in TagEnds(s) : 2 <= y
  <2>1. TagEnds(s) = {i \in 1..Len(s) : s[i] \in Rests} BY <1>3 DEF TagEnds
  <2>2. "<" \notin Rests BY Pieces
  <2> QED BY <1>1, <2>1, <2>2
<1>5. Min(TagEnds(s)) = 2
  <2> DEFINE A == TagEnds(s)
  <2>1. A \in SUBSET Int BY <1>1, <1>3 DEF TagEnds
  <2> HIDE DEF A
  <2>2. 2 \in A /\ \A y \in A : 2 <= y BY <1>4 DEF A
  <2>3. Min(A) = 2 BY <2>1, <2>2, MinIs
  <2> QED BY <2>3 DEF A
<1> QED BY <1>2, <1>3, <1>4, <1>5

\* The start of a tag is no tag, and nothing has none.
LEMMA NoTagYet ==
  /\ Contains(<<"<">>, "<") /\ TagStart(<<"<">>) = 1 /\ TagEnds(<<"<">>) = {}
  /\ ~Contains(<<>>, "<")
<1> DEFINE s == <<"<">>
<1>1. Len(s) = 1 /\ DOMAIN s = {1} /\ s[1] = "<" OBVIOUS
<1>2. Len(<<>>) = 0 OBVIOUS
<1> HIDE DEF s
<1>3. Contains(s, "<") BY <1>1 DEF Contains
<1>4. TagStart(s) = 1
  <2> DEFINE A == {i \in DOMAIN s : s[i] = "<"}
  <2>1. A \in SUBSET Int /\ 1 \in A /\ \A y \in A : 1 <= y BY <1>1
  <2> HIDE DEF A
  <2>2. Min(A) = 1 BY <2>1, MinIs
  <2> QED BY <2>2 DEF A, TagStart
<1>5. TagEnds(s) = {}
  <2>1. TagEnds(s) = {i \in 1..1 : s[i] \in Rests} BY <1>1, <1>4 DEF TagEnds
  <2>2. "<" \notin Rests BY Pieces
  <2>3. \A i \in 1..1 : i = 1 OBVIOUS
  <2> QED BY <1>1, <2>1, <2>2, <2>3
<1>6. ~Contains(<<>>, "<") BY <1>2 DEF Contains
<1> QED BY <1>3, <1>4, <1>5, <1>6 DEF s

\* A segment is a prefix of the buffer; the end of the block follows it.
LEMMA SegmentIs ==
  ASSUME NEW p, p.buffer \in Seq(Piece)
  PROVE  /\ Markers("close", p.buffer) = {} => Segment(p) = p.buffer
         /\ \A m \in Markers("close", p.buffer) : m \in 1..(Len(p.buffer) - 1)
         /\ Markers("close", p.buffer) # {} =>
              \E m \in Markers("close", p.buffer) :
                /\ Segment(p) = SubSeq(p.buffer, 1, m - 1) /\ Len(Segment(p)) = m - 1
                /\ \A y \in Markers("close", p.buffer) : m <= y
         /\ Segment(p) \in Seq(Piece)
<1> DEFINE b == p.buffer
           M == Markers("close", b)
<1>0. b \in Seq(Piece) /\ Len(b) \in Nat OBVIOUS
<1>1. M = {} => Segment(p) = b BY DEF Segment
<1>2. M # {} => Segment(p) = SubSeq(b, 1, Min(M) - 1) BY DEF Segment
<1>3. \A m \in M : m \in 1..(Len(b) - 1) BY DEF Markers
<1> HIDE DEF M
<1>4. ASSUME M # {}
      PROVE  \E m \in M : /\ Segment(p) = SubSeq(b, 1, m - 1) /\ Len(Segment(p)) = m - 1
                          /\ \A y \in M : m <= y
                          /\ Segment(p) \in Seq(Piece)
  <2>1. M \in SUBSET Nat BY <1>0, <1>3
  <2>2. Min(M) \in M /\ \A y \in M : Min(M) <= y BY <1>4, <2>1, MinExists
  <2> DEFINE n == Min(M)
  <2> HIDE DEF n, b
  <2>3. n \in 1..(Len(b) - 1) BY <1>3, <2>2 DEF n
  <2>4. n - 1 \in 0..Len(b) BY <1>0, <2>3
  <2>5. SubSeq(b, 1, n - 1) \in Seq(Piece) /\ Len(SubSeq(b, 1, n - 1)) = n - 1
    BY <1>0, <2>4, CutInTwo
  <2> QED BY <1>2, <1>4, <2>2, <2>5 DEF n
<1> QED BY <1>0, <1>1, <1>3, <1>4 DEF M

\* A tag is ahead.
Comes(tag, Z, X) == tag \in Rests /\ Z \in Seq(Piece) /\ X = <<"<", tag>> \o Z

\* What the parser p makes of it.
Shows(tag, Z, X, p) ==
  /\ Len(X) >= 2 /\ Drop(X, 2) = Z
  /\ Len(p.buffer) = 0 => p.buffer = <<>> /\ Segment(p) = <<>>
  /\ Len(p.buffer) = 1 => Segment(p) = <<"<">> /\ p.buffer = <<"<">>
  /\ Len(p.buffer) >= 2 /\ tag = "close" => Segment(p) = <<>>
  /\ Len(p.buffer) >= 2 /\ tag # "close" =>
       /\ Contains(Segment(p), "<") /\ TagStart(Segment(p)) = 1
       /\ TagEnds(Segment(p)) # {} /\ Min(TagEnds(Segment(p))) = 2 /\ Segment(p)[2] = tag

\* It finds the tag when it is whole, and its start or nothing before.
LEMMA TagAhead ==
  ASSUME NEW tag, NEW Z, NEW X, Comes(tag, Z, X), NEW p, Holds(p.buffer, X)
  PROVE  Shows(tag, Z, X, p)
<1>0. tag \in Rests /\ Z \in Seq(Piece) /\ X = <<"<", tag>> \o Z BY DEF Comes
<1> DEFINE b == p.buffer
           k == Len(b)
           o == <<"<", tag>>
           M == Markers("close", b)
           s == Segment(p)
<1>1. o \in Seq(Piece) /\ Len(o) = 2 /\ o[1] = "<" /\ o[2] = tag BY <1>0, Pieces, Two
<1> HIDE DEF o
<1>2. X = o \o Z BY <1>0 DEF o
<1>3. X \in Seq(Piece) /\ Len(X) >= 2 /\ X[1] = "<" /\ X[2] = tag
  <2>1. o \o Z \in Seq(Piece) /\ Len(o \o Z) = Len(o) + Len(Z) BY <1>0, <1>1, ConcatProperties
  <2>0. o \in Seq(Piece) /\ Z \in Seq(Piece) BY <1>0, <1>1
  <2>2. \A i \in 1..Len(o) : (o \o Z)[i] = o[i] BY <2>0
  <2>3. 1 \in 1..Len(o) /\ 2 \in 1..Len(o) /\ Len(Z) \in Nat BY <1>0, <1>1
  <2> QED BY <1>1, <1>2, <2>1, <2>2, <2>3
<1>4. Drop(X, 2) = Z
  <2>1. SubSeq(o \o Z, Len(o) + 1, Len(o \o Z)) = Z BY <1>0, <1>1, ConcatCutBetween
  <2> QED BY <1>1, <1>2, <2>1 DEF Drop
<1>5. b \in Seq(Piece) /\ k \in Nat /\ \A i \in 1..k : b[i] = X[i] BY HoldsAt DEF Holds
<1>6. /\ M = {} => s = b
      /\ \A m \in M : m \in 1..(k - 1) /\ b[m] = "<" /\ b[m + 1] = "close"
      /\ M # {} => \E m \in M : s = SubSeq(b, 1, m - 1) /\ Len(s) = m - 1 /\ \A y \in M : m <= y
      /\ s \in Seq(Piece)
  BY <1>5, SegmentIs DEF Markers
<1>7. k >= 2 /\ tag = "close" => 1 \in M
  <2> SUFFICES ASSUME k >= 2, tag = "close" PROVE 1 \in M OBVIOUS
  <2>1. 1 \in 1..k /\ 2 \in 1..k /\ 1 \in 1..(k - 1) /\ 1 + 1 = 2 BY <1>5
  <2> QED BY <1>3, <1>5, <2>1 DEF Markers
<1> HIDE DEF M, s, k, b
<1>8. k = 0 => b = <<>> /\ s = <<>> BY <1>5, <1>6, EmptySeq DEF k
<1>9. k = 1 => s = <<"<">> /\ b = <<"<">>
  <2> SUFFICES ASSUME k = 1 PROVE s = <<"<">> /\ b = <<"<">> OBVIOUS
  <2>1. M = {} BY <1>6
  <2>2. b[1] = "<" /\ Len(b) = 1 BY <1>3, <1>5 DEF k
  <2> QED BY <1>5, <1>6, <2>1, <2>2
<1>10. k >= 2 /\ tag = "close" => s = <<>>
  <2> SUFFICES ASSUME k >= 2, tag = "close" PROVE s = <<>> OBVIOUS
  <2>1. PICK m \in M : Len(s) = m - 1 /\ m <= 1 BY <1>6, <1>7
  <2>2. m \in 1..(k - 1) BY <1>6
  <2>3. Len(s) = 0 BY <1>5, <2>1, <2>2
  <2> QED BY <1>6, <2>3, EmptySeq
<1>11. k >= 2 /\ tag # "close" =>
         Len(s) >= 2 /\ s[1] = "<" /\ s[2] = tag
  <2> SUFFICES ASSUME k >= 2, tag # "close" PROVE Len(s) >= 2 /\ s[1] = "<" /\ s[2] = tag OBVIOUS
  <2>1. 1 \in 1..k /\ 2 \in 1..k BY <1>5
  <2>2. b[1] = "<" /\ b[2] = tag BY <1>3, <1>5, <2>1
  <2>3. CASE M = {} BY <1>6, <2>2, <2>3 DEF k
  <2>4. CASE M # {}
    <3>1. PICK m \in M : s = SubSeq(b, 1, m - 1) /\ Len(s) = m - 1 BY <1>6, <2>4
    <3>2. m \in 1..(k - 1) /\ b[m] = "<" /\ b[m + 1] = "close" BY <1>6
    <3>3. m # 1 BY <2>2, <3>2
    <3>4. m # 2
      <4>1. tag # "<" BY <1>0, Pieces
      <4> QED BY <2>2, <3>2, <4>1
    <3>5. m - 1 \in 0..Len(b) /\ 1 \in 1..(m - 1) /\ 2 \in 1..(m - 1) /\ m - 1 >= 2
      BY <1>5, <3>2, <3>3, <3>4 DEF k
    <3>6. \A i \in 1..(m - 1) : SubSeq(b, 1, m - 1)[i] = b[i] BY <1>5, <3>5, CutInTwo
    <3> QED BY <2>2, <3>1, <3>5, <3>6
  <2> QED BY <2>3, <2>4
<1>12. k >= 2 /\ tag # "close" =>
         Contains(s, "<") /\ TagStart(s) = 1 /\ TagEnds(s) # {} /\ Min(TagEnds(s)) = 2
  BY <1>0, <1>6, <1>11, TagFound
<1> QED BY <1>3, <1>4, <1>5, <1>8, <1>9, <1>10, <1>11, <1>12 DEF b, k, s, Shows

\* The four tags a block may go on with, what comes after and what it means.
Closes(ch, tag, Z, R) == tag = "close" /\ \E r \in V4Text : Z = WireOf(r) /\ R = MeaningOf(ch, r)

\* A call begins;
BeginsCall(ch, p, tag, Z, R) ==
  /\ tag \in CallTags /\ p.call = NoCall
  /\ \E params \in Seq(V4Param), calls \in Seq(V4Call), r \in V4Text :
       /\ Z = CallRest(params, calls, r)
       /\ R = <<ToolCall(ch, tag, Args(params))>> \o BlockMeaning(ch, calls, r)

\* it ends, and has what was read of it;
EndsCall(ch, p, tag, Z, R) ==
  /\ tag = "/call" /\ p.call.id \in CallTags
  /\ \E calls \in Seq(V4Call), r \in V4Text :
       /\ Z = BlockWire(calls, r)
       /\ R = <<ToolCall(ch, p.call.id, Args(p.call.params))>> \o BlockMeaning(ch, calls, r)

\* or a parameter of it begins.
BeginsParam(ch, p, tag, Z, R) ==
  /\ tag \in ParamTags /\ p.call.id \in CallTags /\ p.call.value = <<>>
  /\ \E v \in Seq(Raw), params \in Seq(V4Param), calls \in Seq(V4Call), r \in V4Text :
       /\ Z = ValueRest(v, params, calls, r)
       /\ R = <<ToolCall(ch, p.call.id,
                 Args(Append(p.call.params, [key |-> tag, value |-> v]) \o params))>>
              \o BlockMeaning(ch, calls, r)

\* Concatenating is appending the first and concatenating the others.
LEMMA AppendConcat ==
  ASSUME NEW S, NEW a \in Seq(S), NEW b \in Seq(S), b # <<>>
  PROVE  a \o b = Append(a, b[1]) \o Tail(b)
<1>1. Tail(b) \in Seq(S) /\ b[1] \in S /\ Len(Tail(b)) = Len(b) - 1 /\ Len(b) > 0
      /\ \A i \in 1..(Len(b) - 1) : Tail(b)[i] = b[i + 1]
  BY TailTyped
<1> DEFINE t == Tail(b)
           c == Append(a, b[1])
<1>2. c \in Seq(S) /\ Len(c) = Len(a) + 1 /\ c[Len(a) + 1] = b[1]
      /\ \A i \in 1..Len(a) : c[i] = a[i]
  BY <1>1
<1>3. t \in Seq(S) /\ Len(t) = Len(b) - 1 /\ \A i \in 1..(Len(b) - 1) : t[i] = b[i + 1] BY <1>1
<1>4. Len(a) \in Nat /\ Len(b) \in Nat OBVIOUS
<1> HIDE DEF t, c
<1>5. a \o b \in Seq(S) /\ Len(a \o b) = Len(a) + Len(b)
      /\ \A i \in 1..(Len(a) + Len(b)) : (a \o b)[i] = IF i <= Len(a) THEN a[i] ELSE b[i - Len(a)]
  BY ConcatProperties
<1>6. c \o t \in Seq(S) /\ Len(c \o t) = Len(c) + Len(t)
      /\ \A i \in 1..(Len(c) + Len(t)) : (c \o t)[i] = IF i <= Len(c) THEN c[i] ELSE t[i - Len(c)]
  BY <1>2, <1>3, ConcatProperties
<1>7. Len(c) + Len(t) = Len(a) + Len(b) BY <1>2, <1>3, <1>4
<1>8. ASSUME NEW i \in 1..(Len(a) + Len(b)) PROVE (a \o b)[i] = (c \o t)[i]
  <2>1. (a \o b)[i] = IF i <= Len(a) THEN a[i] ELSE b[i - Len(a)] BY <1>5
  <2>2. (c \o t)[i] = IF i <= Len(a) + 1 THEN c[i] ELSE t[i - (Len(a) + 1)] BY <1>2, <1>6, <1>7
  <2> HIDE DEF t, c
  <2>3. CASE i <= Len(a)
    <3>1. i \in 1..Len(a) /\ i <= Len(a) + 1 BY <1>4, <2>3
    <3> QED BY <1>2, <2>1, <2>2, <2>3, <3>1
  <2>4. CASE i = Len(a) + 1
    <3>1. i - Len(a) = 1 /\ ~(i <= Len(a)) BY <1>4, <2>4
    <3> QED BY <1>2, <2>1, <2>2, <2>4, <3>1
  <2>5. CASE i > Len(a) + 1
    <3>1. i - (Len(a) + 1) \in 1..(Len(b) - 1) /\ ~(i <= Len(a)) /\ ~(i <= Len(a) + 1)
          /\ (i - (Len(a) + 1)) + 1 = i - Len(a)
      BY <1>4, <2>5
    <3> QED BY <1>3, <2>1, <2>2, <3>1
  <2>6. i <= Len(a) \/ i = Len(a) + 1 \/ i > Len(a) + 1
    <3> DEFINE m == Len(a)
               n == Len(b)
    <3>1. m \in Nat /\ n \in Nat /\ i \in 1..(m + n) BY <1>4
    <3> HIDE DEF m, n
    <3>2. i <= m \/ i = m + 1 \/ i > m + 1 BY <3>1
    <3> QED BY <3>2 DEF m
  <2> QED BY <2>3, <2>4, <2>5, <2>6
<1>9. Len(a \o b) = Len(c \o t) /\ \A i \in 1..Len(a \o b) : (a \o b)[i] = (c \o t)[i]
  BY <1>5, <1>6, <1>7, <1>8
<1> QED BY <1>5, <1>6, <1>9, SeqEqual DEF t, c

\* Outside of a value one of the four is ahead in a block.
LEMMA NextTag ==
  ASSUME NEW ch, NEW p, NEW X, NEW R, Ahead(ch, p, X, R), p.mode = "block", p.call.key = None
  PROVE  \E tag, Z :
           /\ Comes(tag, Z, X)
           /\ \/ Closes(ch, tag, Z, R) \/ BeginsCall(ch, p, tag, Z, R)
              \/ EndsCall(ch, p, tag, Z, R) \/ BeginsParam(ch, p, tag, Z, R)
<1>1. p.call.params \in Seq(V4Param) /\ <<>> \in Seq(V4Param) /\ <<>> \in Seq(Raw) BY Begun
<1>2. {"close", "/call"} \subseteq Rests /\ CallTags \subseteq Rests /\ ParamTags \subseteq Rests
  BY Pieces
<1>3. CASE InCalls(ch, p, X, R)
  <2>1. PICK calls \in Seq(V4Call), r \in V4Text :
          X = BlockWire(calls, r) /\ R = BlockMeaning(ch, calls, r)
    BY <1>3 DEF InCalls
  <2>2. CASE calls = <<>>
    <3>1. X = <<"<", "close">> \o WireOf(r) /\ R = MeaningOf(ch, r)
      BY <2>1, <2>2, BlockEnds, NoMoreCalls
    <3>2. WireOf(r) \in Seq(Piece) BY WireOfTyped
    <3>3. Closes(ch, "close", WireOf(r), R) BY <3>1 DEF Closes
    <3>4. Comes("close", WireOf(r), X) BY <1>2, <3>1, <3>2 DEF Comes
    <3> QED BY <3>3, <3>4
  <2>3. CASE calls # <<>>
    <3> DEFINE tag == calls[1].id
               Z == CallRest(calls[1].params, Tail(calls), r)
    <3>1. /\ calls[1] \in V4Call /\ Tail(calls) \in Seq(V4Call)
          /\ X = <<"<", tag>> \o Z
      BY <2>1, <2>3, FirstCall
    <3>2. R = <<ToolCall(ch, tag, Args(calls[1].params))>> \o BlockMeaning(ch, Tail(calls), r)
      BY <2>1, <2>3, NextCall
    <3>3. tag \in CallTags /\ calls[1].params \in Seq(V4Param) BY <3>1 DEF V4Call
    <3>4. Z \in Seq(Piece) BY <1>1, <3>1, <3>3, RestsTyped
    <3>5. BeginsCall(ch, p, tag, Z, R) BY <1>3, <3>1, <3>2, <3>3 DEF BeginsCall, InCalls
    <3> HIDE DEF tag, Z
    <3>6. Comes(tag, Z, X) BY <1>2, <3>1, <3>3, <3>4 DEF Comes
    <3> QED BY <3>5, <3>6
  <2> QED BY <2>2, <2>3
<1>4. CASE InCall(ch, p, X, R)
  <2>1. PICK params \in Seq(V4Param), calls \in Seq(V4Call), r \in V4Text :
          /\ X = CallRest(params, calls, r)
          /\ R = <<ToolCall(ch, p.call.id, Args(p.call.params \o params))>>
                 \o BlockMeaning(ch, calls, r)
    BY <1>4 DEF InCall
  <2>2. p.call.id \in CallTags /\ p.call.value = <<>> BY <1>4 DEF InCall
  <2>3. CASE params = <<>>
    <3> DEFINE Z == BlockWire(calls, r)
    <3>1. X = <<"<", "/call">> \o Z BY <2>1, <2>3, CallEnds
    <3>2. p.call.params \o <<>> = p.call.params BY <1>1, ConcatEmptySeq
    <3>3. R = <<ToolCall(ch, p.call.id, Args(p.call.params))>> \o BlockMeaning(ch, calls, r)
      BY <2>1, <2>3, <3>2
    <3>4. Z \in Seq(Piece) BY <1>1, RestsTyped
    <3>5. EndsCall(ch, p, "/call", Z, R) BY <2>2, <3>3 DEF EndsCall
    <3> HIDE DEF Z
    <3>6. Comes("/call", Z, X) BY <1>2, <3>1, <3>4 DEF Comes
    <3> QED BY <3>5, <3>6
  <2>4. CASE params # <<>>
    <3> DEFINE f == params[1]
               t == Tail(params)
               tag == f.key
               v == f.value
               Z == ValueRest(v, t, calls, r)
    <3>1. f \in V4Param /\ t \in Seq(V4Param) /\ X = <<"<", tag>> \o Z
      BY <2>1, <2>4, FirstParam
    <3>2. p.call.params \o params = Append(p.call.params, f) \o t BY <1>1, <2>4, AppendConcat
    <3> HIDE DEF f, t
    <3>3. tag \in ParamTags /\ v \in Seq(Raw) /\ f = [key |-> tag, value |-> v]
      BY <3>1, Pieces
    <3>4. Z \in Seq(Piece) BY <3>1, <3>3, RestsTyped
    <3> HIDE DEF tag, v
    <3>5. p.call.params \o params = Append(p.call.params, [key |-> tag, value |-> v]) \o t
      BY <3>2, <3>3
    <3>6. R = <<ToolCall(ch, p.call.id,
                  Args(Append(p.call.params, [key |-> tag, value |-> v]) \o t))>>
              \o BlockMeaning(ch, calls, r)
      BY <2>1, <3>5
    <3>7. BeginsParam(ch, p, tag, Z, R) BY <2>2, <3>1, <3>3, <3>6 DEF BeginsParam
    <3> HIDE DEF Z
    <3>8. Comes(tag, Z, X) BY <1>2, <3>1, <3>3, <3>4 DEF Comes
    <3> QED BY <3>7, <3>8
  <2> QED BY <2>3, <2>4
<1>5. ~InText(ch, p, X, R) /\ ~InValue(ch, p, X, R)
  <2>1. None \notin ParamTags BY <1>2, Pieces
  <2> QED BY <2>1 DEF InText, InValue
<1> QED BY <1>3, <1>4, <1>5 DEF Ahead

\* A pass that changes nothing but busy leaves what is ahead.
LEMMA NoChange ==
  ASSUME NEW ch \in Channels, parser \in [Channels -> Parser], NEW X, NEW R,
         Ahead(ch, parser[ch], X, R),
         parser' = parser, events' = events, busy' = None,
         parser[ch].buffer \in {<<>>, <<"<">>}, \E S : events \in Seq(S)
  PROVE  Passes(ch, X, R)
<1> DEFINE p == parser[ch]
           b == p.buffer
<1>1. /\ p \in Parser /\ b \in Seq(Piece) /\ Len(b) \in Nat /\ Holds(b, X) /\ R \in Seq(Mine(ch))
  BY Begun
<1>2. X \in Seq(Piece) BY <1>1 DEF Holds
<1>3. Drop(b, 0) = b /\ Drop(X, 0) = X BY <1>1, <1>2, SubSeqFull DEF Drop
<1>4. <<>> \o R = R /\ <<>> \in Seq(Mine(ch)) BY <1>1, ConcatEmptySeq
<1>5. 0 \in 0..Len(b) BY <1>1
<1>6. Reaches(ch, p, p, X, R, <<>>) BY <1>1, <1>3, <1>4, <1>5 DEF Reaches
<1>7. parser' = [parser EXCEPT ![ch] = p] OBVIOUS
<1>8. events' = events \o <<>> BY ConcatEmptySeq
<1> HIDE DEF p
<1>9. /\ parser' = [parser EXCEPT ![ch] = p] /\ events' = events \o <<>>
      /\ busy' = busy \/ (busy' = None /\ p.buffer \in {<<>>, <<"<">>})
      /\ Reaches(ch, parser[ch], p, X, R, <<>>)
  BY <1>6, <1>7, <1>8 DEF p
<1> QED BY <1>1, <1>4, <1>9, Zenon DEF Passes

\* Between tags there is nothing to skip, except the end of the block.
LEMMA SkipTextPasses ==
  ASSUME NEW ch \in Channels, parser \in [Channels -> Parser], NEW X, NEW R,
         Ahead(ch, parser[ch], X, R), SkipText(ch), \E S : events \in Seq(S)
  PROVE  Passes(ch, X, R)
<1> DEFINE p == parser[ch]
           b == p.buffer
           k == Len(b)
<1>1. /\ p \in Parser /\ b \in Seq(Piece) /\ k \in Nat /\ Holds(b, X) /\ R \in Seq(Mine(ch))
  BY Begun
<1>2. /\ p.mode = "block" /\ p.call.key = None /\ ~Contains(Segment(p), "<")
      /\ EndSegment(ch, p.call)
  BY DEF SkipText, InBlock
<1>3. PICK tag, Z :
        /\ Comes(tag, Z, X)
        /\ \/ Closes(ch, tag, Z, R) \/ BeginsCall(ch, p, tag, Z, R)
           \/ EndsCall(ch, p, tag, Z, R) \/ BeginsParam(ch, p, tag, Z, R)
  BY <1>2, NextTag
<1>4. /\ Len(X) >= 2 /\ Drop(X, 2) = Z
      /\ k = 0 => b = <<>> /\ Segment(p) = <<>>
      /\ k = 1 => Segment(p) = <<"<">>
      /\ k >= 2 /\ tag = "close" => Segment(p) = <<>>
      /\ k >= 2 /\ tag # "close" => Contains(Segment(p), "<")
  <2>1. Holds(p.buffer, X) /\ Comes(tag, Z, X) BY <1>1, <1>3
  <2> HIDE DEF p
  <2>2. Shows(tag, Z, X, p) BY <2>1, TagAhead
  <2> QED BY <2>2 DEF Shows
<1>5. CASE k = 0
  <2>1. Len(Segment(p)) = 0 /\ b = <<>> BY <1>4, <1>5
  <2>2. /\ parser' = [parser EXCEPT ![ch].buffer = <<>>, ![ch].call = p.call]
        /\ busy' = None /\ events' = events
    BY <1>2, <1>5, <2>1 DEF EndSegment
  <2>3. parser' = parser BY <1>1, <2>1, <2>2 DEF Parser
  <2>4. b \in {<<>>, <<"<">>} BY <2>1
  <2> QED BY <2>2, <2>3, <2>4, NoChange
<1>6. CASE k = 1 BY <1>2, <1>4, <1>6, NoTagYet
<1>7. CASE k >= 2
  <2>1. tag = "close" /\ Len(Segment(p)) = 0 BY <1>2, <1>4, <1>7
  <2>2. Closes(ch, tag, Z, R)
    BY <1>3, <2>1, Pieces DEF BeginsCall, EndsCall, BeginsParam
  <2> DEFINE q == [buffer |-> Drop(b, 2), mode |-> "content", call |-> NoCall]
  <2>3. parser' = [parser EXCEPT ![ch] = q] /\ busy' = busy /\ events' = events
    BY <1>2, <1>7, <2>1 DEF EndSegment
  <2>4. PICK r \in V4Text : Z = WireOf(r) /\ R = MeaningOf(ch, r) BY <2>2 DEF Closes
  <2>5. TextAhead(ch, Z, R) BY <2>4, TextComes
  <2>6. 2 \in 0..Len(b) BY <1>1, <1>7
  <2>7. Holds(Drop(b, 2), Drop(X, 2)) BY <1>1, <2>6, HoldsAt
  <2>8. q \in Parser /\ q.buffer = Drop(b, 2) /\ q.mode = "content" /\ q.call = NoCall
    BY <2>7, NoCallTyped DEF Parser, Holds
  <2> HIDE DEF q
  <2>9. Ahead(ch, q, Drop(X, 2), R) BY <1>1, <1>4, <2>5, <2>7, <2>8 DEF Ahead, InText
  <2>10. <<>> \o R = R /\ <<>> \in Seq(Mine(ch)) BY <1>1, ConcatEmptySeq
  <2>11. Reaches(ch, p, q, X, R, <<>>) BY <1>1, <2>6, <2>8, <2>9, <2>10 DEF Reaches
  <2>12. events' = events \o <<>> BY <2>3, ConcatEmptySeq
  <2>13. /\ parser' = [parser EXCEPT ![ch] = q] /\ events' = events \o <<>>
         /\ busy' = busy \/ (busy' = None /\ q.buffer \in {<<>>, <<"<">>})
         /\ Reaches(ch, parser[ch], q, X, R, <<>>)
    BY <2>3, <2>11, <2>12
  <2> QED BY <2>8, <2>10, <2>13, Zenon DEF Passes
<1>8. k = 0 \/ k = 1 \/ k >= 2
  <2>1. k \in Nat BY <1>1
  <2> HIDE DEF k
  <2> QED BY <2>1
<1> QED BY <1>5, <1>6, <1>7, <1>8

\* The start of a tag is kept until the tag is whole.
LEMMA AwaitTagPasses ==
  ASSUME NEW ch \in Channels, parser \in [Channels -> Parser], NEW X, NEW R,
         Ahead(ch, parser[ch], X, R), AwaitTag(ch), \E S : events \in Seq(S)
  PROVE  Passes(ch, X, R)
<1> DEFINE p == parser[ch]
           b == p.buffer
           k == Len(b)
<1>1. /\ p \in Parser /\ b \in Seq(Piece) /\ k \in Nat /\ Holds(b, X) /\ R \in Seq(Mine(ch))
  BY Begun
<1>2. /\ p.mode = "block" /\ p.call.key = None /\ Contains(Segment(p), "<")
      /\ TagEnds(Segment(p)) = {}
      /\ parser' = [parser EXCEPT ![ch].buffer = Drop(@, TagStart(@) - 1)]
      /\ busy' = None /\ events' = events
  BY DEF AwaitTag, InBlock
<1>3. PICK tag, Z :
        /\ Comes(tag, Z, X)
        /\ \/ Closes(ch, tag, Z, R) \/ BeginsCall(ch, p, tag, Z, R)
           \/ EndsCall(ch, p, tag, Z, R) \/ BeginsParam(ch, p, tag, Z, R)
  BY <1>2, NextTag
<1>4. /\ k = 0 => Segment(p) = <<>>
      /\ k = 1 => b = <<"<">>
      /\ k >= 2 /\ tag = "close" => Segment(p) = <<>>
      /\ k >= 2 /\ tag # "close" => TagEnds(Segment(p)) # {}
  <2>1. Holds(p.buffer, X) /\ Comes(tag, Z, X) BY <1>1, <1>3
  <2> HIDE DEF p
  <2>2. Shows(tag, Z, X, p) BY <2>1, TagAhead
  <2> QED BY <2>2 DEF Shows
<1>5. b = <<"<">>
  <2>1. k # 0 /\ ~(k >= 2) BY <1>2, <1>4, NoTagYet
  <2>2. k = 0 \/ k = 1 \/ k >= 2
    <3>1. k \in Nat BY <1>1
    <3> HIDE DEF k
    <3> QED BY <3>1
  <2> QED BY <1>4, <2>1, <2>2
<1>6. TagStart(b) - 1 = 0
  <2>1. TagStart(b) = 1 BY <1>5, NoTagYet
  <2> QED BY <2>1
<1>7. Drop(b, 0) = b BY <1>1, SubSeqFull DEF Drop
<1>8. parser' = [parser EXCEPT ![ch].buffer = b] BY <1>2, <1>6, <1>7
<1>9. parser' = parser BY <1>1, <1>8 DEF Parser
<1>10. b \in {<<>>, <<"<">>} BY <1>5
<1> QED BY <1>2, <1>9, <1>10, NoChange

\* A tag begins or ends the call or begins the parameter it was meant to.
LEMMA ReadTagPasses ==
  ASSUME NEW ch \in Channels, parser \in [Channels -> Parser], NEW X, NEW R,
         Ahead(ch, parser[ch], X, R), ReadTag(ch), \E S : events \in Seq(S)
  PROVE  Passes(ch, X, R)
<1> DEFINE p == parser[ch]
           b == p.buffer
           k == Len(b)
           Call == [id : CallTags \cup {None}, params : Seq(V4Param), key : ParamTags \cup {None},
                    value : Seq(Piece)]
<1>1. /\ p \in Parser /\ b \in Seq(Piece) /\ k \in Nat /\ Holds(b, X) /\ R \in Seq(Mine(ch))
      /\ p.call \in Call
  BY Begun
<1>2. /\ p.mode = "block" /\ p.call.key = None /\ Contains(Segment(p), "<")
      /\ TagEnds(Segment(p)) # {}
  BY DEF ReadTag, InBlock
<1>3. PICK tag, Z :
        /\ Comes(tag, Z, X)
        /\ \/ Closes(ch, tag, Z, R) \/ BeginsCall(ch, p, tag, Z, R)
           \/ EndsCall(ch, p, tag, Z, R) \/ BeginsParam(ch, p, tag, Z, R)
  BY <1>2, NextTag
<1>4. Shows(tag, Z, X, p) BY <1>1, <1>3, TagAhead
<1>5. k >= 2 /\ tag # "close"
  <2>1. /\ k = 0 => ~Contains(Segment(p), "<")
        /\ k = 1 => TagEnds(Segment(p)) = {}
        /\ k >= 2 /\ tag = "close" => ~Contains(Segment(p), "<")
    BY <1>4, NoTagYet DEF Shows
  <2>2. k = 0 \/ k = 1 \/ k >= 2
    <3>1. k \in Nat BY <1>1
    <3> HIDE DEF k
    <3> QED BY <3>1
  <2> QED BY <1>2, <2>1, <2>2
<1>6. /\ Min(TagEnds(Segment(p))) = 2 /\ TagStart(Segment(p)) = 1 /\ Segment(p)[2] = tag
      /\ Drop(X, 2) = Z
  BY <1>4, <1>5 DEF Shows
<1> DEFINE ends == tag = "/call" /\ p.call # NoCall
           e == IF ends THEN <<ToolCall(ch, p.call.id, Args(p.call.params))>> ELSE <<>>
           call == CASE tag \in CallTags -> [NoCall EXCEPT !.id = tag]
                     [] ends -> NoCall
                     [] tag \in ParamTags /\ p.call # NoCall -> [p.call EXCEPT !.key = tag]
                     [] OTHER -> p.call
           q == [p EXCEPT !.buffer = Drop(b, 2), !.call = call]
<1>7. /\ events' = IF ends THEN Append(events, ToolCall(ch, p.call.id, Args(p.call.params)))
                           ELSE events
      /\ parser' = [parser EXCEPT ![ch].buffer = Drop(@, 2), ![ch].call = call]
      /\ busy' = busy
  <2>1. 1 + 1 = 2 OBVIOUS
  <2> QED BY <1>6, <2>1 DEF ReadTag
<1>8. parser' = [parser EXCEPT ![ch] = q]
  <2> HIDE DEF call
  <2> QED BY <1>7
<1>9. events' = events \o e
  <2>1. PICK S : events \in Seq(S) OBVIOUS
  <2>2. events \o <<>> = events BY <2>1, ConcatEmptySeq
  <2> DEFINE x == ToolCall(ch, p.call.id, Args(p.call.params))
  <2>3. events' = (IF ends THEN Append(events, x) ELSE events) /\ e = (IF ends THEN <<x>> ELSE <<>>)
    BY <1>7
  <2> HIDE DEF x, ends, e
  <2>4. events \o <<x>> = Append(events, x) BY <2>1
  <2> QED BY <2>2, <2>3, <2>4
<1>10. 2 \in 0..Len(b)
  <2>1. k \in Nat /\ k >= 2 BY <1>1, <1>5
  <2> HIDE DEF k
  <2>2. 2 \in 0..k BY <2>1
  <2> QED BY <2>2 DEF k
<1>11. Holds(Drop(b, 2), Drop(X, 2)) BY <1>1, <1>10, HoldsAt
<1>12. /\ q.buffer = Drop(b, 2) /\ q.mode = "block" /\ q.call = call
       /\ call \in Call => q \in Parser
  <2>1. Drop(b, 2) \in Seq(Piece) BY <1>11 DEF Holds
  <2> HIDE DEF call
  <2> QED BY <1>1, <1>2, <2>1 DEF Parser
<1>13. NoCall \in Call /\ NoCall.id = None /\ NoCall.params = <<>> /\ NoCall.key = None
       /\ NoCall.value = <<>>
  BY NoCallTyped
<1>14. /\ tag \in CallTags => tag \notin {"close", "/call"} \cup ParamTags
       /\ tag \in ParamTags => tag \notin {"close", "/call"} \cup CallTags
       /\ None \notin CallTags /\ "/call" \notin CallTags \cup ParamTags
  BY Pieces
<1> HIDE DEF q, Call
<1>15. ASSUME NEW R2 \in Seq(Mine(ch)), R = e \o R2, e \in Seq(Mine(ch)), call \in Call,
              InCalls(ch, q, Z, R2) \/ InCall(ch, q, Z, R2) \/ InValue(ch, q, Z, R2)
       PROVE  Passes(ch, X, R)
  <2> HIDE DEF call, e
  <2>1. Ahead(ch, q, Drop(X, 2), R2) BY <1>6, <1>11, <1>12, <1>15 DEF Ahead
  <2>2. Reaches(ch, p, q, X, R, e) BY <1>10, <1>12, <1>15, <2>1 DEF Reaches
  <2>3. /\ parser' = [parser EXCEPT ![ch] = q] /\ events' = events \o e
        /\ busy' = busy \/ (busy' = None /\ q.buffer \in {<<>>, <<"<">>})
        /\ Reaches(ch, parser[ch], q, X, R, e)
    BY <1>7, <1>8, <1>9, <2>2
  <2> QED BY <1>12, <1>15, <2>3, Zenon DEF Passes
<1>16. CASE BeginsCall(ch, p, tag, Z, R)
  <2>1. PICK params \in Seq(V4Param), calls \in Seq(V4Call), r \in V4Text :
          /\ Z = CallRest(params, calls, r)
          /\ R = <<ToolCall(ch, tag, Args(params))>> \o BlockMeaning(ch, calls, r)
    BY <1>16 DEF BeginsCall
  <2>2. tag \in CallTags /\ p.call = NoCall BY <1>16 DEF BeginsCall
  <2>3. call = [NoCall EXCEPT !.id = tag] BY <2>2
  <2>4. /\ call \in Call /\ call.id = tag /\ call.params = <<>> /\ call.key = None
        /\ call.value = <<>>
    BY <1>13, <2>2, <2>3 DEF Call
  <2>5. e = <<>> /\ <<>> \in Seq(Mine(ch)) BY <2>2
  <2>6. <<>> \o R = R BY <1>1, ConcatEmptySeq
  <2>7. <<>> \o params = params BY ConcatEmptySeq
  <2> HIDE DEF call, e
  <2>8. R = <<ToolCall(ch, q.call.id, Args(q.call.params \o params))>> \o BlockMeaning(ch, calls, r)
    BY <1>12, <2>1, <2>4, <2>7
  <2>9. InCall(ch, q, Z, R) BY <1>12, <2>1, <2>2, <2>4, <2>8 DEF InCall
  <2>10. R = e \o R /\ e \in Seq(Mine(ch)) BY <2>5, <2>6
  <2> QED BY <1>1, <1>15, <2>4, <2>9, <2>10
<1>17. CASE EndsCall(ch, p, tag, Z, R)
  <2>1. PICK calls \in Seq(V4Call), r \in V4Text :
          /\ Z = BlockWire(calls, r)
          /\ R = <<ToolCall(ch, p.call.id, Args(p.call.params))>> \o BlockMeaning(ch, calls, r)
    BY <1>17 DEF EndsCall
  <2>2. ends /\ tag \notin CallTags /\ tag \notin ParamTags BY <1>13, <1>14, <1>17 DEF EndsCall
  <2>3. call = NoCall
    <3> HIDE DEF ends
    <3> QED BY <2>2
  <2>4. e = <<ToolCall(ch, p.call.id, Args(p.call.params))>> BY <2>2
  <2>5. e \in Seq(Mine(ch))
    <3> DEFINE c == [id |-> p.call.id, params |-> p.call.params]
    <3>1. p.call.id \in CallTags /\ p.call.params \in Seq(V4Param) BY <1>1, <1>17 DEF EndsCall, Call
    <3>2. c \in V4Call /\ c.id = p.call.id /\ c.params = p.call.params BY <3>1 DEF V4Call
    <3> HIDE DEF c
    <3>3. ToolCall(ch, p.call.id, Args(p.call.params)) \in Mine(ch) BY <3>2 DEF Mine, Theirs
    <3> QED BY <2>4, <3>3
  <2> HIDE DEF e, call
  <2>6. BlockMeaning(ch, calls, r) \in Seq(Mine(ch)) BY BlockMeaningTyped
  <2>7. InCalls(ch, q, Z, BlockMeaning(ch, calls, r)) BY <1>12, <2>1, <2>3 DEF InCalls
  <2>8. call \in Call BY <1>13, <2>3
  <2> QED BY <1>15, <2>1, <2>4, <2>5, <2>6, <2>7, <2>8
<1>18. CASE BeginsParam(ch, p, tag, Z, R)
  <2>1. PICK v \in Seq(Raw), params \in Seq(V4Param), calls \in Seq(V4Call), r \in V4Text :
          /\ Z = ValueRest(v, params, calls, r)
          /\ R = <<ToolCall(ch, p.call.id,
                    Args(Append(p.call.params, [key |-> tag, value |-> v]) \o params))>>
                 \o BlockMeaning(ch, calls, r)
    BY <1>18 DEF BeginsParam
  <2>2. tag \in ParamTags /\ p.call.id \in CallTags /\ p.call.value = <<>>
    BY <1>18 DEF BeginsParam
  <2>3. ~ends /\ tag \notin CallTags /\ p.call # NoCall BY <1>13, <1>14, <2>2
  <2>4. call = [p.call EXCEPT !.key = tag]
    <3> HIDE DEF ends
    <3> QED BY <2>2, <2>3
  <2>5. /\ call \in Call /\ call.id = p.call.id /\ call.params = p.call.params /\ call.key = tag
        /\ call.value = <<>>
    BY <1>1, <2>2, <2>4 DEF Call
  <2>6. e = <<>> /\ <<>> \in Seq(Mine(ch)) BY <2>3
  <2>7. <<>> \o R = R BY <1>1, ConcatEmptySeq
  <2>8. <<>> \o v = v /\ <<>> \in Seq(Raw) BY ConcatEmptySeq
  <2>9. Escape(<<>>) = <<>>
    <3>1. Escape(<<>>) \in Seq(Piece) /\ Len(Escape(<<>>)) = Len(<<>>) BY <2>8, Escaped
    <3>2. Len(<<>>) = 0 OBVIOUS
    <3> QED BY <3>1, <3>2, EmptySeq
  <2> HIDE DEF call, e
  <2>10. R = <<ToolCall(ch, q.call.id,
                Args(Append(q.call.params, [key |-> q.call.key, value |-> <<>> \o v]) \o params))>>
             \o BlockMeaning(ch, calls, r)
    BY <1>12, <2>1, <2>5, <2>8
  <2>11. q.call.value = Escape(<<>>) BY <1>12, <2>5, <2>9
  <2>12. q.mode = "block" /\ q.call.id \in CallTags /\ q.call.key \in ParamTags BY <1>12, <2>2, <2>5
  <2>13. InValue(ch, q, Z, R) BY <2>1, <2>8, <2>10, <2>11, <2>12 DEF InValue
  <2>14. R = e \o R /\ e \in Seq(Mine(ch)) BY <2>6, <2>7
  <2> QED BY <1>1, <1>15, <2>5, <2>13, <2>14
<1>19. ~Closes(ch, tag, Z, R) BY <1>5 DEF Closes
<1> QED BY <1>3, <1>16, <1>17, <1>18, <1>19

-----------------------------------------------------------------------------
(* The parser in a value                                                   *)

\* Escaping two values one after the other,
LEMMA EscapeConcat ==
  ASSUME NEW u \in Seq(Raw), NEW v \in Seq(Raw)
  PROVE  Escape(u \o v) = Escape(u) \o Escape(v) /\ u \o v \in Seq(Raw)
<1> DEFINE a == Escape(u)
           b == Escape(v)
           w == u \o v
           c == Escape(w)
<1>1. /\ w \in Seq(Raw) /\ Len(w) = Len(u) + Len(v)
      /\ \A i \in 1..(Len(u) + Len(v)) : w[i] = IF i <= Len(u) THEN u[i] ELSE v[i - Len(u)]
  BY ConcatProperties
<1>2. /\ a \in Seq(Piece) /\ Len(a) = Len(u)
      /\ \A i \in 1..Len(u) : a[i] = IF u[i] = "<" THEN "&lt;" ELSE u[i]
  BY Escaped
<1>3. /\ b \in Seq(Piece) /\ Len(b) = Len(v)
      /\ \A i \in 1..Len(v) : b[i] = IF v[i] = "<" THEN "&lt;" ELSE v[i]
  BY Escaped
<1> HIDE DEF w
<1>4. /\ c \in Seq(Piece) /\ Len(c) = Len(w)
      /\ \A i \in 1..Len(w) : c[i] = IF w[i] = "<" THEN "&lt;" ELSE w[i]
  BY <1>1, Escaped
<1>5. Len(u) \in Nat /\ Len(v) \in Nat OBVIOUS
<1> HIDE DEF a, b, c
<1>6. /\ a \o b \in Seq(Piece) /\ Len(a \o b) = Len(a) + Len(b)
      /\ \A i \in 1..(Len(a) + Len(b)) : (a \o b)[i] = IF i <= Len(a) THEN a[i] ELSE b[i - Len(a)]
  <2>1. a \in Seq(Piece) /\ b \in Seq(Piece) BY <1>2, <1>3
  <2> QED BY <2>1, ConcatProperties
<1>7. ASSUME NEW i \in 1..(Len(u) + Len(v)) PROVE c[i] = (a \o b)[i]
  <2> DEFINE m == Len(u)
             n == Len(v)
  <2>1. m \in Nat /\ n \in Nat /\ i \in 1..(m + n) BY <1>5
  <2> HIDE DEF m, n
  <2>2. CASE i <= m
    <3>1. i \in 1..m BY <2>1, <2>2
    <3>2. a[i] = IF u[i] = "<" THEN "&lt;" ELSE u[i] BY <1>2, <3>1 DEF m
    <3>3. w[i] = u[i] /\ (a \o b)[i] = a[i] BY <1>1, <1>2, <1>3, <1>6, <2>2 DEF m
    <3>4. c[i] = IF w[i] = "<" THEN "&lt;" ELSE w[i] BY <1>1, <1>4
    <3> QED BY <3>2, <3>3, <3>4
  <2>3. CASE ~(i <= m)
    <3>1. i - m \in 1..n BY <2>1, <2>3
    <3>2. b[i - m] = IF v[i - m] = "<" THEN "&lt;" ELSE v[i - m] BY <1>3, <3>1 DEF n
    <3>3. w[i] = v[i - m] /\ (a \o b)[i] = b[i - m] BY <1>1, <1>2, <1>3, <1>6, <2>3 DEF m
    <3>4. c[i] = IF w[i] = "<" THEN "&lt;" ELSE w[i] BY <1>1, <1>4
    <3> QED BY <3>2, <3>3, <3>4
  <2> QED BY <2>2, <2>3
<1>8. c = a \o b
  <2>1. Len(c) = Len(a \o b) /\ \A i \in 1..Len(c) : c[i] = (a \o b)[i]
    BY <1>1, <1>2, <1>3, <1>4, <1>6, <1>7
  <2> QED BY <1>4, <1>6, <2>1, SeqEqual
<1> QED BY <1>1, <1>8 DEF a, b, c, w

\* and a part of a value.
LEMMA EscapeCut ==
  ASSUME NEW v \in Seq(Raw), NEW n \in 0..Len(v)
  PROVE  /\ SubSeq(v, 1, n) \in Seq(Raw) /\ Drop(v, n) \in Seq(Raw)
         /\ SubSeq(v, 1, n) \o Drop(v, n) = v
         /\ Escape(SubSeq(v, 1, n)) = SubSeq(Escape(v), 1, n)
         /\ Escape(v) = Escape(SubSeq(v, 1, n)) \o Escape(Drop(v, n))
<1> DEFINE a == SubSeq(v, 1, n)
           b == Drop(v, n)
<1>1. a \in Seq(Raw) /\ b \in Seq(Raw) /\ a \o b = v /\ Len(a) = n BY CutInTwo DEF Drop
<1> HIDE DEF a, b
<1>2. Escape(a) \in Seq(Piece) /\ Len(Escape(a)) = n /\ Escape(b) \in Seq(Piece)
  BY <1>1, Escaped
<1>3. Escape(a \o b) = Escape(a) \o Escape(b) BY <1>1, EscapeConcat
<1> DEFINE x == Escape(a)
           y == Escape(b)
<1>4. x \in Seq(Piece) /\ Len(x) = n /\ y \in Seq(Piece) BY <1>2
<1> HIDE DEF x, y
<1>5. SubSeq(x \o y, 1, Len(x)) = x BY <1>4, ConcatCutBetween
<1> QED BY <1>1, <1>3, <1>4, <1>5 DEF x, y, a, b

\* The rest of a value is ahead.
ValueComes(v, Z, X) ==
  v \in Seq(Raw) /\ Z \in Seq(Piece) /\ X = Escape(v) \o (<<"<", "/param">> \o Z)

\* What the parser p makes of it.
ValueShows(v, Z, X, p) ==
  /\ Len(v) \in Nat /\ Len(p.buffer) \in Nat /\ Len(X) \in Nat
  /\ Len(X) >= Len(v) + 2 /\ X[Len(v) + 1] = "<" /\ X[Len(v) + 2] = "/param"
  /\ SubSeq(X, 1, Len(v)) = Escape(v) /\ Drop(X, Len(v) + 2) = Z
  /\ Markers("/param", Segment(p)) = {} =>
       Len(p.buffer) <= Len(v) + 1 /\ Segment(p) = p.buffer
  /\ Markers("/param", Segment(p)) # {} =>
       Len(p.buffer) >= Len(v) + 2 /\ Min(Markers("/param", Segment(p))) = Len(v) + 1

\* The first end of a parameter in the segment is the one of this value.
LEMMA ValueMarkers ==
  ASSUME NEW v, NEW Z, NEW X, ValueComes(v, Z, X), NEW p, Holds(p.buffer, X)
  PROVE  ValueShows(v, Z, X, p)
<1>0. v \in Seq(Raw) /\ Z \in Seq(Piece) /\ X = Escape(v) \o (<<"<", "/param">> \o Z)
  BY DEF ValueComes
<1> DEFINE e == Escape(v)
           o == <<"<", "/param">>
           oZ == o \o Z
           n == Len(v)
           b == p.buffer
           k == Len(b)
           s == Segment(p)
           M == Markers("close", b)
           E == Markers("/param", s)
<1>1. /\ e \in Seq(Piece) /\ Len(e) = n /\ n \in Nat
      /\ \A i \in 1..n : e[i] # "<"
  <2>1. v \in Seq(Raw) /\ n \in Nat BY <1>0
  <2>2. /\ e \in Seq(Piece) /\ Len(e) = n
        /\ \A i \in 1..n : e[i] # "<"
    BY <2>1, Escaped
  <2> QED BY <2>1, <2>2
<1> HIDE DEF e
<1>2. o \in Seq(Piece) /\ Len(o) = 2 /\ o[1] = "<" /\ o[2] = "/param" BY Pieces, Two
<1> HIDE DEF o
<1>3. /\ oZ \in Seq(Piece) /\ Len(oZ) >= 2 /\ oZ[1] = "<" /\ oZ[2] = "/param"
  <2>1. o \in Seq(Piece) /\ Z \in Seq(Piece) BY <1>0, <1>2
  <2>2. oZ \in Seq(Piece) /\ Len(oZ) = Len(o) + Len(Z) BY <2>1, ConcatProperties
  <2>3. \A i \in 1..Len(o) : (o \o Z)[i] = o[i] BY <2>1
  <2>4. Len(Z) \in Nat BY <2>1
  <2> QED BY <1>2, <2>2, <2>3, <2>4
<1>4. X = e \o oZ BY <1>0 DEF e, o
<1>5. /\ Drop(X, n + 2) = Z
  <2>1. AssociativeOn(Piece) BY Associative
  <2>2. (e \o o) \o Z = e \o (o \o Z) BY <1>0, <1>1, <1>2, <2>1 DEF AssociativeOn
  <2> DEFINE eo == e \o o
  <2>3. eo \in Seq(Piece) /\ Len(eo) = Len(e) + Len(o) BY <1>1, <1>2, ConcatProperties
  <2>4. X = eo \o Z BY <1>4, <2>2
  <2> HIDE DEF eo, n
  <2>5. Len(eo) = n + 2 BY <1>1, <1>2, <2>3
  <2>6. SubSeq(eo \o Z, Len(eo) + 1, Len(eo \o Z)) = Z BY <1>0, <2>3, ConcatCutBetween
  <2> QED BY <2>4, <2>5, <2>6 DEF Drop
<1> HIDE DEF oZ
<1>6. /\ X \in Seq(Piece) /\ Len(X) = n + Len(oZ)
      /\ \A i \in 1..n : X[i] = e[i]
      /\ X[n + 1] = "<" /\ X[n + 2] = "/param"
      /\ SubSeq(X, 1, n) = e
  <2>0. e \in Seq(Piece) /\ oZ \in Seq(Piece) BY <1>1, <1>3
  <2>1. X \in Seq(Piece) /\ Len(X) = Len(e) + Len(oZ) BY <1>4, <2>0, ConcatProperties
  <2>2. /\ \A i \in 1..Len(e) : (e \o oZ)[i] = e[i]
        /\ \A i \in 1..Len(oZ) : (e \o oZ)[Len(e) + i] = oZ[i]
    BY <1>1, <1>3
  <2>3. SubSeq(e \o oZ, 1, Len(e)) = e BY <1>1, <1>3, ConcatCutBetween
  <2>4. 1 \in 1..Len(oZ) /\ 2 \in 1..Len(oZ) BY <1>3
  <2> HIDE DEF n
  <2> QED BY <1>1, <1>3, <1>4, <2>1, <2>2, <2>3, <2>4
<1>7. \A i \in 1..n : X[i] # "<" BY <1>1, <1>6
<1>8. Len(X) \in Nat /\ Len(X) >= n + 2 BY <1>1, <1>3, <1>6
<1>9. b \in Seq(Piece) /\ k \in Nat /\ k <= Len(X) /\ \A i \in 1..k : b[i] = X[i]
  BY HoldsAt DEF Holds
<1>10. /\ M = {} => s = b
       /\ \A m \in M : m \in 1..(k - 1) /\ b[m] = "<" /\ b[m + 1] = "close"
       /\ M # {} => \E m \in M : s = SubSeq(b, 1, m - 1) /\ Len(s) = m - 1
       /\ s \in Seq(Piece)
  BY <1>9, SegmentIs DEF Markers
<1>11. \A i \in E : i \in 1..(Len(s) - 1) /\ s[i] = "<" BY DEF Markers
<1>12. \A i \in 1..(Len(s) - 1) : s[i] = "<" /\ s[i + 1] = "/param" => i \in E BY DEF Markers
<1> HIDE DEF M, s, k, b, n, E
<1>13. ASSUME NEW m \in M PROVE m >= n + 3 /\ m \in 1..(k - 1)
  <2>1. m \in 1..(k - 1) /\ b[m] = "<" /\ b[m + 1] = "close" BY <1>10
  <2>2. m \in 1..k /\ m + 1 \in 1..k /\ m \in Nat BY <1>9, <2>1
  <2>3. X[m] = "<" /\ X[m + 1] = "close" BY <1>9, <2>1, <2>2
  <2>4. m \notin 1..n BY <1>7, <2>3
  <2>5. m # n + 1
    <3> SUFFICES ASSUME m = n + 1 PROVE FALSE OBVIOUS
    <3>1. m + 1 = n + 2 BY <1>1
    <3> QED BY <1>6, <2>3, <3>1
  <2>6. m # n + 2 BY <1>6, <2>3
  <2> QED BY <1>1, <2>1, <2>2, <2>4, <2>5, <2>6
<1>14. /\ Len(s) \in 0..k /\ \A i \in 1..Len(s) : s[i] = X[i]
       /\ k >= n + 2 => Len(s) >= n + 2
       /\ k <= n + 1 => s = b
  <2>1. CASE M = {}
    <3>1. s = b /\ Len(s) = k BY <1>10, <2>1 DEF k
    <3> QED BY <1>9, <3>1
  <2>2. CASE M # {}
    <3>1. PICK m \in M : s = SubSeq(b, 1, m - 1) /\ Len(s) = m - 1 BY <1>10, <2>2
    <3>2. m >= n + 3 /\ m \in 1..(k - 1) BY <1>13
    <3>3. m - 1 \in 0..Len(b) BY <1>9, <3>2 DEF k
    <3>4. \A i \in 1..(m - 1) : SubSeq(b, 1, m - 1)[i] = b[i] BY <1>9, <3>3, CutInTwo
    <3>5. \A i \in 1..(m - 1) : s[i] = X[i] BY <1>9, <3>1, <3>2, <3>4
    <3> QED BY <1>1, <1>9, <3>1, <3>2, <3>5
  <2> QED BY <2>1, <2>2
<1>15. ASSUME NEW i \in E PROVE i >= n + 1 /\ i \in 1..(Len(s) - 1)
  <2>1. i \in 1..(Len(s) - 1) /\ s[i] = "<" BY <1>11
  <2>2. i \in 1..Len(s) BY <1>14, <2>1
  <2>3. X[i] = "<" BY <1>14, <2>1, <2>2
  <2> QED BY <1>1, <1>7, <1>9, <1>14, <2>1, <2>2, <2>3
<1>16. k >= n + 2 => n + 1 \in E
  <2> SUFFICES ASSUME k >= n + 2 PROVE n + 1 \in E OBVIOUS
  <2>1. n + 1 \in 1..(Len(s) - 1) /\ n + 1 \in 1..Len(s) /\ n + 2 \in 1..Len(s) /\ (n + 1) + 1 = n + 2
    BY <1>1, <1>9, <1>14
  <2>2. s[n + 1] = "<" /\ s[(n + 1) + 1] = "/param" BY <1>6, <1>14, <2>1
  <2> QED BY <1>12, <2>1, <2>2
<1>17. E = {} => k <= n + 1 /\ s = b BY <1>1, <1>9, <1>14, <1>16
<1>18. E # {} => k >= n + 2 /\ Min(E) = n + 1
  <2> SUFFICES ASSUME E # {} PROVE k >= n + 2 /\ Min(E) = n + 1 OBVIOUS
  <2>1. PICK i \in E : i >= n + 1 /\ i \in 1..(Len(s) - 1) BY <1>15
  <2>2. k >= n + 2 BY <1>1, <1>9, <1>14, <2>1
  <2>3. n + 1 \in E /\ E \in SUBSET Int /\ \A y \in E : n + 1 <= y BY <1>1, <1>15, <1>16, <2>2
  <2> QED BY <2>2, <2>3, MinIs
<1> QED BY <1>1, <1>5, <1>6, <1>8, <1>9, <1>17, <1>18 DEF e, n, b, k, s, E, ValueShows

\* With a key it is a value that is being read.
LEMMA ValueRead ==
  ASSUME NEW ch, NEW p, NEW X, NEW R, Ahead(ch, p, X, R), p.mode = "block", p.call.key # None
  PROVE  InValue(ch, p, X, R)
<1>1. NoCall.key = None BY NoCallTyped
<1> QED BY <1>1 DEF Ahead, InText, InCalls, InCall

\* All there is goes to the value, if the buffer does not end inside its end.
LEMMA ReadValuePasses ==
  ASSUME NEW ch \in Channels, parser \in [Channels -> Parser], NEW X, NEW R,
         Ahead(ch, parser[ch], X, R), ReadValue(ch), \E S : events \in Seq(S),
         NoSplit(parser[ch].buffer, X)
  PROVE  Passes(ch, X, R)
<1> DEFINE p == parser[ch]
           b == p.buffer
           k == Len(b)
           Call == [id : CallTags \cup {None}, params : Seq(V4Param), key : ParamTags \cup {None},
                    value : Seq(Piece)]
<1>1. /\ p \in Parser /\ b \in Seq(Piece) /\ k \in Nat /\ Holds(b, X) /\ R \in Seq(Mine(ch))
      /\ p.call \in Call
  BY Begun
<1>2. /\ p.mode = "block" /\ p.call.key # None /\ Markers("/param", Segment(p)) = {}
      /\ EndSegment(ch, [p.call EXCEPT !.value = @ \o Segment(p)])
  BY DEF ReadValue, InBlock
<1>3. InValue(ch, p, X, R) BY <1>2, ValueRead
<1>4. PICK u \in Seq(Raw), v \in Seq(Raw), params \in Seq(V4Param), calls \in Seq(V4Call), r \in V4Text :
        /\ p.call.value = Escape(u)
        /\ X = ValueRest(v, params, calls, r)
        /\ R = <<ToolCall(ch, p.call.id,
                  Args(Append(p.call.params, [key |-> p.call.key, value |-> u \o v]) \o params))>>
               \o BlockMeaning(ch, calls, r)
  BY <1>3 DEF InValue
<1> DEFINE Z == CallRest(params, calls, r)
           o == <<"<", "/param">>
           oZ == o \o Z
<1>5. Z \in Seq(Piece) BY RestsTyped
<1>6. X = Escape(v) \o (<<"<", "/param">> \o Z) BY <1>4 DEF ValueRest
<1> HIDE DEF Z
<1>7. /\ Len(v) \in Nat /\ Len(X) \in Nat /\ Len(X) >= Len(v) + 2
      /\ X[Len(v) + 1] = "<" /\ X[Len(v) + 2] = "/param"
      /\ k <= Len(v) + 1 /\ Segment(p) = b
  <2> HIDE DEF p
  <2>1. /\ Len(v) \in Nat /\ Len(X) \in Nat /\ Len(X) >= Len(v) + 2
        /\ X[Len(v) + 1] = "<" /\ X[Len(v) + 2] = "/param"
        /\ Len(p.buffer) <= Len(v) + 1 /\ Segment(p) = p.buffer
    <3>1. ValueComes(v, Z, X) BY <1>5, <1>6 DEF ValueComes
    <3>2. ValueShows(v, Z, X, p) BY <1>1, <3>1, ValueMarkers
    <3> QED BY <1>2, <3>2 DEF ValueShows
  <2> QED BY <2>1
<1>8. k \in 0..Len(v)
  <2> SUFFICES ASSUME k = Len(v) + 1 PROVE FALSE BY <1>1, <1>7
  <2>1. 0 < k /\ k < Len(X) /\ k + 1 = Len(v) + 2 BY <1>7
  <2>2. X[k] = "<" /\ X[k + 1] = "/param" BY <1>7, <2>1
  <2> QED BY <2>1, <2>2 DEF NoSplit
<1> DEFINE v1 == SubSeq(v, 1, k)
           v2 == Drop(v, k)
           x == Escape(v1)
           y == Escape(v2)
<1>9. v1 \in Seq(Raw) /\ v2 \in Seq(Raw) /\ v1 \o v2 = v /\ Escape(v) = x \o y /\ Len(v1) = k
  <2> HIDE DEF k
  <2>1. v1 \in Seq(Raw) /\ v2 \in Seq(Raw) /\ v1 \o v2 = v /\ Escape(v) = x \o y BY <1>8, EscapeCut
  <2>2. Len(v1) = k BY <1>8, CutInTwo
  <2> QED BY <2>1, <2>2
<1> HIDE DEF v1, v2
<1>10. x \in Seq(Piece) /\ y \in Seq(Piece) /\ Len(x) = k BY <1>9, Escaped
<1> HIDE DEF x, y
<1>11. o \in Seq(Piece) BY Pieces, Two
<1> HIDE DEF o
<1>12. oZ \in Seq(Piece) BY <1>5, <1>11
<1>13. X = (x \o y) \o oZ BY <1>6, <1>9 DEF o
<1> HIDE DEF oZ
<1> DEFINE yZ == y \o oZ
<1>14. yZ \in Seq(Piece) /\ X = x \o yZ
  <2>1. AssociativeOn(Piece) BY Associative
  <2>2. \A z \in Seq(Piece) : (x \o y) \o z = x \o (y \o z) BY <1>10, <2>1 DEF AssociativeOn
  <2>3. (x \o y) \o oZ = x \o yZ BY <1>12, <2>2, Zenon
  <2>4. yZ \in Seq(Piece) BY <1>10, <1>12
  <2> QED BY <1>13, <2>3, <2>4
<1> HIDE DEF yZ
<1>15. SubSeq(X, 1, k) = x /\ Drop(X, k) = yZ
  <2>1. SubSeq(x \o yZ, 1, Len(x)) = x /\ SubSeq(x \o yZ, Len(x) + 1, Len(x \o yZ)) = yZ
    BY <1>10, <1>14, ConcatCutBetween
  <2> QED BY <1>10, <1>14, <2>1 DEF Drop
<1>16. b = x BY <1>1, <1>15 DEF Holds
<1>17. Drop(X, k) = ValueRest(v2, params, calls, r) BY <1>15 DEF yZ, y, oZ, o, Z, ValueRest
<1> DEFINE w == u \o v1
<1>18. Escape(u) \o x = Escape(w) /\ w \in Seq(Raw) BY <1>9, EscapeConcat DEF x
<1>19. w \o v2 = u \o v
  <2>1. AssociativeOn(Raw) BY Associative
  <2>2. (u \o v1) \o v2 = u \o (v1 \o v2) BY <1>9, <2>1 DEF AssociativeOn
  <2> QED BY <1>9, <2>2
<1> HIDE DEF w
<1> DEFINE c == [p.call EXCEPT !.value = Escape(w)]
           q == [p EXCEPT !.buffer = <<>>, !.call = c]
<1>20. [p.call EXCEPT !.value = @ \o Segment(p)] = c BY <1>4, <1>7, <1>16, <1>18
<1>21. c \in Call /\ c.id = p.call.id /\ c.params = p.call.params /\ c.key = p.call.key
       /\ c.value = Escape(w)
  <2>1. Escape(w) \in Seq(Piece) BY <1>18, Escaped
  <2> HIDE DEF p
  <2> QED BY <1>1, <2>1
<1>22. parser' = [parser EXCEPT ![ch] = q] /\ busy' = None /\ events' = events
  <2> HIDE DEF c
  <2>1. EndSegment(ch, c) BY <1>2, <1>20
  <2>2. ~(Len(Segment(p)) < Len(p.buffer)) BY <1>1, <1>7
  <2>3. /\ parser' = [parser EXCEPT ![ch].buffer = <<>>, ![ch].call = c]
        /\ busy' = None /\ events' = events
    BY <2>1, <2>2 DEF EndSegment
  <2> QED BY <2>3
<1>23. q \in Parser /\ q.buffer = <<>> /\ q.mode = "block" /\ q.call = c
  <2> HIDE DEF c
  <2>1. <<>> \in Seq(Piece) OBVIOUS
  <2> QED BY <1>1, <1>2, <1>21, <2>1 DEF Parser
<1> HIDE DEF c, q, Call
<1>24. k \in 0..Len(b) BY <1>1
<1>25. Drop(b, k) = <<>> BY SubSeqEmpty DEF Drop
<1>26. Holds(q.buffer, Drop(X, k))
  <2>1. Holds(Drop(b, k), Drop(X, k)) BY <1>1, <1>24, HoldsAt
  <2> QED BY <1>23, <1>25, <2>1
<1>27. InValue(ch, q, Drop(X, k), R)
  <2>1. q.call.id \in CallTags /\ q.call.key \in ParamTags BY <1>3, <1>21, <1>23 DEF InValue
  <2>2. q.call.value = Escape(w) BY <1>21, <1>23
  <2>3. R = <<ToolCall(ch, q.call.id,
                 Args(Append(q.call.params, [key |-> q.call.key, value |-> w \o v2]) \o params))>>
              \o BlockMeaning(ch, calls, r)
    BY <1>4, <1>19, <1>21, <1>23
  <2> QED BY <1>9, <1>17, <1>18, <1>23, <2>1, <2>2, <2>3 DEF InValue
<1>28. Ahead(ch, q, Drop(X, k), R) BY <1>1, <1>23, <1>26, <1>27 DEF Ahead
<1>29. <<>> \o R = R /\ <<>> \in Seq(Mine(ch)) BY <1>1, ConcatEmptySeq
<1>30. Reaches(ch, p, q, X, R, <<>>) BY <1>1, <1>23, <1>24, <1>25, <1>28, <1>29 DEF Reaches
<1>31. events' = events \o <<>> BY <1>22, ConcatEmptySeq
<1>32. /\ parser' = [parser EXCEPT ![ch] = q] /\ events' = events \o <<>>
       /\ busy' = busy \/ (busy' = None /\ q.buffer \in {<<>>, <<"<">>})
       /\ Reaches(ch, parser[ch], q, X, R, <<>>)
  BY <1>22, <1>23, <1>30, <1>31
<1> QED BY <1>23, <1>29, <1>32, Zenon DEF Passes

\* A parameter that ends has its value whole and as it was before escaping.
LEMMA EndParamPasses ==
  ASSUME NEW ch \in Channels, parser \in [Channels -> Parser], NEW X, NEW R,
         Ahead(ch, parser[ch], X, R), EndParam(ch), \E S : events \in Seq(S)
  PROVE  Passes(ch, X, R)
<1> DEFINE p == parser[ch]
           b == p.buffer
           k == Len(b)
           Call == [id : CallTags \cup {None}, params : Seq(V4Param), key : ParamTags \cup {None},
                    value : Seq(Piece)]
<1>1. /\ p \in Parser /\ b \in Seq(Piece) /\ k \in Nat /\ Holds(b, X) /\ R \in Seq(Mine(ch))
      /\ p.call \in Call
  BY Begun
<1>2. p.mode = "block" /\ p.call.key # None /\ Markers("/param", Segment(p)) # {}
  BY DEF EndParam, InBlock
<1>3. InValue(ch, p, X, R) BY <1>2, ValueRead
<1>4. PICK u \in Seq(Raw), v \in Seq(Raw), params \in Seq(V4Param), calls \in Seq(V4Call), r \in V4Text :
        /\ p.call.value = Escape(u)
        /\ X = ValueRest(v, params, calls, r)
        /\ R = <<ToolCall(ch, p.call.id,
                  Args(Append(p.call.params, [key |-> p.call.key, value |-> u \o v]) \o params))>>
               \o BlockMeaning(ch, calls, r)
  BY <1>3 DEF InValue
<1> DEFINE Z == CallRest(params, calls, r)
<1>5. Z \in Seq(Piece)
  <2>1. <<>> \in Seq(Raw) OBVIOUS
  <2> QED BY <2>1, RestsTyped
<1>6. X = Escape(v) \o (<<"<", "/param">> \o Z) BY <1>4 DEF ValueRest
<1> HIDE DEF Z
<1> DEFINE n == Len(v)
           m == Min(Markers("/param", Segment(p)))
           d == n + 2
<1>7. n \in Nat /\ SubSeq(X, 1, n) = Escape(v) /\ Drop(X, n + 2) = Z /\ k >= n + 2 /\ m = n + 1
  <2> HIDE DEF p
  <2>1. /\ Len(v) \in Nat /\ SubSeq(X, 1, Len(v)) = Escape(v) /\ Drop(X, Len(v) + 2) = Z
        /\ Len(p.buffer) >= Len(v) + 2 /\ Min(Markers("/param", Segment(p))) = Len(v) + 1
    <3>1. ValueComes(v, Z, X) BY <1>5, <1>6 DEF ValueComes
    <3>2. ValueShows(v, Z, X, p) BY <1>1, <3>1, ValueMarkers
    <3> QED BY <1>2, <3>2 DEF ValueShows
  <2> QED BY <2>1
<1> HIDE DEF m, n
<1>8. m - 1 = n /\ m + 1 = d /\ n \in 0..Len(b) /\ d \in 0..Len(b) BY <1>1, <1>7
<1>9. SubSeq(b, 1, n) = Escape(v) /\ Holds(Drop(b, d), Drop(X, d)) /\ Drop(X, d) = Z
  <2> HIDE DEF d
  <2>0. \A j \in 0..Len(b) : SubSeq(b, 1, j) = SubSeq(X, 1, j) /\ Holds(Drop(b, j), Drop(X, j))
    <3> HIDE DEF b
    <3>1. Holds(b, X) BY <1>1
    <3>2. \A j \in 0..Len(b) :
            /\ SubSeq(b, 1, j) = SubSeq(X, 1, j)
            /\ Holds(Drop(b, j), Drop(X, j)) /\ Len(Drop(b, j)) = Len(b) - j
      BY <3>1, HoldsAt, Zenon
    <3> QED BY <3>2
  <2>1. SubSeq(b, 1, n) = SubSeq(X, 1, n) /\ Holds(Drop(b, d), Drop(X, d)) BY <1>8, <2>0
  <2>2. Drop(X, d) = Z BY <1>7 DEF d
  <2> QED BY <1>7, <2>1, <2>2
<1> DEFINE w == u \o v
<1>10. p.call.value \o SubSeq(b, 1, m - 1) = Escape(w) /\ w \in Seq(Raw)
  <2>1. Escape(u \o v) = Escape(u) \o Escape(v) /\ u \o v \in Seq(Raw) BY EscapeConcat
  <2> QED BY <1>4, <1>8, <1>9, <2>1
<1> HIDE DEF w
<1>11. Unescape(p.call.value \o SubSeq(b, 1, m - 1)) = w BY <1>10, Escaped
<1> DEFINE f == [key |-> p.call.key, value |-> w]
           c == [p.call EXCEPT !.params = Append(@, f), !.key = None, !.value = <<>>]
           q == [p EXCEPT !.buffer = Drop(b, d), !.call = c]
<1> HIDE DEF d
<1>12. f \in V4Param
  <2>1. p.call.key \in ParamTags BY <1>3 DEF InValue
  <2>2. w \in Seq(Raw) BY <1>10
  <2> QED BY <2>1, <2>2, Pieces
<1>13. /\ parser' = [parser EXCEPT
             ![ch].buffer = Drop(@, m + 1),
             ![ch].call.params = Append(@, [key |-> p.call.key,
               value |-> Unescape(p.call.value \o SubSeq(p.buffer, 1, m - 1))]),
             ![ch].call.key = None, ![ch].call.value = <<>>]
       /\ busy' = busy /\ events' = events
  BY DEF EndParam, m
<1>14. parser' = [parser EXCEPT ![ch].buffer = Drop(@, d), ![ch].call.params = Append(@, f),
             ![ch].call.key = None, ![ch].call.value = <<>>]
  BY <1>8, <1>11, <1>13
<1> HIDE DEF f
<1>15. parser' = [parser EXCEPT ![ch] = q] BY <1>1, <1>14 DEF Parser
<1>16. /\ c \in Call /\ c.id = p.call.id /\ c.params = Append(p.call.params, f) /\ c.key = None
       /\ c.value = <<>>
  <2>1. p.call.params \in Seq(V4Param) BY <1>1
  <2>2. Append(p.call.params, f) \in Seq(V4Param) /\ <<>> \in Seq(Piece) BY <1>12, <2>1
  <2> HIDE DEF p
  <2> QED BY <1>1, <2>2
<1>17. q \in Parser /\ q.buffer = Drop(b, d) /\ q.mode = "block" /\ q.call = c
  <2> HIDE DEF c
  <2>1. Drop(b, d) \in Seq(Piece) BY <1>9 DEF Holds
  <2> QED BY <1>1, <1>2, <1>16, <2>1 DEF Parser
<1> HIDE DEF c, q, Call
<1>18. InCall(ch, q, Drop(X, d), R)
  <2>1. q.call.id \in CallTags /\ q.call.key = None /\ q.call.value = <<>>
    BY <1>3, <1>16, <1>17 DEF InValue
  <2>2. R = <<ToolCall(ch, q.call.id, Args(q.call.params \o params))>> \o BlockMeaning(ch, calls, r)
    BY <1>4, <1>16, <1>17 DEF f, w
  <2> QED BY <1>9, <1>17, <2>1, <2>2 DEF InCall, Z
<1>19. Ahead(ch, q, Drop(X, d), R) BY <1>1, <1>9, <1>17, <1>18 DEF Ahead
<1>20. <<>> \o R = R /\ <<>> \in Seq(Mine(ch)) BY <1>1, ConcatEmptySeq
<1>21. Reaches(ch, p, q, X, R, <<>>) BY <1>1, <1>8, <1>17, <1>19, <1>20 DEF Reaches
<1>22. events' = events \o <<>> BY <1>13, ConcatEmptySeq
<1>23. /\ parser' = [parser EXCEPT ![ch] = q] /\ events' = events \o <<>>
       /\ busy' = busy \/ (busy' = None /\ q.buffer \in {<<>>, <<"<">>})
       /\ Reaches(ch, parser[ch], q, X, R, <<>>)
  BY <1>13, <1>15, <1>21, <1>22
<1> QED BY <1>17, <1>20, <1>23, Zenon DEF Passes

-----------------------------------------------------------------------------
(* The passes of the parser                                                *)

\* Every pass of the parser leaves the rest of the meaning ahead.
LEMMA ParsePasses ==
  ASSUME NEW ch \in Channels, parser \in [Channels -> Parser], NEW X, NEW R,
         Ahead(ch, parser[ch], X, R), NoSplit(parser[ch].buffer, X), \E S : events \in Seq(S),
         \/ EmitContent(ch) \/ OpenBlock(ch)
         \/ EndParam(ch) \/ ReadValue(ch) \/ SkipText(ch) \/ AwaitTag(ch) \/ ReadTag(ch)
  PROVE  Passes(ch, X, R) /\ busy = ch
<1>1. busy = ch
  BY DEF EmitContent, OpenBlock, EndParam, ReadValue, SkipText, AwaitTag, ReadTag, InBlock
<1>2. CASE EmitContent(ch) BY <1>1, <1>2, EmitContentPasses
<1>3. CASE OpenBlock(ch) BY <1>1, <1>3, OpenBlockPasses
<1>4. CASE EndParam(ch) BY <1>1, <1>4, EndParamPasses
<1>5. CASE ReadValue(ch) BY <1>1, <1>5, ReadValuePasses
<1>6. CASE SkipText(ch) BY <1>1, <1>6, SkipTextPasses
<1>7. CASE AwaitTag(ch) BY <1>1, <1>7, AwaitTagPasses
<1>8. CASE ReadTag(ch) BY <1>1, <1>8, ReadTagPasses
<1> QED BY <1>2, <1>3, <1>4, <1>5, <1>6, <1>7, <1>8

-----------------------------------------------------------------------------
(* The stream of V4                                                        *)

\* The calls V3 may yield,
V3Calls == {ToolCall("content", id, a) : id \in CallTags, a \in Seq(JsonPiece)}

\* all texts and calls,
Said ==
  {Text(ch, x) : ch \in Channels, x \in Piece} \cup
  (UNION {Theirs(ch) : ch \in Channels}) \cup V3Calls

\* and all events.
Yielded == Said \cup {[type |-> "error"], [type |-> "done"]}

\* The stream has yielded its done.
Over == \E i \in DOMAIN events : events[i].type = "done"

\* n pieces of a channel have been fed to its parser.
Channel(ch, n) ==
  LET p == parser[ch]
      b == p.buffer
  IN
  /\ Len(b) <= n
  /\ busy # ch => b \in {<<>>, <<"<">>}
  /\ \E R : Ahead(ch, p, Drop(ReplyWire(ch), n - Len(b)), R) /\ Meaning(ch) = Of(ch, events) \o R

\* V4: f pieces have been fed, and what has been yielded and what is ahead make the
\* meaning.
V4Inv(f) ==
  /\ protocol = "v4" /\ ~Over
  /\ parser \in [Channels -> Parser]
  /\ busy \in Channels \cup {None}
  /\ events \in Seq(Yielded)
  /\ \A ch \in Channels : Channel(ch, f[ch])

\* What a channel yields is an event of that channel.
LEMMA MineYielded ==
  ASSUME NEW ch \in Channels
  PROVE  /\ Mine(ch) \subseteq Yielded
         /\ \A e \in Mine(ch) : e.type \in {"text", "tool_call"} /\ e.channel = ch
         /\ [type |-> "error"] \in Yielded /\ [type |-> "done"] \in Yielded
<1>1. [type |-> "error"] \in Yielded /\ [type |-> "done"] \in Yielded BY DEF Yielded
<1>2. ASSUME NEW e \in Mine(ch)
      PROVE  e \in Yielded /\ e.type \in {"text", "tool_call"} /\ e.channel = ch
  <2>1. CASE e \in {Text(ch, x) : x \in Piece}
    <3>1. PICK x \in Piece : e = Text(ch, x) BY <2>1
    <3>2. e.type = "text" /\ e.channel = ch BY <3>1 DEF Text
    <3>3. e \in Yielded BY <3>1 DEF Yielded, Said
    <3> QED BY <3>2, <3>3
  <2>2. CASE e \in Theirs(ch)
    <3>1. PICK c \in V4Call : e = ToolCall(ch, c.id, Args(c.params)) BY <2>2 DEF Theirs
    <3>2. e.type = "tool_call" /\ e.channel = ch BY <3>1 DEF ToolCall
    <3>3. e \in Yielded BY <2>2 DEF Yielded, Said
    <3> QED BY <3>2, <3>3
  <2> QED BY <2>1, <2>2 DEF Mine
<1> QED BY <1>1, <1>2

\* What a V4 reply is on the wire and what it means, in the terms of these lemmas.
LEMMA V4Wire ==
  ASSUME Setting, protocol = "v4", NEW ch \in Channels
  PROVE  /\ V3Ids = {} /\ Parts = Channels
         /\ reply[ch] \in V4Text
         /\ ReplyWire(ch) = WireOf(reply[ch]) /\ ReplyWire(ch) \in Seq(Piece)
         /\ Meaning(ch) = MeaningOf(ch, reply[ch])
<1>1. V3Ids = {} /\ Parts = Channels BY DEF V3Ids, Parts
<1>2. reply[ch] \in V4Text
  <2>1. reply \in [Channels -> V4Text] BY ReplyAssumptions DEF Setting
  <2> QED BY <2>1
<1>3. ReplyWire(ch) = WireOf(reply[ch]) BY <1>1 DEF ReplyWire, WireOf
<1>4. Meaning(ch) = MeaningOf(ch, reply[ch]) BY DEF Meaning, MeaningOf
<1> QED BY <1>1, <1>2, <1>3, <1>4, WireOfTyped

\* Drop upon drop.
LEMMA DropDrop ==
  ASSUME NEW S, NEW w \in Seq(S), NEW m \in 0..Len(w), NEW d \in 0..(Len(w) - m)
  PROVE  Drop(Drop(w, m), d) = Drop(w, m + d) /\ Len(Drop(w, m)) = Len(w) - m
<1> DEFINE a == SubSeq(w, m + 1, Len(w))
           L == Len(w)
<1>1. a \in Seq(S) /\ Len(a) = L - m /\ \A i \in 1..(L - m) : a[i] = w[m + i] BY CutInTwo
<1>2. L \in Nat /\ m \in Nat /\ d \in Nat /\ m + d \in 0..L OBVIOUS
<1> HIDE DEF a, L
<1> DEFINE b == SubSeq(a, d + 1, Len(a))
           c == SubSeq(w, (m + d) + 1, L)
<1>3. d \in 0..Len(a) BY <1>1, <1>2 DEF L
<1>4. b \in Seq(S) /\ Len(b) = Len(a) - d /\ \A i \in 1..(Len(a) - d) : b[i] = a[d + i]
  BY <1>1, <1>3, CutInTwo
<1>5. c \in Seq(S) /\ Len(c) = L - (m + d) /\ \A i \in 1..(L - (m + d)) : c[i] = w[(m + d) + i]
  BY <1>2, CutInTwo DEF L
<1> HIDE DEF b, c
<1>6. Len(b) = Len(c) BY <1>1, <1>2, <1>4, <1>5
<1>7. ASSUME NEW i \in 1..Len(b) PROVE b[i] = c[i]
  <2>1. i \in 1..(Len(a) - d) /\ i \in 1..(L - (m + d)) /\ d + i \in 1..(L - m)
        /\ m + (d + i) = (m + d) + i
    BY <1>1, <1>2, <1>4
  <2> QED BY <1>1, <1>4, <1>5, <2>1
<1>8. b = c BY <1>4, <1>5, <1>6, <1>7, SeqEqual
<1> QED BY <1>1, <1>8 DEF Drop, a, b, c, L

\* The same of what the reply means.
LEMMA ReplyAs ==
  ASSUME protocol' = protocol, reply' = reply
  PROVE  /\ \A part : ReplyWire(part)' = ReplyWire(part)
         /\ \A ch : Meaning(ch)' = Meaning(ch)
         /\ Parts' = Parts /\ V3Ids' = V3Ids
<1>1. \A part : ReplyWire(part)' = ReplyWire(part) BY SameReply
<1>2. \A ch : Meaning(ch)' = Meaning(ch) BY DEF Meaning
<1>3. Parts' = Parts /\ V3Ids' = V3Ids BY SameReply
<1> QED BY <1>1, <1>2, <1>3

\* A channel whose parser and events are the same has the same ahead.
LEMMA ChannelSame ==
  ASSUME protocol' = protocol, reply' = reply, NEW ch \in Channels, NEW n, Channel(ch, n),
         parser'[ch] = parser[ch], Of(ch, events)' = Of(ch, events), busy = ch => busy' = ch
  PROVE  Channel(ch, n)'
<1> DEFINE p == parser[ch]
           b == p.buffer
           W == ReplyWire(ch)
<1>1. PICK R : Ahead(ch, p, Drop(W, n - Len(b)), R) /\ Meaning(ch) = Of(ch, events) \o R
  BY DEF Channel
<1>2. Len(b) <= n /\ (busy # ch => b \in {<<>>, <<"<">>}) BY DEF Channel
<1>3. ReplyWire(ch)' = ReplyWire(ch) /\ Meaning(ch)' = Meaning(ch) BY ReplyAs
<1>4. busy' # ch => parser'[ch].buffer \in {<<>>, <<"<">>} BY <1>2
<1>5. Len(parser'[ch].buffer) <= n BY <1>2
<1>6. Ahead(ch, parser'[ch], Drop(W', n - Len(parser'[ch].buffer)), R) BY <1>1, <1>3
<1>7. Meaning(ch)' = Of(ch, events)' \o R BY <1>1, <1>3
<1> HIDE DEF p, b, W
<1> QED BY <1>4, <1>5, <1>6, <1>7 DEF Channel, W

\* A stream is not over as long as no done is among its events.
LEMMA NotOver ==
  ASSUME events \in Seq(Yielded), NEW e \in Seq(Yielded), ~Over,
         \A i \in 1..Len(e) : e[i].type # "done", events' = events \o e
  PROVE  ~Over' /\ events' \in Seq(Yielded)
<1> DEFINE n == Len(events)
<1>1. n \in Nat /\ Len(e) \in Nat OBVIOUS
<1>2. events \o e \in Seq(Yielded) /\ Len(events \o e) = Len(events) + Len(e)
      /\ \A i \in 1..(Len(events) + Len(e)) :
           (events \o e)[i] = IF i <= Len(events) THEN events[i] ELSE e[i - Len(events)]
  BY ConcatProperties
<1>3. \A i \in 1..n : events[i].type # "done" BY DEF Over
<1> DEFINE f == events \o e
<1>4. f \in Seq(Yielded) /\ Len(f) = n + Len(e)
      /\ \A i \in 1..(n + Len(e)) : f[i] = IF i <= n THEN events[i] ELSE e[i - n]
  BY <1>2
<1> HIDE DEF f, n
<1>5. ASSUME NEW i \in 1..(n + Len(e)) PROVE f[i].type # "done"
  <2>1. CASE i <= n
    <3>1. i \in 1..n BY <1>1, <2>1
    <3> QED BY <1>3, <1>4, <2>1, <3>1
  <2>2. CASE ~(i <= n)
    <3>1. i - n \in 1..Len(e) BY <1>1, <2>2
    <3> QED BY <1>4, <2>2, <3>1
  <2> QED BY <2>1, <2>2
<1>6. DOMAIN f = 1..(n + Len(e)) BY <1>4
<1>7. events' = f BY DEF f
<1> QED BY <1>4, <1>5, <1>6, <1>7 DEF Over

\* Nothing changes,
LEMMA V4Same ==
  ASSUME protocol' = protocol, reply' = reply, UNCHANGED dsmlVars, NEW f, V4Inv(f)
  PROVE  V4Inv(f)'
<1>1. parser' = parser /\ busy' = busy /\ events' = events BY DEF dsmlVars
<1>2. \A ch \in Channels : Channel(ch, f[ch])'
  <2> TAKE ch \in Channels
  <2>1. Channel(ch, f[ch]) BY DEF V4Inv
  <2>2. Of(ch, events)' = Of(ch, events) BY <1>1
  <2> QED BY <1>1, <2>1, <2>2, ChannelSame
<1> QED BY <1>1, <1>2 DEF V4Inv, Over

\* or an error is yielded.
LEMMA V4Error ==
  ASSUME protocol' = protocol, reply' = reply, parser' = parser, busy' = busy,
         events' = Append(events, [type |-> "error"]), NEW f, V4Inv(f)
  PROVE  V4Inv(f)'
<1> DEFINE e == <<[type |-> "error"]>>
<1>1. "content" \in Channels BY DEF Channels
<1>2. [type |-> "error"] \in Yielded BY <1>1, MineYielded
<1>3. e \in Seq(Yielded) /\ Len(e) = 1 /\ \A i \in 1..Len(e) : e[i].type = "error" BY <1>2
<1>4. events \in Seq(Yielded) /\ ~Over BY DEF V4Inv
<1>5. events' = events \o e BY <1>2, <1>4
<1> HIDE DEF e
<1>6. ~Over' /\ events' \in Seq(Yielded)
  <2>1. \A i \in 1..Len(e) : e[i].type # "done" BY <1>3
  <2> QED BY <1>3, <1>4, <1>5, <2>1, NotOver
<1>7. \A ch \in Channels : Channel(ch, f[ch])'
  <2> TAKE ch \in Channels
  <2>1. Channel(ch, f[ch]) BY DEF V4Inv
  <2>2. Of(ch, events \o e) = Of(ch, events) \o Of(ch, e) /\ Of(ch, events) \in Seq(Yielded)
    BY <1>3, <1>4, OfConcat
  <2>3. Of(ch, e) = <<>>
    <3>1. \A i \in 1..Len(e) : ~(e[i].type \in {"text", "tool_call"} /\ e[i].channel = ch) BY <1>3
    <3> QED BY <1>3, <3>1, OfNone
  <2>4. Of(ch, events) \o <<>> = Of(ch, events) BY <2>2, ConcatEmptySeq
  <2>5. Of(ch, events') = Of(ch, events) BY <1>5, <2>2, <2>3, <2>4
  <2>6. Of(ch, events)' = Of(ch, events') BY DEF Of
  <2> QED BY <2>1, <2>5, <2>6, ChannelSame
<1> QED BY <1>6, <1>7 DEF V4Inv

\* A sequence of some is one of more.
LEMMA WiderSeq ==
  ASSUME NEW A, NEW B, A \subseteq B, NEW s \in Seq(A)
  PROVE  s \in Seq(B)
OBVIOUS

\* What a channel yields is behind its other events, and in no other channel.
LEMMA EventsGain ==
  ASSUME events \in Seq(Yielded), ~Over, NEW ch \in Channels, NEW e \in Seq(Mine(ch)),
         events' = events \o e
  PROVE  /\ ~Over' /\ events' \in Seq(Yielded) /\ e \in Seq(Yielded)
         /\ Of(ch, events)' = Of(ch, events) \o e /\ Of(ch, events) \in Seq(Yielded)
         /\ \A other \in Channels : other # ch => Of(other, events)' = Of(other, events)
<1>1. Mine(ch) \subseteq Yielded /\ \A x \in Mine(ch) : x.type \in {"text", "tool_call"} /\ x.channel = ch
  BY MineYielded
<1>2. e \in Seq(Yielded) BY <1>1, WiderSeq
<1>3. \A i \in 1..Len(e) : e[i].type \in {"text", "tool_call"} /\ e[i].channel = ch
  <2>1. \A i \in 1..Len(e) : e[i] \in Mine(ch) OBVIOUS
  <2> QED BY <1>1, <2>1
<1>4. ~Over' /\ events' \in Seq(Yielded)
  <2>1. \A i \in 1..Len(e) : e[i].type # "done" BY <1>3
  <2> QED BY <1>2, <2>1, NotOver
<1>5. \A x \in Channels : /\ Of(x, events)' = Of(x, events) \o Of(x, e)
                          /\ Of(x, events) \in Seq(Yielded)
  <2> TAKE x \in Channels
  <2>1. Of(x, events \o e) = Of(x, events) \o Of(x, e) /\ Of(x, events) \in Seq(Yielded)
    BY <1>2, OfConcat
  <2>2. Of(x, events)' = Of(x, events') BY DEF Of
  <2> QED BY <2>1, <2>2
<1>6. Of(ch, e) = e BY <1>2, <1>3, OfAll
<1>7. ASSUME NEW other \in Channels, other # ch PROVE Of(other, events)' = Of(other, events)
  <2>1. \A i \in 1..Len(e) : ~(e[i].type \in {"text", "tool_call"} /\ e[i].channel = other)
    BY <1>3, <1>7
  <2>2. Of(other, e) = <<>> BY <1>2, <2>1, OfNone
  <2>3. Of(other, events) \o <<>> = Of(other, events) BY <1>5, ConcatEmptySeq
  <2> QED BY <1>5, <2>2, <2>3
<1> QED BY <1>2, <1>4, <1>5, <1>6, <1>7

\* A pass of a parser keeps it,
LEMMA V4Parse ==
  ASSUME Setting, NEW f, V4Inv(f), Boundary(f), ~cut, ParseStep
  PROVE  V4Inv(f)'
<1>1. /\ protocol = "v4" /\ ~Over /\ parser \in [Channels -> Parser]
      /\ busy \in Channels \cup {None} /\ events \in Seq(Yielded)
      /\ \A c \in Channels : Channel(c, f[c])
  BY DEF V4Inv
<1>2. protocol' = protocol /\ reply' = reply BY DEF ParseStep, serverVars
<1>3. PICK ch \in Channels :
        \/ EmitContent(ch) \/ OpenBlock(ch)
        \/ EndParam(ch) \/ ReadValue(ch) \/ SkipText(ch) \/ AwaitTag(ch) \/ ReadTag(ch)
  BY DEF ParseStep, Parse
<1> DEFINE p == parser[ch]
           b == p.buffer
           k == Len(b)
           W == ReplyWire(ch)
           n == f[ch]
           m == n - k
<1>4. PICK R : Ahead(ch, p, Drop(W, m), R) /\ Meaning(ch) = Of(ch, events) \o R
  BY <1>1 DEF Channel
<1>5. k <= n BY <1>1 DEF Channel
<1>6. b \in Seq(Piece) /\ k \in Nat /\ Holds(b, Drop(W, m)) /\ R \in Seq(Mine(ch)) BY <1>4, Begun
<1>7. W \in Seq(Piece) /\ V3Ids = {} /\ Parts = Channels BY <1>1, V4Wire
<1>8. n \in Nat /\ n <= Len(W) BY <1>7 DEF Boundary
<1>9. ~(0 < n /\ n < Len(W) /\ W[n] = "<" /\ W[n + 1] = "/param") BY <1>1 DEF Boundary, Splits
<1> DEFINE X == Drop(W, m)
           L == Len(W)
<1>10. m \in 0..L /\ L \in Nat /\ m + k = n
  <2>1. L \in Nat BY <1>7
  <2> HIDE DEF n, k, L
  <2> QED BY <1>5, <1>6, <1>8, <2>1 DEF L
<1>11. X \in Seq(Piece) /\ Len(X) = L - m /\ \A i \in 1..(L - m) : X[i] = W[m + i]
  <2> HIDE DEF m, W
  <2> QED BY <1>7, <1>10, CutInTwo DEF Drop
<1> HIDE DEF X
<1>12. NoSplit(b, X)
  <2> SUFFICES ASSUME 0 < k, k < Len(X), X[k] = "<", X[k + 1] = "/param" PROVE FALSE
    BY DEF NoSplit
  <2> HIDE DEF L, m, n, k, b, W
  <2>1. k \in 1..(L - m) /\ k + 1 \in 1..(L - m) /\ m + k = n /\ m + (k + 1) = n + 1
        /\ 0 < n /\ n < L
    BY <1>6, <1>8, <1>10, <1>11
  <2>2. W[n] = "<" /\ W[n + 1] = "/param" BY <1>11, <2>1
  <2> QED BY <1>9, <2>1, <2>2 DEF L
<1>13. Passes(ch, X, R) /\ busy = ch
  <2>1. \E S : events \in Seq(S) BY <1>1
  <2>2. Ahead(ch, parser[ch], X, R) BY <1>4 DEF X
  <2> HIDE DEF k, m, n, W, L
  <2> QED BY <1>1, <1>3, <1>12, <2>1, <2>2, ParsePasses
<1>14. PICK q \in Parser, e \in Seq(Mine(ch)) :
        /\ parser' = [parser EXCEPT ![ch] = q]
        /\ events' = events \o e
        /\ busy' = busy \/ (busy' = None /\ q.buffer \in {<<>>, <<"<">>})
        /\ Reaches(ch, parser[ch], q, X, R, e)
  BY <1>13 DEF Passes
<1>15. PICK d \in 0..k, R2 \in Seq(Mine(ch)) :
        q.buffer = Drop(b, d) /\ R = e \o R2 /\ Ahead(ch, q, Drop(X, d), R2)
  BY <1>14 DEF Reaches
<1>16. /\ ~Over' /\ events' \in Seq(Yielded) /\ e \in Seq(Yielded)
       /\ Of(ch, events)' = Of(ch, events) \o e /\ Of(ch, events) \in Seq(Yielded)
       /\ \A other \in Channels : other # ch => Of(other, events)' = Of(other, events)
  BY <1>1, <1>14, EventsGain
<1>17. parser' \in [Channels -> Parser] /\ parser'[ch] = q
       /\ \A other \in Channels : other # ch => parser'[other] = parser[other]
  BY <1>1, <1>14
<1>18. None \notin Channels BY Pieces
<1>19. ASSUME NEW other \in Channels, other # ch PROVE Channel(other, f[other])'
  <2>1. busy = other => busy' = other BY <1>13, <1>19
  <2>2. Channel(other, f[other]) BY <1>1
  <2> HIDE DEF X, L, m, k, W, n
  <2> QED BY <1>2, <1>16, <1>17, <1>19, <2>1, <2>2, ChannelSame
<1>20. Channel(ch, n)'
  <2>1. Len(q.buffer) = k - d
    <3>1. Holds(b, X) BY <1>6 DEF X
    <3> HIDE DEF b, X
    <3>2. Len(Drop(b, d)) = Len(b) - d BY <1>15, <3>1, HoldsAt
    <3> QED BY <1>15, <3>2
  <2>2. Drop(X, d) = Drop(W, m + d)
    <3>1. d \in 0..(Len(W) - m)
      <4>1. k <= L - m BY <1>6, <1>8, <1>10
      <4> HIDE DEF k, L, m
      <4> QED BY <1>6, <1>10, <4>1 DEF L
    <3> HIDE DEF m, W, L
    <3>2. m \in 0..Len(W) BY <1>10 DEF L
    <3> QED BY <1>7, <3>1, <3>2, DropDrop DEF X
  <2>3. n - Len(q.buffer) = m + d /\ Len(q.buffer) <= n
    <3> HIDE DEF k, m
    <3> QED BY <1>6, <1>8, <1>10, <1>15, <2>1
  <2>4. Meaning(ch) = (Of(ch, events) \o e) \o R2
    <3> DEFINE x == Of(ch, events)
    <3>1. x \in Seq(Yielded) /\ e \in Seq(Yielded) BY <1>16
    <3>2. R2 \in Seq(Yielded)
      <4>1. Mine(ch) \subseteq Yielded BY MineYielded
      <4> QED BY <4>1, WiderSeq
    <3>3. Meaning(ch) = x \o (e \o R2) BY <1>4, <1>15
    <3> HIDE DEF x
    <3>4. AssociativeOn(Yielded) BY Associative
    <3>5. (x \o e) \o R2 = x \o (e \o R2) BY <3>1, <3>2, <3>4 DEF AssociativeOn
    <3> QED BY <3>3, <3>5 DEF x
  <2>5. busy' # ch => parser'[ch].buffer \in {<<>>, <<"<">>} BY <1>13, <1>14, <1>17
  <2>6. ReplyWire(ch)' = ReplyWire(ch) /\ Meaning(ch)' = Meaning(ch) BY <1>2, ReplyAs
  <2>7. Ahead(ch, parser'[ch], Drop(ReplyWire(ch)', n - Len(parser'[ch].buffer)), R2)
    BY <1>15, <1>17, <2>2, <2>3, <2>6
  <2>8. Meaning(ch)' = Of(ch, events)' \o R2 BY <1>16, <2>4, <2>6
  <2>9. Len(parser'[ch].buffer) <= n BY <1>17, <2>3
  <2> HIDE DEF n, k, m, b, p, X, W
  <2> QED BY <2>5, <2>7, <2>8, <2>9 DEF Channel
<1>21. busy' \in Channels \cup {None} BY <1>1, <1>14
<1>22. \A c \in Channels : Channel(c, f[c])' BY <1>19, <1>20
<1> QED BY <1>1, <1>2, <1>16, <1>17, <1>21, <1>22 DEF V4Inv

\* and so does feeding the next pieces of a channel.
LEMMA V4Feed ==
  ASSUME Setting, protocol' = protocol, reply' = reply, NEW f, V4Inv(f), Boundary(f), NEW g,
         NEW ch \in Channels, g[ch] \in Nat, f[ch] < g[ch], g[ch] <= Len(ReplyWire(ch)),
         \A other \in Channels \ {ch} : f[other] = g[other],
         Feed(ch, SubSeq(ReplyWire(ch), f[ch] + 1, g[ch]))
  PROVE  V4Inv(g)'
<1>1. /\ protocol = "v4" /\ ~Over /\ parser \in [Channels -> Parser]
      /\ busy \in Channels \cup {None} /\ events \in Seq(Yielded)
      /\ \A c \in Channels : Channel(c, f[c])
  BY DEF V4Inv
<1> DEFINE p == parser[ch]
           b == p.buffer
           k == Len(b)
           W == ReplyWire(ch)
           n == f[ch]
           l == g[ch]
           m == n - k
           X == Drop(W, m)
           t == SubSeq(W, n + 1, l)
           q == [p EXCEPT !.buffer = b \o t]
<1>2. PICK R : Ahead(ch, p, X, R) /\ Meaning(ch) = Of(ch, events) \o R
  BY <1>1 DEF Channel
<1>3. k <= n BY <1>1 DEF Channel
<1>4. b \in Seq(Piece) /\ k \in Nat /\ Holds(b, X) /\ R \in Seq(Mine(ch)) /\ p \in Parser
  BY <1>2, Begun
<1>5. W \in Seq(Piece) /\ V3Ids = {} /\ Parts = Channels BY <1>1, V4Wire
<1>6. n \in Nat /\ l \in Nat /\ n < l /\ l <= Len(W) BY <1>5 DEF Boundary
<1>7. busy = None /\ busy' = ch /\ events' = events
      /\ parser' = [parser EXCEPT ![ch].buffer = @ \o t]
  BY DEF Feed
<1>8. parser' = [parser EXCEPT ![ch] = q] BY <1>7
<1>9. \A i \in 1..k : b[i] = X[i] BY <1>4, HoldsAt
<1> HIDE DEF k, n, l, W
<1>10. m \in 0..Len(W) /\ Len(W) \in Nat /\ m + k = n
  <2>1. Len(W) \in Nat BY <1>5
  <2> QED BY <1>3, <1>4, <1>6, <2>1
<1> HIDE DEF m
<1>11. X \in Seq(Piece) /\ Len(X) = Len(W) - m /\ \A i \in 1..(Len(W) - m) : X[i] = W[m + i]
  BY <1>5, <1>10, CutInTwo DEF Drop
<1>12. t \in Seq(Piece) /\ Len(t) = l - n /\ \A i \in 1..(l - n) : t[i] = W[n + i]
  <2>1. n + 1 \in Int /\ l \in Int BY <1>6
  <2>2. \A i \in (n + 1)..l : i \in 1..Len(W) BY <1>6, <1>10
  <2>3. \A i \in 1..Len(W) : W[i] \in Piece BY <1>5
  <2>4. t = [i \in 1..(l - n) |-> W[n + i]]
    <3>1. l - (n + 1) + 1 = l - n /\ \A i \in 1..(l - n) : (n + 1) + i - 1 = n + i BY <1>6
    <3>2. t = [i \in 1..(l - (n + 1) + 1) |-> W[(n + 1) + i - 1]] BY <1>5, <2>1
    <3> QED BY <3>1, <3>2
  <2>5. \A i \in 1..(l - n) : W[n + i] \in Piece
    <3> TAKE i \in 1..(l - n)
    <3>1. n + i \in (n + 1)..l BY <1>6
    <3> QED BY <2>2, <2>3, <3>1
  <2>6. l - n \in Nat BY <1>6
  <2> HIDE DEF t
  <2>7. t \in Seq(Piece)
    <3>1. t \in [1..(l - n) -> Piece] BY <2>4, <2>5
    <3> QED BY <2>6, <3>1
  <2>8. Len(t) = l - n BY <2>4, <2>6
  <2> QED BY <2>4, <2>7, <2>8
<1> DEFINE bt == b \o t
<1>13. bt \in Seq(Piece) /\ Len(bt) = k + (l - n)
       /\ \A i \in 1..(k + (l - n)) : bt[i] = IF i <= k THEN b[i] ELSE t[i - k]
  <2> HIDE DEF t
  <2>1. b \in Seq(Piece) /\ t \in Seq(Piece) BY <1>4, <1>12
  <2> HIDE DEF b
  <2>2. /\ b \o t \in Seq(Piece) /\ Len(b \o t) = Len(b) + Len(t)
        /\ \A i \in 1..(Len(b) + Len(t)) : (b \o t)[i] = IF i <= Len(b) THEN b[i] ELSE t[i - Len(b)]
    BY <2>1, ConcatProperties
  <2> QED BY <1>12, <2>2 DEF k
<1> HIDE DEF bt, t, X, b
<1>14. k + (l - n) \in 0..Len(X) /\ k + (l - n) \in Nat
  BY <1>4, <1>6, <1>10, <1>11
<1>15. bt = SubSeq(X, 1, k + (l - n))
  <2> DEFINE s == SubSeq(X, 1, k + (l - n))
             j == k + (l - n)
  <2>1. s \in Seq(Piece) /\ Len(s) = j /\ \A i \in 1..j : s[i] = X[i]
    <3> HIDE DEF j
    <3>1. j \in 0..Len(X) BY <1>14 DEF j
    <3>2. SubSeq(X, 1, j) \in Seq(Piece) /\ Len(SubSeq(X, 1, j)) = j
          /\ \A i \in 1..j : SubSeq(X, 1, j)[i] = X[i]
      BY <1>11, <3>1, CutInTwo
    <3> QED BY <3>2 DEF j
  <2> HIDE DEF s
  <2>2. ASSUME NEW i \in 1..j PROVE bt[i] = X[i]
    <3>1. CASE i <= k
      <4>1. i \in 1..k BY <1>4, <1>6, <3>1
      <4> QED BY <1>9, <1>13, <3>1, <4>1
    <3>2. CASE ~(i <= k)
      <4>1. i - k \in 1..(l - n) /\ n + (i - k) = m + i /\ i \in 1..(Len(W) - m)
        BY <1>4, <1>6, <1>10, <3>2
      <4>2. bt[i] = t[i - k] /\ t[i - k] = W[n + (i - k)] BY <1>12, <1>13, <3>2, <4>1
      <4> QED BY <1>11, <4>1, <4>2
    <3> QED BY <3>1, <3>2
  <2>3. Len(bt) = Len(s) /\ \A i \in 1..Len(bt) : bt[i] = s[i] BY <1>13, <2>1, <2>2
  <2>4. bt = s BY <1>13, <2>1, <2>3, SeqEqual
  <2> QED BY <2>4 DEF s
<1>16. Holds(bt, X)
  <2>1. Len(bt) = k + (l - n) /\ Len(bt) <= Len(X) BY <1>11, <1>13, <1>14
  <2> QED BY <1>11, <1>13, <1>15, <2>1 DEF Holds
<1>17. q \in Parser /\ q.buffer = bt /\ q.mode = p.mode /\ q.call = p.call
  <2>1. q = [p EXCEPT !.buffer = bt] BY DEF bt, b
  <2> HIDE DEF p, q
  <2> QED BY <1>4, <1>13, <2>1 DEF Parser
<1> HIDE DEF q, p
<1>18. Ahead(ch, q, X, R)
  <2>1. InText(ch, p, X, R) \/ InCalls(ch, p, X, R) \/ InCall(ch, p, X, R) \/ InValue(ch, p, X, R)
    BY <1>2 DEF Ahead
  <2>2. InText(ch, p, X, R) => InText(ch, q, X, R) BY <1>17 DEF InText
  <2>3. InCalls(ch, p, X, R) => InCalls(ch, q, X, R) BY <1>17 DEF InCalls
  <2>4. InCall(ch, p, X, R) => InCall(ch, q, X, R) BY <1>17 DEF InCall
  <2>5. InValue(ch, p, X, R) => InValue(ch, q, X, R) BY <1>17 DEF InValue
  <2> QED BY <1>4, <1>16, <1>17, <2>1, <2>2, <2>3, <2>4, <2>5 DEF Ahead
<1>19. parser' \in [Channels -> Parser] /\ parser'[ch] = q
       /\ \A other \in Channels : other # ch => parser'[other] = parser[other]
  BY <1>1, <1>8, <1>17
<1>20. Channel(ch, l)'
  <2>1. l - Len(q.buffer) = m /\ Len(q.buffer) <= l
    <3>1. Len(q.buffer) = k + (l - n) BY <1>13, <1>17
    <3>2. m \in Nat /\ m + k = n /\ k \in Nat /\ l \in Nat /\ n \in Nat BY <1>4, <1>6, <1>10
    <3>3. l - (k + (l - n)) = m /\ k + (l - n) <= l BY <3>2
    <3> QED BY <3>1, <3>3
  <2>2. ReplyWire(ch)' = ReplyWire(ch) /\ Meaning(ch)' = Meaning(ch) BY ReplyAs
  <2>3. Of(ch, events)' = Of(ch, events) BY <1>7
  <2>4. Ahead(ch, parser'[ch], Drop(ReplyWire(ch)', l - Len(parser'[ch].buffer)), R)
    BY <1>18, <1>19, <2>1, <2>2 DEF X, W
  <2>5. Meaning(ch)' = Of(ch, events)' \o R BY <1>2, <2>2, <2>3
  <2>6. Len(parser'[ch].buffer) <= l BY <1>19, <2>1
  <2> QED BY <1>7, <2>4, <2>5, <2>6 DEF Channel
<1>21. None \notin Channels BY Pieces
<1>22. ASSUME NEW other \in Channels, other # ch PROVE Channel(other, g[other])'
  <2>1. busy # other BY <1>7, <1>21
  <2>2. Channel(other, g[other])
    <3>1. f[other] = g[other] BY <1>22
    <3>2. Channel(other, f[other]) BY <1>1
    <3> QED BY <3>1, <3>2
  <2>3. Of(other, events)' = Of(other, events) BY <1>7
  <2>4. parser'[other] = parser[other] BY <1>19, <1>22
  <2> HIDE DEF X, W, l, n
  <2> QED BY <2>1, <2>2, <2>3, <2>4, ChannelSame
<1>23. \A c \in Channels : Channel(c, g[c])' BY <1>20, <1>22 DEF l
<1> QED BY <1>1, <1>7, <1>19, <1>23 DEF V4Inv, Over

-----------------------------------------------------------------------------
(* The end of a V4 reply                                                   *)

\* When everything has been fed, what is ahead is the text that was withheld.
LEMMA AtTheEnd ==
  ASSUME NEW ch, NEW p, NEW X, NEW R, Ahead(ch, p, X, R), Len(X) = Len(p.buffer),
         p.buffer \in {<<>>, <<"<">>}
  PROVE  p.mode = "content" /\ R = Texts(ch, p.buffer)
<1> DEFINE b == p.buffer
<1>1. p \in Parser /\ b \in Seq(Piece) /\ Len(b) \in Nat /\ Holds(b, X) BY Begun
<1>2. Len(X) < 2 /\ Len(b) < 2
  <2>1. CASE b = <<>>
    <3>1. Len(<<>>) = 0 OBVIOUS
    <3> QED BY <2>1, <3>1
  <2>2. CASE b = <<"<">>
    <3>1. Len(<<"<">>) = 1 OBVIOUS
    <3> QED BY <2>2, <3>1
  <2> QED BY <2>1, <2>2
<1>3. X = b
  <2>1. X \in Seq(Piece) /\ b = SubSeq(X, 1, Len(b)) BY <1>1 DEF Holds
  <2>2. SubSeq(X, 1, Len(X)) = X BY <2>1, SubSeqFull
  <2> QED BY <2>1, <2>2
<1>4. CASE InText(ch, p, X, R)
  <2>1. TextAhead(ch, X, R) /\ p.mode = "content" BY <1>4 DEF InText
  <2>2. PICK T \in PlainText :
          \/ X = T /\ R = Texts(ch, T)
          \/ \E calls \in Seq(V4Call), r \in V4Text :
               /\ X = T \o (<<"<", "open">> \o BlockWire(calls, r))
               /\ R = Texts(ch, T) \o BlockMeaning(ch, calls, r)
    BY <2>1 DEF TextAhead
  <2>3. ASSUME NEW calls \in Seq(V4Call), NEW r \in V4Text,
               X = T \o (<<"<", "open">> \o BlockWire(calls, r))
        PROVE  FALSE
    <3>1. BlockWire(calls, r) \in Seq(Piece)
      <4>1. <<>> \in Seq(Raw) /\ <<>> \in Seq(V4Param) OBVIOUS
      <4> QED BY <4>1, RestsTyped
    <3> DEFINE Z == BlockWire(calls, r)
    <3> HIDE DEF Z
    <3>2. Z \in Seq(Piece) /\ X = T \o (<<"<", "open">> \o Z) BY <2>3, <3>1 DEF Z
    <3>3. Len(X) >= Len(T) + 2 /\ Len(T) \in Nat BY <1>1, <3>2, OpenMarkers
    <3> QED BY <1>2, <3>3
  <2> QED BY <1>3, <2>1, <2>2, <2>3
<1>5. CASE ~InText(ch, p, X, R)
  <2>1. p.mode = "block" BY <1>5 DEF Ahead, InCalls, InCall, InValue
  <2>2. CASE p.call.key = None
    <3>1. PICK tag, Z : Comes(tag, Z, X) BY <2>1, <2>2, NextTag
    <3>2. Shows(tag, Z, X, p) BY <1>1, <3>1, TagAhead
    <3>3. Len(X) >= 2 BY <3>2 DEF Shows
    <3> QED BY <1>1, <1>2, <1>3, <3>3
  <2>3. CASE p.call.key # None
    <3>1. InValue(ch, p, X, R) BY <2>1, <2>3, ValueRead
    <3>2. PICK v \in Seq(Raw), params \in Seq(V4Param), calls \in Seq(V4Call), r \in V4Text :
            X = ValueRest(v, params, calls, r)
      BY <3>1 DEF InValue
    <3>3. CallRest(params, calls, r) \in Seq(Piece) BY RestsTyped
    <3>4. ValueComes(v, CallRest(params, calls, r), X) BY <3>2, <3>3 DEF ValueRest, ValueComes
    <3>5. ValueShows(v, CallRest(params, calls, r), X, p) BY <1>1, <3>4, ValueMarkers
    <3>6. Len(X) >= Len(v) + 2 /\ Len(v) \in Nat BY <3>5 DEF ValueShows
    <3> QED BY <1>1, <1>2, <1>3, <3>6
  <2> QED BY <2>2, <2>3
<1> QED BY <1>4, <1>5

\* What flush() yields is text of its channel.
LEMMA FlushedText ==
  ASSUME NEW ch \in Channels, parser[ch] \in Parser
  PROVE  /\ Flushed(ch) \in Seq(Mine(ch)) /\ Flushed(ch) \in Seq(Yielded)
         /\ \A i \in 1..Len(Flushed(ch)) :
              Flushed(ch)[i].type = "text" /\ Flushed(ch)[i].channel = ch
         /\ parser[ch].mode = "content" => Flushed(ch) = Texts(ch, parser[ch].buffer)
<1> DEFINE p == parser[ch]
           b == p.buffer
           e == Texts(ch, b)
<1>1. b \in Seq(Piece) BY DEF Parser
<1>2. /\ e \in Seq(Mine(ch)) /\ Len(e) = Len(b)
      /\ \A i \in 1..Len(b) : e[i] = Text(ch, b[i])
  BY <1>1, TextsTyped
<1>3. \A i \in 1..Len(e) : e[i].type = "text" /\ e[i].channel = ch
  <2> HIDE DEF e
  <2> TAKE i \in 1..Len(e)
  <2>1. e[i] = Text(ch, b[i]) BY <1>2
  <2> QED BY <2>1 DEF Text
<1>4. Flushed(ch) = IF p.mode = "content" THEN e ELSE <<>> BY DEF Flushed
<1>5. Mine(ch) \subseteq Yielded BY MineYielded
<1> HIDE DEF e
<1>6. Flushed(ch) \in Seq(Mine(ch)) BY <1>2, <1>4
<1>7. Flushed(ch) \in Seq(Yielded) BY <1>5, <1>6, WiderSeq
<1>8. \A i \in 1..Len(Flushed(ch)) : Flushed(ch)[i].type = "text" /\ Flushed(ch)[i].channel = ch
  BY <1>3, <1>4
<1> QED BY <1>4, <1>6, <1>7, <1>8 DEF e

\* The stream is over, and what it has yielded is as it should be.
Ended == Over /\ busy = None /\ events \in Seq(Yielded) /\ CallsIntact /\ ReplyDelivered

\* V4: at the finish_reason both channels are flushed; what is complete has been delivered.
LEMMA V4Ends ==
  ASSUME Setting, protocol' = protocol, reply' = reply, sent' = sent, busy' = busy, busy = None,
         V4Inv(sent), Boundary(sent),
         events' = events \o Flushed("content") \o Flushed("reasoning") \o <<[type |-> "done"]>>
  PROVE  Ended'
<1>1. /\ protocol = "v4" /\ ~Over /\ parser \in [Channels -> Parser]
      /\ events \in Seq(Yielded)
      /\ \A c \in Channels : Channel(c, sent[c])
  BY DEF V4Inv
<1> DEFINE x == Flushed("content")
           y == Flushed("reasoning")
           z == <<[type |-> "done"]>>
<1>2. "content" \in Channels /\ "reasoning" \in Channels
      /\ \A ch \in Channels : ch = "content" \/ ch = "reasoning"
  BY DEF Channels
<1>3. /\ x \in Seq(Yielded) /\ y \in Seq(Yielded) /\ z \in Seq(Yielded)
      /\ \A i \in 1..Len(x) : x[i].type = "text" /\ x[i].channel = "content"
      /\ \A i \in 1..Len(y) : y[i].type = "text" /\ y[i].channel = "reasoning"
      /\ Len(z) = 1 /\ \A i \in 1..Len(z) : z[i].type = "done"
  <2>1. [type |-> "done"] \in Yielded BY <1>2, MineYielded
  <2>2. x \in Seq(Yielded) /\ \A i \in 1..Len(x) : x[i].type = "text" /\ x[i].channel = "content"
    BY <1>1, <1>2, FlushedText
  <2>3. y \in Seq(Yielded) /\ \A i \in 1..Len(y) : y[i].type = "text" /\ y[i].channel = "reasoning"
    BY <1>1, <1>2, FlushedText
  <2>4. z \in Seq(Yielded) /\ Len(z) = 1 /\ \A i \in 1..Len(z) : z[i].type = "done" BY <2>1
  <2> QED BY <2>2, <2>3, <2>4
<1> HIDE DEF x, y, z
<1>4. events' = ((events \o x) \o y) \o z BY DEF x, y, z
<1> DEFINE ex == events \o x
           exy == ex \o y
<1>5. ex \in Seq(Yielded) BY <1>1, <1>3
<1> HIDE DEF ex
<1>6. exy \in Seq(Yielded) BY <1>3, <1>5
<1> HIDE DEF exy
<1>7. events' = exy \o z BY <1>4 DEF exy, ex
<1>8. events' \in Seq(Yielded)
  <2>1. exy \in Seq(Yielded) /\ z \in Seq(Yielded) BY <1>3, <1>6
  <2>2. exy \o z \in Seq(Yielded) BY <2>1, ConcatProperties
  <2> QED BY <1>7, <2>2
<1>9. Over'
  <2>1. Len(exy \o z) = Len(exy) + Len(z) /\ (exy \o z) \in Seq(Yielded)
    BY <1>3, <1>6, ConcatProperties
  <2>0. exy \in Seq(Yielded) /\ z \in Seq(Yielded) BY <1>3, <1>6
  <2>2. \A i \in 1..Len(z) : (exy \o z)[Len(exy) + i] = z[i] BY <2>0
  <2>3. Len(exy) \in Nat BY <1>6
  <2>4. Len(exy) + 1 \in DOMAIN (exy \o z) /\ (exy \o z)[Len(exy) + 1] = z[1] /\ z[1].type = "done"
    BY <1>3, <2>1, <2>2, <2>3
  <2> QED BY <1>7, <2>4 DEF Over
<1>10. ASSUME NEW ch \in Channels
       PROVE  /\ Of(ch, events)' = Of(ch, events) \o Flushed(ch)
              /\ Of(ch, events) \in Seq(Yielded) /\ Flushed(ch) \in Seq(Yielded)
              /\ \A i \in 1..Len(Flushed(ch)) : Flushed(ch)[i].type = "text"
  <2>1. Of(ch, exy \o z) = Of(ch, exy) \o Of(ch, z) /\ Of(ch, exy) \in Seq(Yielded)
    BY <1>3, <1>6, OfConcat
  <2>2. Of(ch, ex \o y) = Of(ch, ex) \o Of(ch, y) /\ Of(ch, ex) \in Seq(Yielded)
    BY <1>3, <1>5, OfConcat
  <2>3. Of(ch, events \o x) = Of(ch, events) \o Of(ch, x) /\ Of(ch, events) \in Seq(Yielded)
    BY <1>1, <1>3, OfConcat
  <2>4. Of(ch, z) = <<>>
    <3>1. \A i \in 1..Len(z) : ~(z[i].type \in {"text", "tool_call"} /\ z[i].channel = ch) BY <1>3
    <3> QED BY <1>3, <3>1, OfNone
  <2>5. Of(ch, events)' = Of(ch, events') BY DEF Of
  <2>6. Of(ch, exy) \o <<>> = Of(ch, exy) BY <2>1, ConcatEmptySeq
  <2>7. Of(ch, events)' = Of(ch, ex) \o Of(ch, y) BY <1>7, <2>1, <2>2, <2>4, <2>5, <2>6 DEF exy
  <2>8. Flushed(ch) \in Seq(Yielded) /\ \A i \in 1..Len(Flushed(ch)) : Flushed(ch)[i].type = "text"
    BY <1>1, FlushedText
  <2>9. CASE ch = "content"
    <3>1. Of(ch, y) = <<>>
      <4>1. \A i \in 1..Len(y) : ~(y[i].type \in {"text", "tool_call"} /\ y[i].channel = ch)
        BY <1>3, <2>9
      <4> QED BY <1>3, <4>1, OfNone
    <3>2. Of(ch, x) = x
      <4>1. \A i \in 1..Len(x) : x[i].type \in {"text", "tool_call"} /\ x[i].channel = ch
        BY <1>3, <2>9
      <4> QED BY <1>3, <4>1, OfAll
    <3>3. Of(ch, ex) \o <<>> = Of(ch, ex) BY <2>2, ConcatEmptySeq
    <3>4. Of(ch, events)' = Of(ch, events) \o x BY <2>3, <2>7, <3>1, <3>2, <3>3 DEF ex
    <3> QED BY <2>3, <2>8, <2>9, <3>4 DEF x
  <2>10. CASE ch = "reasoning"
    <3>1. Of(ch, x) = <<>>
      <4>1. \A i \in 1..Len(x) : ~(x[i].type \in {"text", "tool_call"} /\ x[i].channel = ch)
        BY <1>3, <2>10
      <4> QED BY <1>3, <4>1, OfNone
    <3>2. Of(ch, y) = y
      <4>1. \A i \in 1..Len(y) : y[i].type \in {"text", "tool_call"} /\ y[i].channel = ch
        BY <1>3, <2>10
      <4> QED BY <1>3, <4>1, OfAll
    <3>3. Of(ch, events) \o <<>> = Of(ch, events) BY <2>3, ConcatEmptySeq
    <3>4. Of(ch, events)' = Of(ch, events) \o y BY <2>3, <2>7, <3>1, <3>2, <3>3 DEF ex
    <3> QED BY <2>3, <2>8, <2>10, <3>4 DEF y
  <2> QED BY <1>2, <2>9, <2>10
<1>11. \A ch \in Channels : Meaning(ch)' = Meaning(ch) /\ ReplyWire(ch)' = ReplyWire(ch) BY ReplyAs
<1>12. ASSUME NEW ch \in Channels
       PROVE  IsPrefix(Calls(Of(ch, events)'), Calls(Meaning(ch)))
  <2> DEFINE o == Of(ch, events)
             fl == Flushed(ch)
  <2>1. PICK R : Ahead(ch, parser[ch], Drop(ReplyWire(ch), sent[ch] - Len(parser[ch].buffer)), R)
                 /\ Meaning(ch) = o \o R
    BY <1>1 DEF Channel
  <2>2. R \in Seq(Yielded)
    <3>1. R \in Seq(Mine(ch)) BY <2>1 DEF Ahead
    <3>2. Mine(ch) \subseteq Yielded BY MineYielded
    <3> QED BY <3>1, <3>2, WiderSeq
  <2>3. /\ Of(ch, events)' = o \o fl /\ o \in Seq(Yielded) /\ fl \in Seq(Yielded)
        /\ \A i \in 1..Len(fl) : fl[i].type = "text"
    BY <1>10
  <2> HIDE DEF o, fl
  <2>4. Calls(o \o fl) = Calls(o) \o Calls(fl) /\ Calls(o) \in Seq(Yielded) BY <2>3, CallsConcat
  <2>5. Calls(fl) = <<>>
    <3>1. \A i \in 1..Len(fl) : fl[i].type # "tool_call" BY <2>3
    <3> QED BY <2>3, <3>1, CallsNone
  <2>6. Calls(o) \o <<>> = Calls(o) BY <2>4, ConcatEmptySeq
  <2>7. Calls(o \o R) = Calls(o) \o Calls(R) /\ Calls(R) \in Seq(Yielded) BY <2>2, <2>3, CallsConcat
  <2>8. IsPrefix(Calls(o), Calls(o) \o Calls(R)) BY <2>4, <2>7, PrefixConcat
  <2> QED BY <2>1, <2>3, <2>4, <2>5, <2>6, <2>7, <2>8
<1>13. CallsIntact'
  <2>1. CallsAsMade'
    <3>1. \A ch \in Channels : IsPrefix(Calls(Of(ch, events)'), Calls(Meaning(ch)')) BY <1>11, <1>12
    <3>2. \A ch \in Channels : IsPrefix(Calls(Of(ch, events)), Calls(Meaning(ch)))'
      BY <3>1 DEF IsPrefix, Calls
    <3> QED BY <3>2 DEF CallsAsMade
  <2> QED BY <1>1, <2>1 DEF CallsIntact
<1>14. ASSUME NEW ch \in Channels, sent[ch] = Len(ReplyWire(ch))
       PROVE  Of(ch, events)' = Meaning(ch)
  <2> DEFINE p == parser[ch]
             b == p.buffer
             k == Len(b)
             W == ReplyWire(ch)
             m == sent[ch] - k
             X == Drop(W, m)
  <2>1. PICK R : Ahead(ch, p, X, R) /\ Meaning(ch) = Of(ch, events) \o R
    BY <1>1 DEF Channel
  <2>2. k <= sent[ch] /\ b \in {<<>>, <<"<">>}
    <3>1. None \notin Channels BY Pieces
    <3> QED BY <1>1, <3>1 DEF Channel
  <2>3. k \in Nat BY <2>1, Begun
  <2>4. W \in Seq(Piece) BY <1>1, V4Wire
  <2>5. Len(W) \in Nat /\ sent[ch] = Len(W) BY <1>14, <2>4
  <2>6. m \in 0..Len(W) /\ Len(W) - m = k
    <3> HIDE DEF k, W
    <3> QED BY <2>2, <2>3, <2>5
  <2>7. Len(X) = k
    <3> HIDE DEF k, W, m
    <3>1. Len(X) = Len(W) - m BY <2>4, <2>6, CutInTwo DEF Drop
    <3> QED BY <2>6, <3>1
  <2> HIDE DEF X, m, W
  <2>8. p.mode = "content" /\ R = Texts(ch, b) BY <2>1, <2>2, <2>7, AtTheEnd
  <2>9. Flushed(ch) = R BY <2>8 DEF Flushed
  <2> QED BY <1>10, <2>1, <2>9
<1>15. ReplyDelivered'
  <2> SUFFICES ASSUME \A part \in Parts' : sent'[part] = Len(ReplyWire(part)'), NEW ch \in Channels'
               PROVE  Of(ch, events)' = Meaning(ch)'
    BY DEF ReplyDelivered
  <2>0. ch \in Channels BY DEF Channels
  <2>1. Parts' = Parts BY ReplyAs
  <2>2. ch \in Parts BY <2>0 DEF Parts
  <2>3. sent[ch] = Len(ReplyWire(ch))
    <3>1. sent'[ch] = Len(ReplyWire(ch)') BY <2>1, <2>2
    <3> QED BY <1>11, <2>0, <3>1
  <2> QED BY <1>11, <1>14, <2>0, <2>3
<1> QED BY <1>8, <1>9, <1>13, <1>15 DEF Ended, Yielded

-----------------------------------------------------------------------------
(* The fragments of V3 calls                                               *)

\* The fragments of calls.
Frags == [index : Nat, id : CallTags \cup {Absent}, args : Seq(JsonPiece)]

\* The fragments of the n-th of the calls C.
CallOn(C, n) ==
  <<Fragment(n, C[n].id, <<>>)>> \o
  [i \in DOMAIN C[n].args |-> Fragment(n, Absent, <<C[n].args[i]>>)]

\* What the first k fragments of a call come to.
Gathered(C, i, k) == Fragment(i, C[i].id, SubSeq(C[i].args, 1, k - 1))

\* pc is what the first c[i] fragments of the i-th call come to, for all i.
Gathers(pc, C, c) ==
  /\ pc \in Seq(Frags) /\ Len(pc) <= Len(C)
  /\ \A i \in 1..Len(C) :
       /\ i <= Len(pc) <=> c[i] > 0
       /\ i <= Len(pc) => pc[i] = Gathered(C, i, c[i])

\* Merging a fragment leaves fragments.
LEMMA MergedTyped ==
  ASSUME NEW pc \in Seq(Frags), NEW f \in Frags
  PROVE  Merged(pc, f) \in Seq(Frags)
<1> DEFINE E(i) == IF pc[i].index # f.index THEN pc[i]
                   ELSE [pc[i] EXCEPT !.id = IF f.id = Absent THEN @ ELSE f.id,
                                      !.args = @ \o f.args]
<1>1. DOMAIN pc = 1..Len(pc) /\ Len(pc) \in Nat /\ \A i \in 1..Len(pc) : pc[i] \in Frags OBVIOUS
<1>2. ASSUME NEW i \in 1..Len(pc) PROVE E(i) \in Frags
  <2>1. pc[i] \in Frags BY <1>1
  <2>2. pc[i].args \o f.args \in Seq(JsonPiece)
    <3>1. pc[i].args \in Seq(JsonPiece) /\ f.args \in Seq(JsonPiece) BY <2>1 DEF Frags
    <3> HIDE DEF E
    <3> QED BY <3>1, ConcatProperties
  <2> QED BY <2>1, <2>2 DEF Frags
<1> DEFINE m == [i \in 1..Len(pc) |-> E(i)]
<1>3. m \in Seq(Frags)
  <2> HIDE DEF E
  <2>1. m \in [1..Len(pc) -> Frags] BY <1>2
  <2> HIDE DEF m
  <2> QED BY <1>1, <2>1
<1>4. CASE \E i \in DOMAIN pc : pc[i].index = f.index
  <2>1. Merged(pc, f) = m BY <1>1, <1>4 DEF Merged
  <2> QED BY <1>3, <2>1
<1>5. CASE ~\E i \in DOMAIN pc : pc[i].index = f.index
  <2>1. Merged(pc, f) = Append(pc, f) BY <1>5 DEF Merged
  <2> QED BY <2>1
<1> QED BY <1>4, <1>5

\* The first fragment has the id, the others a piece of the arguments each.
LEMMA CallOnIs ==
  ASSUME NEW C \in Seq(V3Call), NEW n \in 1..Len(C)
  PROVE  /\ CallOn(C, n) \in Seq(Frags) /\ Len(CallOn(C, n)) = Len(C[n].args) + 1
         /\ CallOn(C, n)[1] = Fragment(n, C[n].id, <<>>)
         /\ \A k \in 1..Len(C[n].args) :
              CallOn(C, n)[k + 1] = Fragment(n, Absent, <<C[n].args[k]>>)
         /\ C[n].id \in CallTags /\ C[n].args \in Seq(JsonPiece) /\ Len(C[n].args) \in Nat
<1> DEFINE g == C[n].args
           a == <<Fragment(n, C[n].id, <<>>)>>
           b == [i \in DOMAIN g |-> Fragment(n, Absent, <<g[i]>>)]
<1>1. C[n] \in V3Call /\ n \in Nat OBVIOUS
<1>2. C[n].id \in CallTags /\ g \in Seq(JsonPiece) /\ Len(g) \in Nat BY <1>1 DEF V3Call
<1>3. a \in Seq(Frags) /\ Len(a) = 1 /\ a[1] = Fragment(n, C[n].id, <<>>)
  <2>1. <<>> \in Seq(JsonPiece) OBVIOUS
  <2>2. Fragment(n, C[n].id, <<>>) \in Frags BY <1>1, <1>2, <2>1 DEF Fragment, Frags
  <2> QED BY <2>2
<1> HIDE DEF a, g
<1>4. /\ b \in Seq(Frags) /\ Len(b) = Len(g)
      /\ \A k \in 1..Len(g) : b[k] = Fragment(n, Absent, <<g[k]>>)
  <2>1. DOMAIN g = 1..Len(g) /\ \A k \in 1..Len(g) : g[k] \in JsonPiece BY <1>2
  <2>2. ASSUME NEW k \in 1..Len(g) PROVE Fragment(n, Absent, <<g[k]>>) \in Frags
    <3>1. <<g[k]>> \in Seq(JsonPiece) BY <2>1
    <3> QED BY <1>1, <3>1 DEF Fragment, Frags
  <2>3. b \in [1..Len(g) -> Frags] BY <2>1, <2>2
  <2>4. \A k \in 1..Len(g) : b[k] = Fragment(n, Absent, <<g[k]>>) BY <2>1
  <2> HIDE DEF b
  <2> QED BY <1>2, <2>3, <2>4
<1> HIDE DEF b
<1>5. /\ a \o b \in Seq(Frags) /\ Len(a \o b) = Len(a) + Len(b)
      /\ \A i \in 1..(Len(a) + Len(b)) : (a \o b)[i] = IF i <= Len(a) THEN a[i] ELSE b[i - Len(a)]
  <2>1. a \in Seq(Frags) /\ b \in Seq(Frags) BY <1>3, <1>4
  <2> QED BY <2>1, ConcatProperties
<1>6. CallOn(C, n) = a \o b BY DEF CallOn, a, b, g
<1>7. (a \o b)[1] = a[1]
  <2>1. 1 \in 1..(Len(a) + Len(b)) /\ 1 <= Len(a) BY <1>2, <1>3, <1>4
  <2> QED BY <1>5, <2>1
<1>8. ASSUME NEW k \in 1..Len(g) PROVE (a \o b)[k + 1] = b[k]
  <2>1. k + 1 \in 1..(Len(a) + Len(b)) /\ ~(k + 1 <= Len(a)) /\ (k + 1) - Len(a) = k
    BY <1>2, <1>3, <1>4
  <2> QED BY <1>5, <2>1
<1>9. Len(a \o b) = Len(g) + 1 BY <1>2, <1>3, <1>4, <1>5
<1> QED BY <1>2, <1>3, <1>4, <1>5, <1>6, <1>7, <1>8, <1>9 DEF g

\* Merging the next fragment of a call gathers one more.
LEMMA MergeOne ==
  ASSUME NEW C \in Seq(V3Call), NEW pc, NEW c \in [1..Len(C) -> Nat], Gathers(pc, C, c),
         NEW j \in 1..Len(C), c[j] < Len(CallOn(C, j)), \A i \in 1..(j - 1) : c[i] > 0
  PROVE  Gathers(Merged(pc, CallOn(C, j)[c[j] + 1]), C, [c EXCEPT ![j] = @ + 1])
<1> DEFINE N == Len(C)
           m == Len(pc)
           k == c[j]
           f == CallOn(C, j)[k + 1]
           g == C[j].args
           c2 == [c EXCEPT ![j] = @ + 1]
           pc2 == Merged(pc, f)
<1>1. /\ CallOn(C, j) \in Seq(Frags) /\ Len(CallOn(C, j)) = Len(g) + 1
      /\ CallOn(C, j)[1] = Fragment(j, C[j].id, <<>>)
      /\ \A l \in 1..Len(g) : CallOn(C, j)[l + 1] = Fragment(j, Absent, <<g[l]>>)
      /\ C[j].id \in CallTags /\ g \in Seq(JsonPiece) /\ Len(g) \in Nat
  BY CallOnIs
<1>2. /\ pc \in Seq(Frags) /\ m <= N /\ m \in Nat /\ N \in Nat
      /\ \A i \in 1..N : (i <= m <=> c[i] > 0) /\ (i <= m => pc[i] = Gathered(C, i, c[i]))
  BY DEF Gathers
<1>3. k \in Nat /\ k <= Len(g) /\ k + 1 \in 1..Len(CallOn(C, j)) BY <1>1
<1>4. f \in Frags BY <1>1, <1>3
<1> HIDE DEF g
<1>5. pc2 \in Seq(Frags) BY <1>2, <1>4, MergedTyped
<1>6. \A i \in 1..m : pc[i].index = i
  <2> TAKE i \in 1..m
  <2>1. i \in 1..N /\ i <= m BY <1>2
  <2>2. pc[i] = Gathered(C, i, c[i]) BY <1>2, <2>1
  <2> QED BY <2>2 DEF Gathered, Fragment
<1>7. /\ c2[j] = k + 1 /\ \A i \in 1..N : i # j => c2[i] = c[i] OBVIOUS
<1>8. f.index = j
  <2>1. CASE k = 0
    <3>1. k + 1 = 1 BY <2>1
    <3> QED BY <1>1, <3>1 DEF Fragment
  <2>2. CASE k # 0
    <3>1. k \in 1..Len(g) BY <1>3, <2>2
    <3>2. f = Fragment(j, Absent, <<g[k]>>) BY <1>1, <3>1
    <3> HIDE DEF f
    <3> QED BY <3>2 DEF Fragment
  <2> QED BY <2>1, <2>2
<1>9. DOMAIN pc = 1..m BY <1>2
<1> HIDE DEF c2
<1>10. CASE k = 0
  <2>1. k + 1 = 1 /\ f = Fragment(j, C[j].id, <<>>) BY <1>1, <1>10
  <2>2. j = m + 1
    <3>1. ~(j <= m) BY <1>2, <1>10
    <3>2. CASE j > m + 1
      <4>1. m + 1 \in 1..(j - 1) /\ m + 1 \in 1..N /\ ~(m + 1 <= m) BY <1>2, <3>2
      <4> QED BY <1>2, <4>1
    <3> QED BY <1>2, <3>1, <3>2
  <2>3. ~\E i \in DOMAIN pc : pc[i].index = f.index
    <3> SUFFICES ASSUME NEW i \in 1..m, pc[i].index = j PROVE FALSE BY <1>8, <1>9
    <3>1. i = j BY <1>6
    <3> QED BY <1>2, <2>2, <3>1
  <2>4. pc2 = Append(pc, f) BY <2>3 DEF Merged
  <2> HIDE DEF f, pc2
  <2>5. /\ Len(pc2) = m + 1 /\ pc2[m + 1] = f /\ \A i \in 1..m : pc2[i] = pc[i]
    BY <1>2, <1>4, <2>4
  <2>6. f = Gathered(C, j, c2[j])
    <3>1. SubSeq(g, 1, 0) = <<>> BY <1>1, SubSeqEmpty DEF g
    <3>2. c2[j] - 1 = 0 BY <1>7, <1>10
    <3> QED BY <2>1, <3>1, <3>2 DEF Gathered, g
  <2>7. ASSUME NEW i \in 1..N
        PROVE  (i <= m + 1 <=> c2[i] > 0) /\ (i <= m + 1 => pc2[i] = Gathered(C, i, c2[i]))
    <3>1. CASE i = j
      <4>1. c2[i] > 0 /\ i <= m + 1 BY <1>2, <1>3, <1>7, <2>2, <3>1
      <4> QED BY <2>2, <2>5, <2>6, <3>1, <4>1
    <3>2. CASE i # j
      <4>1. (i <= m + 1 <=> i <= m) /\ c2[i] = c[i] BY <1>2, <1>7, <2>2, <3>2
      <4>2. i <= m => i \in 1..m BY <1>2
      <4> QED BY <1>2, <2>5, <4>1, <4>2
    <3> QED BY <3>1, <3>2
  <2>8. m + 1 <= N BY <2>2
  <2> HIDE DEF m, N
  <2> QED BY <1>5, <2>5, <2>7, <2>8 DEF Gathers, N, pc2, f, k, c2
<1>11. CASE k # 0
  <2>1. k \in 1..Len(g) /\ f = Fragment(j, Absent, <<g[k]>>)
    <3>1. k \in 1..Len(g) BY <1>3, <1>11
    <3> QED BY <1>1, <3>1 DEF g
  <2>2. j \in 1..m BY <1>2, <1>3, <1>11
  <2>3. pc[j].index = f.index BY <1>6, <1>8, <2>2
  <2>4. pc2 = [i \in 1..m |->
            IF pc[i].index # f.index THEN pc[i]
            ELSE [pc[i] EXCEPT !.id = IF f.id = Absent THEN @ ELSE f.id, !.args = @ \o f.args]]
    BY <1>9, <2>2, <2>3 DEF Merged
  <2>5. f.id = Absent /\ f.args = <<g[k]>> BY <2>1 DEF Fragment
  <2> HIDE DEF f, pc2
  <2>6. Len(pc2) = m
    <3> DEFINE mm == m
    <3> HIDE DEF mm
    <3>1. mm \in Nat BY <1>2 DEF mm
    <3>2. DOMAIN pc2 = 1..mm BY <2>4 DEF mm
    <3> QED BY <1>5, <3>1, <3>2 DEF mm
  <2>7. \A i \in 1..m : i # j => pc2[i] = pc[i] BY <1>6, <1>8, <2>4
  <2>8. pc2[j] = Gathered(C, j, c2[j])
    <3>1. pc2[j] = [pc[j] EXCEPT !.id = @, !.args = @ \o <<g[k]>>] BY <2>2, <2>3, <2>4, <2>5
    <3>2. pc[j] = Fragment(j, C[j].id, SubSeq(g, 1, k - 1))
      <4>1. j \in 1..N /\ j <= m BY <1>2, <2>2
      <4> QED BY <1>2, <4>1 DEF Gathered, g
    <3> DEFINE u == SubSeq(g, 1, k - 1)
               v == <<g[k]>>
               x == C[j].id
    <3>3. pc2[j] = Fragment(j, x, u \o v)
      <4> HIDE DEF u, v, x
      <4>1. pc[j] = [index |-> j, id |-> x, args |-> u] BY <3>2 DEF Fragment, u, x
      <4>2. pc2[j] = [pc[j] EXCEPT !.id = @, !.args = @ \o v] BY <3>1 DEF v
      <4> DEFINE p == pc[j]
                 w == p.args \o v
      <4>3. pc2[j] = [p EXCEPT !.args = w]
        <5>1. p = [index |-> j, id |-> x, args |-> u] BY <4>1
        <5> QED BY <4>2, <5>1
      <4>4. w = u \o v BY <4>1
      <4>5. pc2[j] = [index |-> j, id |-> x, args |-> w]
        <5> HIDE DEF w
        <5> QED BY <4>1, <4>3
      <4> QED BY <4>4, <4>5 DEF Fragment
    <3>4. SubSeq(g, 1, k - 1) \o <<g[k]>> = SubSeq(g, 1, k)
      <4> DEFINE l == k - 1
      <4>1. l \in Nat /\ l + 1 = k /\ l + 1 <= Len(g) BY <1>3, <2>1
      <4> HIDE DEF l
      <4>2. g \in Seq(JsonPiece) BY <1>1 DEF g
      <4>3. /\ SubSeq(g, 1, l) \in Seq(JsonPiece) /\ g[l + 1] \in JsonPiece
            /\ SubSeq(g, 1, l + 1) = Append(SubSeq(g, 1, l), g[l + 1])
        <5>1. <<>> \in Seq(JsonPiece) OBVIOUS
        <5> QED BY <4>1, <4>2, <5>1, OneFurther
      <4> DEFINE s == SubSeq(g, 1, l)
                 y == g[l + 1]
      <4>4. s \in Seq(JsonPiece) /\ y \in JsonPiece BY <4>3
      <4> HIDE DEF s, y
      <4>5. s \o <<y>> = Append(s, y) BY <4>4
      <4> QED BY <4>1, <4>3, <4>5 DEF s, y, l
    <3>5. c2[j] - 1 = k BY <1>3, <1>7
    <3> QED BY <3>3, <3>4, <3>5 DEF Gathered, g
  <2>9. ASSUME NEW i \in 1..N
        PROVE  (i <= m <=> c2[i] > 0) /\ (i <= m => pc2[i] = Gathered(C, i, c2[i]))
    <3>1. CASE i = j
      <4>1. c2[i] > 0 /\ i <= m BY <1>3, <1>7, <2>2, <3>1
      <4> QED BY <2>8, <3>1, <4>1
    <3>2. CASE i # j
      <4>1. c2[i] = c[i] BY <1>7, <3>2
      <4>2. i <= m => i \in 1..m BY <1>2
      <4> QED BY <1>2, <2>7, <3>2, <4>1, <4>2
    <3> QED BY <3>1, <3>2
  <2> HIDE DEF N
  <2>10. Gathers(pc2, C, c2) BY <1>2, <1>5, <2>6, <2>9 DEF Gathers, N
  <2> QED BY <2>10 DEF pc2, f, k, c2
<1> QED BY <1>10, <1>11

\* Collecting is merging one fragment after the other.
LEMMA CollectedIs ==
  ASSUME pendingCalls \in Seq(Frags), NEW fr \in Seq(Frags)
  PROVE  \E g \in [0..Len(fr) -> Seq(Frags)] :
           /\ g[0] = pendingCalls
           /\ \A i \in 1..Len(fr) : g[i] = Merged(g[i - 1], fr[i])
           /\ Collected(fr) = g[Len(fr)]
<1> DEFINE n == Len(fr)
           X == Seq(Frags)
           e == pendingCalls
           F == [i \in 1..n |-> [s \in X |-> Merged(s, fr[i])]]
<1>1. n \in Nat /\ \A i \in 1..n : fr[i] \in Frags OBVIOUS
<1>2. \A i \in 1..n : [s \in X |-> Merged(s, fr[i])] \in [X -> X]
  <2> TAKE i \in 1..n
  <2>1. \A s \in X : Merged(s, fr[i]) \in X BY <1>1, MergedTyped
  <2> QED BY <2>1
<1>3. F \in [1..n -> [X -> X]] BY <1>2
<1>4. e \in X OBVIOUS
<1> HIDE DEF n
<1>5. \E g : Iterates(g, e, n, F, X)
  <2> HIDE DEF F, X, e
  <2>1. n \in Nat BY <1>1
  <2> QED BY <2>1, <1>3, <1>4, Iterate
<1>8. PICK g \in [0..n -> X] : g[0] = e /\ \A i \in 1..n : g[i] = F[i][g[i - 1]]
  BY <1>5 DEF Iterates
<1>6. ASSUME NEW i \in 1..n PROVE g[i] = Merged(g[i - 1], fr[i])
  <2>1. i - 1 \in 0..n BY <1>1
  <2>2. g[i - 1] \in X BY <2>1
  <2> QED BY <1>8, <2>2
<1>7. Collected(fr) = g[n]
  <2> DEFINE E(f) == f = [i \in 0..n |-> IF i = 0 THEN pendingCalls ELSE Merged(f[i - 1], fr[i])]
             h == [i \in 0..n |-> g[i]]
  <2>1. E(h)
    <3>1. ASSUME NEW i \in 0..n
          PROVE  h[i] = IF i = 0 THEN pendingCalls ELSE Merged(h[i - 1], fr[i])
      <4>1. CASE i = 0 BY <1>8, <4>1
      <4>2. CASE i # 0
        <5>1. i \in 1..n /\ i - 1 \in 0..n BY <1>1, <4>2
        <5> QED BY <1>6, <4>2, <5>1
      <4> QED BY <4>1, <4>2
    <3> QED BY <3>1
  <2>2. Collected(fr) = (CHOOSE f : E(f))[n] BY DEF Collected, n
  <2> DEFINE f == CHOOSE k : E(k)
  <2>3. E(f) BY <2>1
  <2> HIDE DEF f
  <2>4. \A i \in 0..n : f[i] = IF i = 0 THEN pendingCalls ELSE Merged(f[i - 1], fr[i]) BY <2>3
  <2> DEFINE S == {k \in Nat : k <= n => f[k] = g[k]}
  <2>5. 0 \in S
    <3>1. 0 \in 0..n BY <1>1
    <3> QED BY <1>8, <2>4, <3>1
  <2>6. ASSUME NEW k \in Nat, k \in S PROVE k + 1 \in S
    <3> SUFFICES ASSUME k + 1 <= n PROVE f[k + 1] = g[k + 1]
      OBVIOUS
    <3>1. k + 1 \in 0..n /\ k + 1 \in 1..n /\ k + 1 # 0 /\ (k + 1) - 1 = k /\ k <= n BY <1>1
    <3>2. f[k + 1] = Merged(f[k], fr[k + 1]) BY <2>4, <3>1
    <3>3. g[k + 1] = Merged(g[k], fr[k + 1]) BY <1>6, <3>1
    <3> QED BY <2>6, <3>1, <3>2, <3>3
  <2> HIDE DEF S
  <2>7. Nat \subseteq S BY <2>5, <2>6, Induct
  <2>8. f[n] = g[n] BY <1>1, <2>7 DEF S
  <2>9. Collected(fr) = f[n] BY <2>2 DEF f
  <2> QED BY <2>8, <2>9
<1> QED BY <1>6, <1>7, <1>8 DEF n, X

\* Collecting the next fragments of a call gathers that many more.
LEMMA CollectMany ==
  ASSUME NEW C \in Seq(V3Call), NEW c \in [1..Len(C) -> Nat], Gathers(pendingCalls, C, c),
         NEW j \in 1..Len(C), NEW b \in Nat, c[j] < b, b <= Len(CallOn(C, j)),
         \A i \in 1..(j - 1) : c[i] > 0
  PROVE  Gathers(Collected(SubSeq(CallOn(C, j), c[j] + 1, b)), C, [c EXCEPT ![j] = b])
<1> DEFINE w == CallOn(C, j)
           a == c[j]
           fr == SubSeq(w, a + 1, b)
           n == Len(fr)
<1>1. w \in Seq(Frags) /\ Len(w) \in Nat BY CallOnIs
<1>2. a \in Nat OBVIOUS
<1> HIDE DEF w, a
<1>3. fr \in Seq(Frags) /\ Len(fr) = b - a /\ \A i \in 1..(b - a) : fr[i] = w[a + i]
  <2>1. a < b /\ b <= Len(w) /\ a \in Nat BY <1>2 DEF a, w
  <2>2. fr = [i \in 1..(b - a) |-> w[a + i]]
    <3>1. b - (a + 1) + 1 = b - a /\ \A i \in 1..(b - a) : (a + 1) + i - 1 = a + i BY <2>1
    <3>2. fr = [i \in 1..(b - (a + 1) + 1) |-> w[(a + 1) + i - 1]] BY <1>1, <2>1
    <3> QED BY <3>1, <3>2
  <2>3. \A i \in 1..(b - a) : w[a + i] \in Frags
    <3> TAKE i \in 1..(b - a)
    <3>1. a + i \in 1..Len(w) BY <1>1, <2>1
    <3> QED BY <1>1, <3>1
  <2>4. b - a \in Nat BY <2>1
  <2> HIDE DEF fr
  <2>5. fr \in [1..(b - a) -> Frags] BY <2>2, <2>3
  <2> QED BY <2>2, <2>4, <2>5
<1>4. pendingCalls \in Seq(Frags) BY DEF Gathers
<1> HIDE DEF fr
<1>5. PICK g \in [0..n -> Seq(Frags)] :
        /\ g[0] = pendingCalls
        /\ \A i \in 1..n : g[i] = Merged(g[i - 1], fr[i])
        /\ Collected(fr) = g[n]
  BY <1>3, <1>4, CollectedIs
<1> DEFINE T == 1..Len(C)
           G(k) == Gathers(g[k], C, [c EXCEPT ![j] = a + k])
           S == {k \in Nat : k <= n => G(k)}
<1>6. n = b - a /\ n \in Nat /\ a < b /\ b <= Len(w) BY <1>2, <1>3 DEF a, w
<1>7. 0 \in S
  <2>1. [c EXCEPT ![j] = a + 0] = c
    <3>1. a + 0 = c[j] BY <1>2 DEF a
    <3> QED BY <3>1
  <2> QED BY <1>5, <2>1
<1>8. ASSUME NEW k \in Nat, k \in S PROVE k + 1 \in S
  <2> SUFFICES ASSUME k + 1 <= n PROVE G(k + 1)
    OBVIOUS
  <2>1. k <= n /\ k + 1 \in 1..n /\ (k + 1) - 1 = k /\ k \in 0..n BY <1>6
  <2> DEFINE d == [c EXCEPT ![j] = a + k]
             d2 == [c EXCEPT ![j] = a + (k + 1)]
  <2>2. Gathers(g[k], C, d) BY <1>8, <2>1
  <2>3. d \in [T -> Nat] /\ d[j] = a + k /\ \A i \in T : i # j => d[i] = c[i]
    BY <1>2
  <2>4. d2 = [d EXCEPT ![j] = @ + 1]
    <3>1. a + (k + 1) = (a + k) + 1 BY <1>2
    <3> QED BY <2>3, <3>1
  <2> HIDE DEF d, d2
  <2>5. d[j] < Len(w) BY <1>1, <1>2, <1>6, <2>1, <2>3
  <2>6. \A i \in 1..(j - 1) : d[i] > 0
    <3> TAKE i \in 1..(j - 1)
    <3>1. i \in T /\ i # j OBVIOUS
    <3> QED BY <2>3, <3>1
  <2>7. g[k + 1] = Merged(g[k], fr[k + 1]) BY <1>5, <2>1
  <2>8. fr[k + 1] = w[d[j] + 1]
    <3>1. a + (k + 1) = d[j] + 1 BY <1>2, <2>3
    <3>2. k + 1 \in 1..(b - a) BY <1>6, <2>1
    <3> QED BY <1>3, <3>1, <3>2
  <2>9. Gathers(Merged(g[k], CallOn(C, j)[d[j] + 1]), C, [d EXCEPT ![j] = @ + 1])
    BY <2>2, <2>3, <2>5, <2>6, MergeOne DEF w
  <2> QED BY <2>4, <2>7, <2>8, <2>9 DEF d2, w
<1> HIDE DEF S
<1>9. Nat \subseteq S BY <1>7, <1>8, Induct
<1>10. G(n)
  <2> HIDE DEF n, G
  <2>1. n \in S /\ n <= n BY <1>6, <1>9
  <2> QED BY <2>1 DEF S
<1>11. a + n = b BY <1>2, <1>6
<1> HIDE DEF n
<1>12. Gathers(Collected(fr), C, [c EXCEPT ![j] = b]) BY <1>5, <1>10, <1>11
<1> QED BY <1>12 DEF fr, w, a

-----------------------------------------------------------------------------
(* The stream of V3                                                        *)

\* What a V3 reply is on the wire.
LEMMA V3Facts ==
  ASSUME Setting, protocol = "v3"
  PROVE  /\ reply.calls \in Seq(V3Call) /\ Len(reply.calls) \in Nat
         /\ DOMAIN reply.calls = 1..Len(reply.calls)
         /\ \A ch \in Channels : reply[ch] \in Seq(Piece) /\ ReplyWire(ch) = reply[ch]
         /\ \A ch \in Channels : ch \in Parts /\ ch \notin V3Ids
         /\ \A i \in 1..Len(reply.calls) :
              /\ reply.calls[i].id \in V3Ids /\ reply.calls[i].id \in Parts
              /\ V3Index(reply.calls[i].id) = i
              /\ ReplyWire(reply.calls[i].id) = CallOn(reply.calls, i)
              /\ WholeObject(reply.calls[i].args)
         /\ \A id \in V3Ids : /\ V3Index(id) \in 1..Len(reply.calls)
                              /\ reply.calls[V3Index(id)].id = id
<1> DEFINE C == reply.calls
<1>1. reply \in V3Replies /\ reply \in V3Reply BY ReplyAssumptions DEF Setting
<1>2. C \in Seq(V3Call) /\ reply["content"] \in Seq(Piece) /\ reply["reasoning"] \in Seq(Piece)
  BY <1>1 DEF V3Reply
<1>3. DOMAIN C = 1..Len(C) /\ Len(C) \in Nat BY <1>2
<1>4. /\ \A i \in DOMAIN C : WholeObject(C[i].args)
      /\ \A i, j \in DOMAIN C : C[i].id = C[j].id => i = j
  BY <1>1, ReplyAssumptions
<1>5. CallTags \cap (Channels \cup {Absent}) = {} BY ReplyAssumptions
<1> HIDE DEF C
<1>6. V3Ids = {C[n].id : n \in 1..Len(C)} BY <1>3 DEF V3Ids, C
<1>7. \A i \in 1..Len(C) : C[i].id \in CallTags
  <2> TAKE i \in 1..Len(C)
  <2>1. C[i] \in V3Call BY <1>2
  <2> QED BY <2>1 DEF V3Call
<1>8. ASSUME NEW i \in 1..Len(C)
      PROVE  /\ C[i].id \in V3Ids /\ C[i].id \in Parts /\ V3Index(C[i].id) = i
             /\ ReplyWire(C[i].id) = CallOn(C, i) /\ WholeObject(C[i].args)
  <2>1. C[i].id \in V3Ids BY <1>6
  <2>2. V3Index(C[i].id) = i
    <3>1. V3Index(C[i].id) = CHOOSE n \in 1..Len(C) : C[n].id = C[i].id BY <1>3 DEF V3Index, C
    <3>2. \A n \in 1..Len(C) : C[n].id = C[i].id <=> n = i BY <1>3, <1>4
    <3>3. (CHOOSE n \in 1..Len(C) : C[n].id = C[i].id) = i BY <3>2
    <3> QED BY <3>1, <3>3
  <2>3. ReplyWire(C[i].id) = V3CallWire(i) BY <2>1, <2>2 DEF ReplyWire
  <2>4. V3CallWire(i) = CallOn(C, i) BY DEF V3CallWire, CallOn, C
  <2> QED BY <1>3, <1>4, <2>1, <2>2, <2>3, <2>4 DEF Parts
<1>9. ASSUME NEW id \in V3Ids PROVE V3Index(id) \in 1..Len(C) /\ C[V3Index(id)].id = id
  <2>1. PICK n \in 1..Len(C) : id = C[n].id BY <1>6
  <2> QED BY <1>8, <2>1
<1>10. ASSUME NEW ch \in Channels
       PROVE  /\ reply[ch] \in Seq(Piece) /\ ReplyWire(ch) = reply[ch]
              /\ ch \in Parts /\ ch \notin V3Ids
  <2>1. ch \notin V3Ids BY <1>5, <1>6, <1>7
  <2>2. ch \in Parts BY DEF Parts
  <2>3. ReplyWire(ch) = reply[ch] BY <2>1 DEF ReplyWire
  <2>4. reply[ch] \in Seq(Piece) BY <1>2 DEF Channels
  <2> QED BY <2>1, <2>2, <2>3, <2>4
<1> QED BY <1>2, <1>3, <1>8, <1>9, <1>10 DEF C

\* How many fragments of each call f counts.
Progress(f) == [i \in 1..Len(reply.calls) |-> f[reply.calls[i].id]]

\* V3: the text of f has been yielded, no call yet, and the fragments of f are gathered.
V3Inv(f) ==
  /\ protocol = "v3" /\ ~Over
  /\ busy = None
  /\ events \in Seq(Yielded)
  /\ \A i \in 1..Len(events) : events[i].type \in {"text", "error"}
  /\ \A ch \in Channels : Of(ch, events) = Texts(ch, SubSeq(reply[ch], 1, f[ch]))
  /\ Gathers(pendingCalls, reply.calls, Progress(f))

\* What is gathered stays so.
LEMMA GathersSame ==
  ASSUME reply' = reply, pendingCalls' = pendingCalls, NEW f,
         Gathers(pendingCalls, reply.calls, Progress(f))
  PROVE  Gathers(pendingCalls, reply.calls, Progress(f))'
<1>1. Progress(f)' = Progress(f) BY DEF Progress
<1>2. Gathers(pendingCalls', reply.calls', Progress(f)') BY <1>1
<1> QED BY <1>2 DEF Gathers, Gathered, Fragment, Frags

\* Nothing changes,
LEMMA V3Same ==
  ASSUME protocol' = protocol, reply' = reply, UNCHANGED <<dsmlVars, pendingCalls>>,
         NEW f, V3Inv(f)
  PROVE  V3Inv(f)'
<1>1. busy' = busy /\ events' = events BY DEF dsmlVars
<1>2. Gathers(pendingCalls, reply.calls, Progress(f))' BY GathersSame DEF V3Inv
<1>3. \A ch \in Channels : Of(ch, events)' = Texts(ch, SubSeq(reply[ch], 1, f[ch]))'
  <2> TAKE ch \in Channels
  <2>1. Of(ch, events) = Texts(ch, SubSeq(reply[ch], 1, f[ch])) BY DEF V3Inv
  <2> QED BY <1>1, <2>1
<1> QED BY <1>1, <1>2, <1>3 DEF V3Inv, Over, Yielded

\* More events without a call.
LEMMA V3Gain ==
  ASSUME events \in Seq(Yielded), ~Over, NEW e \in Seq(Yielded), events' = events \o e,
         \A i \in 1..Len(events) : events[i].type \in {"text", "error"},
         \A i \in 1..Len(e) : e[i].type \in {"text", "error"}
  PROVE  /\ ~Over' /\ events' \in Seq(Yielded)
         /\ \A i \in 1..Len(events') : events'[i].type \in {"text", "error"}
         /\ \A ch \in Channels : Of(ch, events)' = Of(ch, events) \o Of(ch, e)
                                 /\ Of(ch, events) \in Seq(Yielded)
<1>1. \A i \in 1..Len(e) : e[i].type # "done"
  <2> TAKE i \in 1..Len(e)
  <2>1. e[i].type \in {"text", "error"} OBVIOUS
  <2> QED BY <2>1
<1>2. ~Over' /\ events' \in Seq(Yielded) BY <1>1, NotOver
<1>3. \A ch \in Channels : Of(ch, events)' = Of(ch, events) \o Of(ch, e) /\ Of(ch, events) \in Seq(Yielded)
  <2> TAKE ch \in Channels
  <2>1. Of(ch, events \o e) = Of(ch, events) \o Of(ch, e) /\ Of(ch, events) \in Seq(Yielded)
    BY OfConcat
  <2>2. Of(ch, events)' = Of(ch, events') BY DEF Of
  <2> QED BY <2>1, <2>2
<1>4. \A i \in 1..Len(events') : events'[i].type \in {"text", "error"}
  <2> DEFINE n == Len(events)
             s == events \o e
  <2>1. Len(s) = n + Len(e) /\ n \in Nat /\ Len(e) \in Nat
        /\ \A i \in 1..(n + Len(e)) : s[i] = IF i <= n THEN events[i] ELSE e[i - n]
    BY ConcatProperties
  <2> HIDE DEF s, n
  <2>2. ASSUME NEW i \in 1..(n + Len(e)) PROVE s[i].type \in {"text", "error"}
    <3>1. CASE i <= n
      <4>1. i \in 1..n BY <2>1, <3>1
      <4> QED BY <2>1, <3>1, <4>1 DEF n
    <3>2. CASE ~(i <= n)
      <4>1. i - n \in 1..Len(e) BY <2>1, <3>2
      <4> QED BY <2>1, <3>2, <4>1
    <3> QED BY <3>1, <3>2
  <2>3. events' = s BY DEF s
  <2> QED BY <2>1, <2>2, <2>3
<1> QED BY <1>2, <1>3, <1>4

\* an error is yielded,
LEMMA V3Error ==
  ASSUME protocol' = protocol, reply' = reply, busy' = busy, pendingCalls' = pendingCalls,
         events' = Append(events, [type |-> "error"]), NEW f, V3Inv(f)
  PROVE  V3Inv(f)'
<1> DEFINE e == <<[type |-> "error"]>>
<1>1. [type |-> "error"] \in Yielded BY DEF Yielded
<1>2. e \in Seq(Yielded) /\ Len(e) = 1 /\ \A i \in 1..Len(e) : e[i].type = "error" BY <1>1
<1>3. /\ events \in Seq(Yielded) /\ ~Over
      /\ \A i \in 1..Len(events) : events[i].type \in {"text", "error"}
  BY DEF V3Inv
<1>4. events' = events \o e BY <1>1, <1>3
<1> HIDE DEF e
<1>5. /\ ~Over' /\ events' \in Seq(Yielded)
      /\ \A i \in 1..Len(events') : events'[i].type \in {"text", "error"}
      /\ \A ch \in Channels : Of(ch, events)' = Of(ch, events) \o Of(ch, e)
                              /\ Of(ch, events) \in Seq(Yielded)
  BY <1>2, <1>3, <1>4, V3Gain
<1>6. ASSUME NEW ch \in Channels
      PROVE  Of(ch, events)' = Texts(ch, SubSeq(reply'[ch], 1, f[ch]))
  <2>1. \A i \in 1..Len(e) : ~(e[i].type \in {"text", "tool_call"} /\ e[i].channel = ch) BY <1>2
  <2>2. Of(ch, e) = <<>> BY <1>2, <2>1, OfNone
  <2>3. Of(ch, events) \o <<>> = Of(ch, events) BY <1>5, ConcatEmptySeq
  <2>4. Of(ch, events) = Texts(ch, SubSeq(reply[ch], 1, f[ch])) BY DEF V3Inv
  <2> QED BY <1>5, <2>2, <2>3, <2>4
<1>7. Gathers(pendingCalls, reply.calls, Progress(f))' BY GathersSame DEF V3Inv
<1> QED BY <1>5, <1>6, <1>7 DEF V3Inv

\* text passes,
LEMMA V3Text ==
  ASSUME Setting, protocol' = protocol, reply' = reply, busy' = busy, pendingCalls' = pendingCalls,
         NEW f, V3Inv(f), Boundary(f), NEW g, NEW ch \in Channels,
         g[ch] \in Nat, f[ch] < g[ch], g[ch] <= Len(ReplyWire(ch)),
         \A other \in Parts \ {ch} : f[other] = g[other],
         events' = events \o Texts(ch, SubSeq(ReplyWire(ch), f[ch] + 1, g[ch]))
  PROVE  V3Inv(g)'
<1> DEFINE W == reply[ch]
           n == f[ch]
           l == g[ch]
           t == SubSeq(W, n + 1, l)
           e == Texts(ch, t)
<1>1. /\ protocol = "v3" /\ busy = None /\ events \in Seq(Yielded) /\ ~Over
      /\ \A i \in 1..Len(events) : events[i].type \in {"text", "error"}
      /\ \A c \in Channels : Of(c, events) = Texts(c, SubSeq(reply[c], 1, f[c]))
  BY DEF V3Inv
<1>2. W \in Seq(Piece) /\ ReplyWire(ch) = W /\ ch \in Parts BY <1>1, V3Facts
<1>3. n \in Nat /\ l \in Nat /\ n < l /\ l <= Len(W) /\ Len(W) \in Nat BY <1>2 DEF Boundary
<1> HIDE DEF W, n, l
<1>4. /\ SubSeq(W, 1, n) \in Seq(Piece) /\ t \in Seq(Piece)
      /\ SubSeq(W, 1, l) = SubSeq(W, 1, n) \o t
  <2> DEFINE s == SubSeq(W, 1, l)
             u == SubSeq(W, 1, n)
  <2>1. l \in 0..Len(W) /\ n \in 0..Len(W) BY <1>3
  <2>2. s \in Seq(Piece) /\ Len(s) = l /\ \A i \in 1..l : s[i] = W[i] BY <1>2, <2>1, CutInTwo
  <2>3. u \in Seq(Piece) /\ Len(u) = n /\ \A i \in 1..n : u[i] = W[i] BY <1>2, <2>1, CutInTwo
  <2>4. t = [i \in 1..(l - n) |-> W[n + i]]
    <3>1. l - (n + 1) + 1 = l - n /\ \A i \in 1..(l - n) : (n + 1) + i - 1 = n + i BY <1>3
    <3>2. t = [i \in 1..(l - (n + 1) + 1) |-> W[(n + 1) + i - 1]]
      <4>1. n + 1 \in Int /\ l \in Int /\ W \in Seq(Piece) BY <1>2, <1>3
      <4> HIDE DEF s, u
      <4> QED BY <4>1
    <3> QED BY <3>1, <3>2
  <2>5. \A i \in 1..(l - n) : W[n + i] \in Piece
    <3> TAKE i \in 1..(l - n)
    <3>1. n + i \in 1..Len(W) BY <1>3
    <3> QED BY <1>2, <3>1
  <2>6. l - n \in Nat BY <1>3
  <2> HIDE DEF t, s, u
  <2>7. t \in Seq(Piece) /\ Len(t) = l - n
    <3>1. t \in [1..(l - n) -> Piece] BY <2>4, <2>5
    <3> QED BY <2>4, <2>6, <3>1
  <2> DEFINE v == u \o t
  <2>8. v \in Seq(Piece) /\ Len(v) = n + (l - n)
        /\ \A i \in 1..(n + (l - n)) : v[i] = IF i <= n THEN u[i] ELSE t[i - n]
    <3>1. u \in Seq(Piece) /\ t \in Seq(Piece) BY <2>3, <2>7
    <3>2. /\ v \in Seq(Piece) /\ Len(v) = Len(u) + Len(t)
          /\ \A i \in 1..(Len(u) + Len(t)) : v[i] = IF i <= Len(u) THEN u[i] ELSE t[i - Len(u)]
      BY <3>1, ConcatProperties
    <3> QED BY <2>3, <2>7, <3>2
  <2> HIDE DEF v
  <2>9. n + (l - n) = l BY <1>3
  <2>10. ASSUME NEW i \in 1..l PROVE v[i] = s[i]
    <3>1. CASE i <= n
      <4>1. i \in 1..n BY <1>3, <3>1
      <4> QED BY <2>2, <2>3, <2>8, <2>9, <3>1, <4>1
    <3>2. CASE ~(i <= n)
      <4>1. i - n \in 1..(l - n) /\ n + (i - n) = i BY <1>3, <3>2
      <4> QED BY <2>2, <2>4, <2>8, <2>9, <3>2, <4>1
    <3> QED BY <3>1, <3>2
  <2>11. s = v BY <2>2, <2>8, <2>9, <2>10, SeqEqual
  <2> QED BY <2>3, <2>7, <2>11 DEF s, u, v
<1> HIDE DEF t
<1>5. /\ e \in Seq(Mine(ch)) /\ Len(e) = Len(t) /\ \A i \in 1..Len(t) : e[i] = Text(ch, t[i])
  BY <1>4, TextsTyped
<1>6. events' = events \o e BY <1>2 DEF t, W, n, l
<1> HIDE DEF e
<1>7. \A i \in 1..Len(e) : e[i].type = "text" /\ e[i].channel = ch
  <2> TAKE i \in 1..Len(e)
  <2>1. e[i] = Text(ch, t[i]) BY <1>5
  <2> QED BY <2>1 DEF Text
<1>8. e \in Seq(Yielded)
  <2>1. Mine(ch) \subseteq Yielded BY MineYielded
  <2> QED BY <1>5, <2>1, WiderSeq
<1>9. /\ ~Over' /\ events' \in Seq(Yielded)
      /\ \A i \in 1..Len(events') : events'[i].type \in {"text", "error"}
      /\ \A c \in Channels : Of(c, events)' = Of(c, events) \o Of(c, e)
                             /\ Of(c, events) \in Seq(Yielded)
  <2>1. \A i \in 1..Len(e) : e[i].type \in {"text", "error"} BY <1>7
  <2> QED BY <1>1, <1>6, <1>8, <2>1, V3Gain
<1>10. Of(ch, events)' = Texts(ch, SubSeq(W, 1, l))
  <2>1. \A i \in 1..Len(e) : e[i].type \in {"text", "tool_call"} /\ e[i].channel = ch BY <1>7
  <2>2. Of(ch, e) = e BY <1>8, <2>1, OfAll
  <2>3. Of(ch, events) = Texts(ch, SubSeq(W, 1, n)) BY <1>1 DEF W, n
  <2>4. Texts(ch, SubSeq(W, 1, n) \o t) = Texts(ch, SubSeq(W, 1, n)) \o Texts(ch, t)
    BY <1>4, TextsConcat
  <2> QED BY <1>4, <1>9, <2>2, <2>3, <2>4 DEF e
<1>11. ASSUME NEW c \in Channels, c # ch
       PROVE  Of(c, events)' = Texts(c, SubSeq(reply[c], 1, g[c]))
  <2>1. \A i \in 1..Len(e) : ~(e[i].type \in {"text", "tool_call"} /\ e[i].channel = c)
    BY <1>7, <1>11
  <2>2. Of(c, e) = <<>> BY <1>8, <2>1, OfNone
  <2>3. Of(c, events) \o <<>> = Of(c, events) BY <1>9, ConcatEmptySeq
  <2>4. f[c] = g[c]
    <3>1. c \in Parts BY DEF Parts
    <3> QED BY <1>11, <3>1
  <2> QED BY <1>1, <1>9, <2>2, <2>3, <2>4
<1>12. \A c \in Channels : Of(c, events)' = Texts(c, SubSeq(reply'[c], 1, g[c]))
  BY <1>10, <1>11 DEF W, l
<1>13. Gathers(pendingCalls, reply.calls, Progress(g))'
  <2>1. Progress(g) = Progress(f)
    <3>1. \A i \in 1..Len(reply.calls) : reply.calls[i].id \in Parts \ {ch} BY <1>1, V3Facts
    <3> QED BY <3>1 DEF Progress
  <2>2. Gathers(pendingCalls, reply.calls, Progress(g)) BY <2>1 DEF V3Inv
  <2> QED BY <2>2, GathersSame
<1> QED BY <1>1, <1>9, <1>12, <1>13 DEF V3Inv

\* or fragments are collected.
LEMMA V3Fragments ==
  ASSUME Setting, protocol' = protocol, reply' = reply, busy' = busy, events' = events,
         NEW f, V3Inv(f), Boundary(f), NEW g, Boundary(g), NEW id \in V3Ids,
         f[id] < g[id], \A other \in Parts \ {id} : f[other] = g[other],
         pendingCalls' = Collected(SubSeq(ReplyWire(id), f[id] + 1, g[id]))
  PROVE  V3Inv(g)'
<1> DEFINE C == reply.calls
           j == V3Index(id)
           c == Progress(f)
<1>1. protocol = "v3" /\ Gathers(pendingCalls, C, c) BY DEF V3Inv
<1>2. /\ C \in Seq(V3Call) /\ Len(C) \in Nat
      /\ \A i \in 1..Len(C) : C[i].id \in V3Ids /\ C[i].id \in Parts /\ V3Index(C[i].id) = i
                              /\ ReplyWire(C[i].id) = CallOn(C, i)
      /\ j \in 1..Len(C) /\ C[j].id = id
      /\ \A ch \in Channels : ch \in Parts /\ ch \notin V3Ids
  BY <1>1, V3Facts
<1>3. f \in [Parts -> Nat] /\ g \in [Parts -> Nat] /\ g[id] <= Len(ReplyWire(id))
  <2>1. id \in Parts BY DEF Parts
  <2> QED BY <2>1 DEF Boundary
<1> HIDE DEF C, j
<1>4. c = [i \in 1..Len(C) |-> f[C[i].id]] /\ Progress(g) = [i \in 1..Len(C) |-> g[C[i].id]]
  BY DEF Progress, C
<1> HIDE DEF c
<1>5. c \in [1..Len(C) -> Nat] BY <1>2, <1>3, <1>4
<1>6. c[j] = f[id] /\ g[id] \in Nat /\ c[j] < g[id] /\ g[id] <= Len(CallOn(C, j))
  <2>1. id \in Parts /\ ReplyWire(id) = CallOn(C, j) BY <1>2
  <2> QED BY <1>2, <1>3, <1>4, <2>1
<1>7. \A i \in 1..(j - 1) : c[i] > 0
  <2> TAKE i \in 1..(j - 1)
  <2>1. i \in 1..Len(C) /\ i < j BY <1>2
  <2>2. V3Index(C[i].id) < V3Index(id) /\ C[i].id \in V3Ids /\ C[i].id \in Parts BY <1>2, <2>1 DEF j
  <2>3. g[id] > 0
    <3>1. f[id] \in Nat BY <1>2, <1>3
    <3> QED BY <1>6, <3>1
  <2>4. g[C[i].id] > 0 BY <2>2, <2>3 DEF Boundary
  <2>5. C[i].id # id BY <1>2, <2>1, <2>2
  <2> QED BY <1>4, <2>1, <2>2, <2>4, <2>5
<1>8. Gathers(Collected(SubSeq(CallOn(C, j), c[j] + 1, g[id])), C, [c EXCEPT ![j] = g[id]])
  BY <1>1, <1>2, <1>5, <1>6, <1>7, CollectMany DEF C
<1>9. [c EXCEPT ![j] = g[id]] = Progress(g)
  <2>1. \A i \in 1..Len(C) : i # j => C[i].id # id BY <1>2
  <2>2. \A i \in 1..Len(C) : i # j => f[C[i].id] = g[C[i].id] BY <1>2, <2>1
  <2> QED BY <1>2, <1>4, <1>5, <2>2
<1>10. Gathers(pendingCalls', C, Progress(g))
  <2>1. ReplyWire(id) = CallOn(C, j) BY <1>2
  <2> QED BY <1>6, <1>8, <1>9, <2>1
<1>11. Gathers(pendingCalls, reply.calls, Progress(g))'
  <2>1. Progress(g)' = Progress(g) BY DEF Progress
  <2>2. Gathers(pendingCalls', reply.calls', Progress(g)') BY <1>10, <2>1 DEF C
  <2> QED BY <2>2 DEF Gathers, Gathered, Fragment, Frags
<1>12. \A ch \in Channels : Of(ch, events)' = Texts(ch, SubSeq(reply'[ch], 1, g[ch]))
  <2> TAKE ch \in Channels
  <2>1. f[ch] = g[ch] BY <1>2
  <2>2. Of(ch, events) = Texts(ch, SubSeq(reply[ch], 1, f[ch])) BY DEF V3Inv
  <2> QED BY <2>1, <2>2
<1> QED BY <1>11, <1>12 DEF V3Inv, Over, Yielded

-----------------------------------------------------------------------------
(* The end of a V3 reply                                                   *)

\* The calls among events, in their order.
LEMMA CallsPick ==
  ASSUME NEW X, NEW s \in Seq(X)
  PROVE  \E h \in [1..Len(Calls(s)) -> 1..Len(s)] :
           /\ Increasing(h, Len(Calls(s)))
           /\ \A k \in 1..Len(Calls(s)) : Calls(s)[k] = s[h[k]] /\ s[h[k]].type = "tool_call"
<1> DEFINE n == Len(s)
           a == [i \in DOMAIN s |-> IF s[i].type = "tool_call" THEN <<s[i]>> ELSE <<>>]
           r == Calls(s)
<1>1. DOMAIN s = 1..n /\ n \in Nat /\ \A i \in 1..n : s[i] \in X OBVIOUS
<1>2. a \in Seq(Seq(X)) /\ Len(a) = n
      /\ \A i \in 1..n : a[i] = IF s[i].type = "tool_call" THEN <<s[i]>> ELSE <<>>
  <2> HIDE DEF n
  <2>1. \A i \in 1..n : (IF s[i].type = "tool_call" THEN <<s[i]>> ELSE <<>>) \in Seq(X)
    <3> TAKE i \in 1..n
    <3>1. s[i] \in X BY <1>1
    <3>2. <<s[i]>> \in Seq(X) /\ <<>> \in Seq(X) BY <3>1
    <3> QED BY <3>2
  <2>2. a \in [1..n -> Seq(X)] BY <1>1, <2>1
  <2>3. \A i \in 1..n : a[i] = IF s[i].type = "tool_call" THEN <<s[i]>> ELSE <<>> BY <1>1
  <2> HIDE DEF a
  <2> QED BY <1>1, <2>2, <2>3
<1>3. r = FlattenSeq(a) BY DEF Calls
<1> HIDE DEF a, r
<1>4. \A i \in 1..Len(a) : a[i] = <<>> \/ \E x \in X : a[i] = <<x>> BY <1>1, <1>2
<1>5. PICK h : Picks(r, a, h, Occupied(a, Len(a))) BY <1>2, <1>3, <1>4, FlattenUnits
<1>6. h \in [1..Len(r) -> Occupied(a, Len(a))] /\ Increasing(h, Len(r))
      /\ \A k \in 1..Len(r) : r[k] = a[h[k]][1]
  BY <1>5 DEF Picks, Enumerates
<1>7. \A i \in Occupied(a, Len(a)) : i \in 1..n /\ a[i] = <<s[i]>> /\ s[i].type = "tool_call"
  BY <1>2 DEF Occupied
<1>8. h \in [1..Len(r) -> 1..n] BY <1>6, <1>7
<1>9. ASSUME NEW k \in 1..Len(r) PROVE r[k] = s[h[k]] /\ s[h[k]].type = "tool_call"
  <2>1. h[k] \in Occupied(a, Len(a)) BY <1>6
  <2>2. a[h[k]] = <<s[h[k]]>> /\ s[h[k]].type = "tool_call" BY <1>7, <2>1
  <2> QED BY <1>6, <2>2
<1> QED BY <1>6, <1>8, <1>9 DEF r, n

\* What the i-th of the collected calls becomes.
V3Event(i) ==
  LET c == pendingCalls[i] IN
  IF c.args = <<>> \/ IsObject(c.args)
    THEN [type |-> "tool_call", channel |-> "content", id |-> c.id, args |-> ObjectIn(c.args)]
    ELSE [type |-> "error"]

\* A call of V3 is one of the events.
LEMMA CallSaid ==
  \A x \in CallTags, a \in Seq(JsonPiece) : ToolCall("content", x, a) \in Said
<1>1. V3Calls \subseteq Said BY DEF Said
<1>2. ASSUME NEW x \in CallTags, NEW a \in Seq(JsonPiece)
  PROVE ToolCall("content", x, a) \in V3Calls
  BY DEF V3Calls
<1> QED BY <1>1, <1>2

\* A gathered call is whole, an error, or without arguments when only its id has come.
LEMMA V3EventIs ==
  ASSUME Setting, NEW f, V3Inv(f), Boundary(f), NEW i \in 1..Len(pendingCalls)
  PROVE  LET C == reply.calls
             whole == ToolCall("content", C[i].id, ObjectIn(C[i].args))
         IN
         /\ i \in 1..Len(C) /\ V3Event(i) \in Yielded
         /\ \/ V3Event(i) = [type |-> "error"]
            \/ V3Event(i) = whole
            \/ V3Event(i) = ToolCall("content", C[i].id, <<>>) /\ f[C[i].id] = 1
         /\ f[C[i].id] = Len(ReplyWire(C[i].id)) => V3Event(i) = whole
<1> DEFINE C == reply.calls
           g == C[i].args
           id == C[i].id
           p == pendingCalls[i]
           k == f[id] - 1
           n == Len(g)
           whole == ToolCall("content", id, ObjectIn(g))
<1>1. protocol = "v3" /\ Gathers(pendingCalls, C, Progress(f)) BY DEF V3Inv
<1>2. C \in Seq(V3Call) /\ Len(C) \in Nat BY <1>1, V3Facts
<1>3. i \in 1..Len(C)
  <2>1. Len(pendingCalls) <= Len(C) /\ pendingCalls \in Seq(Frags) BY <1>1 DEF Gathers
  <2> HIDE DEF C
  <2> QED BY <1>2, <2>1
<1>4. id \in Parts /\ ReplyWire(id) = CallOn(C, i) /\ WholeObject(g) BY <1>1, <1>3, V3Facts
<1>5. Len(CallOn(C, i)) = n + 1 /\ id \in CallTags /\ g \in Seq(JsonPiece) /\ n \in Nat
  BY <1>2, <1>3, CallOnIs
<1>6. Progress(f)[i] = f[id] BY <1>3 DEF Progress
<1>7. f[id] \in Nat /\ f[id] <= n + 1 BY <1>4, <1>5 DEF Boundary
<1>8. f[id] > 0 /\ p = Gathered(C, i, f[id])
  <2> HIDE DEF C, id, p
  <2>1. i <= Len(pendingCalls) OBVIOUS
  <2> QED BY <1>1, <1>3, <1>6, <2>1 DEF Gathers, p
<1>9. p.id = id /\ p.args = SubSeq(g, 1, k)
  <2>1. p = Fragment(i, id, SubSeq(g, 1, k)) BY <1>8 DEF Gathered
  <2> HIDE DEF p, id, g, k
  <2> QED BY <2>1 DEF Fragment
<1> HIDE DEF C, g, id, p, n
<1>10. k \in 0..n
  <2> DEFINE y == f[id]
  <2>1. y \in Nat /\ y <= n + 1 /\ y > 0 /\ n \in Nat BY <1>5, <1>7, <1>8
  <2>2. k = y - 1 OBVIOUS
  <2> HIDE DEF y, k
  <2> QED BY <2>1, <2>2
<1> HIDE DEF k
<1> DEFINE s == SubSeq(g, 1, k)
<1>11. s \in Seq(JsonPiece) /\ Len(s) = k
  <2>1. k \in 0..Len(g) BY <1>10 DEF n
  <2> QED BY <1>5, <2>1, CutInTwo
<1>12. k = n => s = g
  <2>1. SubSeq(g, 1, Len(g)) = g BY <1>5, SubSeqFull
  <2> QED BY <2>1 DEF n
<1> HIDE DEF s
<1>13. V3Event(i) = IF s = <<>> \/ IsObject(s) THEN ToolCall("content", id, ObjectIn(s))
                                               ELSE [type |-> "error"]
  BY <1>9 DEF V3Event, ToolCall, p, s
<1>14. IsObject(s) => k = n
  <2> SUFFICES ASSUME k # n, IsObject(s) PROVE FALSE
    OBVIOUS
  <2>1. k \in 0..(n - 1) BY <1>5, <1>10
  <2>2. ~IsObject(SubSeq(g, 1, k)) BY <1>4, <2>1 DEF WholeObject, n
  <2> QED BY <2>2 DEF s
<1>15. s = <<>> => k = 0
  <2>1. Len(<<>>) = 0 OBVIOUS
  <2> QED BY <1>11, <2>1
<1>16. ObjectIn(s) \in Seq(JsonPiece)
  <2>1. CASE s = <<>>
    <3>1. <<>> \in Seq(JsonPiece) OBVIOUS
    <3> QED BY <2>1, <3>1 DEF ObjectIn
  <2>2. CASE s # <<>>
    <3>1. ObjectIn(s) = SubSeq(s, 2, Len(s) - 1) BY <2>2 DEF ObjectIn
    <3>2. \A m \in 2..(Len(s) - 1) : s[m] \in JsonPiece
      <4>1. Len(s) \in Nat BY <1>11
      <4>2. \A m \in 2..(Len(s) - 1) : m \in 1..Len(s) BY <4>1
      <4> QED BY <1>11, <4>2
    <3>3. 2 \in Int /\ Len(s) - 1 \in Int BY <1>11
    <3>4. SubSeq(s, 2, Len(s) - 1) \in Seq(JsonPiece) BY <3>2, <3>3, SubSeqProperties
    <3> QED BY <3>1, <3>4
  <2> QED BY <2>1, <2>2
<1>17. V3Event(i) \in Yielded
  <2>1. ToolCall("content", id, ObjectIn(s)) \in Said BY <1>5, <1>16, CallSaid
  <2> QED BY <1>13, <2>1 DEF Yielded
<1>18. CASE s = <<>>
  <2>1. f[id] = 1
    <3>1. f[id] - 1 = 0 BY <1>15, <1>18 DEF k
    <3> QED BY <1>7, <3>1
  <2>2. ObjectIn(s) = <<>> BY <1>18 DEF ObjectIn
  <2>3. V3Event(i) = ToolCall("content", id, <<>>) BY <1>13, <1>18, <2>2
  <2>4. f[id] = Len(ReplyWire(id)) => V3Event(i) = whole
    <3> SUFFICES ASSUME f[id] = Len(ReplyWire(id)) PROVE V3Event(i) = whole
      OBVIOUS
    <3>1. n = 0 /\ k = 0 BY <1>4, <1>5, <1>15, <1>18, <2>1
    <3>2. s = g BY <1>12, <3>1
    <3> QED BY <1>13, <1>18, <3>2
  <2> QED BY <1>3, <1>17, <2>1, <2>3, <2>4 DEF C, id, g
<1>19. CASE s # <<>> /\ IsObject(s)
  <2>1. s = g BY <1>12, <1>14, <1>19
  <2>2. V3Event(i) = whole BY <1>13, <1>19, <2>1
  <2> QED BY <1>3, <1>17, <2>2 DEF C, id, g
<1>20. CASE s # <<>> /\ ~IsObject(s)
  <2>1. V3Event(i) = [type |-> "error"] BY <1>13, <1>20
  <2>2. f[id] # Len(ReplyWire(id))
    <3> SUFFICES ASSUME f[id] = n + 1 PROVE FALSE
      BY <1>4, <1>5
    <3>1. k = n BY <1>5 DEF k
    <3>2. s = g /\ g # <<>> BY <1>12, <1>20, <3>1
    <3>3. IsObject(g) BY <1>4, <3>2 DEF WholeObject
    <3> QED BY <1>20, <3>2, <3>3
  <2> QED BY <1>3, <1>17, <2>1, <2>2 DEF C, id, g
<1> QED BY <1>18, <1>19, <1>20

\* V3: at the finish_reason the calls are yielded; what is complete has been delivered.
LEMMA V3Ends ==
  ASSUME Setting, protocol' = protocol, reply' = reply, sent' = sent, busy' = busy,
         V3Inv(sent), Boundary(sent),
         events' = events \o FlushedCalls \o <<[type |-> "done"]>>
  PROVE  Ended'
<1> DEFINE C == reply.calls
           N == Len(C)
           F == FlushedCalls
           m == Len(pendingCalls)
           z == <<[type |-> "done"]>>
           whole(i) == ToolCall("content", C[i].id, ObjectIn(C[i].args))
<1>1. /\ protocol = "v3" /\ ~Over /\ busy = None /\ events \in Seq(Yielded)
      /\ \A i \in 1..Len(events) : events[i].type \in {"text", "error"}
      /\ \A ch \in Channels : Of(ch, events) = Texts(ch, SubSeq(reply[ch], 1, sent[ch]))
      /\ Gathers(pendingCalls, C, Progress(sent))
  BY DEF V3Inv
<1>2. /\ C \in Seq(V3Call) /\ N \in Nat /\ DOMAIN C = 1..N
      /\ \A ch \in Channels : reply[ch] \in Seq(Piece) /\ ReplyWire(ch) = reply[ch] /\ ch \in Parts
      /\ \A i \in 1..N : C[i].id \in Parts /\ V3Index(C[i].id) = i
                         /\ ReplyWire(C[i].id) = CallOn(C, i)
  BY <1>1, V3Facts
<1>3. m \in Nat /\ m <= N /\ DOMAIN pendingCalls = 1..m
      /\ \A i \in 1..N : i <= m <=> Progress(sent)[i] > 0
  BY <1>1 DEF Gathers
<1>4. \A i \in 1..m :
        /\ i \in 1..N /\ V3Event(i) \in Yielded
        /\ \/ V3Event(i) = [type |-> "error"]
           \/ V3Event(i) = whole(i)
           \/ V3Event(i) = ToolCall("content", C[i].id, <<>>) /\ sent[C[i].id] = 1
        /\ sent[C[i].id] = Len(ReplyWire(C[i].id)) => V3Event(i) = whole(i)
  BY V3EventIs
<1>5. F \in Seq(Yielded) /\ Len(F) = m /\ \A i \in 1..m : F[i] = V3Event(i)
  <2>1. F = [i \in 1..m |-> V3Event(i)] BY <1>3 DEF FlushedCalls, V3Event
  <2>2. F \in [1..m -> Yielded] BY <1>4, <2>1
  <2> HIDE DEF F, m
  <2> QED BY <1>3, <2>1, <2>2
<1>6. z \in Seq(Yielded) /\ Len(z) = 1 /\ \A i \in 1..Len(z) : z[i].type = "done"
  <2>1. [type |-> "done"] \in Yielded BY DEF Yielded
  <2> QED BY <2>1
<1> HIDE DEF F, m, z, C, N, whole
<1> DEFINE ef == events \o F
<1>7. ef \in Seq(Yielded) BY <1>1, <1>5
<1> HIDE DEF ef
<1>8. events' = ef \o z BY DEF ef, F, z
<1>9. events' \in Seq(Yielded) /\ Len(events') = Len(ef) + Len(z) /\ Len(ef) \in Nat
      /\ \A i \in 1..Len(z) : events'[Len(ef) + i] = z[i]
  <2>1. ef \o z \in Seq(Yielded) /\ Len(ef \o z) = Len(ef) + Len(z) BY <1>6, <1>7, ConcatProperties
  <2>0. ef \in Seq(Yielded) /\ z \in Seq(Yielded) BY <1>6, <1>7
  <2>2. \A i \in 1..Len(z) : (ef \o z)[Len(ef) + i] = z[i] BY <2>0
  <2> DEFINE y == ef \o z
  <2>3. events' = y /\ y \in Seq(Yielded) /\ Len(y) = Len(ef) + Len(z)
        /\ \A i \in 1..Len(z) : y[Len(ef) + i] = z[i]
    BY <1>8, <2>1, <2>2
  <2>4. Len(ef) \in Nat BY <1>7
  <2> HIDE DEF y
  <2> QED BY <2>3, <2>4
<1>10. Over'
  <2>1. Len(ef) + 1 \in DOMAIN events' /\ events'[Len(ef) + 1].type = "done" BY <1>6, <1>9
  <2> QED BY <2>1 DEF Over
<1>11. Calls(events)' = Calls(F)
  <2>1. Calls(ef \o z) = Calls(ef) \o Calls(z) /\ Calls(ef) \in Seq(Yielded)
    BY <1>6, <1>7, CallsConcat
  <2>2. Calls(events \o F) = Calls(events) \o Calls(F) /\ Calls(F) \in Seq(Yielded)
    BY <1>1, <1>5, CallsConcat
  <2>3. Calls(z) = <<>>
    <3>1. \A i \in 1..Len(z) : z[i].type # "tool_call" BY <1>6
    <3> QED BY <1>6, <3>1, CallsNone
  <2>4. Calls(events) = <<>>
    <3>1. \A i \in 1..Len(events) : events[i].type # "tool_call"
      <4> TAKE i \in 1..Len(events)
      <4>1. events[i].type \in {"text", "error"} BY <1>1
      <4> QED BY <4>1
    <3> QED BY <1>1, <3>1, CallsNone
  <2>5. Calls(events)' = Calls(events') BY DEF Calls
  <2>6. <<>> \o Calls(F) = Calls(F) /\ Calls(ef) \o <<>> = Calls(ef) BY <2>1, <2>2, ConcatEmptySeq
  <2> QED BY <1>8, <2>1, <2>2, <2>3, <2>4, <2>5, <2>6 DEF ef
<1>12. \A ch \in Channels : Of(ch, events)' = Of(ch, events) \o Of(ch, F)
  <2> TAKE ch \in Channels
  <2>1. Of(ch, ef \o z) = Of(ch, ef) \o Of(ch, z) /\ Of(ch, ef) \in Seq(Yielded)
    BY <1>6, <1>7, OfConcat
  <2>2. Of(ch, events \o F) = Of(ch, events) \o Of(ch, F) BY <1>1, <1>5, OfConcat
  <2>3. Of(ch, z) = <<>>
    <3>1. \A i \in 1..Len(z) : ~(z[i].type \in {"text", "tool_call"} /\ z[i].channel = ch) BY <1>6
    <3> QED BY <1>6, <3>1, OfNone
  <2>4. Of(ch, events)' = Of(ch, events') BY DEF Of
  <2>5. Of(ch, ef) \o <<>> = Of(ch, ef) BY <2>1, ConcatEmptySeq
  <2> QED BY <1>8, <2>1, <2>2, <2>3, <2>4, <2>5 DEF ef
<1>13. \A ch : Meaning(ch)' = Meaning(ch) /\ ReplyWire(ch)' = ReplyWire(ch)
       /\ V3Index(ch)' = V3Index(ch)
  BY ReplyAs, SameReply
<1> DEFINE M == [n \in 1..N |-> whole(n)]
<1>14. Meaning("content") = Texts("content", reply["content"]) \o M
       /\ Meaning("reasoning") = Texts("reasoning", reply["reasoning"]) \o <<>>
  BY <1>1, <1>2 DEF Meaning, whole, C, N
<1>15. ASSUME NEW i \in 1..m, F[i].type = "tool_call"
       PROVE  /\ F[i].id = C[i].id
              /\ F[i] = whole(i) \/ (F[i].args = <<>> /\ sent[C[i].id] = 1)
  <2>1. F[i] # [type |-> "error"] BY <1>15
  <2>2. CASE F[i] = whole(i) BY <2>2 DEF whole, ToolCall
  <2>3. CASE F[i] = ToolCall("content", C[i].id, <<>>) /\ sent[C[i].id] = 1
    BY <2>3 DEF ToolCall
  <2> QED BY <1>4, <1>5, <2>1, <2>2, <2>3
<1>16. ASSUME NEW i \in 1..N PROVE whole(i) \in ToSet(Meaning("content"))
  <2> DEFINE t == Texts("content", reply["content"])
  <2>1. t \in Seq(Mine("content")) /\ Len(t) \in Nat
    <3>1. "content" \in Channels BY DEF Channels
    <3>2. t \in Seq(Mine("content")) BY <1>2, <3>1, TextsTyped
    <3> HIDE DEF t
    <3> QED BY <3>2
  <2> HIDE DEF t
  <2> DEFINE Y == Mine("content") \cup {whole(n) : n \in 1..N}
  <2>2. t \in Seq(Y) BY <2>1, WiderSeq
  <2>3. M \in Seq(Y) /\ Len(M) = N /\ M[i] = whole(i)
    <3>1. M \in [1..N -> Y] /\ M[i] = whole(i) OBVIOUS
    <3> HIDE DEF M, Y
    <3> QED BY <1>2, <3>1
  <2> HIDE DEF Y, M
  <2> DEFINE s == t \o M
  <2>4. s \in Seq(Y) /\ Len(s) = Len(t) + N /\ s[Len(t) + i] = M[i]
    <3>1. Len(t) + i \in 1..(Len(t) + Len(M)) /\ ~(Len(t) + i <= Len(t)) /\ (Len(t) + i) - Len(t) = i
      BY <1>2, <2>1, <2>3
    <3>2. /\ s \in Seq(Y) /\ Len(s) = Len(t) + Len(M)
          /\ \A k \in 1..(Len(t) + Len(M)) : s[k] = IF k <= Len(t) THEN t[k] ELSE M[k - Len(t)]
      BY <2>2, <2>3, ConcatProperties
    <3> QED BY <2>3, <3>1, <3>2
  <2> HIDE DEF s
  <2>5. Len(t) + i \in DOMAIN s BY <1>2, <2>1, <2>4
  <2>6. whole(i) \in ToSet(s) BY <2>3, <2>4, <2>5 DEF ToSet
  <2> QED BY <1>14, <2>6 DEF s, t
<1>17. CallsIntact'
  <2>1. PICK h \in [1..Len(Calls(F)) -> 1..Len(F)] :
          /\ Increasing(h, Len(Calls(F)))
          /\ \A k \in 1..Len(Calls(F)) : Calls(F)[k] = F[h[k]] /\ F[h[k]].type = "tool_call"
    BY <1>5, CallsPick
  <2> DEFINE D == Calls(F)
             d == Len(D)
  <2>2. D \in Seq(Yielded) /\ DOMAIN D = 1..d
    <3>1. D \in Seq(Yielded) BY <1>5, CallsConcat
    <3> QED BY <3>1
  <2>3. \A k \in 1..d : h[k] \in 1..m /\ D[k] = F[h[k]] /\ F[h[k]].type = "tool_call"
    BY <1>5, <2>1
  <2>4. \A i, j \in 1..d : i < j => h[i] < h[j] BY <2>1 DEF Increasing
  <2> HIDE DEF D, d
  <2>5. \A k \in 1..d : /\ h[k] \in 1..N /\ D[k].id = C[h[k]].id
                        /\ V3Index(D[k].id) = h[k]
                        /\ D[k] = whole(h[k]) \/ (D[k].args = <<>> /\ sent[D[k].id] = 1)
    <3> TAKE k \in 1..d
    <3>1. h[k] \in 1..m /\ D[k] = F[h[k]] /\ F[h[k]].type = "tool_call" BY <2>3
    <3>2. h[k] \in 1..N BY <1>4, <3>1
    <3> QED BY <1>2, <1>15, <3>1, <3>2
  <2>6. Delivered' = D BY <1>11 DEF Delivered, D
  <2>7. \A k \in 1..d : D[k] \in ToSet(Meaning("content")) \/ (D[k].args = <<>> /\ sent[D[k].id] = 1)
    BY <1>16, <2>5
  <2>8. \A i, j \in 1..d : i < j => V3Index(D[i].id) < V3Index(D[j].id)
    BY <2>4, <2>5
  <2>9. \A i \in DOMAIN Delivered' :
          Delivered'[i] \in ToSet(Meaning("content")') \/ (Delivered'[i].args = <<>> /\ sent'[Delivered'[i].id] = 1)
    BY <1>13, <2>2, <2>6, <2>7
  <2>10. \A i \in 1..d : V3Index(Delivered[i].id)' = V3Index(D[i].id) BY <2>6 DEF V3Index
  <2>11. V3CallsAsMade'
    <3>1. DOMAIN Delivered' = 1..d BY <2>2, <2>6
    <3>2. \A i, j \in DOMAIN Delivered' :
            i < j => (V3Index(Delivered[i].id) < V3Index(Delivered[j].id))'
      BY <2>8, <2>10, <3>1
    <3> HIDE DEF M
    <3> QED BY <2>9, <3>2 DEF V3CallsAsMade, ToSet
  <2> QED BY <1>1, <2>11 DEF CallsIntact
<1>18. ASSUME \A part \in Parts : sent[part] = Len(ReplyWire(part)), NEW ch \in Channels
       PROVE  Of(ch, events)' = Meaning(ch)
  <2>1. Of(ch, events) = Texts(ch, reply[ch])
    <3>1. sent[ch] = Len(reply[ch]) /\ reply[ch] \in Seq(Piece) BY <1>2, <1>18
    <3>2. SubSeq(reply[ch], 1, Len(reply[ch])) = reply[ch] BY <3>1, SubSeqFull
    <3> QED BY <1>1, <3>1, <3>2
  <2>2. \A i \in 1..N : Progress(sent)[i] > 0
    <3> TAKE i \in 1..N
    <3>1. Progress(sent)[i] = sent[C[i].id] BY DEF Progress, C, N
    <3>2. sent[C[i].id] = Len(CallOn(C, i)) BY <1>2, <1>18
    <3>3. Len(CallOn(C, i)) = Len(C[i].args) + 1 /\ Len(C[i].args) \in Nat
      BY <1>2, CallOnIs DEF N
    <3> QED BY <3>1, <3>2, <3>3
  <2>3. m = N
    <3>1. CASE N > m
      <4>1. N \in 1..N BY <1>2, <1>3, <3>1
      <4> QED BY <1>3, <2>2, <3>1, <4>1
    <3> QED BY <1>2, <1>3, <3>1
  <2>4. \A i \in 1..N : F[i] = whole(i)
    <3> TAKE i \in 1..N
    <3>1. sent[C[i].id] = Len(ReplyWire(C[i].id)) BY <1>2, <1>18
    <3> QED BY <1>4, <1>5, <2>3, <3>1
  <2>5. \A i \in 1..Len(F) : F[i].type = "tool_call" /\ F[i].channel = "content"
    <3> TAKE i \in 1..Len(F)
    <3>1. F[i] = whole(i) BY <1>5, <2>3, <2>4
    <3> QED BY <3>1 DEF whole, ToolCall
  <2>6. CASE ch = "content"
    <3>1. \A i \in 1..Len(F) : F[i].type \in {"text", "tool_call"} /\ F[i].channel = ch
      BY <2>5, <2>6
    <3>2. Of(ch, F) = F BY <1>5, <3>1, OfAll
    <3>3. F = M
      <4>1. F = [i \in 1..N |-> F[i]] BY <1>5, <2>3
      <4> QED BY <2>4, <4>1
    <3> QED BY <1>12, <1>14, <2>1, <2>6, <3>2, <3>3
  <2>7. CASE ch = "reasoning"
    <3>1. \A i \in 1..Len(F) : ~(F[i].type \in {"text", "tool_call"} /\ F[i].channel = ch)
      BY <2>5, <2>7
    <3>2. Of(ch, F) = <<>> BY <1>5, <3>1, OfNone
    <3> QED BY <1>12, <1>14, <2>1, <2>7, <3>2
  <2> QED BY <2>6, <2>7 DEF Channels
<1>19. ReplyDelivered'
  <2> SUFFICES ASSUME \A part \in Parts' : sent'[part] = Len(ReplyWire(part)'), NEW ch \in Channels'
               PROVE  Of(ch, events)' = Meaning(ch)'
    BY DEF ReplyDelivered
  <2>0. ch \in Channels BY DEF Channels
  <2>1. Parts' = Parts BY ReplyAs
  <2>2. \A part \in Parts : sent[part] = Len(ReplyWire(part)) BY <1>13, <2>1
  <2> QED BY <1>13, <1>18, <2>0, <2>2
<1> QED BY <1>1, <1>9, <1>10, <1>17, <1>19 DEF Ended, Yielded

\* Nothing is added to what has been delivered.
LEMMA EndedSame ==
  ASSUME UNCHANGED <<protocol, reply, sent, cut, busy, events>>, Ended
  PROVE  Ended'
<1>1. \A ch : Meaning(ch)' = Meaning(ch) /\ ReplyWire(ch)' = ReplyWire(ch)
      /\ V3Index(ch)' = V3Index(ch)
  BY ReplyAs, SameReply
<1>2. Parts' = Parts BY ReplyAs
<1>3. CallsIntact'
  <2>1. CallsAsMade => CallsAsMade' BY <1>1 DEF CallsAsMade
  <2>2. V3CallsAsMade => V3CallsAsMade' BY <1>1 DEF V3CallsAsMade, Delivered
  <2> QED BY <2>1, <2>2 DEF Ended, CallsIntact
<1>4. ReplyDelivered' BY <1>1, <1>2 DEF Ended, ReplyDelivered
<1> QED BY <1>3, <1>4 DEF Ended, Over, Yielded

\* An error after it changes nothing about what has been delivered.
LEMMA EndedError ==
  ASSUME UNCHANGED <<protocol, reply, sent, cut, busy>>, Ended,
         events' = Append(events, [type |-> "error"])
  PROVE  Ended'
<1> DEFINE e == <<[type |-> "error"]>>
<1>1. [type |-> "error"] \in Yielded BY DEF Yielded
<1>2. e \in Seq(Yielded) /\ Len(e) = 1 /\ \A i \in 1..Len(e) : e[i].type = "error" BY <1>1
<1>3. Over /\ busy = None /\ events \in Seq(Yielded) /\ CallsIntact /\ ReplyDelivered BY DEF Ended
<1>4. events' = events \o e BY <1>1, <1>3
<1> HIDE DEF e
<1>5. events' \in Seq(Yielded) /\ Over'
  <2> DEFINE s == events \o e
             n == Len(events)
  <2>1. s \in Seq(Yielded) /\ Len(s) = n + Len(e) /\ n \in Nat /\ Len(e) \in Nat
        /\ \A i \in 1..(n + Len(e)) : s[i] = IF i <= n THEN events[i] ELSE e[i - n]
    <3>1. events \in Seq(Yielded) /\ e \in Seq(Yielded) BY <1>2, <1>3
    <3> QED BY <3>1, ConcatProperties
  <2>2. PICK i \in 1..n : events[i].type = "done" BY <1>3 DEF Over
  <2> HIDE DEF s, n
  <2>3. i \in 1..(n + Len(e)) /\ i <= n BY <2>1
  <2>4. s[i] = events[i] /\ i \in DOMAIN s BY <2>1, <2>3
  <2>5. events' = s BY <1>4 DEF s
  <2> QED BY <2>1, <2>2, <2>4, <2>5 DEF Over
<1>6. \A ch : Meaning(ch)' = Meaning(ch) /\ ReplyWire(ch)' = ReplyWire(ch)
      /\ V3Index(ch)' = V3Index(ch)
  BY ReplyAs, SameReply
<1>7. Parts' = Parts BY ReplyAs
<1>8. \A ch : Of(ch, events)' = Of(ch, events)
  <2> TAKE ch
  <2>1. Of(ch, events \o e) = Of(ch, events) \o Of(ch, e) /\ Of(ch, events) \in Seq(Yielded)
    BY <1>2, <1>3, OfConcat
  <2>2. \A i \in 1..Len(e) : ~(e[i].type \in {"text", "tool_call"} /\ e[i].channel = ch) BY <1>2
  <2>3. Of(ch, e) = <<>> BY <1>2, <2>2, OfNone
  <2>4. Of(ch, events) \o <<>> = Of(ch, events) BY <2>1, ConcatEmptySeq
  <2>5. Of(ch, events)' = Of(ch, events') BY DEF Of
  <2> QED BY <1>4, <2>1, <2>3, <2>4, <2>5
<1>9. Calls(events)' = Calls(events)
  <2>1. Calls(events \o e) = Calls(events) \o Calls(e) /\ Calls(events) \in Seq(Yielded)
    BY <1>2, <1>3, CallsConcat
  <2>2. \A i \in 1..Len(e) : e[i].type # "tool_call" BY <1>2
  <2>3. Calls(e) = <<>> BY <1>2, <2>2, CallsNone
  <2>4. Calls(events) \o <<>> = Calls(events) BY <2>1, ConcatEmptySeq
  <2>5. Calls(events)' = Calls(events') BY DEF Calls
  <2> QED BY <1>4, <2>1, <2>3, <2>4, <2>5
<1>10. CallsIntact'
  <2>1. CallsAsMade => CallsAsMade'
    <3> SUFFICES ASSUME CallsAsMade, NEW ch \in Channels
                 PROVE  IsPrefix(Calls(Of(ch, events)), Calls(Meaning(ch)))'
      BY DEF CallsAsMade, Channels
    <3>1. IsPrefix(Calls(Of(ch, events)), Calls(Meaning(ch))) BY DEF CallsAsMade
    <3>2. IsPrefix(Calls(Of(ch, events)'), Calls(Meaning(ch)')) BY <1>6, <1>8, <3>1
    <3> QED BY <3>2 DEF IsPrefix, Calls
  <2>2. V3CallsAsMade => V3CallsAsMade' BY <1>6, <1>9 DEF V3CallsAsMade, Delivered
  <2> QED BY <1>3, <2>1, <2>2 DEF CallsIntact
<1>11. ReplyDelivered'
  <2> SUFFICES ASSUME ~cut', \A part \in Parts' : sent'[part] = Len(ReplyWire(part)'),
                      NEW ch \in Channels'
               PROVE  Of(ch, events)' = Meaning(ch)'
    BY DEF ReplyDelivered
  <2>1. ch \in Channels BY DEF Channels
  <2>2. ~cut /\ \A part \in Parts : sent[part] = Len(ReplyWire(part)) BY <1>6, <1>7
  <2>3. Of(ch, events) = Meaning(ch) BY <1>3, <2>1, <2>2 DEF ReplyDelivered, Over
  <2> QED BY <1>6, <1>8, <2>3
<1> QED BY <1>3, <1>5, <1>10, <1>11 DEF Ended, Yielded

-----------------------------------------------------------------------------
(* The inductive invariant                                                 *)

\* What the adapter does with the data of an event.
LEMMA Handled ==
  ASSUME Setting, NEW x, Handle(<<x>>)
  PROVE  /\ x = DoneMarker => UNCHANGED <<dsmlVars, pendingCalls>>
         /\ x = Junk => /\ events' = Append(events, [type |-> "error"])
                        /\ UNCHANGED <<parser, busy, pendingCalls>>
         /\ x = Finish /\ protocol = "v4" =>
              /\ events' = events \o Flushed("content") \o Flushed("reasoning")
                             \o <<[type |-> "done"]>>
              /\ UNCHANGED <<busy, pendingCalls>>
         /\ x = Finish /\ protocol = "v3" =>
              /\ events' = events \o FlushedCalls \o <<[type |-> "done"]>>
              /\ UNCHANGED busy
         /\ \A part, s : x = Delta(part, s) /\ part \notin V3Ids /\ protocol = "v4" =>
              Feed(part, s)
         /\ \A part, s : x = Delta(part, s) /\ part \notin V3Ids /\ protocol = "v3" =>
              events' = events \o Texts(part, s) /\ UNCHANGED <<busy, pendingCalls>>
         /\ \A part, s : x = Delta(part, s) /\ part \in V3Ids /\ protocol = "v3" =>
              pendingCalls' = Collected(s) /\ UNCHANGED <<busy, events>>
<1> DEFINE p == x.payload
           G == \/ protocol = "v4" /\ V4Chunk(p)
                \/ protocol = "v3" /\ V3Chunk(p)
                \/ /\ p.type = "junk"
                   /\ events' = Append(events, [type |-> "error"])
                   /\ UNCHANGED <<parser, busy, pendingCalls>>
<1>1. <<x>> # <<>> /\ <<x>>[1] = x /\ (<<x>> = <<DoneMarker>> <=> x = DoneMarker) OBVIOUS
<1>2. IF x = DoneMarker THEN UNCHANGED <<dsmlVars, pendingCalls>> ELSE G
  <2>1. <<x>> \in {<<>>, <<DoneMarker>>} <=> x = DoneMarker BY <1>1
  <2> QED BY <1>1, <2>1 DEF Handle
<1>3. protocol \in {"v3", "v4"} BY DEF Setting
<1>4. \A y : Body(y).payload = y BY DEF Body
<1>5. CASE x = DoneMarker
  BY <1>2, <1>5, PayloadsDiffer
<1>6. CASE x = Junk
  <2>1. G /\ p.type = "junk" BY <1>2, <1>6, PayloadsDiffer
  <2>2. ~V4Chunk(p) /\ ~V3Chunk(p) BY <2>1 DEF V4Chunk, V3Chunk
  <2>3. /\ events' = Append(events, [type |-> "error"])
        /\ UNCHANGED <<parser, busy, pendingCalls>>
    BY <2>1, <2>2
  <2> QED BY <1>6, <2>3, PayloadsDiffer
<1>7. CASE x = Finish
  <2>1. G /\ p.type = "finish" BY <1>2, <1>7, PayloadsDiffer
  <2>2. (protocol = "v4" => V4Chunk(p)) /\ (protocol = "v3" => V3Chunk(p)) BY <1>3, <2>1
  <2>3. protocol = "v4" =>
          /\ events' = events \o Flushed("content") \o Flushed("reasoning") \o <<[type |-> "done"]>>
          /\ UNCHANGED <<busy, pendingCalls>>
    BY <2>1, <2>2 DEF V4Chunk
  <2>4. protocol = "v3" =>
          /\ events' = events \o FlushedCalls \o <<[type |-> "done"]>>
          /\ UNCHANGED busy
    BY <2>1, <2>2 DEF V3Chunk
  <2> QED BY <1>7, <2>3, <2>4, PayloadsDiffer
<1>8. ASSUME NEW part, NEW s, x = Delta(part, s), part \notin V3Ids
      PROVE  /\ protocol = "v4" => Feed(part, s)
             /\ protocol = "v3" => events' = events \o Texts(part, s) /\ UNCHANGED <<busy, pendingCalls>>
  <2>1. p = [type |-> "delta", channel |-> part, text |-> s] BY <1>4, <1>8 DEF Delta
  <2>2. G BY <1>2, <1>8, PayloadsDiffer
  <2>3. p.type = "delta" /\ p.channel = part /\ p.text = s BY <2>1
  <2> HIDE DEF p
  <2>4. (protocol = "v4" => V4Chunk(p)) /\ (protocol = "v3" => V3Chunk(p)) BY <1>3, <2>2, <2>3
  <2> QED BY <2>3, <2>4 DEF V4Chunk, V3Chunk
<1>9. ASSUME NEW part, NEW s, x = Delta(part, s), part \in V3Ids, protocol = "v3"
      PROVE  pendingCalls' = Collected(s) /\ UNCHANGED <<busy, events>>
  <2>1. p = [type |-> "calls", fragments |-> s] BY <1>4, <1>9 DEF Delta
  <2>2. G BY <1>2, <1>9, PayloadsDiffer
  <2>3. p.type = "calls" /\ p.fragments = s BY <2>1
  <2> HIDE DEF p
  <2>4. V3Chunk(p) BY <1>9, <2>2, <2>3
  <2> QED BY <2>3, <2>4 DEF V3Chunk
<1>10. CASE \A part, s : x # Delta(part, s) BY <1>5, <1>6, <1>7, <1>10
<1>11. CASE \E part, s : x = Delta(part, s)
  <2>1. x \notin {Finish, Junk, DoneMarker} BY <1>11, PayloadsDiffer
  <2> HIDE DEF p, G
  <2> QED BY <1>8, <1>9, <2>1
<1> QED BY <1>10, <1>11

\* A step that touches neither the bytes nor the server leaves the queue alone.
LEMMA QueueSame ==
  ASSUME UNCHANGED <<wire, connection, buffer, serverVars>>, NEW Q, NEW at, Queue(Q, at)
  PROVE  Queue(Q, at)' /\ (Settled(Q) => Settled(Q)')
<1>1. Payloads' = Payloads BY SameReply DEF serverVars
<1>2. WireOK' /\ Carried(Q)' BY <1>1 DEF Queue, WireOK, WireSymbols, Carried
<1>3. Slices(Q, at)' BY SlicesSame DEF Queue, serverVars
<1> QED BY <1>2, <1>3 DEF Queue, Settled, serverVars

\* What the parsers have made of the first at[1] pieces of the parts, or of all of them.
Heard(Q, at) ==
  \/ Ended /\ Settled(Q)
  \/ ~cut /\ V4Inv(at[1])
  \/ V3Inv(at[1])

\* The inductive invariant.
StreamInv ==
  /\ Setting
  /\ \/ protocol = "v4" /\ cut
     \/ \E Q, at : Queue(Q, at) /\ Heard(Q, at)

\* What is sent of a part is finite.
LEMMA WireLengths ==
  ASSUME Setting, NEW part \in Parts
  PROVE  Len(ReplyWire(part)) \in Nat
<1>1. CASE protocol = "v4"
  <2>1. part \in Channels BY <1>1 DEF Parts, V3Ids
  <2>2. ReplyWire(part) \in Seq(Piece) BY <1>1, <2>1, V4Wire
  <2> QED BY <2>2
<1>2. CASE protocol = "v3"
  <2>1. CASE part \in Channels
    <3>1. ReplyWire(part) \in Seq(Piece) BY <1>2, <2>1, V3Facts
    <3> QED BY <3>1
  <2>2. CASE part \in V3Ids
    <3> DEFINE C == reply.calls
               n == V3Index(part)
    <3>1. C \in Seq(V3Call) /\ n \in 1..Len(C) /\ C[n].id = part /\ ReplyWire(C[n].id) = CallOn(C, n)
      BY <1>2, <2>2, V3Facts
    <3> HIDE DEF C, n
    <3>2. CallOn(C, n) \in Seq(Frags) BY <3>1, CallOnIs
    <3> QED BY <3>1, <3>2
  <2> QED BY <2>1, <2>2 DEF Parts
<1> QED BY <1>1, <1>2 DEF Setting

\* At the start nothing is carried,
LEMMA NothingSent ==
  ASSUME Setting, wire = <<>>, buffer = <<>>, sent = [part \in Parts |-> 0]
  PROVE  Queue(<<>>, <<sent>>) /\ Boundary(sent)
<1>1. \A part \in Parts : sent[part] = 0 /\ sent[part] <= Len(ReplyWire(part))
  BY WireLengths
<1>2. sent \in [Parts -> Nat] OBVIOUS
<1>3. ~Splits(sent)
  <2>1. \A ch \in Channels : sent[ch] = 0 BY DEF Parts
  <2> QED BY <2>1 DEF Splits
<1>4. Boundary(sent)
  <2>1. \A id \in V3Ids : sent[id] = 0 BY DEF Parts
  <2> QED BY <1>1, <1>2, <1>3, <2>1 DEF Boundary
<1>5. Slices(<<>>, <<sent>>)
  <2>1. <<>> \in Seq(Payloads) /\ Len(<<>>) = 0 /\ DOMAIN <<sent>> = 1..1 /\ <<sent>>[1] = sent OBVIOUS
  <2>2. 1..(Len(<<>>) + 1) = {1} /\ 1..Len(<<>>) = {} BY <2>1
  <2>3. DOMAIN <<sent>> = 1..(Len(<<>>) + 1) BY <2>1
  <2>4. <<sent>>[Len(<<>>) + 1] = sent BY <2>1
  <2>5. \A n \in 1..(Len(<<>>) + 1) : Boundary(<<sent>>[n])
    <3> TAKE n \in 1..(Len(<<>>) + 1)
    <3>1. n = 1 BY <2>2
    <3> QED BY <1>4, <2>1, <3>1
  <2> QED BY <2>1, <2>2, <2>3, <2>4, <2>5 DEF Slices
<1>6. WireOK
  <2>1. <<>> \in Seq(WireSymbols) /\ \A i \in 1..Len(<<>>) : <<>>[i] # CR OBVIOUS
  <2> QED BY <2>1 DEF WireOK
<1>7. Carried(<<>>)
  <2> DEFINE pos == [i \in 1..0 |-> 1]
             t == buffer \o wire
  <2>1. t = <<>> /\ Len(<<>>) = 0 OBVIOUS
  <2>2. 1..0 = {} /\ 1..(0 - 1) = {} OBVIOUS
  <2>3. pos \in [1..0 -> 1..0] /\ Increasing(pos, 0) BY DEF Increasing
  <2>4. Carries(Payloads, <<>>, <<>>, pos)
    <3>1. <<>> \in Seq(Payloads \cup {LF, CR, Data, Comment}) /\ <<>> \in Seq(Payloads) OBVIOUS
    <3> HIDE DEF pos
    <3> QED BY <2>1, <2>2, <2>3, <3>1 DEF Carries
  <2>5. Complete(<<>>, <<>>, pos) BY DEF Complete
  <2> HIDE DEF pos
  <2> QED BY <2>1, <2>4, <2>5 DEF Carried
<1> QED BY <1>4, <1>5, <1>6, <1>7 DEF Queue

\* and nothing has been made of it.
LEMMA NothingHeard ==
  ASSUME Setting, NEW f, \A part \in Parts : f[part] = 0, events = <<>>, busy = None,
         pendingCalls = <<>>,
         parser = [ch \in Channels |-> [buffer |-> <<>>, mode |-> "content", call |-> NoCall]]
  PROVE  (protocol = "v4" => V4Inv(f)) /\ (protocol = "v3" => V3Inv(f))
<1> DEFINE q == [buffer |-> <<>>, mode |-> "content", call |-> NoCall]
<1>1. /\ ~Over /\ events \in Seq(Yielded) /\ Len(events) = 0 /\ 1..Len(events) = {}
  BY DEF Over
<1>2. q \in Parser /\ q.buffer = <<>> /\ q.mode = "content" /\ q.call = NoCall
      /\ \A ch \in Channels : parser[ch] = q
  <2>1. <<>> \in Seq(Piece) /\ <<>> \in Seq(V4Param) OBVIOUS
  <2> QED BY <2>1 DEF Parser, NoCall
<1>3. parser \in [Channels -> Parser] BY <1>2
<1>4. \A ch \in Channels : Of(ch, events) = <<>>
  <2> TAKE ch \in Channels
  <2>1. \A i \in 1..Len(events) : ~(events[i].type \in {"text", "tool_call"} /\ events[i].channel = ch)
    BY <1>1
  <2> QED BY <1>1, <2>1, OfNone
<1>5. \A ch \in Channels : f[ch] = 0 BY DEF Parts
<1> HIDE DEF q
<1>6. ASSUME protocol = "v4" PROVE V4Inv(f)
  <2>1. ASSUME NEW ch \in Channels PROVE Channel(ch, f[ch])
    <3> DEFINE r == reply[ch]
               W == ReplyWire(ch)
               R == Meaning(ch)
    <3>1. r \in V4Text /\ W = WireOf(r) /\ W \in Seq(Piece) /\ R = MeaningOf(ch, r)
      BY <1>6, V4Wire
    <3> HIDE DEF r, W, R
    <3>2. TextAhead(ch, W, R) BY <3>1, TextComes
    <3>3. R \in Seq(Mine(ch)) BY <3>1, MeaningOfTyped
    <3>4. Len(<<>>) = 0 /\ <<>> \in Seq(Piece) /\ 0 - 0 = 0 OBVIOUS
    <3>5. Drop(W, 0) = W BY <3>1, SubSeqFull DEF Drop
    <3>6. Holds(<<>>, W)
      <4>1. SubSeq(W, 1, 0) = <<>> BY <3>1, SubSeqEmpty
      <4>2. Len(W) \in Nat BY <3>1
      <4> QED BY <3>1, <3>4, <4>1, <4>2 DEF Holds
    <3>7. InText(ch, q, W, R) BY <1>2, <3>2 DEF InText
    <3>8. Ahead(ch, q, W, R) BY <1>2, <3>3, <3>6, <3>7 DEF Ahead
    <3>9. R = Of(ch, events) \o R BY <1>4, <3>3, ConcatEmptySeq
    <3>10. Ahead(ch, parser[ch], Drop(W, f[ch] - Len(parser[ch].buffer)), R)
      BY <1>2, <1>5, <3>4, <3>5, <3>8
    <3>11. Len(parser[ch].buffer) <= f[ch] /\ parser[ch].buffer \in {<<>>, <<"<">>}
      BY <1>2, <1>5, <3>4
    <3> QED BY <3>9, <3>10, <3>11 DEF Channel, W, R
  <2> QED BY <1>1, <1>3, <1>6, <2>1 DEF V4Inv
<1>7. ASSUME protocol = "v3" PROVE V3Inv(f)
  <2>1. ASSUME NEW ch \in Channels
        PROVE  Of(ch, events) = Texts(ch, SubSeq(reply[ch], 1, f[ch]))
    <3>1. reply[ch] \in Seq(Piece) BY <1>7, V3Facts
    <3>2. SubSeq(reply[ch], 1, 0) = <<>> BY <3>1, SubSeqEmpty
    <3>3. Texts(ch, <<>>) = <<>> BY DEF Texts
    <3> QED BY <1>4, <1>5, <3>2, <3>3
  <2>2. Gathers(pendingCalls, reply.calls, Progress(f))
    <3> DEFINE C == reply.calls
    <3>1. Len(C) \in Nat /\ \A i \in 1..Len(C) : C[i].id \in Parts BY <1>7, V3Facts
    <3>2. \A i \in 1..Len(C) : Progress(f)[i] = 0 BY <3>1 DEF Progress
    <3>3. pendingCalls \in Seq(Frags) /\ Len(pendingCalls) = 0 OBVIOUS
    <3> HIDE DEF C
    <3>4. \A i \in 1..Len(C) : ~(i <= 0) BY <3>1
    <3> QED BY <3>1, <3>2, <3>3, <3>4 DEF Gathers, C
  <2> QED BY <1>1, <1>7, <2>1, <2>2 DEF V3Inv
<1> QED BY <1>6, <1>7

\* The inductive invariant holds at the start.
LEMMA StreamInit == Init => StreamInv
<1> SUFFICES ASSUME Init PROVE StreamInv
  OBVIOUS
<1>1. Setting BY DEF Init, Setting
<1>2. /\ wire = <<>> /\ buffer = <<>> /\ events = <<>> /\ busy = None
      /\ sent = [part \in Parts |-> 0] /\ ~cut /\ pendingCalls = <<>>
      /\ parser = [ch \in Channels |-> [buffer |-> <<>>, mode |-> "content", call |-> NoCall]]
  BY DEF Init, SseInit, DsmlInit, V3Init
<1>3. Queue(<<>>, <<sent>>) BY <1>1, <1>2, NothingSent
<1>4. (protocol = "v4" => V4Inv(sent)) /\ (protocol = "v3" => V3Inv(sent))
  BY <1>1, <1>2, NothingHeard
<1>5. <<sent>>[1] = sent OBVIOUS
<1>6. Heard(<<>>, <<sent>>) BY <1>1, <1>2, <1>4, <1>5 DEF Heard, Setting
<1> QED BY <1>1, <1>3, <1>6 DEF StreamInv

\* The reply stays the same, and a delta that has ended inside a "</param>" has.
LEMMA SettingKept == Setting /\ [Next]_vars => Setting' /\ UNCHANGED <<protocol, reply, lineEnd>> /\ (cut => cut')
<1> SUFFICES ASSUME Setting, [Next]_vars
             PROVE  UNCHANGED <<protocol, reply, lineEnd>> /\ (cut => cut')
  BY DEF Setting
<1>1. CASE SendDelta BY <1>1 DEF SendDelta, Sends
<1>2. CASE SendJunk BY <1>2 DEF SendJunk, Sends
<1>3. CASE SendFinish BY <1>3 DEF SendFinish, Sends
<1>4. CASE CloseConnection BY <1>4 DEF CloseConnection
<1>5. CASE BreakConnection BY <1>5 DEF BreakConnection, serverVars
<1>6. CASE Receive BY <1>6 DEF Receive, serverVars
<1>7. CASE Consume BY <1>7 DEF Consume, serverVars
<1>8. CASE Fail BY <1>8 DEF Fail, serverVars
<1>9. CASE ParseStep BY <1>9 DEF ParseStep, serverVars
<1>10. CASE UNCHANGED vars BY <1>10 DEF vars, serverVars
<1> QED BY <1>1, <1>2, <1>3, <1>4, <1>5, <1>6, <1>7, <1>8, <1>9, <1>10 DEF Next

\* What has been heard stays so while nothing is handled.
LEMMA HeardSame ==
  ASSUME Setting, UNCHANGED <<protocol, reply, dsmlVars, pendingCalls>>,
         NEW Q, NEW at, NEW Q2, NEW at2, Heard(Q, at), at2[1] = at[1],
         Settled(Q) => Settled(Q2)', Settled(Q) => UNCHANGED <<sent, cut>>
  PROVE  (protocol = "v4" /\ cut)' \/ Heard(Q2, at2)'
<1>1. CASE Ended /\ Settled(Q)
  <2>1. UNCHANGED <<sent, cut>> /\ Settled(Q2)' BY <1>1
  <2>2. UNCHANGED <<protocol, reply, sent, cut, busy, events>> BY <2>1 DEF dsmlVars
  <2>3. Ended' BY <1>1, <2>2, EndedSame
  <2> QED BY <2>1, <2>3 DEF Heard
<1>2. CASE ~cut /\ V4Inv(at[1])
  <2>1. V4Inv(at[1])' BY <1>2, V4Same
  <2>2. protocol = "v4" BY <1>2 DEF V4Inv
  <2>3. V4Inv(at2[1])' BY <2>1
  <2> QED BY <2>2, <2>3 DEF Heard
<1>3. CASE V3Inv(at[1])
  <2>1. V3Inv(at[1])' BY <1>3, V3Same
  <2>2. V3Inv(at2[1])' BY <2>1
  <2> QED BY <2>2 DEF Heard
<1> QED BY <1>1, <1>2, <1>3 DEF Heard

\* An error is one more event.
LEMMA HeardError ==
  ASSUME Setting, UNCHANGED <<parser, busy, pendingCalls, serverVars>>,
         events' = Append(events, [type |-> "error"]),
         NEW Q, NEW at, NEW Q2, NEW at2, Heard(Q, at), at2[1] = at[1],
         Settled(Q) => Settled(Q2)'
  PROVE  Heard(Q2, at2)'
<1>0. UNCHANGED <<protocol, reply, sent, cut>> BY DEF serverVars
<1>1. CASE Ended /\ Settled(Q)
  <2>1. Ended' BY <1>0, <1>1, EndedError
  <2> QED BY <1>1, <2>1 DEF Heard
<1>2. CASE ~cut /\ V4Inv(at[1])
  <2>1. V4Inv(at[1])' BY <1>0, <1>2, V4Error
  <2>2. V4Inv(at2[1])' BY <2>1
  <2> QED BY <1>0, <1>2, <2>2 DEF Heard
<1>3. CASE V3Inv(at[1])
  <2>1. V3Inv(at[1])' BY <1>0, <1>3, V3Error
  <2>2. V3Inv(at2[1])' BY <2>1
  <2> QED BY <2>2 DEF Heard
<1> QED BY <1>1, <1>2, <1>3 DEF Heard

\* The first of the data is handled.
LEMMA HeardMore ==
  ASSUME Setting, UNCHANGED serverVars, busy = None, NEW Q, NEW at, Queue(Q, at), Q # <<>>,
         Heard(Q, at), Handle(<<Q[1]>>), NEW at2, at2[1] = at[2],
         Settled(Q) => Settled(Tail(Q))',
         finished /\ (\A m \in 2..Len(Q) : Q[m] = DoneMarker) => Settled(Tail(Q))'
  PROVE  Heard(Tail(Q), at2)'
<1> DEFINE x == Q[1]
           f == at[1]
           g == at[2]
<1>0. UNCHANGED <<protocol, reply, sent, cut>> BY DEF serverVars
<1>1. /\ Slices(Q, at) /\ Q \in Seq(Payloads) /\ Len(Q) \in Nat /\ 1 \in 1..Len(Q)
  <2>1. Slices(Q, at) /\ Q \in Seq(Payloads) BY DEF Queue, Slices
  <2> QED BY <2>1
<1>2. 1 \in 1..(Len(Q) + 1) /\ 2 \in 1..(Len(Q) + 1) /\ 1 + 1 = 2 BY <1>1
<1>3. Boundary(f) /\ Boundary(g) /\ Adds(x, f, g) BY <1>1, <1>2 DEF Slices
<1>4. x = Finish => f = sent /\ finished /\ \A m \in 2..Len(Q) : Q[m] = DoneMarker
  BY <1>1, <1>2 DEF Slices
<1>5. Settled(Q) => x = DoneMarker BY <1>1 DEF Settled
<1>6. /\ x = DoneMarker => UNCHANGED <<dsmlVars, pendingCalls>>
      /\ x = Junk => /\ events' = Append(events, [type |-> "error"])
                     /\ UNCHANGED <<parser, busy, pendingCalls>>
      /\ x = Finish /\ protocol = "v4" =>
           /\ events' = events \o Flushed("content") \o Flushed("reasoning")
                          \o <<[type |-> "done"]>>
           /\ UNCHANGED <<busy, pendingCalls>>
      /\ x = Finish /\ protocol = "v3" =>
           /\ events' = events \o FlushedCalls \o <<[type |-> "done"]>>
           /\ UNCHANGED busy
      /\ \A part, s : x = Delta(part, s) /\ part \notin V3Ids /\ protocol = "v4" =>
           Feed(part, s)
      /\ \A part, s : x = Delta(part, s) /\ part \notin V3Ids /\ protocol = "v3" =>
           events' = events \o Texts(part, s) /\ UNCHANGED <<busy, pendingCalls>>
      /\ \A part, s : x = Delta(part, s) /\ part \in V3Ids /\ protocol = "v3" =>
           pendingCalls' = Collected(s) /\ UNCHANGED <<busy, events>>
  BY Handled
<1>7. Settled(Q) => Settled(Tail(Q))' OBVIOUS
<1>8. finished /\ (\A m \in 2..Len(Q) : Q[m] = DoneMarker) => Settled(Tail(Q))' OBVIOUS
<1>9. at2[1] = g OBVIOUS
<1> HIDE DEF x, f, g
<1>10. CASE Ended /\ Settled(Q)
  <2>1. UNCHANGED <<dsmlVars, pendingCalls>> BY <1>5, <1>6, <1>10
  <2>2. UNCHANGED <<protocol, reply, sent, cut, busy, events>> BY <1>0, <2>1 DEF dsmlVars
  <2>3. Ended' BY <1>10, <2>2, EndedSame
  <2> QED BY <1>7, <1>10, <2>3 DEF Heard
<1>11. CASE ~cut /\ V4Inv(f)
  <2>1. protocol = "v4" /\ cut' = cut BY <1>0, <1>11 DEF V4Inv
  <2>2. V4Inv(g)' => Heard(Tail(Q), at2)' BY <1>9, <1>11, <2>1 DEF Heard
  <2>3. CASE x \in {Junk, DoneMarker}
    <3>1. f = g BY <1>3, <2>3, PayloadsDiffer DEF Adds
    <3>2. V4Inv(f)'
      <4>1. CASE x = DoneMarker BY <1>0, <1>6, <1>11, <4>1, V4Same
      <4>2. CASE x = Junk BY <1>0, <1>6, <1>11, <4>2, V4Error
      <4> QED BY <2>3, <4>1, <4>2
    <3> QED BY <2>2, <3>1, <3>2
  <2>4. CASE x = Finish
    <3>1. Settled(Tail(Q))' BY <1>4, <1>8, <2>4
    <3>2. f = sent BY <1>4, <2>4
    <3>3. V4Inv(sent) /\ Boundary(sent) BY <1>3, <1>11, <3>2
    <3>4. Ended' BY <1>0, <1>6, <2>1, <2>4, <3>3, V4Ends
    <3> QED BY <3>1, <3>4 DEF Heard
  <2>5. CASE x \notin {Finish, Junk, DoneMarker}
    <3>1. PICK part \in Parts :
            /\ f[part] < g[part]
            /\ \A other \in Parts \ {part} : f[other] = g[other]
            /\ x = Delta(part, SubSeq(ReplyWire(part), f[part] + 1, g[part]))
      BY <1>3, <2>5 DEF Adds
    <3>2. V3Ids = {} /\ Parts = Channels
      BY <2>1 DEF V3Ids, Parts
    <3>3. Feed(part, SubSeq(ReplyWire(part), f[part] + 1, g[part])) BY <1>6, <2>1, <3>1, <3>2
    <3>4. g[part] \in Nat /\ g[part] <= Len(ReplyWire(part)) BY <1>3 DEF Boundary
    <3>5. V4Inv(g)' BY <1>0, <1>3, <1>11, <3>1, <3>2, <3>3, <3>4, V4Feed
    <3> QED BY <2>2, <3>5
  <2> QED BY <2>3, <2>4, <2>5
<1>12. CASE V3Inv(f)
  <2>1. protocol = "v3" BY <1>12 DEF V3Inv
  <2>2. V3Inv(g)' => Heard(Tail(Q), at2)' BY <1>9 DEF Heard
  <2>3. CASE x \in {Junk, DoneMarker}
    <3>1. f = g BY <1>3, <2>3, PayloadsDiffer DEF Adds
    <3>2. V3Inv(f)'
      <4>1. CASE x = DoneMarker BY <1>0, <1>6, <1>12, <4>1, V3Same
      <4>2. CASE x = Junk BY <1>0, <1>6, <1>12, <4>2, V3Error
      <4> QED BY <2>3, <4>1, <4>2
    <3> QED BY <2>2, <3>1, <3>2
  <2>4. CASE x = Finish
    <3>1. Settled(Tail(Q))' BY <1>4, <1>8, <2>4
    <3>2. f = sent BY <1>4, <2>4
    <3>3. V3Inv(sent) /\ Boundary(sent) BY <1>3, <1>12, <3>2
    <3>4. Ended' BY <1>0, <1>6, <2>1, <2>4, <3>3, V3Ends
    <3> QED BY <3>1, <3>4 DEF Heard
  <2>5. CASE x \notin {Finish, Junk, DoneMarker}
    <3>1. PICK part \in Parts :
            /\ f[part] < g[part]
            /\ \A other \in Parts \ {part} : f[other] = g[other]
            /\ x = Delta(part, SubSeq(ReplyWire(part), f[part] + 1, g[part]))
      BY <1>3, <2>5 DEF Adds
    <3>2. g[part] \in Nat /\ g[part] <= Len(ReplyWire(part)) BY <1>3 DEF Boundary
    <3>3. CASE part \in V3Ids
      <4>1. pendingCalls' = Collected(SubSeq(ReplyWire(part), f[part] + 1, g[part]))
            /\ UNCHANGED <<busy, events>>
        BY <1>6, <2>1, <3>1, <3>3
      <4>2. V3Inv(g)' BY <1>0, <1>3, <1>12, <3>1, <3>3, <4>1, V3Fragments
      <4> QED BY <2>2, <4>2
    <3>4. CASE part \notin V3Ids
      <4>1. events' = events \o Texts(part, SubSeq(ReplyWire(part), f[part] + 1, g[part]))
            /\ UNCHANGED <<busy, pendingCalls>>
        BY <1>6, <2>1, <3>1, <3>4
      <4>2. part \in Channels BY <3>4 DEF Parts
      <4>3. V3Inv(g)' BY <1>0, <1>3, <1>12, <3>1, <3>2, <4>1, <4>2, V3Text
      <4> QED BY <2>2, <4>3
    <3> QED BY <3>3, <3>4
  <2> QED BY <2>3, <2>4, <2>5
<1>13. (Ended /\ Settled(Q)) \/ (~cut /\ V4Inv(f)) \/ V3Inv(f)
  BY DEF Heard, f
<1> QED BY <1>10, <1>11, <1>12, <1>13

\* Every step keeps the inductive invariant.
LEMMA StreamStep == StreamInv /\ [Next]_vars => StreamInv'
<1> SUFFICES ASSUME StreamInv, [Next]_vars
             PROVE  StreamInv'
  OBVIOUS
<1>1. Setting /\ Setting' /\ UNCHANGED <<protocol, reply, lineEnd>> /\ (cut => cut')
  BY SettingKept DEF StreamInv
<1>2. CASE protocol = "v4" /\ cut BY <1>1, <1>2 DEF StreamInv
<1>3. CASE ~(protocol = "v4" /\ cut)
  <2>1. PICK Q, at : Queue(Q, at) /\ Heard(Q, at) BY <1>3 DEF StreamInv
  <2>2. Boundary(at[1])
    <3>1. Q \in Seq(Payloads) /\ \A n \in 1..(Len(Q) + 1) : Boundary(at[n])
      BY <2>1 DEF Queue, Slices
    <3>2. 1 \in 1..(Len(Q) + 1) BY <3>1
    <3> QED BY <3>1, <3>2
  <2>3. CASE SendDelta \/ SendJunk \/ SendFinish \/ CloseConnection \/ BreakConnection
    <3>1. PICK Q2, at2 : Queue(Q2, at2)' /\ at2[1] = at[1] /\ (Settled(Q) => Settled(Q2)')
      BY <1>1, <2>1, <2>3, ServerStep
    <3>2. UNCHANGED <<dsmlVars, pendingCalls>>
      BY <2>3 DEF SendDelta, SendJunk, SendFinish, CloseConnection, BreakConnection, Sends
    <3>3. finished => UNCHANGED <<sent, cut>>
      BY <2>3 DEF SendDelta, SendJunk, SendFinish, CloseConnection, BreakConnection, Sends,
                  serverVars
    <3>4. Settled(Q) => UNCHANGED <<sent, cut>> BY <3>3 DEF Settled
    <3>5. (protocol = "v4" /\ cut)' \/ Heard(Q2, at2)'
      BY <1>1, <2>1, <3>1, <3>2, <3>4, HeardSame
    <3> QED BY <1>1, <3>1, <3>5 DEF StreamInv
  <2>4. CASE Receive
    <3>1. Queue(Q, at)' /\ (Settled(Q) => Settled(Q)') BY <2>1, <2>4, ReceiveStep
    <3>2. UNCHANGED <<dsmlVars, pendingCalls, sent, cut>> BY <2>4 DEF Receive, serverVars
    <3>3. (protocol = "v4" /\ cut)' \/ Heard(Q, at)' BY <1>1, <2>1, <3>1, <3>2, HeardSame
    <3> QED BY <1>1, <3>1, <3>3 DEF StreamInv
  <2>5. CASE Consume
    <3>1. PICK payload :
            /\ busy = None /\ UNCHANGED serverVars /\ Handle(payload)
            /\ NextEvent(payload) \/ LastEvent(payload)
      BY <2>5 DEF Consume
    <3>2. CASE payload = <<>> /\ Queue(Q, at)' /\ (Settled(Q) => Settled(Q)')
      <4>1. UNCHANGED <<dsmlVars, pendingCalls>> BY <3>1, <3>2 DEF Handle
      <4>2. UNCHANGED <<sent, cut>> BY <3>1 DEF serverVars
      <4>3. (protocol = "v4" /\ cut)' \/ Heard(Q, at)'
        BY <1>1, <2>1, <3>2, <4>1, <4>2, HeardSame
      <4> QED BY <1>1, <3>2, <4>3 DEF StreamInv
    <3>3. CASE /\ Q # <<>> /\ payload = <<Q[1]>>
               /\ \E at2 : Queue(Tail(Q), at2)' /\ at2[1] = at[2]
               /\ Settled(Q) => Settled(Tail(Q))'
               /\ finished /\ (\A m \in 2..Len(Q) : Q[m] = DoneMarker) => Settled(Tail(Q))'
      <4>1. PICK at2 : Queue(Tail(Q), at2)' /\ at2[1] = at[2] BY <3>3
      <4>2. Handle(<<Q[1]>>) BY <3>1, <3>3
      <4>3. Heard(Tail(Q), at2)' BY <1>1, <2>1, <3>1, <3>3, <4>1, <4>2, HeardMore
      <4> QED BY <1>1, <4>1, <4>3 DEF StreamInv
    <3> QED BY <2>1, <3>1, <3>2, <3>3, ConsumeStep
  <2>6. CASE Fail
    <3>1. UNCHANGED <<wire, connection, buffer, parser, busy, pendingCalls, serverVars>>
          /\ events' = Append(events, [type |-> "error"])
      BY <2>6 DEF Fail, ReadFails
    <3>2. Queue(Q, at)' /\ (Settled(Q) => Settled(Q)') BY <2>1, <3>1, QueueSame
    <3>3. Heard(Q, at)' BY <1>1, <2>1, <3>1, <3>2, HeardError
    <3> QED BY <1>1, <3>2, <3>3 DEF StreamInv
  <2>7. CASE ParseStep
    <3>1. UNCHANGED <<wire, connection, buffer, serverVars, pendingCalls>>
      BY <2>7 DEF ParseStep, sseVars
    <3>2. Queue(Q, at)' BY <2>1, <3>1, QueueSame
    <3>3. busy # None
      <4>1. PICK ch \in Channels :
              \/ EmitContent(ch) \/ OpenBlock(ch)
              \/ EndParam(ch) \/ ReadValue(ch) \/ SkipText(ch) \/ AwaitTag(ch) \/ ReadTag(ch)
        BY <2>7 DEF ParseStep, Parse
      <4>2. busy = ch
        BY <4>1 DEF EmitContent, OpenBlock, EndParam, ReadValue, SkipText, AwaitTag, ReadTag, InBlock
      <4>3. None \notin Channels BY DsmlAssumptions
      <4> QED BY <4>2, <4>3
    <3>4. ~cut /\ V4Inv(at[1]) BY <2>1, <3>3 DEF Heard, Ended, V3Inv
    <3>5. V4Inv(at[1])' BY <1>1, <2>2, <2>7, <3>4, V4Parse
    <3>6. Heard(Q, at)' BY <3>1, <3>4, <3>5 DEF Heard, serverVars
    <3> QED BY <1>1, <3>2, <3>6 DEF StreamInv
  <2>8. CASE UNCHANGED vars
    <3>1. UNCHANGED <<wire, connection, buffer, serverVars, dsmlVars, pendingCalls, sent, cut>>
      BY <2>8 DEF vars, sseVars, serverVars
    <3>2. Queue(Q, at)' /\ (Settled(Q) => Settled(Q)') BY <2>1, <3>1, QueueSame
    <3>3. (protocol = "v4" /\ cut)' \/ Heard(Q, at)' BY <1>1, <2>1, <3>1, <3>2, HeardSame
    <3> QED BY <1>1, <3>2, <3>3 DEF StreamInv
  <2> QED BY <2>3, <2>4, <2>5, <2>6, <2>7, <2>8 DEF Next
<1> QED BY <1>2, <1>3

-----------------------------------------------------------------------------
(* The properties                                                          *)

\* What V4 has delivered while more is ahead is intact,
LEMMA V4Holds ==
  ASSUME NEW f, V4Inv(f)
  PROVE  CallsIntact
<1>1. protocol = "v4" /\ events \in Seq(Yielded) /\ \A c \in Channels : Channel(c, f[c])
  BY DEF V4Inv
<1>2. ASSUME NEW ch \in Channels
      PROVE  IsPrefix(Calls(Of(ch, events)), Calls(Meaning(ch)))
  <2> DEFINE o == Of(ch, events)
  <2>1. PICK R : /\ Ahead(ch, parser[ch], Drop(ReplyWire(ch), f[ch] - Len(parser[ch].buffer)), R)
                 /\ Meaning(ch) = o \o R
    BY <1>1 DEF Channel
  <2>2. R \in Seq(Yielded)
    <3>1. R \in Seq(Mine(ch)) BY <2>1 DEF Ahead
    <3>2. Mine(ch) \subseteq Yielded BY MineYielded
    <3> QED BY <3>1, <3>2, WiderSeq
  <2>3. o \in Seq(Yielded)
    <3>1. <<>> \in Seq(Yielded) OBVIOUS
    <3> QED BY <1>1, <3>1, OfConcat
  <2> HIDE DEF o
  <2>4. Calls(o \o R) = Calls(o) \o Calls(R) /\ Calls(o) \in Seq(Yielded) /\ Calls(R) \in Seq(Yielded)
    BY <2>2, <2>3, CallsConcat
  <2>5. IsPrefix(Calls(o), Calls(o) \o Calls(R)) BY <2>4, PrefixConcat
  <2> QED BY <2>1, <2>4, <2>5 DEF o
<1> QED BY <1>1, <1>2 DEF CallsIntact, CallsAsMade

\* and V3 delivers no call before the finish_reason.
LEMMA V3Holds ==
  ASSUME NEW f, V3Inv(f)
  PROVE  CallsIntact
<1>1. /\ protocol = "v3" /\ events \in Seq(Yielded)
      /\ \A i \in 1..Len(events) : events[i].type \in {"text", "error"}
  BY DEF V3Inv
<1>2. \A i \in 1..Len(events) : events[i].type # "tool_call" BY <1>1
<1>3. Delivered = <<>> BY <1>1, <1>2, CallsNone DEF Delivered
<1>4. DOMAIN <<>> = {} OBVIOUS
<1> QED BY <1>1, <1>3, <1>4 DEF CallsIntact, V3CallsAsMade

\* The inductive invariant means the two properties.
LEMMA StreamMeans == StreamInv => CallsIntact /\ ReplyDelivered
<1> SUFFICES ASSUME StreamInv PROVE CallsIntact /\ ReplyDelivered
  OBVIOUS
<1>1. CASE protocol = "v4" /\ cut BY <1>1 DEF CallsIntact, ReplyDelivered
<1>2. ASSUME NEW Q, NEW at, Heard(Q, at) PROVE CallsIntact /\ ReplyDelivered
  <2>1. CASE Ended BY <2>1 DEF Ended
  <2>2. CASE V4Inv(at[1])
    <3>1. ~Over BY <2>2 DEF V4Inv
    <3> QED BY <2>2, <3>1, V4Holds DEF ReplyDelivered, Over
  <2>3. CASE V3Inv(at[1])
    <3>1. ~Over BY <2>3 DEF V3Inv
    <3> QED BY <2>3, <3>1, V3Holds DEF ReplyDelivered, Over
  <2> QED BY <1>2, <2>1, <2>2, <2>3 DEF Heard
<1> QED BY <1>1, <1>2 DEF StreamInv

\* What is in the buffers and in flight is, event by event, the part of the reply that the
\* adapter has not handled (sseClient.ts, v4/adapter.ts, v3/adapter.ts), and what it has
\* yielded together with what its parsers hold is what it has handled.
THEOREM StreamInvariant == Spec => []StreamInv
<1> QED BY StreamInit, StreamStep, PTL DEF Spec

\* Every call is delivered as it was made, once and in order, or not at all, however the
\* response is cut into deltas and chunks, interleaved or ended, for every set of replies
\* (dsmlParser.ts, v3/parser.ts); but for V4 after a delta that ended inside a "</param>".
THEOREM CallsDelivered == Spec => []CallsIntact
<1>1. StreamInv => CallsIntact BY StreamMeans
<1> QED BY <1>1, StreamInvariant, PTL

\* A complete reply that has been read to its end is delivered as it was meant, text and
\* calls, channel by channel, for every set of replies and however it is cut.
THEOREM RepliesDelivered == Spec => []ReplyDelivered
<1>1. StreamInv => ReplyDelivered BY StreamMeans
<1> QED BY <1>1, StreamInvariant, PTL
=============================================================================
