-------------------------- MODULE SseStream_proofs --------------------------
(***************************************************************************)
(* What SSEClient makes of a stream, however it is cut into chunks.        *)
(*                                                                         *)
(* A text carries the data Q when the data of Q stand in it in order, each *)
(* behind its "data:", with a gap between any two: line ends among which, cut*)
(* as they may be, an empty line is left.  Normalising the line ends of a  *)
(* chunk leaves what the text carries, and so do cutting an event off the  *)
(* front, which is the first of Q or none, and sending one more.           *)
(***************************************************************************)
EXTENDS SseStream, SequenceLemmas

-----------------------------------------------------------------------------
(* Texts that carry data                                                   *)

\* What a line may end with.
Ends == {LF, CR}

\* A line end that NormaliseLineEndings leaves.
Kept(t, i) == ~(t[i] = LF /\ i > 1 /\ t[i - 1] = CR)

\* Between i and j two of them with nothing but line ends between: wherever a chunk ends,
\* an empty line.
Gap(t, i, j) ==
  \E k, l \in (i + 1)..(j - 1) :
    k < l /\ Kept(t, k) /\ Kept(t, l) /\ \A m \in k..l : t[m] \in Ends

\* The text t carries the data Q of the events to come, the n-th at pos[n].
Carries(P, t, Q, pos) ==
  /\ t \in Seq(P \cup {LF, CR, Data, Comment}) /\ Q \in Seq(P)
  /\ pos \in [1..Len(Q) -> 1..Len(t)] /\ Increasing(pos, Len(Q))
  /\ \A n \in 1..Len(Q) : t[pos[n]] = Q[n] /\ pos[n] > 1 /\ t[pos[n] - 1] = Data
  /\ \A i \in 1..Len(t) : t[i] \in P => \E n \in 1..Len(Q) : pos[n] = i
  /\ \A i \in 1..Len(t) : t[i] \in {Data, Comment} => i = 1 \/ t[i - 1] \in Ends
  /\ \A n \in 1..(Len(Q) - 1) : Gap(t, pos[n], pos[n + 1])

\* An event that is sent is sent with its empty line.
Complete(t, Q, pos) ==
  /\ t # <<>> => t[Len(t)] \in Ends
  /\ Q # <<>> => Gap(t, pos[Len(Q)], Len(t) + 1)

\* What the symbols of payloads are not.
Apart(P) == P \cap {LF, CR, Data, Comment} = {}

\* The symbols that are not payloads differ.
LEMMA Symbols == LF # CR /\ LF # Data /\ LF # Comment /\ CR # Data /\ CR # Comment /\ Data # Comment
<1>1. LF.sym = "LF" /\ CR.sym = "CR" /\ Data.sym = "data:" /\ Comment.sym = ":"
  BY DEF LF, CR, Data, Comment, Symbol
<1> QED BY <1>1

-----------------------------------------------------------------------------
(* Line ends are normalised                                                *)

\* t2 is what h picks of t: all but ends of lines that were two symbols; CR may have
\* become LF.
Thinned(t, t2, h) ==
  /\ h \in [1..Len(t2) -> 1..Len(t)] /\ Increasing(h, Len(t2))
  /\ \A k \in 1..Len(t2) : t2[k] = t[h[k]] \/ (t2[k] = LF /\ t[h[k]] = CR)
  /\ \A i \in 1..Len(t) : Kept(t, i) => \E k \in 1..Len(t2) : h[k] = i
  /\ \A k \in 1..Len(t2) : ~Kept(t2, k) => ~Kept(t, h[k])

\* A symbol that is left after another is behind it as it was, or behind the LF that a CR
\* LF became.
LEMMA ThinnedBefore ==
  ASSUME NEW P, NEW t \in Seq(P), NEW t2 \in Seq(P), NEW h, Thinned(t, t2, h),
         NEW k \in 1..Len(t2), h[k] > 1
  PROVE  /\ k > 1 /\ k - 1 \in 1..Len(t2)
         /\ h[k - 1] = h[k] - 1 \/ (t[h[k] - 1] = LF /\ t2[k - 1] \in Ends)
<1>1. /\ h \in [1..Len(t2) -> 1..Len(t)] /\ Len(t) \in Nat /\ Len(t2) \in Nat
      /\ \A i \in 1..Len(t2) : h[i] \in 1..Len(t) /\ h[i] \in Int
      /\ \A i, j \in 1..Len(t2) : i < j => h[i] < h[j]
      /\ \A i \in 1..Len(t2) : t2[i] = t[h[i]] \/ (t2[i] = LF /\ t[h[i]] = CR)
      /\ \A i \in 1..Len(t) : Kept(t, i) => \E j \in 1..Len(t2) : h[j] = i
  BY DEF Thinned, Increasing
<1> DEFINE i == h[k] - 1
<1>2. i \in 1..Len(t) /\ h[k] \in 1..Len(t) BY <1>1
<1>3. ASSUME NEW j \in 1..Len(t2), h[j] < h[k] PROVE j < k
  <2>1. CASE j = k BY <1>1, <1>3, <2>1
  <2>2. CASE k < j
    <3>1. h[k] < h[j] BY <1>1, <2>2
    <3> QED BY <1>1, <1>3, <3>1
  <2> QED BY <1>1, <2>1, <2>2
<1>4. CASE Kept(t, i)
  <2>1. PICK j \in 1..Len(t2) : h[j] = i BY <1>1, <1>2, <1>4
  <2>2. j < k BY <1>2, <1>3, <2>1
  <2>3. k > 1 /\ k - 1 \in 1..Len(t2) BY <1>1, <2>2
  <2>4. CASE j = k - 1 BY <2>1, <2>3, <2>4
  <2>5. CASE j < k - 1
    <3>1. h[j] < h[k - 1] /\ h[k - 1] < h[k] BY <1>1, <2>3, <2>5
    <3>2. h[k - 1] \in Int BY <1>1, <2>3
    <3> QED BY <1>2, <2>1, <3>1, <3>2
  <2> QED BY <1>1, <2>2, <2>3, <2>4, <2>5
<1>5. CASE ~Kept(t, i)
  <2>1. t[i] = LF /\ i > 1 /\ t[i - 1] = CR BY <1>5 DEF Kept
  <2>2. i - 1 \in 1..Len(t) /\ Kept(t, i - 1) BY <1>2, <2>1, Symbols DEF Kept
  <2>3. PICK j \in 1..Len(t2) : h[j] = i - 1 BY <1>1, <2>2
  <2>4. j < k BY <1>2, <1>3, <2>3
  <2>5. k > 1 /\ k - 1 \in 1..Len(t2) BY <1>1, <2>4
  <2>6. CASE j = k - 1
    <3>1. t2[j] = t[h[j]] \/ t2[j] = LF BY <1>1
    <3>2. t2[j] \in Ends BY <2>1, <2>3, <3>1 DEF Ends
    <3> QED BY <2>1, <2>5, <2>6, <3>2
  <2>7. CASE j < k - 1
    <3>1. h[j] < h[k - 1] /\ h[k - 1] < h[k] BY <1>1, <2>5, <2>7
    <3>2. h[k - 1] \in Int BY <1>1, <2>5
    <3>3. h[k - 1] = h[k] - 1 BY <1>2, <2>3, <3>1, <3>2
    <3> QED BY <2>5, <3>3
  <2> QED BY <1>1, <2>4, <2>5, <2>6, <2>7
<1> QED BY <1>4, <1>5

\* An empty line is one after thinning, too.
LEMMA ThinnedGap ==
  ASSUME NEW P, NEW t \in Seq(P), NEW t2 \in Seq(P), NEW h, Thinned(t, t2, h),
         NEW i \in Nat, NEW j \in Nat, Gap(t, i, j), j <= Len(t) + 1,
         NEW i2 \in Int, NEW j2 \in Int,
         \A k \in 1..Len(t2) : h[k] > i => k > i2,
         \A k \in 1..Len(t2) : h[k] < j => k < j2
  PROVE  Gap(t2, i2, j2)
<1>1. /\ h \in [1..Len(t2) -> 1..Len(t)] /\ Len(t) \in Nat /\ Len(t2) \in Nat
      /\ \A a, b \in 1..Len(t2) : a < b => h[a] < h[b]
      /\ \A a \in 1..Len(t2) : t2[a] = t[h[a]] \/ (t2[a] = LF /\ t[h[a]] = CR)
      /\ \A a \in 1..Len(t) : Kept(t, a) => \E b \in 1..Len(t2) : h[b] = a
      /\ \A a \in 1..Len(t2) : ~Kept(t2, a) => ~Kept(t, h[a])
  BY DEF Thinned, Increasing
<1>0. \A a \in 1..Len(t2) : h[a] \in 1..Len(t) /\ h[a] \in Int BY <1>1
<1>2. PICK k \in (i + 1)..(j - 1), l \in (i + 1)..(j - 1) :
        k < l /\ Kept(t, k) /\ Kept(t, l) /\ \A m \in k..l : t[m] \in Ends
  BY DEF Gap
<1>3. k \in 1..Len(t) /\ l \in 1..Len(t) BY <1>1
<1>4. PICK a \in 1..Len(t2) : h[a] = k BY <1>1, <1>2, <1>3
<1>5. PICK b \in 1..Len(t2) : h[b] = l BY <1>1, <1>2, <1>3
<1>6. a < b
  <2>1. CASE a = b BY <1>2, <1>4, <1>5, <2>1
  <2>2. CASE b < a
    <3>1. h[b] < h[a] BY <1>1, <2>2
    <3> QED BY <1>2, <1>3, <1>4, <1>5, <3>1
  <2> QED BY <2>1, <2>2
<1>7. Kept(t2, a) /\ Kept(t2, b) BY <1>0, <1>1, <1>2, <1>4, <1>5
<1>8. ASSUME NEW m \in a..b PROVE t2[m] \in Ends
  <2>1. m \in 1..Len(t2) BY <1>1
  <2>2. h[m] \in k..l
    <3>1. m = a \/ a < m BY <1>1
    <3>2. m = b \/ m < b BY <1>1
    <3>3. h[m] \in 1..Len(t) BY <1>0, <2>1
    <3>4. k <= h[m]
      <4>1. CASE m = a BY <1>3, <1>4, <4>1
      <4>2. CASE a < m
        <5>1. h[a] < h[m] BY <1>1, <2>1, <4>2
        <5> QED BY <1>0, <1>3, <1>4, <3>3, <5>1
      <4> QED BY <3>1, <4>1, <4>2
    <3>5. h[m] <= l
      <4>1. CASE m = b BY <1>3, <1>5, <4>1
      <4>2. CASE m < b
        <5>1. h[m] < h[b] BY <1>1, <2>1, <4>2
        <5> QED BY <1>0, <1>3, <1>5, <3>3, <5>1
      <4> QED BY <3>2, <4>1, <4>2
    <3> QED BY <1>3, <3>3, <3>4, <3>5
  <2>3. t[h[m]] \in Ends BY <1>2, <2>2
  <2> QED BY <1>1, <2>1, <2>3 DEF Ends
<1>9. a \in (i2 + 1)..(j2 - 1) /\ b \in (i2 + 1)..(j2 - 1) BY <1>1, <1>4, <1>5
<1> QED BY <1>6, <1>7, <1>8, <1>9 DEF Gap

\* A text carries the same data when its line ends have been normalised.
LEMMA ThinnedCarries ==
  ASSUME NEW P, Apart(P), NEW t, NEW Q, NEW pos, Carries(P, t, Q, pos),
         NEW t2 \in Seq(P \cup {LF, CR, Data, Comment}), NEW h, Thinned(t, t2, h)
  PROVE  \E pos2 : /\ Carries(P, t2, Q, pos2)
                   /\ Complete(t, Q, pos) => Complete(t2, Q, pos2)
<1> DEFINE S == P \cup {LF, CR, Data, Comment}
           n == Len(Q)
<1>1. /\ t \in Seq(S) /\ t2 \in Seq(S) /\ Q \in Seq(P)
      /\ pos \in [1..n -> 1..Len(t)] /\ Increasing(pos, n)
      /\ \A i \in 1..n : t[pos[i]] = Q[i] /\ pos[i] > 1 /\ t[pos[i] - 1] = Data
      /\ \A i \in 1..Len(t) : t[i] \in P => \E k \in 1..n : pos[k] = i
      /\ \A i \in 1..Len(t) : t[i] \in {Data, Comment} => i = 1 \/ t[i - 1] \in Ends
      /\ \A i \in 1..(n - 1) : Gap(t, pos[i], pos[i + 1])
  BY DEF Carries
<1>2. n \in Nat /\ Len(t) \in Nat /\ Len(t2) \in Nat /\ \A i \in 1..n : Q[i] \in P BY <1>1
<1> HIDE DEF S, n
<1>3. /\ h \in [1..Len(t2) -> 1..Len(t)]
      /\ \A a, b \in 1..Len(t2) : a < b => h[a] < h[b]
      /\ \A a \in 1..Len(t2) : t2[a] = t[h[a]] \/ (t2[a] = LF /\ t[h[a]] = CR)
      /\ \A a \in 1..Len(t) : Kept(t, a) => \E b \in 1..Len(t2) : h[b] = a
  BY DEF Thinned, Increasing
<1>4. \A a \in 1..Len(t2) : h[a] \in 1..Len(t) /\ h[a] \in Int BY <1>3
<1>5. \A a, b \in 1..Len(t2) : h[a] < h[b] => a < b
  <2> SUFFICES ASSUME NEW a \in 1..Len(t2), NEW b \in 1..Len(t2), h[a] < h[b] PROVE a < b
    OBVIOUS
  <2>1. a # b BY <1>4
  <2>2. CASE b < a
    <3>1. h[b] < h[a] BY <1>3, <2>2
    <3> QED BY <1>4, <3>1
  <2> QED BY <2>1, <2>2
<1>6. \A x \in P : x \notin {LF, CR, Data, Comment} BY DEF Apart
<1>7. \A i \in 1..n : \E k \in 1..Len(t2) : h[k] = pos[i]
  <2> TAKE i \in 1..n
  <2>1. t[pos[i]] \in P /\ pos[i] \in 1..Len(t) BY <1>1, <1>2
  <2>2. Kept(t, pos[i]) BY <1>6, <2>1 DEF Kept
  <2> QED BY <1>3, <2>1, <2>2
<1> DEFINE pos2 == [i \in 1..n |-> CHOOSE k \in 1..Len(t2) : h[k] = pos[i]]
<1>8. pos2 \in [1..n -> 1..Len(t2)] /\ \A i \in 1..n : h[pos2[i]] = pos[i] BY <1>7
<1>9. \A i \in 1..n : pos2[i] \in 1..Len(t2) /\ pos2[i] \in Int /\ pos[i] \in 1..Len(t) /\ pos[i] \in Int
  <2>1. \A i \in 1..n : pos[i] \in 1..Len(t) /\ pos[i] \in Int BY <1>1
  <2>2. pos2 \in [1..n -> 1..Len(t2)] BY <1>8
  <2> HIDE DEF pos2
  <2>3. \A i \in 1..n : pos2[i] \in 1..Len(t2) /\ pos2[i] \in Int BY <2>2
  <2> QED BY <2>1, <2>3
<1> HIDE DEF pos2
<1>10. Increasing(pos2, n) BY <1>1, <1>5, <1>8, <1>9 DEF Increasing
<1>11. \A i \in 1..n : t2[pos2[i]] = Q[i] /\ pos2[i] > 1 /\ t2[pos2[i] - 1] = Data
  <2> TAKE i \in 1..n
  <2> DEFINE k == pos2[i]
  <2>1. k \in 1..Len(t2) /\ h[k] = pos[i] /\ h[k] > 1 /\ t[h[k]] = Q[i] /\ t[h[k] - 1] = Data
    BY <1>1, <1>8, <1>9
  <2> HIDE DEF k
  <2>2. t2[k] = Q[i] BY <1>2, <1>3, <1>6, <2>1
  <2>3. k > 1 /\ k - 1 \in 1..Len(t2) /\ h[k - 1] = h[k] - 1
    <3>1. /\ k > 1 /\ k - 1 \in 1..Len(t2)
          /\ h[k - 1] = h[k] - 1 \/ (t[h[k] - 1] = LF /\ t2[k - 1] \in Ends)
      BY <1>1, <2>1, ThinnedBefore
    <3> QED BY <2>1, <3>1, Symbols
  <2>4. t2[k - 1] = t[h[k - 1]] \/ t[h[k - 1]] = CR BY <1>3, <2>3
  <2>5. t2[k - 1] = Data BY <2>1, <2>3, <2>4, Symbols
  <2> QED BY <2>2, <2>3, <2>5 DEF k
<1>12. \A i \in 1..Len(t2) : t2[i] \in P => \E k \in 1..n : pos2[k] = i
  <2> SUFFICES ASSUME NEW i \in 1..Len(t2), t2[i] \in P PROVE \E k \in 1..n : pos2[k] = i
    OBVIOUS
  <2>1. t2[i] # LF BY <1>6
  <2>2. t[h[i]] \in P /\ h[i] \in 1..Len(t) BY <1>3, <1>4, <2>1
  <2>3. PICK k \in 1..n : pos[k] = h[i] BY <1>1, <2>2
  <2>4. h[pos2[k]] = h[i] /\ pos2[k] \in 1..Len(t2) BY <1>8, <1>9, <2>3
  <2>5. pos2[k] = i
    <3>1. ~(pos2[k] < i) BY <1>3, <1>4, <2>4
    <3>2. ~(i < pos2[k]) BY <1>3, <1>4, <2>4
    <3> QED BY <1>9, <3>1, <3>2
  <2> QED BY <2>5
<1>13. \A i \in 1..Len(t2) : t2[i] \in {Data, Comment} => i = 1 \/ t2[i - 1] \in Ends
  <2> SUFFICES ASSUME NEW i \in 1..Len(t2), t2[i] \in {Data, Comment}
    PROVE i = 1 \/ t2[i - 1] \in Ends
    OBVIOUS
  <2>1. t[h[i]] = t2[i] BY <1>3, Symbols
  <2>2. h[i] = 1 \/ t[h[i] - 1] \in Ends BY <1>1, <1>4, <2>1
  <2>3. CASE h[i] = 1
    <3>1. CASE i = 1 BY <3>1
    <3>2. CASE i # 1
      <4>1. 1 \in 1..Len(t2) /\ 1 < i BY <1>2, <3>2
      <4>2. h[1] < h[i] BY <1>3, <4>1
      <4> QED BY <1>4, <2>3, <4>1, <4>2
    <3> QED BY <3>1, <3>2
  <2>4. CASE h[i] # 1
    <3>1. h[i] > 1 BY <1>4, <2>4
    <3>2. /\ i > 1 /\ i - 1 \in 1..Len(t2)
          /\ h[i - 1] = h[i] - 1 \/ (t[h[i] - 1] = LF /\ t2[i - 1] \in Ends)
      BY <1>1, <3>1, ThinnedBefore
    <3>3. CASE h[i - 1] = h[i] - 1
      <4>1. t2[i - 1] = t[h[i - 1]] \/ t2[i - 1] = LF BY <1>3, <3>2
      <4> QED BY <2>2, <2>4, <3>3, <4>1 DEF Ends
    <3> QED BY <3>2, <3>3
  <2> QED BY <2>3, <2>4
<1>14. \A i \in 1..(n - 1) : Gap(t2, pos2[i], pos2[i + 1])
  <2> TAKE i \in 1..(n - 1)
  <2>1. i \in 1..n /\ i + 1 \in 1..n BY <1>2
  <2>2. Gap(t, pos[i], pos[i + 1]) BY <1>1
  <2>3. \A k \in 1..Len(t2) : h[k] > pos[i] => k > pos2[i] BY <1>4, <1>5, <1>8, <1>9, <2>1
  <2>4. \A k \in 1..Len(t2) : h[k] < pos[i + 1] => k < pos2[i + 1] BY <1>4, <1>5, <1>8, <1>9, <2>1
  <2>5. /\ pos[i] \in Nat /\ pos[i + 1] \in Nat /\ pos[i + 1] <= Len(t) + 1
        /\ pos2[i] \in Int /\ pos2[i + 1] \in Int
    BY <1>2, <1>9, <2>1
  <2> DEFINE a == pos[i]
             b == pos[i + 1]
             a2 == pos2[i]
             b2 == pos2[i + 1]
  <2>6. /\ Gap(t, a, b) /\ a \in Nat /\ b \in Nat /\ b <= Len(t) + 1 /\ a2 \in Int /\ b2 \in Int
        /\ \A k \in 1..Len(t2) : h[k] > a => k > a2
        /\ \A k \in 1..Len(t2) : h[k] < b => k < b2
    BY <2>2, <2>3, <2>4, <2>5
  <2> HIDE DEF a, b, a2, b2
  <2>7. Gap(t2, a2, b2) BY <1>1, <2>6, ThinnedGap
  <2> QED BY <2>7 DEF a2, b2
<1>15. Carries(P, t2, Q, pos2)
  BY <1>1, <1>8, <1>10, <1>11, <1>12, <1>13, <1>14 DEF Carries, S, n
<1>16. ASSUME Complete(t, Q, pos) PROVE Complete(t2, Q, pos2)
  <2>1. ASSUME t2 # <<>> PROVE t2[Len(t2)] \in Ends
    <3> DEFINE k == Len(t2)
               m == Len(t)
    <3>1. k \in 1..Len(t2) BY <1>1, <2>1
    <3>2. h[k] \in 1..m /\ m \in 1..Len(t) BY <1>2, <1>4, <3>1
    <3>3. t[m] \in Ends
      <4>1. t # <<>> BY <3>2
      <4> QED BY <1>16, <4>1 DEF Complete
    <3> HIDE DEF k, m
    <3>4. CASE h[k] = m
      <4>1. t2[k] = t[m] \/ t2[k] = LF BY <1>3, <3>1, <3>4
      <4> QED BY <3>3, <4>1 DEF Ends, k
    <3>5. CASE h[k] < m
      <4>1. \A b \in 1..Len(t2) : b <= k BY DEF k
      <4>2. \A b \in 1..Len(t2) : h[b] <= h[k]
        <5> TAKE b \in 1..Len(t2)
        <5>1. b = k \/ b < k BY <1>2, <3>1, <4>1
        <5>2. h[b] \in Int /\ h[k] \in Int BY <1>4, <3>1
        <5>3. b < k => h[b] < h[k] BY <1>3, <3>1
        <5> QED BY <5>1, <5>2, <5>3
      <4>3. ~Kept(t, m) BY <1>3, <3>2, <3>5, <4>2
      <4>4. m > 1 /\ t[m - 1] = CR BY <4>3 DEF Kept
      <4>5. m - 1 \in 1..Len(t) /\ Kept(t, m - 1) BY <3>2, <4>4, Symbols DEF Kept
      <4>6. PICK b \in 1..Len(t2) : h[b] = m - 1 BY <1>3, <4>5
      <4>7. h[k] = m - 1 BY <1>4, <3>1, <3>2, <3>5, <4>2, <4>6
      <4>8. t2[k] = CR \/ t2[k] = LF BY <1>3, <3>1, <4>4, <4>7
      <4> QED BY <4>8 DEF Ends, k
    <3> QED BY <3>2, <3>4, <3>5
  <2>2. ASSUME Q # <<>> PROVE Gap(t2, pos2[n], Len(t2) + 1)
    <3>1. n \in 1..n BY <1>1, <1>2, <2>2 DEF n
    <3>2. Gap(t, pos[n], Len(t) + 1) BY <1>16, <2>2 DEF Complete, n
    <3>3. \A k \in 1..Len(t2) : h[k] > pos[n] => k > pos2[n] BY <1>4, <1>5, <1>8, <1>9, <3>1
    <3>4. \A k \in 1..Len(t2) : h[k] < Len(t) + 1 => k < Len(t2) + 1 BY <1>2
    <3>5. pos[n] \in Nat /\ pos2[n] \in Int /\ Len(t) + 1 \in Nat /\ Len(t2) + 1 \in Int
      BY <1>2, <1>9, <3>1
    <3>6. Len(t) + 1 <= Len(t) + 1 BY <1>2
    <3> DEFINE a == pos[n]
               b == Len(t) + 1
               a2 == pos2[n]
               b2 == Len(t2) + 1
    <3>7. /\ Gap(t, a, b) /\ a \in Nat /\ b \in Nat /\ b <= Len(t) + 1 /\ a2 \in Int /\ b2 \in Int
          /\ \A k \in 1..Len(t2) : h[k] > a => k > a2
          /\ \A k \in 1..Len(t2) : h[k] < b => k < b2
      BY <3>2, <3>3, <3>4, <3>5, <3>6
    <3> HIDE DEF a, b, a2, b2
    <3>8. Gap(t2, a2, b2) BY <1>1, <3>7, ThinnedGap
    <3> QED BY <3>8 DEF a2, b2
  <2> QED BY <2>1, <2>2 DEF Complete, n
<1> QED BY <1>15, <1>16

\* Normalising the first part of a text thins it and leaves no CR there.
LEMMA NormalisedThins ==
  ASSUME NEW P, Apart(P), NEW s \in Seq(P \cup {LF, CR, Data, Comment}),
         NEW r \in Seq(P \cup {LF, CR, Data, Comment})
  PROVE  /\ NormaliseLineEndings(s) \in Seq(P \cup {LF, CR, Data, Comment})
         /\ \A i \in 1..Len(NormaliseLineEndings(s)) : NormaliseLineEndings(s)[i] # CR
         /\ \E h : Thinned(s \o r, NormaliseLineEndings(s) \o r, h)
<1> DEFINE S == P \cup {LF, CR, Data, Comment}
           a == [i \in 1..Len(s) |->
                  CASE s[i] = CR -> <<LF>>
                    [] s[i] = LF /\ i > 1 /\ s[i - 1] = CR -> <<>>
                    [] OTHER -> <<s[i]>>]
           u == NormaliseLineEndings(s)
<1>1. s \in Seq(S) /\ r \in Seq(S) /\ LF \in S OBVIOUS
<1> HIDE DEF S
<1>2. Len(s) \in Nat /\ Len(r) \in Nat /\ DOMAIN s = 1..Len(s) /\ (\A i \in 1..Len(s) : s[i] \in S)
  BY <1>1
<1>3. \A i \in 1..Len(s) :
        /\ a[i] = <<>> \/ \E x \in S : a[i] = <<x>>
        /\ a[i] # <<>> <=> Kept(s, i)
        /\ a[i] # <<>> => a[i][1] # CR /\ (a[i][1] = s[i] \/ (a[i][1] = LF /\ s[i] = CR))
  <2> TAKE i \in 1..Len(s)
  <2>1. CASE s[i] = CR
    <3>1. a[i] = <<LF>> BY <2>1, Symbols
    <3>2. Kept(s, i) BY <2>1, Symbols DEF Kept
    <3> QED BY <1>1, <2>1, <3>1, <3>2, Symbols
  <2>2. CASE s[i] # CR /\ s[i] = LF /\ i > 1 /\ s[i - 1] = CR
    <3>1. a[i] = <<>> BY <2>2
    <3>2. ~Kept(s, i) BY <2>2 DEF Kept
    <3> QED BY <3>1, <3>2
  <2>3. CASE s[i] # CR /\ ~(s[i] = LF /\ i > 1 /\ s[i - 1] = CR)
    <3>1. a[i] = <<s[i]>> BY <2>3
    <3>2. Kept(s, i) BY <2>3 DEF Kept
    <3>3. s[i] \in S BY <1>2
    <3> QED BY <2>3, <3>1, <3>2, <3>3
  <2> QED BY <2>1, <2>2, <2>3
<1>4. a \in Seq(Seq(S)) /\ Len(a) = Len(s)
  <2>1. \A i \in 1..Len(s) : a[i] \in Seq(S)
    <3> TAKE i \in 1..Len(s)
    <3> HIDE DEF a
    <3>1. a[i] = <<>> \/ \E x \in S : a[i] = <<x>> BY <1>3
    <3>2. <<>> \in Seq(S) /\ \A x \in S : <<x>> \in Seq(S) OBVIOUS
    <3> QED BY <3>1, <3>2
  <2>2. a = [i \in 1..Len(s) |-> a[i]] OBVIOUS
  <2> HIDE DEF a
  <2>3. a \in [1..Len(s) -> Seq(S)] BY <2>1, <2>2
  <2> QED BY <1>2, <2>3
<1>5. u = FlattenSeq(a) BY <1>2 DEF NormaliseLineEndings
<1> HIDE DEF a
<1>6. u \in Seq(S) /\ \E f : Picks(u, a, f, Occupied(a, Len(a)))
  <2>1. \A i \in 1..Len(a) : a[i] = <<>> \/ \E x \in S : a[i] = <<x>> BY <1>3, <1>4
  <2> HIDE DEF u
  <2> QED BY <1>4, <1>5, <2>1, FlattenUnits
<1> HIDE DEF u
<1>7. PICK f : Picks(u, a, f, Occupied(a, Len(a))) BY <1>6
<1>8. /\ f \in [1..Len(u) -> Occupied(a, Len(a))] /\ Increasing(f, Len(u))
      /\ \A i \in Occupied(a, Len(a)) : \E k \in 1..Len(u) : f[k] = i
      /\ \A k \in 1..Len(u) : u[k] = a[f[k]][1]
  BY <1>7 DEF Picks, Enumerates
<1>9. Len(u) \in Nat /\ DOMAIN u = 1..Len(u) BY <1>6
<1>10. \A k \in 1..Len(u) : f[k] \in 1..Len(s) /\ f[k] \in Int /\ a[f[k]] # <<>>
  <2> TAKE k \in 1..Len(u)
  <2>1. f[k] \in Occupied(a, Len(a)) BY <1>8
  <2>2. f[k] \in 1..Len(a) /\ a[f[k]] # <<>> BY <2>1 DEF Occupied
  <2> QED BY <1>2, <1>4, <2>2
<1>11. \A k \in 1..Len(u) : u[k] # CR /\ (u[k] = s[f[k]] \/ (u[k] = LF /\ s[f[k]] = CR))
  BY <1>3, <1>8, <1>10
<1> DEFINE t == s \o r
           t2 == u \o r
           h == [k \in 1..Len(t2) |-> IF k <= Len(u) THEN f[k] ELSE k - Len(u) + Len(s)]
<1>12. /\ t \in Seq(S) /\ t2 \in Seq(S) /\ Len(t) = Len(s) + Len(r) /\ Len(t2) = Len(u) + Len(r)
       /\ \A i \in 1..Len(s) : t[i] = s[i]
       /\ \A i \in 1..Len(u) : t2[i] = u[i]
       /\ \A k \in (Len(u) + 1)..Len(t2) : t2[k] = r[k - Len(u)] /\ t[k - Len(u) + Len(s)] = r[k - Len(u)]
  BY <1>1, <1>2, <1>6, <1>9
<1> HIDE DEF t, t2
<1>13. \A k \in 1..Len(u) : k \in 1..Len(t2) /\ h[k] = f[k] /\ h[k] \in 1..Len(s)
  BY <1>2, <1>9, <1>10, <1>12
<1>14. \A k \in (Len(u) + 1)..Len(t2) : k \in 1..Len(t2) /\ h[k] = k - Len(u) + Len(s)
  BY <1>2, <1>9, <1>12
<1> HIDE DEF h
<1>15. \A k \in 1..Len(t2) : k \in 1..Len(u) \/ k \in (Len(u) + 1)..Len(t2) BY <1>9, <1>12
<1>16. \A k \in 1..Len(t2) : h[k] \in 1..Len(t)
  <2> TAKE k \in 1..Len(t2)
  <2>1. CASE k \in 1..Len(u) BY <1>2, <1>12, <1>13, <2>1
  <2>2. CASE k \in (Len(u) + 1)..Len(t2) BY <1>2, <1>9, <1>12, <1>14, <2>2
  <2> QED BY <1>15, <2>1, <2>2
<1>17. h \in [1..Len(t2) -> 1..Len(t)] BY <1>16 DEF h
<1>18. Increasing(h, Len(t2))
  <2> SUFFICES ASSUME NEW j \in 1..Len(t2), NEW k \in 1..Len(t2), j < k PROVE h[j] < h[k]
    BY DEF Increasing
  <2>1. CASE k \in 1..Len(u)
    <3>1. j \in 1..Len(u) BY <1>9, <2>1
    <3>2. f[j] < f[k] BY <1>8, <2>1, <3>1 DEF Increasing
    <3> QED BY <1>13, <2>1, <3>1, <3>2
  <2>2. CASE k \in (Len(u) + 1)..Len(t2)
    <3>1. CASE j \in 1..Len(u)
      <4>1. h[j] \in 1..Len(s) /\ h[k] = k - Len(u) + Len(s) BY <1>13, <1>14, <2>2, <3>1
      <4> QED BY <1>2, <1>9, <2>2, <4>1
    <3>2. CASE j \in (Len(u) + 1)..Len(t2)
      <4>1. h[j] = j - Len(u) + Len(s) /\ h[k] = k - Len(u) + Len(s) BY <1>14, <2>2, <3>2
      <4> QED BY <1>2, <1>9, <2>2, <3>2, <4>1
    <3> QED BY <1>15, <3>1, <3>2
  <2> QED BY <1>15, <2>1, <2>2
<1>19. \A k \in 1..Len(t2) : t2[k] = t[h[k]] \/ (t2[k] = LF /\ t[h[k]] = CR)
  <2> TAKE k \in 1..Len(t2)
  <2>1. CASE k \in 1..Len(u)
    <3>1. h[k] = f[k] /\ f[k] \in 1..Len(s) BY <1>10, <1>13, <2>1
    <3>2. t2[k] = u[k] /\ t[h[k]] = s[f[k]] BY <1>12, <2>1, <3>1
    <3> QED BY <1>11, <2>1, <3>2
  <2>2. CASE k \in (Len(u) + 1)..Len(t2) BY <1>12, <1>14, <2>2
  <2> QED BY <1>15, <2>1, <2>2
<1>20. \A i \in 1..Len(t) : Kept(t, i) => \E k \in 1..Len(t2) : h[k] = i
  <2> SUFFICES ASSUME NEW i \in 1..Len(t), Kept(t, i) PROVE \E k \in 1..Len(t2) : h[k] = i
    OBVIOUS
  <2>1. CASE i <= Len(s)
    <3>1. i \in 1..Len(s) /\ (i > 1 => i - 1 \in 1..Len(s)) BY <1>2, <2>1
    <3>2. Kept(s, i) BY <1>12, <3>1 DEF Kept
    <3>3. i \in Occupied(a, Len(a)) BY <1>3, <1>4, <3>1, <3>2 DEF Occupied
    <3>4. PICK k \in 1..Len(u) : f[k] = i BY <1>8, <3>3
    <3> QED BY <1>13, <3>4
  <2>2. CASE i > Len(s)
    <3> DEFINE k == i - Len(s) + Len(u)
    <3>1. k \in (Len(u) + 1)..Len(t2) BY <1>2, <1>9, <1>12, <2>2
    <3>2. k - Len(u) + Len(s) = i BY <1>2, <1>9
    <3> HIDE DEF k
    <3> QED BY <1>14, <3>1, <3>2
  <2> QED BY <1>2, <2>1, <2>2
<1>21. \A k \in 1..Len(t2) : ~Kept(t2, k) => ~Kept(t, h[k])
  <2> SUFFICES ASSUME NEW k \in 1..Len(t2), ~Kept(t2, k) PROVE ~Kept(t, h[k])
    OBVIOUS
  <2>1. t2[k] = LF /\ k > 1 /\ t2[k - 1] = CR /\ k - 1 \in 1..Len(t2) BY <1>9, <1>12 DEF Kept
  <2>2. k - 1 \in (Len(u) + 1)..Len(t2) BY <1>11, <1>12, <1>15, <2>1
  <2>3. k \in (Len(u) + 1)..Len(t2) BY <1>9, <1>12, <2>2
  <2>4. h[k] = k - Len(u) + Len(s) /\ h[k - 1] = k - 1 - Len(u) + Len(s) BY <1>14, <2>2, <2>3
  <2>5. t[h[k]] = LF /\ t[h[k - 1]] = CR BY <1>12, <2>1, <2>2, <2>3, <2>4
  <2>6. h[k - 1] = h[k] - 1 /\ h[k] > 1 BY <1>2, <1>9, <2>3, <2>2, <2>4
  <2> QED BY <2>5, <2>6 DEF Kept
<1>22. Thinned(t, t2, h) BY <1>17, <1>18, <1>19, <1>20, <1>21 DEF Thinned
<1>23. \E hh : Thinned(s \o r, u \o r, hh) BY <1>22 DEF t, t2
<1> QED BY <1>6, <1>11, <1>23 DEF u, S

-----------------------------------------------------------------------------
(* An event is cut off                                                     *)

\* The first end symbols of b are of one event at most.
OneEvent(b, end) == \A i \in 1..(end - 1) : ~(b[i] = LF /\ b[i + 1] = LF)

\* Of what is carried an event holds no more than the first.
LEMMA EventHolds ==
  ASSUME NEW P, Apart(P), NEW t, NEW Q, NEW pos, Carries(P, t, Q, pos),
         NEW b \in Seq(P \cup {LF, CR, Data, Comment}), NEW w, t = b \o w,
         w \in Seq(P \cup {LF, CR, Data, Comment}),
         \A i \in 1..Len(b) : b[i] # CR,
         NEW end \in 0..Len(b), OneEvent(b, end)
  PROVE  /\ Len(Q) > 1 => pos[2] > end
         /\ ExtractDataPayload(SubSeq(b, 1, end)) =
              IF Len(Q) > 0 /\ pos[1] <= end THEN <<Q[1]>> ELSE <<>>
<1> DEFINE S == P \cup {LF, CR, Data, Comment}
           n == Len(Q)
           e == SubSeq(b, 1, end)
<1>1. /\ t \in Seq(S) /\ Q \in Seq(P) /\ b \in Seq(S) /\ w \in Seq(S)
      /\ pos \in [1..n -> 1..Len(t)] /\ Increasing(pos, n)
      /\ \A i \in 1..n : t[pos[i]] = Q[i] /\ pos[i] > 1 /\ t[pos[i] - 1] = Data
      /\ \A i \in 1..Len(t) : t[i] \in P => \E k \in 1..n : pos[k] = i
      /\ \A i \in 1..Len(t) : t[i] \in {Data, Comment} => i = 1 \/ t[i - 1] \in Ends
      /\ \A i \in 1..(n - 1) : Gap(t, pos[i], pos[i + 1])
  BY DEF Carries
<1>2. n \in Nat /\ Len(t) \in Nat /\ Len(b) \in Nat /\ (\A i \in 1..n : Q[i] \in P)
      /\ (\A i \in 1..n : pos[i] \in 1..Len(t) /\ pos[i] \in Int) /\ \A i \in 1..Len(t) : t[i] \in S
  <2> HIDE DEF S
  <2>1. n \in Nat /\ Len(t) \in Nat /\ Len(b) \in Nat /\ (\A i \in 1..n : Q[i] \in P) BY <1>1
  <2>2. \A i \in 1..n : pos[i] \in 1..Len(t) /\ pos[i] \in Int BY <1>1, <2>1
  <2>3. \A i \in 1..Len(t) : t[i] \in S BY <1>1
  <2> QED BY <2>1, <2>2, <2>3
<1>3. Len(b) <= Len(t) /\ \A i \in 1..Len(b) : t[i] = b[i] /\ i \in 1..Len(t)
  <2> HIDE DEF S
  <2>1. /\ Len(t) = Len(b) + Len(w) /\ Len(w) \in Nat
        /\ \A i \in 1..(Len(b) + Len(w)) : t[i] = IF i <= Len(b) THEN b[i] ELSE w[i - Len(b)]
    BY <1>1, ConcatProperties
  <2> QED BY <1>2, <2>1
<1>4. e \in Seq(S) /\ Len(e) = end /\ DOMAIN e = 1..end
      /\ \A i \in 1..end : e[i] = b[i] /\ e[i] = t[i] /\ i \in 1..Len(t) /\ e[i] # CR /\ e[i] \in S
  <2>1. e \in Seq(S) /\ Len(e) = end /\ \A i \in 1..end : e[i] = b[i] BY <1>1, <1>2
  <2> HIDE DEF e, S
  <2>2. DOMAIN e = 1..end BY <2>1
  <2>3. \A i \in 1..end : i \in 1..Len(b) /\ i \in 1..Len(t) BY <1>2, <1>3
  <2> QED BY <1>2, <1>3, <2>1, <2>2, <2>3
<1>5. \A x \in P : x \notin {LF, CR, Data, Comment} BY DEF Apart
<1>6. \A x \in S : x \in P \/ x \in {LF, CR, Data, Comment} OBVIOUS
<1> HIDE DEF S, e
<1>7. ASSUME n > 1 PROVE pos[2] > end
  <2> SUFFICES ASSUME pos[2] <= end PROVE FALSE
    BY <1>2, <1>7
  <2>1. Gap(t, pos[1], pos[2]) /\ 1 \in 1..n /\ 2 \in 1..n
    <3>1. 1 \in 1..(n - 1) /\ 1 + 1 = 2 /\ 2 \in 1..n /\ 1 \in 1..n BY <1>2, <1>7
    <3> QED BY <1>1, <3>1
  <2>2. PICK k \in (pos[1] + 1)..(pos[2] - 1), l \in (pos[1] + 1)..(pos[2] - 1) :
          k < l /\ \A m \in k..l : t[m] \in Ends
    BY <2>1 DEF Gap
  <2>3. k \in 1..(end - 1) /\ k + 1 \in 1..end /\ k \in 1..end /\ k \in k..l /\ k + 1 \in k..l
    BY <1>2, <2>1, <2>2
  <2>4. t[k] \in Ends /\ t[k + 1] \in Ends BY <2>2, <2>3
  <2>5. b[k] = LF /\ b[k + 1] = LF BY <1>4, <2>3, <2>4 DEF Ends
  <2> QED BY <2>3, <2>5 DEF OneEvent
<1> DEFINE starts == {i \in DOMAIN e : i = 1 \/ e[i - 1] = LF}
           LineOf(i) == Max({j \in starts : j <= i})
           a == [i \in 1..end |-> IF e[i] # LF /\ e[LineOf(i)] = Data /\ i # LineOf(i)
                                    THEN <<e[i]>> ELSE <<>>]
<1>8. ExtractDataPayload(e) = FlattenSeq(a) BY <1>4 DEF ExtractDataPayload
\* What is not a payload adds nothing.
<1>9. ASSUME NEW i \in 1..end, e[i] \notin P PROVE a[i] = <<>>
  <2>1. CASE e[i] = LF BY <2>1
  <2>2. CASE e[i] # LF
    <3>1. e[i] \in {Data, Comment} BY <1>4, <1>6, <1>9, <2>2
    <3>2. i = 1 \/ t[i - 1] \in Ends BY <1>1, <1>4, <3>1
    <3>3. i = 1 \/ e[i - 1] = LF
      <4>1. i # 1 => i - 1 \in 1..end OBVIOUS
      <4> QED BY <1>4, <3>2, <4>1 DEF Ends
    <3>4. i \in starts BY <1>4, <3>3
    <3>5. LineOf(i) = i
      <4> DEFINE s == {j \in starts : j <= i}
      <4>1. s \in SUBSET Int /\ i \in s /\ \A y \in s : y <= i BY <1>4, <3>4
      <4> HIDE DEF s, starts
      <4>2. Max(s) = i BY <4>1, MaxIs
      <4> QED BY <4>2 DEF s
    <3> QED BY <3>5
  <2> QED BY <2>1, <2>2
\* A payload is on its line.
<1>10. ASSUME NEW i \in 1..end, e[i] \in P
       PROVE  n > 0 /\ i = pos[1] /\ a[i] = <<Q[1]>>
  <2>1. PICK k \in 1..n : pos[k] = i BY <1>1, <1>4, <1>10
  <2>2. k = 1
    <3> SUFFICES ASSUME k # 1 PROVE FALSE
      OBVIOUS
    <3>1. n > 1 /\ k >= 2 /\ 2 \in 1..n BY <1>2, <2>1
    <3>2. pos[2] <= pos[k]
      <4>1. CASE k = 2 BY <1>2, <3>1, <4>1
      <4>2. CASE 2 < k
        <5>1. pos[2] < pos[k] BY <1>1, <3>1, <4>2 DEF Increasing
        <5> QED BY <1>2, <3>1, <5>1
      <4> QED BY <1>2, <3>1, <4>1, <4>2
    <3> QED BY <1>2, <1>7, <2>1, <3>1, <3>2
  <2>3. n > 0 /\ i = pos[1] /\ t[i] = Q[1] /\ i > 1 /\ t[i - 1] = Data
    <3>1. 1 \in 1..n /\ pos[1] = i BY <2>1, <2>2
    <3>2. t[pos[1]] = Q[1] /\ pos[1] > 1 /\ t[pos[1] - 1] = Data BY <1>1, <3>1
    <3>3. n > 0 BY <1>2, <3>1
    <3> QED BY <3>1, <3>2, <3>3
  <2>4. i - 1 \in 1..end /\ e[i - 1] = Data /\ e[i] = Q[1] BY <1>4, <2>3
  <2>5. i - 1 \in starts
    <3>1. i - 1 = 1 \/ t[(i - 1) - 1] \in Ends BY <1>1, <1>4, <2>4
    <3>2. i - 1 = 1 \/ (i - 1) - 1 \in 1..end BY <2>4
    <3>3. i - 1 = 1 \/ e[(i - 1) - 1] = LF BY <1>4, <3>1, <3>2 DEF Ends
    <3> QED BY <1>4, <2>4, <3>3
  <2>6. LineOf(i) = i - 1
    <3> DEFINE s == {j \in starts : j <= i}
    <3>1. i \notin starts BY <2>3, <2>4, Symbols
    <3>2. s \in SUBSET Int /\ i - 1 \in s /\ \A y \in s : y <= i - 1
      <4>1. starts \in SUBSET Int BY <1>4
      <4>2. \A y \in starts : y \in Int BY <4>1
      <4> HIDE DEF starts
      <4>3. i - 1 \in s BY <2>4, <2>5
      <4>4. \A y \in s : y \in Int /\ y <= i /\ y # i BY <3>1, <4>2
      <4> HIDE DEF s
      <4>5. \A y \in s : y <= i - 1 BY <4>4
      <4> QED BY <4>3, <4>4, <4>5
    <3> HIDE DEF s, starts
    <3>3. Max(s) = i - 1 BY <3>2, MaxIs
    <3> QED BY <3>3 DEF s
  <2>7. e[i] # LF BY <1>5, <1>10
  <2> HIDE DEF LineOf, starts
  <2>8. a[i] = <<e[i]>> BY <2>4, <2>6, <2>7
  <2> QED BY <2>3, <2>4, <2>8
<1>11. a \in Seq(Seq(S)) /\ Len(a) = end
  <2>1. \A i \in 1..end : a[i] = <<>> \/ a[i] = <<e[i]>> OBVIOUS
  <2>2. \A i \in 1..end : <<e[i]>> \in Seq(S) /\ <<>> \in Seq(S) BY <1>4
  <2>3. a = [i \in 1..end |-> a[i]] OBVIOUS
  <2> HIDE DEF a
  <2>4. a \in [1..end -> Seq(S)] BY <2>1, <2>2, <2>3
  <2> QED BY <2>4
<1> HIDE DEF a
<1>12. FlattenSeq(a) = IF n > 0 /\ pos[1] <= end THEN <<Q[1]>> ELSE <<>>
  <2>1. CASE n > 0 /\ pos[1] <= end
    <3> DEFINE k == pos[1]
    <3>1. 1 \in 1..n /\ k \in 1..end /\ Q[1] \in P BY <1>2, <2>1
    <3>2. e[k] = Q[1] BY <1>1, <1>4, <3>1
    <3>3. a[k] = <<Q[1]>> BY <1>10, <3>1, <3>2
    <3>4. \A i \in 1..Len(a) : i # k => a[i] = <<>> BY <1>9, <1>10, <1>11
    <3>5. Q[1] \in S BY <1>4, <3>1, <3>2
    <3> HIDE DEF k
    <3>7. k \in 1..Len(a) BY <1>11, <3>1
    <3> DEFINE x == Q[1]
    <3>8. x \in S /\ a[k] = <<x>> BY <3>3, <3>5
    <3> HIDE DEF x
    <3>9. OnlyAt(a, k, x) BY <3>4, <3>8 DEF OnlyAt
    <3>6. FlattenSeq(a) = <<x>> BY <1>11, <3>7, <3>8, <3>9, FlattenOne
    <3> QED BY <2>1, <3>6 DEF x
  <2>2. CASE ~(n > 0 /\ pos[1] <= end)
    <3>1. \A i \in 1..Len(a) : a[i] = <<>>
      <4> TAKE i \in 1..Len(a)
      <4>1. i \in 1..end BY <1>11
      <4>2. e[i] \notin P BY <1>2, <1>10, <2>2, <4>1
      <4> QED BY <1>9, <4>1, <4>2
    <3>2. FlattenSeq(a) = <<>> BY <1>11, <3>1, FlattenNone
    <3> QED BY <2>2, <3>2
  <2> QED BY <2>1, <2>2
<1> QED BY <1>7, <1>8, <1>12 DEF n, e

\* What is left when an event has been cut off, up to an LF, still carries the rest.
LEMMA DropCarries ==
  ASSUME NEW P, Apart(P), NEW t, NEW Q, NEW pos, Carries(P, t, Q, pos),
         NEW m \in 1..Len(t), t[m] = LF, Len(Q) > 1 => pos[2] > m,
         NEW Q2, Q2 = IF Len(Q) > 0 /\ pos[1] <= m THEN Tail(Q) ELSE Q
  PROVE  \E pos2 :
           /\ Carries(P, SubSeq(t, m + 1, Len(t)), Q2, pos2)
           /\ Complete(t, Q, pos) => Complete(SubSeq(t, m + 1, Len(t)), Q2, pos2)
<1> DEFINE S == P \cup {LF, CR, Data, Comment}
           n == Len(Q)
           t2 == SubSeq(t, m + 1, Len(t))
           d == IF Len(Q) > 0 /\ pos[1] <= m THEN 1 ELSE 0
           n2 == n - d
           pos2 == [i \in 1..n2 |-> pos[i + d] - m]
<1>1. /\ t \in Seq(S) /\ Q \in Seq(P)
      /\ pos \in [1..n -> 1..Len(t)] /\ Increasing(pos, n)
      /\ \A i \in 1..n : t[pos[i]] = Q[i] /\ pos[i] > 1 /\ t[pos[i] - 1] = Data
      /\ \A i \in 1..Len(t) : t[i] \in P => \E k \in 1..n : pos[k] = i
      /\ \A i \in 1..Len(t) : t[i] \in {Data, Comment} => i = 1 \/ t[i - 1] \in Ends
      /\ \A i \in 1..(n - 1) : Gap(t, pos[i], pos[i + 1])
  BY DEF Carries
<1> HIDE DEF S
<1>2. n \in Nat /\ Len(t) \in Nat /\ m \in Nat
      /\ (\A i \in 1..n : pos[i] \in 1..Len(t) /\ pos[i] \in Int)
  <2>1. n \in Nat /\ Len(t) \in Nat /\ m \in Nat BY <1>1
  <2>2. \A i \in 1..n : pos[i] \in 1..Len(t) /\ pos[i] \in Int BY <1>1, <2>1
  <2> QED BY <2>1, <2>2
<1>3. t2 \in Seq(S) /\ Len(t2) = Len(t) - m /\ \A i \in 1..Len(t2) : t2[i] = t[i + m] /\ i + m \in 1..Len(t)
  BY <1>1, <1>2
<1>4. /\ d \in {0, 1} /\ n2 \in Nat /\ Q2 \in Seq(P) /\ Len(Q2) = n2
      /\ \A i \in 1..n2 : Q2[i] = Q[i + d] /\ i + d \in 1..n
  <2>1. CASE n > 0 /\ pos[1] <= m
    <3>1. d = 1 /\ Q2 = Tail(Q) /\ Q # <<>> BY <1>1, <1>2, <2>1
    <3> QED BY <1>1, <1>2, <2>1, <3>1
  <2>2. CASE ~(n > 0 /\ pos[1] <= m)
    <3>1. d = 0 /\ Q2 = Q BY <2>2
    <3> QED BY <1>1, <1>2, <3>1
  <2> QED BY <2>1, <2>2
<1>5. \A i \in 1..n2 : pos[i + d] > m + 1
  <2> TAKE i \in 1..n2
  <2>1. pos[i + d] > m
    <3>1. CASE n > 0 /\ pos[1] <= m
      <4>1. d = 1 /\ n > 1 /\ i + d >= 2 /\ i + d \in 1..n /\ 2 \in 1..n BY <1>2, <1>4, <3>1
      <4>2. pos[2] > m BY <4>1
      <4>3. CASE i + d = 2 BY <4>2, <4>3
      <4>4. CASE 2 < i + d
        <5>1. pos[2] < pos[i + d] BY <1>1, <4>1, <4>4 DEF Increasing
        <5> QED BY <1>2, <4>1, <4>2, <5>1
      <4> QED BY <4>1, <4>3, <4>4
    <3>2. CASE ~(n > 0 /\ pos[1] <= m)
      <4>1. d = 0 /\ i + d = i /\ i \in 1..n /\ n > 0 /\ 1 \in 1..n BY <1>2, <1>4, <3>2
      <4>2. pos[1] > m BY <1>2, <3>2, <4>1
      <4>3. CASE i = 1 BY <4>1, <4>2, <4>3
      <4>4. CASE 1 < i
        <5>1. pos[1] < pos[i] BY <1>1, <4>1, <4>4 DEF Increasing
        <5> QED BY <1>2, <4>1, <4>2, <5>1
      <4> QED BY <4>1, <4>3, <4>4
    <3> QED BY <3>1, <3>2
  <2>2. i + d \in 1..n BY <1>4
  <2>3. t[pos[i + d] - 1] = Data BY <1>1, <2>2
  <2>4. pos[i + d] - 1 # m BY <2>3, Symbols
  <2> QED BY <1>2, <2>1, <2>2, <2>4
<1> HIDE DEF n, t2, d, n2
<1>6. /\ pos2 \in [1..n2 -> 1..Len(t2)]
      /\ \A i \in 1..n2 : pos2[i] = pos[i + d] - m /\ pos2[i] \in 1..Len(t2) /\ pos2[i] \in Int
           /\ pos2[i] > 1 /\ pos2[i] + m = pos[i + d] /\ pos2[i] - 1 \in 1..Len(t2)
  <2>1. \A i \in 1..n2 : pos[i + d] - m \in 1..Len(t2) /\ pos[i + d] \in Int
    <3> TAKE i \in 1..n2
    <3>1. i + d \in 1..n /\ pos[i + d] > m + 1 BY <1>4, <1>5
    <3>2. pos[i + d] \in 1..Len(t) /\ pos[i + d] \in Int BY <1>2, <3>1
    <3> DEFINE x == pos[i + d]
    <3>3. x > m + 1 /\ x \in Int /\ x <= Len(t) /\ Len(t2) = Len(t) - m
      BY <1>2, <1>3, <3>1, <3>2
    <3> HIDE DEF x
    <3>4. x - m \in 1..Len(t2) BY <1>2, <3>3
    <3> QED BY <3>3, <3>4 DEF x
  <2>2. \A i \in 1..n2 : pos2[i] = pos[i + d] - m OBVIOUS
  <2>3. pos2 \in [1..n2 -> 1..Len(t2)] BY <2>1
  <2> HIDE DEF pos2
  <2>4. ASSUME NEW i \in 1..n2
        PROVE  /\ pos2[i] = pos[i + d] - m /\ pos2[i] \in 1..Len(t2) /\ pos2[i] \in Int
               /\ pos2[i] > 1 /\ pos2[i] + m = pos[i + d] /\ pos2[i] - 1 \in 1..Len(t2)
    <3>1. pos2[i] = pos[i + d] - m /\ pos[i + d] \in Int /\ pos[i + d] - m \in 1..Len(t2)
      BY <2>1, <2>2
    <3>2. pos[i + d] > m + 1 BY <1>5
    <3> DEFINE x == pos[i + d]
               y == pos2[i]
               l == Len(t2)
    <3>3. x \in Int /\ m \in Int /\ x > m + 1 /\ y = x - m /\ l \in Int /\ y \in 1..l
      BY <1>2, <1>3, <3>1, <3>2
    <3> HIDE DEF x, y, l
    <3>4. y > 1 /\ y \in Int /\ y + m = x /\ y - 1 \in 1..l BY <3>3
    <3> QED BY <3>3, <3>4 DEF x, y, l
  <2> QED BY <2>3, <2>4
<1> HIDE DEF pos2
<1>7. Increasing(pos2, n2)
  <2> SUFFICES ASSUME NEW j \in 1..n2, NEW k \in 1..n2, j < k PROVE pos2[j] < pos2[k]
    BY DEF Increasing
  <2>0. d \in Int BY <1>4
  <2>1. j + d \in 1..n /\ k + d \in 1..n /\ j + d < k + d 
    <3>1. \A i \in 1..n2 : i + d \in 1..n BY <1>4
    <3>2. j \in Int /\ k \in Int /\ n2 \in Int BY <1>4
    <3> QED BY <2>0, <3>1, <3>2
  <2>2. pos[j + d] < pos[k + d] BY <1>1, <2>1 DEF Increasing, n
  <2> QED BY <1>2, <1>6, <2>1, <2>2
<1>8. \A i \in 1..n2 : t2[pos2[i]] = Q2[i] /\ pos2[i] > 1 /\ t2[pos2[i] - 1] = Data
  <2> TAKE i \in 1..n2
  <2>1. t2[pos2[i]] = t[pos[i + d]] BY <1>3, <1>6
  <2>2. t2[pos2[i] - 1] = t[(pos2[i] - 1) + m] BY <1>3, <1>6
  <2>3. (pos2[i] - 1) + m = pos[i + d] - 1
    <3>1. pos2[i] + m = pos[i + d] /\ pos2[i] \in Int BY <1>6
    <3> QED BY <1>2, <3>1
  <2>4. i + d \in 1..n BY <1>4
  <2>5. t[pos[i + d]] = Q[i + d] /\ t[pos[i + d] - 1] = Data BY <1>1, <2>4 DEF n
  <2> QED BY <1>4, <1>6, <2>1, <2>2, <2>3, <2>5
<1>9. \A i \in 1..Len(t2) : t2[i] \in P => \E k \in 1..n2 : pos2[k] = i
  <2> SUFFICES ASSUME NEW i \in 1..Len(t2), t2[i] \in P PROVE \E k \in 1..n2 : pos2[k] = i
    OBVIOUS
  <2>1. t[i + m] \in P /\ i + m \in 1..Len(t) BY <1>3
  <2>2. PICK k \in 1..n : pos[k] = i + m BY <1>1, <2>1 DEF n
  <2>3. k - d \in 1..n2
    <3>1. CASE d = 0 BY <1>2, <3>1 DEF n2
    <3>2. CASE d = 1
      <4>1. n > 0 /\ pos[1] <= m BY <3>2 DEF d, n
      <4>2. k # 1 BY <1>2, <2>2, <4>1
      <4> QED BY <1>2, <3>2, <4>2 DEF n2
    <3> QED BY <1>4, <3>1, <3>2
  <2>4. (k - d) + d = k /\ pos2[k - d] = pos[(k - d) + d] - m
    <3>1. d \in Int /\ k \in Int BY <1>2, <1>4
    <3>2. pos2[k - d] = pos[(k - d) + d] - m BY <1>6, <2>3
    <3> QED BY <3>1, <3>2
  <2>5. pos2[k - d] = i BY <1>2, <2>2, <2>4
  <2> QED BY <2>3, <2>5
<1>10. \A i \in 1..Len(t2) : t2[i] \in {Data, Comment} => i = 1 \/ t2[i - 1] \in Ends
  <2> SUFFICES ASSUME NEW i \in 1..Len(t2), t2[i] \in {Data, Comment}, i # 1
    PROVE t2[i - 1] \in Ends
    OBVIOUS
  <2>1. i - 1 \in 1..Len(t2) BY <1>2, <1>3
  <2>2. t2[i - 1] = t[(i - 1) + m] /\ t2[i] = t[i + m] /\ i + m \in 1..Len(t) BY <1>3, <2>1
  <2>3. i + m # 1 /\ (i - 1) + m = (i + m) - 1 BY <1>2
  <2> QED BY <1>1, <2>2, <2>3
<1>11. \A i \in 1..Len(t2) : Kept(t, i + m) => Kept(t2, i)
  <2> SUFFICES ASSUME NEW i \in 1..Len(t2), ~Kept(t2, i) PROVE ~Kept(t, i + m)
    OBVIOUS
  <2>1. t2[i] = LF /\ i > 1 /\ t2[i - 1] = CR /\ i - 1 \in 1..Len(t2) BY DEF Kept
  <2>2. t[i + m] = LF /\ t[(i - 1) + m] = CR BY <1>3, <2>1
  <2>3. (i - 1) + m = (i + m) - 1 /\ i + m > 1 BY <1>2
  <2> QED BY <2>2, <2>3 DEF Kept
<1>12. ASSUME NEW i \in Int, i > m, NEW j \in Int, j <= Len(t) + 1, Gap(t, i, j)
       PROVE  Gap(t2, i - m, j - m)
  <2>1. PICK k \in (i + 1)..(j - 1), l \in (i + 1)..(j - 1) :
          k < l /\ Kept(t, k) /\ Kept(t, l) /\ \A q \in k..l : t[q] \in Ends
    BY <1>12 DEF Gap
  <2> DEFINE k2 == k - m
             l2 == l - m
  <2>2. /\ k2 \in 1..Len(t2) /\ l2 \in 1..Len(t2) /\ k2 + m = k /\ l2 + m = l /\ k2 < l2
        /\ k2 \in (i - m + 1)..(j - m - 1) /\ l2 \in (i - m + 1)..(j - m - 1)
    <3>1. k \in Int /\ l \in Int /\ k > m /\ l > m /\ k <= Len(t) /\ l <= Len(t)
      BY <1>2, <1>12, <2>1
    <3>2. Len(t2) = Len(t) - m /\ m \in Int /\ i \in Int /\ j \in Int /\ Len(t) \in Int
      BY <1>2, <1>3, <1>12
    <3> QED BY <2>1, <3>1, <3>2
  <2>3. \A q \in k2..l2 : q \in 1..Len(t2) /\ q + m \in k..l BY <1>2, <1>3, <2>1, <2>2
  <2> HIDE DEF k2, l2
  <2>4. Kept(t2, k2) /\ Kept(t2, l2) BY <1>11, <2>1, <2>2
  <2>5. \A q \in k2..l2 : t2[q] \in Ends BY <1>3, <2>1, <2>3
  <2> QED BY <2>2, <2>4, <2>5 DEF Gap
<1>13. \A i \in 1..(n2 - 1) : Gap(t2, pos2[i], pos2[i + 1])
  <2> TAKE i \in 1..(n2 - 1)
  <2>1. i \in 1..n2 /\ i + 1 \in 1..n2 /\ i + d \in 1..(n - 1) /\ (i + 1) + d = (i + d) + 1
    BY <1>2, <1>4 DEF n2
  <2>2. Gap(t, pos[i + d], pos[(i + d) + 1]) BY <1>1, <2>1 DEF n
  <2> DEFINE a == pos[i + d]
             b == pos[(i + d) + 1]
  <2>3. a \in Int /\ b \in Int /\ a > m /\ b <= Len(t) + 1
    <3>1. i + d \in 1..n /\ (i + d) + 1 \in 1..n BY <1>2, <2>1
    <3>2. a \in 1..Len(t) /\ b \in 1..Len(t) BY <1>2, <3>1
    <3>3. a > m + 1 BY <1>5, <2>1
    <3> QED BY <1>2, <3>2, <3>3
  <2>4. pos2[i] = a - m /\ pos2[i + 1] = b - m BY <1>6, <2>1
  <2> HIDE DEF a, b
  <2>5. Gap(t2, a - m, b - m) BY <1>12, <2>2, <2>3 DEF a, b
  <2> QED BY <2>4, <2>5
<1>14. Carries(P, t2, Q2, pos2)
  BY <1>3, <1>4, <1>6, <1>7, <1>8, <1>9, <1>10, <1>13 DEF Carries, S
<1>15. ASSUME Complete(t, Q, pos) PROVE Complete(t2, Q2, pos2)
  <2>1. ASSUME t2 # <<>> PROVE t2[Len(t2)] \in Ends
    <3>1. Len(t2) \in 1..Len(t2) /\ Len(t2) + m = Len(t) /\ t # <<>> BY <1>1, <1>2, <1>3, <2>1
    <3> QED BY <1>3, <1>15, <3>1 DEF Complete
  <2>2. ASSUME Q2 # <<>> PROVE Gap(t2, pos2[Len(Q2)], Len(t2) + 1)
    <3>1. n2 \in 1..n2 /\ n2 + d = n /\ n > 0 /\ Q # <<>> BY <1>1, <1>2, <1>4, <2>2 DEF n2, n
    <3>2. Gap(t, pos[n], Len(t) + 1) BY <1>15, <3>1 DEF Complete, n
    <3> DEFINE a == pos[n]
               b == Len(t) + 1
    <3>3. a \in Int /\ b \in Int /\ a > m /\ b <= Len(t) + 1
      <4>1. a > m + 1 BY <1>5, <3>1
      <4>2. n \in 1..n BY <1>2, <3>1
      <4> QED BY <1>2, <4>1, <4>2
    <3>4. pos2[Len(Q2)] = a - m /\ Len(t2) + 1 = b - m
      <4>1. Len(Q2) = n2 /\ pos2[n2] = pos[n2 + d] - m BY <1>4, <1>6, <3>1
      <4>2. Len(t2) + 1 = b - m BY <1>2, <1>3
      <4> QED BY <3>1, <4>1, <4>2
    <3> HIDE DEF a, b
    <3>5. Gap(t2, a - m, b - m) BY <1>12, <3>2, <3>3 DEF a, b
    <3> QED BY <3>4, <3>5
  <2> QED BY <2>1, <2>2 DEF Complete
<1> QED BY <1>14, <1>15 DEF t2

-----------------------------------------------------------------------------
(* More is sent                                                            *)

\* Where a text only grows, a gap stays.
LEMMA GapStays ==
  ASSUME NEW t, NEW t2, NEW n \in Nat, \A i \in 1..n : t2[i] = t[i],
         NEW i \in Nat, NEW j \in Int, j <= n + 1, Gap(t, i, j), NEW j2 \in Int, j <= j2
  PROVE  Gap(t2, i, j2)
<1>1. PICK k \in (i + 1)..(j - 1), l \in (i + 1)..(j - 1) :
        k < l /\ Kept(t, k) /\ Kept(t, l) /\ \A m \in k..l : t[m] \in Ends
  BY DEF Gap
<1>2. k \in (i + 1)..(j2 - 1) /\ l \in (i + 1)..(j2 - 1) OBVIOUS
<1>3. \A m \in k..l : m \in 1..n OBVIOUS
<1>4. \A m \in k..l : t2[m] \in Ends BY <1>1, <1>3
<1>5. ASSUME NEW m \in 1..n, Kept(t, m) PROVE Kept(t2, m)
  <2>1. m > 1 => m - 1 \in 1..n OBVIOUS
  <2> QED BY <1>5, <2>1 DEF Kept
<1>6. k \in 1..n /\ l \in 1..n OBVIOUS
<1> QED BY <1>1, <1>2, <1>4, <1>5, <1>6 DEF Gap

\* One more data line.
LEMMA LineCarries ==
  ASSUME NEW P, Apart(P), NEW t, NEW Q, NEW pos, Carries(P, t, Q, pos), Complete(t, Q, pos),
         NEW x \in P
  PROVE  \E pos2 : /\ Carries(P, t \o <<Data, x>>, Append(Q, x), pos2)
                   /\ pos2[Len(Q) + 1] = Len(t) + 2
<1> DEFINE S == P \cup {LF, CR, Data, Comment}
           n == Len(Q)
           N == Len(t)
           t2 == t \o <<Data, x>>
           Q2 == Append(Q, x)
           pos2 == [i \in 1..(n + 1) |-> IF i <= n THEN pos[i] ELSE N + 2]
<1>1. /\ t \in Seq(S) /\ Q \in Seq(P)
      /\ pos \in [1..n -> 1..N] /\ Increasing(pos, n)
      /\ \A i \in 1..n : t[pos[i]] = Q[i] /\ pos[i] > 1 /\ t[pos[i] - 1] = Data
      /\ \A i \in 1..N : t[i] \in P => \E k \in 1..n : pos[k] = i
      /\ \A i \in 1..N : t[i] \in {Data, Comment} => i = 1 \/ t[i - 1] \in Ends
      /\ \A i \in 1..(n - 1) : Gap(t, pos[i], pos[i + 1])
  BY DEF Carries
<1>2. x \in S /\ Data \in S OBVIOUS
<1>3. n \in Nat /\ N \in Nat /\ (\A i \in 1..n : pos[i] \in 1..N /\ pos[i] \in Int)
  <2> HIDE DEF S
  <2>1. n \in Nat /\ N \in Nat BY <1>1
  <2>2. \A i \in 1..n : pos[i] \in 1..N /\ pos[i] \in Int BY <1>1, <2>1
  <2> QED BY <2>1, <2>2
<1> HIDE DEF S
<1>4. /\ t2 \in Seq(S) /\ Len(t2) = N + 2 /\ t2[N + 1] = Data /\ t2[N + 2] = x
      /\ \A i \in 1..N : t2[i] = t[i]
  BY <1>1, <1>2
<1>5. Q2 \in Seq(P) /\ Len(Q2) = n + 1 /\ Q2[n + 1] = x /\ \A i \in 1..n : Q2[i] = Q[i]
  BY <1>1
<1>6. pos2[n + 1] = N + 2 /\ \A i \in 1..n : pos2[i] = pos[i] /\ i \in 1..(n + 1) BY <1>3
<1>7. pos2 \in [1..(n + 1) -> 1..(N + 2)]
  <2>1. \A i \in 1..(n + 1) : (IF i <= n THEN pos[i] ELSE N + 2) \in 1..(N + 2)
    <3> TAKE i \in 1..(n + 1)
    <3>1. CASE i <= n
      <4>1. pos[i] \in 1..N BY <1>3, <3>1
      <4> QED BY <1>3, <3>1, <4>1
    <3>2. CASE ~(i <= n) BY <1>3, <3>2
    <3> QED BY <3>1, <3>2
  <2> QED BY <2>1
<1> HIDE DEF n, N, t2, Q2, pos2
<1>8. \A i \in 1..(n + 1) : i \in 1..n \/ i = n + 1 BY <1>3
<1>9. Increasing(pos2, n + 1)
  <2> SUFFICES ASSUME NEW j \in 1..(n + 1), NEW k \in 1..(n + 1), j < k PROVE pos2[j] < pos2[k]
    BY DEF Increasing
  <2>1. j \in 1..n /\ pos2[j] = pos[j] /\ pos[j] \in 1..N BY <1>3, <1>6
  <2>2. CASE k \in 1..n
    <3>1. pos[j] < pos[k] BY <1>1, <2>1, <2>2 DEF Increasing
    <3> QED BY <1>6, <2>1, <2>2, <3>1
  <2>3. CASE k = n + 1 BY <1>3, <1>6, <2>1, <2>3
  <2> QED BY <1>8, <2>2, <2>3
<1>10. \A i \in 1..(n + 1) : t2[pos2[i]] = Q2[i] /\ pos2[i] > 1 /\ t2[pos2[i] - 1] = Data
  <2> TAKE i \in 1..(n + 1)
  <2>1. CASE i \in 1..n
    <3>1. pos2[i] = pos[i] /\ pos[i] \in 1..N /\ pos[i] > 1 /\ t[pos[i]] = Q[i] /\ t[pos[i] - 1] = Data
      BY <1>1, <1>3, <1>6, <2>1
    <3>2. pos[i] - 1 \in 1..N BY <1>3, <3>1
    <3> QED BY <1>4, <1>5, <2>1, <3>1, <3>2
  <2>2. CASE i = n + 1
    <3>1. pos2[i] = N + 2 /\ pos2[i] - 1 = N + 1 /\ N + 2 > 1 BY <1>3, <1>6, <2>2
    <3> QED BY <1>4, <1>5, <2>2, <3>1
  <2> QED BY <1>8, <2>1, <2>2
<1>11. \A x1 \in P : x1 \notin {LF, CR, Data, Comment} BY DEF Apart
<1>12. \A i \in 1..(N + 2) : i \in 1..N \/ i = N + 1 \/ i = N + 2 BY <1>3
<1>13. \A i \in 1..(N + 2) : t2[i] \in P => \E k \in 1..(n + 1) : pos2[k] = i
  <2> SUFFICES ASSUME NEW i \in 1..(N + 2), t2[i] \in P PROVE \E k \in 1..(n + 1) : pos2[k] = i
    OBVIOUS
  <2>1. CASE i \in 1..N
    <3>1. PICK k \in 1..n : pos[k] = i BY <1>1, <1>4, <2>1
    <3> QED BY <1>6, <3>1
  <2>2. CASE i = N + 1 BY <1>4, <1>11, <2>2
  <2>3. CASE i = N + 2
    <3>1. n + 1 \in 1..(n + 1) BY <1>3
    <3> QED BY <1>6, <2>3, <3>1
  <2> QED BY <1>12, <2>1, <2>2, <2>3
<1>14. \A i \in 1..(N + 2) : t2[i] \in {Data, Comment} => i = 1 \/ t2[i - 1] \in Ends
  <2> SUFFICES ASSUME NEW i \in 1..(N + 2), t2[i] \in {Data, Comment}, i # 1
    PROVE t2[i - 1] \in Ends
    OBVIOUS
  <2>1. CASE i \in 1..N
    <3>1. i - 1 \in 1..N BY <1>3, <2>1
    <3> QED BY <1>1, <1>4, <2>1, <3>1
  <2>2. CASE i = N + 1
    <3>1. N \in 1..N /\ i - 1 = N /\ t # <<>> BY <1>1, <1>3, <2>2 DEF N
    <3>2. t[N] \in Ends BY <3>1 DEF Complete, N
    <3> QED BY <1>4, <3>1, <3>2
  <2>3. CASE i = N + 2 BY <1>4, <1>11, <2>3
  <2> QED BY <1>12, <2>1, <2>2, <2>3
<1>15. \A i \in 1..((n + 1) - 1) : Gap(t2, pos2[i], pos2[i + 1])
  <2> TAKE i \in 1..((n + 1) - 1)
  <2>1. i \in 1..n BY <1>3
  <2>2. pos2[i] = pos[i] /\ pos[i] \in Nat BY <1>3, <1>6, <2>1
  <2>3. CASE i < n
    <3>1. i \in 1..(n - 1) /\ i + 1 \in 1..n BY <1>3, <2>1, <2>3
    <3>2. Gap(t, pos[i], pos[i + 1]) BY <1>1, <3>1
    <3>3. pos2[i + 1] = pos[i + 1] /\ pos[i + 1] \in Int /\ pos[i + 1] <= N + 1 BY <1>3, <1>6, <3>1
    <3> DEFINE a == pos[i]
               b == pos[i + 1]
    <3>4. a \in Nat /\ b \in Int /\ b <= N + 1 /\ b <= b /\ Gap(t, a, b) BY <2>2, <3>2, <3>3
    <3> HIDE DEF a, b
    <3>5. Gap(t2, a, b) BY <1>3, <1>4, <3>4, GapStays
    <3> QED BY <2>2, <3>3, <3>5 DEF a, b
  <2>4. CASE i = n
    <3>1. Q # <<>> BY <1>1, <1>3, <2>1 DEF n
    <3>2. Gap(t, pos[i], N + 1) BY <2>4, <3>1 DEF Complete, n, N
    <3>3. pos2[i + 1] = N + 2 BY <1>6, <2>4
    <3> DEFINE a == pos[i]
               b == N + 1
               c == N + 2
    <3>4. a \in Nat /\ b \in Int /\ b <= N + 1 /\ b <= c /\ c \in Int /\ Gap(t, a, b)
      BY <1>3, <2>2, <3>2
    <3> HIDE DEF a, b, c
    <3>5. Gap(t2, a, c) BY <1>3, <1>4, <3>4, GapStays
    <3> QED BY <2>2, <3>3, <3>5 DEF a, c
  <2> QED BY <1>3, <2>1, <2>3, <2>4
<1>16. Carries(P, t2, Q2, pos2)
  BY <1>4, <1>5, <1>7, <1>9, <1>10, <1>13, <1>14, <1>15 DEF Carries, S
<1> QED BY <1>6, <1>16 DEF t2, Q2, n, N

\* Ends of lines carry nothing; two of a kind behind the last complete it.
LEMMA EndsCarry ==
  ASSUME NEW P, Apart(P), NEW t, NEW Q, NEW pos, Carries(P, t, Q, pos), NEW e \in Seq(Ends)
  PROVE  Carries(P, t \o e, Q, pos)
<1> DEFINE S == P \cup {LF, CR, Data, Comment}
           n == Len(Q)
           N == Len(t)
           t2 == t \o e
<1>1. /\ t \in Seq(S) /\ Q \in Seq(P)
      /\ pos \in [1..n -> 1..N] /\ Increasing(pos, n)
      /\ \A i \in 1..n : t[pos[i]] = Q[i] /\ pos[i] > 1 /\ t[pos[i] - 1] = Data
      /\ \A i \in 1..N : t[i] \in P => \E k \in 1..n : pos[k] = i
      /\ \A i \in 1..N : t[i] \in {Data, Comment} => i = 1 \/ t[i - 1] \in Ends
      /\ \A i \in 1..(n - 1) : Gap(t, pos[i], pos[i + 1])
  BY DEF Carries
<1>2. e \in Seq(S)
  <2>1. Ends \subseteq S BY DEF Ends
  <2> HIDE DEF S
  <2> QED BY <2>1
<1>3. n \in Nat /\ N \in Nat /\ Len(e) \in Nat /\ (\A i \in 1..n : pos[i] \in 1..N /\ pos[i] \in Int)
  <2> HIDE DEF S
  <2>1. n \in Nat /\ N \in Nat /\ Len(e) \in Nat BY <1>1
  <2>2. \A i \in 1..n : pos[i] \in 1..N /\ pos[i] \in Int BY <1>1, <2>1
  <2> QED BY <2>1, <2>2
<1> HIDE DEF S
<1>4. /\ t2 \in Seq(S) /\ Len(t2) = N + Len(e)
      /\ \A i \in 1..N : t2[i] = t[i] /\ i \in 1..Len(t2)
      /\ \A i \in (N + 1)..Len(t2) : t2[i] = e[i - N] /\ i - N \in 1..Len(e)
  BY <1>1, <1>2
<1>5. \A i \in (N + 1)..Len(t2) : t2[i] \in Ends BY <1>4
<1> HIDE DEF n, N, t2
<1>6. \A x \in P : x \notin {LF, CR, Data, Comment} BY DEF Apart
<1>7. \A i \in 1..Len(t2) : i \in 1..N \/ i \in (N + 1)..Len(t2) BY <1>3, <1>4
<1>8. pos \in [1..n -> 1..Len(t2)]
  <2>1. \A i \in 1..n : pos[i] \in 1..Len(t2) BY <1>3, <1>4
  <2> QED BY <1>1, <2>1
<1>9. \A i \in 1..n : t2[pos[i]] = Q[i] /\ pos[i] > 1 /\ t2[pos[i] - 1] = Data
  <2> TAKE i \in 1..n
  <2>1. pos[i] \in 1..N /\ pos[i] > 1 /\ t[pos[i]] = Q[i] /\ t[pos[i] - 1] = Data BY <1>1, <1>3
  <2>2. pos[i] - 1 \in 1..N BY <1>3, <2>1
  <2> QED BY <1>4, <2>1, <2>2
<1>10. \A i \in 1..Len(t2) : t2[i] \in P => \E k \in 1..n : pos[k] = i
  <2> TAKE i \in 1..Len(t2)
  <2>1. CASE i \in 1..N BY <1>1, <1>4, <2>1
  <2>2. CASE i \in (N + 1)..Len(t2) BY <1>5, <1>6, <2>2 DEF Ends
  <2> QED BY <1>7, <2>1, <2>2
<1>11. \A i \in 1..Len(t2) : t2[i] \in {Data, Comment} => i = 1 \/ t2[i - 1] \in Ends
  <2> TAKE i \in 1..Len(t2)
  <2>1. CASE i \in 1..N
    <3>1. i # 1 => i - 1 \in 1..N BY <1>3, <2>1
    <3> QED BY <1>1, <1>4, <2>1, <3>1
  <2>2. CASE i \in (N + 1)..Len(t2) BY <1>5, <2>2, Symbols DEF Ends
  <2> QED BY <1>7, <2>1, <2>2
<1>12. \A i \in 1..(n - 1) : Gap(t2, pos[i], pos[i + 1])
  <2> TAKE i \in 1..(n - 1)
  <2>1. i \in 1..n /\ i + 1 \in 1..n BY <1>3
  <2> DEFINE a == pos[i]
             b == pos[i + 1]
  <2>2. a \in Nat /\ b \in Int /\ b <= N + 1 /\ b <= b /\ Gap(t, a, b)
    <3>1. Gap(t, a, b) BY <1>1
    <3>2. a \in 1..N /\ b \in 1..N BY <1>3, <2>1
    <3> HIDE DEF a, b
    <3> QED BY <1>3, <3>1, <3>2
  <2> HIDE DEF a, b
  <2>3. \A j \in 1..N : t2[j] = t[j] BY <1>4
  <2>4. Gap(t2, a, b) BY <1>3, <2>2, <2>3, GapStays
  <2> QED BY <2>4 DEF a, b
<1>13. Carries(P, t2, Q, pos)
  BY <1>1, <1>4, <1>8, <1>9, <1>10, <1>11, <1>12 DEF Carries, S, n
<1> QED BY <1>13 DEF t2

\* The ends of lines the server-sent events know.
LineEnd(l) == l \in {<<LF>>, <<CR>>, <<CR, LF>>}

\* They are one or two symbols, and two only as CR LF.
LEMMA LineEndShape ==
  ASSUME NEW l, LineEnd(l)
  PROVE  /\ l \in Seq(Ends) /\ Len(l) \in {1, 2}
         /\ \A i \in 1..Len(l) : l[i] \in Ends
         /\ Len(l) = 2 => l[1] = CR
<1>1. CASE l = <<LF>> BY <1>1 DEF Ends
<1>2. CASE l = <<CR>> BY <1>2 DEF Ends
<1>3. CASE l = <<CR, LF>>
  <2>1. l \in Seq(Ends) /\ Len(l) = 2 /\ l[1] = CR /\ l[2] = LF BY <1>3 DEF Ends
  <2> QED BY <2>1 DEF Ends
<1> QED BY <1>1, <1>2, <1>3 DEF LineEnd

\* An empty line behind the last data completes it.
LEMMA EmptyLine ==
  ASSUME NEW S, NEW t \in Seq(S), NEW N \in Nat, N + 2 = Len(t), t[N + 2] # CR, NEW l, LineEnd(l),
         LF \in S, CR \in S, NEW Q, NEW pos, Q # <<>> => pos[Len(Q)] = N + 2
  PROVE  l \o l \in Seq(Ends) /\ Complete(t \o (l \o l), Q, pos)
<1> DEFINE e == l \o l
           t2 == t \o e
           L == Len(l)
<1>1. /\ l \in Seq(Ends) /\ L \in {1, 2} /\ (\A i \in 1..L : l[i] \in Ends)
      /\ L = 2 => l[1] = CR
  BY LineEndShape
<1>2. /\ e \in Seq(Ends) /\ Len(e) = L + L
      /\ \A i \in 1..L : e[i] = l[i] /\ e[L + i] = l[i]
  BY <1>1
<1>3. Ends \subseteq S BY DEF Ends
<1>4. Len(e) \in {2, 4} /\ \A i \in 1..Len(e) : e[i] \in Ends
  <2> DEFINE n == Len(e)
  <2>0. L \in {1, 2} /\ n = L + L BY <1>1, <1>2
  <2> HIDE DEF e, L, n
  <2>4. L = 1 => n = 2 BY <2>0
  <2>5. L = 2 => n = 4 BY <2>0
  <2>1. Len(e) \in {2, 4} BY <2>0, <2>4, <2>5 DEF n
  <2>2. \A i \in 1..Len(e) : e[i] \in Ends BY <1>2
  <2> QED BY <2>1, <2>2
<1>5. e \in Seq(S) BY <1>2, <1>3
<1> HIDE DEF e, L
<1>6. /\ Len(t2) = N + 2 + Len(e) /\ \A i \in 1..(N + 2) : t2[i] = t[i]
      /\ \A i \in 1..Len(e) : t2[N + 2 + i] = e[i]
  BY <1>4, <1>5
<1> HIDE DEF t2
<1>7. t2[Len(t2)] \in Ends
  <2> DEFINE k == Len(e)
  <2>1. k \in {2, 4} BY <1>4
  <2>4. Len(t2) = N + 2 + k BY <1>6
  <2>5. k \in 1..k BY <2>1
  <2>2. k \in 1..Len(e) /\ Len(t2) = N + 2 + k BY <2>4, <2>5
  <2> HIDE DEF k
  <2>3. t2[N + 2 + k] = e[k] /\ e[k] \in Ends BY <1>4, <1>6, <2>2
  <2> QED BY <2>2, <2>3
<1>8. Kept(t2, N + 3)
  <2>1. (N + 3) - 1 = N + 2 /\ t2[N + 2] # CR BY <1>6
  <2> QED BY <2>1 DEF Kept
<1>9. \A m \in (N + 3)..Len(t2) : t2[m] \in Ends
  <2> TAKE m \in (N + 3)..Len(t2)
  <2>1. m - (N + 2) \in 1..Len(e) /\ N + 2 + (m - (N + 2)) = m BY <1>4, <1>6
  <2> QED BY <1>4, <1>6, <2>1
<1>10. \E k \in (N + 4)..Len(t2) : Kept(t2, k)
  <2>1. CASE L = 1 /\ l[1] = LF
    <3>1. Len(e) = 2 /\ e[1] = LF BY <1>2, <2>1
    <3>2. t2[N + 3] = LF
      <4>1. 1 \in 1..Len(e) /\ N + 2 + 1 = N + 3 BY <3>1
      <4> QED BY <1>6, <3>1, <4>1
    <3>3. (N + 4) - 1 = N + 3 /\ N + 4 \in (N + 4)..Len(t2) BY <1>6, <3>1
    <3>4. Kept(t2, N + 4) BY <3>2, <3>3, Symbols DEF Kept
    <3> QED BY <3>3, <3>4
  <2>2. CASE L = 1 /\ l[1] = CR
    <3>1. Len(e) = 2 /\ e[2] = CR
      <4>1. 1 \in 1..L /\ L + 1 = 2 BY <2>2
      <4> QED BY <1>2, <2>2, <4>1
    <3>2. t2[N + 4] = CR
      <4>1. 2 \in 1..Len(e) /\ N + 2 + 2 = N + 4 BY <3>1
      <4> QED BY <1>6, <3>1, <4>1
    <3>3. N + 4 \in (N + 4)..Len(t2) BY <1>6, <3>1
    <3>4. Kept(t2, N + 4) BY <3>2, Symbols DEF Kept
    <3> QED BY <3>3, <3>4
  <2>3. CASE L = 2
    <3>1. Len(e) = 4 /\ e[3] = CR
      <4>1. 1 \in 1..L /\ L + 1 = 3 BY <2>3
      <4> QED BY <1>1, <1>2, <2>3, <4>1
    <3>2. t2[N + 5] = CR
      <4>1. 3 \in 1..Len(e) /\ N + 2 + 3 = N + 5 BY <3>1
      <4> QED BY <1>6, <3>1, <4>1
    <3>3. N + 5 \in (N + 4)..Len(t2) BY <1>6, <3>1
    <3>4. Kept(t2, N + 5) BY <3>2, Symbols DEF Kept
    <3> QED BY <3>3, <3>4
  <2>4. L = 1 => l[1] = LF \/ l[1] = CR BY <1>1 DEF Ends
  <2> QED BY <1>1, <2>1, <2>2, <2>3, <2>4
<1>11. PICK k \in (N + 4)..Len(t2) : Kept(t2, k) BY <1>10
<1>12. Gap(t2, N + 2, Len(t2) + 1)
  <2>1. N + 3 \in (N + 2 + 1)..(Len(t2) + 1 - 1) /\ k \in (N + 2 + 1)..(Len(t2) + 1 - 1) /\ N + 3 < k
    BY <1>4, <1>6
  <2>2. \A m \in (N + 3)..k : t2[m] \in Ends BY <1>9, <1>4, <1>6
  <2> QED BY <1>8, <1>11, <2>1, <2>2 DEF Gap
<1> QED BY <1>2, <1>7, <1>12 DEF Complete, e, t2

\* An event that is sent.
LEMMA EventCarries ==
  ASSUME NEW P, Apart(P), NEW t, NEW Q, NEW pos, Carries(P, t, Q, pos), Complete(t, Q, pos),
         NEW x \in P, NEW l, LineEnd(l)
  PROVE  \E pos2 : /\ Carries(P, t \o (<<Data, x>> \o l \o l), Append(Q, x), pos2)
                   /\ Complete(t \o (<<Data, x>> \o l \o l), Append(Q, x), pos2)
<1> DEFINE S == P \cup {LF, CR, Data, Comment}
           t1 == t \o <<Data, x>>
           t2 == t1 \o (l \o l)
           Q2 == Append(Q, x)
<1>1. PICK pos2 : Carries(P, t1, Q2, pos2) /\ pos2[Len(Q) + 1] = Len(t) + 2 BY LineCarries
<1>2. t \in Seq(S) /\ Q \in Seq(P) /\ <<Data, x>> \in Seq(S) BY DEF Carries
<1>3. LF \in S /\ CR \in S OBVIOUS
<1>4. x # CR BY DEF Apart
<1> HIDE DEF S
<1>5. Len(t1) = Len(t) + 2 /\ t1[Len(t) + 2] = x /\ t1 \in Seq(S) /\ Len(t) \in Nat BY <1>2
<1>6. Len(Q2) = Len(Q) + 1 /\ Q2 # <<>> BY <1>2
<1> HIDE DEF Q2, t1
<1>7. pos2[Len(Q2)] = Len(t) + 2 BY <1>1, <1>6
<1>8. l \o l \in Seq(Ends) /\ Complete(t1 \o (l \o l), Q2, pos2)
  BY <1>3, <1>4, <1>5, <1>7, EmptyLine
<1>9. Carries(P, t1 \o (l \o l), Q2, pos2) BY <1>1, <1>8, EndsCarry
<1>10. l \in Seq(S)
  <2>1. l \in Seq(Ends) BY LineEndShape
  <2>2. Ends \subseteq S BY <1>3 DEF Ends
  <2> QED BY <2>1, <2>2
<1>11. t1 \o (l \o l) = t \o (<<Data, x>> \o l \o l)
  <2>1. AssociativeOn(S) BY Associative
  <2> DEFINE d == <<Data, x>>
  <2>2. t \in Seq(S) /\ d \in Seq(S) /\ l \in Seq(S) /\ l \o l \in Seq(S) BY <1>2, <1>10
  <2> HIDE DEF d
  <2>3. (t \o d) \o (l \o l) = t \o (d \o (l \o l)) BY <2>1, <2>2 DEF AssociativeOn
  <2>4. d \o (l \o l) = (d \o l) \o l BY <2>1, <2>2 DEF AssociativeOn
  <2> QED BY <2>3, <2>4 DEF d, t1
<1> QED BY <1>8, <1>9, <1>11 DEF Q2

\* A comment line at the beginning carries nothing.
LEMMA CommentCarries ==
  ASSUME NEW P, Apart(P), NEW l, LineEnd(l)
  PROVE  \E pos : /\ Carries(P, <<Comment>> \o l, <<>>, pos)
                  /\ Complete(<<Comment>> \o l, <<>>, pos)
<1> DEFINE t == <<Comment>> \o l
           pos == [i \in 1..0 |-> 1]
           S == P \cup {LF, CR, Data, Comment}
<1>1. /\ l \in Seq(Ends) /\ Len(l) \in {1, 2} /\ \A i \in 1..Len(l) : l[i] \in Ends
  BY LineEndShape
<1>2. /\ t \in Seq(S) /\ Len(t) \in {2, 3}
      /\ \A i \in 1..Len(t) : t[i] \in {Comment, LF, CR}
      /\ \A i \in 2..Len(t) : t[i] \in Ends
  <2>1. Ends \subseteq S /\ Comment \in S BY DEF Ends
  <2> HIDE DEF S
  <2>2. <<Comment>> \in Seq(S) /\ l \in Seq(S) BY <1>1, <2>1
  <2>3. /\ t \in Seq(S) /\ Len(t) = 1 + Len(l) /\ t[1] = Comment
        /\ \A i \in 2..Len(t) : t[i] = l[i - 1] /\ i - 1 \in 1..Len(l)
    BY <1>1, <2>2
  <2> HIDE DEF t
  <2>4. \A i \in 2..Len(t) : t[i] \in Ends BY <1>1, <2>3
  <2>5. \A i \in 1..Len(t) : i = 1 \/ i \in 2..Len(t) BY <1>1, <2>3
  <2>6. \A i \in 1..Len(t) : t[i] \in {Comment, LF, CR} BY <2>3, <2>4, <2>5 DEF Ends
  <2> QED BY <1>1, <2>3, <2>4, <2>6
<1> HIDE DEF t
<1>3. \A i \in 1..Len(t) : t[i] \notin P BY <1>2 DEF Apart
<1>4. \A i \in 1..Len(t) : t[i] \in {Data, Comment} => i = 1
  <2> TAKE i \in 1..Len(t)
  <2>1. i = 1 \/ i \in 2..Len(t) BY <1>2
  <2> QED BY <1>2, <2>1, Symbols DEF Ends
<1>5. <<>> \in Seq(P) /\ Len(<<>>) = 0 OBVIOUS
<1>6. pos \in [1..0 -> 1..Len(t)] /\ Increasing(pos, 0) BY DEF Increasing
<1>7. Carries(P, t, <<>>, pos) BY <1>2, <1>3, <1>4, <1>5, <1>6 DEF Carries
<1>8. t[Len(t)] \in Ends
  <2>1. Len(t) \in 2..Len(t) BY <1>2
  <2> QED BY <1>2, <2>1
<1>9. Complete(t, <<>>, pos) BY <1>8 DEF Complete
<1> QED BY <1>7, <1>9 DEF t

\* The empty text carries nothing, completely.
LEMMA NothingCarries ==
  ASSUME NEW P
  PROVE  \E pos : Carries(P, <<>>, <<>>, pos) /\ Complete(<<>>, <<>>, pos)
<1> DEFINE pos == [i \in 1..0 |-> 1]
<1>1. Len(<<>>) = 0 /\ <<>> \in Seq(P) /\ <<>> \in Seq(P \cup {LF, CR, Data, Comment}) OBVIOUS
<1>2. pos \in [1..0 -> 1..0] /\ Increasing(pos, 0) BY DEF Increasing
<1>3. Carries(P, <<>>, <<>>, pos) BY <1>1, <1>2 DEF Carries
<1>4. Complete(<<>>, <<>>, pos) BY DEF Complete
<1> QED BY <1>3, <1>4
=============================================================================
