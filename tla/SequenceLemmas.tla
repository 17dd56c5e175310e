--------------------------- MODULE SequenceLemmas ---------------------------
(***************************************************************************)
(* What the proofs need to know of the recursive operators on sequences     *)
(* that the models use: FlattenSeq over sequences of at most one element    *)
(* (a filter) and FoldLeft with + (a sum).                                  *)
(***************************************************************************)
EXTENDS Integers, SequencesExt, SequenceTheorems, WellFoundedInduction, TLAPS

\* Induction over the natural numbers, with the property as a set.
LEMMA Induct ==
  ASSUME NEW S, 0 \in S, \A n \in Nat : n \in S => n + 1 \in S
  PROVE  Nat \subseteq S
<1> DEFINE T == Nat \ S
           R == {ss \in Nat \X Nat : ss[1] < ss[2]}
<1> SUFFICES ASSUME T # {} PROVE FALSE
  OBVIOUS
<1>1. IsWellFoundedOn(OpToRel(<, Nat), Nat) BY NatLessThanWellFounded
<1>2. OpToRel(<, Nat) = R BY DEF OpToRel
<1>3. IsWellFoundedOn(R, Nat) BY <1>1, <1>2
<1> HIDE DEF R
<1>4. PICK x \in T : \A y \in T : ~(<<y, x>> \in R) BY <1>3, WFMin
<1>5. x \in Nat /\ x # 0 /\ x - 1 \in Nat /\ x - 1 + 1 = x OBVIOUS
<1>6. x - 1 \in T BY <1>5
<1>7. <<x - 1, x>> \in R BY <1>5 DEF R
<1> QED BY <1>4, <1>6, <1>7

\* The values of an iteration over the numbers from 1 to n that starts with x.
Iterates(g, x, n, F, X) ==
  g \in [0..n -> X] /\ g[0] = x /\ \A i \in 1..n : g[i] = F[i][g[i - 1]]

\* It exists, whatever the steps are.
LEMMA Iterate ==
  ASSUME NEW X, NEW x \in X, NEW n \in Nat, NEW F \in [1..n -> [X -> X]]
  PROVE  \E g : Iterates(g, x, n, F, X)
<1> DEFINE P(k) == \E g \in [0..k -> X] : g[0] = x /\ \A i \in 1..k : g[i] = F[i][g[i - 1]]
           S == {k \in Nat : k <= n => P(k)}
<1>1. 0 \in S
  <2> DEFINE h == [i \in 0..0 |-> x]
  <2>1. h \in [0..0 -> X] /\ h[0] = x OBVIOUS
  <2>2. 1..0 = {} OBVIOUS
  <2> HIDE DEF h
  <2> QED BY <2>1, <2>2
<1>2. ASSUME NEW k \in Nat, k \in S PROVE k + 1 \in S
  <2> SUFFICES ASSUME k + 1 <= n PROVE P(k + 1)
    OBVIOUS
  <2>1. P(k) BY <1>2
  <2>2. PICK g \in [0..k -> X] : g[0] = x /\ \A i \in 1..k : g[i] = F[i][g[i - 1]] BY <2>1
  <2> DEFINE h == [i \in 0..(k + 1) |-> IF i = k + 1 THEN F[k + 1][g[k]] ELSE g[i]]
  <2>3. F[k + 1][g[k]] \in X
    <3>1. k + 1 \in 1..n /\ g[k] \in X OBVIOUS
    <3>2. F[k + 1] \in [X -> X] BY <3>1
    <3> QED BY <3>1, <3>2
  <2>4. h \in [0..(k + 1) -> X] /\ h[0] = x BY <2>2, <2>3
  <2>5. ASSUME NEW i \in 1..(k + 1) PROVE h[i] = F[i][h[i - 1]]
    <3>1. CASE i = k + 1 BY <3>1
    <3>2. CASE i # k + 1 BY <2>2, <3>2
    <3> QED BY <3>1, <3>2
  <2> HIDE DEF h
  <2> QED BY <2>4, <2>5
<1> HIDE DEF P
<1>3. Nat \subseteq S BY <1>1, <1>2, Induct
<1>4. P(n) BY <1>3
<1> QED BY <1>4 DEF P, Iterates

-----------------------------------------------------------------------------
(* Enumerations of a set of numbers in increasing order                    *)

\* f lists numbers in their order.
Increasing(f, n) == \A j, k \in 1..n : j < k => f[j] < f[k]

\* f lists the n numbers of D in their order.
Enumerates(f, n, D) ==
  /\ f \in [1..n -> D]
  /\ Increasing(f, n)
  /\ \A d \in D : \E k \in 1..n : f[k] = d

\* There is at most one.
LEMMA EnumerationsAgree ==
  ASSUME NEW D \in SUBSET Int, NEW n \in Nat, NEW m \in Nat, NEW f, NEW g,
         Enumerates(f, n, D), Enumerates(g, m, D)
  PROVE  n = m /\ f = g
<1> USE DEF Enumerates, Increasing
<1>0. /\ \A j \in 1..n : f[j] \in D /\ f[j] \in Int
      /\ \A j \in 1..m : g[j] \in D /\ g[j] \in Int
  OBVIOUS
<1> DEFINE S == {k \in Nat : \A j \in 1..k : j <= n /\ j <= m => f[j] = g[j]}
<1>1. 0 \in S OBVIOUS
<1>2. ASSUME NEW k \in Nat, k \in S PROVE k + 1 \in S
  <2> SUFFICES ASSUME k + 1 <= n, k + 1 <= m PROVE f[k + 1] = g[k + 1]
    BY <1>2
  <2>1. \A j \in 1..k : f[j] = g[j] BY <1>2
  <2>2. k + 1 \in 1..n /\ k + 1 \in 1..m OBVIOUS
  <2>3. f[k + 1] \in D /\ g[k + 1] \in D BY <2>2
  <2>4. PICK l \in 1..m : g[l] = f[k + 1] BY <2>3
  <2>5. PICK l2 \in 1..n : f[l2] = g[k + 1] BY <2>3
  <2>6. ~(l < k + 1)
    <3> SUFFICES ASSUME l < k + 1 PROVE FALSE
      OBVIOUS
    <3>1. l \in 1..k BY <2>2
    <3>2. f[l] < f[k + 1] BY <3>1, <2>2
    <3> QED BY <3>1, <3>2, <2>1, <2>4, <2>3, <1>0
  <2>7. ~(l2 < k + 1)
    <3> SUFFICES ASSUME l2 < k + 1 PROVE FALSE
      OBVIOUS
    <3>1. l2 \in 1..k BY <2>2
    <3>2. g[l2] < g[k + 1] BY <3>1, <2>2
    <3> QED BY <3>1, <3>2, <2>1, <2>5, <2>3, <1>0
  <2>8. l = k + 1 \/ g[k + 1] < g[l] BY <2>6, <2>2
  <2>9. l2 = k + 1 \/ f[k + 1] < f[l2] BY <2>7, <2>2
  <2>10. CASE l = k + 1 \/ l2 = k + 1 BY <2>4, <2>5, <2>10
  <2>11. CASE l # k + 1 /\ l2 # k + 1
    <3>1. g[k + 1] < f[k + 1] /\ f[k + 1] < g[k + 1] BY <2>4, <2>5, <2>8, <2>9, <2>11
    <3> QED BY <1>0, <2>2, <3>1
  <2> QED BY <2>10, <2>11
<1>3. Nat \subseteq S BY <1>1, <1>2, Induct
<1>4. \A j \in Nat \ {0} : j <= n /\ j <= m => f[j] = g[j] BY <1>3
<1>5. ~(n < m)
  <2> SUFFICES ASSUME n < m PROVE FALSE
    OBVIOUS
  <2>1. n + 1 \in 1..m /\ g[n + 1] \in D OBVIOUS
  <2>2. PICK l \in 1..n : f[l] = g[n + 1] BY <2>1
  <2>3. g[l] = f[l] /\ g[l] < g[n + 1] BY <1>4, <2>1
  <2> QED BY <1>0, <2>1, <2>2, <2>3
<1>6. ~(m < n)
  <2> SUFFICES ASSUME m < n PROVE FALSE
    OBVIOUS
  <2>1. m + 1 \in 1..n /\ f[m + 1] \in D OBVIOUS
  <2>2. PICK l \in 1..m : g[l] = f[m + 1] BY <2>1
  <2>3. g[l] = f[l] /\ f[l] < f[m + 1] BY <1>4, <2>1
  <2> QED BY <1>0, <2>1, <2>2, <2>3
<1>7. n = m BY <1>5, <1>6
<1>8. \A j \in 1..n : f[j] = g[j] BY <1>4, <1>7
<1> QED BY <1>7, <1>8

\* It leaves out no more than what lies between: the k-th number is at most the
\* last minus what is still to come.
LEMMA EnumerationGaps ==
  ASSUME NEW n \in Nat, NEW f \in [1..n -> Int], Increasing(f, n),
         NEW j \in 1..n, NEW d \in Nat, j + d <= n
  PROVE  f[j] + d <= f[j + d]
<1> DEFINE S == {k \in Nat : j + k <= n => f[j] + k <= f[j + k]}
<1>1. 0 \in S BY f[j] \in Int
<1>2. ASSUME NEW k \in Nat, k \in S PROVE k + 1 \in S
  <2> SUFFICES ASSUME j + (k + 1) <= n PROVE f[j] + (k + 1) <= f[j + (k + 1)]
    OBVIOUS
  <2>1. j + k \in 1..n /\ j + (k + 1) \in 1..n /\ j + k < j + (k + 1) OBVIOUS
  <2>2. f[j + k] < f[j + (k + 1)] BY <2>1 DEF Increasing
  <2>3. f[j] + k <= f[j + k] BY <1>2, <2>1
  <2>4. f[j] \in Int /\ f[j + k] \in Int /\ f[j + (k + 1)] \in Int BY <2>1
  <2> QED BY <2>2, <2>3, <2>4
<1>3. Nat \subseteq S BY <1>1, <1>2, Induct
<1> QED BY <1>3

\* Where it leaves nothing out from its k-th number to N, it goes on by one.
DenseFrom(f, k, n, N, D) ==
  k \in 1..n /\ D \subseteq 1..N /\ \A i \in 1..N : i >= f[k] => i \in D

\* Where D has every number from the k-th on, so does its enumeration, one by one.
LEMMA EnumerationDense ==
  ASSUME NEW n \in Nat, NEW N \in Nat, NEW D, NEW f, Enumerates(f, n, D),
         NEW k, DenseFrom(f, k, n, N, D)
  PROVE  n - k = N - f[k] /\ \A d \in Nat : k + d <= n => f[k + d] = f[k] + d
<1>1. /\ f \in [1..n -> Int] /\ Increasing(f, n) /\ k \in 1..n
      /\ \A j \in 1..n : f[j] \in 1..N
      /\ \A j, i \in 1..n : j < i => f[j] < f[i]
      /\ \A i \in 1..N : i >= f[k] => \E j \in 1..n : f[j] = i
  <2>1. f \in [1..n -> D] /\ Increasing(f, n) /\ \A i \in D : \E j \in 1..n : f[j] = i
    BY DEF Enumerates
  <2>2. \A j \in 1..n : f[j] \in 1..N BY <2>1 DEF DenseFrom
  <2>3. f \in [1..n -> Int] BY <2>1, <2>2
  <2>4. \A j, i \in 1..n : j < i => f[j] < f[i] BY <2>1 DEF Increasing
  <2>5. k \in 1..n /\ \A i \in 1..N : i >= f[k] => \E j \in 1..n : f[j] = i
    BY <2>1 DEF DenseFrom
  <2> QED BY <2>1, <2>2, <2>3, <2>4, <2>5
<1> DEFINE S == {d \in Nat : f[k] + d <= N => k + d <= n /\ f[k + d] = f[k] + d}
<1>2. 0 \in S
  <2>1. k + 0 = k /\ f[k] + 0 = f[k] BY <1>1
  <2> QED BY <1>1, <2>1
<1>3. ASSUME NEW d \in Nat, d \in S PROVE d + 1 \in S
  <2> SUFFICES ASSUME f[k] + (d + 1) <= N
               PROVE  k + (d + 1) <= n /\ f[k + (d + 1)] = f[k] + (d + 1)
    OBVIOUS
  <2> DEFINE j == k + d
             i == k + (d + 1)
             x == f[k] + (d + 1)
  <2>1. f[k] + d <= N BY <1>1
  <2>2. j \in 1..n /\ f[j] = f[k] + d BY <1>1, <1>3, <2>1
  <2>3. x \in 1..N /\ x >= f[k] BY <1>1
  <2>4. PICK c \in 1..n : f[c] = x BY <1>1, <2>3
  <2>5. i = j + 1 /\ x = f[j] + 1 BY <1>1, <2>2
  <2> HIDE DEF i, j, x
  <2>6. f[j] < f[c] BY <1>1, <2>2, <2>4, <2>5
  <2>7. j < c
    <3>1. c < j => f[c] < f[j] BY <1>1, <2>2
    <3>2. f[c] \in Int /\ f[j] \in Int BY <1>1, <2>2
    <3> QED BY <2>2, <2>6, <3>1, <3>2
  <2>8. i \in 1..n /\ j < i /\ (i = c \/ i < c) BY <2>2, <2>5, <2>7
  <2>9. f[j] < f[i] /\ f[i] <= f[c]
    <3>1. f[j] < f[i] BY <1>1, <2>2, <2>8
    <3>2. CASE i = c BY <1>1, <3>1, <3>2
    <3>3. CASE i < c BY <1>1, <2>8, <3>1, <3>3
    <3> QED BY <2>8, <3>2, <3>3
  <2>10. f[i] = x BY <1>1, <2>2, <2>4, <2>5, <2>8, <2>9
  <2> QED BY <2>8, <2>10 DEF i, x
<1> HIDE DEF S
<1>4. Nat \subseteq S BY <1>2, <1>3, Induct
<1>5. \A d \in Nat : f[k] + d <= N => k + d <= n /\ f[k + d] = f[k] + d BY <1>4 DEF S
<1>6. \A d \in Nat : k + d <= n => f[k] + d <= N
  <2> SUFFICES ASSUME NEW d \in Nat, k + d <= n PROVE f[k] + d <= N
    OBVIOUS
  <2>1. f[k] + d <= f[k + d] BY <1>1, EnumerationGaps
  <2>2. f[k + d] \in 1..N BY <1>1
  <2> QED BY <1>1, <2>1, <2>2
<1>7. n - k <= N - f[k]
  <2>1. n - k \in Nat /\ k + (n - k) = n BY <1>1
  <2> QED BY <1>1, <1>6, <2>1
<1>8. N - f[k] <= n - k
  <2>1. N - f[k] \in Nat /\ f[k] + (N - f[k]) = N BY <1>1
  <2> QED BY <1>1, <1>5, <2>1
<1>9. \A d \in Nat : k + d <= n => f[k + d] = f[k] + d BY <1>5, <1>6
<1>10. n - k = N - f[k]
  <2>1. f[k] \in Int BY <1>1
  <2> QED BY <1>1, <1>7, <1>8, <2>1
<1> QED BY <1>9, <1>10

-----------------------------------------------------------------------------
(* FlattenSeq of sequences of at most one element                          *)

\* FlattenSeq, from the empty sequence.
LEMMA Flattened ==
  ASSUME NEW Q, NEW a \in Seq(Seq(Q))
  PROVE  \E g \in [0..Len(a) -> Seq(Q)] :
           /\ g[0] = <<>>
           /\ \A i \in 1..Len(a) : g[i] = g[i - 1] \o a[i]
           /\ FlattenSeq(a) = g[Len(a)]
<1> DEFINE n == Len(a)
           X == Seq(Q)
           e == << >>
           F == [i \in 1..n |-> [s \in X |-> s \o a[i]]]
<1>1. n \in Nat /\ \A i \in 1..n : a[i] \in Seq(Q) OBVIOUS
<1>2. \A i \in 1..n : [s \in X |-> s \o a[i]] \in [X -> X] BY <1>1
<1>3. F \in [1..n -> [X -> X]] BY <1>2
<1>4. e \in X OBVIOUS
<1> HIDE DEF n
<1>5. \E g : Iterates(g, e, n, F, X)
  <2> HIDE DEF F, X, e
  <2>1. n \in Nat BY <1>1
  <2> QED BY <2>1, <1>3, <1>4, Iterate
<1>8. PICK g \in [0..n -> X] : g[0] = e /\ \A i \in 1..n : g[i] = F[i][g[i - 1]]
  BY <1>5 DEF Iterates
<1>6. ASSUME NEW i \in 1..n PROVE g[i] = g[i - 1] \o a[i]
  <2>1. i - 1 \in 0..n BY <1>1
  <2>2. g[i - 1] \in X BY <2>1
  <2> QED BY <1>8, <2>2
<1>7. FlattenSeq(a) = g[n]
  <2>1. CASE n = 0 BY <1>8, <2>1 DEF FlattenSeq, n
  <2>2. CASE n # 0
    <3> DEFINE E(f) == f = [i \in 1..n |-> IF i = 1 THEN a[i] ELSE f[i - 1] \o a[i]]
               h == [i \in 1..n |-> g[i]]
    <3>1. E(h)
      <4>1. ASSUME NEW i \in 1..n PROVE h[i] = IF i = 1 THEN a[i] ELSE h[i - 1] \o a[i]
        <5>1. CASE i = 1
          <6>1. g[i] = g[i - 1] \o a[i] BY <1>6
          <6>2. g[i - 1] = <<>> BY <1>8, <5>1
          <6>3. a[i] \in Seq(Q) BY <1>1
          <6>4. g[i] = a[i] BY <6>1, <6>2, <6>3
          <6> QED BY <5>1, <6>4
        <5>2. CASE i # 1 
          <6>1. i - 1 \in 1..n BY <1>1, <5>2
          <6> QED BY <1>6, <5>2, <6>1
        <5> QED BY <5>1, <5>2
      <4> QED BY <4>1
    <3>2. FlattenSeq(a) = (CHOOSE f : E(f))[n] BY <2>2 DEF FlattenSeq, n
    <3> DEFINE f == CHOOSE f : E(f)
    <3>3. E(f) BY <3>1
    <3> HIDE DEF f
    <3>7. \A i \in 1..n : f[i] = IF i = 1 THEN a[i] ELSE f[i - 1] \o a[i] BY <3>3
    <3>8. \A i \in 1..n : g[i] = IF i = 1 THEN a[i] ELSE g[i - 1] \o a[i]
      <4>1. \A i \in 1..n : h[i] = IF i = 1 THEN a[i] ELSE h[i - 1] \o a[i] BY <3>1
      <4>2. \A i \in 1..n : h[i] = g[i] /\ (i # 1 => h[i - 1] = g[i - 1]) BY <1>1
      <4> HIDE DEF h
      <4> QED BY <4>1, <4>2
    <3> HIDE DEF E, h
    <3>4. ASSUME NEW i \in Nat, i + 1 <= n PROVE f[i + 1] = g[i + 1]
      <4> DEFINE S == {k \in Nat : k + 1 <= n => f[k + 1] = g[k + 1]}
      <4>1. 0 \in S
        <5> SUFFICES ASSUME 1 <= n PROVE f[1] = g[1] OBVIOUS
        <5> QED BY <3>7, <3>8, <1>1
      <4>2. ASSUME NEW k \in Nat, k \in S PROVE k + 1 \in S
        <5> SUFFICES ASSUME k + 1 + 1 <= n PROVE f[k + 1 + 1] = g[k + 1 + 1] OBVIOUS
        <5>1. k + 1 + 1 \in 1..n /\ k + 1 + 1 # 1 /\ k + 1 + 1 - 1 = k + 1 BY <1>1
        <5> DEFINE j == k + 1 + 1
        <5>2. j \in 1..n /\ j # 1 /\ j - 1 = k + 1 BY <5>1
        <5> HIDE DEF j
        <5>3. f[j] = f[j - 1] \o a[j] BY <3>7, <5>2
        <5>5. g[j] = g[j - 1] \o a[j] BY <3>8, <5>2
        <5>4. f[k + 1] = g[k + 1] BY <4>2, <1>1
        <5> QED BY <5>2, <5>3, <5>4, <5>5 DEF j
      <4> HIDE DEF S
      <4>3. Nat \subseteq S BY <4>1, <4>2, Induct
      <4>4. i \in S BY <4>3
      <4> QED BY <3>4, <4>4 DEF S
    <3>5. n - 1 \in Nat /\ n - 1 + 1 = n BY <1>1, <2>2
    <3>6. f[n] = g[n] BY <3>4, <3>5
    <3> QED BY <3>2, <3>6 DEF f
  <2> QED BY <2>1, <2>2
<1> QED BY <1>8, <1>6, <1>7 DEF n

\* s holds what is left of a, in the order of f.
Picks(s, a, f, D) == Enumerates(f, Len(s), D) /\ \A k \in 1..Len(s) : s[k] = a[f[k]][1]

\* The places of a that are not empty.
Occupied(a, n) == {i \in 1..n : a[i] # <<>>}

\* Flattening empty sequences and sequences of one element keeps the latter in their order.
LEMMA FlattenUnits ==
  ASSUME NEW Q, NEW a \in Seq(Seq(Q)),
         \A i \in 1..Len(a) : a[i] = <<>> \/ \E x \in Q : a[i] = <<x>>
  PROVE  /\ FlattenSeq(a) \in Seq(Q)
         /\ \E f : Picks(FlattenSeq(a), a, f, Occupied(a, Len(a)))
<1> DEFINE n == Len(a)
<1>1. n \in Nat /\ \A i \in 1..n : a[i] = <<>> \/ \E x \in Q : a[i] = <<x>>
  OBVIOUS
<1>2. PICK g \in [0..n -> Seq(Q)] :
        /\ g[0] = <<>>
        /\ \A i \in 1..n : g[i] = g[i - 1] \o a[i]
        /\ FlattenSeq(a) = g[n]
  BY Flattened
<1> HIDE DEF n
<1> DEFINE P(k) == \E f : Picks(g[k], a, f, Occupied(a, k))
           S == {k \in Nat : k <= n => P(k)}
<1>3. 0 \in S
  <2> DEFINE f == [k \in 1..0 |-> 0]
  <2>1. Len(g[0]) = 0 /\ 1..0 = {} /\ Occupied(a, 0) = {} BY <1>2 DEF Occupied
  <2>2. Enumerates(f, 0, Occupied(a, 0)) BY <2>1 DEF Enumerates, Increasing
  <2> HIDE DEF f
  <2>3. P(0) BY <2>1, <2>2 DEF Picks
  <2> QED BY <2>3
<1>4. ASSUME NEW k \in Nat, k \in S PROVE k + 1 \in S
  <2> SUFFICES ASSUME k + 1 <= n PROVE P(k + 1)
    OBVIOUS
  <2>1. P(k) BY <1>1, <1>4
  <2>2. PICK f : Picks(g[k], a, f, Occupied(a, k)) BY <2>1
  <2>3. k \in 0..n /\ k + 1 \in 1..n /\ k + 1 - 1 = k BY <1>1
  <2>4. g[k + 1] = g[k] \o a[k + 1] /\ g[k] \in Seq(Q)
    <3> DEFINE j == k + 1
    <3>1. j \in 1..n /\ j - 1 = k BY <2>3
    <3> HIDE DEF j
    <3>2. g[j] = g[j - 1] \o a[j] BY <1>2, <3>1
    <3>3. g[k + 1] = g[k] \o a[k + 1] BY <3>1, <3>2 DEF j
    <3> QED BY <2>3, <3>3
  <2>5. CASE a[k + 1] = <<>>
    <3>1. g[k + 1] = g[k] BY <2>4, <2>5
    <3>2. Occupied(a, k + 1) = Occupied(a, k) BY <2>5, <2>3 DEF Occupied
    <3> QED BY <2>2, <3>1, <3>2
  <2>6. CASE a[k + 1] # <<>>
    <3> DEFINE L == Len(g[k])
               h == [j \in 1..(L + 1) |-> IF j = L + 1 THEN k + 1 ELSE f[j]]
    <3>0. PICK x \in Q : a[k + 1] = <<x>> BY <1>1, <2>3, <2>6
    <3>1. L \in Nat BY <2>4
    <3>2. /\ Len(g[k + 1]) = L + 1 /\ g[k + 1][L + 1] = a[k + 1][1]
          /\ \A j \in 1..L : g[k + 1][j] = g[k][j]
      <4> DEFINE p == g[k]
      <4>1. p \in Seq(Q) /\ Len(p) = L /\ g[k + 1] = p \o <<x>> /\ a[k + 1][1] = x
        BY <2>4, <3>0
      <4> HIDE DEF p, L
      <4>2. /\ Len(p \o <<x>>) = Len(p) + 1 /\ (p \o <<x>>)[Len(p) + 1] = x
            /\ \A j \in 1..Len(p) : (p \o <<x>>)[j] = p[j]
        <5>1. p \o <<x>> = Append(p, x) BY <4>1
        <5>2. /\ Len(Append(p, x)) = Len(p) + 1 /\ Append(p, x)[Len(p) + 1] = x
              /\ \A j \in 1..Len(p) : Append(p, x)[j] = p[j]
          BY <4>1, AppendProperties
        <5> QED BY <5>1, <5>2, Zenon
      <4> QED BY <4>1, <4>2 DEF p, L
    <3>3. Occupied(a, k + 1) = Occupied(a, k) \cup {k + 1} BY <2>6, <2>3 DEF Occupied
    <3>4. Occupied(a, k) \subseteq 1..k BY DEF Occupied
    <3>5. /\ f \in [1..L -> Occupied(a, k)] /\ Increasing(f, L)
          /\ \A d \in Occupied(a, k) : \E j \in 1..L : f[j] = d
          /\ \A j \in 1..L : g[k][j] = a[f[j]][1]
      BY <2>2 DEF Picks, Enumerates
    <3>6. \A j \in 1..L : f[j] \in Occupied(a, k) /\ f[j] \in 1..k BY <3>4, <3>5
    <3> HIDE DEF L
    <3>7. /\ DOMAIN h = 1..(L + 1) /\ h[L + 1] = k + 1
          /\ \A j \in 1..L : h[j] = f[j] /\ j \in 1..(L + 1)
      BY <3>1
    <3>8. h \in [1..(L + 1) -> Occupied(a, k + 1)] BY <3>3, <3>6, <3>1
    <3> HIDE DEF h
    <3>9. \A j \in 1..(L + 1) : j = L + 1 \/ j \in 1..L BY <3>1
    <3>10. Increasing(h, L + 1)
      <4> SUFFICES ASSUME NEW i \in 1..(L + 1), NEW j \in 1..(L + 1), i < j PROVE h[i] < h[j]
        BY DEF Increasing
      <4>1. i \in 1..L BY <3>1
      <4>2. CASE j = L + 1 BY <3>6, <3>7, <4>1, <4>2
      <4>3. CASE j \in 1..L BY <3>5, <3>7, <4>1, <4>3 DEF Increasing
      <4> QED BY <3>9, <4>2, <4>3
    <3>11. \A d \in Occupied(a, k + 1) : \E j \in 1..(L + 1) : h[j] = d
      BY <3>1, <3>3, <3>5, <3>7
    <3>12. \A j \in 1..(L + 1) : g[k + 1][j] = a[h[j]][1]
      BY <3>2, <3>5, <3>7, <3>9
    <3>13. Picks(g[k + 1], a, h, Occupied(a, k + 1))
      BY <3>2, <3>8, <3>10, <3>11, <3>12 DEF Picks, Enumerates
    <3> QED BY <3>13
  <2> QED BY <2>5, <2>6
<1> HIDE DEF P
<1>5. Nat \subseteq S BY <1>3, <1>4, Induct
<1>6. P(n) BY <1>1, <1>5
<1>7. n \in 0..n BY <1>1
<1> QED BY <1>2, <1>6, <1>7 DEF P, n

\* Where nothing is left out, nothing moves.
LEMMA FlattenSingletons ==
  ASSUME NEW Q, NEW a \in Seq(Seq(Q)), \A i \in 1..Len(a) : \E x \in Q : a[i] = <<x>>
  PROVE  FlattenSeq(a) = [i \in 1..Len(a) |-> a[i][1]]
<1> DEFINE n == Len(a)
           s == FlattenSeq(a)
           id == [i \in 1..n |-> i]
<1>1. n \in Nat OBVIOUS
<1>2. Occupied(a, n) = 1..n
  <2>1. \A x : <<x>> # <<>> OBVIOUS
  <2>2. \A i \in 1..n : a[i] # <<>> BY <2>1
  <2> QED BY <2>2 DEF Occupied
<1>3. s \in Seq(Q) /\ \E f : Picks(s, a, f, 1..n)
  <2>2. s \in Seq(Q) /\ \E f : Picks(s, a, f, Occupied(a, n))
    BY FlattenUnits
  <2> QED BY <1>2, <2>2
<1> HIDE DEF s, n
<1>4. PICK f : Picks(s, a, f, 1..n) BY <1>3
<1>5. Enumerates(id, n, 1..n) BY <1>1 DEF Enumerates, Increasing
<1> HIDE DEF id
<1>6. Len(s) = n /\ f = id
  <2>1. Enumerates(f, Len(s), 1..n) BY <1>4 DEF Picks
  <2>2. 1..n \in SUBSET Int /\ Len(s) \in Nat BY <1>1, <1>3
  <2> QED BY <1>1, <1>5, <2>1, <2>2, EnumerationsAgree
<1>7. \A k \in 1..n : s[k] = a[k][1] BY <1>4, <1>6 DEF Picks, id
<1>8. s = [i \in 1..n |-> s[i]] BY <1>3, <1>6
<1> QED BY <1>7, <1>8 DEF s, n

\* Flattening one sequence more puts it behind the others.
LEMMA FlattenAppend ==
  ASSUME NEW Q, NEW a \in Seq(Seq(Q)), NEW u \in Seq(Q)
  PROVE  FlattenSeq(Append(a, u)) = FlattenSeq(a) \o u
<1> DEFINE n == Len(a)
           b == Append(a, u)
<1>1. /\ n \in Nat /\ b \in Seq(Seq(Q)) /\ Len(b) = n + 1 /\ b[n + 1] = u
      /\ \A i \in 1..n : b[i] = a[i]
  OBVIOUS
<1>2. PICK g \in [0..n -> Seq(Q)] :
        g[0] = <<>> /\ (\A i \in 1..n : g[i] = g[i - 1] \o a[i]) /\ FlattenSeq(a) = g[n]
  BY Flattened
<1> HIDE DEF n, b
<1>3. PICK h \in [0..Len(b) -> Seq(Q)] :
        h[0] = <<>> /\ (\A i \in 1..Len(b) : h[i] = h[i - 1] \o b[i]) /\ FlattenSeq(b) = h[Len(b)]
  BY <1>1, Flattened
<1>4. h[0] = <<>> /\ (\A i \in 1..(n + 1) : h[i] = h[i - 1] \o b[i]) /\ FlattenSeq(b) = h[n + 1]
  BY <1>1, <1>3
<1> DEFINE S == {k \in Nat : k <= n => h[k] = g[k]}
<1>5. 0 \in S BY <1>2, <1>4
<1>6. ASSUME NEW k \in Nat, k \in S PROVE k + 1 \in S
  <2> SUFFICES ASSUME k + 1 <= n PROVE h[k + 1] = g[k + 1]
    OBVIOUS
  <2> DEFINE j == k + 1
  <2>1. j \in 1..n /\ j \in 1..(n + 1) /\ j - 1 = k /\ k <= n BY <1>1
  <2>2. h[k] = g[k] BY <1>6, <2>1
  <2> HIDE DEF j
  <2>3. h[j] = h[j - 1] \o b[j] BY <1>4, <2>1
  <2>4. g[j] = g[j - 1] \o a[j] BY <1>2, <2>1
  <2>5. b[j] = a[j] BY <1>1, <2>1
  <2>6. h[j] = g[j] BY <2>1, <2>2, <2>3, <2>4, <2>5
  <2> QED BY <2>6 DEF j
<1> HIDE DEF S
<1>7. Nat \subseteq S BY <1>5, <1>6, Induct
<1>8. h[n] = g[n] BY <1>1, <1>7 DEF S
<1> DEFINE l == n + 1
<1>9. l \in 1..(n + 1) /\ l - 1 = n BY <1>1
<1> HIDE DEF l
<1>10. h[l] = h[l - 1] \o b[l] BY <1>4, <1>9
<1>11. h[l] = FlattenSeq(b) /\ b[l] = u BY <1>1, <1>4 DEF l
<1>12. FlattenSeq(b) = g[n] \o u BY <1>8, <1>9, <1>10, <1>11
<1> QED BY <1>2, <1>12 DEF b

\* The same of two sequences, one with a last element more.
LEMMA FlattenNext ==
  ASSUME NEW Q, NEW a \in Seq(Seq(Q)), NEW b \in Seq(Seq(Q)), NEW n \in Nat,
         Len(a) = n, Len(b) = n + 1, \A i \in 1..n : b[i] = a[i]
  PROVE  FlattenSeq(b) = FlattenSeq(a) \o b[n + 1]
<1> DEFINE u == b[n + 1]
           c == Append(a, u)
           X == Seq(Q)
<1>1. u \in X
  <2>1. n + 1 \in 1..Len(b) OBVIOUS
  <2> QED BY <2>1
<1>2. a \in Seq(X) /\ b \in Seq(X) OBVIOUS
<1> HIDE DEF u, X
<1>3. /\ c \in Seq(X) /\ Len(c) = n + 1 /\ c[n + 1] = u
      /\ \A i \in 1..n : c[i] = a[i]
  BY <1>1, <1>2
<1> HIDE DEF c
<1>4. \A i \in 1..(n + 1) : b[i] = c[i]
  <2> TAKE i \in 1..(n + 1)
  <2>1. CASE i = n + 1 BY <1>3, <2>1 DEF u
  <2>2. CASE i # n + 1 BY <1>3, <2>2
  <2> QED BY <2>1, <2>2
<1>5. b = c
  <2>1. b = [i \in 1..(n + 1) |-> b[i]] BY <1>2
  <2>2. c = [i \in 1..(n + 1) |-> c[i]] BY <1>3
  <2> QED BY <1>4, <2>1, <2>2
<1>6. FlattenSeq(c) = FlattenSeq(a) \o u BY <1>1, FlattenAppend DEF c, X
<1> QED BY <1>5, <1>6 DEF u

\* Nothing flattened is nothing.
LEMMA FlattenNothing == FlattenSeq(<<>>) = <<>>
<1> DEFINE none == <<>>
<1>1. none \in Seq(Seq({})) /\ Len(none) = 0 OBVIOUS
<1> HIDE DEF none
<1>2. PICK g \in [0..Len(none) -> Seq({})] : g[0] = <<>> /\ FlattenSeq(none) = g[Len(none)]
  BY <1>1, Flattened
<1> QED BY <1>1, <1>2 DEF none

\* The sequence b of sequences of Q is a with one more behind.
OneMore(Q, a, b) ==
  a \in Seq(Seq(Q)) /\ b \in Seq(Seq(Q)) /\ Len(b) = Len(a) + 1 /\ \A i \in 1..Len(a) : b[i] = a[i]

\* Flattening one sequence more, in the terms of OneMore.
LEMMA FlattenMore ==
  ASSUME NEW Q, NEW a, NEW b, OneMore(Q, a, b)
  PROVE  FlattenSeq(b) = FlattenSeq(a) \o b[Len(a) + 1]
<1>1. Len(a) \in Nat BY DEF OneMore
<1> DEFINE n == Len(a)
<1>2. n \in Nat /\ Len(a) = n BY <1>1
<1> HIDE DEF n
<1>3. a \in Seq(Seq(Q)) /\ b \in Seq(Seq(Q)) /\ Len(b) = n + 1 /\ \A i \in 1..n : b[i] = a[i]
  BY <1>2 DEF OneMore
<1> QED BY <1>2, <1>3, FlattenNext

\* Flattening a sequence taken apart into its elements puts it together again.
LEMMA FlattenUnchanged ==
  ASSUME NEW Q, NEW s \in Seq(Q)
  PROVE  FlattenSeq([i \in 1..Len(s) |-> <<s[i]>>]) = s
<1> DEFINE n == Len(s)
           a == [i \in 1..n |-> <<s[i]>>]
<1>1. n \in Nat /\ s = [i \in 1..n |-> s[i]] /\ \A i \in 1..n : s[i] \in Q
  OBVIOUS
<1>2. \A i \in 1..n : <<s[i]>> \in Seq(Q) BY <1>1
<1>3. a \in Seq(Seq(Q)) /\ Len(a) = n BY <1>1, <1>2
<1>4. \A i \in 1..n : a[i] = <<s[i]>> OBVIOUS
<1> HIDE DEF a, n
<1>5. FlattenSeq(a) = [i \in 1..Len(a) |-> a[i][1]] BY <1>1, <1>3, <1>4, FlattenSingletons
<1>6. [i \in 1..Len(a) |-> a[i][1]] = [i \in 1..n |-> s[i]] BY <1>3, <1>4
<1> QED BY <1>1, <1>5, <1>6 DEF a, n

-----------------------------------------------------------------------------
(* FoldLeft with +                                                         *)

\* What FoldLeft computes: the sums over all sets of indices, by their largest one.
SetSums(f, v, n) ==
  f = [s \in SUBSET (1..n) |-> IF s = {} THEN 0 ELSE f[s \ {Max(s)}] + v[Max(s)]]

\* The sums of the first values.
PrefixSums(p, v, n) ==
  p \in [0..n -> Nat] /\ p[0] = 0 /\ \A i \in 1..n : p[i] = p[i - 1] + v[i]

\* The largest element of a set, when it is known.
LEMMA MaxIs ==
  ASSUME NEW s \in SUBSET Int, NEW x \in s, \A y \in s : y <= x
  PROVE  Max(s) = x
<1>1. \A z \in s : (\A y \in s : z >= y) => z = x OBVIOUS
<1>2. \E z \in s : \A y \in s : z >= y OBVIOUS
<1> QED BY <1>1, <1>2 DEF Max

\* A set of numbers up to n that is not empty has a largest one.
LEMMA MaxExists ==
  ASSUME NEW n \in Nat, NEW s \in SUBSET (1..n), s # {}
  PROVE  Max(s) \in s /\ \A y \in s : y <= Max(s)
<1> DEFINE P(k) == \A r \in SUBSET (1..k) : r # {} => \E x \in r : \A y \in r : y <= x
           S == {k \in Nat : P(k)}
<1>1. 0 \in S
  <2>1. 1..0 = {} OBVIOUS
  <2> QED BY <2>1
<1>2. ASSUME NEW k \in Nat, k \in S PROVE k + 1 \in S
  <2> SUFFICES ASSUME NEW r \in SUBSET (1..(k + 1)), r # {}
               PROVE \E x \in r : \A y \in r : y <= x
    OBVIOUS
  <2>1. CASE k + 1 \in r BY <2>1
  <2>2. CASE k + 1 \notin r
    <3>1. r \in SUBSET (1..k) BY <2>2
    <3> QED BY <1>2, <3>1
  <2> QED BY <2>1, <2>2
<1> HIDE DEF P
<1>3. Nat \subseteq S BY <1>1, <1>2, Induct
<1>4. P(n) BY <1>3
<1>5. PICK x \in s : \A y \in s : y <= x BY <1>4 DEF P
<1>6. Max(s) = x BY <1>5, MaxIs
<1> QED BY <1>5, <1>6

\* The function FoldLeft is made of exists.
LEMMA SetSumsExist ==
  ASSUME NEW n \in Nat, NEW v \in [1..n -> Nat]
  PROVE  \E f : SetSums(f, v, n)
<1> DEFINE Body(f, s) == IF s = {} THEN 0 ELSE f[s \ {Max(s)}] + v[Max(s)]
           P(k) == \E f : /\ f = [s \in SUBSET (1..k) |-> f[s]]
                        /\ \A s \in SUBSET (1..k) : f[s] = Body(f, s)
           S == {k \in Nat : k <= n => P(k)}
<1>1. 0 \in S
  <2> DEFINE f == [s \in SUBSET (1..0) |-> 0]
  <2>1. f = [s \in SUBSET (1..0) |-> f[s]] OBVIOUS
  <2>2. \A s \in SUBSET (1..0) : s = {} /\ f[s] = 0 OBVIOUS
  <2> HIDE DEF f
  <2>3. P(0) BY <2>1, <2>2
  <2> HIDE DEF P
  <2> QED BY <2>3
<1> HIDE DEF P
<1>2. ASSUME NEW k \in Nat, k \in S PROVE k + 1 \in S
  <2> SUFFICES ASSUME k + 1 <= n PROVE P(k + 1)
    OBVIOUS
  <2>1. P(k) BY <1>2
  <2>2. PICK f : \A s \in SUBSET (1..k) : f[s] = Body(f, s)
    BY <2>1 DEF P
  <2> DEFINE g == [s \in SUBSET (1..(k + 1)) |->
                     IF k + 1 \in s THEN f[s \ {k + 1}] + v[k + 1] ELSE f[s]]
  <2>3. g = [s \in SUBSET (1..(k + 1)) |-> g[s]] OBVIOUS
  <2>4. ASSUME NEW s \in SUBSET (1..(k + 1)) PROVE g[s] = Body(g, s)
    <3>1. CASE k + 1 \in s
      <4>1. s \in SUBSET Int /\ \A y \in s : y <= k + 1 OBVIOUS
      <4>2. Max(s) = k + 1 BY <3>1, <4>1, MaxIs
      <4>3. s \ {k + 1} \in SUBSET (1..(k + 1)) /\ k + 1 \notin s \ {k + 1} OBVIOUS
      <4>4. g[s \ {k + 1}] = f[s \ {k + 1}] BY <4>3
      <4>5. g[s] = f[s \ {k + 1}] + v[k + 1] BY <3>1
      <4>6. s # {} BY <3>1
      <4> HIDE DEF g
      <4> QED BY <4>2, <4>4, <4>5, <4>6
    <3>2. CASE k + 1 \notin s
      <4>1. s \in SUBSET (1..k) BY <3>2
      <4>2. g[s] = f[s] BY <3>2
      <4>3. CASE s = {} BY <2>2, <4>1, <4>2, <4>3
      <4>4. CASE s # {}
        <5>1. s \ {Max(s)} \in SUBSET (1..k) BY <4>1
        <5>2. s \ {Max(s)} \in SUBSET (1..(k + 1)) /\ k + 1 \notin s \ {Max(s)} BY <3>2
        <5>3. g[s \ {Max(s)}] = f[s \ {Max(s)}] BY <5>2
        <5>4. f[s] = Body(f, s) BY <2>2, <4>1
        <5> HIDE DEF g
        <5> QED BY <4>2, <4>4, <5>3, <5>4
      <4> QED BY <4>3, <4>4
    <3> QED BY <3>1, <3>2
  <2> HIDE DEF g
  <2> QED BY <2>3, <2>4 DEF P
<1>3. Nat \subseteq S BY <1>1, <1>2, Induct
<1>4. P(n) BY <1>3
<1>5. PICK f : /\ f = [s \in SUBSET (1..n) |-> f[s]]
               /\ \A s \in SUBSET (1..n) : f[s] = Body(f, s)
  BY <1>4 DEF P
<1>6. [s \in SUBSET (1..n) |-> f[s]] = [s \in SUBSET (1..n) |-> Body(f, s)] BY <1>5
<1>7. f = [s \in SUBSET (1..n) |-> Body(f, s)] BY <1>5, <1>6
<1> QED BY <1>7 DEF SetSums

\* The sums over all sets extend the sums of the first values.
LEMMA SetSumsArePrefixSums ==
  ASSUME NEW n \in Nat, NEW v \in [1..n -> Nat], NEW f, SetSums(f, v, n)
  PROVE  \E p : PrefixSums(p, v, n) /\ p[n] = f[1..n]
<1> DEFINE p == [i \in 0..n |-> f[1..i]]
<1>1. \A s \in SUBSET (1..n) : f[s] = IF s = {} THEN 0 ELSE f[s \ {Max(s)}] + v[Max(s)]
  BY DEF SetSums
<1>2. f[1..0] = 0
  <2>1. 1..0 = {} OBVIOUS
  <2> QED BY <1>1, <2>1
<1>3. ASSUME NEW i \in 1..n PROVE f[1..i] = f[1..(i - 1)] + v[i]
  <2>1. 1..i \in SUBSET (1..n) /\ 1..i \in SUBSET Int /\ i \in 1..i /\ \A y \in 1..i : y <= i
    OBVIOUS
  <2>2. Max(1..i) = i BY <2>1, MaxIs
  <2>3. (1..i) \ {i} = 1..(i - 1) OBVIOUS
  <2> QED BY <1>1, <2>1, <2>2, <2>3
<1>4. \A i \in 0..n : f[1..i] \in Nat
  <2> DEFINE S == {k \in Nat : k <= n => f[1..k] \in Nat}
  <2>1. 0 \in S BY <1>2
  <2>2. ASSUME NEW k \in Nat, k \in S PROVE k + 1 \in S
    <3> SUFFICES ASSUME k + 1 <= n PROVE f[1..(k + 1)] \in Nat
      OBVIOUS
    <3> DEFINE j == k + 1
    <3>1. j \in 1..n /\ j - 1 = k OBVIOUS
    <3> HIDE DEF j
    <3>2. f[1..j] = f[1..(j - 1)] + v[j] /\ v[j] \in Nat BY <1>3, <3>1
    <3>3. f[1..k] \in Nat BY <2>2
    <3>4. f[1..j] \in Nat BY <3>1, <3>2, <3>3
    <3> QED BY <3>4 DEF j
  <2>3. Nat \subseteq S BY <2>1, <2>2, Induct
  <2> QED BY <2>3
<1>5. PrefixSums(p, v, n)
  <2>1. p \in [0..n -> Nat] /\ p[0] = 0 BY <1>2, <1>4
  <2>2. \A i \in 1..n : p[i] = f[1..i] /\ p[i - 1] = f[1..(i - 1)] OBVIOUS
  <2> HIDE DEF p
  <2> QED BY <1>3, <2>1, <2>2 DEF PrefixSums
<1>6. p[n] = f[1..n] OBVIOUS
<1> QED BY <1>5, <1>6

\* A sum of smaller values is smaller.
LEMMA PrefixSumsMonotone ==
  ASSUME NEW n \in Nat, NEW v \in [1..n -> Nat], NEW w \in [1..n -> Nat], NEW p, NEW q,
         PrefixSums(p, v, n), PrefixSums(q, w, n), \A i \in 1..n : v[i] <= w[i]
  PROVE  p[n] \in Nat /\ q[n] \in Nat /\ p[n] <= q[n]
<1> DEFINE S == {k \in Nat : k <= n => p[k] <= q[k]}
<1>1. 0 \in S BY DEF PrefixSums
<1>2. ASSUME NEW k \in Nat, k \in S PROVE k + 1 \in S
  <2> SUFFICES ASSUME k + 1 <= n PROVE p[k + 1] <= q[k + 1]
    OBVIOUS
  <2> DEFINE j == k + 1
  <2>1. j \in 1..n /\ j - 1 = k /\ k \in 0..n OBVIOUS
  <2> HIDE DEF j
  <2>2. p[j] = p[k] + v[j] /\ q[j] = q[k] + w[j] /\ v[j] <= w[j] BY <2>1 DEF PrefixSums
  <2>3. p[k] \in Nat /\ q[k] \in Nat /\ v[j] \in Nat /\ w[j] \in Nat BY <2>1 DEF PrefixSums
  <2>4. p[k] <= q[k] BY <1>2, <2>1
  <2>5. p[j] <= q[j] BY <2>2, <2>3, <2>4
  <2> QED BY <2>5 DEF j
<1>3. Nat \subseteq S BY <1>1, <1>2, Induct
<1>4. p[n] <= q[n] BY <1>3
<1>5. n \in 0..n OBVIOUS
<1> QED BY <1>4, <1>5 DEF PrefixSums

\* One value more adds it.
LEMMA PrefixSumsExtend ==
  ASSUME NEW n \in Nat, NEW v \in [1..n -> Nat], NEW w \in [1..(n + 1) -> Nat], NEW p, NEW q,
         PrefixSums(p, v, n), PrefixSums(q, w, n + 1), \A i \in 1..n : v[i] = w[i]
  PROVE  p[n] \in Nat /\ q[n + 1] = p[n] + w[n + 1]
<1> DEFINE S == {k \in Nat : k <= n => p[k] = q[k]}
<1>1. 0 \in S BY DEF PrefixSums
<1>2. ASSUME NEW k \in Nat, k \in S PROVE k + 1 \in S
  <2> SUFFICES ASSUME k + 1 <= n PROVE p[k + 1] = q[k + 1]
    OBVIOUS
  <2> DEFINE j == k + 1
  <2>1. j \in 1..n /\ j \in 1..(n + 1) /\ j - 1 = k OBVIOUS
  <2> HIDE DEF j
  <2>2. p[j] = p[k] + v[j] /\ q[j] = q[k] + w[j] /\ v[j] = w[j] BY <2>1 DEF PrefixSums
  <2>3. p[k] = q[k] BY <1>2, <2>1
  <2>4. p[j] = q[j] BY <2>2, <2>3
  <2> QED BY <2>4 DEF j
<1>3. Nat \subseteq S BY <1>1, <1>2, Induct
<1>4. p[n] = q[n] BY <1>3
<1> DEFINE j == n + 1
<1>5. j \in 1..(n + 1) /\ j - 1 = n /\ n \in 0..n OBVIOUS
<1> HIDE DEF j
<1>6. q[j] = q[n] + w[j] /\ p[n] \in Nat BY <1>5 DEF PrefixSums
<1> QED BY <1>4, <1>6 DEF j

\* The first k + 1 elements are the first k and the next one.
LEMMA OneFurther ==
  ASSUME NEW X, NEW a \in Seq(X), NEW b \in Seq(X), NEW k \in Nat, k + 1 <= Len(b)
  PROVE  /\ SubSeq(b, 1, k) \in Seq(X) /\ b[k + 1] \in X /\ a \o SubSeq(b, 1, k) \in Seq(X)
         /\ SubSeq(b, 1, k + 1) = Append(SubSeq(b, 1, k), b[k + 1])
         /\ a \o SubSeq(b, 1, k + 1) = Append(a \o SubSeq(b, 1, k), b[k + 1])
<1> DEFINE p == SubSeq(b, 1, k)
           u == b[k + 1]
<1>1. /\ p \in Seq(X) /\ Len(p) = k /\ \A i \in 1..k : p[i] = b[i]
      /\ u \in X
  OBVIOUS
<1>2. SubSeq(b, 1, k + 1) = Append(p, u) OBVIOUS
<1>3. a \o p \in Seq(X) BY <1>1
<1> HIDE DEF p, u
<1>4. a \o Append(p, u) = Append(a \o p, u) BY <1>1
<1> QED BY <1>1, <1>2, <1>3, <1>4 DEF p, u

\* Concatenation is associative.
AssociativeOn(X) == \A x, y, z \in Seq(X) : (x \o y) \o z = x \o (y \o z)

\* It is so on sequences of anything.
LEMMA Associative == \A X : AssociativeOn(X)
<1> TAKE X
<1>1. \A x, y, z \in Seq(X) : (x \o y) \o z = x \o (y \o z) BY ConcatAssociative
<1> QED BY <1>1 DEF AssociativeOn

\* Flattening two sequences of sequences behind each other.
LEMMA FlattenConcat ==
  ASSUME NEW Q, NEW a \in Seq(Seq(Q)), NEW b \in Seq(Seq(Q))
  PROVE  FlattenSeq(a \o b) = FlattenSeq(a) \o FlattenSeq(b) /\ FlattenSeq(a) \in Seq(Q)
<1> DEFINE X == Seq(Q)
           n == Len(b)
           F(k) == FlattenSeq(a \o SubSeq(b, 1, k)) = FlattenSeq(a) \o FlattenSeq(SubSeq(b, 1, k))
           S == {k \in Nat : k <= n => F(k)}
<1>1. \A c \in Seq(Seq(Q)) : FlattenSeq(c) \in Seq(Q)
  <2> TAKE c \in Seq(Seq(Q))
  <2>1. PICK g \in [0..Len(c) -> Seq(Q)] : FlattenSeq(c) = g[Len(c)] BY Flattened
  <2>2. Len(c) \in 0..Len(c) OBVIOUS
  <2> QED BY <2>1, <2>2
<1>2. a \in Seq(X) /\ b \in Seq(X) /\ n \in Nat OBVIOUS
<1>3. 0 \in S
  <2>1. SubSeq(b, 1, 0) = <<>> BY SubSeqEmpty
  <2>2. a \o <<>> = a BY ConcatEmptySeq
  <2>3. FlattenSeq(a) \o <<>> = FlattenSeq(a) BY <1>1, ConcatEmptySeq
  <2> QED BY <2>1, <2>2, <2>3, FlattenNothing
<1>4. ASSUME NEW k \in Nat, k \in S PROVE k + 1 \in S
  <2> SUFFICES ASSUME k + 1 <= n PROVE F(k + 1)
    OBVIOUS
  <2> DEFINE p == SubSeq(b, 1, k)
             u == b[k + 1]
  <2>1. F(k) BY <1>2, <1>4
  <2>2. /\ p \in Seq(X) /\ u \in X /\ a \o p \in Seq(X)
        /\ SubSeq(b, 1, k + 1) = Append(p, u) /\ a \o SubSeq(b, 1, k + 1) = Append(a \o p, u)
    BY <1>2, OneFurther
  <2> HIDE DEF p, u, X
  <2>7. FlattenSeq(Append(a \o p, u)) = FlattenSeq(a \o p) \o u BY <2>2, FlattenAppend DEF X
  <2>8. FlattenSeq(Append(p, u)) = FlattenSeq(p) \o u BY <2>2, FlattenAppend DEF X
  <2>9. FlattenSeq(a \o p) = FlattenSeq(a) \o FlattenSeq(p) BY <2>1 DEF p
  <2>10. (FlattenSeq(a) \o FlattenSeq(p)) \o u = FlattenSeq(a) \o (FlattenSeq(p) \o u)
    <3>1. FlattenSeq(a) \in Seq(Q) /\ FlattenSeq(p) \in Seq(Q) /\ u \in Seq(Q)
      BY <1>1, <1>2, <2>2 DEF X
    <3> DEFINE x == FlattenSeq(a)
               y == FlattenSeq(p)
    <3>2. x \in Seq(Q) /\ y \in Seq(Q) /\ u \in Seq(Q) BY <3>1
    <3> HIDE DEF x, y
    <3>4. AssociativeOn(Q) BY Associative
    <3>3. (x \o y) \o u = x \o (y \o u) BY <3>2, <3>4 DEF AssociativeOn
    <3> QED BY <3>3 DEF x, y
  <2>11. FlattenSeq(a \o SubSeq(b, 1, k + 1)) = FlattenSeq(a) \o FlattenSeq(SubSeq(b, 1, k + 1))
    BY <2>2, <2>7, <2>8, <2>9, <2>10
  <2> QED BY <2>11
<1> HIDE DEF S
<1>5. Nat \subseteq S BY <1>3, <1>4, Induct
<1>6. F(n) BY <1>2, <1>5 DEF S
<1>7. SubSeq(b, 1, n) = b BY <1>2, SubSeqFull
<1> QED BY <1>1, <1>6, <1>7

\* What is flattened from the s-th sequence on begins with that one.
LEMMA FlattenFrom ==
  ASSUME NEW Q, NEW a \in Seq(Seq(Q)), NEW s \in 1..Len(a)
  PROVE  /\ FlattenSeq(SubSeq(a, s, Len(a))) = a[s] \o FlattenSeq(SubSeq(a, s + 1, Len(a)))
         /\ FlattenSeq(SubSeq(a, s + 1, Len(a))) \in Seq(Q)
<1> DEFINE X == Seq(Q)
           u == a[s]
           r == SubSeq(a, s + 1, Len(a))
<1>1. a \in Seq(X) /\ u \in X OBVIOUS
<1> HIDE DEF X
<1>2. SubSeq(a, s, Len(a)) = <<u>> \o r BY <1>1, SubSeqRecursiveFirst
<1>3. r \in Seq(X)
  <2>1. \A i \in (s + 1)..Len(a) : a[i] \in X BY <1>1
  <2>2. s + 1 \in Int /\ Len(a) \in Int BY <1>1
  <2> QED BY <2>1, <2>2, SubSeqProperties
<1>4. <<u>> \in Seq(X) BY <1>1
<1> HIDE DEF r, u
<1>5. FlattenSeq(<<u>> \o r) = FlattenSeq(<<u>>) \o FlattenSeq(r) BY <1>3, <1>4, FlattenConcat DEF X
<1>6. FlattenSeq(<<u>>) = u
  <2>1. <<>> \in Seq(X) /\ Append(<<>>, u) = <<u>> BY <1>1
  <2>2. FlattenSeq(Append(<<>>, u)) = FlattenSeq(<<>>) \o u BY <1>1, <2>1, FlattenAppend DEF X
  <2>3. <<>> \o u = u BY <1>1, ConcatEmptySeq DEF X
  <2> QED BY <2>1, <2>2, <2>3, FlattenNothing
<1>7. FlattenSeq(r) \in Seq(Q)
  <2>1. PICK g \in [0..Len(r) -> Seq(Q)] : FlattenSeq(r) = g[Len(r)] BY <1>3, Flattened DEF X
  <2>2. Len(r) \in 0..Len(r) BY <1>3
  <2> QED BY <2>1, <2>2
<1> QED BY <1>2, <1>5, <1>6, <1>7 DEF r, u

\* A filter that lets one element through, x at k.
OnlyAt(a, k, x) == a[k] = <<x>> /\ \A i \in 1..Len(a) : i # k => a[i] = <<>>

\* Of sequences of which one is not empty flattening leaves that one.
LEMMA FlattenOne ==
  ASSUME NEW Q, NEW a \in Seq(Seq(Q)), NEW k \in 1..Len(a), NEW x \in Q, OnlyAt(a, k, x)
  PROVE  FlattenSeq(a) = <<x>>
<1> USE DEF OnlyAt
<1> DEFINE r == FlattenSeq(a)
<1>1. \A i \in 1..Len(a) : a[i] = <<>> \/ \E y \in Q : a[i] = <<y>> OBVIOUS
<1>2. r \in Seq(Q) /\ \E f : Picks(r, a, f, Occupied(a, Len(a))) BY <1>1, FlattenUnits
<1> HIDE DEF r
<1>3. PICK f : Picks(r, a, f, Occupied(a, Len(a))) BY <1>2
<1>4. Occupied(a, Len(a)) = {k}
  <2>1. <<x>> # <<>> OBVIOUS
  <2>2. \A i \in 1..Len(a) : a[i] # <<>> <=> i = k BY <2>1
  <2> QED BY <2>2 DEF Occupied
<1>5. f \in [1..Len(r) -> {k}] /\ Increasing(f, Len(r)) /\ (\E j \in 1..Len(r) : f[j] = k)
      /\ \A j \in 1..Len(r) : r[j] = a[f[j]][1]
  BY <1>3, <1>4 DEF Picks, Enumerates
<1>6. Len(r) \in Nat BY <1>2
<1>7. Len(r) = 1
  <2> DEFINE g == [i \in 1..1 |-> k]
  <2>1. {k} \in SUBSET Int /\ 1 \in Nat OBVIOUS
  <2>2. Enumerates(f, Len(r), {k}) BY <1>3, <1>4 DEF Picks
  <2>3. Enumerates(g, 1, {k}) BY DEF Enumerates, Increasing
  <2> HIDE DEF g
  <2> QED BY <1>6, <2>1, <2>2, <2>3, EnumerationsAgree
<1>8. r[1] = x BY <1>5, <1>7
<1>9. r = <<x>> BY <1>2, <1>7, <1>8
<1> QED BY <1>9 DEF r

\* Of empty sequences flattening leaves nothing.
LEMMA FlattenNone ==
  ASSUME NEW Q, NEW a \in Seq(Seq(Q)), \A i \in 1..Len(a) : a[i] = <<>>
  PROVE  FlattenSeq(a) = <<>>
<1> DEFINE r == FlattenSeq(a)
<1>1. r \in Seq(Q) /\ \E f : Picks(r, a, f, Occupied(a, Len(a))) BY FlattenUnits
<1> HIDE DEF r
<1>2. PICK f : Picks(r, a, f, Occupied(a, Len(a))) BY <1>1
<1>3. Occupied(a, Len(a)) = {} BY DEF Occupied
<1>4. f \in [1..Len(r) -> {}] BY <1>2, <1>3 DEF Picks, Enumerates
<1>5. Len(r) = 0
  <2>1. Len(r) \in Nat BY <1>1
  <2>2. CASE Len(r) > 0
    <3>1. 1 \in 1..Len(r) BY <2>1, <2>2
    <3>2. f[1] \in {} BY <1>4, <3>1
    <3> QED BY <3>2
  <2> QED BY <2>1, <2>2
<1>6. r = <<>> BY <1>1, <1>5
<1> QED BY <1>6 DEF r
=============================================================================
