----------------------- MODULE FixConversation_proofs ------------------------
(***************************************************************************)
(* What the passes of fix_conversation do to messages of any number and    *)
(* content.  They are folds, whose values are listed as traces (g[k] is    *)
(* the value after k elements); facts about all elements are proved along  *)
(* the trace, by the least number that has no such fact.                   *)
(***************************************************************************)
EXTENDS FixConversation, WellFoundedInduction, TLAPS

LEMMA LeastMember ==
  ASSUME NEW S \in SUBSET Nat, S # {}
  PROVE  \E n \in S : \A m \in S : n <= m
PROOF
  <1>1. IsWellFoundedOn(OpToRel(<, Nat), Nat) BY NatLessThanWellFounded
  <1>2. PICK n \in S : \A m \in S : ~(<<m, n>> \in OpToRel(<, Nat)) BY <1>1, WFMin
  <1>3. \A m \in S : ~(m < n) BY <1>2 DEF OpToRel
  <1> QED BY <1>3

\* Induction up to n, for a property given as the set of numbers that have it
LEMMA InductionTo ==
  ASSUME NEW n \in Nat, NEW T, 0 \in T, \A k \in 0 .. n : k # n /\ k \in T => k + 1 \in T
  PROVE  \A k \in 0 .. n : k \in T
PROOF
  <1> DEFINE Bad == {k \in 0 .. n : k \notin T}
  <1>1. SUFFICES ASSUME Bad # {} PROVE FALSE OBVIOUS
  <1>2. PICK k \in Bad : \A m \in Bad : k <= m
    <2>1. Bad \in SUBSET Nat OBVIOUS
    <2> HIDE DEF Bad
    <2> QED BY <1>1, <2>1, LeastMember
  <1>3. k # 0 /\ k - 1 \in 0 .. n /\ k - 1 \notin Bad BY <1>2
  <1>4. k - 1 \in T /\ k - 1 # n BY <1>2, <1>3
  <1> QED BY <1>2, <1>3, <1>4

LEMMA LastMax == \A k \in Nat \ {0} : \A S \in SUBSET (1 .. k) : k \in S => Max(S) = k
PROOF
  <1> SUFFICES ASSUME NEW k \in Nat \ {0}, NEW S \in SUBSET (1 .. k), k \in S PROVE Max(S) = k OBVIOUS
  <1>1. \A y \in S : k >= y OBVIOUS
  <1>2. \A x \in S : (\A y \in S : x >= y) => x = k OBVIOUS
  <1> QED BY <1>1, <1>2 DEF Max

-----------------------------------------------------------------------------
(***************************************************************************)
(* Folds.  FoldLeft is a function on the sets of places, of which only the *)
(* sets 1 .. k matter.                                                     *)
(***************************************************************************)
IsFold(f, n, b, h) ==
  \A S \in SUBSET (1 .. n) : f[S] = IF S = {} THEN b ELSE h[Max(S)][f[S \ {Max(S)}]]

LEMMA FoldExists ==
  ASSUME NEW V, NEW b \in V, NEW n \in Nat, NEW h \in [1 .. n -> [V -> V]]
  PROVE  \E f \in [SUBSET (1 .. n) -> V] : IsFold(f, n, b, h)
PROOF
  <1> DEFINE P(k) == \E f \in [SUBSET (1 .. k) -> V] : IsFold(f, k, b, h)
             T == {k \in 0 .. n : P(k)}
  <1>1. 0 \in T
    <2> DEFINE f == [S \in SUBSET (1 .. 0) |-> b]
    <2>1. \A S \in SUBSET (1 .. 0) : S = {} OBVIOUS
    <2>2. f \in [SUBSET (1 .. 0) -> V] OBVIOUS
    <2>3. IsFold(f, 0, b, h) BY <2>1 DEF IsFold
    <2>4. P(0) BY <2>2, <2>3
    <2>5. 0 \in 0 .. n OBVIOUS
    <2> HIDE DEF P
    <2> QED BY <2>4, <2>5
  <1>2. ASSUME NEW j \in 0 .. n, j # n, j \in T PROVE j + 1 \in T
    <2> DEFINE k == j + 1
    <2>1. k \in 1 .. n /\ k \in Nat \ {0} BY <1>2
    <2>2. PICK f \in [SUBSET (1 .. j) -> V] : IsFold(f, j, b, h) BY <1>2
    <2> DEFINE e == [S \in SUBSET (1 .. k) |-> IF k \in S THEN h[k][f[S \ {k}]] ELSE f[S]]
    <2>3. \A S \in SUBSET (1 .. k) : IF k \in S THEN S \ {k} \in SUBSET (1 .. j) ELSE S \in SUBSET (1 .. j)
      OBVIOUS
    <2>4. e \in [SUBSET (1 .. k) -> V]
      <3> SUFFICES ASSUME NEW S \in SUBSET (1 .. k)
                   PROVE  (IF k \in S THEN h[k][f[S \ {k}]] ELSE f[S]) \in V
        OBVIOUS
      <3>1. CASE k \in S
        <4>1. f[S \ {k}] \in V BY <2>3, <3>1
        <4>2. h[k] \in [V -> V] BY <2>1
        <4> QED BY <3>1, <4>1, <4>2
      <3>2. CASE k \notin S BY <2>3, <3>2
      <3> QED BY <3>1, <3>2
    <2>5. ASSUME NEW S \in SUBSET (1 .. k)
          PROVE  e[S] = IF S = {} THEN b ELSE h[Max(S)][e[S \ {Max(S)}]]
      <3>1. CASE k \in S
        <4>1. Max(S) = k BY <2>1, <3>1, LastMax
        <4>2. S \ {k} \in SUBSET (1 .. k) /\ k \notin S \ {k} OBVIOUS
        <4>3. e[S] = h[k][f[S \ {k}]] BY <3>1
        <4>4. e[S \ {k}] = f[S \ {k}] BY <4>2
        <4> QED BY <3>1, <4>1, <4>3, <4>4
      <3>2. CASE k \notin S
        <4>1. S \in SUBSET (1 .. j) BY <2>3, <3>2
        <4>2. e[S] = f[S] BY <3>2
        <4>3. S \ {Max(S)} \in SUBSET (1 .. k) /\ k \notin S \ {Max(S)} BY <3>2
        <4>4. e[S \ {Max(S)}] = f[S \ {Max(S)}] BY <4>3
        <4> QED BY <2>2, <4>1, <4>2, <4>4 DEF IsFold
      <3> QED BY <3>1, <3>2
    <2>6. P(k)
      <3> HIDE DEF e
      <3> QED BY <2>4, <2>5 DEF IsFold
    <2> HIDE DEF P
    <2> QED BY <2>1, <2>6
  <1>3. \A k \in 0 .. n : k \in T
    <2> HIDE DEF T
    <2> QED BY <1>1, <1>2, InductionTo
  <1>4. n \in T
    <2>1. n \in 0 .. n OBVIOUS
    <2> HIDE DEF T
    <2> QED BY <1>3, <2>1
  <1>5. P(n)
    <2> HIDE DEF P
    <2> QED BY <1>4
  <1> QED BY <1>5

\* f folds n places from b, whatever it does to other sets of places
Folds(f, V, n, b, h) ==
  /\ f[{}] = b
  /\ \A S \in SUBSET (1 .. n) : S # {} /\ f[S \ {Max(S)}] \in V => f[S] = h[Max(S)][f[S \ {Max(S)}]]

\* g lists its values on the first 0, 1, ..., n places
IsTrace(g, V, n, b, h) ==
  /\ g \in [0 .. n -> V]
  /\ g[0] = b
  /\ \A k \in 1 .. n : g[k] = h[k][g[k - 1]]

\* n steps, from b, that do not leave V
StepsIn(V, n, b, h) == b \in V /\ n \in Nat /\ h \in [1 .. n -> [V -> V]]

LEMMA FoldTrace ==
  ASSUME NEW V, NEW n, NEW b, NEW h, NEW f, StepsIn(V, n, b, h), Folds(f, V, n, b, h)
  PROVE  \E g : IsTrace(g, V, n, b, h) /\ f[1 .. n] = g[n]
PROOF
  <1> USE DEF StepsIn
  <1> DEFINE T == {k \in 0 .. n : f[1 .. k] \in V}
  <1>0. ASSUME NEW k \in 1 .. n PROVE 1 .. k # {} /\ Max(1 .. k) = k /\ (1 .. k) \ {k} = 1 .. (k - 1)
    <2>1. k \in Nat \ {0} /\ k \in 1 .. k OBVIOUS
    <2>2. Max(1 .. k) = k BY <2>1, LastMax
    <2>3. \A j : j \in (1 .. k) \ {k} <=> j \in 1 .. (k - 1) OBVIOUS
    <2> QED BY <2>1, <2>2, <2>3
  <1>a. ASSUME NEW k \in 1 .. n, f[1 .. (k - 1)] \in V PROVE f[1 .. k] = h[k][f[1 .. (k - 1)]]
    <2>1. 1 .. k \in SUBSET (1 .. n) OBVIOUS
    <2> QED BY <1>0, <1>a, <2>1 DEF Folds
  <1>1. 1 .. 0 = {} OBVIOUS
  <1>2. 0 \in T BY <1>1 DEF Folds
  <1>3. ASSUME NEW k \in 0 .. n, k # n, k \in T PROVE k + 1 \in T
    <2>1. k + 1 \in 1 .. n /\ (k + 1) - 1 = k BY <1>3
    <2>2. f[1 .. (k + 1)] = h[k + 1][f[1 .. k]] BY <1>3, <1>a, <2>1
    <2>3. h[k + 1] \in [V -> V] BY <2>1
    <2> QED BY <1>3, <2>1, <2>2, <2>3
  <1>4. \A k \in 0 .. n : k \in T
    <2> HIDE DEF T
    <2> QED BY <1>2, <1>3, InductionTo
  <1> DEFINE g == [k \in 0 .. n |-> f[1 .. k]]
  <1>5. g \in [0 .. n -> V] BY <1>4
  <1>6. g[0] = b BY <1>1 DEF Folds
  <1>7. \A k \in 1 .. n : g[k] = h[k][g[k - 1]]
    <2> SUFFICES ASSUME NEW k \in 1 .. n PROVE g[k] = h[k][g[k - 1]] OBVIOUS
    <2>1. k - 1 \in 0 .. n /\ k \in 0 .. n OBVIOUS
    <2>2. f[1 .. (k - 1)] \in V BY <1>4, <2>1
    <2> QED BY <1>a, <2>1, <2>2
  <1>8. f[1 .. n] = g[n] OBVIOUS
  <1> HIDE DEF g
  <1> QED BY <1>5, <1>6, <1>7, <1>8 DEF IsTrace

LEMMA TraceUnique ==
  ASSUME NEW n \in Nat, NEW h, NEW f, NEW g, f[0] = g[0],
         \A k \in 1 .. n : f[k] = h[k][f[k - 1]] /\ g[k] = h[k][g[k - 1]]
  PROVE  f[n] = g[n]
PROOF
  <1> DEFINE T == {k \in 0 .. n : f[k] = g[k]}
  <1>1. 0 \in T OBVIOUS
  <1>2. ASSUME NEW k \in 0 .. n, k # n, k \in T PROVE k + 1 \in T
    <2>1. k + 1 \in 1 .. n /\ (k + 1) - 1 = k BY <1>2
    <2> QED BY <1>2, <2>1
  <1>3. \A k \in 0 .. n : k \in T
    <2> HIDE DEF T
    <2> QED BY <1>1, <1>2, InductionTo
  <1> QED BY <1>3

LEMMA TraceExists ==
  ASSUME NEW V, NEW b \in V, NEW n \in Nat, NEW h \in [1 .. n -> [V -> V]]
  PROVE  \E g : IsTrace(g, V, n, b, h)
PROOF
  <1>1. PICK f \in [SUBSET (1 .. n) -> V] : IsFold(f, n, b, h) BY FoldExists
  <1>2. \A S \in SUBSET (1 .. n) : S \ {Max(S)} \in SUBSET (1 .. n) OBVIOUS
  <1>3. Folds(f, V, n, b, h) BY <1>1, <1>2 DEF Folds, IsFold
  <1>4. StepsIn(V, n, b, h) BY DEF StepsIn
  <1> QED BY <1>3, <1>4, FoldTrace

-----------------------------------------------------------------------------
(***************************************************************************)
(* Picked: the elements at the places in K, in their order.                *)
(***************************************************************************)
IsPicking(g, s, K) ==
  /\ g[0] = <<>>
  /\ \A k \in 1 .. Len(s) : g[k] = IF k \in K THEN Append(g[k - 1], s[k]) ELSE g[k - 1]

LEMMA SamePicking ==
  ASSUME NEW S, NEW s \in Seq(S), NEW t \in Seq(S), NEW K, NEW L, NEW f, NEW g, NEW n \in Nat,
         n <= Len(s), n <= Len(t), IsPicking(f, s, K), IsPicking(g, t, L),
         \A k \in 1 .. n : s[k] = t[k] /\ (k \in K <=> k \in L)
  PROVE  f[n] = g[n]
PROOF
  <1> DEFINE T == {k \in 0 .. n : f[k] = g[k]}
  <1>1. 0 \in T BY DEF IsPicking
  <1>2. ASSUME NEW k \in 0 .. n, k # n, k \in T PROVE k + 1 \in T
    <2>1. k + 1 \in 1 .. n /\ (k + 1) - 1 = k /\ k + 1 \in 1 .. Len(s) /\ k + 1 \in 1 .. Len(t)
      BY <1>2
    <2>2. f[k + 1] = IF k + 1 \in K THEN Append(f[k], s[k + 1]) ELSE f[k] BY <2>1 DEF IsPicking
    <2>3. g[k + 1] = IF k + 1 \in L THEN Append(g[k], t[k + 1]) ELSE g[k] BY <2>1 DEF IsPicking
    <2> QED BY <1>2, <2>1, <2>2, <2>3
  <1>3. \A k \in 0 .. n : k \in T
    <2> HIDE DEF T
    <2> QED BY <1>1, <1>2, InductionTo
  <1> QED BY <1>3

\* Picked is the last of the sequences picked from the first 0, 1, ... elements
LEMMA PickedRun ==
  ASSUME NEW S, NEW s \in Seq(S), NEW K
  PROVE  \E g \in [0 .. Len(s) -> Seq(S)] : IsPicking(g, s, K) /\ Picked(s, K) = g[Len(s)]
PROOF
  <1> DEFINE n == Len(s)
             V == Seq(S)
             h == [k \in 1 .. n |-> [v \in V |-> IF k \in K THEN Append(v, s[k]) ELSE v]]
             P(c) == c = [k \in 0 .. n |-> IF k = 0 THEN <<>>
                                           ELSE IF k \in K THEN Append(c[k - 1], s[k]) ELSE c[k - 1]]
  <1>1. n \in Nat /\ <<>> \in V OBVIOUS
  <1>2. h \in [1 .. n -> [V -> V]]
    <2>1. \A k \in 1 .. n : s[k] \in S OBVIOUS
    <2>2. \A k \in 1 .. n, v \in V : (IF k \in K THEN Append(v, s[k]) ELSE v) \in V BY <2>1
    <2> HIDE DEF V
    <2> QED BY <2>2
  <1>3. PICK g : IsTrace(g, V, n, <<>>, h)
    <2> HIDE DEF h, V, n
    <2> QED BY <1>1, <1>2, TraceExists
  <1>4. \A k \in 1 .. n : g[k] = IF k \in K THEN Append(g[k - 1], s[k]) ELSE g[k - 1]
    <2> SUFFICES ASSUME NEW k \in 1 .. n
                 PROVE  g[k] = IF k \in K THEN Append(g[k - 1], s[k]) ELSE g[k - 1]
      OBVIOUS
    <2>1. g[k - 1] \in V BY <1>3 DEF IsTrace
    <2> HIDE DEF V
    <2> QED BY <1>3, <2>1 DEF IsTrace
  <1>0. \A k \in 0 .. n : k = 0 \/ k \in 1 .. n BY <1>1
  <1>5. P(g)
    <2>1. g \in [0 .. n -> V] /\ g[0] = <<>> BY <1>3 DEF IsTrace
    <2> HIDE DEF V, h, n
    <2> QED BY <1>0, <1>1, <1>4, <2>1
  <1>6. PICK c : c = CHOOSE d : P(d) OBVIOUS
  <1>7. P(c) BY <1>5, <1>6
  <1>8. Picked(s, K) = c[n] BY <1>6 DEF Picked
  <1>9. \A k \in 1 .. n : c[k] = IF k \in K THEN Append(c[k - 1], s[k]) ELSE c[k - 1]
    <2> SUFFICES ASSUME NEW k \in 1 .. n
                 PROVE  c[k] = IF k \in K THEN Append(c[k - 1], s[k]) ELSE c[k - 1]
      OBVIOUS
    <2>1. k \in 0 .. n /\ k # 0 BY <1>1
    <2> HIDE DEF n
    <2> QED BY <1>7, <2>1
  <1>10. IsPicking(c, s, K)
    <2>1. c[0] = <<>> BY <1>1, <1>7
    <2> HIDE DEF P
    <2> QED BY <1>9, <2>1 DEF IsPicking
  <1>11. IsPicking(g, s, K) /\ g \in [0 .. n -> V]
    <2> HIDE DEF h, V
    <2> QED BY <1>3, <1>4 DEF IsTrace, IsPicking
  <1>12. c[n] = g[n]
    <2> HIDE DEF P
    <2> QED BY <1>10, <1>11, SamePicking
  <1> HIDE DEF h, P
  <1> QED BY <1>8, <1>11, <1>12

\* e tells for each place of p the place of s its element comes from
Picks(e, p, s, K) ==
  /\ e \in [1 .. Len(p) -> 1 .. Len(s)]
  /\ \A j \in 1 .. Len(p) : e[j] \in K /\ p[j] = s[e[j]]
  /\ \A i, j \in 1 .. Len(p) : i < j => e[i] < e[j]
  /\ \A k \in 1 .. Len(s) : k \in K => \E j \in 1 .. Len(p) : e[j] = k

LEMMA PickedPlaces ==
  ASSUME NEW S, NEW s \in Seq(S), NEW K
  PROVE  /\ Picked(s, K) \in Seq(S) /\ Len(Picked(s, K)) <= Len(s)
         /\ \E e : Picks(e, Picked(s, K), s, K)
PROOF
  <1> DEFINE n == Len(s)
  <1>1. PICK g \in [0 .. n -> Seq(S)] : IsPicking(g, s, K) /\ Picked(s, K) = g[n] BY PickedRun
  <1> DEFINE Good(k) == Len(g[k]) <= k /\ \E e : Picks(e, g[k], s, K \cap (1 .. k))
             T == {k \in 0 .. n : Good(k)}
  <1>2. n \in Nat OBVIOUS
  <1>3. 0 \in T
    <2>1. g[0] = <<>> BY <1>1 DEF IsPicking
    <2>2. Picks([j \in {} |-> 1], <<>>, s, K \cap (1 .. 0)) BY DEF Picks
    <2>3. Len(g[0]) <= 0 /\ 0 \in 0 .. n BY <2>1
    <2> QED BY <2>1, <2>2, <2>3
  <1>4. ASSUME NEW k \in 0 .. n, k # n, k \in T PROVE k + 1 \in T
    <2> DEFINE q == g[k]
    <2>1. k + 1 \in 1 .. n /\ (k + 1) - 1 = k /\ k \in Nat BY <1>4
    <2>2. g[k + 1] = IF k + 1 \in K THEN Append(q, s[k + 1]) ELSE q BY <1>1, <2>1 DEF IsPicking
    <2>3. q \in Seq(S) /\ Len(q) <= k /\ s[k + 1] \in S BY <1>1, <1>4, <2>1
    <2>4. PICK e : Picks(e, q, s, K \cap (1 .. k)) BY <1>4
    <2>5. CASE k + 1 \notin K
      <3>1. K \cap (1 .. (k + 1)) = K \cap (1 .. k) BY <2>1, <2>5
      <3> QED BY <2>1, <2>2, <2>3, <2>4, <2>5, <3>1
    <2>6. CASE k + 1 \in K
      <3> DEFINE m == Len(q) + 1
                 p == Append(q, s[k + 1])
                 d == [j \in 1 .. m |-> IF j = m THEN k + 1 ELSE e[j]]
      <3>1. Len(p) = m /\ p[m] = s[k + 1] /\ \A j \in 1 .. Len(q) : p[j] = q[j] BY <2>3
      <3>2. \A j \in 1 .. m : j # m => j \in 1 .. Len(q) BY <2>3
      <3>3. \A j \in 1 .. Len(q) : e[j] \in K /\ e[j] \in 1 .. k /\ e[j] \in 1 .. n /\ q[j] = s[e[j]]
        BY <2>4 DEF Picks
      <3>4. d \in [1 .. m -> 1 .. n] BY <2>1, <3>2, <3>3
      <3>5. \A j \in 1 .. m : d[j] \in K \cap (1 .. (k + 1)) /\ p[j] = s[d[j]]
        BY <2>1, <2>6, <3>1, <3>2, <3>3
      <3>6. \A i, j \in 1 .. m : i < j => d[i] < d[j]
        <4> SUFFICES ASSUME NEW i \in 1 .. m, NEW j \in 1 .. m, i < j PROVE d[i] < d[j] OBVIOUS
        <4>1. i \in 1 .. Len(q) /\ d[i] = e[i] BY <2>3, <3>2
        <4>2. CASE j = m BY <2>1, <3>3, <4>1, <4>2
        <4>3. CASE j # m BY <2>4, <3>2, <4>1, <4>3 DEF Picks
        <4> QED BY <4>2, <4>3
      <3>7. \A l \in 1 .. n : l \in K \cap (1 .. (k + 1)) => \E j \in 1 .. m : d[j] = l
        <4> SUFFICES ASSUME NEW l \in 1 .. n, l \in K \cap (1 .. (k + 1))
                     PROVE  \E j \in 1 .. m : d[j] = l
          OBVIOUS
        <4>1. CASE l = k + 1
          <5>1. m \in 1 .. m /\ d[m] = k + 1 BY <2>3
          <5> QED BY <4>1, <5>1
        <4>2. CASE l # k + 1
          <5>1. l \in K \cap (1 .. k) BY <2>1, <4>2
          <5>2. PICK j \in 1 .. Len(q) : e[j] = l BY <2>4, <5>1 DEF Picks
          <5>3. j \in 1 .. m /\ j # m BY <2>3
          <5> QED BY <5>2, <5>3
        <4> QED BY <4>1, <4>2
      <3>8. Picks(d, p, s, K \cap (1 .. (k + 1)))
        <4> HIDE DEF d, p, m
        <4> QED BY <3>1, <3>4, <3>5, <3>6, <3>7 DEF Picks
      <3>9. Len(p) <= k + 1 BY <2>3, <3>1
      <3> HIDE DEF d, p
      <3>10. g[k + 1] = p BY <2>2, <2>6 DEF p
      <3> QED BY <2>1, <3>8, <3>9, <3>10
    <2> QED BY <2>5, <2>6
  <1>5. \A k \in 0 .. n : k \in T
    <2> HIDE DEF T
    <2> QED BY <1>2, <1>3, <1>4, InductionTo
  <1>6. Good(n)
    <2>0. n \in 0 .. n BY <1>2
    <2>1. n \in T
      <3> HIDE DEF T
      <3> QED BY <1>5, <2>0
    <2> HIDE DEF Good
    <2> QED BY <2>1
  <1>7. PICK e : Picks(e, Picked(s, K), s, K \cap (1 .. n)) BY <1>1, <1>6
  <1>8. Picks(e, Picked(s, K), s, K)
    <2> HIDE DEF n
    <2> QED BY <1>7 DEF Picks, n
  <1> QED BY <1>1, <1>2, <1>6, <1>8

-----------------------------------------------------------------------------
LEMMA MaxInside == \A n \in Nat : \A S \in SUBSET (1 .. n) : S # {} => Max(S) \in S
PROOF
  <1> SUFFICES ASSUME NEW n \in Nat, NEW S \in SUBSET (1 .. n), S # {} PROVE Max(S) \in S OBVIOUS
  <1>0. \A x \in S : x \in Nat /\ n - x \in Nat OBVIOUS
  <1> DEFINE T == {n - x : x \in S}
  <1>1. T \in SUBSET Nat /\ T # {} BY <1>0
  <1>2. PICK m \in T : \A k \in T : m <= k
    <2> HIDE DEF T
    <2> QED BY <1>1, LeastMember
  <1>3. PICK x \in S : m = n - x BY <1>2
  <1>4. \A y \in S : x >= y
    <2> SUFFICES ASSUME NEW y \in S PROVE x >= y OBVIOUS
    <2>1. n - y \in T OBVIOUS
    <2>2. x \in Nat /\ y \in Nat BY <1>0
    <2> QED BY <1>2, <1>3, <2>1, <2>2
  <1> QED BY <1>4 DEF Max

LEMMA LastType == ASSUME NEW S, NEW s \in Seq(S), s # <<>>
                  PROVE  Last(s) \in S /\ Front(s) \in Seq(S) /\ s = Append(Front(s), Last(s)) /\ Len(Front(s)) = Len(s) - 1
PROOF BY DEF Last, Front

LEMMA JoinType == \A done \in Seq(Content), item \in Content : JoinItem(done, item) \in Seq(Content)
PROOF
  <1> SUFFICES ASSUME NEW done \in Seq(Content), NEW item \in Content PROVE JoinItem(done, item) \in Seq(Content) OBVIOUS
  <1>1. CASE done = <<>>  BY <1>1 DEF JoinItem
  <1>2. CASE done # <<>>
    <2>1. Text(Joined(Last(done).kind, item.kind)) \in Content
      <3>1. PICK t : t = Joined(Last(done).kind, item.kind) OBVIOUS
      <3>2. t \in {"text", "blank", "empty"} BY <3>1, Zenon DEF Joined
      <3>3. \A u \in Kinds : Text(u) \in Content BY DEF Content, Text, NoId
      <3>4. t \in Kinds BY <3>2 DEF Kinds, Texts
      <3> QED BY <3>1, <3>3, <3>4
    <2>2. Front(done) \in Seq(Content) BY <1>2, LastType
    <2> QED BY <2>1, <2>2 DEF JoinItem
  <1> QED BY <1>1, <1>2

LEMMA JoinTrace ==
  ASSUME NEW s \in Seq(Content)
  PROVE  \E g \in [0 .. Len(s) -> Seq(Content)] :
           /\ g[0] = <<>>
           /\ \A k \in 1 .. Len(s) : g[k] = JoinItem(g[k - 1], s[k])
           /\ JoinedItems(s) = g[Len(s)]
PROOF
  <1> DEFINE n == Len(s)
             V == Seq(Content)
             h == [k \in 1 .. n |-> [v \in V |-> JoinItem(v, s[k])]]
             P(c) == c = [S \in SUBSET (1 .. n) |->
                            IF S = {} THEN <<>> ELSE JoinItem(c[S \ {Max(S)}], s[Max(S)])]
  <1>1. n \in Nat /\ <<>> \in V /\ DOMAIN s = 1 .. n OBVIOUS
  <1>2. h \in [1 .. n -> [V -> V]]
    <2>1. \A k \in 1 .. n : s[k] \in Content OBVIOUS
    <2> QED BY <2>1, JoinType
  <1>3. \A S \in SUBSET (1 .. n) : S # {} => Max(S) \in 1 .. n /\ S \ {Max(S)} \in SUBSET (1 .. n)
    BY <1>1, MaxInside
  <1>4. \E c : P(c)
    <2>1. PICK f \in [SUBSET (1 .. n) -> V] : IsFold(f, n, <<>>, h)
      <3> HIDE DEF h, V, n
      <3> QED BY <1>1, <1>2, FoldExists
    <2>2. P(f) BY <1>3, <2>1 DEF IsFold
    <2> QED BY <2>2
  <1>5. PICK c : c = CHOOSE d : P(d) OBVIOUS
  <1>6. P(c) BY <1>4, <1>5
  <1>7. JoinedItems(s) = c[1 .. n] BY <1>1, <1>5 DEF JoinedItems, FoldLeft, MapThenFoldSet
  <1>8. Folds(c, V, n, <<>>, h)
    <2> HIDE DEF V
    <2> QED BY <1>3, <1>6 DEF Folds
  <1>9. PICK g : IsTrace(g, V, n, <<>>, h) /\ c[1 .. n] = g[n]
    <2> HIDE DEF h, V, n, P
    <2>1. StepsIn(V, n, <<>>, h) BY <1>1, <1>2 DEF StepsIn
    <2> QED BY <2>1, <1>8, FoldTrace
  <1>10. \A k \in 1 .. n : g[k] = JoinItem(g[k - 1], s[k])
    <2> SUFFICES ASSUME NEW k \in 1 .. n PROVE g[k] = JoinItem(g[k - 1], s[k]) OBVIOUS
    <2>1. g[k - 1] \in V BY <1>9 DEF IsTrace
    <2> HIDE DEF V
    <2> QED BY <1>9, <2>1 DEF IsTrace
  <1> HIDE DEF h, P
  <1> QED BY <1>7, <1>9, <1>10 DEF IsTrace

LEMMA JoinedType == ASSUME NEW s \in Seq(Content) PROVE JoinedItems(s) \in Seq(Content)
PROOF BY JoinTrace

-----------------------------------------------------------------------------
(***************************************************************************)
(* Messages, whatever other fields they have: M is a set of them that the  *)
(* passes do not leave.                                                    *)
(***************************************************************************)
WithItemsAgrees(M, m, its) ==
  /\ WithItems(m, its) \in M
  /\ WithItems(m, its).role = m.role /\ WithItems(m, its).visible = m.visible
  /\ WithItems(m, its).items = its

IsMessages(M) ==
  \A m \in M :
    /\ m.role \in {"user", "assistant"}
    /\ m.items \in Seq(Content)
    /\ \A its \in Seq(Content) : WithItemsAgrees(M, m, its)

\* w is m with other items
Like(M, w, m) == w \in M /\ w.role = m.role /\ w.visible = m.visible

LEMMA LikeItems ==
  ASSUME NEW M, IsMessages(M), NEW m \in M, NEW its \in Seq(Content)
  PROVE  Like(M, WithItems(m, its), m) /\ WithItems(m, its).items = its
PROOF BY DEF IsMessages, WithItemsAgrees, Like

LEMMA MergeTextLike ==
  ASSUME NEW M, IsMessages(M), NEW m \in M PROVE Like(M, MergeTextContent(m), m)
PROOF
  <1>1. CASE m.role = "assistant"
    <2>1. JoinedItems(m.items) \in Seq(Content) BY JoinedType DEF IsMessages
    <2> QED BY <1>1, <2>1, LikeItems DEF MergeTextContent
  <1>2. CASE m.role # "assistant" BY <1>2 DEF MergeTextContent, Like
  <1> QED BY <1>1, <1>2

LEMMA TrimLike ==
  ASSUME NEW M, IsMessages(M), NEW m \in M PROVE Like(M, TrimWhitespace(m), m)
PROOF
  <1> DEFINE Trim(item) == IF item.kind = "blank" THEN Text("empty") ELSE item
             its == [n \in DOMAIN m.items |-> Trim(m.items[n])]
  <1>1. m.items \in Seq(Content) BY DEF IsMessages
  <1>2. \A item \in Content : Trim(item) \in Content BY DEF Content, Text, NoId, Kinds, Texts
  <1>3. its \in Seq(Content)
    <2> HIDE DEF Trim
    <2> QED BY <1>1, <1>2
  <1>4. TrimWhitespace(m) = IF m.role = "assistant" THEN WithItems(m, its) ELSE m
    BY DEF TrimWhitespace, MapSeq
  <1> HIDE DEF its
  <1>5. CASE m.role = "assistant" BY <1>3, <1>4, <1>5, LikeItems
  <1>6. CASE m.role # "assistant" BY <1>4, <1>6 DEF Like
  <1> QED BY <1>5, <1>6

\* The passes before the pairing change no message's side and show none
LEMMA TrimmedLike ==
  ASSUME NEW M, IsMessages(M), NEW s \in Seq(M)
  PROVE  /\ MapSeq(TrimWhitespace, MapSeq(MergeTextContent, s)) \in Seq(M)
         /\ Len(MapSeq(TrimWhitespace, MapSeq(MergeTextContent, s))) = Len(s)
         /\ \A n \in 1 .. Len(s) :
              Like(M, MapSeq(TrimWhitespace, MapSeq(MergeTextContent, s))[n], s[n])
PROOF
  <1> DEFINE r == [n \in DOMAIN s |-> MergeTextContent(s[n])]
             t == [n \in DOMAIN r |-> TrimWhitespace(r[n])]
  <1>1. r \in Seq(M) /\ Len(r) = Len(s) /\ \A n \in 1 .. Len(s) : Like(M, r[n], s[n])
    <2>1. \A n \in 1 .. Len(s) : s[n] \in M OBVIOUS
    <2>2. \A n \in 1 .. Len(s) : Like(M, MergeTextContent(s[n]), s[n]) BY <2>1, MergeTextLike
    <2> QED BY <2>2 DEF Like
  <1>2. t \in Seq(M) /\ Len(t) = Len(s) /\ \A n \in 1 .. Len(s) : Like(M, t[n], r[n])
    <2> HIDE DEF r
    <2>1. \A n \in 1 .. Len(s) : r[n] \in M BY <1>1
    <2>2. \A n \in 1 .. Len(s) : Like(M, TrimWhitespace(r[n]), r[n]) BY <2>1, TrimLike
    <2> QED BY <1>1, <2>2 DEF Like
  <1>3. MapSeq(TrimWhitespace, MapSeq(MergeTextContent, s)) = t BY DEF MapSeq
  <1> HIDE DEF r, t
  <1> QED BY <1>1, <1>2, <1>3 DEF Like

-----------------------------------------------------------------------------
(***************************************************************************)
(* The passes of the pairing, on one user message and on all messages.     *)
(***************************************************************************)
Acc == [pending : SUBSET Nat, items : Seq(Content)]

LEMMA AnswerItemType ==
  ASSUME NEW acc \in Acc, NEW item \in Content PROVE AnswerItem(acc, item) \in Acc
PROOF
  <1>1. item \in Content /\ acc.items \in Seq(Content) /\ acc.pending \in SUBSET Nat BY DEF Acc
  <1>2. Append(acc.items, item) \in Seq(Content) BY <1>1
  <1> QED BY <1>1, <1>2 DEF AnswerItem, Acc

LEMMA AnswerTrace ==
  ASSUME NEW pending \in SUBSET Nat, NEW s \in Seq(Content)
  PROVE  \E g \in [0 .. Len(s) -> Acc] :
           /\ g[0] = [pending |-> pending, items |-> <<>>]
           /\ \A k \in 1 .. Len(s) : g[k] = AnswerItem(g[k - 1], s[k])
           /\ AnswerItems(pending, s) = g[Len(s)]
PROOF
  <1> DEFINE n == Len(s)
             V == Acc
             b == [pending |-> pending, items |-> <<>>]
             h == [k \in 1 .. n |-> [v \in V |-> AnswerItem(v, s[k])]]
             P(c) == c = [S \in SUBSET (1 .. n) |->
                            IF S = {} THEN b ELSE AnswerItem(c[S \ {Max(S)}], s[Max(S)])]
  <1>1. n \in Nat /\ b \in V /\ DOMAIN s = 1 .. n BY DEF Acc
  <1>2. h \in [1 .. n -> [V -> V]]
    <2>1. \A k \in 1 .. n : s[k] \in Content OBVIOUS
    <2> QED BY <2>1, AnswerItemType
  <1>3. \A S \in SUBSET (1 .. n) : S # {} => Max(S) \in 1 .. n /\ S \ {Max(S)} \in SUBSET (1 .. n)
    BY <1>1, MaxInside
  <1>4. \E c : P(c)
    <2>1. PICK f \in [SUBSET (1 .. n) -> V] : IsFold(f, n, b, h)
      <3> HIDE DEF h, V, n, b
      <3> QED BY <1>1, <1>2, FoldExists
    <2>2. P(f)
      <3> HIDE DEF V, b
      <3> QED BY <1>3, <2>1 DEF IsFold
    <2> QED BY <2>2
  <1>5. PICK c : c = CHOOSE d : P(d) OBVIOUS
  <1>6. P(c) BY <1>4, <1>5
  <1>7. AnswerItems(pending, s) = c[1 .. n] BY <1>1, <1>5 DEF AnswerItems, FoldLeft, MapThenFoldSet
  <1>8. Folds(c, V, n, b, h)
    <2> HIDE DEF V, b
    <2> QED BY <1>3, <1>6 DEF Folds
  <1>9. PICK g : IsTrace(g, V, n, b, h) /\ c[1 .. n] = g[n]
    <2> HIDE DEF h, V, n, b, P
    <2>1. StepsIn(V, n, b, h) BY <1>1, <1>2 DEF StepsIn
    <2> QED BY <2>1, <1>8, FoldTrace
  <1>10. \A k \in 1 .. n : g[k] = AnswerItem(g[k - 1], s[k])
    <2> SUFFICES ASSUME NEW k \in 1 .. n PROVE g[k] = AnswerItem(g[k - 1], s[k]) OBVIOUS
    <2>1. g[k - 1] \in V BY <1>9 DEF IsTrace
    <2> HIDE DEF V
    <2> QED BY <1>9, <2>1 DEF IsTrace
  <1> HIDE DEF h, P
  <1> QED BY <1>7, <1>9, <1>10 DEF IsTrace

LEMMA AnswerItemsType ==
  ASSUME NEW pending \in SUBSET Nat, NEW s \in Seq(Content) PROVE AnswerItems(pending, s) \in Acc
PROOF
  <1>1. Len(s) \in 0 .. Len(s) OBVIOUS
  <1>2. PICK g \in [0 .. Len(s) -> Acc] : AnswerItems(pending, s) = g[Len(s)] BY AnswerTrace
  <1> QED BY <1>1, <1>2

Calling(M) == [pending : SUBSET Nat, msgs : Seq(M)]

LEMMA AskedType == ASSUME NEW M, IsMessages(M), NEW m \in M PROVE Asked(m) \in SUBSET Nat
PROOF
  <1>1. m.items \in Seq(Content) BY DEF IsMessages
  <1>2. \A n \in DOMAIN m.items : m.items[n] \in Content BY <1>1
  <1>3. \A item \in Content : item.id \in Nat BY DEF Content
  <1> QED BY <1>2, <1>3 DEF Asked

LEMMA CallingPassType ==
  ASSUME NEW M, IsMessages(M), NEW acc \in Calling(M), NEW m \in M
  PROVE  /\ CallingPass(acc, m) \in Calling(M)
         /\ \E its \in Seq(Content) : CallingPass(acc, m).msgs = Append(acc.msgs, WithItems(m, its))
PROOF
  <1>0. acc.pending \in SUBSET Nat /\ acc.msgs \in Seq(M) BY DEF Calling
  <1>1. m.items \in Seq(Content) BY DEF IsMessages
  <1>2. CASE m.role = "user"
    <2> DEFINE res == AnswerItems(acc.pending, m.items)
               w == WithItems(m, res.items)
    <2>1. res \in Acc BY <1>0, <1>1, AnswerItemsType
    <2>2. res.pending \in SUBSET Nat /\ res.items \in Seq(Content) BY <2>1 DEF Acc
    <2>3. w \in M BY <2>2, LikeItems DEF Like
    <2>4. CallingPass(acc, m) = [pending |-> res.pending, msgs |-> Append(acc.msgs, w)]
      BY <1>2 DEF CallingPass
    <2>5. Append(acc.msgs, w) \in Seq(M) BY <1>0, <2>3
    <2> HIDE DEF res
    <2> QED BY <2>2, <2>4, <2>5 DEF Calling
  <1>3. CASE m.role # "user"
    <2> DEFINE its == Picked(m.items, {n \in DOMAIN m.items : ~Misplaced("assistant", m.items[n])})
               w == WithItems(m, its)
    <2>1. its \in Seq(Content) BY <1>1, PickedPlaces
    <2>2. acc.pending \cup Asked(m) \in SUBSET Nat BY <1>0, AskedType
    <2>3. w \in M BY <2>1, LikeItems DEF Like
    <2>4. CallingPass(acc, m) = [pending |-> acc.pending \cup Asked(m), msgs |-> Append(acc.msgs, w)]
      BY <1>3 DEF CallingPass, Keep
    <2>5. Append(acc.msgs, w) \in Seq(M) BY <1>0, <2>3
    <2> HIDE DEF its
    <2> QED BY <2>1, <2>2, <2>4, <2>5 DEF Calling
  <1> QED BY <1>2, <1>3

LEMMA PassedTrace ==
  ASSUME NEW M, IsMessages(M), NEW s \in Seq(M)
  PROVE  \E g \in [0 .. Len(s) -> Calling(M)] :
           /\ g[0] = [pending |-> {}, msgs |-> <<>>]
           /\ \A k \in 1 .. Len(s) : g[k] = CallingPass(g[k - 1], s[k])
           /\ Passed(s) = g[Len(s)]
PROOF
  <1> DEFINE n == Len(s)
             V == Calling(M)
             b == [pending |-> {}, msgs |-> <<>>]
             h == [k \in 1 .. n |-> [v \in V |-> CallingPass(v, s[k])]]
             P(c) == c = [S \in SUBSET (1 .. n) |->
                            IF S = {} THEN b ELSE CallingPass(c[S \ {Max(S)}], s[Max(S)])]
  <1>1. n \in Nat /\ b \in V /\ DOMAIN s = 1 .. n BY DEF Calling
  <1>2. h \in [1 .. n -> [V -> V]]
    <2>1. \A k \in 1 .. n : s[k] \in M OBVIOUS
    <2> QED BY <2>1, CallingPassType
  <1>3. \A S \in SUBSET (1 .. n) : S # {} => Max(S) \in 1 .. n /\ S \ {Max(S)} \in SUBSET (1 .. n)
    BY <1>1, MaxInside
  <1>4. \E c : P(c)
    <2>1. PICK f \in [SUBSET (1 .. n) -> V] : IsFold(f, n, b, h)
      <3> HIDE DEF h, V, n, b
      <3> QED BY <1>1, <1>2, FoldExists
    <2>2. P(f)
      <3> HIDE DEF V, b
      <3> QED BY <1>3, <2>1 DEF IsFold
    <2> QED BY <2>2
  <1>5. PICK c : c = CHOOSE d : P(d) OBVIOUS
  <1>6. P(c) BY <1>4, <1>5
  <1>7. Passed(s) = c[1 .. n] BY <1>1, <1>5 DEF Passed, FoldLeft, MapThenFoldSet
  <1>8. Folds(c, V, n, b, h)
    <2> HIDE DEF V, b
    <2> QED BY <1>3, <1>6 DEF Folds
  <1>9. PICK g : IsTrace(g, V, n, b, h) /\ c[1 .. n] = g[n]
    <2> HIDE DEF h, V, n, b, P
    <2>1. StepsIn(V, n, b, h) BY <1>1, <1>2 DEF StepsIn
    <2> QED BY <2>1, <1>8, FoldTrace
  <1>10. \A k \in 1 .. n : g[k] = CallingPass(g[k - 1], s[k])
    <2> SUFFICES ASSUME NEW k \in 1 .. n PROVE g[k] = CallingPass(g[k - 1], s[k]) OBVIOUS
    <2>1. g[k - 1] \in V BY <1>9 DEF IsTrace
    <2> HIDE DEF V
    <2> QED BY <1>9, <2>1 DEF IsTrace
  <1> HIDE DEF h, P
  <1> QED BY <1>7, <1>9, <1>10 DEF IsTrace

\* The pass leaves each message in its place
LEMMA PassedLike ==
  ASSUME NEW M, IsMessages(M), NEW s \in Seq(M)
  PROVE  /\ Passed(s) \in Calling(M) /\ Len(Passed(s).msgs) = Len(s)
         /\ \A j \in 1 .. Len(s) : Like(M, Passed(s).msgs[j], s[j])
PROOF
  <1> DEFINE n == Len(s)
  <1>1. PICK g \in [0 .. n -> Calling(M)] :
          /\ g[0] = [pending |-> {}, msgs |-> <<>>]
          /\ \A k \in 1 .. n : g[k] = CallingPass(g[k - 1], s[k])
          /\ Passed(s) = g[n]
    BY PassedTrace
  <1> DEFINE Good(k) == Len(g[k].msgs) = k /\ \A j \in 1 .. k : Like(M, g[k].msgs[j], s[j])
             T == {k \in 0 .. n : Good(k)}
  <1>2. n \in Nat /\ n \in 0 .. n OBVIOUS
  <1>3. 0 \in T BY <1>1, <1>2
  <1>4. ASSUME NEW k \in 0 .. n, k # n, k \in T PROVE k + 1 \in T
    <2>1. k + 1 \in 1 .. n /\ (k + 1) - 1 = k /\ k \in Nat /\ s[k + 1] \in M BY <1>4
    <2>2. g[k] \in Calling(M) /\ g[k + 1] = CallingPass(g[k], s[k + 1]) BY <1>1, <2>1
    <2>3. PICK its \in Seq(Content) : g[k + 1].msgs = Append(g[k].msgs, WithItems(s[k + 1], its))
      <3>1. \E its \in Seq(Content) :
              CallingPass(g[k], s[k + 1]).msgs = Append(g[k].msgs, WithItems(s[k + 1], its))
        <4>1. PICK q \in Calling(M) : q = g[k] BY <2>2
        <4>2. PICK m \in M : m = s[k + 1] BY <2>1
        <4>3. \E its \in Seq(Content) : CallingPass(q, m).msgs = Append(q.msgs, WithItems(m, its))
          BY CallingPassType
        <4> QED BY <4>1, <4>2, <4>3
      <3> QED BY <2>2, <3>1
    <2>4. Like(M, WithItems(s[k + 1], its), s[k + 1]) BY <2>1, LikeItems
    <2>5. g[k].msgs \in Seq(M) BY <2>2 DEF Calling
    <2>6. WithItems(s[k + 1], its) \in M BY <2>4 DEF Like
    <2>7. Len(g[k].msgs) = k /\ \A j \in 1 .. k : Like(M, g[k].msgs[j], s[j]) BY <1>4
    <2> DEFINE r == g[k + 1].msgs
    <2>8. Len(r) = k + 1 /\ r[k + 1] = WithItems(s[k + 1], its) /\ \A j \in 1 .. k : r[j] = g[k].msgs[j]
      BY <2>3, <2>5, <2>6, <2>7
    <2>9. \A j \in 1 .. (k + 1) : Like(M, r[j], s[j])
      <3> HIDE DEF r
      <3> QED BY <2>1, <2>4, <2>7, <2>8
    <2> QED BY <2>1, <2>8, <2>9
  <1>5. \A k \in 0 .. n : k \in T
    <2> HIDE DEF T
    <2> QED BY <1>2, <1>3, <1>4, InductionTo
  <1>6. Good(n)
    <2>1. n \in T
      <3> HIDE DEF T
      <3> QED BY <1>2, <1>5
    <2> HIDE DEF Good
    <2> QED BY <2>1
  <1> QED BY <1>1, <1>2, <1>6

LEMMA CloseLike ==
  ASSUME NEW M, IsMessages(M), NEW pass \in Calling(M), NEW m \in M
  PROVE  Like(M, Close(pass, m), m)
PROOF
  <1> DEFINE its == Picked(m.items, {n \in DOMAIN m.items : RequestAnswered(pass.pending, m.items[n])})
  <1>1. m.items \in Seq(Content) BY DEF IsMessages
  <1>2. its \in Seq(Content) BY <1>1, PickedPlaces
  <1>3. Close(pass, m) = IF m.role = "assistant" THEN WithItems(m, its) ELSE m BY DEF Close, Keep
  <1> HIDE DEF its
  <1>4. Like(M, WithItems(m, its), m) BY <1>2, LikeItems
  <1> QED BY <1>3, <1>4 DEF Like

LEMMA CallingDoneLike ==
  ASSUME NEW M, IsMessages(M), NEW s \in Seq(M)
  PROVE  /\ CallingDone(s) \in Seq(M) /\ Len(CallingDone(s)) = Len(s)
         /\ \A j \in 1 .. Len(s) : Like(M, CallingDone(s)[j], s[j])
PROOF
  <1> DEFINE pass == Passed(s)
             r == [n \in DOMAIN pass.msgs |-> Close(pass, pass.msgs[n])]
  <1>1. pass \in Calling(M) /\ Len(pass.msgs) = Len(s) /\ \A j \in 1 .. Len(s) : Like(M, pass.msgs[j], s[j])
    BY PassedLike
  <1>2. CallingDone(s) = r BY DEF CallingDone, MapSeq
  <1>3. pass.msgs \in Seq(M) BY <1>1 DEF Calling
  <1>4. \A j \in 1 .. Len(s) : Like(M, Close(pass, pass.msgs[j]), pass.msgs[j])
    <2> HIDE DEF pass
    <2>1. \A j \in 1 .. Len(s) : pass.msgs[j] \in M BY <1>1, <1>3
    <2> QED BY <1>1, <2>1, CloseLike
  <1>5. r \in Seq(M) /\ Len(r) = Len(s) /\ \A j \in 1 .. Len(s) : r[j] = Close(pass, pass.msgs[j])
    <2>1. \A j \in 1 .. Len(s) : Close(pass, pass.msgs[j]) \in M BY <1>4 DEF Like
    <2> HIDE DEF pass
    <2> QED BY <1>1, <1>3, <2>1
  <1> HIDE DEF r, pass
  <1> QED BY <1>1, <1>2, <1>4, <1>5 DEF Like

LEMMA RemoveEmptyType ==
  ASSUME NEW M, NEW s \in Seq(M)
  PROVE  RemoveEmptyMessages(s) \in Seq(M) /\ Len(RemoveEmptyMessages(s)) <= Len(s)
PROOF BY PickedPlaces DEF RemoveEmptyMessages, Keep

LEMMA FixToolCallingType ==
  ASSUME NEW M, IsMessages(M), NEW s \in Seq(M)
  PROVE  FixToolCalling(s) \in Seq(M) /\ Len(FixToolCalling(s)) <= Len(s)
PROOF BY CallingDoneLike, RemoveEmptyType DEF FixToolCalling

-----------------------------------------------------------------------------
(***************************************************************************)
(* Merging: neighbours are of different sides.                             *)
(***************************************************************************)
Alternate(s) == \A n \in 1 .. Len(s) - 1 : EffectiveRole(s[n]) # EffectiveRole(s[n + 1])

LEMMA ConcatPlaces ==
  ASSUME NEW S, NEW s \in Seq(S), NEW t \in Seq(S)
  PROVE  /\ s \o t \in Seq(S) /\ Len(s \o t) = Len(s) + Len(t)
         /\ \A k \in 1 .. Len(s) : k \in 1 .. Len(s \o t) /\ (s \o t)[k] = s[k]
         /\ \A k \in 1 .. Len(t) :
              Len(s) + k \in 1 .. Len(s \o t) /\ (s \o t)[Len(s) + k] = t[k]
         /\ \A k \in 1 .. Len(s \o t) :
              k \in 1 .. Len(s) \/ \E j \in 1 .. Len(t) : k = Len(s) + j
PROOF
  <1>1. s \o t \in Seq(S) /\ Len(s \o t) = Len(s) + Len(t) OBVIOUS
  <1>2. \A k \in 1 .. Len(s) : k \in 1 .. Len(s \o t) /\ (s \o t)[k] = s[k] OBVIOUS
  <1>3. \A k \in 1 .. Len(t) : Len(s) + k \in 1 .. Len(s \o t) /\ (s \o t)[Len(s) + k] = t[k]
    OBVIOUS
  <1>4. ASSUME NEW k \in 1 .. Len(s \o t), k \notin 1 .. Len(s)
        PROVE  \E j \in 1 .. Len(t) : k = Len(s) + j
    <2>1. k - Len(s) \in 1 .. Len(t) /\ k = Len(s) + (k - Len(s)) BY <1>1, <1>4
    <2> QED BY <2>1
  <1> QED BY <1>1, <1>2, <1>3, <1>4

LEMMA FrontPlaces ==
  ASSUME NEW S, NEW s \in Seq(S), s # <<>>
  PROVE  /\ Front(s) \in Seq(S) /\ Len(Front(s)) = Len(s) - 1 /\ Len(s) \in Nat \ {0}
         /\ Last(s) = s[Len(s)] /\ Last(s) \in S
         /\ \A k \in 1 .. Len(s) - 1 : Front(s)[k] = s[k]
PROOF
  <1>1. Front(s) \in Seq(S) /\ Len(Front(s)) = Len(s) - 1 BY LastType
  <1>2. \A k \in 1 .. Len(s) - 1 : Front(s)[k] = s[k] BY DEF Front
  <1>3. Last(s) = s[Len(s)] /\ Len(s) \in Nat \ {0} BY DEF Last
  <1> QED BY <1>1, <1>2, <1>3

LEMMA MergeRole ==
  ASSUME NEW M, IsMessages(M), NEW a \in M, NEW b \in M, EffectiveRole(a) = EffectiveRole(b)
  PROVE  /\ WithItems(a, a.items \o b.items) \in M
         /\ EffectiveRole(WithItems(a, a.items \o b.items)) = EffectiveRole(b)
PROOF
  <1> DEFINE w == WithItems(a, a.items \o b.items)
  <1>1. a.items \in Seq(Content) /\ b.items \in Seq(Content) BY DEF IsMessages
  <1>2. a.items \o b.items \in Seq(Content) BY <1>1
  <1>3. w \in M /\ w.role = a.role /\ w.items = a.items \o b.items BY <1>2, LikeItems DEF Like
  <1>4. a.role \in {"user", "assistant"} /\ b.role \in {"user", "assistant"} BY DEF IsMessages
  <1> DEFINE R(m) == \E n \in DOMAIN m.items : m.items[n].kind = "response"
  <1>5. R(w) <=> R(a) \/ R(b)
    <2>1. PICK s \in Seq(Content) : s = a.items BY <1>1
    <2>2. PICK q \in Seq(Content) : q = b.items BY <1>1
    <2>3. w.items = s \o q BY <1>3, <2>1, <2>2
    <2>4. DOMAIN s = 1 .. Len(s) /\ DOMAIN q = 1 .. Len(q) /\ DOMAIN (s \o q) = 1 .. Len(s \o q)
      OBVIOUS
    <2>5. /\ \A k \in 1 .. Len(s) : k \in 1 .. Len(s \o q) /\ (s \o q)[k] = s[k]
          /\ \A k \in 1 .. Len(q) : Len(s) + k \in 1 .. Len(s \o q) /\ (s \o q)[Len(s) + k] = q[k]
          /\ \A k \in 1 .. Len(s \o q) :
               k \in 1 .. Len(s) \/ \E j \in 1 .. Len(q) : k = Len(s) + j
      BY ConcatPlaces
    <2>6. R(a) => R(w)
      <3>1. SUFFICES ASSUME NEW k \in 1 .. Len(s), s[k].kind = "response" PROVE R(w) BY <2>1, <2>4
      <3>2. k \in DOMAIN w.items /\ w.items[k].kind = "response" BY <2>3, <2>4, <2>5, <3>1
      <3> QED BY <3>2
    <2>7. R(b) => R(w)
      <3>1. SUFFICES ASSUME NEW k \in 1 .. Len(q), q[k].kind = "response" PROVE R(w) BY <2>2, <2>4
      <3>2. Len(s) + k \in DOMAIN w.items /\ w.items[Len(s) + k].kind = "response"
        BY <2>3, <2>4, <2>5, <3>1
      <3> QED BY <3>2
    <2>8. R(w) => R(a) \/ R(b)
      <3>1. SUFFICES ASSUME NEW k \in 1 .. Len(s \o q), (s \o q)[k].kind = "response"
                     PROVE  R(a) \/ R(b)
        BY <2>3, <2>4
      <3>2. CASE k \in 1 .. Len(s) BY <2>1, <2>4, <2>5, <3>1, <3>2
      <3>3. CASE \E j \in 1 .. Len(q) : k = Len(s) + j
        <4>1. PICK j \in 1 .. Len(q) : k = Len(s) + j BY <3>3
        <4>2. j \in DOMAIN b.items /\ b.items[j].kind = "response" BY <2>2, <2>4, <2>5, <3>1, <4>1
        <4>3. R(b) BY <4>2
        <4> QED BY <4>3
      <3> QED BY <2>5, <3>2, <3>3
    <2> HIDE DEF R
    <2> QED BY <2>6, <2>7, <2>8
  <1>6. \A m : EffectiveRole(m) = IF m.role = "user" /\ R(m) THEN "tool" ELSE m.role
    BY DEF EffectiveRole
  <1> HIDE DEF R, w
  <1>7. EffectiveRole(w) = EffectiveRole(b) BY <1>3, <1>4, <1>5, <1>6
  <1> QED BY <1>3, <1>7 DEF w

LEMMA MergeMessageStep ==
  ASSUME NEW M, IsMessages(M), NEW done \in Seq(M), NEW m \in M
  PROVE  /\ MergeMessage(done, m) \in Seq(M) /\ Len(MergeMessage(done, m)) <= Len(done) + 1
         /\ Alternate(done) => Alternate(MergeMessage(done, m))
PROOF
  <1>1. CASE done = <<>>
    <2>1. MergeMessage(done, m) = <<m>> BY <1>1 DEF MergeMessage
    <2>2. <<m>> \in Seq(M) /\ Len(<<m>>) = 1 /\ Len(done) = 0 BY <1>1
    <2>3. Alternate(<<m>>) BY <2>2 DEF Alternate
    <2> QED BY <2>1, <2>2, <2>3
  <1>2. CASE done # <<>>
    <2> DEFINE n == Len(done)
               a == done[n]
               w == WithItems(a, a.items \o m.items)
    <2>1. n \in Nat \ {0} /\ a \in M /\ Last(done) = a BY <1>2 DEF Last
    <2>2. CASE EffectiveRole(a) = EffectiveRole(m)
      <3>1. w \in M /\ EffectiveRole(w) = EffectiveRole(a) BY <2>1, <2>2, MergeRole
      <3>2. MergeMessage(done, m) = Append(Front(done), w) BY <1>2, <2>1, <2>2 DEF MergeMessage
      <3>3. Front(done) \in Seq(M) /\ Len(Front(done)) = n - 1 /\ \A k \in 1 .. n - 1 : Front(done)[k] = done[k]
        BY <1>2, FrontPlaces
      <3> DEFINE r == Append(Front(done), w)
      <3>4. r \in Seq(M) /\ Len(r) = n /\ r[n] = w /\ \A k \in 1 .. n - 1 : r[k] = done[k]
        <4> HIDE DEF w
        <4> QED BY <2>1, <3>1, <3>3
      <3>5. Alternate(done) => Alternate(r)
        <4> SUFFICES ASSUME Alternate(done), NEW k \in 1 .. Len(r) - 1
                     PROVE  EffectiveRole(r[k]) # EffectiveRole(r[k + 1])
          BY DEF Alternate
        <4>1. k \in 1 .. n - 1 /\ EffectiveRole(done[k]) # EffectiveRole(done[k + 1]) BY <3>4 DEF Alternate
        <4> HIDE DEF r, w
        <4>2. CASE k + 1 = n BY <3>1, <3>4, <4>1, <4>2
        <4>3. CASE k + 1 # n
          <5>1. k + 1 \in 1 .. n - 1 BY <2>1, <4>1, <4>3
          <5> QED BY <3>4, <4>1, <5>1
        <4> QED BY <4>2, <4>3
      <3> HIDE DEF r, w
      <3> QED BY <2>1, <3>2, <3>4, <3>5 DEF r
    <2>3. CASE EffectiveRole(a) # EffectiveRole(m)
      <3> DEFINE r == Append(done, m)
      <3>1. MergeMessage(done, m) = r BY <1>2, <2>1, <2>3 DEF MergeMessage
      <3>2. r \in Seq(M) /\ Len(r) = n + 1 /\ r[n + 1] = m /\ \A k \in 1 .. n : r[k] = done[k] OBVIOUS
      <3>3. Alternate(done) => Alternate(r)
        <4> SUFFICES ASSUME Alternate(done), NEW k \in 1 .. Len(r) - 1
                     PROVE  EffectiveRole(r[k]) # EffectiveRole(r[k + 1])
          BY DEF Alternate
        <4> HIDE DEF r
        <4>1. k \in 1 .. n BY <3>2
        <4>2. CASE k = n BY <2>1, <2>3, <3>2, <4>2
        <4>3. CASE k # n
          <5>1. k \in 1 .. n - 1 /\ k \in 1 .. n /\ k + 1 \in 1 .. n BY <2>1, <4>1, <4>3
          <5>2. r[k] = done[k] /\ r[k + 1] = done[k + 1] BY <3>2, <5>1
          <5>3. EffectiveRole(done[k]) # EffectiveRole(done[k + 1]) BY <5>1 DEF Alternate
          <5> QED BY <5>2, <5>3
        <4> QED BY <4>2, <4>3
      <3> HIDE DEF r
      <3> QED BY <3>1, <3>2, <3>3
    <2> QED BY <2>2, <2>3
  <1> QED BY <1>1, <1>2

LEMMA MergeTrace ==
  ASSUME NEW M, IsMessages(M), NEW s \in Seq(M)
  PROVE  \E g \in [0 .. Len(s) -> Seq(M)] :
           /\ g[0] = <<>>
           /\ \A k \in 1 .. Len(s) : g[k] = MergeMessage(g[k - 1], s[k])
           /\ MergeConsecutive(s) = g[Len(s)]
PROOF
  <1> DEFINE n == Len(s)
             V == Seq(M)
             b == <<>>
             h == [k \in 1 .. n |-> [v \in V |-> MergeMessage(v, s[k])]]
             P(c) == c = [S \in SUBSET (1 .. n) |->
                            IF S = {} THEN b ELSE MergeMessage(c[S \ {Max(S)}], s[Max(S)])]
  <1>1. n \in Nat /\ b \in V /\ DOMAIN s = 1 .. n OBVIOUS
  <1>2. h \in [1 .. n -> [V -> V]]
    <2>1. \A k \in 1 .. n : s[k] \in M OBVIOUS
    <2> QED BY <2>1, MergeMessageStep
  <1>3. \A S \in SUBSET (1 .. n) : S # {} => Max(S) \in 1 .. n /\ S \ {Max(S)} \in SUBSET (1 .. n)
    BY <1>1, MaxInside
  <1>4. \E c : P(c)
    <2>1. PICK f \in [SUBSET (1 .. n) -> V] : IsFold(f, n, b, h)
      <3> HIDE DEF h, V, n, b
      <3> QED BY <1>1, <1>2, FoldExists
    <2>2. P(f)
      <3> HIDE DEF V, b
      <3> QED BY <1>3, <2>1 DEF IsFold
    <2> QED BY <2>2
  <1>5. PICK c : c = CHOOSE d : P(d) OBVIOUS
  <1>6. P(c) BY <1>4, <1>5
  <1>7. MergeConsecutive(s) = c[1 .. n] BY <1>1, <1>5 DEF MergeConsecutive, FoldLeft, MapThenFoldSet
  <1>8. Folds(c, V, n, b, h)
    <2> HIDE DEF V, b
    <2> QED BY <1>3, <1>6 DEF Folds
  <1>9. PICK g : IsTrace(g, V, n, b, h) /\ c[1 .. n] = g[n]
    <2> HIDE DEF h, V, n, b, P
    <2>1. StepsIn(V, n, b, h) BY <1>1, <1>2 DEF StepsIn
    <2> QED BY <2>1, <1>8, FoldTrace
  <1>10. \A k \in 1 .. n : g[k] = MergeMessage(g[k - 1], s[k])
    <2> SUFFICES ASSUME NEW k \in 1 .. n PROVE g[k] = MergeMessage(g[k - 1], s[k]) OBVIOUS
    <2>1. g[k - 1] \in V BY <1>9 DEF IsTrace
    <2> HIDE DEF V
    <2> QED BY <1>9, <2>1 DEF IsTrace
  <1> HIDE DEF h, P
  <1> QED BY <1>7, <1>9, <1>10 DEF IsTrace

LEMMA Merged ==
  ASSUME NEW M, IsMessages(M), NEW s \in Seq(M)
  PROVE  /\ MergeConsecutive(s) \in Seq(M) /\ Len(MergeConsecutive(s)) <= Len(s)
         /\ Alternate(MergeConsecutive(s))
PROOF
  <1> DEFINE n == Len(s)
  <1>1. PICK g \in [0 .. n -> Seq(M)] :
          /\ g[0] = <<>>
          /\ \A k \in 1 .. n : g[k] = MergeMessage(g[k - 1], s[k])
          /\ MergeConsecutive(s) = g[n]
    BY MergeTrace
  <1> DEFINE T == {k \in 0 .. n : Len(g[k]) <= k /\ Alternate(g[k])}
  <1>2. n \in Nat /\ n \in 0 .. n OBVIOUS
  <1>3. 0 \in T
    <2>1. 0 \in 0 .. n /\ Len(g[0]) <= 0 BY <1>1
    <2>2. Alternate(g[0]) BY <1>1 DEF Alternate
    <2> QED BY <2>1, <2>2
  <1>4. ASSUME NEW k \in 0 .. n, k # n, k \in T PROVE k + 1 \in T
    <2>1. k + 1 \in 1 .. n /\ (k + 1) - 1 = k /\ k \in Nat /\ s[k + 1] \in M BY <1>4
    <2>2. g[k] \in Seq(M) /\ g[k + 1] = MergeMessage(g[k], s[k + 1]) BY <1>1, <2>1
    <2>3. PICK q \in Seq(M) : q = g[k] BY <2>2
    <2>4. PICK m \in M : m = s[k + 1] BY <2>1
    <2>5. Alternate(q) /\ Len(q) <= k BY <1>4, <2>3
    <2>6. Len(MergeMessage(q, m)) <= Len(q) + 1 /\ Alternate(MergeMessage(q, m))
          /\ MergeMessage(q, m) \in Seq(M) BY <2>5, MergeMessageStep
    <2>7. Len(g[k + 1]) <= k + 1 /\ Alternate(g[k + 1]) BY <2>1, <2>2, <2>3, <2>4, <2>5, <2>6
    <2> QED BY <2>1, <2>7
  <1>5. \A k \in 0 .. n : k \in T
    <2> HIDE DEF T
    <2> QED BY <1>2, <1>3, <1>4, InductionTo
  <1> QED BY <1>1, <1>2, <1>5

-----------------------------------------------------------------------------
(***************************************************************************)
(* The ends.  Between two messages of the assistant's there is one of the  *)
(* user's, so removing one message at each end is enough.                  *)
(***************************************************************************)
EndsWithUser(s) == s # <<>> /\ Head(s).role = "user" /\ Last(s).role = "user"

LEMMA DropLeadingEnds ==
  ASSUME NEW M, IsMessages(M), NEW s \in Seq(M), Alternate(s)
  PROVE  /\ DropLeading(s) \in Seq(M) /\ Len(DropLeading(s)) <= Len(s)
         /\ Alternate(DropLeading(s))
         /\ DropLeading(s) # <<>> => Head(DropLeading(s)).role = "user"
PROOF
  <1> DEFINE n == Len(s)
  <1>1. CASE s = <<>> BY <1>1 DEF DropLeading
  <1>2. CASE s # <<>> /\ Head(s).role # "assistant"
    <2>1. DropLeading(s) = s BY <1>2 DEF DropLeading
    <2>2. Head(s) \in M BY <1>2
    <2>3. Head(s).role = "user" BY <1>2, <2>2 DEF IsMessages
    <2> QED BY <2>1, <2>3
  <1>3. CASE s # <<>> /\ Head(s).role = "assistant"
    <2> DEFINE r == Tail(s)
    <2>1. DropLeading(s) = r BY <1>3 DEF DropLeading
    <2>2. r \in Seq(M) /\ Len(r) = n - 1 /\ n \in Nat \ {0} /\ \A k \in 1 .. n - 1 : r[k] = s[k + 1]
      BY <1>3
    <2>3. Alternate(r)
      <3> SUFFICES ASSUME NEW k \in 1 .. Len(r) - 1 PROVE EffectiveRole(r[k]) # EffectiveRole(r[k + 1])
        BY DEF Alternate
      <3>1. k \in 1 .. n - 1 /\ k + 1 \in 1 .. n - 1 BY <2>2
      <3>2. r[k] = s[k + 1] /\ r[k + 1] = s[k + 1 + 1] BY <2>2, <3>1
      <3>3. EffectiveRole(s[k + 1]) # EffectiveRole(s[k + 1 + 1]) BY <3>1 DEF Alternate
      <3> QED BY <3>2, <3>3
    <2>4. ASSUME r # <<>> PROVE Head(r).role = "user"
      <3>1. 1 \in 1 .. n - 1 /\ Head(r) = s[2] /\ Head(s) = s[1] /\ s[1] \in M /\ s[2] \in M
        BY <1>3, <2>2, <2>4
      <3>2. EffectiveRole(s[1]) # EffectiveRole(s[1 + 1]) BY <3>1 DEF Alternate
      <3>3. s[2].role \in {"user", "assistant"} BY <3>1 DEF IsMessages
      <3>4. EffectiveRole(s[1]) = "assistant" BY <1>3, <3>1 DEF EffectiveRole
      <3>5. s[2].role = "assistant" => EffectiveRole(s[2]) = "assistant" BY DEF EffectiveRole
      <3> QED BY <3>1, <3>2, <3>3, <3>4, <3>5
    <2> HIDE DEF r
    <2> QED BY <2>1, <2>2, <2>3, <2>4
  <1> QED BY <1>1, <1>2, <1>3

LEMMA DropTrailingEnds ==
  ASSUME NEW M, IsMessages(M), NEW s \in Seq(M), Alternate(s), s # <<>> => Head(s).role = "user"
  PROVE  /\ DropTrailing(s) \in Seq(M) /\ Len(DropTrailing(s)) <= Len(s)
         /\ Alternate(DropTrailing(s))
         /\ DropTrailing(s) # <<>> => EndsWithUser(DropTrailing(s))
PROOF
  <1> DEFINE n == Len(s)
  <1>1. CASE s = <<>> BY <1>1 DEF DropTrailing
  <1>2. CASE s # <<>> /\ Last(s).role # "assistant"
    <2>1. DropTrailing(s) = s BY <1>2 DEF DropTrailing
    <2>2. Last(s) \in M BY <1>2, FrontPlaces
    <2>3. Last(s).role = "user" BY <1>2, <2>2 DEF IsMessages
    <2> QED BY <1>2, <2>1, <2>3 DEF EndsWithUser
  <1>3. CASE s # <<>> /\ Last(s).role = "assistant"
    <2>1. PICK r : r = Front(s) OBVIOUS
    <2>2. DropTrailing(s) = r BY <1>3, <2>1 DEF DropTrailing
    <2>3. r \in Seq(M) /\ Len(r) = n - 1 /\ n \in Nat \ {0} /\ \A k \in 1 .. n - 1 : r[k] = s[k]
      BY <1>3, <2>1, FrontPlaces
    <2>4. Alternate(r)
      <3> SUFFICES ASSUME NEW k \in 1 .. Len(r) - 1 PROVE EffectiveRole(r[k]) # EffectiveRole(r[k + 1])
        BY DEF Alternate
      <3>1. k \in 1 .. n - 1 /\ k + 1 \in 1 .. n - 1 BY <2>3
      <3>2. r[k] = s[k] /\ r[k + 1] = s[k + 1] BY <2>3, <3>1
      <3>3. EffectiveRole(s[k]) # EffectiveRole(s[k + 1]) BY <3>1 DEF Alternate
      <3> QED BY <3>2, <3>3
    <2>5. ASSUME r # <<>> PROVE EndsWithUser(r)
      <3> DEFINE l == n - 1
      <3>1. l \in 1 .. n - 1 /\ 1 \in 1 .. n - 1 /\ l + 1 = n BY <2>3, <2>5
      <3>2. Head(r) = s[1] /\ Head(s) = s[1] BY <1>3, <2>3, <2>5, <3>1
      <3>3. Last(r) = s[l] /\ Last(s) = s[n] BY <1>3, <2>3, <2>5, <3>1, FrontPlaces
      <3>4. EffectiveRole(s[l]) # EffectiveRole(s[n])
        <4>1. EffectiveRole(s[l]) # EffectiveRole(s[l + 1]) BY <3>1 DEF Alternate
        <4> QED BY <3>1, <4>1
      <3>5. s[l] \in M BY <2>3, <3>1
      <3>6. s[l].role \in {"user", "assistant"} BY <3>5 DEF IsMessages
      <3>7. EffectiveRole(s[n]) = "assistant" BY <1>3, <3>3 DEF EffectiveRole
      <3>8. s[l].role = "assistant" => EffectiveRole(s[l]) = "assistant" BY DEF EffectiveRole
      <3>9. Last(r).role = "user" BY <3>3, <3>4, <3>6, <3>7, <3>8
      <3> QED BY <1>3, <2>5, <3>2, <3>9 DEF EndsWithUser
    <2> QED BY <2>2, <2>3, <2>4, <2>5
  <1> QED BY <1>1, <1>2, <1>3

\* The message that is sent when there is no other
Start == Msg("user", <<Text("text")>>)

LEMMA FixMessagesEnds ==
  ASSUME NEW M, IsMessages(M), NEW s \in Seq(M)
  PROVE  /\ FixMessages(s) \in Seq(M \cup {Start}) /\ FixMessages(s) # <<>>
         /\ Len(FixMessages(s)) <= Len(s) \/ Len(FixMessages(s)) = 1
         /\ EndsWithUser(FixMessages(s)) /\ Alternate(FixMessages(s))
PROOF
  <1> DEFINE a == MapSeq(TrimWhitespace, MapSeq(MergeTextContent, s))
             b == RemoveEmptyMessages(a)
             c == FixToolCalling(b)
             d == MergeConsecutive(c)
             e == DropLeading(d)
             f == DropTrailing(e)
  <1>1. a \in Seq(M) /\ Len(a) = Len(s) BY TrimmedLike
  <1> HIDE DEF a
  <1>2. b \in Seq(M) /\ Len(b) <= Len(a) BY <1>1, RemoveEmptyType
  <1> HIDE DEF b
  <1>3. c \in Seq(M) /\ Len(c) <= Len(b) BY <1>2, FixToolCallingType
  <1> HIDE DEF c
  <1>4. d \in Seq(M) /\ Len(d) <= Len(c) /\ Alternate(d) BY <1>3, Merged
  <1> HIDE DEF d
  <1>5. e \in Seq(M) /\ Len(e) <= Len(d) /\ Alternate(e) /\ (e # <<>> => Head(e).role = "user")
    BY <1>4, DropLeadingEnds
  <1> HIDE DEF e
  <1>6. f \in Seq(M) /\ Len(f) <= Len(e) /\ Alternate(f) /\ (f # <<>> => EndsWithUser(f))
    BY <1>5, DropTrailingEnds
  <1>7. FixMessages(s) = PopulateIfEmpty(f) BY DEF FixMessages, FixLeadTrail, a, b, c, d, e
  <1> HIDE DEF f
  <1>8. CASE f # <<>>
    <2>1. FixMessages(s) = f BY <1>7, <1>8 DEF PopulateIfEmpty
    <2>2. f \in Seq(M \cup {Start}) BY <1>6
    <2>3. Len(f) <= Len(s) BY <1>1, <1>2, <1>3, <1>4, <1>5, <1>6
    <2> QED BY <1>6, <1>8, <2>1, <2>2, <2>3
  <1>9. CASE f = <<>>
    <2>1. FixMessages(s) = <<Start>> BY <1>7, <1>9 DEF PopulateIfEmpty, Start
    <2>2. <<Start>> \in Seq(M \cup {Start}) /\ Len(<<Start>>) = 1 /\ <<Start>> # <<>> OBVIOUS
    <2>3. Start.role = "user" BY DEF Start, Msg
    <2>4. EndsWithUser(<<Start>>) BY <2>2, <2>3 DEF EndsWithUser, Last
    <2>5. Alternate(<<Start>>) BY <2>2 DEF Alternate
    <2> QED BY <2>1, <2>2, <2>4, <2>5
  <1> QED BY <1>8, <1>9

-----------------------------------------------------------------------------
(***************************************************************************)
(* Placing the fixed messages: what the model sees is what was fixed, as   *)
(* long as no more messages come out of the passes than went in.           *)
(***************************************************************************)
Seen(M) == {m \in M : m.visible}

LEMMA SeenMessages == ASSUME NEW M, IsMessages(M) PROVE IsMessages(Seen(M))
PROOF
  <1> SUFFICES ASSUME NEW m \in Seen(M)
               PROVE  /\ m.role \in {"user", "assistant"} /\ m.items \in Seq(Content)
                      /\ \A its \in Seq(Content) : WithItemsAgrees(Seen(M), m, its)
    BY DEF IsMessages
  <1>1. m \in M /\ m.visible BY DEF Seen
  <1>2. m.role \in {"user", "assistant"} /\ m.items \in Seq(Content) BY <1>1 DEF IsMessages
  <1>3. ASSUME NEW its \in Seq(Content) PROVE WithItemsAgrees(Seen(M), m, its)
    <2>1. WithItemsAgrees(M, m, its) BY <1>1 DEF IsMessages
    <2> QED BY <1>1, <2>1 DEF WithItemsAgrees, Seen
  <1> QED BY <1>2, <1>3

LEMMA VisibleType ==
  ASSUME NEW M, NEW s \in Seq(M)
  PROVE  Visible(s) \in Seq(Seen(M)) /\ Visible(s) \in Seq(M) /\ Len(Visible(s)) <= Len(s)
PROOF
  <1> DEFINE K == {n \in DOMAIN s : s[n].visible}
             p == Visible(s)
  <1>1. p = Picked(s, K) BY DEF Visible, Keep
  <1>2. p \in Seq(M) /\ Len(p) <= Len(s) /\ \E e : Picks(e, p, s, K)
    <2> HIDE DEF p, K
    <2> QED BY <1>1, PickedPlaces
  <1>3. PICK e : Picks(e, p, s, K) BY <1>2
  <1>4. \A j \in 1 .. Len(p) : p[j] \in Seen(M)
    <2> SUFFICES ASSUME NEW j \in 1 .. Len(p) PROVE p[j] \in Seen(M) OBVIOUS
    <2>1. e[j] \in K /\ p[j] = s[e[j]]
      <3> HIDE DEF p, K
      <3> QED BY <1>3 DEF Picks
    <2>2. p[j] \in M BY <1>2
    <2> HIDE DEF p
    <2> QED BY <2>1, <2>2 DEF Seen
  <1> HIDE DEF p
  <1>5. p \in Seq(Seen(M)) BY <1>2, <1>4
  <1> QED BY <1>2, <1>5 DEF p

LEMMA VisibleSnoc ==
  ASSUME NEW M, NEW s \in Seq(M), NEW x \in M
  PROVE  Visible(Append(s, x)) = IF x.visible THEN Append(Visible(s), x) ELSE Visible(s)
PROOF
  <1> DEFINE n == Len(s)
             t == Append(s, x)
             K == {k \in DOMAIN s : s[k].visible}
             L == {k \in DOMAIN t : t[k].visible}
  <1>1. n \in Nat /\ t \in Seq(M) /\ Len(t) = n + 1 /\ t[n + 1] = x /\ (\A k \in 1 .. n : t[k] = s[k])
        /\ DOMAIN s = 1 .. n /\ DOMAIN t = 1 .. (n + 1)
    OBVIOUS
  <1>2. Visible(s) = Picked(s, K) /\ Visible(t) = Picked(t, L) BY DEF Visible, Keep
  <1>3. \A k \in 1 .. n : s[k] = t[k] /\ (k \in K <=> k \in L)
    <2> HIDE DEF t
    <2> QED BY <1>1
  <1>4. n + 1 \in L <=> x.visible
    <2> HIDE DEF t
    <2> QED BY <1>1
  <1> HIDE DEF t, K, L
  <1>5. PICK f \in [0 .. Len(s) -> Seq(M)] : IsPicking(f, s, K) /\ Picked(s, K) = f[Len(s)] BY PickedRun
  <1>6. PICK g \in [0 .. Len(t) -> Seq(M)] : IsPicking(g, t, L) /\ Picked(t, L) = g[Len(t)] BY <1>1, PickedRun
  <1>7. f[n] = g[n]
    <2>1. n <= Len(s) /\ n <= Len(t) BY <1>1
    <2> QED BY <1>1, <1>3, <1>5, <1>6, <2>1, SamePicking
  <1>8. g[n + 1] = IF n + 1 \in L THEN Append(g[n], t[n + 1]) ELSE g[n]
    <2>1. n + 1 \in 1 .. Len(t) /\ (n + 1) - 1 = n BY <1>1
    <2> QED BY <1>6, <2>1 DEF IsPicking
  <1> QED BY <1>1, <1>2, <1>4, <1>5, <1>6, <1>7, <1>8 DEF t

\* What Visible sees of the first 0, 1, ... messages
LEMMA VisibleRun ==
  ASSUME NEW M, NEW s \in Seq(M)
  PROVE  \E g \in [0 .. Len(s) -> Seq(M)] :
           /\ g[0] = <<>>
           /\ \A k \in 1 .. Len(s) :
                g[k] = IF s[k].visible THEN Append(g[k - 1], s[k]) ELSE g[k - 1]
           /\ Visible(s) = g[Len(s)]
PROOF
  <1> DEFINE K == {n \in DOMAIN s : s[n].visible}
  <1>1. \A k \in 1 .. Len(s) : k \in K <=> s[k].visible OBVIOUS
  <1>2. Visible(s) = Picked(s, K) BY DEF Visible, Keep
  <1> HIDE DEF K
  <1>3. PICK g \in [0 .. Len(s) -> Seq(M)] : IsPicking(g, s, K) /\ Picked(s, K) = g[Len(s)] BY PickedRun
  <1>4. \A k \in 1 .. Len(s) : g[k] = IF s[k].visible THEN Append(g[k - 1], s[k]) ELSE g[k - 1]
    BY <1>1, <1>3 DEF IsPicking
  <1> QED BY <1>2, <1>3, <1>4 DEF IsPicking

Placing(M) == [idx : Nat, msgs : Seq(M)]

LEMMA PlaceFixedType ==
  ASSUME NEW M, NEW fixed \in Seq(M), NEW acc \in Placing(M), NEW m \in M
  PROVE  PlaceFixed(fixed, acc, m) \in Placing(M)
PROOF
  <1>1. acc.idx \in Nat /\ acc.msgs \in Seq(M) /\ acc = [idx |-> acc.idx, msgs |-> acc.msgs] BY DEF Placing
  <1>2. PICK p : p = acc.msgs OBVIOUS
  <1>3. Append(p, m) \in Seq(M) /\ \A j \in DOMAIN fixed : Append(p, fixed[j]) \in Seq(M)
    BY <1>1, <1>2
  <1>4. PlaceFixed(fixed, acc, m) =
          IF ~m.visible THEN [idx |-> acc.idx, msgs |-> Append(p, m)]
          ELSE IF acc.idx + 1 \in DOMAIN fixed
               THEN [idx |-> acc.idx + 1, msgs |-> Append(p, fixed[acc.idx + 1])]
               ELSE [idx |-> acc.idx + 1, msgs |-> p]
    <2>1. CASE ~m.visible BY <1>1, <1>2, <2>1 DEF PlaceFixed
    <2>2. CASE m.visible /\ acc.idx + 1 \in DOMAIN fixed BY <1>1, <1>2, <2>2 DEF PlaceFixed
    <2>3. CASE m.visible /\ acc.idx + 1 \notin DOMAIN fixed BY <1>1, <1>2, <2>3 DEF PlaceFixed
    <2> QED BY <2>1, <2>2, <2>3
  <1> QED BY <1>1, <1>2, <1>3, <1>4 DEF Placing

IsPlacing(g, M, fixed, s) ==
  /\ g \in [0 .. Len(s) -> Placing(M)]
  /\ g[0] = [idx |-> 0, msgs |-> <<>>]
  /\ \A k \in 1 .. Len(s) : g[k] = PlaceFixed(fixed, g[k - 1], s[k])

LEMMA PlacedTrace ==
  ASSUME NEW M, NEW fixed \in Seq(M), NEW s \in Seq(M)
  PROVE  \E g : IsPlacing(g, M, fixed, s) /\ Placed(fixed, s) = g[Len(s)]
PROOF
  <1> DEFINE n == Len(s)
             V == Placing(M)
             b == [idx |-> 0, msgs |-> <<>>]
             h == [k \in 1 .. n |-> [v \in V |-> PlaceFixed(fixed, v, s[k])]]
             P(c) == c = [S \in SUBSET (1 .. n) |->
                            IF S = {} THEN b ELSE PlaceFixed(fixed, c[S \ {Max(S)}], s[Max(S)])]
  <1>1. n \in Nat /\ b \in V /\ DOMAIN s = 1 .. n BY DEF Placing
  <1>2. h \in [1 .. n -> [V -> V]]
    <2>1. \A k \in 1 .. n : s[k] \in M OBVIOUS
    <2> QED BY <2>1, PlaceFixedType
  <1>3. \A S \in SUBSET (1 .. n) : S # {} => Max(S) \in 1 .. n /\ S \ {Max(S)} \in SUBSET (1 .. n)
    BY <1>1, MaxInside
  <1>4. \E c : P(c)
    <2>1. PICK f \in [SUBSET (1 .. n) -> V] : IsFold(f, n, b, h)
      <3> HIDE DEF h, V, n, b
      <3> QED BY <1>1, <1>2, FoldExists
    <2>2. P(f)
      <3> HIDE DEF V, b
      <3> QED BY <1>3, <2>1 DEF IsFold
    <2> QED BY <2>2
  <1>5. PICK c : c = CHOOSE d : P(d) OBVIOUS
  <1>6. P(c) BY <1>4, <1>5
  <1>7. Placed(fixed, s) = c[1 .. n] BY <1>1, <1>5 DEF Placed, FoldLeft, MapThenFoldSet
  <1>8. Folds(c, V, n, b, h)
    <2> HIDE DEF V, b
    <2> QED BY <1>3, <1>6 DEF Folds
  <1>9. PICK g : IsTrace(g, V, n, b, h) /\ c[1 .. n] = g[n]
    <2> HIDE DEF h, V, n, b, P
    <2>1. StepsIn(V, n, b, h) BY <1>1, <1>2 DEF StepsIn
    <2> QED BY <2>1, <1>8, FoldTrace
  <1>10. \A k \in 1 .. n : g[k] = PlaceFixed(fixed, g[k - 1], s[k])
    <2> SUFFICES ASSUME NEW k \in 1 .. n PROVE g[k] = PlaceFixed(fixed, g[k - 1], s[k]) OBVIOUS
    <2>1. g[k - 1] \in V BY <1>9 DEF IsTrace
    <2> HIDE DEF V
    <2> QED BY <1>9, <2>1 DEF IsTrace
  <1> HIDE DEF h, P
  <1> QED BY <1>7, <1>9, <1>10 DEF IsTrace, IsPlacing

\* All of a message's placing: the number of visible messages so far, and how
\* many of the fixed ones are among what was placed
PlacedSoFar(fixed, acc, c) ==
  /\ acc.idx = Len(c)
  /\ Len(Visible(acc.msgs)) = IF Len(c) <= Len(fixed) THEN Len(c) ELSE Len(fixed)
  /\ \A j \in 1 .. Len(Visible(acc.msgs)) : Visible(acc.msgs)[j] = fixed[j]

LEMMA PlaceFixedStep ==
  ASSUME NEW M, NEW fixed \in Seq(M), \A j \in 1 .. Len(fixed) : fixed[j].visible,
         NEW acc \in Placing(M), NEW c \in Seq(M), NEW m \in M, PlacedSoFar(fixed, acc, c)
  PROVE  PlacedSoFar(fixed, PlaceFixed(fixed, acc, m), IF m.visible THEN Append(c, m) ELSE c)
PROOF
  <1>1. acc.idx \in Nat /\ acc.msgs \in Seq(M) /\ acc = [idx |-> acc.idx, msgs |-> acc.msgs] BY DEF Placing
  <1>2. PICK p \in Seq(M) : p = acc.msgs BY <1>1
  <1>3. PICK v \in Seq(M) : v = Visible(p) BY VisibleType
  <1>4. PICK i \in Nat : i = acc.idx BY <1>1
  <1>5. /\ i = Len(c) /\ Len(v) = IF i <= Len(fixed) THEN i ELSE Len(fixed)
        /\ \A j \in 1 .. Len(v) : v[j] = fixed[j]
    BY <1>2, <1>3, <1>4 DEF PlacedSoFar
  <1>6. PICK r : r = PlaceFixed(fixed, acc, m) OBVIOUS
  <1>7. CASE ~m.visible
    <2>1. r = [idx |-> i, msgs |-> Append(p, m)] BY <1>1, <1>2, <1>4, <1>6, <1>7 DEF PlaceFixed
    <2>2. Visible(Append(p, m)) = v BY <1>3, <1>7, VisibleSnoc
    <2>3. PlacedSoFar(fixed, r, c) BY <1>5, <2>1, <2>2 DEF PlacedSoFar
    <2> QED BY <1>6, <1>7, <2>3
  <1>8. CASE m.visible /\ i + 1 \in DOMAIN fixed
    <2> DEFINE x == fixed[i + 1]
               w == Append(v, x)
    <2>1. r = [idx |-> i + 1, msgs |-> Append(p, x)] BY <1>1, <1>2, <1>4, <1>6, <1>8 DEF PlaceFixed
    <2>2. i + 1 \in 1 .. Len(fixed) /\ x \in M /\ x.visible BY <1>8
    <2>3. Visible(Append(p, x)) = w BY <1>3, <2>2, VisibleSnoc
    <2>4. Len(v) = i BY <1>5, <2>2
    <2>5. Len(w) = i + 1 /\ \A j \in 1 .. Len(w) : w[j] = fixed[j] BY <1>5, <2>2, <2>4
    <2>6. Len(Append(c, m)) = i + 1 BY <1>5
    <2> HIDE DEF w, x
    <2>7. PlacedSoFar(fixed, r, Append(c, m)) BY <2>1, <2>2, <2>3, <2>5, <2>6 DEF PlacedSoFar
    <2> QED BY <1>6, <1>8, <2>7
  <1>9. CASE m.visible /\ i + 1 \notin DOMAIN fixed
    <2>1. r = [idx |-> i + 1, msgs |-> p] BY <1>1, <1>2, <1>4, <1>6, <1>9 DEF PlaceFixed
    <2>2. ~(i + 1 <= Len(fixed)) BY <1>9
    <2>3. Len(Append(c, m)) = i + 1 BY <1>5
    <2>4. PlacedSoFar(fixed, r, Append(c, m)) BY <1>3, <1>5, <2>1, <2>2, <2>3 DEF PlacedSoFar
    <2> QED BY <1>6, <1>9, <2>4
  <1> QED BY <1>7, <1>8, <1>9

LEMMA PlacedVisible ==
  ASSUME NEW M, NEW fixed \in Seq(M), \A j \in 1 .. Len(fixed) : fixed[j].visible,
         NEW s \in Seq(M), Len(fixed) <= Len(Visible(s))
  PROVE  Placed(fixed, s).msgs \in Seq(M) /\ Visible(Placed(fixed, s).msgs) = fixed
PROOF
  <1> DEFINE n == Len(s)
  <1>0. PICK g : IsPlacing(g, M, fixed, s) /\ Placed(fixed, s) = g[n] BY PlacedTrace
  <1>1. /\ g \in [0 .. n -> Placing(M)]
        /\ g[0] = [idx |-> 0, msgs |-> <<>>]
        /\ \A k \in 1 .. n : g[k] = PlaceFixed(fixed, g[k - 1], s[k])
        /\ Placed(fixed, s) = g[n]
    BY <1>0 DEF IsPlacing
  <1>2. PICK c \in [0 .. n -> Seq(M)] :
          /\ c[0] = <<>>
          /\ \A k \in 1 .. n : c[k] = IF s[k].visible THEN Append(c[k - 1], s[k]) ELSE c[k - 1]
          /\ Visible(s) = c[n]
    BY VisibleRun
  <1> DEFINE T == {k \in 0 .. n : PlacedSoFar(fixed, g[k], c[k])}
  <1>3. n \in Nat /\ n \in 0 .. n OBVIOUS
  <1>4. 0 \in T
    <2>1. <<>> \in Seq(M) OBVIOUS
    <2>2. Len(Visible(<<>>)) = 0
      <3>1. Len(Visible(<<>>)) <= 0 /\ Len(Visible(<<>>)) \in Nat
        <4>1. PICK v \in Seq(M) : v = Visible(<<>>) BY <2>1, VisibleType
        <4>2. Len(Visible(<<>>)) <= Len(<<>>) BY <2>1, VisibleType
        <4> QED BY <4>1, <4>2
      <3> QED BY <3>1
    <2>3. PlacedSoFar(fixed, g[0], c[0]) BY <1>1, <1>2, <2>2 DEF PlacedSoFar
    <2> QED BY <1>3, <2>3
  <1>5. ASSUME NEW k \in 0 .. n, k # n, k \in T PROVE k + 1 \in T
    <2>1. k + 1 \in 1 .. n /\ (k + 1) - 1 = k /\ s[k + 1] \in M BY <1>5
    <2>2. PICK acc \in Placing(M) : acc = g[k] BY <1>1
    <2>3. PICK d \in Seq(M) : d = c[k] BY <1>2
    <2>4. PICK m \in M : m = s[k + 1] BY <2>1
    <2>5. PlacedSoFar(fixed, PlaceFixed(fixed, acc, m), IF m.visible THEN Append(d, m) ELSE d)
      BY <1>5, <2>2, <2>3, PlaceFixedStep
    <2>6. PlacedSoFar(fixed, g[k + 1], c[k + 1]) BY <1>1, <1>2, <2>1, <2>2, <2>3, <2>4, <2>5
    <2> QED BY <2>1, <2>6
  <1>6. \A k \in 0 .. n : k \in T
    <2> HIDE DEF T
    <2> QED BY <1>3, <1>4, <1>5, InductionTo
  <1>7. PlacedSoFar(fixed, g[n], c[n]) BY <1>3, <1>6
  <1>8. g[n].msgs \in Seq(M) BY <1>1, <1>3 DEF Placing
  <1>9. PICK v \in Seq(M) : v = Visible(g[n].msgs) BY <1>8, VisibleType
  <1>10. Len(c[n]) \in Nat /\ Len(fixed) \in Nat /\ Len(fixed) <= Len(c[n]) BY <1>2, <1>3
  <1>11. Len(v) = Len(fixed) /\ \A j \in 1 .. Len(v) : v[j] = fixed[j]
    BY <1>7, <1>9, <1>10 DEF PlacedSoFar
  <1>12. v = fixed BY <1>11
  <1> QED BY <1>1, <1>8, <1>9, <1>12

-----------------------------------------------------------------------------
(***************************************************************************)
(* What the model is sent of a conversation it sees a message of: the      *)
(* fixed messages, which begin and end with the user's and alternate.      *)
(***************************************************************************)
LEMMA FixedVisible ==
  ASSUME NEW M, IsMessages(M), NEW s \in Seq(M), Visible(s) # <<>>
  PROVE  /\ Fixed(s) \in Seq(M \cup {Start})
         /\ Visible(Fixed(s)) = FixMessages(Visible(s))
         /\ EndsWithUser(Visible(Fixed(s))) /\ Alternate(Visible(Fixed(s)))
PROOF
  <1> DEFINE v == Visible(s)
             f == FixMessages(v)
             N == M \cup {Start}
  <1>1. v \in Seq(Seen(M)) /\ IsMessages(Seen(M)) BY VisibleType, SeenMessages
  <1>2. Len(v) \in Nat \ {0} BY <1>1
  <1> HIDE DEF v
  <1>3. /\ f \in Seq(Seen(M) \cup {Start}) /\ (Len(f) <= Len(v) \/ Len(f) = 1)
        /\ EndsWithUser(f) /\ Alternate(f)
    BY <1>1, FixMessagesEnds
  <1> HIDE DEF f
  <1>4. f \in Seq(N) /\ \A j \in 1 .. Len(f) : f[j].visible
    <2>1. Start.visible BY DEF Start, Msg
    <2>2. \A j \in 1 .. Len(f) : f[j] \in Seen(M) \cup {Start} BY <1>3
    <2> QED BY <1>3, <2>1, <2>2 DEF Seen
  <1>5. s \in Seq(N) OBVIOUS
  <1>6. Len(f) <= Len(v)
    <2>1. Len(f) <= Len(v) \/ Len(f) = 1 BY <1>3
    <2>2. PICK n \in Nat \ {0} : n = Len(v) BY <1>2
    <2>3. 1 <= n BY <2>2
    <2>4. CASE Len(f) = 1 BY <2>2, <2>3, <2>4, Zenon
    <2> QED BY <2>1, <2>4
  <1>7. Placed(f, s).msgs \in Seq(N) /\ Visible(Placed(f, s).msgs) = f
    <2> HIDE DEF N
    <2> QED BY <1>4, <1>5, <1>6, PlacedVisible DEF v
  <1>8. Fixed(s) = Placed(f, s).msgs BY DEF Fixed, f, v
  <1> QED BY <1>3, <1>7, <1>8 DEF f, v

-----------------------------------------------------------------------------
(***************************************************************************)
(* Calls and results.  Has tells whether a message holds an item, Once     *)
(* that it does so in one place at most; In and OnceIn tell the same of    *)
(* messages.                                                               *)
(***************************************************************************)
Has(t, x) == \E k \in DOMAIN t : t[k] = x

Once(t, x) == \A k, l \in DOMAIN t : t[k] = x /\ t[l] = x => k = l

LEMMA AppendHas ==
  ASSUME NEW S, NEW t \in Seq(S), NEW y \in S, NEW x
  PROVE  /\ Has(Append(t, y), x) <=> Has(t, x) \/ y = x
         /\ Once(t, x) /\ (y = x => ~Has(t, x)) => Once(Append(t, y), x)
         /\ ~Has(<<>>, x) /\ Once(<<>>, x)
PROOF
  <1> DEFINE n == Len(t)
             r == Append(t, y)
  <1>1. /\ n \in Nat /\ DOMAIN t = 1 .. n /\ DOMAIN r = 1 .. (n + 1) /\ r[n + 1] = y
        /\ \A k \in 1 .. n : r[k] = t[k]
    OBVIOUS
  <1>2. \A k \in DOMAIN r : k \in DOMAIN t \/ k = n + 1 BY <1>1
  <1>3. \A k \in DOMAIN t : k \in DOMAIN r /\ r[k] = t[k] BY <1>1
  <1>4. n + 1 \in DOMAIN r BY <1>1
  <1> HIDE DEF r
  <1>5. Has(r, x) <=> Has(t, x) \/ y = x BY <1>1, <1>2, <1>3, <1>4 DEF Has
  <1>6. Once(t, x) /\ (y = x => ~Has(t, x)) => Once(r, x)
    BY <1>1, <1>2, <1>3 DEF Has, Once
  <1>7. ~Has(<<>>, x) /\ Once(<<>>, x) BY DEF Has, Once
  <1> QED BY <1>5, <1>6, <1>7 DEF r

LEMMA ConcatHas ==
  ASSUME NEW S, NEW s \in Seq(S), NEW t \in Seq(S), NEW x
  PROVE  /\ Has(s \o t, x) <=> Has(s, x) \/ Has(t, x)
         /\ Once(s, x) /\ Once(t, x) /\ ~(Has(s, x) /\ Has(t, x)) => Once(s \o t, x)
PROOF
  <1> DEFINE n == Len(s)
             r == s \o t
  <1>1. DOMAIN s = 1 .. n /\ DOMAIN t = 1 .. Len(t) /\ DOMAIN r = 1 .. Len(r) /\ n \in Nat
    BY ConcatPlaces
  <1>2. /\ \A k \in 1 .. n : k \in 1 .. Len(r) /\ r[k] = s[k]
        /\ \A k \in 1 .. Len(t) : n + k \in 1 .. Len(r) /\ r[n + k] = t[k]
        /\ \A k \in 1 .. Len(r) : k \in 1 .. n \/ \E j \in 1 .. Len(t) : k = n + j
    BY ConcatPlaces
  <1> HIDE DEF r, n
  <1>3. Has(s, x) => Has(r, x) BY <1>1, <1>2 DEF Has
  <1>4. Has(t, x) => Has(r, x) BY <1>1, <1>2 DEF Has
  <1>5. \A k \in DOMAIN r : r[k] = x => \/ k \in DOMAIN s /\ s[k] = x
                                        \/ \E j \in DOMAIN t : k = n + j /\ t[j] = x
    <2> SUFFICES ASSUME NEW k \in DOMAIN r, r[k] = x
                 PROVE  \/ k \in DOMAIN s /\ s[k] = x
                        \/ \E j \in DOMAIN t : k = n + j /\ t[j] = x
      OBVIOUS
    <2>1. CASE k \in 1 .. n BY <1>1, <1>2, <2>1
    <2>2. CASE \E j \in 1 .. Len(t) : k = n + j
      <3>1. PICK j \in 1 .. Len(t) : k = n + j BY <2>2
      <3>2. t[j] = x BY <1>2, <3>1
      <3> QED BY <1>1, <3>1, <3>2
    <2> QED BY <1>1, <1>2, <2>1, <2>2
  <1>6. Has(r, x) => Has(s, x) \/ Has(t, x) BY <1>5 DEF Has
  <1>7. ASSUME Once(s, x), Once(t, x), ~(Has(s, x) /\ Has(t, x)) PROVE Once(r, x)
    <2> SUFFICES ASSUME NEW k \in DOMAIN r, NEW l \in DOMAIN r, r[k] = x, r[l] = x PROVE k = l
      BY DEF Once
    <2>1. CASE Has(s, x)
      <3>1. k \in DOMAIN s /\ s[k] = x /\ l \in DOMAIN s /\ s[l] = x BY <1>5, <1>7, <2>1 DEF Has
      <3> QED BY <1>7, <3>1 DEF Once
    <2>2. CASE ~Has(s, x)
      <3>1. PICK i \in DOMAIN t : k = n + i /\ t[i] = x BY <1>5, <2>2 DEF Has
      <3>2. PICK j \in DOMAIN t : l = n + j /\ t[j] = x BY <1>5, <2>2 DEF Has
      <3>3. i = j BY <1>7, <3>1, <3>2 DEF Once
      <3> QED BY <3>1, <3>2, <3>3
    <2> QED BY <2>1, <2>2
  <1> QED BY <1>3, <1>4, <1>6, <1>7 DEF r

LEMMA PickedHas ==
  ASSUME NEW S, NEW s \in Seq(S), NEW K, NEW x
  PROVE  /\ Has(Picked(s, K), x) <=> \E k \in DOMAIN s : k \in K /\ s[k] = x
         /\ Once(s, x) => Once(Picked(s, K), x)
PROOF
  <1> DEFINE p == Picked(s, K)
  <1>1. p \in Seq(S) /\ \E e : Picks(e, p, s, K) BY PickedPlaces
  <1>2. PICK e : Picks(e, p, s, K) BY <1>1
  <1>3. DOMAIN p = 1 .. Len(p) /\ DOMAIN s = 1 .. Len(s) BY <1>1
  <1> HIDE DEF p
  <1>4. \A j \in DOMAIN p : e[j] \in DOMAIN s /\ e[j] \in K /\ p[j] = s[e[j]] BY <1>2, <1>3 DEF Picks
  <1>5. \A k \in DOMAIN s : k \in K => \E j \in DOMAIN p : e[j] = k BY <1>2, <1>3 DEF Picks
  <1>6. Has(p, x) <=> \E k \in DOMAIN s : k \in K /\ s[k] = x BY <1>4, <1>5 DEF Has
  <1>7. ASSUME Once(s, x), NEW i \in DOMAIN p, NEW j \in DOMAIN p, p[i] = x, p[j] = x PROVE i = j
    <2>1. e[i] = e[j] BY <1>4, <1>7 DEF Once
    <2>2. ~(i < j) /\ ~(j < i) BY <1>2, <1>3, <1>4, <2>1 DEF Picks
    <2> QED BY <1>3, <2>2
  <1>8. Once(s, x) => Once(p, x) BY <1>7 DEF Once
  <1> QED BY <1>6, <1>8 DEF p

\* An item that is not text: joining and trimming texts leaves it alone
LEMMA JoinItemHas ==
  ASSUME NEW done \in Seq(Content), NEW y \in Content, NEW x, ~IsText(x)
  PROVE  /\ Has(JoinItem(done, y), x) <=> Has(done, x) \/ y = x
         /\ Once(done, x) /\ (y = x => ~Has(done, x)) => Once(JoinItem(done, y), x)
PROOF
  <1>1. CASE done # <<>> /\ IsText(y) /\ IsText(Last(done))
    <2>1. PICK f \in Seq(Content) : f = Front(done) BY <1>1, LastType
    <2>2. PICK z \in Content : z = Last(done) BY <1>1, LastType
    <2>3. done = Append(f, z) BY <1>1, <2>1, <2>2, LastType
    <2>4. PICK w : w = Text(Joined(Last(done).kind, y.kind)) OBVIOUS
    <2>5. IsText(w)
      <3>1. PICK k : k = Joined(Last(done).kind, y.kind) OBVIOUS
      <3>2. k \in Texts BY <3>1, Zenon DEF Joined, Texts
      <3>3. w.kind = k BY <2>4, <3>1 DEF Text
      <3> QED BY <3>2, <3>3 DEF IsText
    <2>6. x # z /\ x # y /\ x # w BY <1>1, <2>2, <2>5
    <2>7. JoinItem(done, y) = Append(f, w) BY <1>1, <2>1, <2>4 DEF JoinItem
    <2>8. w \in Content
      <3>1. Append(f, w) \in Seq(Content) BY <2>7, JoinType
      <3>2. Append(f, w)[Len(f) + 1] = w /\ Len(Append(f, w)) = Len(f) + 1 BY <2>1
      <3> QED BY <3>1, <3>2
    <2>9. /\ Has(done, x) <=> Has(f, x) \/ z = x
          /\ Has(Append(f, w), x) <=> Has(f, x) \/ w = x
          /\ Once(f, x) => Once(Append(f, w), x)
      BY <2>3, <2>6, <2>8, AppendHas
    <2>10. Once(done, x) => Once(f, x)
      <3>1. \A k \in DOMAIN f : k \in DOMAIN done /\ done[k] = f[k] BY <2>3
      <3> QED BY <3>1 DEF Once
    <2> QED BY <2>6, <2>7, <2>9, <2>10
  <1>2. CASE ~(done # <<>> /\ IsText(y) /\ IsText(Last(done)))
    <2>1. JoinItem(done, y) = Append(done, y) BY <1>2 DEF JoinItem
    <2> QED BY <2>1, AppendHas
  <1> QED BY <1>1, <1>2

LEMMA JoinedHas ==
  ASSUME NEW t \in Seq(Content), NEW x, ~IsText(x)
  PROVE  /\ Has(JoinedItems(t), x) <=> Has(t, x)
         /\ Once(t, x) => Once(JoinedItems(t), x)
PROOF
  <1> DEFINE n == Len(t)
  <1>1. PICK g \in [0 .. n -> Seq(Content)] :
          /\ g[0] = <<>>
          /\ \A k \in 1 .. n : g[k] = JoinItem(g[k - 1], t[k])
          /\ JoinedItems(t) = g[n]
    BY JoinTrace
  <1> DEFINE Good(k) == /\ Has(g[k], x) <=> \E j \in 1 .. k : t[j] = x
                        /\ Once(t, x) => Once(g[k], x)
             T == {k \in 0 .. n : Good(k)}
  <1>2. n \in Nat /\ n \in 0 .. n /\ DOMAIN t = 1 .. n OBVIOUS
  <1>3. 0 \in T
    <2>1. ~Has(g[0], x) /\ Once(g[0], x) BY <1>1 DEF Has, Once
    <2> QED BY <1>2, <2>1
  <1>4. ASSUME NEW k \in 0 .. n, k # n, k \in T PROVE k + 1 \in T
    <2>1. k + 1 \in 1 .. n /\ (k + 1) - 1 = k /\ k \in Nat BY <1>4
    <2>2. PICK q \in Seq(Content) : q = g[k] BY <1>1
    <2>3. PICK y \in Content : y = t[k + 1] BY <2>1
    <2>4. g[k + 1] = JoinItem(q, y) BY <1>1, <2>1, <2>2, <2>3
    <2>5. (Has(q, x) <=> \E j \in 1 .. k : t[j] = x) /\ (Once(t, x) => Once(q, x)) BY <1>4, <2>2
    <2>6. Once(t, x) /\ y = x => ~Has(q, x)
      <3>1. \A j \in 1 .. k : j \in DOMAIN t /\ k + 1 \in DOMAIN t /\ j # k + 1 BY <1>2, <2>1
      <3> QED BY <2>3, <2>5, <3>1 DEF Once
    <2>7. /\ Has(g[k + 1], x) <=> Has(q, x) \/ y = x
          /\ Once(q, x) /\ (y = x => ~Has(q, x)) => Once(g[k + 1], x)
      BY <2>4, JoinItemHas
    <2>8. Has(g[k + 1], x) <=> \E j \in 1 .. (k + 1) : t[j] = x
      <3>1. \A j : j \in 1 .. (k + 1) <=> j \in 1 .. k \/ j = k + 1 BY <2>1
      <3> QED BY <2>3, <2>5, <2>7, <3>1
    <2>9. Good(k + 1) BY <2>5, <2>6, <2>7, <2>8
    <2>10. k + 1 \in 0 .. n BY <2>1
    <2> HIDE DEF Good
    <2> QED BY <2>9, <2>10
  <1>5. \A k \in 0 .. n : k \in T
    <2> HIDE DEF T
    <2> QED BY <1>2, <1>3, <1>4, InductionTo
  <1>6. Good(n)
    <2>1. n \in T
      <3> HIDE DEF T
      <3> QED BY <1>2, <1>5
    <2> HIDE DEF Good
    <2> QED BY <2>1
  <1> QED BY <1>1, <1>2, <1>6 DEF Has

\* The messages as they come to the pairing: what is not text is where it was
Prepared(msg) == TrimWhitespace(MergeTextContent(msg))

LEMMA PreparedHas ==
  ASSUME NEW M, IsMessages(M), NEW m \in M, NEW x, ~IsText(x)
  PROVE  /\ Has(Prepared(m).items, x) <=> Has(m.items, x)
         /\ Once(m.items, x) => Once(Prepared(m).items, x)
PROOF
  <1>1. PICK r \in M : r = MergeTextContent(m) BY MergeTextLike DEF Like
  <1>2. m.items \in Seq(Content) /\ r.items \in Seq(Content) BY DEF IsMessages
  <1>3. /\ Has(r.items, x) <=> Has(m.items, x)
        /\ Once(m.items, x) => Once(r.items, x)
    <2>1. CASE m.role = "assistant"
      <3>1. r.items = JoinedItems(m.items)
        <4>1. r = WithItems(m, JoinedItems(m.items)) BY <1>1, <2>1 DEF MergeTextContent
        <4>2. JoinedItems(m.items) \in Seq(Content) BY <1>2, JoinedType
        <4> QED BY <4>1, <4>2, LikeItems
      <3>2. PICK t \in Seq(Content) : t = m.items BY <1>2
      <3>3. (Has(JoinedItems(t), x) <=> Has(t, x)) /\ (Once(t, x) => Once(JoinedItems(t), x))
        BY JoinedHas
      <3> QED BY <3>1, <3>2, <3>3
    <2>2. CASE m.role # "assistant" BY <1>1, <2>2 DEF MergeTextContent
    <2> QED BY <2>1, <2>2
  <1>4. /\ Has(TrimWhitespace(r).items, x) <=> Has(r.items, x)
        /\ Once(r.items, x) => Once(TrimWhitespace(r).items, x)
    <2> DEFINE Trim(item) == IF item.kind = "blank" THEN Text("empty") ELSE item
               its == [n \in DOMAIN r.items |-> Trim(r.items[n])]
    <2>1. \A item \in Content : Trim(item) \in Content /\ (Trim(item) = x <=> item = x)
      BY DEF Content, Text, NoId, Kinds, Texts, IsText
    <2>2. its \in Seq(Content) /\ DOMAIN its = DOMAIN r.items
          /\ \A n \in DOMAIN r.items : its[n] = x <=> r.items[n] = x
      <3> HIDE DEF Trim
      <3> QED BY <1>2, <2>1
    <2>3. TrimWhitespace(r) = IF r.role = "assistant" THEN WithItems(r, its) ELSE r
      BY DEF TrimWhitespace, MapSeq
    <2> HIDE DEF its
    <2>4. TrimWhitespace(r).items = IF r.role = "assistant" THEN its ELSE r.items
      BY <2>2, <2>3, LikeItems
    <2>5. /\ Has(its, x) <=> Has(r.items, x)
          /\ Once(r.items, x) => Once(its, x)
      BY <2>2 DEF Has, Once
    <2> QED BY <2>4, <2>5
  <1> QED BY <1>1, <1>3, <1>4 DEF Prepared

-----------------------------------------------------------------------------
(***************************************************************************)
(* The pairing.  In a user message, a response of i is kept just where it  *)
(* ends the waiting for i.                                                 *)
(***************************************************************************)
LEMMA ContentKinds ==
  ASSUME NEW y \in Content
  PROVE  /\ y.id \in Nat /\ y.kind \in Kinds
         /\ \A i : y = Response(i) <=> y.kind = "response" /\ y.id = i
         /\ \A i : y = Request(i) <=> y.kind = "request" /\ y.id = i
PROOF BY DEF Content, Response, Request

Settled(acc, pending, i) ==
  /\ ~Has(acc.items, Request(i))
  /\ Once(acc.items, Response(i))
  /\ Has(acc.items, Response(i)) <=> i \in pending /\ i \notin acc.pending
  /\ i \in acc.pending => i \in pending

LEMMA AnswerItemStep ==
  ASSUME NEW acc \in Acc, NEW y \in Content, NEW pending, NEW i, Settled(acc, pending, i)
  PROVE  Settled(AnswerItem(acc, y), pending, i)
PROOF
  <1>1. acc.items \in Seq(Content) BY DEF Acc
  <1>2. PICK t \in Seq(Content) : t = acc.items BY <1>1
  <1>3. PICK r : r = AnswerItem(acc, y) OBVIOUS
  <1>4. CASE Misplaced("user", y) \/ (y.kind = "response" /\ y.id \notin acc.pending)
    BY <1>4 DEF AnswerItem
  <1>5. CASE ~Misplaced("user", y) /\ y.kind = "response" /\ y.id \in acc.pending
    <2>1. r = [pending |-> acc.pending \ {y.id}, items |-> Append(t, y)]
      BY <1>2, <1>3, <1>5 DEF AnswerItem
    <2>2. y # Request(i) /\ (y = Response(i) <=> y.id = i) BY <1>5, ContentKinds
    <2>3. /\ Has(Append(t, y), Request(i)) <=> Has(t, Request(i))
          /\ Has(Append(t, y), Response(i)) <=> Has(t, Response(i)) \/ y.id = i
          /\ Once(t, Response(i)) /\ (y.id = i => ~Has(t, Response(i))) => Once(Append(t, y), Response(i))
      BY <2>2, AppendHas
    <2>4. y.id = i => ~Has(t, Response(i)) /\ i \in pending BY <1>2, <1>5 DEF Settled
    <2>5. r.pending = acc.pending \ {y.id} /\ r.items = Append(t, y) BY <2>1
    <2>6. Settled(r, pending, i) BY <1>2, <2>3, <2>4, <2>5 DEF Settled
    <2> QED BY <1>3, <2>6
  <1>6. CASE ~Misplaced("user", y) /\ y.kind # "response"
    <2>1. r = [pending |-> acc.pending, items |-> Append(t, y)] BY <1>2, <1>3, <1>6 DEF AnswerItem
    <2>2. y # Request(i) /\ y # Response(i) BY <1>6, ContentKinds DEF Misplaced
    <2>3. /\ Has(Append(t, y), Request(i)) <=> Has(t, Request(i))
          /\ Has(Append(t, y), Response(i)) <=> Has(t, Response(i))
          /\ Once(t, Response(i)) => Once(Append(t, y), Response(i))
      BY <2>2, AppendHas
    <2>4. r.pending = acc.pending /\ r.items = Append(t, y) BY <2>1
    <2>5. Settled(r, pending, i) BY <1>2, <2>3, <2>4 DEF Settled
    <2> QED BY <1>3, <2>5
  <1> QED BY <1>4, <1>5, <1>6

LEMMA AnswersSettled ==
  ASSUME NEW pending \in SUBSET Nat, NEW t \in Seq(Content), NEW i
  PROVE  Settled(AnswerItems(pending, t), pending, i)
PROOF
  <1> DEFINE n == Len(t)
  <1>1. PICK g \in [0 .. n -> Acc] :
          /\ g[0] = [pending |-> pending, items |-> <<>>]
          /\ \A k \in 1 .. n : g[k] = AnswerItem(g[k - 1], t[k])
          /\ AnswerItems(pending, t) = g[n]
    BY AnswerTrace
  <1> DEFINE T == {k \in 0 .. n : Settled(g[k], pending, i)}
  <1>2. n \in Nat /\ n \in 0 .. n OBVIOUS
  <1>3. 0 \in T
    <2>1. Settled(g[0], pending, i) BY <1>1 DEF Settled, Has, Once
    <2> QED BY <1>2, <2>1
  <1>4. ASSUME NEW k \in 0 .. n, k # n, k \in T PROVE k + 1 \in T
    <2>1. k + 1 \in 1 .. n /\ (k + 1) - 1 = k /\ k + 1 \in 0 .. n BY <1>4
    <2>2. PICK acc \in Acc : acc = g[k] BY <1>1
    <2>3. PICK y \in Content : y = t[k + 1] BY <2>1
    <2>4. Settled(AnswerItem(acc, y), pending, i) BY <1>4, <2>2, AnswerItemStep
    <2>5. g[k + 1] = AnswerItem(acc, y) BY <1>1, <2>1, <2>2, <2>3
    <2> QED BY <2>1, <2>4, <2>5
  <1>5. \A k \in 0 .. n : k \in T
    <2> HIDE DEF T
    <2> QED BY <1>2, <1>3, <1>4, InductionTo
  <1> QED BY <1>1, <1>2, <1>5

\* The user's words stay
LEMMA WordsStay ==
  ASSUME NEW pending \in SUBSET Nat, NEW t \in Seq(Content), NEW x, x.kind \in Texts, Has(t, x)
  PROVE  Has(AnswerItems(pending, t).items, x)
PROOF
  <1> DEFINE n == Len(t)
  <1>1. PICK g \in [0 .. n -> Acc] :
          /\ g[0] = [pending |-> pending, items |-> <<>>]
          /\ \A k \in 1 .. n : g[k] = AnswerItem(g[k - 1], t[k])
          /\ AnswerItems(pending, t) = g[n]
    BY AnswerTrace
  <1>2. PICK w \in 1 .. n : t[w] = x BY DEF Has
  <1> DEFINE T == {k \in 0 .. n : w <= k => Has(g[k].items, x)}
  <1>3. n \in Nat /\ n \in 0 .. n OBVIOUS
  <1>4. 0 \in T BY <1>2
  <1>5. ASSUME NEW k \in 0 .. n, k # n, k \in T PROVE k + 1 \in T
    <2>1. k + 1 \in 1 .. n /\ (k + 1) - 1 = k /\ k + 1 \in 0 .. n BY <1>5
    <2>2. PICK acc \in Acc : acc = g[k] BY <1>1
    <2>3. PICK y \in Content : y = t[k + 1] BY <2>1
    <2>4. g[k + 1] = AnswerItem(acc, y) BY <1>1, <2>1, <2>2, <2>3
    <2>5. PICK s \in Seq(Content) : s = acc.items BY DEF Acc
    <2>6. g[k + 1].items \in {s, Append(s, y)} BY <2>4, <2>5 DEF AnswerItem
    <2>7. y = x => g[k + 1].items = Append(s, y)
      BY <2>4, <2>5 DEF AnswerItem, Misplaced, Texts
    <2>8. Has(Append(s, y), x) <=> Has(s, x) \/ y = x BY AppendHas
    <2>9. w <= k + 1 => Has(g[k + 1].items, x)
      <3>1. CASE w <= k BY <1>5, <2>2, <2>5, <2>6, <2>8, <3>1
      <3>2. CASE w = k + 1 BY <1>2, <2>3, <2>7, <2>8, <3>2
      <3> QED BY <1>2, <2>1, <3>1, <3>2
    <2> QED BY <2>1, <2>9
  <1>6. \A k \in 0 .. n : k \in T
    <2> HIDE DEF T
    <2> QED BY <1>3, <1>4, <1>5, InductionTo
  <1>7. w <= n BY <1>2
  <1> QED BY <1>1, <1>3, <1>6, <1>7

In(s, x, m) == m \in DOMAIN s /\ Has(s[m].items, x)

OnceIn(s, x) ==
  /\ \A m, n : In(s, x, m) /\ In(s, x, n) => m = n
  /\ \A m \in DOMAIN s : Once(s[m].items, x)

LEMMA InAppend ==
  ASSUME NEW M, NEW q \in Seq(M), NEW w \in M, NEW x
  PROVE  /\ \A m : In(Append(q, w), x, m) <=> In(q, x, m) \/ (m = Len(q) + 1 /\ Has(w.items, x))
         /\ \A m : In(q, x, m) => m \in 1 .. Len(q) /\ Append(q, w)[m] = q[m]
         /\ Append(q, w)[Len(q) + 1] = w
PROOF
  <1> DEFINE r == Append(q, w)
  <1>1. /\ DOMAIN q = 1 .. Len(q) /\ DOMAIN r = 1 .. (Len(q) + 1) /\ Len(q) \in Nat
        /\ r[Len(q) + 1] = w /\ \A m \in 1 .. Len(q) : r[m] = q[m]
    OBVIOUS
  <1>2. \A m \in DOMAIN r : m \in DOMAIN q \/ m = Len(q) + 1 BY <1>1
  <1>3. \A m \in DOMAIN q : m \in DOMAIN r /\ r[m] = q[m] BY <1>1
  <1>4. Len(q) + 1 \in DOMAIN r BY <1>1
  <1> HIDE DEF r
  <1>5. \A m : In(r, x, m) <=> In(q, x, m) \/ (m = Len(q) + 1 /\ Has(w.items, x))
    BY <1>1, <1>2, <1>3, <1>4 DEF In
  <1> QED BY <1>1, <1>5 DEF r, In

\* Calls have ids of their own
AskedOnce(s, i) ==
  /\ \A m, n \in DOMAIN s :
       /\ s[m].role = "assistant" /\ s[n].role = "assistant"
       /\ Has(s[m].items, Request(i)) /\ Has(s[n].items, Request(i))
       => m = n
  /\ \A m \in DOMAIN s : s[m].role = "assistant" => Once(s[m].items, Request(i))

\* What the pass has made of the first messages of s, as for call i
PassInv(acc, s, i) ==
  /\ \A m \in DOMAIN acc.msgs :
       /\ Has(acc.msgs[m].items, Request(i)) => s[m].role = "assistant" /\ Has(s[m].items, Request(i))
       /\ Once(acc.msgs[m].items, Request(i)) /\ Once(acc.msgs[m].items, Response(i))
  /\ \A n : In(acc.msgs, Response(i), n) =>
              acc.msgs[n].role = "user" /\ \E m : In(acc.msgs, Request(i), m) /\ m < n
  /\ \A m, n : In(acc.msgs, Response(i), m) /\ In(acc.msgs, Response(i), n) => m = n
  /\ \A m : In(acc.msgs, Request(i), m) => acc.msgs[m].role = "assistant"
  /\ i \in acc.pending =>
       (\E m : In(acc.msgs, Request(i), m)) /\ ~(\E n : In(acc.msgs, Response(i), n))
  /\ i \notin acc.pending =>
       \A m : In(acc.msgs, Request(i), m) => \E n : In(acc.msgs, Response(i), n) /\ m < n

LEMMA PassUser ==
  ASSUME NEW M, IsMessages(M), NEW acc \in Calling(M), NEW s \in Seq(M), NEW i,
         Len(acc.msgs) < Len(s), PassInv(acc, s, i), s[Len(acc.msgs) + 1].role = "user"
  PROVE  PassInv(CallingPass(acc, s[Len(acc.msgs) + 1]), s, i)
PROOF
  <1>1. acc.pending \in SUBSET Nat /\ acc.msgs \in Seq(M) BY DEF Calling
  <1>2. PICK q \in Seq(M) : q = acc.msgs BY <1>1
  <1>3. PICK k \in Nat : k = Len(q) BY <1>2
  <1>4. k + 1 \in 1 .. Len(s) /\ s[k + 1] \in M BY <1>2, <1>3
  <1>5. PICK m \in M : m = s[k + 1] BY <1>4
  <1>6. m.items \in Seq(Content) /\ m.role = "user" BY <1>2, <1>3, <1>5 DEF IsMessages
  <1>7. PICK res \in Acc : res = AnswerItems(acc.pending, m.items) BY <1>1, <1>6, AnswerItemsType
  <1>8. Settled(res, acc.pending, i) BY <1>1, <1>6, <1>7, AnswersSettled
  <1>9. res.items \in Seq(Content) BY DEF Acc
  <1>10. PICK w \in M : w = WithItems(m, res.items) BY <1>9, LikeItems DEF Like
  <1>11. w.items = res.items /\ w.role = "user" BY <1>6, <1>9, <1>10, LikeItems DEF Like
  <1>12. PICK r : r = CallingPass(acc, m) OBVIOUS
  <1>13. r = [pending |-> res.pending, msgs |-> Append(q, w)]
    BY <1>2, <1>6, <1>7, <1>10, <1>12 DEF CallingPass
  <1>14. PICK t : t = Append(q, w) OBVIOUS
  <1>15. r.pending = res.pending /\ r.msgs = t BY <1>13, <1>14
  <1>16. /\ ~Has(w.items, Request(i)) /\ Once(w.items, Response(i))
         /\ Has(w.items, Response(i)) <=> i \in acc.pending /\ i \notin r.pending
         /\ i \in r.pending => i \in acc.pending
    BY <1>8, <1>11, <1>15 DEF Settled
  <1>17. /\ \A j : In(t, Request(i), j) <=> In(q, Request(i), j)
         /\ \A j : In(t, Response(i), j) <=> In(q, Response(i), j) \/ (j = k + 1 /\ Has(w.items, Response(i)))
         /\ \A j : In(q, Request(i), j) => j \in 1 .. k /\ t[j] = q[j]
         /\ \A j : In(q, Response(i), j) => j \in 1 .. k /\ t[j] = q[j]
         /\ t[k + 1] = w
    BY <1>3, <1>14, <1>16, InAppend
  <1>18. DOMAIN q = 1 .. k /\ DOMAIN t = 1 .. (k + 1) /\ \A j \in DOMAIN q : t[j] = q[j]
    BY <1>3, <1>14
  <1>19. \A j \in DOMAIN t : j \in DOMAIN q \/ j = k + 1 BY <1>3, <1>18
  <1>20. Once(w.items, Request(i)) BY <1>16 DEF Has, Once
  <1>21. \A j \in DOMAIN t :
           /\ Has(t[j].items, Request(i)) => s[j].role = "assistant" /\ Has(s[j].items, Request(i))
           /\ Once(t[j].items, Request(i)) /\ Once(t[j].items, Response(i))
    BY <1>2, <1>16, <1>17, <1>18, <1>19, <1>20 DEF PassInv
  <1>22. \A n : In(t, Response(i), n) =>
                  t[n].role = "user" /\ \E j : In(t, Request(i), j) /\ j < n
    <2> SUFFICES ASSUME NEW n, In(t, Response(i), n)
                 PROVE  t[n].role = "user" /\ \E j : In(t, Request(i), j) /\ j < n
      OBVIOUS
    <2>1. CASE In(q, Response(i), n) BY <1>2, <1>17, <2>1 DEF PassInv
    <2>2. CASE n = k + 1 /\ Has(w.items, Response(i))
      <3>1. PICK j : In(q, Request(i), j) BY <1>2, <1>16, <2>2 DEF PassInv
      <3>2. j < n BY <1>17, <2>2, <3>1
      <3> QED BY <1>11, <1>17, <2>2, <3>1, <3>2
    <2> QED BY <1>17, <2>1, <2>2
  <1>23. \A j, n : In(t, Response(i), j) /\ In(t, Response(i), n) => j = n
    <2>1. CASE Has(w.items, Response(i))
      <3>1. ~(\E n : In(q, Response(i), n)) BY <1>2, <1>16, <2>1 DEF PassInv
      <3> QED BY <1>17, <3>1
    <2>2. CASE ~Has(w.items, Response(i)) BY <1>2, <1>17, <2>2 DEF PassInv
    <2> QED BY <2>1, <2>2
  <1>24. \A j : In(t, Request(i), j) => t[j].role = "assistant" BY <1>2, <1>17 DEF PassInv
  <1>25. i \in r.pending =>
           (\E j : In(t, Request(i), j)) /\ ~(\E n : In(t, Response(i), n))
    BY <1>2, <1>16, <1>17 DEF PassInv
  <1>26. i \notin r.pending =>
           \A j : In(t, Request(i), j) => \E n : In(t, Response(i), n) /\ j < n
    <2> SUFFICES ASSUME i \notin r.pending, NEW j, In(t, Request(i), j)
                 PROVE  \E n : In(t, Response(i), n) /\ j < n
      OBVIOUS
    <2>1. CASE i \in acc.pending
      <3>1. Has(w.items, Response(i)) BY <1>16, <2>1
      <3>2. In(t, Response(i), k + 1) /\ j < k + 1 BY <1>17, <3>1
      <3> QED BY <3>2
    <2>2. CASE i \notin acc.pending BY <1>2, <1>17, <2>2 DEF PassInv
    <2> QED BY <2>1, <2>2
  <1>27. PassInv(r, s, i) BY <1>15, <1>21, <1>22, <1>23, <1>24, <1>25, <1>26 DEF PassInv
  <1> QED BY <1>2, <1>3, <1>5, <1>12, <1>27

LEMMA PassAssistant ==
  ASSUME NEW M, IsMessages(M), NEW acc \in Calling(M), NEW s \in Seq(M), NEW i, AskedOnce(s, i),
         Len(acc.msgs) < Len(s), PassInv(acc, s, i), s[Len(acc.msgs) + 1].role = "assistant"
  PROVE  PassInv(CallingPass(acc, s[Len(acc.msgs) + 1]), s, i)
PROOF
  <1>1. acc.pending \in SUBSET Nat /\ acc.msgs \in Seq(M) BY DEF Calling
  <1>2. PICK q \in Seq(M) : q = acc.msgs BY <1>1
  <1>3. PICK k \in Nat : k = Len(q) BY <1>2
  <1>4. k + 1 \in DOMAIN s /\ s[k + 1] \in M BY <1>2, <1>3
  <1>5. PICK m \in M : m = s[k + 1] BY <1>4
  <1>6. m.role = "assistant" BY <1>2, <1>3, <1>5
  <1>7. PICK a \in Seq(Content) : a = m.items BY DEF IsMessages
  <1> DEFINE K == {n \in DOMAIN a : ~Misplaced("assistant", a[n])}
  <1>8. PICK p \in Seq(Content) : p = Picked(a, K) BY PickedPlaces
  <1>9. /\ Has(p, Request(i)) <=> Has(a, Request(i))
        /\ Once(a, Request(i)) => Once(p, Request(i))
        /\ ~Has(p, Response(i))
    <2>1. \A x : Has(p, x) <=> \E n \in DOMAIN a : n \in K /\ a[n] = x BY <1>8, PickedHas
    <2>2. \A n \in DOMAIN a : (a[n] = Request(i) => n \in K) /\ (a[n] = Response(i) => n \notin K)
      BY DEF Misplaced, Request, Response
    <2>3. Once(a, Request(i)) => Once(p, Request(i)) BY <1>8, PickedHas
    <2> HIDE DEF K
    <2> QED BY <2>1, <2>2, <2>3 DEF Has
  <1>10. PICK w \in M : w = WithItems(m, p) BY LikeItems DEF Like
  <1>11. w.items = p /\ w.role = "assistant" BY <1>6, <1>10, LikeItems DEF Like
  <1>12. PICK r : r = CallingPass(acc, m) OBVIOUS
  <1>13. r = [pending |-> acc.pending \cup Asked(m), msgs |-> Append(q, w)]
    BY <1>2, <1>6, <1>7, <1>8, <1>10, <1>12 DEF CallingPass, Keep
  <1>14. i \in Asked(m) <=> Has(a, Request(i))
    <2>1. \A n \in DOMAIN a : a[n] = Request(i) <=> a[n].kind = "request" /\ a[n].id = i
      BY ContentKinds
    <2> QED BY <1>7, <2>1 DEF Asked, Has
  <1>15. PICK t : t = Append(q, w) OBVIOUS
  <1>16. r.msgs = t /\ (i \in r.pending <=> i \in acc.pending \/ Has(a, Request(i)))
    BY <1>13, <1>14, <1>15
  <1>17. /\ \A j : In(t, Request(i), j) <=> In(q, Request(i), j) \/ (j = k + 1 /\ Has(a, Request(i)))
         /\ \A j : In(t, Response(i), j) <=> In(q, Response(i), j)
         /\ \A j : In(q, Request(i), j) => j \in 1 .. k /\ t[j] = q[j]
         /\ \A j : In(q, Response(i), j) => j \in 1 .. k /\ t[j] = q[j]
         /\ t[k + 1] = w
    BY <1>3, <1>9, <1>11, <1>15, InAppend
  <1>18. DOMAIN q = 1 .. k /\ DOMAIN t = 1 .. (k + 1) /\ \A j \in DOMAIN q : t[j] = q[j]
    BY <1>3, <1>15
  <1>19. \A j \in DOMAIN t : j \in DOMAIN q \/ j = k + 1 BY <1>3, <1>18
  <1>20. Once(w.items, Request(i)) /\ Once(w.items, Response(i))
    <2>1. Once(a, Request(i)) BY <1>4, <1>5, <1>6, <1>7 DEF AskedOnce
    <2>2. Once(p, Response(i)) BY <1>9 DEF Has, Once
    <2> QED BY <1>9, <1>11, <2>1, <2>2
  <1>21. \A j \in DOMAIN t :
           /\ Has(t[j].items, Request(i)) => s[j].role = "assistant" /\ Has(s[j].items, Request(i))
           /\ Once(t[j].items, Request(i)) /\ Once(t[j].items, Response(i))
    BY <1>2, <1>5, <1>6, <1>7, <1>9, <1>11, <1>17, <1>18, <1>19, <1>20 DEF PassInv
  <1>22. \A n : In(t, Response(i), n) =>
                  t[n].role = "user" /\ \E j : In(t, Request(i), j) /\ j < n
    BY <1>2, <1>17 DEF PassInv
  <1>23. \A j, n : In(t, Response(i), j) /\ In(t, Response(i), n) => j = n
    BY <1>2, <1>17 DEF PassInv
  <1>24. \A j : In(t, Request(i), j) => t[j].role = "assistant" BY <1>2, <1>11, <1>17 DEF PassInv
  <1>25. Has(a, Request(i)) => ~(\E j : In(q, Request(i), j)) /\ ~(\E n : In(q, Response(i), n))
    <2>1. SUFFICES ASSUME Has(a, Request(i)) PROVE ~(\E j : In(q, Request(i), j))
      BY <1>2 DEF PassInv
    <2>2. SUFFICES ASSUME NEW j, In(q, Request(i), j) PROVE FALSE OBVIOUS
    <2>3. s[j].role = "assistant" /\ Has(s[j].items, Request(i)) BY <1>2, <2>2 DEF PassInv, In
    <2>4. j \in 1 .. k /\ j \in DOMAIN s BY <1>3, <1>4, <1>17, <2>2
    <2>5. j = k + 1 BY <1>4, <1>5, <1>6, <1>7, <2>1, <2>3, <2>4 DEF AskedOnce
    <2> QED BY <2>4, <2>5
  <1>26. i \in r.pending =>
           (\E j : In(t, Request(i), j)) /\ ~(\E n : In(t, Response(i), n))
    BY <1>2, <1>16, <1>17, <1>25 DEF PassInv
  <1>27. i \notin r.pending =>
           \A j : In(t, Request(i), j) => \E n : In(t, Response(i), n) /\ j < n
    BY <1>2, <1>16, <1>17 DEF PassInv
  <1>28. PassInv(r, s, i) BY <1>16, <1>21, <1>22, <1>23, <1>24, <1>26, <1>27 DEF PassInv
  <1> QED BY <1>2, <1>3, <1>5, <1>12, <1>28

LEMMA PassedInv ==
  ASSUME NEW M, IsMessages(M), NEW s \in Seq(M), NEW i, AskedOnce(s, i)
  PROVE  PassInv(Passed(s), s, i)
PROOF
  <1> DEFINE n == Len(s)
  <1>1. PICK g \in [0 .. n -> Calling(M)] :
          /\ g[0] = [pending |-> {}, msgs |-> <<>>]
          /\ \A k \in 1 .. n : g[k] = CallingPass(g[k - 1], s[k])
          /\ Passed(s) = g[n]
    BY PassedTrace
  <1> DEFINE T == {k \in 0 .. n : Len(g[k].msgs) = k /\ PassInv(g[k], s, i)}
  <1>2. n \in Nat /\ n \in 0 .. n OBVIOUS
  <1>3. 0 \in T
    <2>1. PassInv(g[0], s, i) BY <1>1 DEF PassInv, In
    <2>2. Len(g[0].msgs) = 0 BY <1>1
    <2> QED BY <1>2, <2>1, <2>2
  <1>4. ASSUME NEW k \in 0 .. n, k # n, k \in T PROVE k + 1 \in T
    <2>1. k + 1 \in 1 .. n /\ (k + 1) - 1 = k /\ k + 1 \in 0 .. n /\ k \in Nat BY <1>4
    <2>2. PICK acc \in Calling(M) : acc = g[k] BY <1>1
    <2>3. PICK m \in M : m = s[k + 1] BY <2>1
    <2>4. g[k + 1] = CallingPass(acc, m) BY <1>1, <2>1, <2>2, <2>3
    <2>5. Len(acc.msgs) = k /\ PassInv(acc, s, i) /\ k < Len(s) BY <1>4, <2>1, <2>2
    <2>6. m.role \in {"user", "assistant"} BY DEF IsMessages
    <2>7. PassInv(CallingPass(acc, m), s, i)
      <3>1. CASE m.role = "user" BY <2>3, <2>5, <3>1, PassUser
      <3>2. CASE m.role = "assistant" BY <2>3, <2>5, <3>2, PassAssistant
      <3> QED BY <2>6, <3>1, <3>2
    <2>8. Len(g[k + 1].msgs) = k + 1
      <3>1. PICK q \in Seq(M) : q = acc.msgs BY DEF Calling
      <3>2. PICK its \in Seq(Content) : CallingPass(acc, m).msgs = Append(acc.msgs, WithItems(m, its))
        BY CallingPassType
      <3> QED BY <2>4, <2>5, <3>1, <3>2
    <2> QED BY <2>1, <2>4, <2>7, <2>8
  <1>5. \A k \in 0 .. n : k \in T
    <2> HIDE DEF T
    <2> QED BY <1>2, <1>3, <1>4, InductionTo
  <1> QED BY <1>1, <1>2, <1>5

\* Call i has one result, in a later message of the user's side, or there is
\* nothing of it
WellPaired(s, i) ==
  /\ \A m : In(s, Request(i), m) =>
              s[m].role = "assistant" /\ \E n : In(s, Response(i), n) /\ m < n
  /\ \A n : In(s, Response(i), n) =>
              s[n].role = "user" /\ \E m : In(s, Request(i), m) /\ m < n
  /\ OnceIn(s, Request(i)) /\ OnceIn(s, Response(i))

LEMMA CloseHas ==
  ASSUME NEW M, IsMessages(M), NEW pass \in Calling(M), NEW m \in M, NEW i \in Nat
  PROVE  /\ m.role = "assistant" =>
              (Has(Close(pass, m).items, Request(i)) <=> Has(m.items, Request(i)) /\ i \notin pass.pending)
         /\ m.role # "assistant" => Close(pass, m) = m
         /\ Has(Close(pass, m).items, Response(i)) <=> Has(m.items, Response(i))
         /\ Once(m.items, Request(i)) => Once(Close(pass, m).items, Request(i))
         /\ Once(m.items, Response(i)) => Once(Close(pass, m).items, Response(i))
PROOF
  <1>1. PICK a \in Seq(Content) : a = m.items BY DEF IsMessages
  <1> DEFINE K == {n \in DOMAIN a : RequestAnswered(pass.pending, a[n])}
  <1>2. PICK p \in Seq(Content) : p = Picked(a, K) BY PickedPlaces
  <1>3. Close(pass, m) = IF m.role = "assistant" THEN WithItems(m, p) ELSE m
    BY <1>1, <1>2 DEF Close, Keep
  <1>4. WithItems(m, p).items = p BY LikeItems
  <1>5. \A x : /\ Has(p, x) <=> \E n \in DOMAIN a : n \in K /\ a[n] = x
               /\ Once(a, x) => Once(p, x)
    BY <1>2, PickedHas
  <1>6. \A n \in DOMAIN a : /\ a[n] = Request(i) => (n \in K <=> i \notin pass.pending)
                            /\ a[n] = Response(i) => n \in K
    BY DEF RequestAnswered, Request, Response
  <1> HIDE DEF K
  <1>7. Has(p, Request(i)) <=> Has(a, Request(i)) /\ i \notin pass.pending BY <1>5, <1>6 DEF Has
  <1>8. Has(p, Response(i)) <=> Has(a, Response(i)) BY <1>5, <1>6 DEF Has
  <1>9. CASE m.role = "assistant" BY <1>1, <1>3, <1>4, <1>5, <1>7, <1>8, <1>9
  <1>10. CASE m.role # "assistant" BY <1>3, <1>10
  <1> QED BY <1>9, <1>10

LEMMA CallingDonePaired ==
  ASSUME NEW M, IsMessages(M), NEW s \in Seq(M), NEW i \in Nat, AskedOnce(s, i)
  PROVE  WellPaired(CallingDone(s), i)
PROOF
  <1>1. PICK pass \in Calling(M) : pass = Passed(s) BY PassedLike
  <1>2. PICK q \in Seq(M) : q = pass.msgs BY DEF Calling
  <1>3. PassInv(pass, s, i) BY <1>1, PassedInv
  <1>4. PICK r : r = CallingDone(s) OBVIOUS
  <1>5. r = [n \in DOMAIN q |-> Close(pass, q[n])] BY <1>1, <1>2, <1>4 DEF CallingDone, MapSeq
  <1>6. DOMAIN r = DOMAIN q /\ \A n \in DOMAIN q : q[n] \in M /\ r[n] = Close(pass, q[n]) BY <1>5
  <1>7. \A n \in DOMAIN q : r[n].role = q[n].role BY <1>6, CloseLike DEF Like
  <1>8. \A n : In(q, Request(i), n) => q[n].role = "assistant" BY <1>2, <1>3 DEF PassInv
  <1>9. \A n : In(r, Request(i), n) <=> In(q, Request(i), n) /\ i \notin pass.pending
    <2> SUFFICES ASSUME NEW n \in DOMAIN q
                 PROVE  Has(r[n].items, Request(i)) <=> Has(q[n].items, Request(i)) /\ i \notin pass.pending
      BY <1>6 DEF In
    <2>1. PICK m \in M : m = q[n] BY <1>6
    <2>2. CASE m.role = "assistant" BY <1>6, <2>1, <2>2, CloseHas
    <2>3. CASE m.role # "assistant"
      <3>1. r[n] = m BY <1>6, <2>1, <2>3, CloseHas
      <3>2. ~Has(m.items, Request(i)) BY <1>8, <2>1, <2>3 DEF In
      <3> QED BY <2>1, <3>1, <3>2
    <2> QED BY <2>2, <2>3
  <1>10. \A n : In(r, Response(i), n) <=> In(q, Response(i), n) BY <1>6, CloseHas DEF In
  <1>11. \A n \in DOMAIN r : Once(r[n].items, Request(i)) /\ Once(r[n].items, Response(i))
    <2>1. \A n \in DOMAIN q : Once(q[n].items, Request(i)) /\ Once(q[n].items, Response(i))
      BY <1>2, <1>3 DEF PassInv
    <2> QED BY <1>6, <2>1, CloseHas
  <1>12. \A m, n : In(r, Response(i), m) /\ In(r, Response(i), n) => m = n
    BY <1>2, <1>3, <1>10 DEF PassInv
  <1>13. \A m, n : In(r, Request(i), m) /\ In(r, Request(i), n) => m = n
    <2> SUFFICES ASSUME NEW m, NEW n, In(q, Request(i), m), In(q, Request(i), n) PROVE m = n
      BY <1>9
    <2>1. /\ s[m].role = "assistant" /\ Has(s[m].items, Request(i))
          /\ s[n].role = "assistant" /\ Has(s[n].items, Request(i))
      BY <1>2, <1>3 DEF PassInv, In
    <2>2. DOMAIN q = DOMAIN s
      <3>1. Len(pass.msgs) = Len(s) BY <1>1, PassedLike
      <3> QED BY <1>2, <3>1
    <2>3. m \in DOMAIN s /\ n \in DOMAIN s BY <2>2 DEF In
    <2> QED BY <2>1, <2>3 DEF AskedOnce
  <1>14. \A m : In(r, Request(i), m) =>
                  r[m].role = "assistant" /\ \E n : In(r, Response(i), n) /\ m < n
    <2> SUFFICES ASSUME NEW m, In(q, Request(i), m), i \notin pass.pending
                 PROVE  r[m].role = "assistant" /\ \E n : In(r, Response(i), n) /\ m < n
      BY <1>9
    <2>1. r[m].role = "assistant" BY <1>7, <1>8 DEF In
    <2>2. \E n : In(q, Response(i), n) /\ m < n BY <1>2, <1>3 DEF PassInv
    <2> QED BY <1>10, <2>1, <2>2
  <1>15. \A n : In(r, Response(i), n) =>
                  r[n].role = "user" /\ \E m : In(r, Request(i), m) /\ m < n
    <2> SUFFICES ASSUME NEW n, In(q, Response(i), n)
                 PROVE  r[n].role = "user" /\ \E m : In(r, Request(i), m) /\ m < n
      BY <1>10
    <2>1. q[n].role = "user" /\ \E m : In(q, Request(i), m) /\ m < n BY <1>2, <1>3 DEF PassInv
    <2>2. i \notin pass.pending BY <1>2, <1>3 DEF PassInv
    <2>3. r[n].role = "user" BY <1>7, <2>1 DEF In
    <2> QED BY <1>9, <2>1, <2>2, <2>3
  <1>16. WellPaired(r, i) BY <1>11, <1>12, <1>13, <1>14, <1>15 DEF WellPaired, OnceIn
  <1> QED BY <1>4, <1>16

\* Leaving messages out
LEMMA PickedAskedOnce ==
  ASSUME NEW M, NEW s \in Seq(M), NEW K, NEW i, AskedOnce(s, i)
  PROVE  AskedOnce(Picked(s, K), i)
PROOF
  <1>1. PICK p \in Seq(M) : p = Picked(s, K) BY PickedPlaces
  <1>2. PICK e : Picks(e, p, s, K) BY <1>1, PickedPlaces
  <1>3. DOMAIN p = 1 .. Len(p) /\ DOMAIN s = 1 .. Len(s) OBVIOUS
  <1>4. \A j \in DOMAIN p : e[j] \in DOMAIN s /\ p[j] = s[e[j]] BY <1>2, <1>3 DEF Picks
  <1>5. \A j, l \in DOMAIN p : e[j] = e[l] => j = l
    <2> SUFFICES ASSUME NEW j \in DOMAIN p, NEW l \in DOMAIN p, e[j] = e[l] PROVE j = l OBVIOUS
    <2>1. ~(j < l) /\ ~(l < j) BY <1>2, <1>3, <1>4 DEF Picks
    <2> QED BY <1>3, <2>1
  <1>6. AskedOnce(p, i) BY <1>4, <1>5 DEF AskedOnce
  <1> QED BY <1>1, <1>6

LEMMA PickedPaired ==
  ASSUME NEW M, NEW s \in Seq(M), NEW K, NEW i, WellPaired(s, i),
         \A m : In(s, Request(i), m) \/ In(s, Response(i), m) => m \in K
  PROVE  WellPaired(Picked(s, K), i)
PROOF
  <1>1. PICK p \in Seq(M) : p = Picked(s, K) BY PickedPlaces
  <1>2. PICK e : Picks(e, p, s, K) BY <1>1, PickedPlaces
  <1>3. DOMAIN p = 1 .. Len(p) /\ DOMAIN s = 1 .. Len(s) OBVIOUS
  <1>4. \A j \in DOMAIN p : e[j] \in DOMAIN s /\ p[j] = s[e[j]] BY <1>2, <1>3 DEF Picks
  <1>5. \A j, l \in DOMAIN p : (e[j] = e[l] => j = l) /\ (e[j] < e[l] => j < l)
    <2> SUFFICES ASSUME NEW j \in DOMAIN p, NEW l \in DOMAIN p
                 PROVE  (e[j] = e[l] => j = l) /\ (e[j] < e[l] => j < l)
      OBVIOUS
    <2>1. /\ j < l => e[j] < e[l]
          /\ l < j => e[l] < e[j]
      BY <1>2, <1>3 DEF Picks
    <2>2. e[j] \in 1 .. Len(s) /\ e[l] \in 1 .. Len(s) BY <1>3, <1>4
    <2> QED BY <1>3, <2>1, <2>2
  <1>6. \A x, j : In(p, x, j) => In(s, x, e[j]) /\ j \in DOMAIN p BY <1>4 DEF In
  <1>7. \A x, m : (x = Request(i) \/ x = Response(i)) /\ In(s, x, m) => \E j \in DOMAIN p : e[j] = m /\ In(p, x, j)
    <2> SUFFICES ASSUME NEW x, NEW m, x = Request(i) \/ x = Response(i), In(s, x, m)
                 PROVE  \E j \in DOMAIN p : e[j] = m /\ In(p, x, j)
      OBVIOUS
    <2>1. m \in K /\ m \in DOMAIN s BY DEF In
    <2>2. PICK j \in DOMAIN p : e[j] = m BY <1>2, <1>3, <2>1 DEF Picks
    <2>3. In(p, x, j) BY <1>4, <2>2 DEF In
    <2> QED BY <2>2, <2>3
  <1>8. \A m : In(p, Request(i), m) =>
                 p[m].role = "assistant" /\ \E n : In(p, Response(i), n) /\ m < n
    <2> SUFFICES ASSUME NEW m, In(p, Request(i), m)
                 PROVE  p[m].role = "assistant" /\ \E n : In(p, Response(i), n) /\ m < n
      OBVIOUS
    <2>1. In(s, Request(i), e[m]) /\ m \in DOMAIN p BY <1>6
    <2>2. s[e[m]].role = "assistant" /\ \E n : In(s, Response(i), n) /\ e[m] < n BY <2>1 DEF WellPaired
    <2>3. PICK n : In(s, Response(i), n) /\ e[m] < n BY <2>2
    <2>4. PICK l \in DOMAIN p : e[l] = n /\ In(p, Response(i), l) BY <1>7, <2>3
    <2>5. m < l BY <1>5, <2>1, <2>3, <2>4
    <2> QED BY <1>4, <2>1, <2>2, <2>4, <2>5
  <1>9. \A n : In(p, Response(i), n) =>
                 p[n].role = "user" /\ \E m : In(p, Request(i), m) /\ m < n
    <2> SUFFICES ASSUME NEW n, In(p, Response(i), n)
                 PROVE  p[n].role = "user" /\ \E m : In(p, Request(i), m) /\ m < n
      OBVIOUS
    <2>1. In(s, Response(i), e[n]) /\ n \in DOMAIN p BY <1>6
    <2>2. s[e[n]].role = "user" /\ \E m : In(s, Request(i), m) /\ m < e[n] BY <2>1 DEF WellPaired
    <2>3. PICK m : In(s, Request(i), m) /\ m < e[n] BY <2>2
    <2>4. PICK l \in DOMAIN p : e[l] = m /\ In(p, Request(i), l) BY <1>7, <2>3
    <2>5. l < n BY <1>5, <2>1, <2>3, <2>4
    <2> QED BY <1>4, <2>1, <2>2, <2>4, <2>5
  <1>10. \A x : OnceIn(s, x) => OnceIn(p, x) BY <1>4, <1>5, <1>6 DEF OnceIn
  <1>11. WellPaired(p, i) BY <1>8, <1>9, <1>10 DEF WellPaired
  <1> QED BY <1>1, <1>11

LEMMA FixToolCallingPaired ==
  ASSUME NEW M, IsMessages(M), NEW s \in Seq(M), NEW i \in Nat, AskedOnce(s, i)
  PROVE  WellPaired(FixToolCalling(s), i)
PROOF
  <1>1. PICK r \in Seq(M) : r = CallingDone(s) BY CallingDoneLike
  <1>2. WellPaired(r, i) BY <1>1, CallingDonePaired
  <1> DEFINE K == {n \in DOMAIN r : ~IsEmptyMessage(r[n])}
  <1>3. FixToolCalling(s) = Picked(r, K) BY <1>1 DEF FixToolCalling, RemoveEmptyMessages, Keep
  <1>4. \A m : In(r, Request(i), m) \/ In(r, Response(i), m) => m \in K
    BY DEF In, Has, IsEmptyMessage, Request, Response
  <1> HIDE DEF K
  <1> QED BY <1>2, <1>3, <1>4, PickedPaired

-----------------------------------------------------------------------------
(***************************************************************************)
(* Merging keeps the pairing: a message's items go to the last message     *)
(* done or to one after it, of the same side.                              *)
(***************************************************************************)
AddsTo(r, q, m, x) ==
  /\ \A j : In(r, x, j) <=> In(q, x, j) \/ (j = Len(r) /\ Has(m.items, x))
  /\ \A j : In(q, x, j) => j \in 1 .. Len(r)
  /\ (\A j \in DOMAIN q : Once(q[j].items, x)) /\ Once(m.items, x)
       /\ ~((\E j : In(q, x, j)) /\ Has(m.items, x))
     => \A j \in DOMAIN r : Once(r[j].items, x)

\* What Append gives, for the steps in which the provers should not open it
Longer(r, s, x) ==
  /\ r = Append(s, x) /\ r # <<>> /\ Len(s) \in Nat /\ Len(r) = Len(s) + 1
  /\ DOMAIN s = 1 .. Len(s) /\ DOMAIN r = 1 .. Len(s) + 1
  /\ r[Len(s) + 1] = x /\ \A j \in 1 .. Len(s) : r[j] = s[j]

LEMMA Appended ==
  ASSUME NEW S, NEW s \in Seq(S), NEW x \in S PROVE \E r \in Seq(S) : Longer(r, s, x)
PROOF
  <1>1. PICK r : r = Append(s, x) OBVIOUS
  <1>2. r \in Seq(S) BY <1>1
  <1>3. Longer(r, s, x) BY <1>1 DEF Longer
  <1> QED BY <1>2, <1>3

LEMMA MergeMessageHas ==
  ASSUME NEW M, IsMessages(M), NEW q \in Seq(M), NEW m \in M, NEW x
  PROVE  AddsTo(MergeMessage(q, m), q, m, x)
PROOF
  <1>1. m.items \in Seq(Content) BY DEF IsMessages
  <1>2. CASE q # <<>> /\ EffectiveRole(Last(q)) = EffectiveRole(m)
    <2>1. PICK f \in Seq(M) : f = Front(q) BY <1>2, FrontPlaces
    <2>2. PICK l \in M : l = Last(q) BY <1>2, FrontPlaces
    <2>3. l.items \in Seq(Content) BY DEF IsMessages
    <2>4. PICK its \in Seq(Content) : its = l.items \o m.items
      <3>1. l.items \o m.items \in Seq(Content) BY <1>1, <2>3, ConcatPlaces
      <3> QED BY <3>1
    <2>5. PICK w \in M : w = WithItems(l, its) /\ w.items = its BY <2>4, LikeItems DEF Like
    <2>6. PICK r \in Seq(M) : Longer(r, f, w) BY Appended
    <2>7. MergeMessage(q, m) = r BY <1>2, <2>1, <2>2, <2>4, <2>5, <2>6 DEF MergeMessage, Longer
    <2>8. PICK p \in Seq(M) : Longer(p, f, l) BY Appended
    <2>16. p = q BY <1>2, <2>1, <2>2, <2>8, LastType DEF Longer
    <2>9. /\ Has(its, x) <=> Has(l.items, x) \/ Has(m.items, x)
          /\ Once(l.items, x) /\ Once(m.items, x) /\ ~(Has(l.items, x) /\ Has(m.items, x)) => Once(its, x)
      BY <1>1, <2>3, <2>4, ConcatHas
    <2>10. /\ \A j : In(q, x, j) <=> In(f, x, j) \/ (j = Len(f) + 1 /\ Has(l.items, x))
           /\ \A j : In(f, x, j) => j \in 1 .. Len(f)
           /\ q[Len(f) + 1] = l
      <3>1. /\ \A j : In(Append(f, l), x, j) <=> In(f, x, j) \/ (j = Len(f) + 1 /\ Has(l.items, x))
            /\ \A j : In(f, x, j) => j \in 1 .. Len(f)
            /\ Append(f, l)[Len(f) + 1] = l
        BY InAppend
      <3> QED BY <2>8, <2>16, <3>1 DEF Longer
    <2>11. \A j : In(r, x, j) <=> In(f, x, j) \/ (j = Len(f) + 1 /\ Has(w.items, x))
      BY <2>1, <2>5, <2>6, InAppend DEF Longer
    <2>12. /\ Len(f) \in Nat /\ DOMAIN r = 1 .. Len(f) + 1 /\ DOMAIN q = 1 .. Len(f) + 1
           /\ r[Len(f) + 1] = w /\ \A j \in 1 .. Len(f) : r[j] = q[j]
      BY <2>6, <2>8, <2>16 DEF Longer
    <2>13. \A j : In(r, x, j) <=> In(q, x, j) \/ (j = Len(r) /\ Has(m.items, x))
      BY <2>5, <2>6, <2>9, <2>10, <2>11 DEF Longer
    <2>14. \A j : In(q, x, j) => j \in 1 .. Len(r) BY <2>6, <2>12 DEF In
    <2>15. ASSUME \A j \in DOMAIN q : Once(q[j].items, x), Once(m.items, x),
                  ~((\E j : In(q, x, j)) /\ Has(m.items, x)), NEW j \in DOMAIN r
           PROVE  Once(r[j].items, x)
      <3>1. CASE j \in 1 .. Len(f) BY <2>12, <2>15, <3>1
      <3>2. CASE j = Len(f) + 1
        <4>1. Len(f) + 1 \in DOMAIN q BY <2>12
        <4>2. Once(l.items, x) BY <2>10, <2>15, <4>1
        <4>3. ~(Has(l.items, x) /\ Has(m.items, x)) BY <2>10, <2>15
        <4> QED BY <2>5, <2>9, <2>12, <2>15, <3>2, <4>2, <4>3
      <3> QED BY <2>12, <3>1, <3>2
    <2> QED BY <2>7, <2>13, <2>14, <2>15 DEF AddsTo
  <1>3. CASE ~(q # <<>> /\ EffectiveRole(Last(q)) = EffectiveRole(m))
    <2>1. PICK r \in Seq(M) : Longer(r, q, m) BY Appended
    <2>2. MergeMessage(q, m) = r BY <1>3, <2>1 DEF MergeMessage, Longer
    <2>3. /\ \A j : In(r, x, j) <=> In(q, x, j) \/ (j = Len(q) + 1 /\ Has(m.items, x))
          /\ \A j : In(q, x, j) => j \in 1 .. Len(q)
      BY <2>1, InAppend DEF Longer
    <2>4. /\ Len(q) \in Nat /\ DOMAIN r = 1 .. Len(q) + 1 /\ DOMAIN q = 1 .. Len(q)
          /\ r[Len(q) + 1] = m /\ \A j \in 1 .. Len(q) : r[j] = q[j]
      BY <2>1 DEF Longer
    <2>5. \A j : In(q, x, j) => j \in 1 .. Len(r) BY <2>1, <2>3, <2>4
    <2>6. ASSUME \A j \in DOMAIN q : Once(q[j].items, x), Once(m.items, x), NEW j \in DOMAIN r
          PROVE  Once(r[j].items, x)
      <3>1. CASE j \in 1 .. Len(q) BY <2>4, <2>6, <3>1
      <3>2. CASE j = Len(q) + 1 BY <2>4, <2>6, <3>2
      <3> QED BY <2>4, <3>1, <3>2
    <2> QED BY <2>1, <2>2, <2>3, <2>5, <2>6 DEF AddsTo, Longer
  <1> QED BY <1>2, <1>3

\* The messages of q are in their places, the last message is of m's side
KeepsSides(r, q, m) ==
  /\ r # <<>> /\ Len(q) <= Len(r)
  /\ \A j \in 1 .. Len(q) : r[j].role = q[j].role
  /\ r[Len(r)].role = m.role

LEMMA MergeMessageRoles ==
  ASSUME NEW M, IsMessages(M), NEW q \in Seq(M), NEW m \in M
  PROVE  MergeMessage(q, m) \in Seq(M) /\ KeepsSides(MergeMessage(q, m), q, m)
PROOF
  <1>1. m.items \in Seq(Content) /\ m.role \in {"user", "assistant"} BY DEF IsMessages
  <1>2. CASE q # <<>> /\ EffectiveRole(Last(q)) = EffectiveRole(m)
    <2>1. PICK f \in Seq(M) : f = Front(q) BY <1>2, FrontPlaces
    <2>2. PICK l \in M : l = Last(q) BY <1>2, FrontPlaces
    <2>3. l.items \in Seq(Content) /\ l.role \in {"user", "assistant"} BY DEF IsMessages
    <2>4. PICK its \in Seq(Content) : its = l.items \o m.items
      <3>1. l.items \o m.items \in Seq(Content) BY <1>1, <2>3, ConcatPlaces
      <3> QED BY <3>1
    <2>5. PICK w \in M : w = WithItems(l, its) /\ w.role = l.role BY <2>4, LikeItems DEF Like
    <2>6. PICK r \in Seq(M) : Longer(r, f, w) BY Appended
    <2>7. MergeMessage(q, m) = r BY <1>2, <2>1, <2>2, <2>4, <2>5, <2>6 DEF MergeMessage, Longer
    <2>8. PICK p \in Seq(M) : Longer(p, f, l) BY Appended
    <2>16. p = q BY <1>2, <2>1, <2>2, <2>8, LastType DEF Longer
    <2>9. l.role = m.role BY <1>1, <1>2, <2>2, <2>3 DEF EffectiveRole
    <2>10. /\ Len(f) \in Nat /\ Len(q) = Len(f) + 1 /\ Len(r) = Len(f) + 1 /\ r # <<>>
           /\ r[Len(f) + 1] = w /\ q[Len(f) + 1] = l /\ \A j \in 1 .. Len(f) : r[j] = q[j]
      BY <2>6, <2>8, <2>16 DEF Longer
    <2>11. \A j \in 1 .. Len(q) : r[j].role = q[j].role
      <3> SUFFICES ASSUME NEW j \in 1 .. Len(q) PROVE r[j].role = q[j].role OBVIOUS
      <3>1. CASE j \in 1 .. Len(f) BY <2>10, <3>1
      <3>2. CASE j = Len(f) + 1 BY <2>5, <2>10, <3>2
      <3> QED BY <2>10, <3>1, <3>2
    <2> QED BY <2>5, <2>7, <2>9, <2>10, <2>11 DEF KeepsSides
  <1>3. CASE ~(q # <<>> /\ EffectiveRole(Last(q)) = EffectiveRole(m))
    <2>1. PICK r \in Seq(M) : Longer(r, q, m) BY Appended
    <2>2. MergeMessage(q, m) = r BY <1>3, <2>1 DEF MergeMessage, Longer
    <2>3. /\ Len(q) \in Nat /\ Len(r) = Len(q) + 1 /\ r # <<>>
          /\ r[Len(q) + 1] = m /\ \A j \in 1 .. Len(q) : r[j] = q[j]
      BY <2>1 DEF Longer
    <2> QED BY <2>2, <2>3 DEF KeepsSides
  <1> QED BY <1>2, <1>3

MergeInv(q, s, k, i) ==
  /\ \A x \in {Request(i), Response(i)} :
       /\ \A m \in 1 .. k : Has(s[m].items, x) => \E j : In(q, x, j)
       /\ \A j : In(q, x, j) => \E m \in 1 .. k : Has(s[m].items, x) /\ s[m].role = q[j].role
       /\ OnceIn(q, x)
  /\ \A m, n : In(q, Request(i), m) /\ In(q, Response(i), n) => m < n
  /\ k # 0 => q # <<>> /\ q[1].role = s[1].role

LEMMA MergeInvStep ==
  ASSUME NEW M, IsMessages(M), NEW s \in Seq(M), NEW i, WellPaired(s, i),
         NEW k \in Nat, k + 1 \in 1 .. Len(s), NEW q \in Seq(M), k = 0 => q = <<>>, MergeInv(q, s, k, i)
  PROVE  MergeInv(MergeMessage(q, s[k + 1]), s, k + 1, i)
PROOF
  <1>1. PICK m \in M : m = s[k + 1] OBVIOUS
  <1>2. PICK r \in Seq(M) : r = MergeMessage(q, m) BY MergeMessageRoles
  <1>3. /\ r # <<>> /\ Len(q) <= Len(r) /\ Len(q) \in Nat /\ Len(r) \in Nat
        /\ \A j \in 1 .. Len(q) : r[j].role = q[j].role
        /\ r[Len(r)].role = m.role
    <2>1. KeepsSides(r, q, m) BY <1>2, MergeMessageRoles
    <2> QED BY <2>1 DEF KeepsSides
  <1>4. \A x : AddsTo(r, q, m, x) BY <1>2, MergeMessageHas
  <1>5. DOMAIN s = 1 .. Len(s) /\ DOMAIN q = 1 .. Len(q) /\ DOMAIN r = 1 .. Len(r) OBVIOUS
  <1>6. m.role \in {"user", "assistant"} BY DEF IsMessages
  <1>7. \A l : l \in 1 .. (k + 1) <=> l \in 1 .. k \/ l = k + 1 OBVIOUS
  <1> DEFINE X == {Request(i), Response(i)}
  <1>8. \A x \in X : Has(m.items, x) => In(s, x, k + 1) BY <1>1, <1>5 DEF In
  <1>9. \A x \in X : \A j : In(q, x, j) => \E l \in 1 .. k : In(s, x, l) /\ s[l].role = q[j].role
    <2>1. 1 .. k \subseteq DOMAIN s BY <1>5
    <2> QED BY <2>1 DEF MergeInv, In
  <1>10. \A x \in X : OnceIn(s, x) BY DEF WellPaired
  <1>11. \A x \in X : ~(Has(m.items, x) /\ \E j : In(q, x, j))
    <2> SUFFICES ASSUME NEW x \in X, Has(m.items, x), NEW j, In(q, x, j) PROVE FALSE OBVIOUS
    <2>1. In(s, x, k + 1) BY <1>8
    <2>2. PICK l \in 1 .. k : In(s, x, l) BY <1>9
    <2>3. l = k + 1 BY <1>10, <2>1, <2>2 DEF OnceIn
    <2> QED BY <2>3
  <1>12. ASSUME NEW x \in X
         PROVE  /\ \A l \in 1 .. (k + 1) : Has(s[l].items, x) => \E j : In(r, x, j)
                /\ \A j : In(r, x, j) => \E l \in 1 .. (k + 1) : Has(s[l].items, x) /\ s[l].role = r[j].role
                /\ OnceIn(r, x)
    <2>1. \A j : In(r, x, j) <=> In(q, x, j) \/ (j = Len(r) /\ Has(m.items, x)) BY <1>4 DEF AddsTo
    <2>2. /\ \A l \in 1 .. k : Has(s[l].items, x) => \E j : In(q, x, j)
          /\ \A j : In(q, x, j) => \E l \in 1 .. k : Has(s[l].items, x) /\ s[l].role = q[j].role
          /\ OnceIn(q, x)
      BY DEF MergeInv
    <2>3. \A l \in 1 .. (k + 1) : Has(s[l].items, x) => \E j : In(r, x, j) BY <1>1, <1>7, <2>1, <2>2
    <2>4. ASSUME NEW j, In(r, x, j) PROVE \E l \in 1 .. (k + 1) : Has(s[l].items, x) /\ s[l].role = r[j].role
      <3>1. CASE In(q, x, j)
        <4>1. j \in 1 .. Len(q) BY <1>5, <3>1 DEF In
        <4>2. PICK l \in 1 .. k : Has(s[l].items, x) /\ s[l].role = q[j].role BY <2>2, <3>1
        <4> QED BY <1>3, <1>7, <4>1, <4>2
      <3>2. CASE j = Len(r) /\ Has(m.items, x) BY <1>1, <1>3, <1>7, <3>2
      <3> QED BY <2>1, <2>4, <3>1, <3>2
    <2>5. OnceIn(r, x)
      <3>1. Once(m.items, x) BY <1>1, <1>5, <1>10 DEF OnceIn
      <3>2. \A j \in DOMAIN r : Once(r[j].items, x) BY <1>4, <1>11, <2>2, <3>1 DEF AddsTo, OnceIn
      <3>3. \A j, l : In(r, x, j) /\ In(r, x, l) => j = l BY <1>11, <2>1, <2>2 DEF OnceIn
      <3> QED BY <3>2, <3>3 DEF OnceIn
    <2> QED BY <2>3, <2>4, <2>5
  <1>13. ASSUME NEW a, NEW n, In(r, Request(i), a), In(r, Response(i), n) PROVE a < n
    <2>1. \A x \in X : \A j : In(r, x, j) <=> In(q, x, j) \/ (j = Len(r) /\ Has(m.items, x))
      BY <1>4 DEF AddsTo
    <2>2. a \in 1 .. Len(r) /\ n \in 1 .. Len(r) BY <1>5, <1>13 DEF In
    <2>3. CASE In(q, Request(i), a) /\ In(q, Response(i), n) BY <2>3 DEF MergeInv
    <2>4. CASE n = Len(r) /\ Has(m.items, Response(i))
      <3>1. m.role = "user" BY <1>1, <1>8, <2>4 DEF WellPaired
      <3>2. PICK l \in 1 .. (k + 1) : Has(s[l].items, Request(i)) /\ s[l].role = r[a].role BY <1>12, <1>13
      <3>3. s[l].role = "assistant" BY <1>5, <3>2 DEF WellPaired, In
      <3>4. a # n BY <1>3, <2>4, <3>1, <3>2, <3>3
      <3> QED BY <1>3, <2>2, <2>4, <3>4
    <2>5. CASE a = Len(r) /\ Has(m.items, Request(i)) /\ In(q, Response(i), n)
      <3>1. PICK l \in 1 .. k : In(s, Response(i), l) BY <1>9, <2>5
      <3>2. PICK b : In(s, Request(i), b) /\ b < l BY <3>1 DEF WellPaired
      <3>3. In(s, Request(i), k + 1) BY <1>8, <2>5
      <3>4. b = k + 1 BY <1>10, <3>2, <3>3 DEF OnceIn
      <3> QED BY <3>1, <3>2, <3>4
    <2> QED BY <1>13, <2>1, <2>3, <2>4, <2>5
  <1>14. r[1].role = s[1].role
    <2>1. CASE k = 0
      <3>1. r = <<m>> BY <1>2, <2>1 DEF MergeMessage
      <3> QED BY <1>1, <2>1, <3>1
    <2>2. CASE k # 0
      <3>1. q # <<>> /\ q[1].role = s[1].role BY <2>2 DEF MergeInv
      <3>2. 1 \in 1 .. Len(q) BY <3>1
      <3> QED BY <1>3, <3>1, <3>2
    <2> QED BY <2>1, <2>2
  <1>15. MergeInv(r, s, k + 1, i) BY <1>3, <1>12, <1>13, <1>14 DEF MergeInv
  <1> QED BY <1>1, <1>2, <1>15

LEMMA MergedPaired ==
  ASSUME NEW M, IsMessages(M), NEW s \in Seq(M), NEW i, WellPaired(s, i)
  PROVE  /\ WellPaired(MergeConsecutive(s), i)
         /\ s # <<>> => MergeConsecutive(s) # <<>> /\ MergeConsecutive(s)[1].role = s[1].role
PROOF
  <1> DEFINE n == Len(s)
  <1>1. PICK g \in [0 .. n -> Seq(M)] :
          /\ g[0] = <<>>
          /\ \A k \in 1 .. n : g[k] = MergeMessage(g[k - 1], s[k])
          /\ MergeConsecutive(s) = g[n]
    BY MergeTrace
  <1>2. n \in Nat /\ DOMAIN s = 1 .. n OBVIOUS
  <1> DEFINE T == {k \in 0 .. n : MergeInv(g[k], s, k, i)}
  <1>3. 0 \in T
    <2>1. \A x : \A j : ~In(<<>>, x, j) BY DEF In
    <2>2. \A x : OnceIn(<<>>, x) BY <2>1 DEF OnceIn
    <2>3. MergeInv(<<>>, s, 0, i) BY <2>1, <2>2 DEF MergeInv
    <2> QED BY <1>1, <1>2, <2>3
  <1>4. ASSUME NEW k \in 0 .. n, k # n, k \in T PROVE k + 1 \in T
    <2>1. k + 1 \in 1 .. n /\ (k + 1) - 1 = k /\ k + 1 \in 0 .. n /\ k \in Nat BY <1>4
    <2>2. g[k + 1] = MergeMessage(g[k], s[k + 1]) BY <1>1, <2>1
    <2>3. g[k] \in Seq(M) /\ (k = 0 => g[k] = <<>>) BY <1>1, <2>1
    <2>4. MergeInv(g[k], s, k, i) BY <1>4
    <2>5. MergeInv(MergeMessage(g[k], s[k + 1]), s, k + 1, i) BY <2>1, <2>3, <2>4, MergeInvStep
    <2> QED BY <2>1, <2>2, <2>5
  <1>5. n \in T
    <2> HIDE DEF T
    <2>1. \A k \in 0 .. n : k \in T BY <1>2, <1>3, <1>4, InductionTo
    <2> QED BY <1>2, <2>1
  <1>6. PICK q \in Seq(M) : q = g[n] BY <1>1, <1>2
  <1>7. MergeInv(q, s, n, i) BY <1>5, <1>6
  <1>8. WellPaired(q, i)
    <2>1. ASSUME NEW m, In(q, Request(i), m)
          PROVE  q[m].role = "assistant" /\ \E l : In(q, Response(i), l) /\ m < l
      <3>1. PICK a \in 1 .. n : Has(s[a].items, Request(i)) /\ s[a].role = q[m].role
        BY <1>7, <2>1 DEF MergeInv
      <3>2. In(s, Request(i), a) BY <1>2, <3>1 DEF In
      <3>3. s[a].role = "assistant" /\ \E b : In(s, Response(i), b) BY <3>2 DEF WellPaired
      <3>4. PICK b \in 1 .. n : Has(s[b].items, Response(i)) BY <1>2, <3>3 DEF In
      <3>5. PICK l : In(q, Response(i), l) BY <1>7, <3>4 DEF MergeInv
      <3>6. m < l BY <1>7, <2>1, <3>5 DEF MergeInv
      <3> QED BY <3>1, <3>3, <3>5, <3>6
    <2>2. ASSUME NEW l, In(q, Response(i), l)
          PROVE  q[l].role = "user" /\ \E m : In(q, Request(i), m) /\ m < l
      <3>1. PICK b \in 1 .. n : Has(s[b].items, Response(i)) /\ s[b].role = q[l].role
        BY <1>7, <2>2 DEF MergeInv
      <3>2. In(s, Response(i), b) BY <1>2, <3>1 DEF In
      <3>3. s[b].role = "user" /\ \E a : In(s, Request(i), a) BY <3>2 DEF WellPaired
      <3>4. PICK a \in 1 .. n : Has(s[a].items, Request(i)) BY <1>2, <3>3 DEF In
      <3>5. PICK m : In(q, Request(i), m) BY <1>7, <3>4 DEF MergeInv
      <3>6. m < l BY <1>7, <2>2, <3>5 DEF MergeInv
      <3> QED BY <3>1, <3>3, <3>5, <3>6
    <2>3. OnceIn(q, Request(i)) /\ OnceIn(q, Response(i)) BY <1>7 DEF MergeInv
    <2> QED BY <2>1, <2>2, <2>3 DEF WellPaired
  <1>9. s # <<>> => q # <<>> /\ q[1].role = s[1].role BY <1>2, <1>7 DEF MergeInv
  <1> QED BY <1>1, <1>6, <1>8, <1>9

-----------------------------------------------------------------------------
(***************************************************************************)
(* The first message: words of the user's come through all the passes, so  *)
(* no message is dropped from the front.                                   *)
(***************************************************************************)
HasWords(items) == \E x : x.kind \in {"text", "blank"} /\ Has(items, x)

BeginsWithWords(s) == s # <<>> /\ s[1].role = "user" /\ HasWords(s[1].items)

LEMMA TrimmedWords ==
  ASSUME NEW M, IsMessages(M), NEW s \in Seq(M), NEW t \in Seq(M),
         t = MapSeq(TrimWhitespace, MapSeq(MergeTextContent, s))
  PROVE  /\ BeginsWithWords(s) => BeginsWithWords(t)
         /\ \A i : AskedOnce(s, i) => AskedOnce(t, i)
PROOF
  <1>1. Len(t) = Len(s) /\ \A n \in 1 .. Len(s) : Like(M, t[n], s[n]) BY TrimmedLike
  <1>2. DOMAIN s = 1 .. Len(s) /\ DOMAIN t = 1 .. Len(t) OBVIOUS
  <1>3. \A n \in DOMAIN s : t[n] = Prepared(s[n])
    <2> DEFINE r == [n \in DOMAIN s |-> MergeTextContent(s[n])]
    <2>1. t = [n \in DOMAIN r |-> TrimWhitespace(r[n])] BY DEF MapSeq
    <2> QED BY <2>1 DEF Prepared
  <1>4. ASSUME BeginsWithWords(s) PROVE BeginsWithWords(t)
    <2>1. s # <<>> /\ s[1].role = "user" /\ 1 \in DOMAIN s BY <1>2, <1>4 DEF BeginsWithWords
    <2>2. t[1] = s[1] BY <1>3, <2>1 DEF Prepared, MergeTextContent, TrimWhitespace
    <2>3. t # <<>> BY <1>1, <1>2, <2>1
    <2> QED BY <1>4, <2>2, <2>3 DEF BeginsWithWords
  <1>5. ASSUME NEW i, AskedOnce(s, i) PROVE AskedOnce(t, i)
    <2>1. ~IsText(Request(i)) BY DEF IsText, Texts, Request
    <2>2. ASSUME NEW n \in DOMAIN t
          PROVE  /\ n \in DOMAIN s /\ t[n].role = s[n].role
                 /\ Has(t[n].items, Request(i)) <=> Has(s[n].items, Request(i))
                 /\ Once(s[n].items, Request(i)) => Once(t[n].items, Request(i))
      <3>1. n \in DOMAIN s /\ t[n].role = s[n].role BY <1>1, <1>2, <2>2 DEF Like
      <3>2. PICK m \in M : m = s[n] BY <3>1
      <3>3. t[n] = Prepared(m) BY <1>3, <3>1, <3>2
      <3> QED BY <2>1, <3>1, <3>2, <3>3, PreparedHas
    <2> QED BY <1>5, <2>2 DEF AskedOnce
  <1> QED BY <1>4, <1>5

LEMMA PickedFirst ==
  ASSUME NEW S, NEW s \in Seq(S), NEW K, s # <<>>, 1 \in K
  PROVE  Picked(s, K) # <<>> /\ Picked(s, K)[1] = s[1]
PROOF
  <1>1. PICK p \in Seq(S) : p = Picked(s, K) /\ \E e : Picks(e, p, s, K) BY PickedPlaces
  <1>2. PICK e : Picks(e, p, s, K) BY <1>1
  <1>3. Len(s) \in Nat /\ 1 \in 1 .. Len(s) OBVIOUS
  <1>4. PICK j \in 1 .. Len(p) : e[j] = 1 BY <1>2, <1>3 DEF Picks
  <1>5. Len(p) \in Nat /\ 1 \in 1 .. Len(p) BY <1>4
  <1>6. e[1] \in 1 .. Len(s) BY <1>2, <1>5 DEF Picks
  <1>7. 1 < j => e[1] < 1 BY <1>2, <1>4, <1>5 DEF Picks
  <1>8. e[1] = 1 BY <1>3, <1>4, <1>6, <1>7
  <1>9. p[1] = s[e[1]] BY <1>2, <1>5 DEF Picks
  <1> QED BY <1>1, <1>5, <1>8, <1>9

LEMMA RemoveEmptyWords ==
  ASSUME NEW M, IsMessages(M), NEW s \in Seq(M)
  PROVE  /\ BeginsWithWords(s) => BeginsWithWords(RemoveEmptyMessages(s))
         /\ \A i : AskedOnce(s, i) => AskedOnce(RemoveEmptyMessages(s), i)
PROOF
  <1> DEFINE K == {n \in DOMAIN s : ~IsEmptyMessage(s[n])}
  <1>1. RemoveEmptyMessages(s) = Picked(s, K) BY DEF RemoveEmptyMessages, Keep
  <1>2. ASSUME BeginsWithWords(s) PROVE 1 \in K
    <2>1. 1 \in DOMAIN s BY <1>2 DEF BeginsWithWords
    <2>2. PICK x : x.kind \in {"text", "blank"} /\ Has(s[1].items, x) BY <1>2 DEF BeginsWithWords, HasWords
    <2>3. ~IsEmptyMessage(s[1]) BY <2>2 DEF IsEmptyMessage, Has
    <2> QED BY <2>1, <2>3
  <1> HIDE DEF K
  <1>3. ASSUME BeginsWithWords(s) PROVE BeginsWithWords(Picked(s, K))
    <2>1. Picked(s, K) # <<>> /\ Picked(s, K)[1] = s[1]
      BY <1>2, <1>3, PickedFirst DEF BeginsWithWords
    <2> QED BY <1>3, <2>1 DEF BeginsWithWords
  <1> QED BY <1>1, <1>3, PickedAskedOnce

LEMMA CallingDoneWords ==
  ASSUME NEW M, IsMessages(M), NEW s \in Seq(M), BeginsWithWords(s)
  PROVE  BeginsWithWords(CallingDone(s))
PROOF
  <1> DEFINE n == Len(s)
  <1>1. PICK g \in [0 .. n -> Calling(M)] :
          /\ g[0] = [pending |-> {}, msgs |-> <<>>]
          /\ \A k \in 1 .. n : g[k] = CallingPass(g[k - 1], s[k])
          /\ Passed(s) = g[n]
    BY PassedTrace
  <1>2. n \in Nat /\ 1 \in 1 .. n /\ s[1] \in M BY DEF BeginsWithWords
  <1>3. PICK m \in M : m = s[1] BY <1>2
  <1>4. m.role = "user" /\ m.items \in Seq(Content) BY <1>3 DEF BeginsWithWords, IsMessages
  <1>5. PICK x : x.kind \in {"text", "blank"} /\ Has(m.items, x) BY <1>3 DEF BeginsWithWords, HasWords
  <1>6. PICK res \in Acc : res = AnswerItems({}, m.items) BY <1>4, AnswerItemsType
  <1>7. res.items \in Seq(Content) BY DEF Acc
  <1>8. PICK w \in M : w = WithItems(m, res.items) /\ w.role = m.role /\ w.items = res.items
    BY <1>7, LikeItems DEF Like
  <1>9. Has(w.items, x) BY <1>4, <1>5, <1>6, <1>8, WordsStay DEF Texts
  <1>10. g[1].msgs = <<w>>
    <2>1. g[1] = CallingPass(g[0], m)
      <3>1. 1 - 1 = 0 OBVIOUS
      <3>2. g[1] = CallingPass(g[1 - 1], s[1]) BY <1>1, <1>2
      <3> QED BY <1>3, <3>1, <3>2
    <2>2. PICK acc : acc = g[0] OBVIOUS
    <2>3. acc.pending = {} /\ acc.msgs = <<>> BY <1>1, <2>2
    <2>4. CallingPass(acc, m).msgs = Append(<<>>, w) BY <1>4, <1>6, <1>8, <2>3 DEF CallingPass
    <2> QED BY <2>1, <2>2, <2>4
  <1> DEFINE T == {k \in 0 .. n : k # 0 => Len(g[k].msgs) > 0 /\ g[k].msgs[1] = w}
  <1>11. 0 \in T BY <1>2
  <1>12. ASSUME NEW k \in 0 .. n, k # n, k \in T PROVE k + 1 \in T
    <2>1. k + 1 \in 1 .. n /\ (k + 1) - 1 = k /\ k + 1 \in 0 .. n BY <1>12
    <2>2. CASE k = 0 BY <1>10, <2>1, <2>2
    <2>3. CASE k # 0
      <3>1. PICK acc \in Calling(M) : acc = g[k] BY <1>1
      <3>2. PICK y \in M : y = s[k + 1] BY <2>1
      <3>3. g[k + 1] = CallingPass(acc, y) BY <1>1, <2>1, <3>1, <3>2
      <3>4. PICK q \in Seq(M) : q = acc.msgs BY DEF Calling
      <3>5. PICK its \in Seq(Content) : g[k + 1].msgs = Append(q, WithItems(y, its))
        BY <3>3, <3>4, CallingPassType
      <3>6. PICK v \in M : v = WithItems(y, its) BY LikeItems DEF Like
      <3>7. PICK r \in Seq(M) : Longer(r, q, v) BY Appended
      <3>8. g[k + 1].msgs = r BY <3>5, <3>6, <3>7 DEF Longer
      <3>9. Len(q) > 0 /\ q[1] = w BY <1>12, <2>3, <3>1, <3>4
      <3>10. Len(r) > 0 /\ r[1] = w BY <3>7, <3>9 DEF Longer
      <3> QED BY <2>1, <3>8, <3>10
    <2> QED BY <2>2, <2>3
  <1>13. \A k \in 0 .. n : k \in T
    <2> HIDE DEF T
    <2> QED BY <1>2, <1>11, <1>12, InductionTo
  <1>14. PICK pass \in Calling(M) : pass = Passed(s) BY <1>1, <1>2
  <1>15. PICK q \in Seq(M) : q = pass.msgs BY DEF Calling
  <1>16. Len(q) > 0 /\ q[1] = w
    <2>1. n \in T BY <1>2, <1>13
    <2> QED BY <1>1, <1>2, <1>14, <1>15, <2>1
  <1>17. CallingDone(s) = [k \in DOMAIN q |-> Close(pass, q[k])] BY <1>14, <1>15 DEF CallingDone, MapSeq
  <1>18. Close(pass, w) = w BY <1>4, <1>8 DEF Close
  <1>19. 1 \in DOMAIN q BY <1>16
  <1>20. CallingDone(s)[1] = w /\ CallingDone(s) # <<>> BY <1>16, <1>17, <1>18, <1>19
  <1> QED BY <1>4, <1>5, <1>8, <1>9, <1>20 DEF BeginsWithWords, HasWords
-----------------------------------------------------------------------------
(***************************************************************************)
(* The pairing of what is sent.                                            *)
(***************************************************************************)
LEMMA DropTrailingPaired ==
  ASSUME NEW M, NEW s \in Seq(M), NEW i, WellPaired(s, i)
  PROVE  WellPaired(DropTrailing(s), i)
PROOF
  <1>1. CASE s # <<>> /\ Last(s).role = "assistant"
    <2>1. PICK f \in Seq(M) : f = Front(s) BY <1>1, FrontPlaces
    <2>2. /\ Len(f) = Len(s) - 1 /\ Len(s) \in Nat \ {0} /\ s[Len(s)].role = "assistant"
          /\ \A k \in 1 .. Len(s) - 1 : f[k] = s[k]
      BY <1>1, <2>1, FrontPlaces
    <2>3. DropTrailing(s) = f BY <1>1, <2>1 DEF DropTrailing
    <2>4. DOMAIN s = 1 .. Len(s) /\ DOMAIN f = 1 .. Len(f) OBVIOUS
    <2>5. \A j \in DOMAIN f : j \in DOMAIN s /\ f[j] = s[j] BY <2>2, <2>4
    <2>6. \A j \in DOMAIN s : j \in DOMAIN f \/ j = Len(s) BY <2>2, <2>4
    <2>7. \A x : \A j : In(f, x, j) => In(s, x, j) /\ f[j] = s[j] BY <2>5 DEF In
    <2>8. \A x : \A j : In(s, x, j) => j \in 1 .. Len(s) BY <2>4 DEF In
    <2>9. ~In(s, Request(i), Len(s))
      <3> SUFFICES ASSUME In(s, Request(i), Len(s)) PROVE FALSE OBVIOUS
      <3>1. PICK n : In(s, Response(i), n) /\ Len(s) < n BY DEF WellPaired
      <3> QED BY <2>2, <2>8, <3>1
    <2>10. ~In(s, Response(i), Len(s)) BY <2>2 DEF WellPaired
    <2>11. \A x \in {Request(i), Response(i)} : \A j : In(s, x, j) => In(f, x, j)
      BY <2>5, <2>6, <2>9, <2>10 DEF In
    <2>12. \A x \in {Request(i), Response(i)} : OnceIn(f, x)
      BY <2>5, <2>7 DEF WellPaired, OnceIn
    <2> QED BY <2>3, <2>7, <2>11, <2>12 DEF WellPaired
  <1> QED BY <1>1 DEF DropTrailing

LEMMA FixMessagesPaired ==
  ASSUME NEW M, IsMessages(M), NEW s \in Seq(M), NEW i \in Nat, AskedOnce(s, i), BeginsWithWords(s)
  PROVE  WellPaired(FixMessages(s), i)
PROOF
  <1> DEFINE a == MapSeq(TrimWhitespace, MapSeq(MergeTextContent, s))
             b == RemoveEmptyMessages(a)
             c == FixToolCalling(b)
             d == MergeConsecutive(c)
             f == DropTrailing(d)
  <1>1. a \in Seq(M) BY TrimmedLike
  <1>2. AskedOnce(a, i) /\ BeginsWithWords(a) BY <1>1, TrimmedWords
  <1> HIDE DEF a
  <1>3. b \in Seq(M) /\ AskedOnce(b, i) /\ BeginsWithWords(b)
    BY <1>1, <1>2, RemoveEmptyType, RemoveEmptyWords
  <1> HIDE DEF b
  <1>4. c \in Seq(M) /\ WellPaired(c, i) BY <1>3, FixToolCallingType, FixToolCallingPaired
  <1>5. BeginsWithWords(c)
    <2>1. CallingDone(b) \in Seq(M) /\ BeginsWithWords(CallingDone(b))
      BY <1>3, CallingDoneLike, CallingDoneWords
    <2> QED BY <2>1, RemoveEmptyWords DEF FixToolCalling
  <1> HIDE DEF c
  <1>6. d \in Seq(M) /\ WellPaired(d, i) /\ d # <<>> /\ d[1].role = "user"
    BY <1>4, <1>5, Merged, MergedPaired DEF BeginsWithWords
  <1> HIDE DEF d
  <1>7. DropLeading(d) = d
    <2>1. Head(d) = d[1] BY <1>6
    <2> QED BY <1>6, <2>1 DEF DropLeading
  <1>8. WellPaired(f, i) BY <1>6, DropTrailingPaired
  <1>9. FixMessages(s) = PopulateIfEmpty(f) BY <1>7 DEF FixMessages, FixLeadTrail, a, b, c, d
  <1> HIDE DEF f
  <1>10. WellPaired(<<Start>>, i)
    <2>1. \A x \in {Request(i), Response(i)} : ~Has(Start.items, x)
      <3>1. Start.items = <<Text("text")>> BY DEF Start, Msg
      <3>2. Text("text").kind = "text" /\ Request(i).kind = "request" /\ Response(i).kind = "response"
        BY DEF Text, Request, Response
      <3> QED BY <3>1, <3>2 DEF Has
    <2>2. \A x \in {Request(i), Response(i)} : \A j : ~In(<<Start>>, x, j) BY <2>1 DEF In
    <2>3. \A x \in {Request(i), Response(i)} : OnceIn(<<Start>>, x)
      BY <2>1, <2>2 DEF OnceIn, Once, Has
    <2> QED BY <2>2, <2>3 DEF WellPaired
  <1> QED BY <1>8, <1>9, <1>10 DEF PopulateIfEmpty, Start
-----------------------------------------------------------------------------
(***************************************************************************)
(* What the user said, wherever it stands: no pass drops it.               *)
(***************************************************************************)
UserSays(s, x, n) == n \in DOMAIN s /\ s[n].role = "user" /\ Has(s[n].items, x)

UserHas(s, x) == \E n : UserSays(s, x, n)

LEMMA PickedUser ==
  ASSUME NEW M, NEW s \in Seq(M), NEW K, NEW x,
         \A n : UserSays(s, x, n) => n \in K
  PROVE  UserHas(s, x) => UserHas(Picked(s, K), x)
PROOF
  <1>1. PICK p \in Seq(M) : p = Picked(s, K) /\ \E e : Picks(e, p, s, K) BY PickedPlaces
  <1>2. PICK e : Picks(e, p, s, K) BY <1>1
  <1>3. ASSUME NEW n, UserSays(s, x, n) PROVE UserHas(p, x)
    <2>1. n \in 1 .. Len(s) /\ n \in K BY <1>3 DEF UserSays
    <2>2. PICK j \in 1 .. Len(p) : e[j] = n BY <1>2, <2>1 DEF Picks
    <2>3. p[j] = s[n] BY <1>2, <2>2 DEF Picks
    <2>4. UserSays(p, x, j) BY <1>3, <2>2, <2>3 DEF UserSays
    <2> QED BY <2>4 DEF UserHas
  <1> QED BY <1>1, <1>3 DEF UserHas

LEMMA TrimmedUser ==
  ASSUME NEW M, IsMessages(M), NEW s \in Seq(M), NEW x
  PROVE  UserHas(s, x) => UserHas(MapSeq(TrimWhitespace, MapSeq(MergeTextContent, s)), x)
PROOF
  <1> DEFINE r == [n \in DOMAIN s |-> MergeTextContent(s[n])]
             t == [n \in DOMAIN r |-> TrimWhitespace(r[n])]
  <1>1. MapSeq(TrimWhitespace, MapSeq(MergeTextContent, s)) = t BY DEF MapSeq
  <1>2. ASSUME NEW n, UserSays(s, x, n) PROVE UserSays(t, x, n)
    <2>1. t[n] = s[n] BY <1>2 DEF UserSays, MergeTextContent, TrimWhitespace
    <2> QED BY <1>2, <2>1 DEF UserSays
  <1> HIDE DEF t
  <1> QED BY <1>1, <1>2 DEF UserHas

LEMMA RemoveEmptyUser ==
  ASSUME NEW M, NEW s \in Seq(M), NEW x, x.kind # "empty"
  PROVE  UserHas(s, x) => UserHas(RemoveEmptyMessages(s), x)
PROOF
  <1> DEFINE K == {n \in DOMAIN s : ~IsEmptyMessage(s[n])}
  <1>1. RemoveEmptyMessages(s) = Picked(s, K) BY DEF RemoveEmptyMessages, Keep
  <1>2. \A n : UserSays(s, x, n) => n \in K BY DEF UserSays, IsEmptyMessage, Has
  <1> HIDE DEF K
  <1> QED BY <1>1, <1>2, PickedUser

\* A user's message is in its place after the pairing pass, with what it said
LEMMA PassedUser ==
  ASSUME NEW M, IsMessages(M), NEW s \in Seq(M), NEW x, x.kind \in Texts, NEW n, UserSays(s, x, n)
  PROVE  UserSays(Passed(s).msgs, x, n)
PROOF
  <1> DEFINE l == Len(s)
  <1>1. PICK g \in [0 .. l -> Calling(M)] :
          /\ g[0] = [pending |-> {}, msgs |-> <<>>]
          /\ \A k \in 1 .. l : g[k] = CallingPass(g[k - 1], s[k])
          /\ Passed(s) = g[l]
    BY PassedTrace
  <1>2. l \in Nat /\ l \in 0 .. l /\ n \in 1 .. l /\ s[n].role = "user" /\ Has(s[n].items, x)
    BY DEF UserSays
  <1> DEFINE T == {k \in 0 .. l : Len(g[k].msgs) = k /\ (n <= k => UserSays(g[k].msgs, x, n))}
  <1>3. 0 \in T BY <1>1, <1>2
  <1>4. ASSUME NEW k \in 0 .. l, k # l, k \in T PROVE k + 1 \in T
    <2>1. k + 1 \in 1 .. l /\ (k + 1) - 1 = k /\ k + 1 \in 0 .. l /\ k \in Nat BY <1>4
    <2>2. PICK acc \in Calling(M) : acc = g[k] BY <1>1
    <2>3. PICK m \in M : m = s[k + 1] BY <2>1
    <2>4. g[k + 1] = CallingPass(acc, m) BY <1>1, <2>1, <2>2, <2>3
    <2>5. PICK q \in Seq(M) : q = acc.msgs BY DEF Calling
    <2>6. PICK its \in Seq(Content) : /\ g[k + 1].msgs = Append(q, WithItems(m, its))
                                      /\ m.role = "user" /\ Has(m.items, x) => Has(its, x)
      <3>1. CASE m.role = "user"
        <4>1. acc.pending \in SUBSET Nat /\ m.items \in Seq(Content) BY DEF Calling, IsMessages
        <4>2. PICK res \in Acc : res = AnswerItems(acc.pending, m.items) BY <4>1, AnswerItemsType
        <4>3. g[k + 1].msgs = Append(q, WithItems(m, res.items)) BY <2>4, <2>5, <3>1, <4>2 DEF CallingPass
        <4>4. res.items \in Seq(Content) BY DEF Acc
        <4>5. Has(m.items, x) => Has(res.items, x) BY <4>1, <4>2, WordsStay
        <4> QED BY <4>3, <4>4, <4>5
      <3>2. CASE m.role # "user"
        <4>1. PICK its \in Seq(Content) : CallingPass(acc, m).msgs = Append(acc.msgs, WithItems(m, its))
          BY CallingPassType
        <4> QED BY <2>4, <2>5, <3>2, <4>1
      <3> QED BY <3>1, <3>2
    <2>7. PICK v \in M : v = WithItems(m, its) /\ v.role = m.role /\ v.items = its
      BY LikeItems DEF Like
    <2>8. PICK r \in Seq(M) : Longer(r, q, v) BY Appended
    <2>9. g[k + 1].msgs = r BY <2>6, <2>7, <2>8 DEF Longer
    <2>10. Len(q) = k /\ (n <= k => UserSays(q, x, n)) BY <1>4, <2>2, <2>5
    <2>11. Len(r) = k + 1 /\ (n <= k + 1 => UserSays(r, x, n))
      <3>1. CASE n <= k
        <4>1. n \in 1 .. Len(q) /\ r[n] = q[n] /\ n \in DOMAIN r BY <1>2, <2>8, <2>10, <3>1 DEF Longer
        <4> QED BY <2>8, <2>10, <3>1, <4>1 DEF UserSays, Longer
      <3>2. CASE n = k + 1
        <4>1. r[n] = v /\ n \in DOMAIN r BY <2>1, <2>8, <2>10, <3>2 DEF Longer
        <4>2. UserSays(r, x, n) BY <1>2, <2>3, <2>6, <2>7, <3>2, <4>1 DEF UserSays
        <4> QED BY <2>8, <2>10, <4>2 DEF Longer
      <3>3. CASE n > k + 1 BY <1>2, <2>8, <2>10, <2>1, <3>3 DEF Longer
      <3> QED BY <1>2, <2>1, <3>1, <3>2, <3>3
    <2> QED BY <2>1, <2>9, <2>11
  <1>5. \A k \in 0 .. l : k \in T
    <2> HIDE DEF T
    <2> QED BY <1>2, <1>3, <1>4, InductionTo
  <1> QED BY <1>1, <1>2, <1>5

LEMMA FixToolCallingUser ==
  ASSUME NEW M, IsMessages(M), NEW s \in Seq(M), NEW x, x.kind \in Texts, x.kind # "empty"
  PROVE  UserHas(s, x) => UserHas(FixToolCalling(s), x)
PROOF
  <1>1. PICK pass \in Calling(M) : pass = Passed(s) BY PassedLike
  <1>2. PICK q \in Seq(M) : q = pass.msgs BY DEF Calling
  <1>3. PICK r \in Seq(M) : r = CallingDone(s) BY CallingDoneLike
  <1>4. r = [k \in DOMAIN q |-> Close(pass, q[k])] BY <1>1, <1>2, <1>3 DEF CallingDone, MapSeq
  <1>5. ASSUME NEW n, UserSays(s, x, n) PROVE UserSays(r, x, n)
    <2>1. UserSays(q, x, n) BY <1>1, <1>2, <1>5, PassedUser
    <2>2. r[n] = q[n] /\ n \in DOMAIN r BY <1>4, <2>1 DEF UserSays, Close
    <2> QED BY <2>1, <2>2 DEF UserSays
  <1>6. UserHas(r, x) => UserHas(RemoveEmptyMessages(r), x) BY RemoveEmptyUser
  <1> QED BY <1>3, <1>5, <1>6 DEF UserHas, FixToolCalling

LEMMA MergedUser ==
  ASSUME NEW M, IsMessages(M), NEW s \in Seq(M), NEW x
  PROVE  UserHas(s, x) => UserHas(MergeConsecutive(s), x)
PROOF
  <1> DEFINE l == Len(s)
  <1>0. SUFFICES ASSUME NEW n, UserSays(s, x, n) PROVE UserHas(MergeConsecutive(s), x) BY DEF UserHas
  <1>1. PICK g \in [0 .. l -> Seq(M)] :
          /\ g[0] = <<>>
          /\ \A k \in 1 .. l : g[k] = MergeMessage(g[k - 1], s[k])
          /\ MergeConsecutive(s) = g[l]
    BY MergeTrace
  <1>2. l \in Nat /\ l \in 0 .. l /\ n \in 1 .. l /\ s[n].role = "user" /\ Has(s[n].items, x)
    BY <1>0 DEF UserSays
  <1> DEFINE T == {k \in 0 .. l : n <= k => UserHas(g[k], x)}
  <1>3. 0 \in T BY <1>2
  <1>4. ASSUME NEW k \in 0 .. l, k # l, k \in T PROVE k + 1 \in T
    <2>1. k + 1 \in 1 .. l /\ (k + 1) - 1 = k /\ k + 1 \in 0 .. l /\ k \in Nat BY <1>4
    <2>2. PICK q \in Seq(M) : q = g[k] BY <1>1
    <2>3. PICK m \in M : m = s[k + 1] BY <2>1
    <2>4. PICK r \in Seq(M) : r = MergeMessage(q, m) /\ KeepsSides(r, q, m) BY MergeMessageRoles
    <2>5. g[k + 1] = r BY <1>1, <2>1, <2>2, <2>3, <2>4
    <2>6. AddsTo(r, q, m, x) BY <2>4, MergeMessageHas
    <2>7. n <= k + 1 => UserHas(r, x)
      <3>1. CASE n <= k
        <4>1. PICK j : UserSays(q, x, j) BY <1>4, <2>2, <3>1 DEF UserHas
        <4>2. In(q, x, j) /\ j \in 1 .. Len(q) BY <4>1 DEF UserSays, In
        <4>3. In(r, x, j) /\ r[j].role = "user" BY <2>4, <2>6, <4>1, <4>2 DEF AddsTo, KeepsSides, UserSays
        <4>4. UserSays(r, x, j) BY <4>3 DEF UserSays, In
        <4> QED BY <4>4 DEF UserHas
      <3>2. CASE n = k + 1
        <4>1. In(r, x, Len(r)) BY <1>2, <2>3, <2>6, <3>2 DEF AddsTo
        <4>2. r[Len(r)].role = "user" BY <1>2, <2>3, <2>4, <3>2 DEF KeepsSides
        <4>3. UserSays(r, x, Len(r)) BY <4>1, <4>2 DEF UserSays, In
        <4> QED BY <4>3 DEF UserHas
      <3> QED BY <1>2, <2>1, <3>1, <3>2
    <2> QED BY <2>1, <2>5, <2>7
  <1>5. \A k \in 0 .. l : k \in T
    <2> HIDE DEF T
    <2> QED BY <1>2, <1>3, <1>4, InductionTo
  <1>6. n <= l BY <1>2
  <1> QED BY <1>1, <1>2, <1>5, <1>6

LEMMA FixLeadTrailUser ==
  ASSUME NEW M, NEW s \in Seq(M), NEW x, UserHas(s, x)
  PROVE  FixLeadTrail(s) \in Seq(M) /\ Len(FixLeadTrail(s)) <= Len(s) /\ UserHas(FixLeadTrail(s), x)
PROOF
  <1>1. ASSUME NEW t \in Seq(M), UserHas(t, x)
        PROVE  DropLeading(t) \in Seq(M) /\ Len(DropLeading(t)) <= Len(t) /\ UserHas(DropLeading(t), x)
    <2>1. CASE t # <<>> /\ Head(t).role = "assistant"
      <3>0. Tail(t) \in Seq(M) BY <2>1
      <3>1. PICK r \in Seq(M) : r = Tail(t) BY <3>0
      <3>2. /\ DropLeading(t) = r /\ Len(r) = Len(t) - 1 /\ Len(t) \in Nat
            /\ \A k \in 1 .. Len(t) - 1 : r[k] = t[k + 1]
        BY <2>1, <3>1 DEF DropLeading
      <3>3. PICK n : UserSays(t, x, n) BY <1>1 DEF UserHas
      <3>4. n \in 1 .. Len(t) /\ n # 1 BY <2>1, <3>3 DEF UserSays
      <3>5. n - 1 \in 1 .. Len(t) - 1 /\ (n - 1) + 1 = n BY <3>2, <3>4
      <3>6. r[n - 1] = t[n] /\ n - 1 \in DOMAIN r BY <3>2, <3>5
      <3>7. UserSays(r, x, n - 1) BY <3>3, <3>6 DEF UserSays
      <3>8. UserHas(r, x) BY <3>7 DEF UserHas
      <3> QED BY <3>2, <3>8
    <2> QED BY <1>1, <2>1 DEF DropLeading
  <1>2. ASSUME NEW t \in Seq(M), UserHas(t, x)
        PROVE  DropTrailing(t) \in Seq(M) /\ Len(DropTrailing(t)) <= Len(t) /\ UserHas(DropTrailing(t), x)
    <2>1. CASE t # <<>> /\ Last(t).role = "assistant"
      <3>1. PICK r \in Seq(M) : r = Front(t) BY <2>1, FrontPlaces
      <3>2. /\ Len(r) = Len(t) - 1 /\ Len(t) \in Nat \ {0}
            /\ \A k \in 1 .. Len(t) - 1 : r[k] = t[k]
            /\ Last(t) = t[Len(t)]
        BY <2>1, <3>1, FrontPlaces
      <3>3. DropTrailing(t) = r BY <2>1, <3>1 DEF DropTrailing
      <3>4. PICK n : UserSays(t, x, n) BY <1>2 DEF UserHas
      <3>5. n \in 1 .. Len(t) /\ n # Len(t) BY <2>1, <3>2, <3>4 DEF UserSays
      <3>6. n \in 1 .. Len(t) - 1 BY <3>2, <3>5
      <3>7. r[n] = t[n] /\ n \in DOMAIN r BY <3>2, <3>6
      <3>8. UserSays(r, x, n) BY <3>4, <3>7 DEF UserSays
      <3>9. UserHas(r, x) BY <3>8 DEF UserHas
      <3> QED BY <3>2, <3>3, <3>9
    <2> QED BY <1>2, <2>1 DEF DropTrailing
  <1>3. PICK t \in Seq(M) : t = DropLeading(s) /\ Len(t) <= Len(s) /\ UserHas(t, x) BY <1>1
  <1>4. DropTrailing(t) \in Seq(M) /\ Len(DropTrailing(t)) <= Len(t) /\ UserHas(DropTrailing(t), x)
    BY <1>2, <1>3
  <1>5. PICK u \in Seq(M) : u = DropTrailing(t) BY <1>4
  <1>6. Len(u) \in Nat /\ Len(t) \in Nat /\ Len(s) \in Nat /\ Len(u) <= Len(t) BY <1>4, <1>5
  <1> QED BY <1>3, <1>4, <1>5, <1>6 DEF FixLeadTrail

\* Words of the user's come through all the passes, and while there are some
\* the passes make no message of their own
LEMMA FixMessagesUser ==
  ASSUME NEW M, IsMessages(M), NEW s \in Seq(M), NEW x, x.kind \in {"text", "blank"}, UserHas(s, x)
  PROVE  /\ FixMessages(s) \in Seq(M) /\ Len(FixMessages(s)) <= Len(s)
         /\ \A y : y.kind \in {"text", "blank"} /\ UserHas(s, y) => UserHas(FixMessages(s), y)
PROOF
  <1> DEFINE a == MapSeq(TrimWhitespace, MapSeq(MergeTextContent, s))
             b == RemoveEmptyMessages(a)
             c == FixToolCalling(b)
             d == MergeConsecutive(c)
             f == FixLeadTrail(d)
             Same(t, u) == \A y : y.kind \in {"text", "blank"} /\ UserHas(t, y) => UserHas(u, y)
  <1>1. a \in Seq(M) /\ Len(a) = Len(s) /\ Same(s, a) BY TrimmedLike, TrimmedUser
  <1> HIDE DEF a
  <1>2. b \in Seq(M) /\ Len(b) <= Len(a) /\ Same(a, b) BY <1>1, RemoveEmptyType, RemoveEmptyUser
  <1> HIDE DEF b
  <1>3. c \in Seq(M) /\ Len(c) <= Len(b) /\ Same(b, c)
    BY <1>2, FixToolCallingType, FixToolCallingUser DEF Texts
  <1> HIDE DEF c
  <1>4. d \in Seq(M) /\ Len(d) <= Len(c) /\ Same(c, d) BY <1>3, Merged, MergedUser
  <1> HIDE DEF d
  <1>5. UserHas(d, x) BY <1>1, <1>2, <1>3, <1>4
  <1>6. f \in Seq(M) /\ Len(f) <= Len(d) /\ Same(d, f) BY <1>4, <1>5, FixLeadTrailUser
  <1>7. FixMessages(s) = PopulateIfEmpty(f) BY DEF FixMessages, a, b, c, d
  <1> HIDE DEF f
  <1>8. UserHas(f, x) BY <1>5, <1>6
  <1>9. f # <<>> BY <1>8 DEF UserHas, UserSays
  <1>10. FixMessages(s) = f BY <1>7, <1>9 DEF PopulateIfEmpty
  <1>11. Len(f) <= Len(s) BY <1>1, <1>2, <1>3, <1>4, <1>6
  <1> QED BY <1>1, <1>2, <1>3, <1>4, <1>6, <1>10, <1>11

-----------------------------------------------------------------------------
\* What the model does not see is placed as it is
LEMMA PlacedHidden ==
  ASSUME NEW M, NEW fixed \in Seq(M), NEW s \in Seq(M), NEW n \in DOMAIN s, ~s[n].visible
  PROVE  \E k \in DOMAIN Placed(fixed, s).msgs : Placed(fixed, s).msgs[k] = s[n]
PROOF
  <1> DEFINE l == Len(s)
             In1(q) == \E j \in DOMAIN q : q[j] = s[n]
  <1>1. PICK g : IsPlacing(g, M, fixed, s) /\ Placed(fixed, s) = g[l] BY PlacedTrace
  <1>2. l \in Nat /\ l \in 0 .. l /\ n \in 1 .. l OBVIOUS
  <1> DEFINE T == {k \in 0 .. l : n <= k => In1(g[k].msgs)}
  <1>3. 0 \in T BY <1>2
  <1>4. ASSUME NEW k \in 0 .. l, k # l, k \in T PROVE k + 1 \in T
    <2>1. k + 1 \in 1 .. l /\ (k + 1) - 1 = k /\ k + 1 \in 0 .. l /\ k \in Nat BY <1>4
    <2>2. PICK acc \in Placing(M) : acc = g[k] BY <1>1 DEF IsPlacing
    <2>3. PICK m \in M : m = s[k + 1] BY <2>1
    <2>4. g[k + 1] = PlaceFixed(fixed, acc, m) BY <1>1, <2>1, <2>2, <2>3 DEF IsPlacing
    <2>5. PICK q \in Seq(M) : q = acc.msgs BY DEF Placing
    <2>6. acc = [idx |-> acc.idx, msgs |-> q] BY <2>5 DEF Placing
    <2>7. PICK r : r = g[k + 1].msgs OBVIOUS
    <2>0. n <= k + 1 => n <= k \/ n = k + 1 BY <1>2, <2>1
    <2>a. n <= k => In1(q) BY <1>4, <2>2, <2>5
    <2> SUFFICES n <= k + 1 => In1(r) BY <2>1, <2>7
    <2>8. CASE ~m.visible
      <3>1. PICK u \in Seq(M) : Longer(u, q, m) BY Appended
      <3>2. r = u BY <2>4, <2>5, <2>6, <2>7, <2>8, <3>1 DEF PlaceFixed, Longer
      <3>3. n <= k => In1(u)
        <4>1. \A j \in DOMAIN q : j \in DOMAIN u /\ u[j] = q[j] BY <3>1 DEF Longer
        <4> QED BY <2>a, <4>1
      <3>4. n = k + 1 => In1(u)
        <4>1. Len(q) + 1 \in DOMAIN u /\ u[Len(q) + 1] = m BY <3>1 DEF Longer
        <4> QED BY <2>3, <4>1
      <3> QED BY <2>0, <3>2, <3>3, <3>4
    <2>9. CASE m.visible
      <3>1. n # k + 1 BY <2>3, <2>9
      <3>2. CASE acc.idx + 1 \in DOMAIN fixed
        <4>1. PICK z \in M : z = fixed[acc.idx + 1] BY <3>2
        <4>2. PICK u \in Seq(M) : Longer(u, q, z) BY Appended
        <4>3. r = u BY <2>4, <2>5, <2>6, <2>7, <2>9, <3>2, <4>1, <4>2 DEF PlaceFixed, Longer
        <4>4. \A j \in DOMAIN q : j \in DOMAIN u /\ u[j] = q[j] BY <4>2 DEF Longer
        <4> QED BY <2>0, <2>a, <3>1, <4>3, <4>4
      <3>3. CASE acc.idx + 1 \notin DOMAIN fixed
        <4>1. r = q BY <2>4, <2>5, <2>6, <2>7, <2>9, <3>3 DEF PlaceFixed
        <4> QED BY <2>0, <2>a, <3>1, <4>1
      <3> QED BY <3>2, <3>3
    <2> QED BY <2>8, <2>9
  <1>5. \A k \in 0 .. l : k \in T
    <2> HIDE DEF T
    <2> QED BY <1>2, <1>3, <1>4, InductionTo
  <1>6. n <= l BY <1>2
  <1>7. In1(g[l].msgs) BY <1>2, <1>5, <1>6
  <1> QED BY <1>1, <1>7

LEMMA VisiblePlaces ==
  ASSUME NEW M, NEW s \in Seq(M)
  PROVE  /\ \A n \in DOMAIN s : s[n].visible => \E k \in DOMAIN Visible(s) : Visible(s)[k] = s[n]
         /\ \A k \in DOMAIN Visible(s) : \E n \in DOMAIN s : s[n].visible /\ Visible(s)[k] = s[n]
PROOF
  <1> DEFINE K == {n \in DOMAIN s : s[n].visible}
  <1>1. Visible(s) = Picked(s, K) BY DEF Visible, Keep
  <1>2. PICK p \in Seq(M) : p = Picked(s, K) /\ \E e : Picks(e, p, s, K) BY PickedPlaces
  <1>3. PICK e : Picks(e, p, s, K) BY <1>2
  <1>4. DOMAIN p = 1 .. Len(p) /\ DOMAIN s = 1 .. Len(s) OBVIOUS
  <1>5. \A n \in DOMAIN s : s[n].visible => \E k \in DOMAIN p : p[k] = s[n]
    BY <1>3, <1>4 DEF Picks
  <1>6. \A k \in DOMAIN p : \E n \in DOMAIN s : s[n].visible /\ p[k] = s[n]
    BY <1>3, <1>4 DEF Picks
  <1>7. Visible(s) = p BY <1>1, <1>2
  <1> QED BY <1>5, <1>6, <1>7

\* A conversation whose model sees words of the user's: no message is made up,
\* and nothing that the user said is lost
LEMMA FixedUser ==
  ASSUME NEW M, IsMessages(M), NEW s \in Seq(M),
         \E x : x.kind \in {"text", "blank"} /\ UserHas(Visible(s), x)
  PROVE  /\ Fixed(s) \in Seq(M)
         /\ \A y : y.kind \in {"text", "blank"} /\ UserHas(s, y) => UserHas(Fixed(s), y)
PROOF
  <1>1. PICK v \in Seq(M) : v = Visible(s) /\ v \in Seq(Seen(M)) BY VisibleType
  <1>2. PICK x : x.kind \in {"text", "blank"} /\ UserHas(v, x) BY <1>1
  <1>3. PICK f \in Seq(Seen(M)) :
          /\ f = FixMessages(v) /\ Len(f) <= Len(v)
          /\ \A y : y.kind \in {"text", "blank"} /\ UserHas(v, y) => UserHas(f, y)
    BY <1>1, <1>2, SeenMessages, FixMessagesUser
  <1>4. f \in Seq(M) /\ \A j \in 1 .. Len(f) : f[j].visible BY DEF Seen
  <1>5. PICK r \in Seq(M) : r = Placed(f, s).msgs /\ Visible(r) = f
    BY <1>1, <1>3, <1>4, PlacedVisible
  <1>6. Fixed(s) = r BY <1>1, <1>3, <1>5 DEF Fixed
  <1>7. ASSUME NEW y, y.kind \in {"text", "blank"}, NEW n, UserSays(s, y, n) PROVE UserHas(r, y)
    <2>1. n \in DOMAIN s BY <1>7 DEF UserSays
    <2>2. CASE s[n].visible
      <3>1. PICK k \in DOMAIN v : v[k] = s[n] BY <1>1, <2>1, <2>2, VisiblePlaces
      <3>2. UserSays(v, y, k) BY <1>7, <3>1 DEF UserSays
      <3>3. UserHas(f, y) BY <1>3, <1>7, <3>2 DEF UserHas
      <3>4. PICK j : UserSays(f, y, j) BY <3>3 DEF UserHas
      <3>5. j \in DOMAIN f BY <3>4 DEF UserSays
      <3>6. PICK k2 \in DOMAIN r : f[j] = r[k2] BY <1>5, <3>5, VisiblePlaces
      <3>7. UserSays(r, y, k2) BY <3>4, <3>6 DEF UserSays
      <3> QED BY <3>7 DEF UserHas
    <2>3. CASE ~s[n].visible
      <3>1. PICK k \in DOMAIN r : r[k] = s[n] BY <1>4, <1>5, <2>1, <2>3, PlacedHidden
      <3>2. UserSays(r, y, k) BY <1>7, <3>1 DEF UserSays
      <3> QED BY <3>2 DEF UserHas
    <2> QED BY <2>2, <2>3
  <1> QED BY <1>6, <1>7 DEF UserHas

-----------------------------------------------------------------------------
(***************************************************************************)
(* Sequences of sequences, one after the other.                            *)
(***************************************************************************)
IsFlattening(g, F, n) ==
  /\ g[1] = F[1] /\ \A k \in 2 .. n : g[k] = g[k - 1] \o F[k]
  /\ FlattenSeq(F) = g[n]

LEMMA FlattenTrace ==
  ASSUME NEW S, NEW n \in Nat \ {0}, NEW F \in [1 .. n -> Seq(S)]
  PROVE  \E g \in [1 .. n -> Seq(S)] : IsFlattening(g, F, n)
PROOF
  <1> DEFINE V == Seq(S)
             h == [k \in 1 .. n |-> [v \in V |-> IF k = 1 THEN F[1] ELSE v \o F[k]]]
             P(c) == c = [k \in 1 .. n |-> IF k = 1 THEN F[k] ELSE c[k - 1] \o F[k]]
  <1>1. n \in Nat /\ <<>> \in V /\ 1 \in 1 .. n /\ \A k \in 1 .. n : F[k] \in V OBVIOUS
  <1>2. h \in [1 .. n -> [V -> V]]
    <2>1. \A k \in 1 .. n, v \in V : v \o F[k] \in V BY <1>1, ConcatPlaces
    <2> HIDE DEF V
    <2> QED BY <1>1, <2>1
  <1>3. PICK e : IsTrace(e, V, n, <<>>, h)
    <2> HIDE DEF h, V
    <2> QED BY <1>1, <1>2, TraceExists
  <1> DEFINE g == [k \in 1 .. n |-> e[k]]
  <1>4. ASSUME NEW k \in 1 .. n PROVE e[k] \in V /\ e[k] = IF k = 1 THEN F[1] ELSE e[k - 1] \o F[k]
    <2>1. e[k] \in V /\ e[k - 1] \in V /\ e[k] = h[k][e[k - 1]]
      <3> HIDE DEF h, V
      <3> QED BY <1>3 DEF IsTrace
    <2>2. h[k][e[k - 1]] = IF k = 1 THEN F[1] ELSE e[k - 1] \o F[k]
      <3> HIDE DEF V
      <3> QED BY <2>1
    <2> HIDE DEF h, V
    <2> QED BY <2>1, <2>2
  <1> HIDE DEF h
  <1>5. g \in [1 .. n -> V]
    <2> HIDE DEF V
    <2> QED BY <1>4
  <1>6. \A k \in 1 .. n : k # 1 => k - 1 \in 1 .. n BY <1>1
  <1>7. \A k \in 1 .. n : g[k] = IF k = 1 THEN F[k] ELSE g[k - 1] \o F[k] BY <1>4, <1>6
  <1>8. P(g)
    <2> HIDE DEF g
    <2> QED BY <1>5, <1>7
  <1>9. PICK c : c = CHOOSE d : P(d) OBVIOUS
  <1>10. P(c) BY <1>8, <1>9
  <1>11. Len(F) = n OBVIOUS
  <1>12. FlattenSeq(F) = c[n] BY <1>9, <1>11 DEF FlattenSeq
  <1>13. \A k \in 1 .. n : c[k] = IF k = 1 THEN F[k] ELSE c[k - 1] \o F[k]
    <2> HIDE DEF g
    <2> QED BY <1>10
  <1> HIDE DEF P, g
  <1> DEFINE T == {k \in 0 .. n : k # 0 => c[k] = g[k]}
  <1>14. 0 \in T OBVIOUS
  <1>15. ASSUME NEW k \in 0 .. n, k # n, k \in T PROVE k + 1 \in T
    <2>1. k + 1 \in 1 .. n /\ (k + 1) - 1 = k /\ k + 1 \in 0 .. n BY <1>15
    <2>2. c[k + 1] = g[k + 1]
      <3>1. CASE k = 0 BY <1>1, <1>7, <1>13, <3>1
      <3>2. CASE k # 0
        <4>1. c[k] = g[k] BY <1>15, <3>2
        <4>2. k + 1 # 1 BY <3>2
        <4>3. c[k + 1] = c[k] \o F[k + 1] BY <1>13, <2>1, <4>2
        <4>4. g[k + 1] = g[k] \o F[k + 1] BY <1>7, <2>1, <4>2
        <4> QED BY <4>1, <4>3, <4>4
      <3> QED BY <3>1, <3>2
    <2> QED BY <2>1, <2>2
  <1>16. \A k \in 0 .. n : k \in T
    <2> HIDE DEF T
    <2> QED BY <1>1, <1>14, <1>15, InductionTo
  <1>17. c[n] = g[n] BY <1>16
  <1>18. \A k \in 2 .. n : k \in 1 .. n /\ k # 1 OBVIOUS
  <1> QED BY <1>1, <1>5, <1>7, <1>12, <1>17, <1>18 DEF IsFlattening

\* What FlattenSeq gives, for the steps in which the provers should not open it
Flat(r, F, n) ==
  /\ r = FlattenSeq(F)
  /\ \A j \in DOMAIN r : \E k \in 1 .. n : Has(F[k], r[j])
  /\ \A k \in 1 .. n : \A x : Has(F[k], x) => Has(r, x)

LEMMA Flattened ==
  ASSUME NEW S, NEW n \in Nat, NEW F \in [1 .. n -> Seq(S)]
  PROVE  \E r \in Seq(S) : Flat(r, F, n)
PROOF
  <1>1. CASE n = 0
    <2>1. Len(F) = 0 /\ F = <<>> BY <1>1
    <2>2. FlattenSeq(F) = <<>> /\ 1 .. n = {} BY <1>1, <2>1 DEF FlattenSeq
    <2>a. <<>> \in Seq(S) OBVIOUS
    <2>3. PICK r \in Seq(S) : r = <<>> BY <2>a
    <2>4. DOMAIN r = {} BY <2>3
    <2>5. Flat(r, F, n) BY <2>2, <2>3, <2>4 DEF Flat
    <2> QED BY <2>5
  <1>2. CASE n # 0
    <2>0. n \in Nat \ {0} BY <1>2
    <2>1. PICK g \in [1 .. n -> Seq(S)] : IsFlattening(g, F, n) BY <2>0, FlattenTrace
    <2> DEFINE Good(k) == \A x : Has(g[k], x) <=> \E j \in 1 .. k : Has(F[j], x)
               T == {k \in 0 .. n : k # 0 => Good(k)}
    <2>2. 0 \in T OBVIOUS
    <2>3. ASSUME NEW k \in 0 .. n, k # n, k \in T PROVE k + 1 \in T
      <3>1. k + 1 \in 1 .. n /\ (k + 1) - 1 = k /\ k + 1 \in 0 .. n /\ k \in Nat BY <2>3
      <3>2. CASE k = 0
        <4>1. 1 .. (k + 1) = {1} /\ g[k + 1] = F[1] BY <2>1, <3>2 DEF IsFlattening
        <4>2. Good(k + 1) BY <4>1
        <4> HIDE DEF Good
        <4> QED BY <3>1, <4>2
      <3>3. CASE k # 0
        <4>1. k + 1 \in 2 .. n /\ k \in 1 .. n BY <3>1, <3>3
        <4>2. PICK s \in Seq(S) : s = g[k] BY <4>1
        <4>3. PICK t \in Seq(S) : t = F[k + 1] BY <3>1
        <4>4. g[k + 1] = s \o t BY <2>1, <3>1, <4>1, <4>2, <4>3 DEF IsFlattening
        <4>5. \A x : Has(s \o t, x) <=> Has(s, x) \/ Has(t, x) BY ConcatHas
        <4>6. \A x : Has(s, x) <=> \E j \in 1 .. k : Has(F[j], x) BY <2>3, <3>3, <4>2
        <4>7. /\ \A j \in 1 .. (k + 1) : j \in 1 .. k \/ j = k + 1
              /\ \A j \in 1 .. k : j \in 1 .. (k + 1)
              /\ k + 1 \in 1 .. (k + 1)
          BY <3>1
        <4>8. Good(k + 1) BY <4>3, <4>4, <4>5, <4>6, <4>7
        <4> HIDE DEF Good
        <4> QED BY <3>1, <4>8
      <3> QED BY <3>2, <3>3
    <2>4. \A k \in 0 .. n : k \in T
      <3> HIDE DEF T
      <3> QED BY <2>2, <2>3, InductionTo
    <2>5. Good(n)
      <3>0. n \in 0 .. n OBVIOUS
      <3>1. n \in T
        <4> HIDE DEF T
        <4> QED BY <2>4, <3>0
      <3> HIDE DEF Good
      <3> QED BY <1>2, <3>1
    <2>6. PICK r \in Seq(S) : r = g[n] BY <1>2
    <2>7. \A j \in DOMAIN r : Has(r, r[j]) BY DEF Has
    <2>8. Flat(r, F, n) BY <2>1, <2>5, <2>6, <2>7 DEF Flat, IsFlattening
    <2> QED BY <2>8
  <1> QED BY <1>1, <1>2
-----------------------------------------------------------------------------
(***************************************************************************)
(* Where the calls of a fixed message come from.  When every call that is  *)
(* followed by its result is directly followed by it, no message comes to  *)
(* hold two calls, and a result keeps the row it was in.                   *)
(***************************************************************************)
IsCall(x) == x.kind \in {"request", "response"}

\* Messages are rows of a store
HasRows(M) == \A m \in M, its \in Seq(Content) : WithItems(m, its).mid = m.mid

\* The calls and results of m are of one call
OneCall(m) == \A x, y : IsCall(x) /\ IsCall(y) /\ Has(m.items, x) /\ Has(m.items, y) => x.id = y.id

OneCallEach(s) == \A n \in DOMAIN s : OneCall(s[n])

\* The calls and results of f are in s, the results in the same row
From(f, s) ==
  \A x, j : IsCall(x) /\ In(f, x, j) =>
    \E n : In(s, x, n) /\ (x.kind = "response" => f[j].mid = s[n].mid)

\* The result of call i stands after it
Follows(s, i) == \E m, n : In(s, Request(i), m) /\ In(s, Response(i), n) /\ m < n

\* No message stands between a call and its result
Near(s, i) == \A m, n : In(s, Request(i), m) /\ In(s, Response(i), n) /\ m < n => n = m + 1

LEMMA FromTransitive ==
  ASSUME NEW f, NEW r, NEW s, From(f, r), From(r, s) PROVE From(f, s)
PROOF
  <1> SUFFICES ASSUME NEW x, NEW j, IsCall(x), In(f, x, j)
               PROVE  \E n : In(s, x, n) /\ (x.kind = "response" => f[j].mid = s[n].mid)
    BY DEF From
  <1>1. PICK k : In(r, x, k) /\ (x.kind = "response" => f[j].mid = r[k].mid) BY DEF From
  <1>2. PICK n : In(s, x, n) /\ (x.kind = "response" => r[k].mid = s[n].mid) BY <1>1 DEF From
  <1> QED BY <1>1, <1>2

\* t holds in each place no other calls than s
SamePlaces(t, s) ==
  \A x, j : IsCall(x) /\ In(t, x, j) => In(s, x, j) /\ t[j].mid = s[j].mid

LEMMA SamePlacesKeep ==
  ASSUME NEW t, NEW s, SamePlaces(t, s)
  PROVE  /\ From(t, s)
         /\ \A i : Near(s, i) => Near(t, i)
         /\ OneCallEach(s) => OneCallEach(t)
         /\ \A i : Follows(t, i) => Follows(s, i)
PROOF
  <1>1. \A i : IsCall(Request(i)) /\ IsCall(Response(i)) BY DEF IsCall, Request, Response
  <1>2. From(t, s) BY DEF From, SamePlaces
  <1>3. \A i : Near(s, i) => Near(t, i) BY <1>1 DEF Near, SamePlaces
  <1>4. OneCallEach(s) => OneCallEach(t)
    <2> SUFFICES ASSUME OneCallEach(s), NEW n \in DOMAIN t, NEW x, NEW y, IsCall(x), IsCall(y),
                        Has(t[n].items, x), Has(t[n].items, y)
                 PROVE  x.id = y.id
      BY DEF OneCallEach, OneCall
    <2>1. In(s, x, n) /\ In(s, y, n) BY DEF SamePlaces, In
    <2> QED BY <2>1 DEF OneCallEach, OneCall, In
  <1>5. \A i : Follows(t, i) => Follows(s, i) BY <1>1 DEF Follows, SamePlaces
  <1> QED BY <1>2, <1>3, <1>4, <1>5

LEMMA PickedSub ==
  ASSUME NEW S, NEW s \in Seq(S), NEW K, NEW x, Has(Picked(s, K), x) PROVE Has(s, x)
PROOF
  <1>1. \E k \in DOMAIN s : k \in K /\ s[k] = x BY PickedHas
  <1> QED BY <1>1 DEF Has

LEMMA PickedFrom ==
  ASSUME NEW M, NEW s \in Seq(M), NEW K
  PROVE  /\ From(Picked(s, K), s)
         /\ \A i : Near(s, i) => Near(Picked(s, K), i)
         /\ OneCallEach(s) => OneCallEach(Picked(s, K))
         /\ \A i : Follows(Picked(s, K), i) => Follows(s, i)
PROOF
  <1>1. PICK p \in Seq(M) : p = Picked(s, K) BY PickedPlaces
  <1>2. PICK e : Picks(e, p, s, K) BY <1>1, PickedPlaces
  <1>3. DOMAIN p = 1 .. Len(p) /\ DOMAIN s = 1 .. Len(s) OBVIOUS
  <1>4. \A j \in DOMAIN p : e[j] \in DOMAIN s /\ p[j] = s[e[j]] BY <1>2, <1>3 DEF Picks
  <1>5. From(p, s)
    <2> SUFFICES ASSUME NEW x, NEW j, In(p, x, j) PROVE In(s, x, e[j]) /\ p[j].mid = s[e[j]].mid
      BY DEF From
    <2> QED BY <1>4 DEF In
  <1>6. ASSUME NEW i, Near(s, i) PROVE Near(p, i)
    <2> SUFFICES ASSUME NEW m, NEW n, In(p, Request(i), m), In(p, Response(i), n), m < n
                 PROVE  n = m + 1
      BY DEF Near
    <2>1. m \in 1 .. Len(p) /\ n \in 1 .. Len(p) BY <1>3 DEF In
    <2>2. In(s, Request(i), e[m]) /\ In(s, Response(i), e[n]) BY <1>4 DEF In
    <2>3. e[m] < e[n] BY <1>2, <2>1 DEF Picks
    <2>4. e[n] = e[m] + 1 BY <1>6, <2>2, <2>3 DEF Near
    <2> SUFFICES ASSUME n # m + 1 PROVE FALSE OBVIOUS
    <2>5. m + 1 \in 1 .. Len(p) /\ m < m + 1 /\ m + 1 < n BY <2>1
    <2>6. e[m] < e[m + 1] /\ e[m + 1] < e[n] BY <1>2, <2>1, <2>5 DEF Picks
    <2>7. e[m] \in Nat /\ e[m + 1] \in Nat BY <1>2, <2>1, <2>5 DEF Picks
    <2> QED BY <2>4, <2>6, <2>7
  <1>7. OneCallEach(s) => OneCallEach(p) BY <1>4 DEF OneCallEach
  <1>8. ASSUME NEW i, Follows(p, i) PROVE Follows(s, i)
    <2>1. PICK m, n : In(p, Request(i), m) /\ In(p, Response(i), n) /\ m < n BY <1>8 DEF Follows
    <2>2. m \in 1 .. Len(p) /\ n \in 1 .. Len(p) BY <1>3, <2>1 DEF In
    <2>3. In(s, Request(i), e[m]) /\ In(s, Response(i), e[n]) BY <1>4, <2>1 DEF In
    <2>4. e[m] < e[n] BY <1>2, <2>1, <2>2 DEF Picks
    <2> QED BY <2>3, <2>4 DEF Follows
  <1> QED BY <1>1, <1>5, <1>6, <1>7, <1>8

LEMMA PreparedMid ==
  ASSUME NEW M, IsMessages(M), HasRows(M), NEW m \in M PROVE Prepared(m).mid = m.mid
PROOF
  <1>1. PICK r \in M : r = MergeTextContent(m) BY MergeTextLike DEF Like
  <1>2. r.mid = m.mid
    <2>1. CASE m.role = "assistant"
      <3>1. JoinedItems(m.items) \in Seq(Content) BY JoinedType DEF IsMessages
      <3>2. r = WithItems(m, JoinedItems(m.items)) BY <1>1, <2>1 DEF MergeTextContent
      <3> QED BY <3>1, <3>2 DEF HasRows
    <2>2. CASE m.role # "assistant" BY <1>1, <2>2 DEF MergeTextContent
    <2> QED BY <2>1, <2>2
  <1>3. TrimWhitespace(r).mid = r.mid
    <2> DEFINE Trim(item) == IF item.kind = "blank" THEN Text("empty") ELSE item
               its == [n \in DOMAIN r.items |-> Trim(r.items[n])]
    <2>1. \A item \in Content : Trim(item) \in Content BY DEF Content, Text, NoId, Kinds, Texts
    <2>2. r.items \in Seq(Content) BY DEF IsMessages
    <2>3. its \in Seq(Content)
      <3> HIDE DEF Trim
      <3> QED BY <2>1, <2>2
    <2>4. TrimWhitespace(r) = IF r.role = "assistant" THEN WithItems(r, its) ELSE r
      BY DEF TrimWhitespace, MapSeq
    <2> HIDE DEF its
    <2> QED BY <2>3, <2>4 DEF HasRows
  <1> QED BY <1>1, <1>2, <1>3 DEF Prepared

LEMMA TrimmedFrom ==
  ASSUME NEW M, IsMessages(M), HasRows(M), NEW s \in Seq(M), NEW t \in Seq(M),
         t = MapSeq(TrimWhitespace, MapSeq(MergeTextContent, s))
  PROVE  SamePlaces(t, s)
PROOF
  <1>1. Len(t) = Len(s) BY TrimmedLike
  <1>2. DOMAIN s = 1 .. Len(s) /\ DOMAIN t = 1 .. Len(t) OBVIOUS
  <1>3. \A n \in DOMAIN s : t[n] = Prepared(s[n])
    <2> DEFINE r == [n \in DOMAIN s |-> MergeTextContent(s[n])]
    <2>1. t = [n \in DOMAIN r |-> TrimWhitespace(r[n])] BY DEF MapSeq
    <2> QED BY <2>1 DEF Prepared
  <1> SUFFICES ASSUME NEW x, NEW j, IsCall(x), In(t, x, j) PROVE In(s, x, j) /\ t[j].mid = s[j].mid
    BY DEF SamePlaces
  <1>4. j \in DOMAIN s BY <1>1, <1>2 DEF In
  <1>5. PICK m \in M : m = s[j] BY <1>4
  <1>6. t[j] = Prepared(m) BY <1>3, <1>4, <1>5
  <1>7. ~IsText(x) BY DEF IsText, IsCall, Texts
  <1>8. Has(m.items, x) BY <1>6, <1>7, PreparedHas DEF In
  <1>9. Prepared(m).mid = m.mid BY PreparedMid
  <1> QED BY <1>4, <1>5, <1>6, <1>8, <1>9 DEF In

LEMMA AnswersFrom ==
  ASSUME NEW pending \in SUBSET Nat, NEW t \in Seq(Content), NEW x, Has(AnswerItems(pending, t).items, x)
  PROVE  Has(t, x)
PROOF
  <1> DEFINE n == Len(t)
  <1>1. PICK g \in [0 .. n -> Acc] :
          /\ g[0] = [pending |-> pending, items |-> <<>>]
          /\ \A k \in 1 .. n : g[k] = AnswerItem(g[k - 1], t[k])
          /\ AnswerItems(pending, t) = g[n]
    BY AnswerTrace
  <1> DEFINE T == {k \in 0 .. n : Has(g[k].items, x) => Has(t, x)}
  <1>3. n \in Nat /\ n \in 0 .. n /\ DOMAIN t = 1 .. n OBVIOUS
  <1>4. 0 \in T BY <1>1, <1>3 DEF Has
  <1>5. ASSUME NEW k \in 0 .. n, k # n, k \in T PROVE k + 1 \in T
    <2>1. k + 1 \in 1 .. n /\ (k + 1) - 1 = k /\ k + 1 \in 0 .. n BY <1>5
    <2>2. PICK acc \in Acc : acc = g[k] BY <1>1
    <2>3. PICK y \in Content : y = t[k + 1] BY <2>1
    <2>4. g[k + 1] = AnswerItem(acc, y) BY <1>1, <2>1, <2>2, <2>3
    <2>5. PICK s \in Seq(Content) : s = acc.items BY DEF Acc
    <2>6. g[k + 1].items \in {s, Append(s, y)} BY <2>4, <2>5 DEF AnswerItem
    <2>7. Has(Append(s, y), x) <=> Has(s, x) \/ y = x BY AppendHas
    <2>8. Has(t, y) BY <1>3, <2>1, <2>3 DEF Has
    <2>9. Has(s, x) => Has(t, x) BY <1>5, <2>2, <2>5
    <2> QED BY <2>1, <2>6, <2>7, <2>8, <2>9
  <1>6. \A k \in 0 .. n : k \in T
    <2> HIDE DEF T
    <2> QED BY <1>3, <1>4, <1>5, InductionTo
  <1> QED BY <1>1, <1>3, <1>6

\* What the pass makes of a message: no item more, and its row
LEMMA CallingPassFrom ==
  ASSUME NEW M, IsMessages(M), NEW acc \in Calling(M), NEW m \in M
  PROVE  \E its \in Seq(Content) :
           /\ CallingPass(acc, m).msgs = Append(acc.msgs, WithItems(m, its))
           /\ \A x : Has(its, x) => Has(m.items, x)
PROOF
  <1>0. acc.pending \in SUBSET Nat /\ m.items \in Seq(Content) BY DEF Calling, IsMessages
  <1>1. CASE m.role = "user"
    <2>1. PICK res \in Acc : res = AnswerItems(acc.pending, m.items) BY <1>0, AnswerItemsType
    <2>2. CallingPass(acc, m).msgs = Append(acc.msgs, WithItems(m, res.items))
      BY <1>1, <2>1 DEF CallingPass
    <2>3. res.items \in Seq(Content) BY DEF Acc
    <2>4. \A x : Has(res.items, x) => Has(m.items, x) BY <1>0, <2>1, AnswersFrom
    <2> QED BY <2>2, <2>3, <2>4
  <1>2. CASE m.role # "user"
    <2> DEFINE K == {n \in DOMAIN m.items : ~Misplaced("assistant", m.items[n])}
    <2>1. PICK its \in Seq(Content) : its = Picked(m.items, K)
      <3> HIDE DEF K
      <3> QED BY <1>0, PickedPlaces
    <2>2. CallingPass(acc, m).msgs = Append(acc.msgs, WithItems(m, its))
      BY <1>2, <2>1 DEF CallingPass, Keep
    <2>3. \A x : Has(its, x) => Has(m.items, x)
      <3> HIDE DEF K
      <3> QED BY <1>0, <2>1, PickedSub
    <2> QED BY <2>2, <2>3
  <1> QED BY <1>1, <1>2

LEMMA PassedFrom ==
  ASSUME NEW M, IsMessages(M), HasRows(M), NEW s \in Seq(M)
  PROVE  \A j \in 1 .. Len(s) : /\ \A x : Has(Passed(s).msgs[j].items, x) => Has(s[j].items, x)
                                /\ Passed(s).msgs[j].mid = s[j].mid
PROOF
  <1> DEFINE l == Len(s)
  <1>1. PICK g \in [0 .. l -> Calling(M)] :
          /\ g[0] = [pending |-> {}, msgs |-> <<>>]
          /\ \A k \in 1 .. l : g[k] = CallingPass(g[k - 1], s[k])
          /\ Passed(s) = g[l]
    BY PassedTrace
  <1>2. l \in Nat /\ l \in 0 .. l OBVIOUS
  <1> DEFINE Comes(w, m) == (\A x : Has(w.items, x) => Has(m.items, x)) /\ w.mid = m.mid
             T == {k \in 0 .. l : Len(g[k].msgs) = k /\ \A j \in 1 .. k : Comes(g[k].msgs[j], s[j])}
  <1>3. 0 \in T BY <1>1, <1>2
  <1>4. ASSUME NEW k \in 0 .. l, k # l, k \in T PROVE k + 1 \in T
    <2>1. k + 1 \in 1 .. l /\ (k + 1) - 1 = k /\ k + 1 \in 0 .. l /\ k \in Nat BY <1>4
    <2>2. PICK acc \in Calling(M) : acc = g[k] BY <1>1
    <2>3. PICK m \in M : m = s[k + 1] BY <2>1
    <2>4. g[k + 1] = CallingPass(acc, m) BY <1>1, <2>1, <2>2, <2>3
    <2>5. PICK q \in Seq(M) : q = acc.msgs BY DEF Calling
    <2>6. PICK its \in Seq(Content) : /\ g[k + 1].msgs = Append(q, WithItems(m, its))
                                      /\ \A x : Has(its, x) => Has(m.items, x)
      BY <2>4, <2>5, CallingPassFrom
    <2>7. PICK v \in M : v = WithItems(m, its) /\ v.items = its /\ v.mid = m.mid
      BY LikeItems DEF Like, HasRows
    <2>8. PICK r \in Seq(M) : Longer(r, q, v) BY Appended
    <2>9. g[k + 1].msgs = r BY <2>6, <2>7, <2>8 DEF Longer
    <2>10. Len(q) = k /\ \A j \in 1 .. k : Comes(q[j], s[j]) BY <1>4, <2>2, <2>5
    <2>11. Comes(v, s[k + 1]) BY <2>3, <2>6, <2>7
    <2> HIDE DEF Comes
    <2>12. Len(r) = k + 1 /\ \A j \in 1 .. (k + 1) : Comes(r[j], s[j])
      <3>1. Len(r) = k + 1 /\ r[k + 1] = v /\ \A j \in 1 .. k : r[j] = q[j] BY <2>8, <2>10 DEF Longer
      <3>2. \A j \in 1 .. (k + 1) : j \in 1 .. k \/ j = k + 1 BY <2>1
      <3> QED BY <2>10, <2>11, <3>1, <3>2
    <2> QED BY <2>1, <2>9, <2>12
  <1>5. \A k \in 0 .. l : k \in T
    <2> HIDE DEF T
    <2> QED BY <1>2, <1>3, <1>4, InductionTo
  <1>6. \A j \in 1 .. l : Comes(g[l].msgs[j], s[j])
    <2>1. l \in T
      <3> HIDE DEF T
      <3> QED BY <1>2, <1>5
    <2> HIDE DEF Comes
    <2> QED BY <2>1
  <1> QED BY <1>1, <1>6

LEMMA CallingDoneFrom ==
  ASSUME NEW M, IsMessages(M), HasRows(M), NEW s \in Seq(M) PROVE SamePlaces(CallingDone(s), s)
PROOF
  <1>1. PICK pass \in Calling(M) : pass = Passed(s) BY PassedLike
  <1>2. PICK q \in Seq(M) : q = pass.msgs BY DEF Calling
  <1>3. PICK r \in Seq(M) : r = CallingDone(s) BY CallingDoneLike
  <1>4. r = [k \in DOMAIN q |-> Close(pass, q[k])] BY <1>1, <1>2, <1>3 DEF CallingDone, MapSeq
  <1>5. Len(q) = Len(s) /\ DOMAIN q = 1 .. Len(q) /\ DOMAIN s = 1 .. Len(s) BY <1>1, <1>2, PassedLike
  <1> SUFFICES ASSUME NEW x, NEW j, In(r, x, j) PROVE In(s, x, j) /\ r[j].mid = s[j].mid
    BY <1>3 DEF SamePlaces
  <1>6. j \in DOMAIN q /\ j \in 1 .. Len(s) /\ Has(r[j].items, x) BY <1>4, <1>5 DEF In
  <1>7. PICK m \in M : m = q[j] BY <1>6
  <1>8. (Has(m.items, x) => Has(s[j].items, x)) /\ m.mid = s[j].mid BY <1>1, <1>2, <1>6, <1>7, PassedFrom
  <1>9. Has(m.items, x) /\ r[j].mid = m.mid
    <2>1. m.items \in Seq(Content) BY DEF IsMessages
    <2> DEFINE K == {n \in DOMAIN m.items : RequestAnswered(pass.pending, m.items[n])}
    <2>2. PICK its \in Seq(Content) : its = Picked(m.items, K)
      <3> HIDE DEF K
      <3> QED BY <2>1, PickedPlaces
    <2>3. r[j] = IF m.role = "assistant" THEN WithItems(m, its) ELSE m
      BY <1>4, <1>6, <1>7, <2>2 DEF Close, Keep
    <2>4. WithItems(m, its).items = its /\ WithItems(m, its).mid = m.mid BY LikeItems DEF HasRows
    <2>5. Has(its, x) => Has(m.items, x)
      <3> HIDE DEF K
      <3> QED BY <2>1, <2>2, PickedSub
    <2> QED BY <1>6, <2>3, <2>4, <2>5
  <1> QED BY <1>5, <1>6, <1>8, <1>9 DEF In

(***************************************************************************)
(* Merging, when calls and results are direct neighbours.  A message with  *)
(* a call is the last of its run, one with a result is the only one of     *)
(* its run.                                                                *)
(***************************************************************************)
DirectlyPaired(s) == \A i \in Nat : WellPaired(s, i) /\ Near(s, i)

LEMMA Neighbours ==
  ASSUME NEW s, DirectlyPaired(s), NEW x \in Content, NEW n
  PROVE  /\ In(s, x, n) /\ x.kind = "request" =>
              s[n].role = "assistant" /\ In(s, Response(x.id), n + 1) /\ s[n + 1].role = "user"
         /\ In(s, x, n) /\ x.kind = "response" =>
              s[n].role = "user"
              /\ \E m : n = m + 1 /\ In(s, Request(x.id), m) /\ s[m].role = "assistant"
PROOF
  <1>1. PICK i \in Nat : i = x.id BY DEF Content
  <1>2. WellPaired(s, i) /\ Near(s, i) BY DEF DirectlyPaired
  <1>3. CASE In(s, x, n) /\ x.kind = "request"
    <2>1. In(s, Request(i), n) BY <1>1, <1>3, ContentKinds
    <2>2. PICK m : In(s, Response(i), m) /\ n < m BY <1>2, <2>1 DEF WellPaired
    <2>3. m = n + 1 BY <1>2, <2>1, <2>2 DEF Near
    <2> QED BY <1>1, <1>2, <1>3, <2>1, <2>2, <2>3 DEF WellPaired
  <1>4. CASE In(s, x, n) /\ x.kind = "response"
    <2>1. In(s, Response(i), n) BY <1>1, <1>4, ContentKinds
    <2>2. PICK m : In(s, Request(i), m) /\ m < n BY <1>2, <2>1 DEF WellPaired
    <2>3. n = m + 1 BY <1>2, <2>1, <2>2 DEF Near
    <2> QED BY <1>1, <1>2, <1>4, <2>1, <2>2, <2>3 DEF WellPaired
  <1> QED BY <1>3, <1>4

\* What is done so far of s, after its k-th message
MergesCalls(q, s, k) ==
  /\ OneCallEach(q)
  /\ \A x \in Content : \A j : IsCall(x) /\ In(q, x, j) =>
       \E n \in 1 .. k :
         In(s, x, n) /\ (x.kind = "response" => q[j].mid = s[n].mid /\ q[j].role = s[n].role)
  /\ k = 0 => q = <<>>
  /\ k # 0 => /\ q # <<>> /\ q[Len(q)].role = s[k].role
              /\ \A x \in Content : x.kind = "request" /\ Has(q[Len(q)].items, x) => Has(s[k].items, x)

LEMMA RoleOfResult ==
  ASSUME NEW M, IsMessages(M), NEW m \in M
  PROVE  /\ EffectiveRole(m) = "tool" <=>
              m.role = "user" /\ \E x \in Content : x.kind = "response" /\ Has(m.items, x)
         /\ EffectiveRole(m) # "tool" => EffectiveRole(m) = m.role
PROOF
  <1>1. m.items \in Seq(Content) /\ m.role \in {"user", "assistant"} BY DEF IsMessages
  <1>2. (\E n \in DOMAIN m.items : m.items[n].kind = "response") <=>
          \E x \in Content : x.kind = "response" /\ Has(m.items, x)
    BY <1>1 DEF Has
  <1> QED BY <1>1, <1>2 DEF EffectiveRole

LEMMA MergesCallsStep ==
  ASSUME NEW M, IsMessages(M), HasRows(M), NEW s \in Seq(M), DirectlyPaired(s), OneCallEach(s),
         NEW k \in Nat, k + 1 \in 1 .. Len(s), NEW q \in Seq(M), MergesCalls(q, s, k)
  PROVE  MergesCalls(MergeMessage(q, s[k + 1]), s, k + 1)
PROOF
  <1>1. PICK m \in M : m = s[k + 1] OBVIOUS
  <1>2. k + 1 \in DOMAIN s /\ k + 1 \in 1 .. (k + 1) /\ k + 1 # 0 /\ 1 .. k \subseteq 1 .. (k + 1)
    OBVIOUS
  <1>3. m.items \in Seq(Content) /\ m.role \in {"user", "assistant"} /\ OneCall(m)
    BY <1>1, <1>2 DEF IsMessages, OneCallEach
  <1>4. \A x : Has(m.items, x) => In(s, x, k + 1) BY <1>1, <1>2 DEF In
  <1>5. CASE q # <<>> /\ EffectiveRole(Last(q)) = EffectiveRole(m)
    <2>1. PICK f \in Seq(M) : f = Front(q) BY <1>5, FrontPlaces
    <2>2. PICK l \in M : l = Last(q) BY <1>5, FrontPlaces
    <2>3. l.items \in Seq(Content) /\ l.role \in {"user", "assistant"} BY DEF IsMessages
    <2>4. PICK its \in Seq(Content) : its = l.items \o m.items
      <3>1. l.items \o m.items \in Seq(Content) BY <1>3, <2>3, ConcatPlaces
      <3> QED BY <3>1
    <2>5. PICK w \in M : w = WithItems(l, its) /\ w.items = its /\ w.role = l.role /\ w.mid = l.mid
      BY <2>4, LikeItems DEF Like, HasRows
    <2>6. PICK r \in Seq(M) : Longer(r, f, w) BY Appended
    <2>7. MergeMessage(q, m) = r BY <1>5, <2>1, <2>2, <2>4, <2>5, <2>6 DEF MergeMessage, Longer
    <2>8. PICK p \in Seq(M) : Longer(p, f, l) BY Appended
    <2>9. p = q BY <1>5, <2>1, <2>2, <2>8, LastType DEF Longer
    <2>10. /\ Len(f) \in Nat /\ DOMAIN r = 1 .. Len(f) + 1 /\ DOMAIN q = 1 .. Len(f) + 1
           /\ Len(q) = Len(f) + 1 /\ Len(r) = Len(f) + 1
           /\ r[Len(f) + 1] = w /\ q[Len(f) + 1] = l /\ \A j \in 1 .. Len(f) : r[j] = q[j]
      BY <2>6, <2>8, <2>9 DEF Longer
    <2>11. k # 0 /\ l.role = s[k].role
           /\ \A x \in Content : x.kind = "request" /\ Has(l.items, x) => Has(s[k].items, x)
      BY <1>5, <2>10 DEF MergesCalls
    <2>12. k \in DOMAIN s BY <2>11
    <2>13. \A x \in Content : x.kind = "response" => ~Has(m.items, x)
      <3> SUFFICES ASSUME NEW x \in Content, x.kind = "response", Has(m.items, x) PROVE FALSE
        OBVIOUS
      <3>1. In(s, x, k + 1) BY <1>4
      <3>2. m.role = "user" BY <1>1, <3>1, Neighbours
      <3>3. PICK n : k + 1 = n + 1 /\ In(s, Request(x.id), n) /\ s[n].role = "assistant"
        BY <3>1, Neighbours
      <3>4. n = k BY <2>12, <3>3 DEF In
      <3>5. EffectiveRole(m) = "tool" BY <3>2, RoleOfResult
      <3>6. l.role = "user" BY <1>5, <2>2, <3>5, RoleOfResult
      <3> QED BY <2>11, <3>3, <3>4, <3>6
    <2>14. EffectiveRole(m) = m.role /\ EffectiveRole(l) = l.role /\ l.role = m.role
      BY <1>5, <2>2, <2>13, RoleOfResult
    <2>15. \A x \in Content : x.kind = "response" => ~Has(l.items, x)
      <3> SUFFICES ASSUME NEW x \in Content, x.kind = "response", Has(l.items, x) PROVE FALSE
        OBVIOUS
      <3>1. In(q, x, Len(f) + 1) BY <2>10 DEF In
      <3>2. PICK n \in 1 .. k : In(s, x, n) /\ q[Len(f) + 1].role = s[n].role
        BY <3>1 DEF MergesCalls, IsCall
      <3>3. l.role = "user" BY <2>10, <3>2, Neighbours
      <3> QED BY <2>14, <3>3, RoleOfResult
    <2>16. \A x \in Content : x.kind = "request" => ~Has(l.items, x)
      <3> SUFFICES ASSUME NEW x \in Content, x.kind = "request", Has(l.items, x) PROVE FALSE
        OBVIOUS
      <3>1. In(s, x, k) BY <2>11, <2>12 DEF In
      <3>2. In(s, Response(x.id), k + 1) BY <3>1, Neighbours
      <3>3. Response(x.id) \in Content /\ Response(x.id).kind = "response"
        BY DEF Response, Content, Kinds
      <3> QED BY <1>1, <2>13, <3>2, <3>3 DEF In
    <2>17. \A x : IsCall(x) /\ Has(its, x) => x \in Content /\ Has(m.items, x)
      <3> SUFFICES ASSUME NEW x, IsCall(x), Has(its, x) PROVE x \in Content /\ Has(m.items, x)
        OBVIOUS
      <3>1. x \in Content BY DEF Has
      <3>2. Has(l.items, x) \/ Has(m.items, x) BY <1>3, <2>3, <2>4, ConcatHas
      <3> QED BY <2>15, <2>16, <3>1, <3>2 DEF IsCall
    <2>18. OneCallEach(r)
      <3> SUFFICES ASSUME NEW j \in DOMAIN r PROVE OneCall(r[j]) BY DEF OneCallEach
      <3>1. CASE j \in 1 .. Len(f) BY <2>10, <3>1 DEF MergesCalls, OneCallEach
      <3>2. CASE j = Len(f) + 1 BY <1>3, <2>5, <2>10, <2>17, <3>2 DEF OneCall
      <3> QED BY <2>10, <3>1, <3>2
    <2>19. ASSUME NEW x \in Content, NEW j, IsCall(x), In(r, x, j)
           PROVE  \E n \in 1 .. (k + 1) :
                    In(s, x, n) /\ (x.kind = "response" => r[j].mid = s[n].mid /\ r[j].role = s[n].role)
      <3>1. CASE j \in 1 .. Len(f)
        <4>1. In(q, x, j) /\ q[j] = r[j] BY <2>10, <2>19, <3>1 DEF In
        <4>2. PICK n \in 1 .. k :
                In(s, x, n) /\ (x.kind = "response" => q[j].mid = s[n].mid /\ q[j].role = s[n].role)
          BY <2>19, <4>1 DEF MergesCalls
        <4> QED BY <1>2, <4>1, <4>2
      <3>2. CASE j = Len(f) + 1
        <4>1. Has(m.items, x) BY <2>5, <2>10, <2>17, <2>19, <3>2 DEF In
        <4> QED BY <1>2, <1>4, <2>13, <2>19, <4>1
      <3>3. j \in DOMAIN r BY <2>19 DEF In
      <3> QED BY <2>10, <3>1, <3>2, <3>3
    <2>20. MergesCalls(r, s, k + 1)
      <3>1. r # <<>> /\ r[Len(r)] = w BY <2>6, <2>10 DEF Longer
      <3>2. \A x \in Content : x.kind = "request" /\ Has(w.items, x) => Has(s[k + 1].items, x)
        BY <1>1, <2>5, <2>17 DEF IsCall
      <3> QED BY <1>1, <1>2, <2>5, <2>14, <2>18, <2>19, <3>1, <3>2 DEF MergesCalls
    <2> QED BY <1>1, <2>7, <2>20
  <1>6. CASE ~(q # <<>> /\ EffectiveRole(Last(q)) = EffectiveRole(m))
    <2>1. PICK r \in Seq(M) : Longer(r, q, m) BY Appended
    <2>2. MergeMessage(q, m) = r BY <1>6, <2>1 DEF MergeMessage, Longer
    <2>3. /\ Len(q) \in Nat /\ DOMAIN r = 1 .. Len(q) + 1 /\ DOMAIN q = 1 .. Len(q)
          /\ Len(r) = Len(q) + 1 /\ r # <<>>
          /\ r[Len(q) + 1] = m /\ \A j \in 1 .. Len(q) : r[j] = q[j]
      BY <2>1 DEF Longer
    <2>4. OneCallEach(r)
      <3> SUFFICES ASSUME NEW j \in DOMAIN r PROVE OneCall(r[j]) BY DEF OneCallEach
      <3>1. CASE j \in 1 .. Len(q) BY <2>3, <3>1 DEF MergesCalls, OneCallEach
      <3>2. CASE j = Len(q) + 1 BY <1>3, <2>3, <3>2
      <3> QED BY <2>3, <3>1, <3>2
    <2>5. ASSUME NEW x \in Content, NEW j, IsCall(x), In(r, x, j)
          PROVE  \E n \in 1 .. (k + 1) :
                   In(s, x, n) /\ (x.kind = "response" => r[j].mid = s[n].mid /\ r[j].role = s[n].role)
      <3>1. CASE j \in 1 .. Len(q)
        <4>1. In(q, x, j) /\ q[j] = r[j] BY <2>3, <2>5, <3>1 DEF In
        <4> QED BY <1>2, <2>5, <4>1 DEF MergesCalls
      <3>2. CASE j = Len(q) + 1 BY <1>1, <1>2, <1>4, <2>3, <2>5, <3>2 DEF In
      <3>3. j \in DOMAIN r BY <2>5 DEF In
      <3> QED BY <2>3, <3>1, <3>2, <3>3
    <2>6. MergesCalls(r, s, k + 1) BY <1>1, <1>2, <2>3, <2>4, <2>5 DEF MergesCalls
    <2> QED BY <1>1, <2>2, <2>6
  <1> QED BY <1>5, <1>6

LEMMA MergedCalls ==
  ASSUME NEW M, IsMessages(M), HasRows(M), NEW s \in Seq(M), DirectlyPaired(s), OneCallEach(s)
  PROVE  From(MergeConsecutive(s), s) /\ OneCallEach(MergeConsecutive(s))
PROOF
  <1> DEFINE n == Len(s)
  <1>1. PICK g \in [0 .. n -> Seq(M)] :
          /\ g[0] = <<>>
          /\ \A k \in 1 .. n : g[k] = MergeMessage(g[k - 1], s[k])
          /\ MergeConsecutive(s) = g[n]
    BY MergeTrace
  <1>2. n \in Nat /\ n \in 0 .. n /\ DOMAIN s = 1 .. n OBVIOUS
  <1> DEFINE T == {k \in 0 .. n : MergesCalls(g[k], s, k)}
  <1>3. 0 \in T
    <2>1. MergesCalls(<<>>, s, 0) BY DEF MergesCalls, OneCallEach, In
    <2> QED BY <1>1, <1>2, <2>1
  <1>4. ASSUME NEW k \in 0 .. n, k # n, k \in T PROVE k + 1 \in T
    <2>1. k + 1 \in 1 .. n /\ (k + 1) - 1 = k /\ k + 1 \in 0 .. n /\ k \in Nat BY <1>4
    <2>2. g[k + 1] = MergeMessage(g[k], s[k + 1]) BY <1>1, <2>1
    <2>3. PICK q \in Seq(M) : q = g[k] BY <1>1
    <2>4. MergesCalls(q, s, k) BY <1>4, <2>3
    <2>5. MergesCalls(MergeMessage(q, s[k + 1]), s, k + 1) BY <2>1, <2>4, MergesCallsStep
    <2> QED BY <2>1, <2>2, <2>3, <2>5
  <1>5. n \in T
    <2> HIDE DEF T
    <2>1. \A k \in 0 .. n : k \in T BY <1>2, <1>3, <1>4, InductionTo
    <2> QED BY <1>2, <2>1
  <1>6. PICK q \in Seq(M) : q = g[n] BY <1>1, <1>2
  <1>7. MergesCalls(q, s, n) BY <1>5, <1>6
  <1>8. From(q, s)
    <2> SUFFICES ASSUME NEW x, NEW j, IsCall(x), In(q, x, j)
                 PROVE  \E m : In(s, x, m) /\ (x.kind = "response" => q[j].mid = s[m].mid)
      BY DEF From
    <2>1. PICK m \in M : m = q[j] BY DEF In
    <2>2. m.items \in Seq(Content) BY DEF IsMessages
    <2>3. x \in Content BY <2>1, <2>2 DEF In, Has
    <2> QED BY <1>7, <2>3 DEF MergesCalls
  <1> QED BY <1>1, <1>6, <1>7, <1>8 DEF MergesCalls

LEMMA DropTrailingFrom ==
  ASSUME NEW M, NEW s \in Seq(M)
  PROVE  From(DropTrailing(s), s) /\ (OneCallEach(s) => OneCallEach(DropTrailing(s)))
PROOF
  <1>1. CASE s # <<>> /\ Last(s).role = "assistant"
    <2>1. PICK f \in Seq(M) : f = Front(s) BY <1>1, FrontPlaces
    <2>2. Len(f) = Len(s) - 1 /\ \A k \in 1 .. Len(s) - 1 : f[k] = s[k] BY <1>1, <2>1, FrontPlaces
    <2>3. DropTrailing(s) = f BY <1>1, <2>1 DEF DropTrailing
    <2>4. DOMAIN s = 1 .. Len(s) /\ DOMAIN f = 1 .. Len(f) OBVIOUS
    <2>5. \A j \in DOMAIN f : j \in DOMAIN s /\ f[j] = s[j] BY <2>2, <2>4
    <2> QED BY <2>3, <2>5 DEF From, In, OneCallEach
  <1>2. CASE ~(s # <<>> /\ Last(s).role = "assistant")
    <2>1. DropTrailing(s) = s BY <1>2 DEF DropTrailing
    <2> QED BY <2>1 DEF From
  <1> QED BY <1>1, <1>2

\* What the model is sent of s
LEMMA FixMessagesCalls ==
  ASSUME NEW M, IsMessages(M), HasRows(M), NEW s \in Seq(M), BeginsWithWords(s),
         \A i \in Nat : AskedOnce(s, i) /\ Near(s, i), OneCallEach(s)
  PROVE  /\ From(FixMessages(s), s) /\ OneCallEach(FixMessages(s))
         /\ \A i \in Nat : (\E j : In(FixMessages(s), Request(i), j)) => Follows(s, i)
PROOF
  <1> DEFINE a == MapSeq(TrimWhitespace, MapSeq(MergeTextContent, s))
             b == RemoveEmptyMessages(a)
             c == CallingDone(b)
             d == RemoveEmptyMessages(c)
             e == MergeConsecutive(d)
             f == DropTrailing(e)
  <1>1. a \in Seq(M) BY TrimmedLike
  <1>2. (\A i \in Nat : AskedOnce(a, i)) /\ BeginsWithWords(a) BY <1>1, TrimmedWords
  <1>3. /\ From(a, s) /\ (\A i \in Nat : Near(a, i)) /\ OneCallEach(a)
        /\ \A i : Follows(a, i) => Follows(s, i)
    <2>1. SamePlaces(a, s) BY <1>1, TrimmedFrom
    <2> HIDE DEF a
    <2> QED BY <2>1, SamePlacesKeep
  <1> HIDE DEF a
  <1>4. b \in Seq(M) /\ (\A i \in Nat : AskedOnce(b, i)) /\ BeginsWithWords(b)
    BY <1>1, <1>2, RemoveEmptyType, RemoveEmptyWords
  <1>5. /\ From(b, a) /\ (\A i \in Nat : Near(b, i)) /\ OneCallEach(b)
        /\ \A i : Follows(b, i) => Follows(a, i)
    BY <1>1, <1>3, PickedFrom DEF RemoveEmptyMessages, Keep
  <1> HIDE DEF b
  <1>6. c \in Seq(M) /\ BeginsWithWords(c) BY <1>4, CallingDoneLike, CallingDoneWords
  <1>7. /\ From(c, b) /\ (\A i \in Nat : Near(c, i)) /\ OneCallEach(c)
        /\ \A i : Follows(c, i) => Follows(b, i)
    <2>1. SamePlaces(c, b) BY <1>4, CallingDoneFrom
    <2> HIDE DEF c
    <2> QED BY <1>5, <2>1, SamePlacesKeep
  <1>8. \A i \in Nat : WellPaired(d, i)
    <2>1. d = FixToolCalling(b) BY DEF FixToolCalling
    <2> HIDE DEF d
    <2> QED BY <1>4, <2>1, FixToolCallingPaired
  <1> HIDE DEF c
  <1>9. d \in Seq(M) /\ BeginsWithWords(d) BY <1>6, RemoveEmptyType, RemoveEmptyWords
  <1>10. /\ From(d, c) /\ (\A i \in Nat : Near(d, i)) /\ OneCallEach(d)
         /\ \A i : Follows(d, i) => Follows(c, i)
    BY <1>6, <1>7, PickedFrom DEF RemoveEmptyMessages, Keep
  <1> HIDE DEF d
  <1>11. DirectlyPaired(d) BY <1>8, <1>10 DEF DirectlyPaired
  <1>12. e \in Seq(M) /\ e # <<>> /\ e[1].role = "user"
    <2>1. 0 \in Nat OBVIOUS
    <2> QED BY <1>8, <1>9, <2>1, Merged, MergedPaired DEF BeginsWithWords
  <1>13. From(e, d) /\ OneCallEach(e) BY <1>9, <1>10, <1>11, MergedCalls
  <1> HIDE DEF e
  <1>14. From(f, e) /\ OneCallEach(f) BY <1>12, <1>13, DropTrailingFrom
  <1>15. FixMessages(s) = PopulateIfEmpty(f)
    <2>1. Head(e) = e[1] BY <1>12
    <2>2. DropLeading(e) = e BY <1>12, <2>1 DEF DropLeading
    <2> QED BY <2>2 DEF FixMessages, FixLeadTrail, FixToolCalling, a, b, c, d, e
  <1> HIDE DEF f
  <1>16. From(f, s) BY <1>3, <1>5, <1>7, <1>10, <1>13, <1>14, FromTransitive
  <1>17. \A x : IsCall(x) => ~Has(Start.items, x)
    <2>1. Start.items = <<Text("text")>> BY DEF Start, Msg
    <2>2. Text("text").kind = "text" BY DEF Text
    <2> QED BY <2>1, <2>2 DEF Has, IsCall
  <1>18. From(<<Start>>, s) /\ OneCallEach(<<Start>>) BY <1>17 DEF From, In, OneCallEach, OneCall
  <1>19. From(FixMessages(s), s) /\ OneCallEach(FixMessages(s))
    BY <1>14, <1>15, <1>16, <1>18 DEF PopulateIfEmpty, Start
  <1>20. From(FixMessages(s), d)
    <2>1. From(f, d) BY <1>13, <1>14, FromTransitive
    <2>2. From(<<Start>>, d) BY <1>17 DEF From, In
    <2> QED BY <1>15, <2>1, <2>2 DEF PopulateIfEmpty, Start
  <1>21. ASSUME NEW i \in Nat, NEW j, In(FixMessages(s), Request(i), j) PROVE Follows(s, i)
    <2>1. IsCall(Request(i)) BY DEF IsCall, Request
    <2>2. PICK m : In(d, Request(i), m) BY <1>20, <1>21, <2>1 DEF From
    <2>3. PICK n : In(d, Response(i), n) /\ m < n BY <1>8, <2>2 DEF WellPaired
    <2>4. Follows(d, i) BY <2>2, <2>3 DEF Follows
    <2> QED BY <1>3, <1>5, <1>7, <1>10, <2>4
  <1> QED BY <1>19, <1>21

-----------------------------------------------------------------------------
(***************************************************************************)
(* Fixing what was fixed.  What comes out of the passes is tidy: no message *)
(* is empty, none holds what its side may not say, and the assistant's     *)
(* texts are trimmed.                                                      *)
(***************************************************************************)
Trimmed(m) == m.role = "assistant" => \A x : Has(m.items, x) => x.kind # "blank"

Fits(m) == /\ Trimmed(m)
           /\ \A x : Has(m.items, x) => ~Misplaced(m.role, x)

Filled(m) == \E x : Has(m.items, x) /\ x.kind # "empty"

Tidy(s) == \A n \in DOMAIN s : Fits(s[n]) /\ Filled(s[n])

LEMMA AnswersFit ==
  ASSUME NEW pending \in SUBSET Nat, NEW t \in Seq(Content), NEW x, Has(AnswerItems(pending, t).items, x)
  PROVE  ~Misplaced("user", x)
PROOF
  <1> DEFINE n == Len(t)
  <1>1. PICK g \in [0 .. n -> Acc] :
          /\ g[0] = [pending |-> pending, items |-> <<>>]
          /\ \A k \in 1 .. n : g[k] = AnswerItem(g[k - 1], t[k])
          /\ AnswerItems(pending, t) = g[n]
    BY AnswerTrace
  <1> DEFINE T == {k \in 0 .. n : Has(g[k].items, x) => ~Misplaced("user", x)}
  <1>3. n \in Nat /\ n \in 0 .. n /\ DOMAIN t = 1 .. n OBVIOUS
  <1>4. 0 \in T BY <1>1, <1>3 DEF Has
  <1>5. ASSUME NEW k \in 0 .. n, k # n, k \in T PROVE k + 1 \in T
    <2>1. k + 1 \in 1 .. n /\ (k + 1) - 1 = k /\ k + 1 \in 0 .. n BY <1>5
    <2>2. PICK acc \in Acc : acc = g[k] BY <1>1
    <2>3. PICK y \in Content : y = t[k + 1] BY <2>1
    <2>4. g[k + 1] = AnswerItem(acc, y) BY <1>1, <2>1, <2>2, <2>3
    <2>5. PICK s \in Seq(Content) : s = acc.items BY DEF Acc
    <2>6. g[k + 1].items = s \/ (g[k + 1].items = Append(s, y) /\ ~Misplaced("user", y))
      BY <2>2, <2>4, <2>5 DEF AnswerItem
    <2>7. Has(Append(s, y), x) <=> Has(s, x) \/ y = x BY AppendHas
    <2>8. Has(s, x) => ~Misplaced("user", x) BY <1>5, <2>2, <2>5
    <2> QED BY <2>1, <2>6, <2>7, <2>8
  <1>6. \A k \in 0 .. n : k \in T
    <2> HIDE DEF T
    <2> QED BY <1>3, <1>4, <1>5, InductionTo
  <1> QED BY <1>1, <1>3, <1>6

\* The pass leaves in a message only what its side may say
LEMMA CallingPassFits ==
  ASSUME NEW M, IsMessages(M), NEW acc \in Calling(M), NEW m \in M, Trimmed(m)
  PROVE  \E w \in M : CallingPass(acc, m).msgs = Append(acc.msgs, w) /\ Fits(w)
PROOF
  <1>1. PICK its \in Seq(Content) : /\ CallingPass(acc, m).msgs = Append(acc.msgs, WithItems(m, its))
                                    /\ \A x : Has(its, x) => Has(m.items, x) /\ ~Misplaced(m.role, x)
    <2>0. acc.pending \in SUBSET Nat /\ m.items \in Seq(Content) BY DEF Calling, IsMessages
    <2>1. CASE m.role = "user"
      <3>1. PICK res \in Acc : res = AnswerItems(acc.pending, m.items) BY <2>0, AnswerItemsType
      <3>2. CallingPass(acc, m).msgs = Append(acc.msgs, WithItems(m, res.items))
        BY <2>1, <3>1 DEF CallingPass
      <3>3. res.items \in Seq(Content) BY DEF Acc
      <3>4. \A x : Has(res.items, x) => Has(m.items, x) /\ ~Misplaced("user", x)
        BY <2>0, <3>1, AnswersFrom, AnswersFit
      <3> QED BY <2>1, <3>2, <3>3, <3>4
    <2>2. CASE m.role = "assistant"
      <3> DEFINE K == {n \in DOMAIN m.items : ~Misplaced("assistant", m.items[n])}
      <3>1. PICK its \in Seq(Content) : its = Picked(m.items, K)
        <4> HIDE DEF K
        <4> QED BY <2>0, PickedPlaces
      <3>2. CallingPass(acc, m).msgs = Append(acc.msgs, WithItems(m, its))
        BY <2>2, <3>1 DEF CallingPass, Keep
      <3>3. \A x : Has(its, x) => \E k \in DOMAIN m.items : k \in K /\ m.items[k] = x
        <4> HIDE DEF K
        <4> QED BY <2>0, <3>1, PickedHas
      <3>4. \A x : Has(its, x) => Has(m.items, x) /\ ~Misplaced("assistant", x) BY <3>3 DEF Has
      <3> QED BY <2>2, <3>2, <3>4
    <2> QED BY <2>1, <2>2 DEF IsMessages
  <1>2. PICK w \in M : w = WithItems(m, its) /\ w.role = m.role /\ w.items = its
    BY LikeItems DEF Like
  <1>3. Fits(w) BY <1>1, <1>2 DEF Fits, Trimmed
  <1> QED BY <1>1, <1>2, <1>3

LEMMA PassedFits ==
  ASSUME NEW M, IsMessages(M), NEW s \in Seq(M), \A n \in DOMAIN s : Trimmed(s[n])
  PROVE  \A j \in 1 .. Len(s) : Fits(Passed(s).msgs[j])
PROOF
  <1> DEFINE l == Len(s)
  <1>1. PICK g \in [0 .. l -> Calling(M)] :
          /\ g[0] = [pending |-> {}, msgs |-> <<>>]
          /\ \A k \in 1 .. l : g[k] = CallingPass(g[k - 1], s[k])
          /\ Passed(s) = g[l]
    BY PassedTrace
  <1>2. l \in Nat /\ l \in 0 .. l OBVIOUS
  <1> DEFINE T == {k \in 0 .. l : Len(g[k].msgs) = k /\ \A j \in 1 .. k : Fits(g[k].msgs[j])}
  <1>3. 0 \in T BY <1>1, <1>2
  <1>4. ASSUME NEW k \in 0 .. l, k # l, k \in T PROVE k + 1 \in T
    <2>1. k + 1 \in 1 .. l /\ (k + 1) - 1 = k /\ k + 1 \in 0 .. l /\ k \in Nat BY <1>4
    <2>2. PICK acc \in Calling(M) : acc = g[k] BY <1>1
    <2>3. PICK m \in M : m = s[k + 1] /\ Trimmed(m) BY <2>1
    <2>4. g[k + 1] = CallingPass(acc, m) BY <1>1, <2>1, <2>2, <2>3
    <2>5. PICK q \in Seq(M) : q = acc.msgs BY DEF Calling
    <2>6. PICK v \in M : g[k + 1].msgs = Append(q, v) /\ Fits(v) BY <2>3, <2>4, <2>5, CallingPassFits
    <2>8. PICK r \in Seq(M) : Longer(r, q, v) BY Appended
    <2>9. g[k + 1].msgs = r BY <2>6, <2>8 DEF Longer
    <2>10. Len(q) = k /\ \A j \in 1 .. k : Fits(q[j]) BY <1>4, <2>2, <2>5
    <2>12. Len(r) = k + 1 /\ \A j \in 1 .. (k + 1) : Fits(r[j])
      <3>1. Len(r) = k + 1 /\ r[k + 1] = v /\ \A j \in 1 .. k : r[j] = q[j] BY <2>8, <2>10 DEF Longer
      <3>2. \A j \in 1 .. (k + 1) : j \in 1 .. k \/ j = k + 1 BY <2>1
      <3> QED BY <2>6, <2>10, <3>1, <3>2
    <2> QED BY <2>1, <2>9, <2>12
  <1>5. \A k \in 0 .. l : k \in T
    <2> HIDE DEF T
    <2> QED BY <1>2, <1>3, <1>4, InductionTo
  <1>6. l \in T
    <2> HIDE DEF T
    <2> QED BY <1>2, <1>5
  <1> QED BY <1>1, <1>6

LEMMA FixToolCallingTidy ==
  ASSUME NEW M, IsMessages(M), NEW s \in Seq(M), \A n \in DOMAIN s : Trimmed(s[n])
  PROVE  Tidy(FixToolCalling(s))
PROOF
  <1>1. PICK pass \in Calling(M) : pass = Passed(s) /\ Len(pass.msgs) = Len(s) BY PassedLike
  <1>2. PICK q \in Seq(M) : q = pass.msgs BY DEF Calling
  <1>3. PICK r \in Seq(M) : r = CallingDone(s) BY CallingDoneLike
  <1>4. r = [k \in DOMAIN q |-> Close(pass, q[k])] BY <1>1, <1>2, <1>3 DEF CallingDone, MapSeq
  <1>5. \A n \in DOMAIN r : Fits(r[n])
    <2> SUFFICES ASSUME NEW n \in DOMAIN r PROVE Fits(r[n]) OBVIOUS
    <2>1. PICK m \in M : m = q[n] /\ r[n] = Close(pass, m) BY <1>4
    <2>2. Fits(m) BY <1>1, <1>2, <1>4, <2>1, PassedFits
    <2>3. CASE m.role = "assistant"
      <3> DEFINE K == {k \in DOMAIN m.items : RequestAnswered(pass.pending, m.items[k])}
      <3>0. m.items \in Seq(Content) BY DEF IsMessages
      <3>1. PICK its \in Seq(Content) : its = Picked(m.items, K)
        <4> HIDE DEF K
        <4> QED BY <3>0, PickedPlaces
      <3>2. r[n] = WithItems(m, its) BY <2>1, <2>3, <3>1 DEF Close, Keep
      <3>3. \A x : Has(its, x) => Has(m.items, x)
        <4> HIDE DEF K
        <4> QED BY <3>0, <3>1, PickedSub
      <3>4. r[n].role = m.role /\ r[n].items = its BY <3>2, LikeItems DEF Like
      <3> QED BY <2>2, <3>3, <3>4 DEF Fits, Trimmed
    <2>4. CASE m.role # "assistant" BY <2>1, <2>2, <2>4 DEF Close
    <2> QED BY <2>3, <2>4
  <1> DEFINE K == {n \in DOMAIN r : ~IsEmptyMessage(r[n])}
  <1>6. RemoveEmptyMessages(r) = Picked(r, K) /\ \A n \in K : ~IsEmptyMessage(r[n])
    BY DEF RemoveEmptyMessages, Keep
  <1> HIDE DEF K
  <1>7. PICK e : Picks(e, Picked(r, K), r, K) BY PickedPlaces
  <1>8. PICK p \in Seq(M) : p = Picked(r, K) BY PickedPlaces
  <1>9. \A j \in DOMAIN p : e[j] \in DOMAIN r /\ e[j] \in K /\ p[j] = r[e[j]] BY <1>7, <1>8 DEF Picks
  <1>10. \A m : ~IsEmptyMessage(m) => Filled(m) BY DEF IsEmptyMessage, Filled, Has
  <1>11. Tidy(p) BY <1>5, <1>6, <1>9, <1>10 DEF Tidy
  <1> QED BY <1>3, <1>6, <1>8, <1>11 DEF FixToolCalling

LEMMA MergeMessageTidy ==
  ASSUME NEW M, IsMessages(M), NEW q \in Seq(M), NEW m \in M, Tidy(q), Fits(m), Filled(m)
  PROVE  Tidy(MergeMessage(q, m))
PROOF
  <1>1. PICK r \in Seq(M) : r = MergeMessage(q, m) /\ KeepsSides(r, q, m) BY MergeMessageRoles
  <1>2. \A x : AddsTo(r, q, m, x) BY <1>1, MergeMessageHas
  <1>3. Len(r) <= Len(q) + 1 BY <1>1, MergeMessageStep
  <1>4. DOMAIN r = 1 .. Len(r) /\ DOMAIN q = 1 .. Len(q) /\ Len(q) \in Nat /\ Len(r) \in Nat OBVIOUS
  <1>5. \A x, j : In(r, x, j) <=> In(q, x, j) \/ (j = Len(r) /\ Has(m.items, x)) BY <1>2 DEF AddsTo
  <1> SUFFICES ASSUME NEW n \in DOMAIN r PROVE Fits(r[n]) /\ Filled(r[n]) BY <1>1 DEF Tidy
  <1>6. n \in DOMAIN q => r[n].role = q[n].role BY <1>1, <1>4 DEF KeepsSides
  <1>7. r[Len(r)].role = m.role BY <1>1 DEF KeepsSides
  <1>8. Fits(r[n])
    <2> SUFFICES ASSUME NEW x, Has(r[n].items, x)
                 PROVE  ~Misplaced(r[n].role, x) /\ (r[n].role = "assistant" => x.kind # "blank")
      BY DEF Fits, Trimmed
    <2>1. In(q, x, n) \/ (n = Len(r) /\ Has(m.items, x)) BY <1>5 DEF In
    <2>2. CASE In(q, x, n)
      <3>1. n \in DOMAIN q /\ Has(q[n].items, x) BY <2>2 DEF In
      <3>2. Fits(q[n]) BY <3>1 DEF Tidy
      <3> QED BY <1>6, <3>1, <3>2 DEF Fits, Trimmed
    <2>3. CASE n = Len(r) /\ Has(m.items, x) BY <1>7, <2>3 DEF Fits, Trimmed
    <2> QED BY <2>1, <2>2, <2>3
  <1>9. Filled(r[n])
    <2>1. CASE n \in DOMAIN q
      <3>1. PICK x : Has(q[n].items, x) /\ x.kind # "empty" BY <2>1 DEF Tidy, Filled
      <3>2. In(r, x, n) BY <1>5, <2>1, <3>1 DEF In
      <3> QED BY <3>1, <3>2 DEF In, Filled
    <2>2. CASE n \notin DOMAIN q
      <3>1. n = Len(r) BY <1>3, <1>4, <2>2
      <3>2. PICK x : Has(m.items, x) /\ x.kind # "empty" BY DEF Filled
      <3>3. In(r, x, n) BY <1>5, <3>1, <3>2
      <3> QED BY <3>2, <3>3 DEF In, Filled
    <2> QED BY <2>1, <2>2
  <1> QED BY <1>8, <1>9

LEMMA MergedTidy ==
  ASSUME NEW M, IsMessages(M), NEW s \in Seq(M), Tidy(s) PROVE Tidy(MergeConsecutive(s))
PROOF
  <1> DEFINE l == Len(s)
  <1>1. PICK g \in [0 .. l -> Seq(M)] :
          /\ g[0] = <<>>
          /\ \A k \in 1 .. l : g[k] = MergeMessage(g[k - 1], s[k])
          /\ MergeConsecutive(s) = g[l]
    BY MergeTrace
  <1>2. l \in Nat /\ l \in 0 .. l /\ DOMAIN s = 1 .. l OBVIOUS
  <1> DEFINE T == {k \in 0 .. l : Tidy(g[k])}
  <1>3. 0 \in T BY <1>1, <1>2 DEF Tidy
  <1>4. ASSUME NEW k \in 0 .. l, k # l, k \in T PROVE k + 1 \in T
    <2>1. k + 1 \in 1 .. l /\ (k + 1) - 1 = k /\ k + 1 \in 0 .. l BY <1>4
    <2>2. PICK q \in Seq(M) : q = g[k] BY <1>1
    <2>3. PICK m \in M : m = s[k + 1] BY <2>1
    <2>4. g[k + 1] = MergeMessage(q, m) BY <1>1, <2>1, <2>2, <2>3
    <2>5. Tidy(q) /\ Fits(m) /\ Filled(m) BY <1>2, <1>4, <2>1, <2>2, <2>3 DEF Tidy
    <2> QED BY <2>1, <2>4, <2>5, MergeMessageTidy
  <1>5. \A k \in 0 .. l : k \in T
    <2> HIDE DEF T
    <2> QED BY <1>2, <1>3, <1>4, InductionTo
  <1> QED BY <1>1, <1>2, <1>5

LEMMA FixLeadTrailTidy ==
  ASSUME NEW M, NEW s \in Seq(M), Tidy(s)
  PROVE  FixLeadTrail(s) \in Seq(M) /\ Tidy(FixLeadTrail(s))
PROOF
  <1>1. ASSUME NEW t \in Seq(M), Tidy(t) PROVE DropLeading(t) \in Seq(M) /\ Tidy(DropLeading(t))
    <2>1. CASE t # <<>> /\ Head(t).role = "assistant"
      <3>0. Tail(t) \in Seq(M) BY <2>1
      <3>1. PICK r \in Seq(M) : r = Tail(t) BY <3>0
      <3>2. /\ DropLeading(t) = r /\ Len(r) = Len(t) - 1 /\ Len(t) \in Nat
            /\ \A k \in 1 .. Len(t) - 1 : r[k] = t[k + 1]
        BY <2>1, <3>1 DEF DropLeading
      <3>3. \A k \in DOMAIN r : k + 1 \in DOMAIN t /\ r[k] = t[k + 1] BY <3>2
      <3> QED BY <1>1, <3>2, <3>3 DEF Tidy
    <2> QED BY <1>1, <2>1 DEF DropLeading
  <1>2. ASSUME NEW t \in Seq(M), Tidy(t) PROVE DropTrailing(t) \in Seq(M) /\ Tidy(DropTrailing(t))
    <2>1. CASE t # <<>> /\ Last(t).role = "assistant"
      <3>1. PICK r \in Seq(M) : r = Front(t) BY <2>1, FrontPlaces
      <3>2. /\ Len(r) = Len(t) - 1 /\ Len(t) \in Nat \ {0}
            /\ \A k \in 1 .. Len(t) - 1 : r[k] = t[k]
        BY <2>1, <3>1, FrontPlaces
      <3>3. DropTrailing(t) = r BY <2>1, <3>1 DEF DropTrailing
      <3>4. \A k \in DOMAIN r : k \in DOMAIN t /\ r[k] = t[k] BY <3>2
      <3> QED BY <1>2, <3>3, <3>4 DEF Tidy
    <2> QED BY <1>2, <2>1 DEF DropTrailing
  <1>3. PICK t \in Seq(M) : t = DropLeading(s) /\ Tidy(t) BY <1>1
  <1> QED BY <1>2, <1>3 DEF FixLeadTrail

LEMMA PreparedTrimmed ==
  ASSUME NEW M, IsMessages(M), NEW m \in M PROVE Trimmed(Prepared(m))
PROOF
  <1>1. PICK r \in M : r = MergeTextContent(m) BY MergeTextLike DEF Like
  <1> DEFINE Trim(item) == IF item.kind = "blank" THEN Text("empty") ELSE item
             its == [n \in DOMAIN r.items |-> Trim(r.items[n])]
  <1>2. TrimWhitespace(r) = IF r.role = "assistant" THEN WithItems(r, its) ELSE r
    BY DEF TrimWhitespace, MapSeq
  <1>3. r.items \in Seq(Content) BY DEF IsMessages
  <1>4. \A item \in Content : Trim(item) \in Content /\ Trim(item).kind # "blank"
    BY DEF Content, Text, NoId, Kinds, Texts
  <1>5. its \in Seq(Content) /\ \A n \in DOMAIN its : its[n].kind # "blank"
    <2> HIDE DEF Trim
    <2> QED BY <1>3, <1>4
  <1> HIDE DEF its
  <1>6. r.role = "assistant" => TrimWhitespace(r).items = its BY <1>2, <1>5, LikeItems
  <1>7. TrimWhitespace(r).role = r.role BY TrimLike DEF Like
  <1>8. Trimmed(TrimWhitespace(r)) BY <1>5, <1>6, <1>7 DEF Trimmed, Has
  <1> QED BY <1>1, <1>8 DEF Prepared

\* What comes out of the passes is tidy
LEMMA FixMessagesTidy ==
  ASSUME NEW M, IsMessages(M), NEW s \in Seq(M) PROVE Tidy(FixMessages(s))
PROOF
  <1> DEFINE a == MapSeq(TrimWhitespace, MapSeq(MergeTextContent, s))
             b == RemoveEmptyMessages(a)
             c == FixToolCalling(b)
             d == MergeConsecutive(c)
             f == FixLeadTrail(d)
  <1>1. a \in Seq(M) BY TrimmedLike
  <1>2. \A n \in DOMAIN a : Trimmed(a[n])
    <2> DEFINE r == [n \in DOMAIN s |-> MergeTextContent(s[n])]
    <2>1. a = [n \in DOMAIN r |-> TrimWhitespace(r[n])] BY DEF MapSeq
    <2>2. \A n \in DOMAIN a : n \in DOMAIN s /\ a[n] = Prepared(s[n]) BY <2>1 DEF Prepared
    <2> HIDE DEF a
    <2> QED BY <2>2, PreparedTrimmed
  <1>3. FixMessages(s) = PopulateIfEmpty(f) BY DEF FixMessages
  <1> HIDE DEF a
  <1>4. b \in Seq(M) BY <1>1, RemoveEmptyType
  <1>5. \A n \in DOMAIN b : Trimmed(b[n])
    <2> DEFINE K == {n \in DOMAIN a : ~IsEmptyMessage(a[n])}
    <2>1. b = Picked(a, K) BY DEF RemoveEmptyMessages, Keep
    <2> HIDE DEF K, b
    <2>2. PICK e : Picks(e, b, a, K) BY <1>1, <2>1, PickedPlaces
    <2>3. DOMAIN a = 1 .. Len(a) /\ DOMAIN b = 1 .. Len(b) BY <1>1, <1>4
    <2>4. \A j \in DOMAIN b : e[j] \in DOMAIN a /\ b[j] = a[e[j]] BY <2>2, <2>3 DEF Picks
    <2> QED BY <1>2, <2>4
  <1> HIDE DEF b
  <1>6. c \in Seq(M) /\ Tidy(c) BY <1>4, <1>5, FixToolCallingType, FixToolCallingTidy
  <1> HIDE DEF c
  <1>7. d \in Seq(M) /\ Tidy(d) BY <1>6, Merged, MergedTidy
  <1> HIDE DEF d
  <1>8. f \in Seq(M) /\ Tidy(f) BY <1>7, FixLeadTrailTidy
  <1> HIDE DEF f
  <1>9. Tidy(<<Start>>)
    <2>1. Start.role = "user" /\ Start.items = <<Text("text")>> BY DEF Start, Msg
    <2>2. \A x : Has(Start.items, x) <=> x = Text("text") BY <2>1 DEF Has
    <2>3. Text("text").kind = "text" BY DEF Text
    <2>4. Fits(Start) /\ Filled(Start)
      <3>1. Filled(Start) BY <2>2, <2>3 DEF Filled
      <3>2. Fits(Start) BY <2>1, <2>2, <2>3 DEF Fits, Trimmed, Misplaced
      <3> QED BY <3>1, <3>2
    <2> QED BY <2>4 DEF Tidy
  <1> QED BY <1>3, <1>8, <1>9 DEF PopulateIfEmpty, Start

-----------------------------------------------------------------------------
(***************************************************************************)
(* On tidy messages whose calls are paired and whose sides alternate, each *)
(* pass does nothing.  Exact tells that messages are records.              *)
(***************************************************************************)
Exact(M) == \A m \in M : WithItems(m, m.items) = m

LEMMA SameSequence ==
  ASSUME NEW S, NEW s \in Seq(S), NEW t \in Seq(S), Len(s) = Len(t),
         \A k \in 1 .. Len(s) : s[k] = t[k]
  PROVE  s = t
PROOF OBVIOUS

LEMMA PickedAll ==
  ASSUME NEW S, NEW s \in Seq(S), NEW K, \A k \in DOMAIN s : k \in K
  PROVE  Picked(s, K) = s
PROOF
  <1> DEFINE l == Len(s)
  <1>1. PICK g \in [0 .. l -> Seq(S)] : IsPicking(g, s, K) /\ Picked(s, K) = g[l] BY PickedRun
  <1>2. l \in Nat /\ l \in 0 .. l /\ DOMAIN s = 1 .. l OBVIOUS
  <1> DEFINE T == {k \in 0 .. l : Len(g[k]) = k /\ \A j \in 1 .. k : g[k][j] = s[j]}
  <1>3. 0 \in T BY <1>1, <1>2 DEF IsPicking
  <1>4. ASSUME NEW k \in 0 .. l, k # l, k \in T PROVE k + 1 \in T
    <2>1. k + 1 \in 1 .. l /\ (k + 1) - 1 = k /\ k + 1 \in 0 .. l /\ k \in Nat BY <1>4
    <2>2. PICK q \in Seq(S) : q = g[k] BY <1>1
    <2>3. PICK y \in S : y = s[k + 1] BY <2>1
    <2>4. PICK r \in Seq(S) : Longer(r, q, y) BY Appended
    <2>5. g[k + 1] = r BY <1>1, <1>2, <2>1, <2>2, <2>3, <2>4 DEF IsPicking, Longer
    <2>6. Len(r) = k + 1 /\ r[k + 1] = s[k + 1] /\ \A j \in 1 .. k : r[j] = s[j]
      BY <1>4, <2>2, <2>3, <2>4 DEF Longer
    <2>7. \A j \in 1 .. (k + 1) : j \in 1 .. k \/ j = k + 1 BY <2>1
    <2> QED BY <2>1, <2>5, <2>6, <2>7
  <1>5. \A k \in 0 .. l : k \in T
    <2> HIDE DEF T
    <2> QED BY <1>2, <1>3, <1>4, InductionTo
  <1>6. PICK p \in Seq(S) : p = g[l] BY <1>1, <1>2
  <1>7. Len(p) = l /\ \A j \in 1 .. l : p[j] = s[j] BY <1>2, <1>5, <1>6
  <1> QED BY <1>1, <1>6, <1>7, SameSequence

LEMMA RemoveEmptySame ==
  ASSUME NEW M, NEW s \in Seq(M), Tidy(s) PROVE RemoveEmptyMessages(s) = s
PROOF
  <1> DEFINE K == {n \in DOMAIN s : ~IsEmptyMessage(s[n])}
  <1>1. \A k \in DOMAIN s : k \in K BY DEF Tidy, Filled, Has, IsEmptyMessage
  <1>2. RemoveEmptyMessages(s) = Picked(s, K) BY DEF RemoveEmptyMessages, Keep
  <1> HIDE DEF K
  <1> QED BY <1>1, <1>2, PickedAll

LEMMA TrimSame ==
  ASSUME NEW M, IsMessages(M), Exact(M), NEW m \in M, Trimmed(m) PROVE TrimWhitespace(m) = m
PROOF
  <1> DEFINE Trim(item) == IF item.kind = "blank" THEN Text("empty") ELSE item
             its == [n \in DOMAIN m.items |-> Trim(m.items[n])]
  <1>1. TrimWhitespace(m) = IF m.role = "assistant" THEN WithItems(m, its) ELSE m
    BY DEF TrimWhitespace, MapSeq
  <1>2. PICK t \in Seq(Content) : t = m.items BY DEF IsMessages
  <1>3. ASSUME m.role = "assistant" PROVE its = m.items
    <2>1. \A n \in DOMAIN t : t[n].kind # "blank" BY <1>2, <1>3 DEF Trimmed, Has
    <2>2. \A n \in DOMAIN t : Trim(t[n]) = t[n] BY <2>1
    <2>3. [n \in DOMAIN t |-> Trim(t[n])] = [n \in DOMAIN t |-> t[n]] BY <2>2
    <2> HIDE DEF Trim
    <2>4. [n \in DOMAIN t |-> t[n]] = t OBVIOUS
    <2> QED BY <1>2, <2>3, <2>4
  <1> HIDE DEF its
  <1> QED BY <1>1, <1>3 DEF Exact

\* Every response is waited for: all items stay
LEMMA AnswersAll ==
  ASSUME NEW pending \in SUBSET Nat, NEW t \in Seq(Content),
         \A x : Has(t, x) => ~Misplaced("user", x),
         \A i \in Nat : Once(t, Response(i)) /\ (Has(t, Response(i)) => i \in pending)
  PROVE  /\ AnswerItems(pending, t).items = t
         /\ \A i \in Nat : i \in AnswerItems(pending, t).pending <=> i \in pending /\ ~Has(t, Response(i))
PROOF
  <1> DEFINE n == Len(t)
  <1>1. PICK g \in [0 .. n -> Acc] :
          /\ g[0] = [pending |-> pending, items |-> <<>>]
          /\ \A k \in 1 .. n : g[k] = AnswerItem(g[k - 1], t[k])
          /\ AnswerItems(pending, t) = g[n]
    BY AnswerTrace
  <1> DEFINE Good(k) ==
               /\ Len(g[k].items) = k /\ \A j \in 1 .. k : g[k].items[j] = t[j]
               /\ \A i \in Nat : i \in g[k].pending <=> i \in pending /\ ~\E j \in 1 .. k : t[j] = Response(i)
             T == {k \in 0 .. n : Good(k)}
  <1>2. n \in Nat /\ n \in 0 .. n /\ DOMAIN t = 1 .. n OBVIOUS
  <1>3. 0 \in T BY <1>1, <1>2
  <1>4. ASSUME NEW k \in 0 .. n, k # n, k \in T PROVE k + 1 \in T
    <2>1. k + 1 \in 1 .. n /\ (k + 1) - 1 = k /\ k + 1 \in 0 .. n /\ k \in Nat BY <1>4
    <2>2. PICK acc \in Acc : acc = g[k] BY <1>1
    <2>3. PICK y \in Content : y = t[k + 1] BY <2>1
    <2>4. g[k + 1] = AnswerItem(acc, y) BY <1>1, <2>1, <2>2, <2>3
    <2>5. PICK s \in Seq(Content) : s = acc.items BY DEF Acc
    <2>6. Len(s) = k /\ \A j \in 1 .. k : s[j] = t[j] BY <1>4, <2>2, <2>5
    <2>7. \A i \in Nat : i \in acc.pending <=> i \in pending /\ ~\E j \in 1 .. k : t[j] = Response(i)
      BY <1>4, <2>2
    <2>8. \A j : j \in 1 .. (k + 1) <=> j \in 1 .. k \/ j = k + 1 BY <2>1
    <2>9. Has(t, y) BY <1>2, <2>1, <2>3 DEF Has
    <2>10. ~Misplaced("user", y) BY <2>9
    <2>11. y.kind = "response" => y.id \in acc.pending
      <3> SUFFICES ASSUME y.kind = "response" PROVE y.id \in acc.pending OBVIOUS
      <3>1. PICK i \in Nat : i = y.id /\ y = Response(i) BY ContentKinds
      <3>2. i \in pending BY <2>9, <3>1
      <3>3. \A j \in 1 .. k : t[j] # Response(i)
        <4>1. \A j \in 1 .. k : j \in DOMAIN t /\ k + 1 \in DOMAIN t /\ j # k + 1 BY <1>2, <2>1
        <4> QED BY <2>3, <3>1, <4>1 DEF Once
      <3> QED BY <2>7, <3>1, <3>2, <3>3
    <2>12. PICK r \in Seq(Content) : Longer(r, s, y) BY Appended
    <2>13. g[k + 1] = [pending |-> IF y.kind = "response" THEN acc.pending \ {y.id} ELSE acc.pending,
                       items |-> r]
      BY <2>4, <2>5, <2>10, <2>11, <2>12 DEF AnswerItem, Longer
    <2>14. Len(g[k + 1].items) = k + 1 /\ \A j \in 1 .. (k + 1) : g[k + 1].items[j] = t[j]
      <3>1. g[k + 1].items = r BY <2>13
      <3>2. Len(r) = k + 1 /\ r[k + 1] = t[k + 1] /\ \A j \in 1 .. k : r[j] = t[j]
        BY <2>3, <2>6, <2>12 DEF Longer
      <3> QED BY <2>8, <3>1, <3>2
    <2>15. \A i \in Nat : i \in g[k + 1].pending <=>
                            i \in pending /\ ~\E j \in 1 .. (k + 1) : t[j] = Response(i)
      <3> SUFFICES ASSUME NEW i \in Nat
                   PROVE  i \in g[k + 1].pending <=>
                            i \in pending /\ ~\E j \in 1 .. (k + 1) : t[j] = Response(i)
        OBVIOUS
      <3>1. y = Response(i) <=> y.kind = "response" /\ y.id = i BY ContentKinds
      <3>2. i \in g[k + 1].pending <=> i \in acc.pending /\ y # Response(i)
        <4>1. g[k + 1].pending = IF y.kind = "response" THEN acc.pending \ {y.id} ELSE acc.pending
          BY <2>13
        <4> QED BY <3>1, <4>1
      <3> QED BY <2>3, <2>7, <2>8, <3>2
    <2>16. Good(k + 1) BY <2>14, <2>15
    <2> HIDE DEF Good
    <2> QED BY <2>1, <2>16
  <1>5. \A k \in 0 .. n : k \in T
    <2> HIDE DEF T
    <2> QED BY <1>2, <1>3, <1>4, InductionTo
  <1>6. Good(n)
    <2>1. n \in T
      <3> HIDE DEF T
      <3> QED BY <1>2, <1>5
    <2> HIDE DEF Good
    <2> QED BY <2>1
  <1>7. PICK p \in Seq(Content) : p = g[n].items BY <1>1, <1>2 DEF Acc
  <1>8. p = t BY <1>6, <1>7, SameSequence
  <1> QED BY <1>1, <1>2, <1>6, <1>7, <1>8 DEF Has

\* The calls that were asked for in the first k messages and not answered there
Unanswered(s, k, i) ==
  (\E m \in 1 .. k : Has(s[m].items, Request(i))) /\ ~\E n \in 1 .. k : Has(s[n].items, Response(i))

\* The pass so far has left the first k messages as they are
Unchanged(acc, s, k) ==
  /\ Len(acc.msgs) = k /\ \A j \in 1 .. k : acc.msgs[j] = s[j]
  /\ \A i \in Nat : i \in acc.pending <=> Unanswered(s, k, i)

LEMMA WaitedFor ==
  ASSUME NEW M, NEW s \in Seq(M), NEW k \in Nat, NEW i \in Nat, k + 1 \in 1 .. Len(s), WellPaired(s, i)
  PROVE  /\ Has(s[k + 1].items, Request(i)) => s[k + 1].role = "assistant"
         /\ Has(s[k + 1].items, Response(i)) => s[k + 1].role = "user" /\ Unanswered(s, k, i)
         /\ Unanswered(s, k + 1, i) <=>
              \/ Unanswered(s, k, i) /\ ~Has(s[k + 1].items, Response(i))
              \/ Has(s[k + 1].items, Request(i))
PROOF
  <1>0. DOMAIN s = 1 .. Len(s) /\ \A n \in 1 .. k : n \in DOMAIN s /\ n # k + 1 /\ ~(k + 1 < n) OBVIOUS
  <1>1. \A j : j \in 1 .. (k + 1) <=> j \in 1 .. k \/ j = k + 1 OBVIOUS
  <1>2. Unanswered(s, k + 1, i) <=>
          /\ (\E m \in 1 .. k : Has(s[m].items, Request(i))) \/ Has(s[k + 1].items, Request(i))
          /\ ~(\E n \in 1 .. k : Has(s[n].items, Response(i))) /\ ~Has(s[k + 1].items, Response(i))
    BY <1>1 DEF Unanswered
  <1>3. Has(s[k + 1].items, Request(i)) => s[k + 1].role = "assistant" BY <1>0 DEF WellPaired, In
  <1>4. ASSUME Has(s[k + 1].items, Response(i)) PROVE Unanswered(s, k, i) /\ s[k + 1].role = "user"
    <2>1. In(s, Response(i), k + 1) BY <1>0, <1>4 DEF In
    <2>2. PICK m : In(s, Request(i), m) /\ m < k + 1 BY <2>1 DEF WellPaired
    <2>3. m \in 1 .. k BY <1>0, <2>2 DEF In
    <2>4. \A n \in 1 .. k : ~(n \in DOMAIN s /\ Has(s[n].items, Response(i)))
      BY <1>0, <2>1 DEF WellPaired, OnceIn, In
    <2> QED BY <1>0, <2>1, <2>2, <2>3, <2>4 DEF WellPaired, Unanswered, In
  <1>5. ASSUME Has(s[k + 1].items, Request(i)), NEW n \in 1 .. k, Has(s[n].items, Response(i)) PROVE FALSE
    <2>1. In(s, Request(i), k + 1) /\ In(s, Response(i), n) BY <1>0, <1>5 DEF In
    <2>2. PICK m : In(s, Request(i), m) /\ m < n BY <2>1 DEF WellPaired
    <2>3. m = k + 1 BY <2>1, <2>2 DEF WellPaired, OnceIn
    <2> QED BY <1>0, <2>2, <2>3
  <1> QED BY <1>2, <1>3, <1>4, <1>5 DEF Unanswered

LEMMA CallingPassSame ==
  ASSUME NEW M, IsMessages(M), Exact(M), NEW s \in Seq(M), Tidy(s), \A i \in Nat : WellPaired(s, i),
         NEW k \in Nat, k + 1 \in 1 .. Len(s), NEW acc \in Calling(M), Unchanged(acc, s, k)
  PROVE  Unchanged(CallingPass(acc, s[k + 1]), s, k + 1)
PROOF
  <1>1. PICK m \in M : m = s[k + 1] /\ Fits(m) /\ m.role \in {"user", "assistant"}
    BY DEF Tidy, IsMessages
  <1>2. m.items \in Seq(Content) /\ acc.pending \in SUBSET Nat BY DEF IsMessages, Calling
  <1>3. PICK q \in Seq(M) : q = acc.msgs BY DEF Calling
  <1>4. PICK r \in Seq(M) : Longer(r, q, m) BY Appended
  <1>5. Len(r) = k + 1 /\ \A j \in 1 .. (k + 1) : r[j] = s[j]
    <2>1. Len(r) = k + 1 /\ r[k + 1] = s[k + 1] /\ \A j \in 1 .. k : r[j] = s[j]
      BY <1>1, <1>3, <1>4 DEF Unchanged, Longer
    <2>2. \A j : j \in 1 .. (k + 1) <=> j \in 1 .. k \/ j = k + 1 OBVIOUS
    <2> QED BY <2>1, <2>2
  <1>6. ASSUME NEW i \in Nat
        PROVE  /\ Has(m.items, Request(i)) => m.role = "assistant"
               /\ Has(m.items, Response(i)) => m.role = "user" /\ i \in acc.pending
               /\ Unanswered(s, k + 1, i) <=>
                    \/ i \in acc.pending /\ ~Has(m.items, Response(i))
                    \/ Has(m.items, Request(i))
    BY <1>1, WaitedFor DEF Unchanged
  <1>7. \A i \in Nat : Once(m.items, Response(i)) BY <1>1 DEF WellPaired, OnceIn
  <1>8. CASE m.role = "user"
    <2>1. PICK res \in Acc : res = AnswerItems(acc.pending, m.items) BY <1>2, AnswerItemsType
    <2>2. \A x : Has(m.items, x) => ~Misplaced("user", x) BY <1>1, <1>8 DEF Fits
    <2>3. PICK t \in Seq(Content) : t = m.items BY <1>2
    <2>4. /\ AnswerItems(acc.pending, t).items = t
          /\ \A i \in Nat : i \in AnswerItems(acc.pending, t).pending <=> i \in acc.pending /\ ~Has(t, Response(i))
      BY <1>2, <1>6, <1>7, <2>2, <2>3, AnswersAll
    <2>5. CallingPass(acc, m) = [pending |-> res.pending, msgs |-> r]
      <3>1. WithItems(m, res.items) = m BY <2>1, <2>3, <2>4 DEF Exact
      <3> QED BY <1>3, <1>4, <1>8, <2>1, <3>1 DEF CallingPass, Longer
    <2>6. \A i \in Nat : i \in res.pending <=> Unanswered(s, k + 1, i)
      BY <1>6, <1>8, <2>1, <2>3, <2>4
    <2> QED BY <1>1, <1>5, <2>5, <2>6 DEF Unchanged
  <1>9. CASE m.role = "assistant"
    <2> DEFINE K == {n \in DOMAIN m.items : ~Misplaced("assistant", m.items[n])}
    <2>1. Picked(m.items, K) = m.items
      <3>1. \A n \in DOMAIN m.items : n \in K BY <1>1, <1>9 DEF Fits, Has
      <3> HIDE DEF K
      <3> QED BY <1>2, <3>1, PickedAll
    <2>2. CallingPass(acc, m) = [pending |-> acc.pending \cup Asked(m), msgs |-> r]
      <3>1. WithItems(m, Picked(m.items, K)) = m BY <2>1 DEF Exact
      <3>2. CallingPass(acc, m) = [pending |-> acc.pending \cup Asked(m),
                                   msgs |-> Append(acc.msgs, WithItems(m, Picked(m.items, K)))]
        BY <1>9 DEF CallingPass, Keep
      <3> HIDE DEF K
      <3> QED BY <1>3, <1>4, <3>1, <3>2 DEF Longer
    <2>3. \A i \in Nat : i \in Asked(m) <=> Has(m.items, Request(i))
      <3>1. \A n \in DOMAIN m.items : m.items[n] \in Content BY <1>2
      <3> QED BY <3>1, ContentKinds DEF Asked, Has
    <2>4. \A i \in Nat : i \in acc.pending \cup Asked(m) <=> Unanswered(s, k + 1, i)
      BY <1>6, <1>9, <2>3
    <2> QED BY <1>1, <1>5, <2>2, <2>4 DEF Unchanged
  <1> QED BY <1>1, <1>8, <1>9

LEMMA PassedSame ==
  ASSUME NEW M, IsMessages(M), Exact(M), NEW s \in Seq(M), Tidy(s), \A i \in Nat : WellPaired(s, i)
  PROVE  Passed(s).msgs = s /\ \A i \in Nat : i \notin Passed(s).pending
PROOF
  <1> DEFINE l == Len(s)
  <1>1. PICK g \in [0 .. l -> Calling(M)] :
          /\ g[0] = [pending |-> {}, msgs |-> <<>>]
          /\ \A k \in 1 .. l : g[k] = CallingPass(g[k - 1], s[k])
          /\ Passed(s) = g[l]
    BY PassedTrace
  <1>2. l \in Nat /\ l \in 0 .. l /\ DOMAIN s = 1 .. l OBVIOUS
  <1> DEFINE T == {k \in 0 .. l : Unchanged(g[k], s, k)}
  <1>3. 0 \in T
    <2>1. \A i \in Nat : ~Unanswered(s, 0, i) BY DEF Unanswered
    <2>2. g[0].msgs = <<>> /\ g[0].pending = {} BY <1>1
    <2>3. Unchanged(g[0], s, 0) BY <2>1, <2>2 DEF Unchanged
    <2> QED BY <1>2, <2>3
  <1>4. ASSUME NEW k \in 0 .. l, k # l, k \in T PROVE k + 1 \in T
    <2>1. k + 1 \in 1 .. l /\ (k + 1) - 1 = k /\ k + 1 \in 0 .. l /\ k \in Nat BY <1>4
    <2>2. PICK acc \in Calling(M) : acc = g[k] BY <1>1
    <2>3. g[k + 1] = CallingPass(acc, s[k + 1]) BY <1>1, <2>1, <2>2
    <2> QED BY <1>4, <2>1, <2>2, <2>3, CallingPassSame
  <1>5. \A k \in 0 .. l : k \in T
    <2> HIDE DEF T
    <2> QED BY <1>2, <1>3, <1>4, InductionTo
  <1>6. PICK p \in Calling(M) : p = g[l] /\ Unchanged(p, s, l) BY <1>1, <1>2, <1>5
  <1>7. PICK q \in Seq(M) : q = p.msgs BY DEF Calling
  <1>8. q = s BY <1>6, <1>7, SameSequence DEF Unchanged
  <1>9. \A i \in Nat : ~Unanswered(s, l, i)
    <2> SUFFICES ASSUME NEW i \in Nat, Unanswered(s, l, i) PROVE FALSE OBVIOUS
    <2>1. PICK m \in 1 .. l : In(s, Request(i), m) BY <1>2 DEF Unanswered, In
    <2>2. PICK n : In(s, Response(i), n) BY <2>1 DEF WellPaired
    <2> QED BY <1>2, <2>2 DEF Unanswered, In
  <1> QED BY <1>1, <1>6, <1>7, <1>8, <1>9 DEF Unchanged

LEMMA CallingDoneSame ==
  ASSUME NEW M, IsMessages(M), Exact(M), NEW s \in Seq(M), Tidy(s), \A i \in Nat : WellPaired(s, i)
  PROVE  CallingDone(s) = s
PROOF
  <1>1. PICK pass \in Calling(M) : pass = Passed(s) BY PassedLike
  <1>2. pass.msgs = s /\ \A i \in Nat : i \notin pass.pending BY <1>1, PassedSame
  <1>3. PICK r \in Seq(M) : r = CallingDone(s) BY CallingDoneLike
  <1>4. r = [k \in DOMAIN s |-> Close(pass, s[k])] BY <1>1, <1>2, <1>3 DEF CallingDone, MapSeq
  <1>5. ASSUME NEW m \in M PROVE Close(pass, m) = m
    <2> DEFINE K == {k \in DOMAIN m.items : RequestAnswered(pass.pending, m.items[k])}
    <2>1. PICK t \in Seq(Content) : t = m.items BY DEF IsMessages
    <2>2. \A k \in DOMAIN t : k \in K
      <3>0. \A k \in DOMAIN t : t[k] \in Content BY <2>1
      <3>1. \A k \in DOMAIN t : t[k].id \in Nat BY <3>0, ContentKinds
      <3> QED BY <1>2, <2>1, <3>1 DEF RequestAnswered
    <2>3. Close(pass, m) = IF m.role = "assistant" THEN WithItems(m, Picked(m.items, K)) ELSE m
      BY DEF Close, Keep
    <2> HIDE DEF K
    <2>4. Picked(t, K) = t BY <2>2, PickedAll
    <2> QED BY <2>1, <2>3, <2>4 DEF Exact
  <1>6. Len(r) = Len(s) /\ \A k \in 1 .. Len(s) : r[k] = s[k] BY <1>3, <1>4, <1>5
  <1> QED BY <1>3, <1>6, SameSequence

LEMMA MergedSame ==
  ASSUME NEW M, IsMessages(M), NEW s \in Seq(M), Alternate(s) PROVE MergeConsecutive(s) = s
PROOF
  <1> DEFINE l == Len(s)
  <1>1. PICK g \in [0 .. l -> Seq(M)] :
          /\ g[0] = <<>>
          /\ \A k \in 1 .. l : g[k] = MergeMessage(g[k - 1], s[k])
          /\ MergeConsecutive(s) = g[l]
    BY MergeTrace
  <1>2. l \in Nat /\ l \in 0 .. l /\ DOMAIN s = 1 .. l OBVIOUS
  <1> DEFINE T == {k \in 0 .. l : Len(g[k]) = k /\ \A j \in 1 .. k : g[k][j] = s[j]}
  <1>3. 0 \in T BY <1>1, <1>2
  <1>4. ASSUME NEW k \in 0 .. l, k # l, k \in T PROVE k + 1 \in T
    <2>1. k + 1 \in 1 .. l /\ (k + 1) - 1 = k /\ k + 1 \in 0 .. l /\ k \in Nat BY <1>4
    <2>2. PICK q \in Seq(M) : q = g[k] BY <1>1
    <2>3. PICK m \in M : m = s[k + 1] BY <2>1
    <2>4. g[k + 1] = MergeMessage(q, m) BY <1>1, <2>1, <2>2, <2>3
    <2>5. Len(q) = k /\ \A j \in 1 .. k : q[j] = s[j] BY <1>4, <2>2
    <2>6. ~(q # <<>> /\ EffectiveRole(Last(q)) = EffectiveRole(m))
      <3> SUFFICES ASSUME q # <<>> PROVE EffectiveRole(Last(q)) # EffectiveRole(m) OBVIOUS
      <3>0. Last(q) = q[Len(q)] /\ Len(q) \in Nat \ {0} BY FrontPlaces
      <3>1. Last(q) = q[k] /\ k \in 1 .. k BY <2>5, <3>0
      <3>2. k \in 1 .. Len(s) - 1 BY <2>1, <3>1
      <3>3. Last(q) = s[k] BY <2>5, <3>1
      <3> QED BY <2>3, <3>2, <3>3 DEF Alternate
    <2>7. PICK r \in Seq(M) : Longer(r, q, m) BY Appended
    <2>8. g[k + 1] = r BY <2>4, <2>6, <2>7 DEF MergeMessage, Longer
    <2>9. Len(r) = k + 1 /\ r[k + 1] = s[k + 1] /\ \A j \in 1 .. k : r[j] = s[j]
      BY <2>3, <2>5, <2>7 DEF Longer
    <2>10. \A j \in 1 .. (k + 1) : j \in 1 .. k \/ j = k + 1 BY <2>1
    <2> QED BY <2>1, <2>8, <2>9, <2>10
  <1>5. \A k \in 0 .. l : k \in T
    <2> HIDE DEF T
    <2> QED BY <1>2, <1>3, <1>4, InductionTo
  <1>6. PICK p \in Seq(M) : p = g[l] BY <1>1, <1>2
  <1>7. Len(p) = l /\ \A j \in 1 .. l : p[j] = s[j] BY <1>2, <1>5, <1>6
  <1> QED BY <1>1, <1>6, <1>7, SameSequence

LEMMA JoinItemKinds ==
  ASSUME NEW done \in Seq(Content), NEW y \in Content, NEW k \in {"text", "blank"}
  PROVE  /\ (\E x : Has(JoinItem(done, y), x) /\ x.kind = k) =>
               y.kind = k \/ \E x : Has(done, x) /\ x.kind = k
         /\ k = "text" /\ (y.kind = k \/ \E x : Has(done, x) /\ x.kind = k) =>
               \E x : Has(JoinItem(done, y), x) /\ x.kind = k
PROOF
  <1>1. CASE done # <<>> /\ IsText(y) /\ IsText(Last(done))
    <2>1. PICK f \in Seq(Content) : f = Front(done) BY <1>1, LastType
    <2>2. PICK z \in Content : z = Last(done) BY <1>1, LastType
    <2>3. done = Append(f, z) BY <1>1, <2>1, <2>2, LastType
    <2>4. PICK w : w = Text(Joined(Last(done).kind, y.kind)) OBVIOUS
    <2>5. w.kind = Joined(z.kind, y.kind) BY <2>2, <2>4 DEF Text
    <2>6. (w.kind = k => z.kind = k \/ y.kind = k) /\ (k = "text" /\ (z.kind = k \/ y.kind = k) => w.kind = k)
      <3>1. PICK a, b, c : a = z.kind /\ b = y.kind /\ c = w.kind OBVIOUS
      <3>2. c = IF "text" \in {a, b} THEN "text" ELSE IF "blank" \in {a, b} THEN "blank" ELSE "empty"
        BY <2>5, <3>1 DEF Joined
      <3> QED BY <3>1, <3>2
    <2>7. JoinItem(done, y) = Append(f, w) BY <1>1, <2>1, <2>4 DEF JoinItem
    <2>8. w \in Content
      <3>1. Append(f, w) \in Seq(Content) BY <2>7, JoinType
      <3>2. Append(f, w)[Len(f) + 1] = w /\ Len(Append(f, w)) = Len(f) + 1 BY <2>1
      <3> QED BY <3>1, <3>2
    <2>9. \A x : /\ Has(done, x) <=> Has(f, x) \/ z = x
                 /\ Has(Append(f, w), x) <=> Has(f, x) \/ w = x
      BY <2>3, <2>8, AppendHas
    <2> QED BY <2>6, <2>7, <2>9
  <1>2. CASE ~(done # <<>> /\ IsText(y) /\ IsText(Last(done)))
    <2>1. JoinItem(done, y) = Append(done, y) BY <1>2 DEF JoinItem
    <2>2. \A x : Has(Append(done, y), x) <=> Has(done, x) \/ y = x BY AppendHas
    <2> QED BY <2>1, <2>2
  <1> QED BY <1>1, <1>2

\* Joining texts makes no blank, and leaves words where there were some
LEMMA JoinedKinds ==
  ASSUME NEW t \in Seq(Content), NEW k \in {"text", "blank"}
  PROVE  /\ (\E x : Has(JoinedItems(t), x) /\ x.kind = k) => \E x : Has(t, x) /\ x.kind = k
         /\ k = "text" /\ (\E x : Has(t, x) /\ x.kind = k) => \E x : Has(JoinedItems(t), x) /\ x.kind = k
PROOF
  <1> DEFINE n == Len(t)
             Of(s) == \E x : Has(s, x) /\ x.kind = k
             UpTo(j) == \E l \in 1 .. j : t[l].kind = k
  <1>1. PICK g \in [0 .. n -> Seq(Content)] :
          /\ g[0] = <<>>
          /\ \A j \in 1 .. n : g[j] = JoinItem(g[j - 1], t[j])
          /\ JoinedItems(t) = g[n]
    BY JoinTrace
  <1> DEFINE T == {j \in 0 .. n : (Of(g[j]) => UpTo(j)) /\ (k = "text" /\ UpTo(j) => Of(g[j]))}
  <1>2. n \in Nat /\ n \in 0 .. n /\ DOMAIN t = 1 .. n OBVIOUS
  <1>3. 0 \in T BY <1>1, <1>2 DEF Has
  <1>4. ASSUME NEW j \in 0 .. n, j # n, j \in T PROVE j + 1 \in T
    <2>1. j + 1 \in 1 .. n /\ (j + 1) - 1 = j /\ j + 1 \in 0 .. n /\ j \in Nat BY <1>4
    <2>2. PICK q \in Seq(Content) : q = g[j] BY <1>1
    <2>3. PICK y \in Content : y = t[j + 1] BY <2>1
    <2>4. g[j + 1] = JoinItem(q, y) BY <1>1, <2>1, <2>2, <2>3
    <2>5. (Of(q) => UpTo(j)) /\ (k = "text" /\ UpTo(j) => Of(q)) BY <1>4, <2>2
    <2>6. UpTo(j + 1) <=> UpTo(j) \/ y.kind = k
      <3>1. \A l : l \in 1 .. (j + 1) <=> l \in 1 .. j \/ l = j + 1 BY <2>1
      <3> QED BY <2>3, <3>1
    <2>7. /\ Of(g[j + 1]) => y.kind = k \/ Of(q)
          /\ k = "text" /\ (y.kind = k \/ Of(q)) => Of(g[j + 1])
      BY <2>4, JoinItemKinds
    <2> HIDE DEF Of, UpTo
    <2> QED BY <2>1, <2>5, <2>6, <2>7
  <1>5. \A j \in 0 .. n : j \in T
    <2> HIDE DEF T
    <2> QED BY <1>2, <1>3, <1>4, InductionTo
  <1>6. Of(t) <=> UpTo(n) BY <1>2 DEF Has
  <1>7. (Of(g[n]) => UpTo(n)) /\ (k = "text" /\ UpTo(n) => Of(g[n]))
    <2> HIDE DEF Of, UpTo
    <2> QED BY <1>2, <1>5
  <1> QED BY <1>1, <1>6, <1>7

\* Joining the texts of a tidy message leaves it tidy, on its side
LEMMA MergeTextTidy ==
  ASSUME NEW M, IsMessages(M), NEW m \in M, Fits(m), Filled(m)
  PROVE  /\ Fits(MergeTextContent(m)) /\ Filled(MergeTextContent(m))
         /\ EffectiveRole(MergeTextContent(m)) = EffectiveRole(m)
         /\ \A x : IsCall(x) =>
              /\ Has(MergeTextContent(m).items, x) <=> Has(m.items, x)
              /\ Once(m.items, x) => Once(MergeTextContent(m).items, x)
PROOF
  <1>1. CASE m.role = "assistant"
    <2>1. PICK t \in Seq(Content) : t = m.items BY DEF IsMessages
    <2>2. PICK r \in M : r = MergeTextContent(m) BY MergeTextLike DEF Like
    <2>3. r.role = m.role /\ r.items = JoinedItems(t)
      <3>1. r = WithItems(m, JoinedItems(t)) BY <1>1, <2>1, <2>2 DEF MergeTextContent
      <3>2. JoinedItems(t) \in Seq(Content) BY JoinedType
      <3> QED BY <3>1, <3>2, LikeItems DEF Like
    <2>4. \A x : ~IsText(x) => /\ Has(r.items, x) <=> Has(t, x)
                               /\ Once(t, x) => Once(r.items, x)
      BY <2>3, JoinedHas
    <2>5. \A x : Has(r.items, x) => x.kind # "blank"
      <3>1. (\E x : Has(JoinedItems(t), x) /\ x.kind = "blank") => \E x : Has(t, x) /\ x.kind = "blank"
        BY JoinedKinds
      <3>2. \A x : Has(t, x) => x.kind # "blank" BY <1>1, <2>1 DEF Fits, Trimmed
      <3> QED BY <2>3, <3>1, <3>2
    <2>6. \A x : Has(r.items, x) => ~Misplaced(r.role, x)
      <3> SUFFICES ASSUME NEW x, Has(r.items, x), x.kind = "response" PROVE FALSE
        BY <1>1, <2>3 DEF Misplaced
      <3>1. Has(t, x) BY <2>4 DEF IsText, Texts
      <3> QED BY <1>1, <2>1, <3>1 DEF Fits, Misplaced
    <2>7. Filled(r)
      <3>1. PICK x : Has(t, x) /\ x.kind # "empty" BY <2>1 DEF Filled
      <3>2. x.kind # "blank" BY <1>1, <2>1, <3>1 DEF Fits, Trimmed
      <3>3. CASE x.kind = "text"
        <4>1. \E z : Has(JoinedItems(t), z) /\ z.kind = "text" BY <3>1, <3>3, JoinedKinds
        <4> QED BY <2>3, <4>1 DEF Filled
      <3>4. CASE x.kind # "text"
        <4>1. ~IsText(x) BY <3>1, <3>2, <3>4 DEF IsText, Texts
        <4> QED BY <2>4, <3>1, <4>1 DEF Filled
      <3> QED BY <3>3, <3>4
    <2>8. EffectiveRole(r) = EffectiveRole(m) BY <1>1, <2>3 DEF EffectiveRole
    <2>9. \A x : IsCall(x) => ~IsText(x) BY DEF IsCall, IsText, Texts
    <2> QED BY <2>1, <2>2, <2>4, <2>5, <2>6, <2>7, <2>8, <2>9 DEF Fits, Trimmed
  <1>2. CASE m.role # "assistant" BY <1>2 DEF MergeTextContent
  <1> QED BY <1>1, <1>2

LEMMA TextsJoined ==
  ASSUME NEW M, IsMessages(M), NEW s \in Seq(M), Tidy(s), Alternate(s), EndsWithUser(s),
         NEW t, t = MapSeq(MergeTextContent, s)
  PROVE  /\ t \in Seq(M) /\ Len(t) = Len(s) /\ Tidy(t) /\ Alternate(t) /\ EndsWithUser(t)
         /\ \A i : WellPaired(s, i) => WellPaired(t, i)
PROOF
  <1>1. t = [n \in DOMAIN s |-> MergeTextContent(s[n])] BY DEF MapSeq
  <1>2. \A n \in DOMAIN s : Like(M, t[n], s[n]) BY <1>1, MergeTextLike
  <1>3. t \in Seq(M) /\ Len(t) = Len(s) /\ DOMAIN t = DOMAIN s BY <1>1, <1>2 DEF Like
  <1>4. \A n \in DOMAIN s :
          /\ s[n] \in M /\ Fits(t[n]) /\ Filled(t[n]) /\ EffectiveRole(t[n]) = EffectiveRole(s[n])
          /\ t[n].role = s[n].role
          /\ \A x : IsCall(x) => /\ Has(t[n].items, x) <=> Has(s[n].items, x)
                                 /\ Once(s[n].items, x) => Once(t[n].items, x)
    BY <1>1, <1>2, MergeTextTidy DEF Tidy, Like
  <1>5. Tidy(t) BY <1>3, <1>4 DEF Tidy
  <1>6. Alternate(t)
    <2>1. \A n \in 1 .. Len(s) - 1 : n \in DOMAIN s /\ n + 1 \in DOMAIN s OBVIOUS
    <2> QED BY <1>3, <1>4, <2>1 DEF Alternate
  <1>7. EndsWithUser(t)
    <2>1. 1 \in DOMAIN s /\ Len(s) \in DOMAIN s /\ s # <<>> /\ Head(s) = s[1] BY DEF EndsWithUser
    <2>2. Last(s) = s[Len(s)] BY <2>1, FrontPlaces
    <2>3. t # <<>> /\ Head(t) = t[1] BY <1>3, <2>1
    <2>4. Last(t) = t[Len(s)] BY <1>3, <2>3, FrontPlaces
    <2> QED BY <1>4, <2>1, <2>2, <2>3, <2>4 DEF EndsWithUser
  <1>8. ASSUME NEW i, WellPaired(s, i) PROVE WellPaired(t, i)
    <2>1. IsCall(Request(i)) /\ IsCall(Response(i)) BY DEF IsCall, Request, Response
    <2>2. \A n : /\ In(t, Request(i), n) <=> In(s, Request(i), n)
                 /\ In(t, Response(i), n) <=> In(s, Response(i), n)
      BY <1>3, <1>4, <2>1 DEF In
    <2>3. \A n \in DOMAIN t : /\ Once(s[n].items, Request(i)) => Once(t[n].items, Request(i))
                              /\ Once(s[n].items, Response(i)) => Once(t[n].items, Response(i))
      BY <1>3, <1>4, <2>1
    <2>4. OnceIn(t, Request(i)) /\ OnceIn(t, Response(i)) BY <1>3, <1>8, <2>2, <2>3 DEF OnceIn, WellPaired
    <2>5. \A n : In(s, Request(i), n) \/ In(s, Response(i), n) => t[n].role = s[n].role BY <1>4 DEF In
    <2> QED BY <1>8, <2>2, <2>4, <2>5 DEF WellPaired
  <1> QED BY <1>3, <1>5, <1>6, <1>7, <1>8

\* What came out of the passes goes through them as it is, but for its texts
LEMMA FixMessagesSame ==
  ASSUME NEW M, IsMessages(M), Exact(M), NEW s \in Seq(M), Tidy(s), Alternate(s), EndsWithUser(s),
         \A i \in Nat : WellPaired(s, i)
  PROVE  FixMessages(s) = MapSeq(MergeTextContent, s)
PROOF
  <1>1. PICK t \in Seq(M) : t = MapSeq(MergeTextContent, s) BY TextsJoined
  <1>2. Tidy(t) /\ Alternate(t) /\ EndsWithUser(t) /\ \A i \in Nat : WellPaired(t, i)
    BY <1>1, TextsJoined
  <1>3. MapSeq(TrimWhitespace, t) = t
    <2>1. PICK r : r = MapSeq(TrimWhitespace, t) OBVIOUS
    <2>2. r = [n \in DOMAIN t |-> TrimWhitespace(t[n])] BY <2>1 DEF MapSeq
    <2>3. \A n \in DOMAIN t : TrimWhitespace(t[n]) = t[n] BY <1>2, TrimSame DEF Tidy, Fits
    <2>4. r = [n \in DOMAIN t |-> t[n]] BY <2>2, <2>3
    <2> QED BY <2>1, <2>4
  <1>4. RemoveEmptyMessages(t) = t BY <1>2, RemoveEmptySame
  <1>5. FixToolCalling(t) = t BY <1>2, <1>4, CallingDoneSame DEF FixToolCalling
  <1>6. MergeConsecutive(t) = t BY <1>2, MergedSame
  <1>7. DropLeading(t) = t BY <1>2 DEF DropLeading, EndsWithUser
  <1>8. DropTrailing(t) = t BY <1>2 DEF DropTrailing, EndsWithUser
  <1>9. PopulateIfEmpty(t) = t BY <1>2 DEF PopulateIfEmpty, EndsWithUser
  <1> QED BY <1>1, <1>3, <1>4, <1>5, <1>6, <1>7, <1>8, <1>9 DEF FixMessages, FixLeadTrail

\* g[k] is what Visible sees of the first k messages
IsSeeing(g, M, s) ==
  /\ g \in [0 .. Len(s) -> Seq(M)]
  /\ \A k \in 1 .. Len(s) : g[k] = IF s[k].visible THEN Append(g[k - 1], s[k]) ELSE g[k - 1]

\* It stays as more messages are looked at
LEMMA VisibleGrows ==
  ASSUME NEW M, NEW s \in Seq(M), NEW g, IsSeeing(g, M, s)
  PROVE  \A k \in 0 .. Len(s) : Len(g[k]) <= Len(g[Len(s)])
                                /\ \A j \in 1 .. Len(g[k]) : g[Len(s)][j] = g[k][j]
PROOF
  <1> DEFINE l == Len(s)
             Starts(p, q) == Len(p) <= Len(q) /\ \A j \in 1 .. Len(p) : q[j] = p[j]
             T == {k \in 0 .. l : \A n \in 0 .. k : Starts(g[n], g[k])}
  <1>0. /\ g \in [0 .. l -> Seq(M)]
        /\ \A k \in 1 .. l : g[k] = IF s[k].visible THEN Append(g[k - 1], s[k]) ELSE g[k - 1]
    BY DEF IsSeeing
  <1>1. l \in Nat /\ l \in 0 .. l OBVIOUS
  <1>2. \A k \in 0 .. l : Starts(g[k], g[k])
    <2> SUFFICES ASSUME NEW k \in 0 .. l PROVE Starts(g[k], g[k]) OBVIOUS
    <2>1. PICK p \in Seq(M) : p = g[k] BY <1>0
    <2>2. Starts(p, p) OBVIOUS
    <2> HIDE DEF Starts
    <2> QED BY <2>1, <2>2
  <1>3. 0 \in T
    <2>1. \A n \in 0 .. 0 : n = 0 OBVIOUS
    <2> HIDE DEF Starts
    <2> QED BY <1>1, <1>2, <2>1
  <1>4. ASSUME NEW k \in 0 .. l, k # l, k \in T PROVE k + 1 \in T
    <2>1. k + 1 \in 1 .. l /\ (k + 1) - 1 = k /\ k + 1 \in 0 .. l /\ k \in Nat BY <1>4
    <2>2. PICK q \in Seq(M) : q = g[k] BY <1>0
    <2>3. PICK m \in M : m = s[k + 1] BY <2>1
    <2>4. PICK r \in Seq(M) : Longer(r, q, m) BY Appended
    <2>5. g[k + 1] \in {q, r} BY <1>0, <2>1, <2>2, <2>3, <2>4 DEF Longer
    <2>6. \A p \in Seq(M) : Starts(p, q) => Starts(p, r)
      <3> SUFFICES ASSUME NEW p \in Seq(M), Starts(p, q) PROVE Starts(p, r) OBVIOUS
      <3>1. Len(p) \in Nat /\ Len(p) <= Len(q) /\ Len(q) \in Nat OBVIOUS
      <3>2. \A j \in 1 .. Len(p) : j \in 1 .. Len(q) BY <3>1
      <3> QED BY <2>4, <3>1, <3>2 DEF Longer
    <2>7. \A n \in 0 .. (k + 1) : n \in 0 .. l /\ (n \in 0 .. k \/ n = k + 1) BY <2>1
    <2>8. \A n \in 0 .. k : Starts(g[n], q) /\ g[n] \in Seq(M)
      <3>1. \A n \in 0 .. k : n \in 0 .. l /\ Starts(g[n], g[k])
        <4> HIDE DEF Starts
        <4> QED BY <1>4
      <3> HIDE DEF Starts
      <3> QED BY <1>0, <2>2, <3>1
    <2>9. \A n \in 0 .. (k + 1) : Starts(g[n], g[k + 1])
      <3> HIDE DEF Starts
      <3> QED BY <1>2, <2>1, <2>5, <2>6, <2>7, <2>8
    <2> HIDE DEF Starts
    <2> QED BY <2>1, <2>9
  <1>5. \A k \in 0 .. l : k \in T
    <2> HIDE DEF T
    <2> QED BY <1>1, <1>3, <1>4, InductionTo
  <1>6. \A k \in 0 .. l : Starts(g[k], g[l])
    <2> HIDE DEF Starts
    <2> QED BY <1>1, <1>5
  <1> QED BY <1>6

\* Placing the visible messages with their texts joined joins the texts there
LEMMA PlacedTexts ==
  ASSUME NEW M, IsMessages(M), NEW s \in Seq(M)
  PROVE  Placed(MapSeq(MergeTextContent, Visible(s)), s).msgs
           = [n \in DOMAIN s |-> IF s[n].visible THEN MergeTextContent(s[n]) ELSE s[n]]
PROOF
  <1> DEFINE l == Len(s)
             TextsOf(m) == IF m.visible THEN MergeTextContent(m) ELSE m
  <1>1. PICK v \in Seq(M) : v = Visible(s) BY VisibleType
  <1>2. PICK fixed : fixed = MapSeq(MergeTextContent, v) OBVIOUS
  <1>3. fixed = [n \in DOMAIN v |-> MergeTextContent(v[n])] BY <1>2 DEF MapSeq
  <1>4. \A m \in M : MergeTextContent(m) \in M BY MergeTextLike DEF Like
  <1>5. fixed \in Seq(M) /\ DOMAIN fixed = 1 .. Len(v) BY <1>3, <1>4
  <1>6. PICK g : IsPlacing(g, M, fixed, s) /\ Placed(fixed, s) = g[l] BY <1>5, PlacedTrace
  <1>7. PICK c \in [0 .. l -> Seq(M)] :
          /\ c[0] = <<>>
          /\ \A k \in 1 .. l : c[k] = IF s[k].visible THEN Append(c[k - 1], s[k]) ELSE c[k - 1]
          /\ v = c[l]
    BY <1>1, VisibleRun
  <1>8. \A k \in 0 .. l : Len(c[k]) <= Len(v) /\ \A j \in 1 .. Len(c[k]) : v[j] = c[k][j]
    <2>1. IsSeeing(c, M, s) BY <1>7 DEF IsSeeing
    <2> QED BY <1>7, <2>1, VisibleGrows
  <1>9. l \in Nat /\ l \in 0 .. l /\ DOMAIN s = 1 .. l OBVIOUS
  <1> DEFINE Good(k) == /\ g[k].idx = Len(c[k]) /\ Len(g[k].msgs) = k
                        /\ \A j \in 1 .. k : g[k].msgs[j] = TextsOf(s[j])
             T == {k \in 0 .. l : Good(k)}
  <1>10. 0 \in T
    <2>1. g[0] = [idx |-> 0, msgs |-> <<>>] BY <1>6 DEF IsPlacing
    <2> QED BY <1>7, <1>9, <2>1
  <1>11. ASSUME NEW k \in 0 .. l, k # l, k \in T PROVE k + 1 \in T
    <2>1. k + 1 \in 1 .. l /\ (k + 1) - 1 = k /\ k + 1 \in 0 .. l /\ k \in Nat BY <1>11
    <2>2. PICK acc \in Placing(M) : acc = g[k] BY <1>6 DEF IsPlacing
    <2>3. PICK m \in M : m = s[k + 1] BY <2>1
    <2>4. g[k + 1] = PlaceFixed(fixed, acc, m) BY <1>6, <2>1, <2>2, <2>3 DEF IsPlacing
    <2>5. PICK p \in Seq(M) : p = acc.msgs BY DEF Placing
    <2>6. PICK q \in Seq(M) : q = c[k] BY <1>7
    <2>7. acc.idx = Len(q) /\ Len(p) = k /\ \A j \in 1 .. k : p[j] = TextsOf(s[j])
      <3>1. Good(k) BY <1>11
      <3> HIDE DEF TextsOf
      <3> QED BY <2>2, <2>5, <2>6, <3>1
    <2>8. \A w \in M : w = TextsOf(m) /\ g[k + 1].msgs = Append(p, w) /\ g[k + 1].idx = Len(c[k + 1]) => Good(k + 1)
      <3> SUFFICES ASSUME NEW w \in M, w = TextsOf(m), g[k + 1].msgs = Append(p, w),
                          g[k + 1].idx = Len(c[k + 1])
                   PROVE  Good(k + 1)
        OBVIOUS
      <3> HIDE DEF TextsOf
      <3>1. PICK r \in Seq(M) : Longer(r, p, w) BY Appended
      <3>2. g[k + 1].msgs = r BY <3>1 DEF Longer
      <3>3. Len(r) = k + 1 /\ r[k + 1] = TextsOf(s[k + 1]) /\ \A j \in 1 .. k : r[j] = TextsOf(s[j])
        BY <2>3, <2>7, <3>1 DEF Longer
      <3>4. \A j \in 1 .. (k + 1) : j \in 1 .. k \/ j = k + 1 BY <2>1
      <3> QED BY <3>2, <3>3, <3>4
    <2>9. CASE ~m.visible
      <3>1. g[k + 1] = [acc EXCEPT !.msgs = Append(p, m)] BY <2>4, <2>5, <2>9 DEF PlaceFixed
      <3>2. g[k + 1].msgs = Append(p, m) /\ g[k + 1].idx = acc.idx BY <3>1 DEF Placing
      <3>3. c[k + 1] = q BY <1>7, <2>1, <2>3, <2>6, <2>9
      <3>4. Good(k + 1) BY <2>7, <2>8, <2>9, <3>2, <3>3
      <3> HIDE DEF Good
      <3> QED BY <2>1, <3>4
    <2>10. CASE m.visible
      <3>1. PICK r \in Seq(M) : Longer(r, q, m) BY Appended
      <3>2. c[k + 1] = r BY <1>7, <2>1, <2>3, <2>6, <2>10, <3>1 DEF Longer
      <3>3. Len(q) + 1 \in 1 .. Len(v) /\ v[Len(q) + 1] = m
        <4>1. Len(r) <= Len(v) /\ \A j \in 1 .. Len(r) : v[j] = r[j] BY <1>8, <2>1, <3>2
        <4>2. Len(r) = Len(q) + 1 /\ Len(q) + 1 \in 1 .. Len(r) /\ r[Len(q) + 1] = m BY <3>1 DEF Longer
        <4> QED BY <4>1, <4>2
      <3>4. fixed[Len(q) + 1] = MergeTextContent(m) BY <1>3, <3>3
      <3>5. g[k + 1] = [idx |-> Len(q) + 1, msgs |-> Append(p, MergeTextContent(m))]
        BY <1>5, <2>4, <2>5, <2>7, <2>10, <3>3, <3>4 DEF PlaceFixed
      <3>6. g[k + 1].idx = Len(c[k + 1]) BY <3>1, <3>2, <3>5 DEF Longer
      <3>7. Good(k + 1) BY <1>4, <2>8, <2>10, <3>5, <3>6
      <3> HIDE DEF Good
      <3> QED BY <2>1, <3>7
    <2> QED BY <2>9, <2>10
  <1>12. \A k \in 0 .. l : k \in T
    <2> HIDE DEF T
    <2> QED BY <1>9, <1>10, <1>11, InductionTo
  <1>13. Good(l)
    <2>1. l \in T
      <3> HIDE DEF T
      <3> QED BY <1>9, <1>12
    <2> HIDE DEF Good
    <2> QED BY <2>1
  <1>14. PICK p \in Seq(M) : p = g[l].msgs BY <1>6, <1>9 DEF IsPlacing, Placing
  <1>15. p = [n \in DOMAIN s |-> TextsOf(s[n])]
    <2>1. Len(p) = l /\ \A j \in 1 .. l : p[j] = TextsOf(s[j]) BY <1>13, <1>14
    <2> HIDE DEF TextsOf
    <2>2. DOMAIN p = DOMAIN s BY <1>9, <2>1
    <2>3. p = [n \in DOMAIN p |-> p[n]] OBVIOUS
    <2> QED BY <1>9, <2>1, <2>2, <2>3
  <1> QED BY <1>1, <1>2, <1>6, <1>14, <1>15

\* Fixing a fixed conversation joins texts, and does nothing else
LEMMA FixedAgain ==
  ASSUME NEW M, IsMessages(M), Exact(M), Start \in M, NEW s \in Seq(M), BeginsWithWords(Visible(s)),
         \A i \in Nat : AskedOnce(Visible(s), i)
  PROVE  Fixed(Fixed(s)) = [n \in DOMAIN Fixed(s) |->
                              IF Fixed(s)[n].visible THEN MergeTextContent(Fixed(s)[n]) ELSE Fixed(s)[n]]
PROOF
  <1>0. M \cup {Start} = M OBVIOUS
  <1>1. PICK v \in Seq(M) : v = Visible(s) BY VisibleType
  <1>2. v # <<>> BY <1>1 DEF BeginsWithWords
  <1>3. PICK once \in Seq(M) : once = Fixed(s) BY <1>0, <1>1, <1>2, FixedVisible
  <1>4. PICK w \in Seq(M) : w = FixMessages(v) BY <1>0, FixMessagesEnds
  <1>5. Visible(once) = w /\ EndsWithUser(w) /\ Alternate(w) BY <1>1, <1>2, <1>3, <1>4, FixedVisible
  <1>6. Tidy(w) BY <1>4, FixMessagesTidy
  <1>7. \A i \in Nat : WellPaired(w, i) BY <1>1, <1>4, FixMessagesPaired
  <1>8. FixMessages(w) = MapSeq(MergeTextContent, w) BY <1>5, <1>6, <1>7, FixMessagesSame
  <1>9. Fixed(once) = Placed(MapSeq(MergeTextContent, Visible(once)), once).msgs BY <1>5, <1>8 DEF Fixed
  <1> QED BY <1>3, <1>9, PlacedTexts

-----------------------------------------------------------------------------
(***************************************************************************)
(* Calls that have their result: they come through all the passes, and     *)
(* what remains of a message with the call or the result in it has it.     *)
(***************************************************************************)
RepliedAt(s, i, m, n) ==
  /\ m \in DOMAIN s /\ n \in DOMAIN s /\ m < n
  /\ s[m].role = "assistant" /\ s[n].role = "user"
  /\ \A k : In(s, Request(i), k) <=> k = m
  /\ \A k : In(s, Response(i), k) <=> k = n

Replied(s, i) == \E m, n : RepliedAt(s, i, m, n)

LEMMA AnswerTaken ==
  ASSUME NEW pending \in SUBSET Nat, NEW t \in Seq(Content), NEW i, Has(t, Response(i))
  PROVE  i \notin AnswerItems(pending, t).pending
PROOF
  <1> DEFINE n == Len(t)
  <1>1. PICK g \in [0 .. n -> Acc] :
          /\ g[0] = [pending |-> pending, items |-> <<>>]
          /\ \A k \in 1 .. n : g[k] = AnswerItem(g[k - 1], t[k])
          /\ AnswerItems(pending, t) = g[n]
    BY AnswerTrace
  <1>2. n \in Nat /\ n \in 0 .. n /\ DOMAIN t = 1 .. n OBVIOUS
  <1>3. PICK j \in 1 .. n : t[j] = Response(i) BY <1>2 DEF Has
  <1> DEFINE T == {k \in 0 .. n : j <= k => i \notin g[k].pending}
  <1>4. 0 \in T BY <1>2, <1>3
  <1>5. ASSUME NEW k \in 0 .. n, k # n, k \in T PROVE k + 1 \in T
    <2>1. k + 1 \in 1 .. n /\ (k + 1) - 1 = k /\ k + 1 \in 0 .. n BY <1>5
    <2>2. PICK acc \in Acc : acc = g[k] BY <1>1
    <2>3. PICK y \in Content : y = t[k + 1] BY <2>1
    <2>4. g[k + 1] = AnswerItem(acc, y) BY <1>1, <2>1, <2>2, <2>3
    <2>5. AnswerItem(acc, y).pending \in {acc.pending, acc.pending \ {y.id}} BY DEF AnswerItem
    <2>6. ASSUME y = Response(i) PROVE i \notin AnswerItem(acc, y).pending
      <3>1. y.kind = "response" /\ y.id = i BY <2>6, ContentKinds
      <3>2. ~Misplaced("user", y) BY <3>1 DEF Misplaced
      <3> QED BY <3>1, <3>2 DEF AnswerItem
    <2>7. CASE j <= k
      <3>1. i \notin acc.pending BY <1>5, <2>2, <2>7
      <3> QED BY <2>1, <2>4, <2>5, <3>1
    <2>8. CASE ~(j <= k)
      <3>1. j <= k + 1 => j = k + 1 BY <1>3, <2>1, <2>8
      <3>2. j = k + 1 => y = Response(i) BY <1>3, <2>3
      <3> QED BY <2>1, <2>4, <2>6, <3>1, <3>2
    <2> QED BY <2>7, <2>8
  <1>6. \A k \in 0 .. n : k \in T
    <2> HIDE DEF T
    <2> QED BY <1>2, <1>4, <1>5, InductionTo
  <1> QED BY <1>1, <1>2, <1>3, <1>6

\* After k messages, of which the m-th asks and the n-th answers
Awaited(acc, i, m, n, k) ==
  /\ m <= k => \E j : In(acc.msgs, Request(i), j)
  /\ m <= k /\ k < n => i \in acc.pending
  /\ n <= k => i \notin acc.pending

LEMMA AwaitedUser ==
  ASSUME NEW M, IsMessages(M), NEW acc \in Calling(M), NEW s \in Seq(M), NEW i, NEW m, NEW n,
         RepliedAt(s, i, m, n), NEW k \in Nat, k + 1 \in DOMAIN s, Awaited(acc, i, m, n, k),
         s[k + 1].role = "user"
  PROVE  Awaited(CallingPass(acc, s[k + 1]), i, m, n, k + 1)
PROOF
  <1>1. acc.pending \in SUBSET Nat /\ acc.msgs \in Seq(M) BY DEF Calling
  <1>2. PICK w \in M : w = s[k + 1] OBVIOUS
  <1>3. PICK a \in Seq(Content) : a = w.items BY DEF IsMessages
  <1>4. PICK res \in Acc : res = AnswerItems(acc.pending, a) BY <1>1, AnswerItemsType
  <1>5. res.items \in Seq(Content) BY DEF Acc
  <1>6. PICK v \in M : v = WithItems(w, res.items) BY <1>5, LikeItems DEF Like
  <1>7. PICK q \in Seq(M) : q = acc.msgs BY <1>1
  <1>8. CallingPass(acc, w) = [pending |-> res.pending, msgs |-> Append(q, v)]
    BY <1>2, <1>3, <1>4, <1>6, <1>7 DEF CallingPass
  <1>9. PICK r : r = CallingPass(acc, w) OBVIOUS
  <1>10. r.pending = res.pending /\ r.msgs = Append(q, v) BY <1>8, <1>9
  <1>11. m \in Nat /\ n \in Nat /\ m < n /\ k + 1 # m
    <2>1. DOMAIN s = 1 .. Len(s) OBVIOUS
    <2> QED BY <2>1 DEF RepliedAt
  <1>12. m <= k + 1 => \E j : In(r.msgs, Request(i), j)
    <2>1. \A j : In(q, Request(i), j) => In(Append(q, v), Request(i), j) BY InAppend
    <2> QED BY <1>7, <1>10, <1>11, <2>1 DEF Awaited
  <1>13. Settled(res, acc.pending, i) BY <1>1, <1>4, AnswersSettled
  <1>14. Has(res.items, Response(i)) => k + 1 = n
    <2>1. Has(res.items, Response(i)) => Has(a, Response(i)) BY <1>1, <1>4, AnswersFrom
    <2>2. Has(a, Response(i)) => In(s, Response(i), k + 1) BY <1>2, <1>3 DEF In
    <2> QED BY <2>1, <2>2 DEF RepliedAt
  <1>15. m <= k + 1 /\ k + 1 < n => i \in r.pending
    <2>1. m <= k + 1 /\ k + 1 < n => i \in acc.pending BY <1>11 DEF Awaited
    <2> QED BY <1>10, <1>11, <1>13, <1>14, <2>1 DEF Settled
  <1>16. n <= k + 1 => i \notin r.pending
    <2>1. n <= k => i \notin r.pending BY <1>10, <1>13 DEF Awaited, Settled
    <2>2. n = k + 1 => i \notin r.pending
      <3>1. n = k + 1 => Has(a, Response(i)) BY <1>2, <1>3 DEF RepliedAt, In
      <3> QED BY <1>1, <1>4, <1>10, <3>1, AnswerTaken
    <2> QED BY <1>11, <2>1, <2>2
  <1> QED BY <1>2, <1>9, <1>12, <1>15, <1>16 DEF Awaited

LEMMA AwaitedAssistant ==
  ASSUME NEW M, IsMessages(M), NEW acc \in Calling(M), NEW s \in Seq(M), NEW i, NEW m, NEW n,
         RepliedAt(s, i, m, n), NEW k \in Nat, k + 1 \in DOMAIN s, Awaited(acc, i, m, n, k),
         s[k + 1].role = "assistant"
  PROVE  Awaited(CallingPass(acc, s[k + 1]), i, m, n, k + 1)
PROOF
  <1>1. acc.pending \in SUBSET Nat /\ acc.msgs \in Seq(M) BY DEF Calling
  <1>2. PICK w \in M : w = s[k + 1] OBVIOUS
  <1>3. PICK a \in Seq(Content) : a = w.items BY DEF IsMessages
  <1> DEFINE K == {l \in DOMAIN a : ~Misplaced("assistant", a[l])}
  <1>4. PICK p \in Seq(Content) : p = Picked(a, K) BY PickedPlaces
  <1>5. Has(p, Request(i)) <=> Has(a, Request(i))
    <2>1. \A x : Has(p, x) <=> \E l \in DOMAIN a : l \in K /\ a[l] = x BY <1>4, PickedHas
    <2>2. \A l \in DOMAIN a : a[l] = Request(i) => l \in K BY DEF Misplaced, Request
    <2> HIDE DEF K
    <2> QED BY <2>1, <2>2 DEF Has
  <1>6. PICK v \in M : v = WithItems(w, p) /\ v.items = p BY LikeItems DEF Like
  <1>7. PICK q \in Seq(M) : q = acc.msgs BY <1>1
  <1>8. CallingPass(acc, w) = [pending |-> acc.pending \cup Asked(w), msgs |-> Append(q, v)]
    BY <1>2, <1>3, <1>4, <1>6, <1>7 DEF CallingPass, Keep
  <1>9. PICK r : r = CallingPass(acc, w) OBVIOUS
  <1>10. r.pending = acc.pending \cup Asked(w) /\ r.msgs = Append(q, v) BY <1>8, <1>9
  <1>11. m \in Nat /\ n \in Nat /\ m < n /\ k + 1 # n
    <2>1. DOMAIN s = 1 .. Len(s) OBVIOUS
    <2> QED BY <2>1 DEF RepliedAt
  <1>12. i \in Asked(w) <=> k + 1 = m
    <2>1. \A l \in DOMAIN a : a[l] = Request(i) <=> a[l].kind = "request" /\ a[l].id = i
      BY ContentKinds
    <2>2. i \in Asked(w) <=> Has(a, Request(i)) BY <1>3, <2>1 DEF Asked, Has
    <2>3. Has(a, Request(i)) <=> In(s, Request(i), k + 1) BY <1>2, <1>3 DEF In
    <2> QED BY <2>2, <2>3 DEF RepliedAt
  <1>13. m <= k + 1 => \E j : In(r.msgs, Request(i), j)
    <2>1. \A j : In(Append(q, v), Request(i), j) <=>
                   In(q, Request(i), j) \/ (j = Len(q) + 1 /\ Has(v.items, Request(i)))
      BY InAppend
    <2>2. m = k + 1 => Has(v.items, Request(i)) BY <1>2, <1>3, <1>5, <1>6 DEF RepliedAt, In
    <2>3. m <= k => \E j : In(q, Request(i), j) BY <1>7 DEF Awaited
    <2>4. m <= k + 1 => m <= k \/ m = k + 1 BY <1>11
    <2> QED BY <1>10, <2>1, <2>2, <2>3, <2>4
  <1>14. m <= k + 1 /\ k + 1 < n => i \in r.pending
    <2>1. m <= k + 1 /\ k + 1 < n => m = k + 1 \/ (m <= k /\ k < n) BY <1>11
    <2> QED BY <1>10, <1>12, <2>1 DEF Awaited
  <1>15. n <= k + 1 => i \notin r.pending
    <2>1. n <= k + 1 => n <= k /\ k + 1 # m BY <1>11
    <2> QED BY <1>10, <1>12, <2>1 DEF Awaited
  <1> QED BY <1>2, <1>9, <1>13, <1>14, <1>15 DEF Awaited

LEMMA PassedReplied ==
  ASSUME NEW M, IsMessages(M), NEW s \in Seq(M), NEW i, Replied(s, i)
  PROVE  i \notin Passed(s).pending /\ \E j : In(Passed(s).msgs, Request(i), j)
PROOF
  <1> DEFINE l == Len(s)
  <1>1. PICK g \in [0 .. l -> Calling(M)] :
          /\ g[0] = [pending |-> {}, msgs |-> <<>>]
          /\ \A k \in 1 .. l : g[k] = CallingPass(g[k - 1], s[k])
          /\ Passed(s) = g[l]
    BY PassedTrace
  <1>2. l \in Nat /\ l \in 0 .. l /\ DOMAIN s = 1 .. l OBVIOUS
  <1>3. PICK m, n : RepliedAt(s, i, m, n) BY DEF Replied
  <1>4. m \in 1 .. l /\ n \in 1 .. l /\ m < n BY <1>2, <1>3 DEF RepliedAt
  <1> DEFINE T == {k \in 0 .. l : Awaited(g[k], i, m, n, k)}
  <1>5. 0 \in T BY <1>2, <1>4 DEF Awaited
  <1>6. ASSUME NEW k \in 0 .. l, k # l, k \in T PROVE k + 1 \in T
    <2>1. k + 1 \in 1 .. l /\ (k + 1) - 1 = k /\ k + 1 \in 0 .. l /\ k \in Nat BY <1>6
    <2>2. PICK acc \in Calling(M) : acc = g[k] BY <1>1
    <2>3. PICK w \in M : w = s[k + 1] BY <2>1
    <2>4. g[k + 1] = CallingPass(acc, w) BY <1>1, <2>1, <2>2, <2>3
    <2>5. Awaited(acc, i, m, n, k) BY <1>6, <2>2
    <2>6. w.role \in {"user", "assistant"} BY DEF IsMessages
    <2>7. k + 1 \in DOMAIN s BY <1>2, <2>1
    <2>8. Awaited(CallingPass(acc, w), i, m, n, k + 1)
      <3>1. CASE w.role = "user" BY <1>3, <2>1, <2>3, <2>5, <2>7, <3>1, AwaitedUser
      <3>2. CASE w.role = "assistant" BY <1>3, <2>1, <2>3, <2>5, <2>7, <3>2, AwaitedAssistant
      <3> QED BY <2>6, <3>1, <3>2
    <2> QED BY <2>1, <2>4, <2>8
  <1>7. \A k \in 0 .. l : k \in T
    <2> HIDE DEF T
    <2> QED BY <1>2, <1>5, <1>6, InductionTo
  <1>8. Awaited(g[l], i, m, n, l) BY <1>2, <1>7
  <1> QED BY <1>1, <1>4, <1>8 DEF Awaited

\* Every message of s in row mu has x
RowHas(s, x, mu) == \A j \in DOMAIN s : s[j].mid = mu => Has(s[j].items, x)

\* The rows of call i in s that are in f have it there
KeepsRows(f, s, i) ==
  \A x \in {Request(i), Response(i)} : \A mu : RowHas(s, x, mu) => RowHas(f, x, mu)

LEMMA KeepsRowsAll ==
  ASSUME NEW f, NEW r, NEW s, NEW i, KeepsRows(f, r, i), KeepsRows(r, s, i) PROVE KeepsRows(f, s, i)
PROOF BY DEF KeepsRows

\* Messages of f are messages of s, in whatever order
LEMMA RowsOfSome ==
  ASSUME NEW f, NEW s, NEW i, \A j \in DOMAIN f : \E k \in DOMAIN s : f[j] = s[k]
  PROVE  KeepsRows(f, s, i)
PROOF BY DEF KeepsRows, RowHas

LEMMA CallsAreNoText ==
  \A i : /\ IsCall(Request(i)) /\ IsCall(Response(i))
         /\ ~IsText(Request(i)) /\ ~IsText(Response(i)) /\ Request(i) # Response(i)
PROOF BY DEF IsCall, IsText, Texts, Request, Response

LEMMA RemoveEmptyReplied ==
  ASSUME NEW M, NEW s \in Seq(M), NEW i
  PROVE  /\ KeepsRows(RemoveEmptyMessages(s), s, i)
         /\ Replied(s, i) => Replied(RemoveEmptyMessages(s), i)
         /\ (\E j : In(s, Request(i), j)) => \E j : In(RemoveEmptyMessages(s), Request(i), j)
PROOF
  <1> DEFINE K == {n \in DOMAIN s : ~IsEmptyMessage(s[n])}
  <1>1. RemoveEmptyMessages(s) = Picked(s, K) BY DEF RemoveEmptyMessages, Keep
  <1>2. \A n : In(s, Request(i), n) \/ In(s, Response(i), n) => n \in K
    BY DEF In, Has, IsEmptyMessage, Request, Response
  <1> HIDE DEF K
  <1>3. PICK p \in Seq(M) : p = Picked(s, K) BY PickedPlaces
  <1>4. PICK e : Picks(e, p, s, K) BY <1>3, PickedPlaces
  <1>5. DOMAIN p = 1 .. Len(p) /\ DOMAIN s = 1 .. Len(s) OBVIOUS
  <1>6. \A j \in DOMAIN p : e[j] \in DOMAIN s /\ p[j] = s[e[j]] BY <1>4, <1>5 DEF Picks
  <1>7. \A x : \A j : In(p, x, j) => In(s, x, e[j]) BY <1>6 DEF In
  <1>8. KeepsRows(p, s, i) BY <1>6, RowsOfSome
  <1>9. ASSUME NEW n, In(s, Request(i), n) \/ In(s, Response(i), n)
        PROVE  \E j \in DOMAIN p : e[j] = n /\ p[j] = s[n]
    <2>1. n \in K /\ n \in 1 .. Len(s) BY <1>2, <1>5, <1>9 DEF In
    <2>2. PICK j \in 1 .. Len(p) : e[j] = n BY <1>4, <2>1 DEF Picks
    <2> QED BY <1>5, <1>6, <2>2
  <1>10. (\E j : In(s, Request(i), j)) => \E j : In(p, Request(i), j) BY <1>9 DEF In
  <1>11. ASSUME Replied(s, i) PROVE Replied(p, i)
    <2>1. PICK m, n : RepliedAt(s, i, m, n) BY <1>11 DEF Replied
    <2>2. In(s, Request(i), m) /\ In(s, Response(i), n) BY <2>1 DEF RepliedAt
    <2>3. PICK a \in DOMAIN p : e[a] = m /\ p[a] = s[m] BY <1>9, <2>2
    <2>4. PICK b \in DOMAIN p : e[b] = n /\ p[b] = s[n] BY <1>9, <2>2
    <2>5. a < b
      <3>1. a \in 1 .. Len(p) /\ b \in 1 .. Len(p) /\ m \in 1 .. Len(s) /\ n \in 1 .. Len(s) /\ m < n
        BY <1>5, <2>1, <2>3, <2>4 DEF RepliedAt
      <3>2. b < a => e[b] < e[a] BY <1>4, <3>1 DEF Picks
      <3>3. a # b BY <2>3, <2>4, <3>1
      <3> QED BY <2>3, <2>4, <3>1, <3>2, <3>3
    <2>6. \A j, l \in DOMAIN p : e[j] = e[l] => j = l
      <3> SUFFICES ASSUME NEW j \in 1 .. Len(p), NEW l \in 1 .. Len(p), e[j] = e[l] PROVE j = l
        BY <1>5
      <3>1. (j < l => e[j] < e[l]) /\ (l < j => e[l] < e[j]) BY <1>4 DEF Picks
      <3>2. e[j] \in Nat /\ e[l] \in Nat BY <1>4 DEF Picks
      <3> QED BY <3>1, <3>2
    <2>7. \A k : In(p, Request(i), k) <=> k = a
      <3>1. In(p, Request(i), a) BY <2>2, <2>3 DEF In
      <3>2. \A k : In(p, Request(i), k) => e[k] = m /\ k \in DOMAIN p BY <1>7, <2>1 DEF RepliedAt, In
      <3> QED BY <2>3, <2>6, <3>1, <3>2
    <2>8. \A k : In(p, Response(i), k) <=> k = b
      <3>1. In(p, Response(i), b) BY <2>2, <2>4 DEF In
      <3>2. \A k : In(p, Response(i), k) => e[k] = n /\ k \in DOMAIN p BY <1>7, <2>1 DEF RepliedAt, In
      <3> QED BY <2>4, <2>6, <3>1, <3>2
    <2>9. p[a].role = "assistant" /\ p[b].role = "user" BY <2>1, <2>3, <2>4 DEF RepliedAt
    <2> QED BY <2>3, <2>4, <2>5, <2>7, <2>8, <2>9 DEF Replied, RepliedAt
  <1> QED BY <1>1, <1>3, <1>8, <1>10, <1>11

LEMMA TrimmedReplied ==
  ASSUME NEW M, IsMessages(M), HasRows(M), NEW s \in Seq(M), NEW i, NEW t \in Seq(M),
         t = MapSeq(TrimWhitespace, MapSeq(MergeTextContent, s))
  PROVE  KeepsRows(t, s, i) /\ (Replied(s, i) => Replied(t, i))
PROOF
  <1>1. Len(t) = Len(s) /\ \A n \in 1 .. Len(s) : t[n].role = s[n].role BY TrimmedLike DEF Like
  <1>2. DOMAIN s = 1 .. Len(s) /\ DOMAIN t = 1 .. Len(s) BY <1>1
  <1>3. \A n \in DOMAIN s : t[n] = Prepared(s[n])
    <2> DEFINE r == [n \in DOMAIN s |-> MergeTextContent(s[n])]
    <2>1. t = [n \in DOMAIN r |-> TrimWhitespace(r[n])] BY DEF MapSeq
    <2> QED BY <2>1 DEF Prepared
  <1>4. ASSUME NEW n \in DOMAIN s, NEW x \in {Request(i), Response(i)}
        PROVE  t[n].mid = s[n].mid /\ (Has(t[n].items, x) <=> Has(s[n].items, x))
    <2>1. PICK m \in M : m = s[n] OBVIOUS
    <2>2. ~IsText(x) BY CallsAreNoText
    <2> QED BY <1>3, <2>1, <2>2, PreparedMid, PreparedHas
  <1>5. \A x \in {Request(i), Response(i)} : \A n : In(t, x, n) <=> In(s, x, n) BY <1>2, <1>4 DEF In
  <1>6. KeepsRows(t, s, i) BY <1>2, <1>4 DEF KeepsRows, RowHas
  <1>7. Replied(s, i) => Replied(t, i) BY <1>1, <1>2, <1>5 DEF Replied, RepliedAt
  <1> QED BY <1>6, <1>7

\* Each place of the pairing has the row it had
LEMMA CallingDoneMid ==
  ASSUME NEW M, IsMessages(M), HasRows(M), NEW s \in Seq(M)
  PROVE  \A j \in DOMAIN s : CallingDone(s)[j].mid = s[j].mid
PROOF
  <1>1. PICK pass \in Calling(M) : pass = Passed(s) BY PassedLike
  <1>2. PICK q \in Seq(M) : q = pass.msgs BY DEF Calling
  <1>3. PICK r \in Seq(M) : r = CallingDone(s) BY CallingDoneLike
  <1>4. r = [k \in DOMAIN q |-> Close(pass, q[k])] BY <1>1, <1>2, <1>3 DEF CallingDone, MapSeq
  <1>5. Len(q) = Len(s) /\ DOMAIN q = 1 .. Len(q) /\ DOMAIN s = 1 .. Len(s) BY <1>1, <1>2, PassedLike
  <1> SUFFICES ASSUME NEW j \in DOMAIN s PROVE r[j].mid = s[j].mid BY <1>3
  <1>6. j \in DOMAIN q /\ j \in 1 .. Len(s) BY <1>5
  <1>7. PICK m \in M : m = q[j] BY <1>6
  <1>8. m.mid = s[j].mid BY <1>1, <1>2, <1>6, <1>7, PassedFrom
  <1>9. r[j].mid = m.mid
    <2>1. m.items \in Seq(Content) BY DEF IsMessages
    <2> DEFINE K == {n \in DOMAIN m.items : RequestAnswered(pass.pending, m.items[n])}
    <2>2. PICK its \in Seq(Content) : its = Picked(m.items, K)
      <3> HIDE DEF K
      <3> QED BY <2>1, PickedPlaces
    <2>3. r[j] = IF m.role = "assistant" THEN WithItems(m, its) ELSE m
      BY <1>4, <1>6, <1>7, <2>2 DEF Close, Keep
    <2> QED BY <2>3 DEF HasRows
  <1> QED BY <1>8, <1>9

LEMMA CallingDoneReplied ==
  ASSUME NEW M, IsMessages(M), HasRows(M), NEW s \in Seq(M), NEW i \in Nat, AskedOnce(s, i), Replied(s, i)
  PROVE  KeepsRows(CallingDone(s), s, i) /\ Replied(CallingDone(s), i)
PROOF
  <1>1. PICK pass \in Calling(M) : pass = Passed(s) BY PassedLike
  <1>2. PICK q \in Seq(M) : q = pass.msgs BY DEF Calling
  <1>3. PICK r \in Seq(M) : r = CallingDone(s) BY CallingDoneLike
  <1>4. r = [k \in DOMAIN q |-> Close(pass, q[k])] BY <1>1, <1>2, <1>3 DEF CallingDone, MapSeq
  <1>5. /\ Len(q) = Len(s) /\ DOMAIN q = 1 .. Len(q) /\ DOMAIN s = 1 .. Len(s)
        /\ DOMAIN r = DOMAIN s /\ DOMAIN q = DOMAIN s
    BY <1>1, <1>2, <1>4, PassedLike
  <1>6. PICK m, n : RepliedAt(s, i, m, n) BY DEF Replied
  <1>7. \A x : IsCall(x) => \A k : In(r, x, k) => In(s, x, k)
    BY <1>3, CallingDoneFrom DEF SamePlaces
  <1>8. \A k \in DOMAIN s : r[k].role = s[k].role /\ r[k].mid = s[k].mid
    BY <1>3, <1>5, CallingDoneLike, CallingDoneMid DEF Like
  <1>9. In(r, Request(i), m)
    <2>1. i \notin pass.pending /\ \E k : In(q, Request(i), k) BY <1>1, <1>2, PassedReplied
    <2>2. PICK k : In(q, Request(i), k) BY <2>1
    <2>3. k \in DOMAIN s /\ Has(q[k].items, Request(i)) BY <1>5, <2>2 DEF In
    <2>4. Has(s[k].items, Request(i)) BY <1>1, <1>2, <1>5, <2>3, PassedFrom
    <2>5. k = m BY <1>6, <2>3, <2>4 DEF RepliedAt, In
    <2>6. PICK w \in M : w = q[m] BY <1>5, <2>3, <2>5
    <2>7. w.role = "assistant"
      <3>1. w.role = s[m].role BY <1>1, <1>2, <1>5, <2>3, <2>5, <2>6, PassedLike DEF Like
      <3> QED BY <1>6, <3>1 DEF RepliedAt
    <2>8. Has(Close(pass, w).items, Request(i)) BY <2>1, <2>3, <2>5, <2>6, <2>7, CloseHas
    <2>9. r[m] = Close(pass, w) BY <1>4, <1>5, <2>3, <2>5, <2>6
    <2> QED BY <1>5, <2>3, <2>5, <2>8, <2>9 DEF In
  <1>10. In(r, Response(i), n)
    <2>1. WellPaired(r, i) BY <1>3, CallingDonePaired
    <2>2. PICK l : In(r, Response(i), l) BY <1>9, <2>1 DEF WellPaired
    <2>3. In(s, Response(i), l) BY <1>7, <2>2, CallsAreNoText
    <2> QED BY <1>6, <2>2, <2>3 DEF RepliedAt
  <1>11. /\ \A k : In(r, Request(i), k) <=> k = m
         /\ \A k : In(r, Response(i), k) <=> k = n
    BY <1>6, <1>7, <1>9, <1>10, CallsAreNoText DEF RepliedAt
  <1>12. RepliedAt(r, i, m, n) BY <1>5, <1>6, <1>8, <1>11 DEF RepliedAt
  <1>13. \A x \in {Request(i), Response(i)} : \A k \in DOMAIN s : Has(s[k].items, x) => Has(r[k].items, x)
    <2>1. \A k \in DOMAIN s : Has(s[k].items, Request(i)) => k = m BY <1>6 DEF RepliedAt, In
    <2>2. \A k \in DOMAIN s : Has(s[k].items, Response(i)) => k = n BY <1>6 DEF RepliedAt, In
    <2> QED BY <1>9, <1>10, <2>1, <2>2 DEF In
  <1>14. KeepsRows(r, s, i) BY <1>5, <1>8, <1>13 DEF KeepsRows, RowHas
  <1> QED BY <1>3, <1>12, <1>14 DEF Replied

LEMMA MergeMessageMids ==
  ASSUME NEW M, IsMessages(M), HasRows(M), NEW q \in Seq(M), NEW m \in M, NEW r, r = MergeMessage(q, m)
  PROVE  \A j \in DOMAIN r : \/ j \in DOMAIN q /\ r[j].mid = q[j].mid
                             \/ j = Len(r) /\ r[j].mid = m.mid
PROOF
  <1>1. m.items \in Seq(Content) BY DEF IsMessages
  <1>2. CASE q # <<>> /\ EffectiveRole(Last(q)) = EffectiveRole(m)
    <2>1. PICK f \in Seq(M) : f = Front(q) BY <1>2, FrontPlaces
    <2>2. PICK l \in M : l = Last(q) BY <1>2, FrontPlaces
    <2>3. l.items \in Seq(Content) BY DEF IsMessages
    <2>4. PICK its \in Seq(Content) : its = l.items \o m.items
      <3>1. l.items \o m.items \in Seq(Content) BY <1>1, <2>3, ConcatPlaces
      <3> QED BY <3>1
    <2>5. PICK w \in M : w = WithItems(l, its) /\ w.mid = l.mid BY <2>4, LikeItems DEF Like, HasRows
    <2>6. PICK p \in Seq(M) : Longer(p, f, w) BY Appended
    <2>7. r = p BY <1>2, <2>1, <2>2, <2>4, <2>5, <2>6 DEF MergeMessage, Longer
    <2>8. /\ Len(f) = Len(q) - 1 /\ Len(q) \in Nat \ {0} /\ l = q[Len(q)]
          /\ \A k \in 1 .. Len(q) - 1 : f[k] = q[k]
      BY <1>2, <2>1, <2>2, FrontPlaces
    <2>9. DOMAIN q = 1 .. Len(q) OBVIOUS
    <2>10. /\ DOMAIN p = 1 .. Len(q) /\ p[Len(q)] = w
           /\ \A k \in 1 .. Len(q) - 1 : p[k] = q[k]
      BY <2>6, <2>8 DEF Longer
    <2>11. \A j \in DOMAIN p : j \in DOMAIN q /\ p[j].mid = q[j].mid
      <3> SUFFICES ASSUME NEW j \in 1 .. Len(q) PROVE p[j].mid = q[j].mid BY <2>9, <2>10
      <3>1. CASE j = Len(q) BY <2>5, <2>8, <2>10, <3>1
      <3>2. CASE j # Len(q)
        <4>1. j \in 1 .. Len(q) - 1 BY <2>8, <3>2
        <4> QED BY <2>10, <4>1
      <3> QED BY <3>1, <3>2
    <2> QED BY <2>7, <2>11
  <1>3. CASE ~(q # <<>> /\ EffectiveRole(Last(q)) = EffectiveRole(m))
    <2>1. PICK p \in Seq(M) : Longer(p, q, m) BY Appended
    <2>2. r = p BY <1>3, <2>1 DEF MergeMessage, Longer
    <2>3. /\ DOMAIN p = 1 .. (Len(q) + 1) /\ DOMAIN q = 1 .. Len(q) /\ Len(q) \in Nat
          /\ Len(p) = Len(q) + 1 /\ p[Len(q) + 1] = m /\ \A j \in 1 .. Len(q) : p[j] = q[j]
      BY <2>1 DEF Longer
    <2>4. \A j \in 1 .. (Len(q) + 1) : j \in 1 .. Len(q) \/ j = Len(q) + 1 BY <2>3
    <2> QED BY <2>2, <2>3, <2>4
  <1> QED BY <1>2, <1>3

\* What the k first messages of s held of call i, q holds
Holds(q, s, k, i) ==
  /\ KeepsRows(q, s, i)
  /\ (\E l \in 1 .. k : Has(s[l].items, Request(i))) => \E j : In(q, Request(i), j)

LEMMA HoldsStep ==
  ASSUME NEW M, IsMessages(M), HasRows(M), NEW s \in Seq(M), NEW i, NEW k \in Nat,
         k + 1 \in 1 .. Len(s), NEW q \in Seq(M), Holds(q, s, k, i)
  PROVE  Holds(MergeMessage(q, s[k + 1]), s, k + 1, i)
PROOF
  <1>1. PICK m \in M : m = s[k + 1] OBVIOUS
  <1>2. PICK r \in Seq(M) : r = MergeMessage(q, m) BY MergeMessageRoles
  <1>3. \A x : \A j : In(r, x, j) <=> In(q, x, j) \/ (j = Len(r) /\ Has(m.items, x))
    BY <1>2, MergeMessageHas DEF AddsTo
  <1>4. DOMAIN s = 1 .. Len(s) OBVIOUS
  <1>5. ASSUME NEW x \in {Request(i), Response(i)}, NEW mu, RowHas(s, x, mu) PROVE RowHas(r, x, mu)
    <2> SUFFICES ASSUME NEW j \in DOMAIN r, r[j].mid = mu PROVE In(r, x, j) BY DEF RowHas, In
    <2>1. CASE j \in DOMAIN q /\ r[j].mid = q[j].mid
      <3>1. RowHas(q, x, mu) BY <1>5 DEF Holds, KeepsRows
      <3>2. In(q, x, j) BY <2>1, <3>1 DEF RowHas, In
      <3> QED BY <1>3, <3>2
    <2>2. CASE j = Len(r) /\ r[j].mid = m.mid
      <3>1. Has(m.items, x) BY <1>1, <1>4, <1>5, <2>2 DEF RowHas
      <3> QED BY <1>3, <2>2, <3>1
    <2> QED BY <1>2, <2>1, <2>2, MergeMessageMids
  <1>6. KeepsRows(r, s, i) BY <1>5 DEF KeepsRows
  <1>7. ASSUME NEW l \in 1 .. (k + 1), Has(s[l].items, Request(i)) PROVE \E j : In(r, Request(i), j)
    <2>1. CASE l \in 1 .. k
      <3>1. PICK j : In(q, Request(i), j) BY <1>7, <2>1 DEF Holds
      <3> QED BY <1>3, <3>1
    <2>2. CASE l = k + 1
      <3>1. Has(m.items, Request(i)) BY <1>1, <1>7, <2>2
      <3> QED BY <1>3, <3>1
    <2> QED BY <2>1, <2>2
  <1>8. Holds(r, s, k + 1, i) BY <1>6, <1>7 DEF Holds
  <1> QED BY <1>1, <1>2, <1>8

LEMMA MergedHolds ==
  ASSUME NEW M, IsMessages(M), HasRows(M), NEW s \in Seq(M), NEW i
  PROVE  /\ KeepsRows(MergeConsecutive(s), s, i)
         /\ (\E j : In(s, Request(i), j)) => \E j : In(MergeConsecutive(s), Request(i), j)
PROOF
  <1> DEFINE n == Len(s)
  <1>1. PICK g \in [0 .. n -> Seq(M)] :
          /\ g[0] = <<>>
          /\ \A k \in 1 .. n : g[k] = MergeMessage(g[k - 1], s[k])
          /\ MergeConsecutive(s) = g[n]
    BY MergeTrace
  <1>2. n \in Nat /\ n \in 0 .. n /\ DOMAIN s = 1 .. n OBVIOUS
  <1> DEFINE T == {k \in 0 .. n : Holds(g[k], s, k, i)}
  <1>3. 0 \in T
    <2>1. Holds(<<>>, s, 0, i) BY DEF Holds, KeepsRows, RowHas
    <2> QED BY <1>1, <1>2, <2>1
  <1>4. ASSUME NEW k \in 0 .. n, k # n, k \in T PROVE k + 1 \in T
    <2>1. k + 1 \in 1 .. n /\ (k + 1) - 1 = k /\ k + 1 \in 0 .. n /\ k \in Nat BY <1>4
    <2>2. g[k + 1] = MergeMessage(g[k], s[k + 1]) BY <1>1, <2>1
    <2>3. PICK q \in Seq(M) : q = g[k] BY <1>1
    <2>4. Holds(q, s, k, i) BY <1>4, <2>3
    <2>5. Holds(MergeMessage(q, s[k + 1]), s, k + 1, i) BY <2>1, <2>4, HoldsStep
    <2> QED BY <2>1, <2>2, <2>3, <2>5
  <1>5. n \in T
    <2> HIDE DEF T
    <2>1. \A k \in 0 .. n : k \in T BY <1>2, <1>3, <1>4, InductionTo
    <2> QED BY <1>2, <2>1
  <1>6. Holds(g[n], s, n, i) BY <1>5
  <1>7. (\E j : In(s, Request(i), j)) => \E l \in 1 .. n : Has(s[l].items, Request(i)) BY <1>2 DEF In
  <1> QED BY <1>1, <1>6, <1>7 DEF Holds

\* The assistant's last message has no call with a result
LEMMA DropTrailingHolds ==
  ASSUME NEW M, NEW s \in Seq(M), NEW i, WellPaired(s, i)
  PROVE  /\ KeepsRows(DropTrailing(s), s, i)
         /\ (\E j : In(s, Request(i), j)) => \E j : In(DropTrailing(s), Request(i), j)
PROOF
  <1>1. CASE s # <<>> /\ Last(s).role = "assistant"
    <2>1. PICK f \in Seq(M) : f = Front(s) BY <1>1, FrontPlaces
    <2>2. Len(f) = Len(s) - 1 /\ \A k \in 1 .. Len(s) - 1 : f[k] = s[k] BY <1>1, <2>1, FrontPlaces
    <2>3. DropTrailing(s) = f BY <1>1, <2>1 DEF DropTrailing
    <2>4. DOMAIN s = 1 .. Len(s) /\ DOMAIN f = 1 .. Len(f) OBVIOUS
    <2>5. \A j \in DOMAIN f : j \in DOMAIN s /\ f[j] = s[j] BY <2>2, <2>4
    <2>6. KeepsRows(f, s, i) BY <2>5, RowsOfSome
    <2>7. ASSUME NEW j, In(s, Request(i), j) PROVE In(f, Request(i), j)
      <3>1. PICK n : In(s, Response(i), n) /\ j < n BY <2>7 DEF WellPaired
      <3>2. j \in 1 .. Len(s) /\ n \in 1 .. Len(s) BY <2>4, <2>7, <3>1 DEF In
      <3>3. j \in DOMAIN f BY <2>2, <2>4, <3>1, <3>2
      <3> QED BY <2>5, <2>7, <3>3 DEF In
    <2> QED BY <2>3, <2>6, <2>7
  <1>2. CASE ~(s # <<>> /\ Last(s).role = "assistant")
    <2>1. DropTrailing(s) = s BY <1>2 DEF DropTrailing
    <2> QED BY <2>1 DEF KeepsRows
  <1> QED BY <1>1, <1>2

\* A call that has its result is sent, and so are, with it, the messages of which
\* the row is still there
LEMMA FixMessagesHold ==
  ASSUME NEW M, IsMessages(M), HasRows(M), NEW s \in Seq(M), NEW i \in Nat, BeginsWithWords(s),
         AskedOnce(s, i), Replied(s, i)
  PROVE  KeepsRows(FixMessages(s), s, i) /\ \E j : In(FixMessages(s), Request(i), j)
PROOF
  <1> DEFINE a == MapSeq(TrimWhitespace, MapSeq(MergeTextContent, s))
             b == RemoveEmptyMessages(a)
             c == CallingDone(b)
             d == RemoveEmptyMessages(c)
             e == MergeConsecutive(d)
             f == DropTrailing(e)
  <1>1. a \in Seq(M) BY TrimmedLike
  <1>2. AskedOnce(a, i) /\ BeginsWithWords(a) BY <1>1, TrimmedWords
  <1>3. KeepsRows(a, s, i) /\ Replied(a, i) BY <1>1, TrimmedReplied
  <1> HIDE DEF a
  <1>4. b \in Seq(M) /\ AskedOnce(b, i) /\ BeginsWithWords(b)
    BY <1>1, <1>2, RemoveEmptyType, RemoveEmptyWords
  <1>5. KeepsRows(b, a, i) /\ Replied(b, i) BY <1>1, <1>3, RemoveEmptyReplied
  <1> HIDE DEF b
  <1>6. c \in Seq(M) /\ BeginsWithWords(c) BY <1>4, CallingDoneLike, CallingDoneWords
  <1>7. KeepsRows(c, b, i) /\ Replied(c, i) BY <1>4, <1>5, CallingDoneReplied
  <1>8. WellPaired(d, i)
    <2>1. d = FixToolCalling(b) BY DEF FixToolCalling
    <2> HIDE DEF d
    <2> QED BY <1>4, <2>1, FixToolCallingPaired
  <1> HIDE DEF c
  <1>9. d \in Seq(M) /\ BeginsWithWords(d) BY <1>6, RemoveEmptyType, RemoveEmptyWords
  <1>10. KeepsRows(d, c, i) /\ \E j : In(d, Request(i), j)
    <2>1. \E j : In(c, Request(i), j) BY <1>7 DEF Replied, RepliedAt
    <2> QED BY <1>6, <2>1, RemoveEmptyReplied
  <1> HIDE DEF d
  <1>11. e \in Seq(M) /\ e # <<>> /\ e[1].role = "user" /\ WellPaired(e, i)
    BY <1>8, <1>9, Merged, MergedPaired DEF BeginsWithWords
  <1>12. KeepsRows(e, d, i) /\ \E j : In(e, Request(i), j) BY <1>9, <1>10, MergedHolds
  <1> HIDE DEF e
  <1>13. KeepsRows(f, e, i) /\ \E j : In(f, Request(i), j) BY <1>11, <1>12, DropTrailingHolds
  <1>14. FixMessages(s) = f
    <2>1. Head(e) = e[1] BY <1>11
    <2>2. DropLeading(e) = e BY <1>11, <2>1 DEF DropLeading
    <2>3. f # <<>> BY <1>13 DEF In
    <2> HIDE DEF f
    <2>4. PopulateIfEmpty(f) = f BY <2>3 DEF PopulateIfEmpty
    <2> QED BY <2>2, <2>4 DEF FixMessages, FixLeadTrail, FixToolCalling, a, b, c, d, e, f
  <1> HIDE DEF f
  <1>15. KeepsRows(f, s, i) BY <1>3, <1>5, <1>7, <1>10, <1>12, <1>13, KeepsRowsAll
  <1> QED BY <1>13, <1>14, <1>15
=============================================================================
