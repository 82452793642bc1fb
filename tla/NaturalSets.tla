---------------------------- MODULE NaturalSets -----------------------------
(***************************************************************************)
(* Induction by sets of numbers, for the proofs about folds and searches:  *)
(* what a set of naturals holds when it is closed under successor, its     *)
(* least and its greatest element, and functions defined by iteration.     *)
(***************************************************************************)
EXTENDS Naturals, FiniteSets, FiniteSetTheorems, TLAPS

\* Every nonempty set of naturals has a least element.
LEMMA LeastNatural ==
    ASSUME NEW T \in SUBSET Nat, T # {}
    PROVE  \E m \in T : \A n \in T : m <= n
<1>. DEFINE D == {0 .. n : n \in T}
<1>1. \A n \in Nat : IsFiniteSet(0 .. n)
  BY FS_Interval
<1>2. D \subseteq FiniteSubsetsOf(Nat)
  BY <1>1 DEF FiniteSubsetsOf
<1>3. IsWellFoundedOn(StrictSubsetOrdering(Nat), FiniteSubsetsOf(Nat))
  BY FS_StrictSubsetOrderingWellFounded
<1>4. D # {}
  OBVIOUS
<1>5. PICK d \in D : \A e \in D : ~ (<<e, d>> \in StrictSubsetOrdering(Nat))
  <2>. HIDE DEF D
  <2>. QED BY <1>2, <1>3, <1>4, WFMin
<1>6. PICK m \in T : d = 0 .. m
  OBVIOUS
<1>7. ASSUME NEW n \in T, n < m PROVE FALSE
  <2>1. ~ (<<0 .. n, 0 .. m>> \in StrictSubsetOrdering(Nat))
    BY <1>5, <1>6
  <2>2. 0 .. n \subseteq 0 .. m /\ m \in 0 .. m /\ m \notin 0 .. n
    BY <1>7
  <2>. QED BY <2>1, <2>2 DEF StrictSubsetOrdering
<1>. QED BY <1>7

\* A set that holds 0 and every successor holds all naturals.
LEMMA SetInduction ==
    ASSUME NEW S, 0 \in S, \A n \in Nat : n \in S => n + 1 \in S
    PROVE  Nat \subseteq S
<1>. SUFFICES ASSUME Nat \ S # {} PROVE FALSE
  OBVIOUS
<1>1. PICK m \in Nat \ S : \A n \in Nat \ S : m <= n
  BY LeastNatural
<1>. QED BY <1>1

\* The same up to a bound.
LEMMA IntervalInduction ==
    ASSUME NEW N \in Nat, NEW S, 0 \in S, \A n \in 1 .. N : n - 1 \in S => n \in S
    PROVE  0 .. N \subseteq S
<1>. SUFFICES ASSUME (0 .. N) \ S # {} PROVE FALSE
  OBVIOUS
<1>1. (0 .. N) \ S \in SUBSET Nat
  OBVIOUS
<1>2. PICK m \in (0 .. N) \ S : \A n \in (0 .. N) \ S : m <= n
  BY <1>1, LeastNatural
<1>3. m \in 1 .. N /\ m - 1 \in 0 .. N /\ ~(m <= m - 1)
  BY <1>2
<1>. QED BY <1>2, <1>3

\* A nonempty set with a bound has a greatest element.
LEMMA GreatestNatural ==
    ASSUME NEW N \in Nat, NEW T \in SUBSET (0 .. N), T # {}
    PROVE  \E m \in T : \A n \in T : n <= m
<1>. DEFINE U == {N - n : n \in T}
<1>1. U \in SUBSET Nat /\ U # {}
  OBVIOUS
<1>2. PICK u \in U : \A v \in U : u <= v
  <2>. HIDE DEF U
  <2>. QED BY <1>1, LeastNatural
<1>3. PICK m \in T : u = N - m
  OBVIOUS
<1>4. ASSUME NEW n \in T PROVE n <= m
  <2>1. N - m <= N - n
    BY <1>2, <1>3
  <2>2. m \in Int /\ n \in Int /\ N \in Int
    OBVIOUS
  <2>. QED BY <2>1, <2>2
<1>. QED BY <1>4

-----------------------------------------------------------------------------
(* Functions defined by iteration.                                         *)

\* A function can be iterated from any value.
Iterates(f, V, F, a) ==
    f \in [Nat -> V] /\ f[0] = a /\ \A n \in Nat : f[n + 1] = F[f[n]]

LEMMA IterationExists ==
    ASSUME NEW V, NEW F, NEW a, F \in [V -> V], a \in V
    PROVE  \E f : Iterates(f, V, F, a)
<1>. DEFINE Upto(g, n) ==
              /\ g \in [0 .. n -> V] /\ g[0] = a
              /\ \A i \in 0 .. n - 1 : g[i + 1] = F[g[i]]
            S == {n \in Nat : \E g : Upto(g, n)}
<1>1. Nat \subseteq S
  <2>1. 0 \in S
    <3>1. Upto([i \in 0 .. 0 |-> a], 0)
      OBVIOUS
    <3>. QED BY <3>1
  <2>2. ASSUME NEW n \in Nat, n \in S PROVE n + 1 \in S
    <3>1. PICK g : Upto(g, n)
      BY <2>2
    <3>. DEFINE h == [i \in 0 .. n + 1 |-> IF i = n + 1 THEN F[g[n]] ELSE g[i]]
    <3>2. h \in [0 .. n + 1 -> V]
      BY <3>1
    <3>3. h[0] = a
      BY <3>1
    <3>4. ASSUME NEW i \in 0 .. n PROVE h[i + 1] = F[h[i]]
      <4>1. CASE i = n
        BY <4>1
      <4>2. CASE i # n
        BY <3>1, <4>2
      <4>. QED BY <4>1, <4>2
    <3>. HIDE DEF h
    <3>5. Upto(h, n + 1)
      BY <3>2, <3>3, <3>4
    <3>. QED BY <3>5
  <2>. HIDE DEF S
  <2>. QED BY <2>1, <2>2, SetInduction
<1>2. ASSUME NEW n \in Nat, NEW g, Upto(g, n), NEW m \in Nat, NEW h, Upto(h, m), n <= m
      PROVE  \A i \in 0 .. n : g[i] = h[i]
  <2>. DEFINE T == {i \in Nat : i <= n => g[i] = h[i]}
  <2>1. 0 \in T
    BY <1>2
  <2>2. ASSUME NEW i \in Nat, i \in T PROVE i + 1 \in T
    <3>. SUFFICES ASSUME i + 1 <= n PROVE g[i + 1] = h[i + 1]
      OBVIOUS
    <3>1. i \in 0 .. n - 1 /\ i \in 0 .. m - 1
      BY <1>2
    <3>. QED BY <3>1, <1>2, <2>2
  <2>3. Nat \subseteq T
    <3>. HIDE DEF T
    <3>. QED BY <2>1, <2>2, SetInduction
  <2>. QED BY <2>3
<1>. DEFINE G(n) == CHOOSE g : Upto(g, n)
            f == [n \in Nat |-> G(n)[n]]
<1>3. \A n \in Nat : Upto(G(n), n)
  BY <1>1
<1>. HIDE DEF G
<1>4. \A n \in Nat : G(n) \in [0 .. n -> V]
  BY <1>3
<1>5. f \in [Nat -> V]
  BY <1>4
<1>6. f[0] = a
  BY <1>3
<1>7. ASSUME NEW n \in Nat PROVE f[n + 1] = F[f[n]]
  <2>1. Upto(G(n), n) /\ Upto(G(n + 1), n + 1)
    BY <1>3
  <2>2. G(n)[n] = G(n + 1)[n]
    <3>. HIDE DEF Upto
    <3>. QED BY <1>2, <2>1
  <2>3. G(n + 1)[n + 1] = F[G(n + 1)[n]]
    BY <2>1
  <2>. QED BY <2>2, <2>3
<1>. HIDE DEF f
<1>. QED BY <1>5, <1>6, <1>7 DEF Iterates

\* What a step makes of a value, from one on, N times.
Unfolds(g, V, F, a, N) ==
    g \in [0 .. N -> V] /\ g[0] = a /\ \A n \in 1 .. N : g[n] = F[n][g[n - 1]]

\* Such a function exists, and its steps determine it.
LEMMA UnfoldingExists ==
    ASSUME NEW N \in Nat, NEW V, NEW a \in V, NEW F \in [1 .. N -> [V -> V]]
    PROVE  \E g : Unfolds(g, V, F, a, N)
<1>. DEFINE S == {n \in 0 .. N : \E g : Unfolds(g, V, F, a, n)}
<1>1. 0 \in S
  <2>1. Unfolds([i \in 0 .. 0 |-> a], V, F, a, 0)
    BY DEF Unfolds
  <2>. QED BY <2>1
<1>2. ASSUME NEW n \in 1 .. N, n - 1 \in S PROVE n \in S
  <2>1. PICK g : Unfolds(g, V, F, a, n - 1)
    BY <1>2
  <2>2. g \in [0 .. n - 1 -> V] /\ g[0] = a /\ \A i \in 1 .. n - 1 : g[i] = F[i][g[i - 1]]
    BY <2>1 DEF Unfolds
  <2>. DEFINE h == [i \in 0 .. n |-> IF i = n THEN F[n][g[n - 1]] ELSE g[i]]
  <2>3. h \in [0 .. n -> V]
    <3>1. g[n - 1] \in V /\ F[n] \in [V -> V]
      BY <2>2
    <3>2. F[n][g[n - 1]] \in V
      BY <3>1
    <3>3. ASSUME NEW i \in 0 .. n, i # n PROVE g[i] \in V
      BY <2>2, <3>3
    <3>. QED BY <3>2, <3>3
  <2>4. h[0] = a
    BY <2>2
  <2>5. ASSUME NEW i \in 1 .. n PROVE h[i] = F[i][h[i - 1]]
    <3>1. CASE i = n
      BY <3>1
    <3>2. CASE i # n
      BY <2>2, <3>2
    <3>. QED BY <3>1, <3>2
  <2>. HIDE DEF h
  <2>6. Unfolds(h, V, F, a, n)
    BY <2>3, <2>4, <2>5 DEF Unfolds
  <2>. QED BY <2>6
<1>3. N \in S
  <2>. HIDE DEF S
  <2>1. N \in 0 .. N
    OBVIOUS
  <2>. QED BY <1>1, <1>2, <2>1, IntervalInduction
<1>. QED BY <1>3

LEMMA UnfoldingUnique ==
    ASSUME NEW N \in Nat, NEW g, NEW h, g[0] = h[0],
           \A n \in 1 .. N : g[n - 1] = h[n - 1] => g[n] = h[n]
    PROVE  g[N] = h[N]
<1>. DEFINE S == {n \in 0 .. N : g[n] = h[n]}
<1>1. 0 \in S /\ \A n \in 1 .. N : n - 1 \in S => n \in S
  OBVIOUS
<1>2. N \in S
  <2>. HIDE DEF S
  <2>. QED BY <1>1, IntervalInduction
<1>. QED BY <1>2
=============================================================================
