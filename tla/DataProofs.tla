----------------------------- MODULE DataProofs -----------------------------
(***************************************************************************)
(* Facts that the proofs about several components rest on: sorting puts    *)
(* every member of a set in one place, and a set of numbers has a least    *)
(* one, which is how induction is done over the data of the models: the    *)
(* least number that a claim fails for is not the successor of one it      *)
(* holds for.                                                              *)
(***************************************************************************)
EXTENDS Sorting, Integers, Functions, FiniteSetTheorems, WellFoundedInduction, TLAPS

\* Every set of natural numbers but the empty one has a least member.
LEMMA Least ==
    ASSUME NEW T, T \subseteq Nat, T # {}
    PROVE  \E m \in T : \A k \in T : m <= k
<1>1. PICK x \in T : \A y \in T : ~(<<y, x>> \in OpToRel(<, Nat))
  BY NatLessThanWellFounded, WFMin
<1>2. \A y \in T : ~(y < x)
  BY <1>1 DEF OpToRel
<1>3. x \in Nat /\ \A y \in T : y \in Nat
  OBVIOUS
<1>4. \A y \in T : x <= y
  BY <1>2, <1>3
<1> QED BY <1>4

LEMMA Induction ==
    ASSUME NEW T, 0 \in T, \A n \in Nat : n \in T => n + 1 \in T
    PROVE  \A n \in Nat : n \in T
<1> DEFINE U == Nat \ T
<1> SUFFICES ASSUME U # {}
             PROVE  FALSE
  OBVIOUS
<1>1. PICK m \in U : \A k \in U : m <= k
  <2>1. U \subseteq Nat
    OBVIOUS
  <2> HIDE DEF U
  <2> QED BY <2>1, Least
<1>2. m \in Nat /\ m \notin T /\ m # 0
  OBVIOUS
<1>3. m - 1 \in Nat /\ (m - 1) + 1 = m
  BY <1>2
<1>4. m - 1 \notin U
  <2> HIDE DEF U
  <2> QED BY <1>1, <1>2, <1>3
<1> QED BY <1>2, <1>3, <1>4

\* What is defined by recursion over the natural numbers exists.
Steps(V) == [Nat -> [V -> V]]

Recurs(f, V, a, step) ==
    f \in [Nat -> V] /\ f[0] = a /\ \A n \in Nat : f[n + 1] = step[n][f[n]]

LEMMA Recursion ==
    ASSUME NEW V, NEW a \in V, NEW step \in Steps(V)
    PROVE  \E f : Recurs(f, V, a, step)
<1>0. \A n \in Nat : \A v \in V : step[n][v] \in V
  BY DEF Steps
<1> DEFINE Solves(n, g) == /\ g \in [0..n -> V] /\ g[0] = a
                           /\ \A i \in 0..(n - 1) : g[i + 1] = step[i][g[i]]
           T == {n \in Nat : \A g : ~Solves(n, g)}
<1>1. T = {}
  <2> SUFFICES ASSUME T # {}
               PROVE  FALSE
    OBVIOUS
  <2>1. PICK m \in T : \A k \in T : m <= k
    <3> HIDE DEF Solves
    <3>1. T \subseteq Nat
      OBVIOUS
    <3> HIDE DEF T
    <3> QED BY <3>1, Least
  <2>2. m \in Nat /\ \A g : ~Solves(m, g)
    OBVIOUS
  <2>3. CASE m = 0
    <3>1. Solves(0, [i \in 0..0 |-> a])
      OBVIOUS
    <3> QED BY <2>2, <2>3, <3>1
  <2>4. CASE m # 0
    <3>1. m - 1 \in Nat /\ m - 1 \notin T
      <4> HIDE DEF T
      <4> QED BY <2>1, <2>2, <2>4
    <3>2. PICK g : Solves(m - 1, g)
      BY <3>1
    <3> DEFINE h == [i \in 0..m |-> IF i < m THEN g[i] ELSE step[m - 1][g[m - 1]]]
    <3>3. g[m - 1] \in V /\ step[m - 1][g[m - 1]] \in V
      BY <1>0, <2>2, <3>1, <3>2
    <3>4. h \in [0..m -> V] /\ h[0] = a
      BY <2>2, <2>4, <3>1, <3>2, <3>3
    <3>5. ASSUME NEW i \in 0..(m - 1)
          PROVE  h[i + 1] = step[i][h[i]]
      <4>1. h[i] = g[i]
        BY <2>2
      <4>2. CASE i = m - 1
        <5>1. i + 1 = m /\ i + 1 \in 0..m /\ ~(i + 1 < m)
          BY <2>2, <4>2
        <5>2. h[i + 1] = step[m - 1][g[m - 1]]
          BY <5>1
        <5> QED BY <4>1, <4>2, <5>2
      <4>3. CASE i # m - 1
        <5>1. i + 1 \in 0..m /\ i + 1 < m /\ i \in 0..((m - 1) - 1)
          BY <2>2, <4>3
        <5>2. h[i + 1] = g[i + 1]
          BY <5>1
        <5> QED BY <3>2, <4>1, <5>1, <5>2
      <4> QED BY <4>2, <4>3
    <3>6. Solves(m, h)
      <4> HIDE DEF h
      <4> QED BY <3>4, <3>5
    <3> QED BY <2>2, <3>6
  <2> QED BY <2>3, <2>4
<1>2. ASSUME NEW n \in Nat
      PROVE  \E g : Solves(n, g)
  <2> HIDE DEF Solves
  <2> QED BY <1>1
<1>3. ASSUME NEW m \in Nat, NEW n \in Nat, NEW g, NEW h, Solves(m, g), Solves(n, h),
             NEW j \in Nat, j <= m, j <= n
      PROVE  g[j] = h[j]
  <2> DEFINE U == {i \in Nat : i <= m /\ i <= n /\ g[i] # h[i]}
  <2> SUFFICES ASSUME U # {}
               PROVE  FALSE
    BY <1>3
  <2>1. PICK i \in U : \A k \in U : i <= k
    <3>1. U \subseteq Nat
      OBVIOUS
    <3> HIDE DEF U
    <3> QED BY <3>1, Least
  <2>2. i \in Nat /\ i <= m /\ i <= n /\ g[i] # h[i]
    OBVIOUS
  <2>3. i # 0
    BY <1>3, <2>2
  <2>4. i - 1 \in 0..(m - 1) /\ i - 1 \in 0..(n - 1) /\ i - 1 \in Nat /\ (i - 1) + 1 = i
    BY <2>2, <2>3
  <2>5. g[i - 1] = h[i - 1]
    <3>1. i - 1 \notin U
      <4> HIDE DEF U
      <4> QED BY <2>1, <2>2, <2>4
    <3> QED BY <2>2, <2>4, <3>1
  <2>6. g[i] = step[i - 1][g[i - 1]] /\ h[i] = step[i - 1][h[i - 1]]
    <3>1. g[(i - 1) + 1] = step[i - 1][g[i - 1]]
      BY <1>3, <2>4
    <3>2. h[(i - 1) + 1] = step[i - 1][h[i - 1]]
      BY <1>3, <2>4
    <3> QED BY <2>4, <3>1, <3>2
  <2> QED BY <2>2, <2>5, <2>6
<1> DEFINE G(n) == CHOOSE g : Solves(n, g)
           f == [n \in Nat |-> G(n)[n]]
<1>4. ASSUME NEW n \in Nat
      PROVE  Solves(n, G(n))
  <2> HIDE DEF Solves
  <2> QED BY <1>2
<1>5. ASSUME NEW n \in Nat
      PROVE  f[n] = G(n)[n] /\ f[n] \in V
  <2>1. G(n) \in [0..n -> V]
    <3> HIDE DEF G
    <3> QED BY <1>4
  <2> HIDE DEF G
  <2> QED BY <2>1
<1>6. f[0] = a
  <2>1. G(0)[0] = a
    <3> HIDE DEF G
    <3> QED BY <1>4
  <2> QED BY <1>5, <2>1
<1>7. ASSUME NEW n \in Nat
      PROVE  f[n + 1] = step[n][f[n]]
  <2>1. n + 1 \in Nat /\ n \in 0..((n + 1) - 1) /\ n <= n + 1 /\ n <= n
    OBVIOUS
  <2>2. G(n + 1)[n + 1] = step[n][G(n + 1)[n]]
    <3> HIDE DEF G
    <3> QED BY <1>4, <2>1
  <2>3. G(n + 1)[n] = G(n)[n]
    <3> HIDE DEF G, Solves
    <3> QED BY <1>3, <1>4, <2>1
  <2> HIDE DEF f, G
  <2> QED BY <1>5, <2>1, <2>2, <2>3
<1>8. f \in [Nat -> V]
  <2> HIDE DEF G
  <2>1. f = [n \in Nat |-> f[n]]
    OBVIOUS
  <2> HIDE DEF f
  <2> QED BY <1>5, <2>1
<1> HIDE DEF f
<1> QED BY <1>6, <1>7, <1>8 DEF Recurs

\* An order of the members of S without ties.
Strict(S, before) ==
    /\ \A x \in S : <<x, x>> \notin before
    /\ \A x, y \in S : x # y => <<x, y>> \in before \/ <<y, x>> \in before
    /\ \A x, y, z \in S : <<x, y>> \in before /\ <<y, z>> \in before => <<x, z>> \in before

Below(S, before, x) == {y \in S : <<y, x>> \in before}

\* What is before more has more before it.
LEMMA PlacesGrow ==
    ASSUME NEW S, IsFiniteSet(S), NEW before, Strict(S, before),
           NEW x \in S, NEW y \in S, <<x, y>> \in before
    PROVE  Cardinality(Below(S, before, x)) < Cardinality(Below(S, before, y))
<1> DEFINE X == Below(S, before, x)
           Y == Below(S, before, y)
<1>1. X \subseteq Y /\ x \in Y /\ x \notin X /\ Y \subseteq S
  BY DEF Strict, Below
<1>2. IsFiniteSet(Y)
  BY <1>1, FS_Subset
<1>3. /\ IsFiniteSet(X) /\ Cardinality(X) <= Cardinality(Y)
      /\ Cardinality(X) # Cardinality(Y)
  <2> HIDE DEF X, Y
  <2> QED BY <1>1, <1>2, FS_Subset
<1>4. Cardinality(X) \in Nat /\ Cardinality(Y) \in Nat
  BY <1>2, <1>3, FS_CardinalityType
<1> QED BY <1>3, <1>4

\* Sorting puts every member of a set in exactly one place, in the given order.
LEMMA InOrderSorts ==
    ASSUME NEW S, IsFiniteSet(S), NEW before, Strict(S, before)
    PROVE  LET n == Cardinality(S)
               list == InOrder(S, before)
           IN  /\ n \in Nat /\ list \in [1..n -> S]
               /\ \A x \in S : \E k \in 1..n : list[k] = x
               /\ \A j, k \in 1..n : j < k <=> <<list[j], list[k]>> \in before
<1> DEFINE n == Cardinality(S)
           list == InOrder(S, before)
           P(x) == Cardinality(Below(S, before, x))
           place == [x \in S |-> P(x) + 1]
<1>1. n \in Nat
  BY FS_CardinalityType
<1>2. ASSUME NEW x \in S
      PROVE  P(x) \in 0..(n - 1)
  <2>1. Below(S, before, x) \subseteq S /\ x \notin Below(S, before, x)
    BY DEF Strict, Below
  <2>2. IsFiniteSet(Below(S, before, x)) /\ P(x) <= n /\ P(x) # n
    BY <2>1, FS_Subset
  <2>3. P(x) \in Nat
    BY <2>2, FS_CardinalityType
  <2> QED BY <1>1, <2>2, <2>3
<1>3. ASSUME NEW x \in S, NEW y \in S
      PROVE  P(x) < P(y) <=> <<x, y>> \in before
  <2>1. P(x) \in Nat /\ P(y) \in Nat
    BY <1>2
  <2>2. <<x, y>> \in before => P(x) < P(y)
    BY PlacesGrow
  <2>3. <<y, x>> \in before => P(y) < P(x)
    BY PlacesGrow
  <2>4. x = y \/ <<x, y>> \in before \/ <<y, x>> \in before
    BY DEF Strict
  <2> HIDE DEF P
  <2> QED BY <2>1, <2>2, <2>3, <2>4
<1>4. ASSUME NEW x \in S, NEW y \in S, P(x) = P(y)
      PROVE  x = y
  <2>1. P(x) \in Nat /\ P(y) \in Nat
    BY <1>2
  <2>2. ~(<<x, y>> \in before) /\ ~(<<y, x>> \in before)
    BY <1>3, <1>4, <2>1
  <2> QED BY <2>2 DEF Strict
<1>5. place \in Injection(S, 1..n)
  <2>1. \A x \in S : place[x] \in 1..n
    BY <1>1, <1>2
  <2>2. \A x, y \in S : place[x] = place[y] => x = y
    <3>1. ASSUME NEW x \in S, NEW y \in S, place[x] = place[y]
          PROVE  P(x) = P(y)
      BY <1>2, <3>1
    <3> QED BY <1>4, <3>1
  <2> QED BY <2>1, <2>2 DEF Injection, IsInjective
<1>6. place \in Surjection(S, 1..n)
  BY <1>1, <1>5, FS_Interval, FS_Injection
<1>7. ASSUME NEW k \in 1..n
      PROVE  list[k] \in S /\ P(list[k]) = k - 1
  <2>1. \E x \in S : place[x] = k
    BY <1>6 DEF Surjection
  <2>2. \E x \in S : P(x) = k - 1
    BY <1>2, <2>1
  <2>3. list[k] = CHOOSE x \in S : P(x) = k - 1
    BY DEF InOrder, Below
  <2> HIDE DEF list, P
  <2> QED BY <2>2, <2>3
<1>8. list \in [1..n -> S]
  <2> DEFINE at(k) == CHOOSE x \in S : Cardinality({y \in S : <<y, x>> \in before}) = k - 1
  <2>1. list = [k \in 1..n |-> at(k)]
    BY DEF InOrder
  <2>2. \A k \in 1..n : at(k) \in S
    BY <1>7, <2>1
  <2> HIDE DEF at
  <2> HIDE DEF list
  <2> QED BY <2>1, <2>2
<1>9. ASSUME NEW x \in S
      PROVE  \E k \in 1..n : list[k] = x
  <2>1. P(x) + 1 \in 1..n /\ P(x) \in Nat
    BY <1>1, <1>2
  <2>2. list[P(x) + 1] \in S /\ P(list[P(x) + 1]) = P(x)
    BY <1>7, <2>1
  <2> HIDE DEF list, P
  <2> QED BY <1>4, <2>1, <2>2
<1>10. ASSUME NEW j \in 1..n, NEW k \in 1..n
       PROVE  j < k <=> <<list[j], list[k]>> \in before
  <2>1. /\ list[j] \in S /\ P(list[j]) = j - 1
        /\ list[k] \in S /\ P(list[k]) = k - 1
    BY <1>7
  <2>2. P(list[j]) < P(list[k]) <=> <<list[j], list[k]>> \in before
    BY <1>3, <2>1
  <2> HIDE DEF list, P
  <2> QED BY <1>1, <2>1, <2>2
<1> QED BY <1>1, <1>8, <1>9, <1>10
==============================================================================
