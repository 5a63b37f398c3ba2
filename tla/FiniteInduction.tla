-------------------------- MODULE FiniteInduction --------------------------
(* Facts about finite sets of numbers and about bounded iteration that the   *)
(* proofs of the components share. Each speaks of a set or of a function, so  *)
(* that it can be cited for a particular one: induction is for a set of       *)
(* numbers, iteration for a function from one value to the next.              *)
EXTENDS Integers, FiniteSets, FiniteSetsExt, FiniteSetTheorems, TLAPS

(* A finite set of integers that is not empty has a greatest element: one    *)
(* whose set of greater elements is minimal has no greater element at all.   *)
LEMMA FiniteMax ==
    ASSUME NEW S \in SUBSET Int, IsFiniteSet(S), S # {}
    PROVE  Max(S) \in S /\ \A y \in S : Max(S) >= y
<1> DEFINE Above(x) == {y \in S : y > x}
           T == {Above(x) : x \in S}
           R == StrictSubsetOrdering(S)
<1>1. IsWellFoundedOn(R, FiniteSubsetsOf(S))
  BY FS_StrictSubsetOrderingWellFounded
<1>2. T \subseteq FiniteSubsetsOf(S) /\ T # {}
  <2>1. \A x \in S : Above(x) \in SUBSET S
    OBVIOUS
  <2>2. \A x \in S : IsFiniteSet(Above(x))
    <3> HIDE DEF Above
    <3> QED BY <2>1, FS_Subset
  <2> QED BY <2>1, <2>2 DEF FiniteSubsetsOf
<1>3. PICK m \in T : \A u \in T : <<u, m>> \notin R
  <2> HIDE DEF T, R
  <2> QED BY <1>1, <1>2, WFMin
<1>4. PICK x \in S : m = Above(x)
  BY <1>3
<1>5. \A y \in S : x >= y
  <2>1. SUFFICES ASSUME NEW y \in S, y > x PROVE FALSE
    OBVIOUS
  <2>2. Above(y) \subseteq Above(x) /\ Above(y) # Above(x)
    <3>1. \A z \in S : z > y => z > x
      BY <2>1
    <3>2. y \in Above(x) /\ y \notin Above(y)
      BY <2>1
    <3> QED BY <3>1, <3>2
  <2>3. <<Above(y), m>> \in R
    BY <1>4, <2>2 DEF StrictSubsetOrdering
  <2> QED BY <1>3, <2>3
<1> QED BY <1>5 DEF Max

\* A set of natural numbers that is not empty has a least element.
LEMMA NatMin ==
    ASSUME NEW S \in SUBSET Nat, S # {}
    PROVE  Min(S) \in S /\ \A y \in S : Min(S) <= y
<1>1. PICK n \in S : TRUE
  OBVIOUS
<1> DEFINE T == {y \in 0 .. n : y \in S}
           U == {n - y : y \in T}
<1>2. U \in SUBSET Int /\ U \subseteq 0 .. n /\ U # {}
  <2>1. n \in Nat /\ n \in T
    BY <1>1
  <2>2. \A y \in T : n - y \in 0 .. n
    BY <2>1
  <2> HIDE DEF T
  <2>3. U \subseteq 0 .. n /\ n - n \in U
    BY <2>1, <2>2
  <2> QED BY <2>1, <2>3
<1>3. IsFiniteSet(U)
  <2>1. IsFiniteSet(0 .. n)
    BY <1>1, FS_Interval
  <2> HIDE DEF U
  <2> QED BY <1>2, <2>1, FS_Subset
<1>4. Max(U) \in U /\ \A y \in U : Max(U) >= y
  BY <1>2, <1>3, FiniteMax
<1>5. PICK x \in T : Max(U) = n - x
  BY <1>4
<1> HIDE DEF U
<1>6. \A y \in S : x <= y
  <2> SUFFICES ASSUME NEW y \in S, y < x PROVE FALSE
    BY <1>1
  <2>1. y \in T /\ x \in Nat
    BY <1>1, <1>5
  <2>2. n - y \in U
    BY <2>1 DEF U
  <2>3. n - x >= n - y
    BY <1>4, <1>5, <2>2
  <2> QED BY <1>1, <2>1, <2>3
<1> QED BY <1>5, <1>6 DEF Min

\* Induction, for the set of numbers a property holds of.
LEMMA SetInduction ==
    ASSUME NEW S \in SUBSET Nat, 0 \in S, \A n \in S : n + 1 \in S
    PROVE  S = Nat
<1> DEFINE T == Nat \ S
<1> SUFFICES ASSUME T # {} PROVE FALSE
  OBVIOUS
<1>1. Min(T) \in T /\ \A y \in T : Min(T) <= y
  BY NatMin
<1>2. Min(T) - 1 \in S
  <2>1. Min(T) \in Nat /\ Min(T) # 0
    BY <1>1
  <2> QED BY <1>1, <2>1
<1> QED BY <1>1, <1>2

\* The same up to a bound.
LEMMA BoundedInduction ==
    ASSUME NEW n \in Nat, NEW S \in SUBSET (0 .. n), 0 \in S,
           \A i \in S : i < n => i + 1 \in S
    PROVE  S = 0 .. n
<1> DEFINE T == S \cup {i \in Nat : i > n}
<1>1. T = Nat
  <2>1. T \in SUBSET Nat /\ 0 \in T
    <3>1. S \subseteq Nat
      OBVIOUS
    <3> QED BY <3>1
  <2>2. \A i \in T : i + 1 \in T
    OBVIOUS
  <2> HIDE DEF T
  <2> QED BY <2>1, <2>2, SetInduction
<1>2. \A i \in 0 .. n : i \in T /\ ~ i > n
  BY <1>1
<1> QED BY <1>2

(* Iterating a function n times: the sequence of its values exists. Recursive *)
(* functions over 0 .. n are of this form.                                    *)
StepsIn(G, n, A) == G \in [(1 .. n) \X A -> A]

IsIteration(f, G, a, n, A) ==
    f \in [0 .. n -> A] /\ f[0] = a /\ \A i \in 1 .. n : f[i] = G[<<i, f[i - 1]>>]

LEMMA IterationExists ==
    ASSUME NEW n \in Nat, NEW A, NEW a \in A, NEW G, StepsIn(G, n, A)
    PROVE  \E f : IsIteration(f, G, a, n, A)
<1> DEFINE Upto(f, m) == f[0] = a /\ \A i \in 1 .. m : f[i] = G[<<i, f[i - 1]>>]
           S == {m \in 0 .. n : \E f \in [0 .. m -> A] : Upto(f, m)}
<1>1. 0 \in S
  <2> DEFINE h == [i \in 0 .. 0 |-> a]
  <2>1. h \in [0 .. 0 -> A] /\ Upto(h, 0)
    OBVIOUS
  <2> HIDE DEF h, Upto
  <2>2. \E f \in [0 .. 0 -> A] : Upto(f, 0)
    BY <2>1
  <2> QED BY <2>2
<1>2. ASSUME NEW m \in S, m < n PROVE m + 1 \in S
  <2>1. m \in 0 .. n /\ m + 1 \in 1 .. n
    BY <1>2
  <2>2. PICK f \in [0 .. m -> A] : Upto(f, m)
    BY <1>2
  <2> DEFINE g == [i \in 0 .. m + 1 |-> IF i <= m THEN f[i] ELSE G[<<m + 1, f[m]>>]]
  <2>3. f[m] \in A /\ G[<<m + 1, f[m]>>] \in A
    BY <2>1 DEF StepsIn
  <2>4. g \in [0 .. m + 1 -> A]
    BY <2>1, <2>3
  <2>5. \A i \in 0 .. m : g[i] = f[i]
    BY <2>1
  <2>6. g[m + 1] = G[<<m + 1, g[m]>>]
    <3>1. m + 1 \in 0 .. m + 1 /\ ~ m + 1 <= m /\ m \in 0 .. m
      BY <2>1
    <3>2. g[m + 1] = G[<<m + 1, f[m]>>]
      BY <3>1
    <3> HIDE DEF g
    <3> QED BY <2>5, <3>1, <3>2
  <2>7. Upto(g, m + 1)
    <3> HIDE DEF g
    <3>1. g[0] = a
      BY <2>1, <2>2, <2>5
    <3>2. ASSUME NEW i \in 1 .. m PROVE g[i] = G[<<i, g[i - 1]>>]
      <4>1. i \in 0 .. m /\ i - 1 \in 0 .. m
        BY <2>1
      <4> QED BY <2>2, <2>5, <4>1
    <3>3. ASSUME NEW i \in 1 .. m + 1 PROVE g[i] = G[<<i, g[i - 1]>>]
      <4>1. CASE i = m + 1
        <5>1. i - 1 = m
          BY <2>1, <4>1
        <5> QED BY <2>6, <4>1, <5>1
      <4>2. CASE i # m + 1
        BY <2>1, <3>2, <4>2
      <4> QED BY <4>1, <4>2
    <3> QED BY <3>1, <3>3
  <2> HIDE DEF g, Upto
  <2> QED BY <2>1, <2>4, <2>7
<1>3. S = 0 .. n
  <2>1. S \in SUBSET (0 .. n)
    OBVIOUS
  <2> HIDE DEF S
  <2> QED BY <1>1, <1>2, <2>1, BoundedInduction
<1>4. n \in S
  <2> HIDE DEF S
  <2> QED BY <1>3
<1>5. PICK f \in [0 .. n -> A] : Upto(f, n)
  BY <1>4
<1>6. IsIteration(f, G, a, n, A)
  BY <1>5 DEF IsIteration
<1> QED BY <1>6
=============================================================================
