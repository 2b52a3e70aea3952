----------------------------- MODULE Induction ------------------------------
(***************************************************************************)
(* Induction over the naturals as facts about sets, for the proof modules. *)
(* The library's induction theorems take the induction hypothesis as an    *)
(* operator; here it is a set of naturals, which a proof can define and    *)
(* pass like any other value.                                              *)
(***************************************************************************)
EXTENDS Integers, FiniteSetTheorems, TLAPS

\* A set of naturals that is not empty has a least element: otherwise the
\* initial segments that end in it would be an infinite descending chain of
\* finite sets.
LEMMA LeastElement ==
  ASSUME NEW S \in SUBSET Nat, S # {}
  PROVE  \E m \in S : \A n \in S : m <= n
  <1> DEFINE T == {0..m : m \in S}
             R == StrictSubsetOrdering(Nat)
  <1>1. IsWellFoundedOn(R, FiniteSubsetsOf(Nat))
    BY FS_StrictSubsetOrderingWellFounded
  <1>2. T \subseteq FiniteSubsetsOf(Nat)
    <2>1. ASSUME NEW m \in S PROVE 0..m \in FiniteSubsetsOf(Nat)
      <3>1. IsFiniteSet(0..m)
        BY FS_Interval
      <3>2. 0..m \subseteq Nat
        OBVIOUS
      <3> QED BY <3>1, <3>2 DEF FiniteSubsetsOf
    <2> QED BY <2>1
  <1>3. T # {}
    OBVIOUS
  <1>4. \E x \in T : \A y \in T : <<y, x>> \notin R
    <2> HIDE DEF T, R
    <2> QED BY <1>1, <1>2, <1>3, WFMin
  <1>5. PICK m \in S : \A k \in S : <<0..k, 0..m>> \notin R
    BY <1>4
  <1>6. ASSUME NEW k \in S, k < m PROVE FALSE
    <2>1. 0..k \in SUBSET Nat /\ 0..m \in SUBSET Nat /\ 0..k \subseteq 0..m
      BY <1>6
    <2>2. m \in 0..m /\ m \notin 0..k
      BY <1>6
    <2>3. <<0..k, 0..m>> \in R
      BY <2>1, <2>2 DEF StrictSubsetOrdering
    <2> QED BY <1>5, <2>3
  <1> QED BY <1>6

\* A set that holds zero and is closed under successor holds every natural.
LEMMA InductiveSet ==
  ASSUME NEW S \in SUBSET Nat, 0 \in S, \A n \in S : n + 1 \in S
  PROVE  S = Nat
  <1> SUFFICES ASSUME Nat \ S # {} PROVE FALSE
    OBVIOUS
  <1>1. PICK m \in Nat \ S : \A n \in Nat \ S : m <= n
    BY LeastElement
  <1> QED BY <1>1

\* The same up to a bound.
LEMMA InductiveInterval ==
  ASSUME NEW n \in Nat, NEW S, 0 \in S, \A i \in 0..(n - 1) : i \in S => i + 1 \in S
  PROVE  0..n \subseteq S
  <1> DEFINE T == {i \in Nat : i <= n => i \in S}
  <1>1. 0 \in T /\ \A i \in T : i + 1 \in T
    OBVIOUS
  <1>2. T = Nat
    <2> HIDE DEF T
    <2>1. T \in SUBSET Nat
      BY DEF T
    <2> QED BY <1>1, <2>1, InductiveSet
  <1> QED BY <1>2

\* A bounded set of naturals that is not empty has a greatest element.
LEMMA GreatestElement ==
  ASSUME NEW n \in Nat, NEW S \in SUBSET (0..n), S # {}
  PROVE  \E m \in S : \A k \in S : k <= m
  <1> DEFINE T == {k \in 0..n : n - k \in S}
  <1>1. T \in SUBSET Nat
    OBVIOUS
  <1>2. T # {}
    <2>1. PICK k \in S : TRUE
      OBVIOUS
    <2>2. n - k \in 0..n /\ n - (n - k) = k
      OBVIOUS
    <2> QED BY <2>1, <2>2
  <1>3. PICK t \in T : \A u \in T : t <= u
    <2> HIDE DEF T
    <2> QED BY <1>1, <1>2, LeastElement
  <1>4. ASSUME NEW k \in S PROVE k <= n - t
    <2>1. n - k \in 0..n /\ n - (n - k) = k
      OBVIOUS
    <2>2. t <= n - k
      BY <1>3, <2>1
    <2> QED BY <2>2
  <1> QED BY <1>3, <1>4

\* f runs through n steps on D from base.
Runs(f, n, D, base, step) ==
  /\ f \in [0..n -> D]
  /\ f[0] = base
  /\ \A i \in 1..n : f[i] = step[i][f[i - 1]]

\* A function can be defined by recursion on an interval.
LEMMA Recursion ==
  ASSUME NEW n \in Nat, NEW D, NEW base \in D, NEW step \in [1..n -> [D -> D]]
  PROVE  \E f : Runs(f, n, D, base, step)
  <1> DEFINE Defines(f, m) ==
               /\ f \in [0..m -> D]
               /\ f[0] = base
               /\ \A i \in 1..m : f[i] = step[i][f[i - 1]]
             S == {m \in 0..n : \E f : Defines(f, m)}
  <1>1. 0 \in S
    <2> DEFINE g == [i \in 0..0 |-> base]
    <2>1. Defines(g, 0)
      OBVIOUS
    <2>2. 0 \in 0..n
      OBVIOUS
    <2> HIDE DEF g, Defines
    <2> QED BY <2>1, <2>2
  <1>2. ASSUME NEW m \in 0..(n - 1), m \in S PROVE m + 1 \in S
    <2>1. PICK f : Defines(f, m)
      BY <1>2
    <2> DEFINE g == [i \in 0..(m + 1) |-> IF i <= m THEN f[i] ELSE step[m + 1][f[m]]]
    <2>2. step[m + 1][f[m]] \in D
      BY <2>1
    <2>3. g \in [0..(m + 1) -> D] /\ g[0] = base
      BY <2>1, <2>2
    <2>4. ASSUME NEW i \in 1..(m + 1) PROVE g[i] = step[i][g[i - 1]]
      <3>1. CASE i <= m
        BY <2>1, <3>1
      <3>2. CASE i = m + 1
        BY <2>1, <3>2
      <3> QED BY <3>1, <3>2
    <2> HIDE DEF g
    <2>5. Defines(g, m + 1)
      BY <2>3, <2>4
    <2>6. m + 1 \in 0..n
      OBVIOUS
    <2> HIDE DEF Defines
    <2> QED BY <2>5, <2>6
  <1>3. n \in S
    <2> HIDE DEF S
    <2>1. 0..n \subseteq S
      BY <1>1, <1>2, InductiveInterval
    <2> QED BY <2>1
  <1>4. PICK f : Defines(f, n)
    BY <1>3
  <1> QED BY <1>4 DEF Runs
=============================================================================
