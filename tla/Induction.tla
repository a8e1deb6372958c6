------------------------------ MODULE Induction ------------------------------
(***************************************************************************)
(* Induction over the natural numbers in a form that takes sets and        *)
(* functions for its arguments: what the loops of the program compute is   *)
(* proved with it.  That a set of numbers has a least element follows from *)
(* the well-foundedness of the strict subset relation on finite sets, by   *)
(* way of the sets 0..n.                                                   *)
(***************************************************************************)
EXTENDS Integers, FiniteSetTheorems, WellFoundedInduction, TLAPS

(* A set of naturals that is not empty has a least element.                *)
LEMMA LeastNat ==
    ASSUME NEW T \in SUBSET Nat, T # {}
    PROVE  \E m \in T : \A k \in T : m <= k
<1> DEFINE X == {0..n : n \in T}
<1>1. X \subseteq FiniteSubsetsOf(Nat)
  <2> SUFFICES ASSUME NEW n \in T PROVE 0..n \in FiniteSubsetsOf(Nat)
    OBVIOUS
  <2>1. IsFiniteSet(0..n)
    BY FS_Interval
  <2> QED
    BY <2>1 DEF FiniteSubsetsOf
<1>2. \E x \in X : \A y \in X : <<y, x>> \notin StrictSubsetOrdering(Nat)
  <2>1. X # {}
    OBVIOUS
  <2>2. IsWellFoundedOn(StrictSubsetOrdering(Nat), FiniteSubsetsOf(Nat))
    BY FS_StrictSubsetOrderingWellFounded
  <2> HIDE DEF X
  <2> QED
    BY <1>1, <2>1, <2>2, WFMin
<1>3. PICK m \in T : \A k \in T : <<0..k, 0..m>> \notin StrictSubsetOrdering(Nat)
  BY <1>2
<1>4. ASSUME NEW k \in T, k < m
      PROVE  FALSE
  <2> DEFINE A == 0..k
             B == 0..m
  <2>1. A \subseteq B /\ A # B /\ A \in SUBSET Nat /\ B \in SUBSET Nat
    <3>1. m \in B /\ m \notin A
      BY <1>4
    <3>2. A \subseteq B
      BY <1>4
    <3> QED
      BY <3>1, <3>2
  <2>2. <<A, B>> \in StrictSubsetOrdering(Nat)
    <3> HIDE DEF A, B
    <3> QED
      BY <2>1 DEF StrictSubsetOrdering
  <2> QED
    BY <2>2, <1>3
<1> QED
  BY <1>4

(* A set that has 0, and with a number below N the next one, has 0..N.     *)
LEMMA UpTo ==
    ASSUME NEW N \in Nat, NEW S, 0 \in S,
           \A k \in 0..(N - 1) : k \in S => k + 1 \in S
    PROVE  0..N \subseteq S
<1> DEFINE T == {n \in 0..N : n \notin S}
<1> SUFFICES ASSUME T # {} PROVE FALSE
  OBVIOUS
<1>1. PICK m \in T : \A k \in T : m <= k
  <2>1. T \in SUBSET Nat
    OBVIOUS
  <2> HIDE DEF T
  <2> QED
    BY <2>1, LeastNat
<1>2. m # 0 /\ m \in 0..N
  OBVIOUS
<1>3. m - 1 \in 0..(N - 1) /\ m - 1 \in S
  BY <1>1, <1>2
<1> QED
  BY <1>3, <1>2

(* A loop of N steps, the k-th of which takes its accumulator from a to    *)
(* step[k][a], computes a sequence of accumulators.                        *)
LEMMA LoopRuns ==
    ASSUME NEW A, NEW base \in A, NEW N \in Nat, NEW step \in [1..N -> [A -> A]]
    PROVE  \E f \in [0..N -> A] :
              f[0] = base /\ \A k \in 1..N : f[k] = step[k][f[k - 1]]
<1> DEFINE Runs(f, n) == f[0] = base /\ \A k \in 1..n : f[k] = step[k][f[k - 1]]
           S == {n \in 0..N : \E f \in [0..n -> A] : Runs(f, n)}
<1>1. 0 \in S
  <2> DEFINE f == [k \in 0..0 |-> base]
  <2>1. f \in [0..0 -> A] /\ Runs(f, 0)
    OBVIOUS
  <2>2. \E e \in [0..0 -> A] : Runs(e, 0)
    <3> HIDE DEF f
    <3> QED
      BY <2>1
  <2> QED
    BY <2>2
<1>2. ASSUME NEW n \in 0..(N - 1), n \in S
      PROVE  n + 1 \in S
  <2>1. PICK f \in [0..n -> A] : Runs(f, n)
    BY <1>2
  <2> DEFINE g == [k \in 0..(n + 1) |-> IF k = n + 1 THEN step[n + 1][f[n]] ELSE f[k]]
  <2>2. step[n + 1][f[n]] \in A
    OBVIOUS
  <2>3. g \in [0..(n + 1) -> A]
    BY <2>2
  <2>4. g[0] = base
    BY <2>1
  <2>5. ASSUME NEW k \in 1..(n + 1)
        PROVE  g[k] = step[k][g[k - 1]]
    <3>1. CASE k = n + 1
      BY <3>1
    <3>2. CASE k # n + 1
      <4>1. k \in 1..n /\ k \in 0..(n + 1) /\ k - 1 \in 0..(n + 1) /\ k - 1 # n + 1
        BY <3>2
      <4>2. g[k] = f[k] /\ g[k - 1] = f[k - 1]
        BY <4>1, <3>2
      <4> QED
        BY <4>1, <4>2, <2>1
    <3> QED
      BY <3>1, <3>2
  <2>6. Runs(g, n + 1)
    BY <2>4, <2>5
  <2>7. \E e \in [0..(n + 1) -> A] : Runs(e, n + 1)
    <3> HIDE DEF g, Runs
    <3> QED
      BY <2>3, <2>6
  <2>8. n + 1 \in 0..N
    OBVIOUS
  <2> QED
    BY <2>7, <2>8
<1>3. 0..N \subseteq S
  <2> HIDE DEF S
  <2> QED
    BY <1>1, <1>2, UpTo
<1> QED
  BY <1>3

(* What a loop computes from what it has computed, each time from a member *)
(* of A another one, is in A throughout.                                   *)
LEMMA LoopTyped ==
    ASSUME NEW A, NEW N \in Nat, NEW e, e[0] \in A,
           \A k \in 1..N : e[k - 1] \in A => e[k] \in A
    PROVE  \A k \in 0..N : e[k] \in A
<1> DEFINE S == {k \in 0..N : e[k] \in A}
<1>1. 0 \in S
  OBVIOUS
<1>2. ASSUME NEW k \in 0..(N - 1), k \in S PROVE k + 1 \in S
  <2>1. k + 1 \in 1..N /\ (k + 1) - 1 = k
    OBVIOUS
  <2> QED
    BY <1>2, <2>1
<1>3. 0..N \subseteq S
  <2> HIDE DEF S
  <2> QED
    BY <1>1, <1>2, UpTo
<1> QED
  BY <1>3

(* The numbers a loop counts with. *)
Count == Nat

(* A loop that counts runs as LoopRuns says.                               *)
LEMMA CountRuns ==
    ASSUME NEW N \in Nat, NEW step \in [1..N -> [Count -> Count]], 0 \in Count
    PROVE  \E f \in [0..N -> Count] :
              f[0] = 0 /\ \A k \in 1..N : f[k] = step[k][f[k - 1]]
BY LoopRuns

(* The sums of the first members of a list of numbers exist.               *)
LEMMA SumRuns ==
    ASSUME NEW N \in Nat, NEW L \in [1..N -> Nat]
    PROVE  \E f \in [0..N -> Nat] :
              f[0] = 0 /\ \A k \in 1..N : f[k] = f[k - 1] + L[k]
<1> DEFINE step == [k \in 1..N |-> [a \in Nat |-> a + L[k]]]
<1>1. step \in [1..N -> [Nat -> Nat]]
  OBVIOUS
<1>2. PICK f \in [0..N -> Nat] : f[0] = 0 /\ \A k \in 1..N : f[k] = step[k][f[k - 1]]
  <2> HIDE DEF step
  <2> QED
    BY <1>1, CountRuns DEF Count
<1>3. ASSUME NEW k \in 1..N
      PROVE  f[k] = f[k - 1] + L[k]
  <2>1. f[k - 1] \in Nat
    OBVIOUS
  <2>2. step[k][f[k - 1]] = f[k - 1] + L[k]
    BY <2>1
  <2> QED
    BY <1>2, <2>2
<1> QED
  BY <1>2, <1>3
=============================================================================
