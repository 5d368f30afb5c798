------------------------------ MODULE Induction -----------------------------
(* Induction over the natural numbers with a set for its hypothesis, and   *)
(* what it says of functions that are defined by recursion.                *)
EXTENDS FiniteSetTheorems, TLAPS

\* A set of numbers that is not empty has a least element.
LEMMA LeastNumber ==
  ASSUME NEW S \in SUBSET Nat, S # {}
  PROVE  \E n \in S : \A m \in S : n <= m
<1>. DEFINE below == {0 .. n : n \in S}
<1>1. IsWellFoundedOn(StrictSubsetOrdering(Nat), FiniteSubsetsOf(Nat))
  BY FS_StrictSubsetOrderingWellFounded
<1>2. below \subseteq FiniteSubsetsOf(Nat) /\ below # {}
  <2>1. ASSUME NEW n \in S PROVE 0 .. n \in FiniteSubsetsOf(Nat)
    BY FS_Interval DEF FiniteSubsetsOf
  <2>. QED  BY <2>1
<1>. HIDE DEF below
<1>3. PICK x \in below : \A y \in below : <<y, x>> \notin StrictSubsetOrdering(Nat)
  BY <1>1, <1>2, WFMin
<1>4. PICK n \in S : x = 0 .. n
  BY DEF below
<1>5. ASSUME NEW m \in S, m < n PROVE FALSE
  <2>1. 0 .. m \in below
    BY DEF below
  <2>2. <<0 .. m, 0 .. n>> \in StrictSubsetOrdering(Nat)
    <3>1. 0 .. m \subseteq 0 .. n /\ n \in 0 .. n /\ n \notin 0 .. m
      BY <1>5
    <3>. QED  BY <3>1 DEF StrictSubsetOrdering
  <2>. QED  BY <1>3, <1>4, <2>1, <2>2
<1>. QED  BY <1>5

\* A set that holds 0 and with each number its successor holds them all.
LEMMA SetInduction ==
  ASSUME NEW S, 0 \in S, \A n \in Nat : n \in S => n + 1 \in S
  PROVE  Nat \subseteq S
<1>1. SUFFICES ASSUME Nat \ S # {} PROVE FALSE
  OBVIOUS
<1>2. PICK n \in Nat \ S : \A m \in Nat \ S : n <= m
  BY <1>1, LeastNumber
<1>3. n # 0 /\ n - 1 \in Nat
  BY <1>2
<1>. QED  BY <1>2, <1>3

\* The same up to a bound.
LEMMA BoundedInduction ==
  ASSUME NEW S, NEW bound \in Nat, 0 \in S,
         \A n \in 0 .. bound - 1 : n \in S => n + 1 \in S
  PROVE  0 .. bound \subseteq S
<1>. DEFINE T == {n \in Nat : n <= bound => n \in S}
<1>1. 0 \in T /\ \A n \in Nat : n \in T => n + 1 \in T
  OBVIOUS
<1>. HIDE DEF T
<1>2. Nat \subseteq T
  BY <1>1, SetInduction
<1>. QED  BY <1>2 DEF T

\* f maps 0 to start, and each further number to one step from the one before.
Recurs(f, A, start, bound, step) ==
  /\ f \in [0 .. bound -> A]
  /\ f[0] = start
  /\ \A i \in 1 .. bound : f[i] = step[<<f[i - 1], i>>]

\* A function can be defined by recursion up to a bound.
LEMMA BoundedRecursion ==
  ASSUME NEW A, NEW start \in A, NEW bound \in Nat, NEW step \in [A \X (1 .. bound) -> A]
  PROVE  \E f : Recurs(f, A, start, bound, step)
<1>. DEFINE Solves(f, n) == f[0] = start /\ \A i \in 1 .. n : f[i] = step[<<f[i - 1], i>>]
            S == {n \in 0 .. bound : \E f \in [0 .. n -> A] : Solves(f, n)}
<1>1. 0 \in S
  <2>. DEFINE f == [i \in 0 .. 0 |-> start]
  <2>1. f \in [0 .. 0 -> A] /\ f[0] = start /\ 1 .. 0 = {}
    OBVIOUS
  <2>. HIDE DEF f
  <2>. QED  BY <2>1
<1>2. ASSUME NEW n \in 0 .. bound - 1, n \in S PROVE n + 1 \in S
  <2>1. PICK f \in [0 .. n -> A] : Solves(f, n)
    BY <1>2
  <2>. DEFINE g == [i \in 0 .. n + 1 |-> IF i = n + 1 THEN step[<<f[n], n + 1>>] ELSE f[i]]
  <2>2. n \in 0 .. n /\ n + 1 \in 1 .. bound /\ f[n] \in A
    OBVIOUS
  <2>3. step[<<f[n], n + 1>>] \in A
    BY <2>2
  <2>4. g \in [0 .. n + 1 -> A]
    BY <2>3
  <2>5. \A i \in 0 .. n : g[i] = f[i]
    OBVIOUS
  <2>6. g[n + 1] = step[<<f[n], n + 1>>]
    OBVIOUS
  <2>. HIDE DEF g
  <2>7. Solves(g, n + 1)
    <3>1. 0 \in 0 .. n /\ g[0] = start
      BY <2>1, <2>5
    <3>2. ASSUME NEW i \in 1 .. n + 1 PROVE g[i] = step[<<g[i - 1], i>>]
      <4>1. CASE i = n + 1
        BY <2>2, <2>5, <2>6, <4>1
      <4>2. CASE i \in 1 .. n
        <5>1. i \in 0 .. n /\ i - 1 \in 0 .. n
          BY <4>2
        <5>. QED  BY <2>1, <2>5, <4>2, <5>1
      <4>. QED  BY <4>1, <4>2
    <3>. QED  BY <3>1, <3>2
  <2>. QED  BY <2>4, <2>7
<1>. HIDE DEF S
<1>3. bound \in S
  BY <1>1, <1>2, BoundedInduction
<1>. QED  BY <1>3 DEF S, Recurs
=============================================================================
