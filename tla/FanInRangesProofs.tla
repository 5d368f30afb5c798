------------------------- MODULE FanInRangesProofs --------------------------
(* Theorems about FanInRanges, for words of any size, any bounds and any   *)
(* number of producers.  The sums are recursive functions; what they       *)
(* compute is proved with the inductions of Induction.                     *)
EXTENDS FanInRanges, Induction

-----------------------------------------------------------------------------
(* Sums. *)

\* The first n values of f are counts.
Counts(f, n) == \A i \in 1 .. n : f[i] \in Nat

\* r[i] is the sum of the first i values of f.
Sums(r, f, n) ==
  /\ r \in [0 .. n -> Nat]
  /\ r[0] = 0
  /\ \A i \in 1 .. n : r[i] = r[i - 1] + f[i]

LEMMA SumsUnique ==
  ASSUME NEW n \in Nat, NEW m \in 0 .. n, NEW f, NEW r, NEW s, Sums(r, f, n), Sums(s, f, m)
  PROVE  r[m] = s[m]
<1>. DEFINE S == {i \in 0 .. m : r[i] = s[i]}
<1>1. 0 \in S
  BY DEF Sums
<1>2. ASSUME NEW i \in 0 .. m - 1, i \in S PROVE i + 1 \in S
  <2>1. i + 1 \in 1 .. n /\ i + 1 \in 1 .. m /\ (i + 1) - 1 = i
    OBVIOUS
  <2>. QED  BY <1>2, <2>1 DEF Sums
<1>. HIDE DEF S
<1>3. m \in S
  BY <1>1, <1>2, BoundedInduction
<1>. QED  BY <1>3 DEF S

LEMMA SumOfSums ==
  ASSUME NEW n \in Nat, NEW f, Counts(f, n)
  PROVE  \E r : Sums(r, f, n) /\ SumOf(f, n) = r[n]
<1>. DEFINE step == [p \in Nat \X (1 .. n) |-> p[1] + f[p[2]]]
            Rec(r) == r = [i \in 0 .. n |-> IF i = 0 THEN 0 ELSE r[i - 1] + f[i]]
<1>1. step \in [Nat \X (1 .. n) -> Nat]
  BY DEF Counts
<1>2. PICK r : Recurs(r, Nat, 0, n, step)
  <2>. HIDE DEF step
  <2>1. 0 \in Nat
    OBVIOUS
  <2>2. \E r : Recurs(r, Nat, 0, n, step)
    BY <1>1, <2>1, BoundedRecursion, Zenon
  <2>. QED  BY <2>2
<1>3. \A i \in 1 .. n : i # 0 /\ r[i] = r[i - 1] + f[i]
  <2>. TAKE i \in 1 .. n
  <2>1. i - 1 \in 0 .. n /\ r[i - 1] \in Nat /\ i # 0
    BY <1>2 DEF Recurs
  <2>. QED  BY <1>2, <2>1 DEF Recurs
<1>4. Rec(r)
  BY <1>2, <1>3 DEF Recurs
<1>. HIDE DEF step
<1>5. SumOf(f, n) = (CHOOSE s : Rec(s))[n]
  BY DEF SumOf
<1>6. PICK s : Rec(s) /\ SumOf(f, n) = s[n]
  <2>. DEFINE s == CHOOSE s : Rec(s)
  <2>1. Rec(s)
    BY <1>4, Zenon
  <2>. QED  BY <1>5, <2>1
<1>7. /\ s[0] = 0
      /\ \A i \in 1 .. n : s[i] = s[i - 1] + f[i]
      /\ s = [i \in 0 .. n |-> s[i]]
  BY <1>6
<1>8. s \in [0 .. n -> Nat]
  <2>. DEFINE S == {i \in 0 .. n : s[i] \in Nat}
  <2>1. 0 \in S
    BY <1>7
  <2>2. ASSUME NEW i \in 0 .. n - 1, i \in S PROVE i + 1 \in S
    <3>1. i + 1 \in 1 .. n /\ (i + 1) - 1 = i
      OBVIOUS
    <3>2. s[i + 1] = s[i] + f[i + 1] /\ f[i + 1] \in Nat /\ s[i] \in Nat
      BY <1>7, <2>2, <3>1 DEF Counts
    <3>. QED  BY <3>2
  <2>. HIDE DEF S
  <2>3. 0 .. n \subseteq S
    BY <2>1, <2>2, BoundedInduction
  <2>. QED  BY <1>7, <2>3 DEF S
<1>. QED  BY <1>6, <1>7, <1>8 DEF Sums

\* What the sum is, one value after the other.
LEMMA SumOfNext ==
  ASSUME NEW n \in Nat, NEW f, Counts(f, n)
  PROVE  /\ SumOf(f, 0) = 0
         /\ \A i \in 0 .. n : SumOf(f, i) \in Nat
         /\ \A i \in 0 .. n - 1 : SumOf(f, i + 1) = SumOf(f, i) + f[i + 1]
<1>1. PICK r : Sums(r, f, n)
  BY SumOfSums
<1>2. ASSUME NEW i \in 0 .. n PROVE SumOf(f, i) = r[i]
  <2>1. Counts(f, i) /\ i \in Nat
    BY DEF Counts
  <2>2. PICK s : Sums(s, f, i) /\ SumOf(f, i) = s[i]
    BY <2>1, SumOfSums
  <2>. QED  BY <1>1, <2>2, SumsUnique
<1>3. r[0] = 0 /\ 0 \in 0 .. n /\ \A i \in 0 .. n : r[i] \in Nat
  BY <1>1 DEF Sums
<1>4. ASSUME NEW i \in 0 .. n - 1 PROVE SumOf(f, i + 1) = SumOf(f, i) + f[i + 1]
  <2>1. i + 1 \in 1 .. n /\ (i + 1) - 1 = i /\ i \in 0 .. n /\ i + 1 \in 0 .. n
    OBVIOUS
  <2>2. r[i + 1] = r[i] + f[i + 1]
    BY <1>1, <2>1 DEF Sums
  <2>. QED  BY <1>2, <2>1, <2>2
<1>. QED  BY <1>2, <1>3, <1>4

\* Larger values have a larger sum.
LEMMA SumOfGrows ==
  ASSUME NEW n \in Nat, NEW f, NEW g, Counts(f, n), Counts(g, n),
         \A i \in 1 .. n : f[i] <= g[i]
  PROVE  SumOf(f, n) <= SumOf(g, n)
<1>. DEFINE S == {i \in 0 .. n : SumOf(f, i) <= SumOf(g, i)}
<1>1. /\ SumOf(f, 0) = 0 /\ SumOf(g, 0) = 0
      /\ \A i \in 0 .. n : SumOf(f, i) \in Nat /\ SumOf(g, i) \in Nat
      /\ \A i \in 0 .. n - 1 : SumOf(f, i + 1) = SumOf(f, i) + f[i + 1]
      /\ \A i \in 0 .. n - 1 : SumOf(g, i + 1) = SumOf(g, i) + g[i + 1]
  BY SumOfNext
<1>2. 0 \in S
  BY <1>1
<1>3. ASSUME NEW i \in 0 .. n - 1, i \in S PROVE i + 1 \in S
  <2>1. i + 1 \in 1 .. n /\ i \in 0 .. n /\ i + 1 \in 0 .. n
    OBVIOUS
  <2>2. f[i + 1] \in Nat /\ g[i + 1] \in Nat /\ f[i + 1] <= g[i + 1]
    BY <2>1 DEF Counts
  <2>. QED  BY <1>1, <1>3, <2>1, <2>2
<1>. HIDE DEF S
<1>4. n \in S
  BY <1>2, <1>3, BoundedInduction
<1>. QED  BY <1>4 DEF S

LEMMA SumOfSame ==
  ASSUME NEW n \in Nat, NEW f, NEW g, Counts(f, n), \A i \in 1 .. n : f[i] = g[i]
  PROVE  SumOf(f, n) = SumOf(g, n)
<1>1. Counts(g, n) /\ \A i \in 1 .. n : f[i] <= g[i] /\ g[i] <= f[i]
  BY DEF Counts
<1>2. SumOf(f, n) <= SumOf(g, n) /\ SumOf(g, n) <= SumOf(f, n)
  BY <1>1, SumOfGrows
<1>3. SumOf(f, n) \in Nat /\ SumOf(g, n) \in Nat
  <2>1. n \in 0 .. n
    OBVIOUS
  <2>. QED  BY <1>1, <2>1, SumOfNext
<1>. QED  BY <1>2, <1>3

\* One value is part of the sum, and the others make up the rest of it.
LEMMA SumOfOthers ==
  ASSUME NEW n \in Nat \ {0}, NEW k \in 1 .. n, NEW f, NEW g, Counts(f, n),
         \A i \in 1 .. n - 1 : g[i] = IF i < k THEN f[i] ELSE f[i + 1]
  PROVE  /\ Counts(g, n - 1)
         /\ SumOf(g, n - 1) \in Nat
         /\ SumOf(f, n) = f[k] + SumOf(g, n - 1)
<1>. DEFINE S == {i \in 0 .. n - 1 : /\ i < k => SumOf(g, i) = SumOf(f, i)
                                     /\ i >= k - 1 => f[k] + SumOf(g, i) = SumOf(f, i + 1)}
<1>1. n - 1 \in Nat /\ Counts(g, n - 1) /\ f[k] \in Nat
  <2>1. \A i \in 1 .. n - 1 : i \in 1 .. n /\ i + 1 \in 1 .. n
    OBVIOUS
  <2>. QED  BY <2>1 DEF Counts
<1>2. /\ SumOf(f, 0) = 0 /\ SumOf(g, 0) = 0
      /\ \A i \in 0 .. n : SumOf(f, i) \in Nat
      /\ \A i \in 0 .. n - 1 : SumOf(g, i) \in Nat
      /\ \A i \in 0 .. n - 1 : SumOf(f, i + 1) = SumOf(f, i) + f[i + 1]
  BY <1>1, SumOfNext
<1>3. \A i \in 0 .. n - 2 : SumOf(g, i + 1) = SumOf(g, i) + g[i + 1]
  <2>1. (n - 1) - 1 = n - 2
    OBVIOUS
  <2>. QED  BY <1>1, <2>1, SumOfNext
<1>4. 0 \in S
  <2>1. 0 \in 0 .. n - 1 /\ SumOf(f, 0 + 1) = SumOf(f, 0) + f[0 + 1]
    BY <1>1, <1>2
  <2>2. 0 >= k - 1 => k = 0 + 1
    OBVIOUS
  <2>. QED  BY <1>1, <1>2, <2>1, <2>2
<1>5. ASSUME NEW i \in 0 .. (n - 1) - 1, i \in S PROVE i + 1 \in S
  <2>1. /\ i \in 0 .. n - 2 /\ i + 1 \in 0 .. n - 1 /\ i + 1 \in 1 .. n - 1 /\ i \in 0 .. n - 1
        /\ i + 1 + 1 \in 1 .. n /\ i + 1 \in 1 .. n
    OBVIOUS
  <2>2. /\ SumOf(g, i + 1) = SumOf(g, i) + g[i + 1]
        /\ SumOf(f, i + 1) = SumOf(f, i) + f[i + 1]
        /\ SumOf(f, i + 1 + 1) = SumOf(f, i + 1) + f[i + 1 + 1]
        /\ SumOf(g, i) \in Nat /\ SumOf(f, i) \in Nat
    BY <1>2, <1>3, <2>1
  <2>3. f[i + 1] \in Nat /\ f[i + 1 + 1] \in Nat
    BY <2>1 DEF Counts
  <2>4. CASE i + 1 < k
    <3>1. SumOf(g, i + 1) = SumOf(f, i + 1)
      BY <1>5, <2>1, <2>2, <2>4
    <3>2. i + 1 >= k - 1 => k = i + 1 + 1
      BY <2>4
    <3>. QED  BY <2>1, <2>2, <2>3, <2>4, <3>1, <3>2
  <2>5. CASE ~(i + 1 < k)
    <3>1. g[i + 1] = f[i + 1 + 1] /\ f[k] + SumOf(g, i) = SumOf(f, i + 1)
      BY <1>5, <2>1, <2>5
    <3>. QED  BY <1>1, <2>1, <2>2, <2>3, <2>5, <3>1
  <2>. QED  BY <2>4, <2>5
<1>. HIDE DEF S
<1>6. n - 1 \in S
  BY <1>1, <1>4, <1>5, BoundedInduction
<1>7. n - 1 >= k - 1 /\ (n - 1) + 1 = n /\ n - 1 \in 0 .. n - 1
  OBVIOUS
<1>. QED  BY <1>1, <1>2, <1>6, <1>7 DEF S

\* f stays between lo and hi.
Within(f, lo, hi, n) ==
  f \in [1 .. n -> Nat] /\ \A i \in 1 .. n : lo[i] <= f[i] /\ f[i] <= hi[i]

\* u is the sum of values that stay between lo and hi.
Reached(u, lo, hi, n) == \E f : Within(f, lo, hi, n) /\ SumOf(f, n) = u

\* Every sum between the least and the greatest one can be had.
LEMMA SumOfBetween ==
  ASSUME NEW n \in Nat, NEW lo, NEW hi, Counts(lo, n), Counts(hi, n),
         \A i \in 1 .. n : lo[i] <= hi[i],
         NEW t \in Nat, SumOf(lo, n) <= t, t <= SumOf(hi, n)
  PROVE  Reached(t, lo, hi, n)
<1>. DEFINE S == {m \in 0 .. n : \A u \in Nat :
                    SumOf(lo, m) <= u /\ u <= SumOf(hi, m) => Reached(u, lo, hi, m)}
<1>1. /\ SumOf(lo, 0) = 0 /\ SumOf(hi, 0) = 0
      /\ \A i \in 0 .. n : SumOf(lo, i) \in Nat /\ SumOf(hi, i) \in Nat
      /\ \A i \in 0 .. n - 1 : SumOf(lo, i + 1) = SumOf(lo, i) + lo[i + 1]
      /\ \A i \in 0 .. n - 1 : SumOf(hi, i + 1) = SumOf(hi, i) + hi[i + 1]
  BY SumOfNext
<1>2. ASSUME NEW m \in 0 .. n PROVE SumOf(lo, m) <= SumOf(hi, m)
  <2>1. m \in Nat /\ Counts(lo, m) /\ Counts(hi, m) /\ \A i \in 1 .. m : lo[i] <= hi[i]
    BY DEF Counts
  <2>. QED  BY <2>1, SumOfGrows
<1>3. 0 \in S
  <2>1. Reached(0, lo, hi, 0)
    <3>. DEFINE f == [i \in 1 .. 0 |-> 0]
    <3>1. f \in [1 .. 0 -> Nat] /\ 1 .. 0 = {}
      OBVIOUS
    <3>. HIDE DEF f
    <3>2. Within(f, lo, hi, 0) /\ Counts(f, 0)
      BY <3>1 DEF Within, Counts
    <3>3. SumOf(f, 0) = 0
      BY <3>2, SumOfNext
    <3>. QED  BY <3>2, <3>3 DEF Reached
  <2>. QED  BY <1>1, <2>1
<1>4. ASSUME NEW m \in 0 .. n - 1, m \in S PROVE m + 1 \in S
  <2>. SUFFICES ASSUME NEW u \in Nat, SumOf(lo, m + 1) <= u, u <= SumOf(hi, m + 1)
       PROVE  Reached(u, lo, hi, m + 1)
    BY <1>4
  <2>1. m \in 0 .. n /\ m + 1 \in 1 .. n /\ m + 1 \in 0 .. n /\ m \in Nat
    OBVIOUS
  <2>2. lo[m + 1] \in Nat /\ hi[m + 1] \in Nat /\ lo[m + 1] <= hi[m + 1]
    BY <2>1 DEF Counts
  <2>. DEFINE v == IF hi[m + 1] <= u - SumOf(lo, m) THEN hi[m + 1] ELSE u - SumOf(lo, m)
  <2>3. /\ v \in Nat /\ lo[m + 1] <= v /\ v <= hi[m + 1]
        /\ u - v \in Nat /\ SumOf(lo, m) <= u - v /\ u - v <= SumOf(hi, m)
    BY <1>1, <1>2, <2>1, <2>2
  <2>. HIDE DEF v
  <2>4. PICK f : Within(f, lo, hi, m) /\ SumOf(f, m) = u - v
    BY <1>4, <2>3 DEF Reached
  <2>. DEFINE g == [i \in 1 .. m + 1 |-> IF i = m + 1 THEN v ELSE f[i]]
  <2>5. g[m + 1] = v /\ \A i \in 1 .. m : g[i] = f[i]
    BY <2>1
  <2>6. g \in [1 .. m + 1 -> Nat]
    BY <2>3, <2>4 DEF Within
  <2>. HIDE DEF g
  <2>7. Within(g, lo, hi, m + 1)
    <3>1. lo[m + 1] <= g[m + 1] /\ g[m + 1] <= hi[m + 1]
      BY <2>3, <2>5
    <3>2. \A i \in 1 .. m : lo[i] <= g[i] /\ g[i] <= hi[i]
      BY <2>4, <2>5 DEF Within
    <3>3. ASSUME NEW i \in 1 .. m + 1 PROVE i \in 1 .. m \/ i = m + 1
      BY <2>1
    <3>4. \A i \in 1 .. m + 1 : lo[i] <= g[i] /\ g[i] <= hi[i]
      BY <3>1, <3>2, <3>3
    <3>. QED  BY <2>6, <3>4 DEF Within
  <2>8. SumOf(g, m + 1) = SumOf(g, m) + g[m + 1]
    <3>1. Counts(g, m + 1) /\ m + 1 \in Nat /\ m \in 0 .. (m + 1) - 1
      BY <2>6 DEF Counts
    <3>. QED  BY <3>1, SumOfNext
  <2>9. SumOf(g, m) = SumOf(f, m)
    <3>1. Counts(g, m)
      BY <2>6 DEF Counts
    <3>. QED  BY <2>1, <2>5, <3>1, SumOfSame
  <2>10. SumOf(g, m + 1) = u
    BY <2>3, <2>4, <2>5, <2>8, <2>9
  <2>. QED  BY <2>7, <2>10 DEF Reached
<1>. HIDE DEF S
<1>5. n \in S
  BY <1>3, <1>4, BoundedInduction
<1>. QED  BY <1>5 DEF S

-----------------------------------------------------------------------------
(* The checked sum is the sum, if it is a machine word. *)

LEMMA SumToRuns ==
  ASSUME NEW s \in Seq(Word \cup {None})
  PROVE  \E r \in [0 .. Len(s) -> Word \cup {None}] :
           /\ r[0] = 0
           /\ \A i \in 1 .. Len(s) : r[i] = CheckedAdd(r[i - 1], s[i])
           /\ SumTo(s) = r[Len(s)]
<1>. DEFINE A == Word \cup {None}
            n == Len(s)
            step == [p \in A \X (1 .. n) |-> CheckedAdd(p[1], s[p[2]])]
            Rec(r) == r = [i \in 0 .. n |-> IF i = 0 THEN 0 ELSE CheckedAdd(r[i - 1], s[i])]
<1>1. n \in Nat /\ \A i \in 1 .. n : s[i] \in A
  OBVIOUS
<1>2. ASSUME NEW a \in A, NEW b \in A PROVE CheckedAdd(a, b) \in A
  BY RangesAssumption DEF CheckedAdd, Word
<1>3. 0 \in A
  BY RangesAssumption DEF Word
<1>. HIDE DEF n, A
<1>4. step \in [A \X (1 .. n) -> A]
  BY <1>1, <1>2
<1>5. PICK r : Recurs(r, A, 0, n, step)
  <2>. HIDE DEF step
  <2>1. \E r : Recurs(r, A, 0, n, step)
    BY <1>1, <1>3, <1>4, BoundedRecursion, Zenon
  <2>. QED  BY <2>1
<1>6. r \in [0 .. n -> A] /\ r[0] = 0 /\ \A i \in 1 .. n : i # 0 /\ r[i] = CheckedAdd(r[i - 1], s[i])
  <2>1. \A i \in 1 .. n : i - 1 \in 0 .. n /\ i # 0
    BY <1>1
  <2>. QED  BY <1>5, <2>1 DEF Recurs
<1>7. Rec(r)
  BY <1>6
<1>8. SumTo(s) = (CHOOSE q : Rec(q))[n]
  BY DEF SumTo, n
<1>9. PICK q : Rec(q) /\ SumTo(s) = q[n]
  <2>. DEFINE q == CHOOSE q : Rec(q)
  <2>1. Rec(q)
    BY <1>7, Zenon
  <2>. QED  BY <1>8, <2>1
<1>10. /\ q[0] = 0
       /\ \A i \in 1 .. n : q[i] = CheckedAdd(q[i - 1], s[i])
       /\ q = [i \in 0 .. n |-> q[i]]
  <2>1. \A i \in 0 .. n : q[i] = IF i = 0 THEN 0 ELSE CheckedAdd(q[i - 1], s[i])
    BY <1>9
  <2>2. q = [i \in 0 .. n |-> q[i]]
    BY <1>9
  <2>3. 0 \in 0 .. n /\ \A i \in 1 .. n : i \in 0 .. n /\ i # 0
    BY <1>1
  <2>. QED  BY <2>1, <2>2, <2>3
<1>11. q \in [0 .. n -> A]
  <2>. DEFINE S == {i \in 0 .. n : q[i] \in A}
  <2>1. 0 \in S
    BY <1>1, <1>3, <1>10
  <2>2. ASSUME NEW i \in 0 .. n - 1, i \in S PROVE i + 1 \in S
    <3>1. i + 1 \in 1 .. n /\ (i + 1) - 1 = i /\ i + 1 \in 0 .. n
      BY <1>1
    <3>2. q[i + 1] = CheckedAdd(q[i], s[i + 1]) /\ q[i] \in A /\ s[i + 1] \in A
      BY <1>1, <1>10, <2>2, <3>1
    <3>. QED  BY <1>2, <3>1, <3>2
  <2>. HIDE DEF S
  <2>3. 0 .. n \subseteq S
    BY <1>1, <2>1, <2>2, BoundedInduction
  <2>. QED  BY <1>10, <2>3 DEF S
<1>. QED  BY <1>9, <1>10, <1>11 DEF n, A

\* A word or None; and None if one of the values is.
LEMMA SumToNone ==
  ASSUME NEW s \in Seq(Word \cup {None})
  PROVE  /\ SumTo(s) \in Word \cup {None}
         /\ (\E k \in 1 .. Len(s) : s[k] = None) => SumTo(s) = None
<1>1. PICK r \in [0 .. Len(s) -> Word \cup {None}] :
           /\ r[0] = 0
           /\ \A i \in 1 .. Len(s) : r[i] = CheckedAdd(r[i - 1], s[i])
           /\ SumTo(s) = r[Len(s)]
  BY SumToRuns
<1>2. Len(s) \in Nat /\ Len(s) \in 0 .. Len(s)
  OBVIOUS
<1>3. ASSUME NEW k \in 1 .. Len(s), s[k] = None PROVE r[Len(s)] = None
  <2>. DEFINE S == {i \in 0 .. Len(s) : i >= k => r[i] = None}
  <2>1. 0 \in S
    BY <1>2
  <2>2. ASSUME NEW i \in 0 .. Len(s) - 1, i \in S PROVE i + 1 \in S
    <3>1. i + 1 \in 1 .. Len(s) /\ (i + 1) - 1 = i /\ (i + 1 >= k => i >= k \/ i + 1 = k)
      BY <1>2
    <3>2. r[i + 1] = CheckedAdd(r[i], s[i + 1])
      BY <1>1, <3>1
    <3>. QED  BY <1>3, <2>2, <3>1, <3>2 DEF CheckedAdd
  <2>. HIDE DEF S
  <2>3. Len(s) \in S
    BY <1>2, <2>1, <2>2, BoundedInduction
  <2>. QED  BY <2>3 DEF S
<1>. QED  BY <1>1, <1>2, <1>3

LEMMA SumToExact ==
  ASSUME NEW s \in Seq(Word)
  PROVE  /\ Counts(s, Len(s))
         /\ SumOf(s, Len(s)) \in Nat
         /\ SumTo(s) = IF SumOf(s, Len(s)) > UMax THEN None ELSE SumOf(s, Len(s))
<1>. DEFINE n == Len(s)
            S == {i \in 0 .. n : SumOf(s, i) \in Nat}
<1>1. n \in Nat /\ UMax \in Nat /\ None \notin Int /\ s \in Seq(Word \cup {None})
      /\ \A i \in 1 .. n : s[i] \in Word /\ s[i] \in Nat
  BY RangesAssumption DEF Word
<1>2. PICK r \in [0 .. n -> Word \cup {None}] :
           /\ r[0] = 0
           /\ \A i \in 1 .. n : r[i] = CheckedAdd(r[i - 1], s[i])
           /\ SumTo(s) = r[n]
  BY <1>1, SumToRuns
<1>. HIDE DEF n
<1>3. Counts(s, n)
  BY <1>1 DEF Counts
<1>4. /\ SumOf(s, 0) = 0
      /\ \A i \in 0 .. n : SumOf(s, i) \in Nat
      /\ \A i \in 0 .. n - 1 : SumOf(s, i + 1) = SumOf(s, i) + s[i + 1]
  BY <1>1, <1>3, SumOfNext
<1>. DEFINE T == {i \in 0 .. n : r[i] = IF SumOf(s, i) > UMax THEN None ELSE SumOf(s, i)}
<1>5. 0 \in T
  BY <1>1, <1>2, <1>4
<1>6. ASSUME NEW i \in 0 .. n - 1, i \in T PROVE i + 1 \in T
  <2>1. i + 1 \in 1 .. n /\ (i + 1) - 1 = i /\ i \in 0 .. n /\ i + 1 \in 0 .. n
    BY <1>1
  <2>2. r[i + 1] = CheckedAdd(r[i], s[i + 1]) /\ s[i + 1] \in Nat /\ s[i + 1] # None
    BY <1>1, <1>2, <2>1
  <2>3. SumOf(s, i) \in Nat /\ SumOf(s, i + 1) = SumOf(s, i) + s[i + 1]
    BY <1>4, <2>1
  <2>4. CASE SumOf(s, i) > UMax
    BY <1>1, <1>6, <2>1, <2>2, <2>3, <2>4 DEF CheckedAdd
  <2>5. CASE ~(SumOf(s, i) > UMax)
    <3>1. r[i] = SumOf(s, i) /\ r[i] # None
      BY <1>1, <1>6, <2>3, <2>5
    <3>. QED  BY <1>1, <2>1, <2>2, <2>3, <3>1 DEF CheckedAdd
  <2>. QED  BY <2>4, <2>5
<1>. HIDE DEF T
<1>8. n \in 0 .. n
  BY <1>1
<1>7. n \in T
  <2>1. 0 .. n \subseteq T
    BY <1>1, <1>5, <1>6, BoundedInduction
  <2>. QED  BY <1>8, <2>1
<1>. QED  BY <1>2, <1>3, <1>4, <1>7, <1>8 DEF T, n

-----------------------------------------------------------------------------
(* What a number of ranges reaches. *)

LEMMA CardinalityType ==
  ASSUME NEW r \in Cardinalities
  PROVE  /\ r.min \in Nat /\ r.min <= UMax
         /\ r.max # None => r.max \in Nat /\ r.min <= r.max /\ r.max <= UMax
BY RangesAssumption DEF Cardinalities, Word

LEMMA NewCardinalityType ==
  ASSUME NEW min \in Word, NEW max \in Word \cup {None}
  PROVE  /\ NewCardinality(min, max) = None <=> max # None /\ min > max
         /\ NewCardinality(min, max) # None =>
              /\ NewCardinality(min, max) \in Cardinalities
              /\ NewCardinality(min, max).min = min /\ NewCardinality(min, max).max = max
<1>. DEFINE r == [min |-> min, max |-> max]
<1>1. r.min = min /\ r.max = max /\ r \in [min : Word, max : Word \cup {None}]
  OBVIOUS
<1>2. min \in Nat /\ (max # None => max \in Nat)
  BY RangesAssumption DEF Word
<1>3. NewCardinality(min, max) = IF max # None /\ min > max THEN None ELSE r
  BY DEF NewCardinality
<1>. HIDE DEF r
<1>4. ASSUME ~(max # None /\ min > max) PROVE r \in Cardinalities
  <2>1. r.max # None => r.min <= r.max
    BY <1>1, <1>2, <1>4
  <2>. QED  BY <1>1, <2>1 DEF Cardinalities
<1>. QED  BY <1>1, <1>3, <1>4, NoneAssumption

\* The greatest count of each range: a machine word at most.
Reach(rs) == [i \in 1 .. Len(rs) |-> IF rs[i].max = None THEN UMax ELSE rs[i].max]

Least(rs) == SumOf(Minimums(rs), Len(rs))
Most(rs)  == SumOf(Reach(rs), Len(rs))

\* The counts that each of the ranges allows.
Allowed(rs) == {f \in [1 .. Len(rs) -> Word] : \A i \in 1 .. Len(rs) : In(f[i], rs[i])}

LEMMA RangesSeq ==
  ASSUME NEW rs \in Seq(Cardinalities)
  PROVE  /\ Len(rs) \in Nat /\ DOMAIN rs = 1 .. Len(rs)
         /\ Minimums(rs) \in Seq(Word) /\ Len(Minimums(rs)) = Len(rs)
         /\ Maximums(rs) \in Seq(Word \cup {None}) /\ Len(Maximums(rs)) = Len(rs)
         /\ Counts(Minimums(rs), Len(rs)) /\ Counts(Reach(rs), Len(rs))
         /\ \A i \in 1 .. Len(rs) :
              /\ rs[i] \in Cardinalities
              /\ Minimums(rs)[i] = rs[i].min
              /\ Maximums(rs)[i] = rs[i].max
              /\ Reach(rs)[i] = IF rs[i].max = None THEN UMax ELSE rs[i].max
              /\ Reach(rs)[i] \in Nat /\ Reach(rs)[i] <= UMax
              /\ Minimums(rs)[i] <= Reach(rs)[i]
<1>. DEFINE n == Len(rs)
<1>1. n \in Nat /\ DOMAIN rs = 1 .. n /\ \A i \in 1 .. n : rs[i] \in Cardinalities
  OBVIOUS
<1>2. UMax \in Nat
  BY RangesAssumption
<1>. HIDE DEF n
<1>3. ASSUME NEW i \in 1 .. n
      PROVE  rs[i].min \in Word /\ rs[i].max \in Word \cup {None}
  BY <1>1 DEF Cardinalities
<1>4. Minimums(rs) = [i \in 1 .. n |-> rs[i].min] /\ Maximums(rs) = [i \in 1 .. n |-> rs[i].max]
  BY <1>1 DEF Minimums, Maximums
<1>5. Minimums(rs) \in [1 .. n -> Word] /\ Maximums(rs) \in [1 .. n -> Word \cup {None}]
  BY <1>3, <1>4
<1>6. /\ Minimums(rs) \in Seq(Word) /\ Len(Minimums(rs)) = n
      /\ Maximums(rs) \in Seq(Word \cup {None}) /\ Len(Maximums(rs)) = n
  BY <1>1, <1>5
<1>7. ASSUME NEW i \in 1 .. n
      PROVE  /\ rs[i] \in Cardinalities
             /\ Minimums(rs)[i] = rs[i].min
             /\ Maximums(rs)[i] = rs[i].max
             /\ Minimums(rs)[i] \in Nat
             /\ Reach(rs)[i] = IF rs[i].max = None THEN UMax ELSE rs[i].max
             /\ Reach(rs)[i] \in Nat /\ Reach(rs)[i] <= UMax
             /\ Minimums(rs)[i] <= Reach(rs)[i]
  <2>1. rs[i] \in Cardinalities /\ Minimums(rs)[i] = rs[i].min /\ Maximums(rs)[i] = rs[i].max
    BY <1>1, <1>4
  <2>2. Reach(rs)[i] = IF rs[i].max = None THEN UMax ELSE rs[i].max
    BY DEF Reach, n
  <2>. QED  BY <1>2, <2>1, <2>2, CardinalityType
<1>8. Counts(Minimums(rs), n) /\ Counts(Reach(rs), n)
  BY <1>7 DEF Counts
<1>. QED  BY <1>1, <1>6, <1>7, <1>8 DEF n

\* The sums of the minimums and of the maximums, as the code computes them.
LEMMA RangesSum ==
  ASSUME NEW rs \in Seq(Cardinalities)
  PROVE  /\ Least(rs) \in Nat /\ Most(rs) \in Nat /\ Least(rs) <= Most(rs)
         /\ SumTo(Minimums(rs)) = IF Least(rs) > UMax THEN None ELSE Least(rs)
         /\ SumTo(Maximums(rs)) # None =>
              /\ SumTo(Maximums(rs)) = Most(rs) /\ Most(rs) <= UMax
              /\ \A i \in 1 .. Len(rs) : rs[i].max # None
         /\ SumTo(Maximums(rs)) = None => Most(rs) >= UMax
<1>1. Least(rs) \in Nat /\ Most(rs) \in Nat
  <2>1. Len(rs) \in 0 .. Len(rs)
    BY RangesSeq
  <2>. QED  BY <2>1, RangesSeq, SumOfNext DEF Least, Most
<1>2. Least(rs) <= Most(rs)
  BY RangesSeq, SumOfGrows DEF Least, Most
<1>3. SumTo(Minimums(rs)) = IF Least(rs) > UMax THEN None ELSE Least(rs)
  BY RangesSeq, SumToExact DEF Least
<1>4. ASSUME NEW k \in 1 .. Len(rs), rs[k].max = None
      PROVE  SumTo(Maximums(rs)) = None /\ Most(rs) >= UMax
  <2>1. SumTo(Maximums(rs)) = None
    BY <1>4, RangesSeq, SumToNone
  <2>. DEFINE n == Len(rs)
              g == [i \in 1 .. n - 1 |-> IF i < k THEN Reach(rs)[i] ELSE Reach(rs)[i + 1]]
  <2>2. n \in Nat \ {0} /\ Counts(Reach(rs), n) /\ Reach(rs)[k] = UMax /\ UMax \in Nat
    BY <1>4, RangesSeq, RangesAssumption
  <2>3. \A i \in 1 .. n - 1 : g[i] = IF i < k THEN Reach(rs)[i] ELSE Reach(rs)[i + 1]
    OBVIOUS
  <2>. HIDE DEF g
  <2>4. SumOf(g, n - 1) \in Nat /\ SumOf(Reach(rs), n) = Reach(rs)[k] + SumOf(g, n - 1)
    <3>1. k \in 1 .. n
      OBVIOUS
    <3>. HIDE DEF n
    <3>. QED  BY <2>2, <2>3, <3>1, SumOfOthers
  <2>5. Most(rs) >= UMax
    BY <2>2, <2>4 DEF Most
  <2>. QED  BY <2>1, <2>5
<1>5. ASSUME \A i \in 1 .. Len(rs) : rs[i].max # None
      PROVE  SumTo(Maximums(rs)) = IF Most(rs) > UMax THEN None ELSE Most(rs)
  <2>1. \A i \in 1 .. Len(rs) : Maximums(rs)[i] \in Word /\ Maximums(rs)[i] = Reach(rs)[i]
    BY <1>5, RangesSeq DEF Cardinalities
  <2>2. Maximums(rs) \in Seq(Word)
    <3>1. Len(rs) \in Nat /\ Maximums(rs) \in [1 .. Len(rs) -> Word]
      BY <2>1, RangesSeq
    <3>. QED  BY <3>1
  <2>3. SumOf(Maximums(rs), Len(rs)) = Most(rs)
    <3>1. Counts(Maximums(rs), Len(rs))
      BY <2>2, RangesSeq, SumToExact
    <3>. QED  BY <2>1, <3>1, RangesSeq, SumOfSame DEF Most
  <2>. QED  BY <2>2, <2>3, RangesSeq, SumToExact
<1>6. UMax \in Nat /\ None \notin Int
  BY RangesAssumption
<1>. QED  BY <1>1, <1>2, <1>3, <1>4, <1>5, <1>6

\* Exactly the sums between the least and the most can be had.
LEMMA AllowedSums ==
  ASSUME NEW rs \in Seq(Cardinalities)
  PROVE  /\ \A f \in Allowed(rs) :
              /\ SumOf(f, Len(rs)) \in Nat
              /\ Least(rs) <= SumOf(f, Len(rs)) /\ SumOf(f, Len(rs)) <= Most(rs)
         /\ \A t \in Nat : Least(rs) <= t /\ t <= Most(rs) =>
              \E f \in Allowed(rs) : SumOf(f, Len(rs)) = t
<1>. DEFINE n == Len(rs)
            lo == Minimums(rs)
            hi == Reach(rs)
<1>1. n \in Nat /\ Counts(lo, n) /\ Counts(hi, n) /\ \A i \in 1 .. n : lo[i] <= hi[i]
  BY RangesSeq
<1>2. ASSUME NEW i \in 1 .. n
      PROVE  \A v \in Nat : (v \in Word /\ In(v, rs[i])) <=> lo[i] <= v /\ v <= hi[i]
  <2>1. /\ lo[i] = rs[i].min /\ hi[i] = (IF rs[i].max = None THEN UMax ELSE rs[i].max)
        /\ rs[i] \in Cardinalities /\ UMax \in Nat
    BY RangesSeq, RangesAssumption
  <2>. HIDE DEF lo, hi
  <2>. QED  BY <2>1, CardinalityType DEF In, Word
<1>3. ASSUME NEW f \in Allowed(rs)
      PROVE  /\ SumOf(f, n) \in Nat
             /\ SumOf(lo, n) <= SumOf(f, n) /\ SumOf(f, n) <= SumOf(hi, n)
  <2>1. \A i \in 1 .. n : f[i] \in Word /\ f[i] \in Nat /\ In(f[i], rs[i])
    BY RangesAssumption DEF Allowed, Word
  <2>. HIDE DEF n, lo, hi
  <2>2. Counts(f, n) /\ n \in 0 .. n
    BY <1>1, <2>1 DEF Counts
  <2>3. \A i \in 1 .. n : lo[i] <= f[i] /\ f[i] <= hi[i]
    BY <1>2, <2>1
  <2>. QED  BY <1>1, <2>2, <2>3, SumOfNext, SumOfGrows
<1>4. ASSUME NEW t \in Nat, SumOf(lo, n) <= t, t <= SumOf(hi, n)
      PROVE  \E f \in Allowed(rs) : SumOf(f, n) = t
  <2>1. PICK f : Within(f, lo, hi, n) /\ SumOf(f, n) = t
    <3>. HIDE DEF n, lo, hi
    <3>1. n \in Nat /\ Counts(lo, n) /\ Counts(hi, n) /\ \A i \in 1 .. n : lo[i] <= hi[i]
      BY <1>1
    <3>2. Reached(t, lo, hi, n)
      BY <1>4, <3>1, SumOfBetween
    <3>. QED  BY <3>2 DEF Reached
  <2>2. f \in [1 .. n -> Nat] /\ \A i \in 1 .. n : f[i] \in Word /\ In(f[i], rs[i])
    <3>. HIDE DEF n, lo, hi
    <3>. QED  BY <1>2, <2>1 DEF Within
  <2>3. f \in Allowed(rs)
    <3>1. f \in [1 .. n -> Word]
      BY <2>2
    <3>. QED  BY <2>2, <3>1 DEF Allowed
  <2>. QED  BY <2>1, <2>3
<1>. QED  BY <1>3, <1>4 DEF Least, Most

-----------------------------------------------------------------------------
(* Validation. *)

LEMMA IntersectionType ==
  ASSUME NEW r \in Cardinalities, NEW s \in Cardinalities
  PROVE  /\ Intersection(r, s) \in Cardinalities \cup {None}
         /\ Intersection(r, s) # None =>
              \A n \in Nat : In(n, Intersection(r, s)) <=> In(n, r) /\ In(n, s)
         /\ Intersection(r, s) = None => \A n \in Nat : ~(In(n, r) /\ In(n, s))
<1>. DEFINE low == Greater(r.min, s.min)
            high == LesserMax(r.max, s.max)
<1>1. UMax \in Nat /\ None \notin Int
  BY RangesAssumption
<1>2. /\ r.min \in Nat /\ r.min <= UMax /\ (r.max # None => r.max \in Nat /\ r.max <= UMax)
      /\ s.min \in Nat /\ s.min <= UMax /\ (s.max # None => s.max \in Nat /\ s.max <= UMax)
  BY CardinalityType
<1>3. low \in Word /\ high \in Word \cup {None}
  BY <1>1, <1>2 DEF Greater, LesserMax, Lesser, Word
<1>4. ASSUME NEW n \in Nat
      PROVE  (In(n, r) /\ In(n, s)) <=> (n >= low /\ (high # None => n <= high))
  BY <1>1, <1>2 DEF In, Greater, LesserMax, Lesser
<1>5. Intersection(r, s) = NewCardinality(low, high)
  BY DEF Intersection
<1>. HIDE DEF low, high
<1>6. CASE NewCardinality(low, high) = None
  <2>1. high # None /\ low > high /\ low \in Nat /\ high \in Nat
    BY <1>1, <1>3, <1>6, NewCardinalityType DEF Word
  <2>. QED  BY <1>4, <1>5, <1>6, <2>1
<1>7. CASE NewCardinality(low, high) # None
  <2>1. NewCardinality(low, high) \in Cardinalities /\ NewCardinality(low, high).min = low /\ NewCardinality(low, high).max = high
    BY <1>3, <1>7, NewCardinalityType
  <2>. QED  BY <1>4, <1>5, <1>7, <2>1 DEF In
<1>. QED  BY <1>6, <1>7

\* Cardinality::intersection admits exactly what both ranges admit, and fails
\* exactly when they have nothing in common.
THEOREM IntersectionExact ==
  ASSUME NEW r \in Cardinalities, NEW s \in Cardinalities
  PROVE  /\ Intersection(r, s) = None => \A n \in Nat : ~(In(n, r) /\ In(n, s))
         /\ Intersection(r, s) # None =>
              /\ Intersection(r, s) \in Cardinalities
              /\ \A n \in Nat : In(n, Intersection(r, s)) <=> In(n, r) /\ In(n, s)
BY IntersectionType

\* The range of the sum allows a number if it can be had.
LEMMA ProducerSumIs ==
  ASSUME NEW rs \in Seq(Cardinalities), ProducerSum(rs) # None
  PROVE  /\ ProducerSum(rs) \in Cardinalities
         /\ ProducerSum(rs).min = Least(rs)
         /\ ProducerSum(rs).max # None => ProducerSum(rs).max = Most(rs)
         /\ ProducerSum(rs).max = None => Most(rs) >= UMax
<1>. DEFINE minimum == SumTo(Minimums(rs))
            maximum == SumTo(Maximums(rs))
<1>1. minimum \in Word \cup {None} /\ maximum \in Word \cup {None}
  BY RangesSeq, SumToNone
<1>2. /\ Least(rs) \in Nat
      /\ minimum = IF Least(rs) > UMax THEN None ELSE Least(rs)
      /\ maximum # None => maximum = Most(rs)
      /\ maximum = None => Most(rs) >= UMax
  BY RangesSum
<1>3. ProducerSum(rs) = IF \/ minimum = None
                           \/ maximum = None /\ \A i \in DOMAIN rs : rs[i].max # None
                        THEN None ELSE NewCardinality(minimum, maximum)
  BY DEF ProducerSum
<1>. HIDE DEF minimum, maximum
<1>4. minimum # None /\ ProducerSum(rs) = NewCardinality(minimum, maximum)
  BY <1>3
<1>. QED  BY <1>1, <1>2, <1>4, NewCardinalityType

\* What validation stores as the cardinality of the connection.
Whole(rs, c, w) == ProducerSum(rs) # None /\ w = Intersection(ProducerSum(rs), c)

LEMMA WholeIs ==
  ASSUME NEW rs \in Seq(Cardinalities), NEW c \in Cardinalities, NEW w, Whole(rs, c, w), w # None
  PROVE  /\ w \in Cardinalities
         /\ Least(rs) <= w.min /\ w.min <= Most(rs)
         /\ \A t \in Nat : Least(rs) <= t /\ t <= Most(rs) => (In(t, w) <=> In(t, c))
         /\ \A t \in Word : In(t, w) => Least(rs) <= t /\ t <= Most(rs)
<1>. DEFINE sum == ProducerSum(rs)
<1>1. /\ sum \in Cardinalities /\ sum.min = Least(rs)
      /\ sum.max # None => sum.max = Most(rs)
      /\ sum.max = None => Most(rs) >= UMax
  BY ProducerSumIs DEF Whole
<1>2. w = Intersection(sum, c)
  BY DEF Whole
<1>. HIDE DEF sum
<1>3. w \in Cardinalities /\ \A n \in Nat : In(n, w) <=> In(n, sum) /\ In(n, c)
  BY <1>1, <1>2, IntersectionType
<1>4. Least(rs) \in Nat /\ Most(rs) \in Nat /\ UMax \in Nat /\ w.min \in Nat /\ w.min <= UMax
  BY <1>3, RangesSum, CardinalityType, RangesAssumption
<1>5. In(w.min, w)
  BY <1>3, CardinalityType DEF In
<1>6. In(w.min, sum)
  BY <1>3, <1>4, <1>5
<1>7. Least(rs) <= w.min /\ w.min <= Most(rs)
  BY <1>1, <1>4, <1>6 DEF In
<1>8. ASSUME NEW t \in Nat, Least(rs) <= t, t <= Most(rs) PROVE In(t, sum)
  BY <1>1, <1>4, <1>8 DEF In
<1>9. ASSUME NEW t \in Word, In(t, w) PROVE Least(rs) <= t /\ t <= Most(rs)
  <2>1. t \in Nat /\ t <= UMax
    BY <1>4 DEF Word
  <2>2. In(t, sum)
    BY <1>3, <1>9, <2>1
  <2>. QED  BY <1>1, <1>4, <2>1, <2>2 DEF In
<1>. QED  BY <1>3, <1>7, <1>8, <1>9

LEMMA NoWhole ==
  ASSUME NEW rs \in Seq(Cardinalities), NEW c \in Cardinalities, Whole(rs, c, None)
  PROVE  \A t \in Nat : Least(rs) <= t /\ t <= Most(rs) => ~In(t, c)
<1>. DEFINE sum == ProducerSum(rs)
<1>1. /\ sum \in Cardinalities /\ sum.min = Least(rs)
      /\ sum.max # None => sum.max = Most(rs)
  BY ProducerSumIs DEF Whole
<1>2. Intersection(sum, c) = None
  BY DEF Whole
<1>. HIDE DEF sum
<1>3. \A t \in Nat : ~(In(t, sum) /\ In(t, c))
  BY <1>1, <1>2, IntersectionType
<1>4. \A t \in Nat : Least(rs) <= t /\ t <= Most(rs) => In(t, sum)
  BY <1>1, RangesSum DEF In
<1>. QED  BY <1>3, <1>4

-----------------------------------------------------------------------------
(* Preparation: the share of each producer. *)

LEMMA OthersSeq ==
  ASSUME NEW rs \in Seq(Cardinalities), NEW k \in 1 .. Len(rs)
  PROVE  /\ Others(rs, k) \in Seq(Cardinalities) /\ Len(Others(rs, k)) = Len(rs) - 1
         /\ \A i \in 1 .. Len(rs) - 1 :
              Others(rs, k)[i] = IF i < k THEN rs[i] ELSE rs[i + 1]
         /\ Least(rs) = rs[k].min + Least(Others(rs, k))
         /\ Most(rs) = Reach(rs)[k] + Most(Others(rs, k))
<1>. DEFINE n == Len(rs)
            O == Others(rs, k)
<1>1. n \in Nat \ {0} /\ n - 1 \in Nat /\ k \in 1 .. n /\ \A i \in 1 .. n : rs[i] \in Cardinalities
  BY RangesSeq
<1>2. O = [i \in 1 .. n - 1 |-> IF i < k THEN rs[i] ELSE rs[i + 1]]
  BY DEF Others
<1>. HIDE DEF n, O
<1>3. \A i \in 1 .. n - 1 : i \in 1 .. n /\ i + 1 \in 1 .. n
  BY <1>1
<1>4. O \in [1 .. n - 1 -> Cardinalities] /\ \A i \in 1 .. n - 1 : O[i] = IF i < k THEN rs[i] ELSE rs[i + 1]
  BY <1>1, <1>2, <1>3
<1>5. O \in Seq(Cardinalities) /\ Len(O) = n - 1
  <2>1. ASSUME NEW m \in Nat, O \in [1 .. m -> Cardinalities]
        PROVE  O \in Seq(Cardinalities) /\ Len(O) = m
    BY <2>1
  <2>. QED  BY <1>1, <1>4, <2>1
<1>6. Counts(Minimums(rs), n) /\ Counts(Reach(rs), n)
  BY RangesSeq DEF n
<1>7. \A i \in 1 .. n : Minimums(rs)[i] = rs[i].min
                        /\ Reach(rs)[i] = IF rs[i].max = None THEN UMax ELSE rs[i].max
  BY RangesSeq DEF n
<1>8. \A i \in 1 .. n - 1 : Minimums(O)[i] = O[i].min
                            /\ Reach(O)[i] = IF O[i].max = None THEN UMax ELSE O[i].max
  BY <1>5, RangesSeq
<1>9. \A i \in 1 .. n - 1 :
        /\ Minimums(O)[i] = IF i < k THEN Minimums(rs)[i] ELSE Minimums(rs)[i + 1]
        /\ Reach(O)[i] = IF i < k THEN Reach(rs)[i] ELSE Reach(rs)[i + 1]
  BY <1>3, <1>4, <1>7, <1>8
<1>10. SumOf(Minimums(rs), n) = Minimums(rs)[k] + SumOf(Minimums(O), n - 1)
  BY <1>1, <1>6, <1>9, SumOfOthers
<1>11. SumOf(Reach(rs), n) = Reach(rs)[k] + SumOf(Reach(O), n - 1)
  BY <1>1, <1>6, <1>9, SumOfOthers
<1>12. Least(rs) = rs[k].min + Least(O) /\ Most(rs) = Reach(rs)[k] + Most(O)
  BY <1>1, <1>5, <1>7, <1>10, <1>11 DEF Least, Most, n
<1>. QED  BY <1>4, <1>5, <1>12 DEF n, O

\* A count the other producers can reach between them.
Reachable(m, least, greatest) == m >= least /\ (greatest # None => m <= greatest)

\* merged_inputs::projected_ranges gives a producer exactly the counts that the
\* others can complete to a total the connection admits: none that is possible
\* is refused to it, and each that is admitted leaves the others a way.
THEOREM ProjectionExact ==
  ASSUME NEW own \in Cardinalities, NEW whole \in Cardinalities,
         NEW otherMin \in Nat, NEW otherMax \in Nat \cup {None},
         otherMax # None => otherMin <= otherMax,
         whole.max # None => otherMin <= whole.max,
         NEW n \in Nat
  PROVE  (/\ n >= ProjectedMin(own, whole, otherMax)
          /\ ProjectedMax(own, whole, otherMin) # None => n <= ProjectedMax(own, whole, otherMin))
         <=> (In(n, own) /\ \E m \in Nat : Reachable(m, otherMin, otherMax) /\ In(n + m, whole))
<1>. DEFINE low  == ProjectedMin(own, whole, otherMax)
            high == ProjectedMax(own, whole, otherMin)
<1>0. None \notin Int
  BY RangesAssumption
<1>1. /\ low \in Nat /\ high \in Int \cup {None}
      /\ n >= low <=> n >= own.min /\ (otherMax # None => n + otherMax >= whole.min)
      /\ (high # None => n <= high) <=> /\ own.max # None => n <= own.max
                                        /\ whole.max # None => n + otherMin <= whole.max
  BY <1>0, CardinalityType DEF ProjectedMin, ProjectedMax, Greater, LesserMax, Lesser
<1>. HIDE DEF low, high
<1>2. ASSUME n >= low, high # None => n <= high
      PROVE  In(n, own) /\ \E m \in Nat : Reachable(m, otherMin, otherMax) /\ In(n + m, whole)
  <2>1. In(n, own)
    BY <1>1, <1>2 DEF In
  <2>. DEFINE m == IF n + otherMin >= whole.min THEN otherMin ELSE whole.min - n
  <2>2. m \in Nat /\ Reachable(m, otherMin, otherMax) /\ In(n + m, whole)
    BY <1>0, <1>1, <1>2, CardinalityType DEF Reachable, In
  <2>. QED  BY <2>1, <2>2
<1>3. ASSUME In(n, own), NEW m \in Nat, Reachable(m, otherMin, otherMax), In(n + m, whole)
      PROVE  n >= low /\ (high # None => n <= high)
  BY <1>0, <1>1, <1>3, CardinalityType DEF Reachable, In
<1>. QED  BY <1>2, <1>3 DEF low, high

\* What a producer may send, given what the others reach between them.
Fits(v, rs, w, k) ==
  /\ In(v, rs[k])
  /\ \E t \in Nat : Least(Others(rs, k)) <= t /\ t <= Most(Others(rs, k)) /\ In(v + t, w)

LEMMA ProjectedIs ==
  ASSUME NEW rs \in Seq(Cardinalities), NEW k \in 1 .. Len(rs), NEW w \in Cardinalities,
         Least(rs) <= w.min, w.min <= Most(rs)
  PROVE  /\ Projected(rs, w, k) \in Cardinalities
         /\ \A v \in Word : In(v, Projected(rs, w, k)) <=> Fits(v, rs, w, k)
<1>. DEFINE own == rs[k]
            lo == Least(Others(rs, k))
            hi == Most(Others(rs, k))
            otherMin == SumTo(Minimums(Others(rs, k)))
            otherMax == SumTo(Maximums(Others(rs, k)))
            pmin == ProjectedMin(own, w, otherMax)
            pmax == ProjectedMax(own, w, otherMin)
<1>1. UMax \in Nat /\ None \notin Int
  BY RangesAssumption
<1>2. /\ own.min \in Nat /\ own.min <= UMax
      /\ own.max # None => own.max \in Nat /\ own.min <= own.max /\ own.max <= UMax
      /\ w.min \in Nat /\ w.min <= UMax
      /\ w.max # None => w.max \in Nat /\ w.min <= w.max /\ w.max <= UMax
  BY RangesSeq, CardinalityType
<1>3. /\ lo \in Nat /\ hi \in Nat /\ lo <= hi
      /\ otherMin = IF lo > UMax THEN None ELSE lo
      /\ otherMax # None => otherMax = hi
      /\ otherMax = None => hi >= UMax
  BY OthersSeq, RangesSum
<1>4. Least(rs) = own.min + lo /\ Most(rs) = (IF own.max = None THEN UMax ELSE own.max) + hi
  BY RangesSeq, OthersSeq
<1>5. Projected(rs, w, k) = IF otherMin = None \/ (w.max # None /\ otherMin > w.max) THEN None
                            ELSE NewCardinality(pmin, pmax)
  BY DEF Projected
<1>6. pmin = Greater(own.min, IF otherMax = None THEN 0 ELSE Greater(w.min - otherMax, 0))
  BY DEF ProjectedMin
<1>7. pmax = IF w.max = None THEN own.max ELSE LesserMax(own.max, w.max - otherMin)
  BY DEF ProjectedMax
<1>8. \A v \in Word : Fits(v, rs, w, k) <=>
        In(v, own) /\ \E t \in Nat : lo <= t /\ t <= hi /\ In(v + t, w)
  BY DEF Fits
<1>. HIDE DEF own, lo, hi, otherMin, otherMax, pmin, pmax
<1>9. lo + own.min <= w.min /\ lo <= UMax /\ otherMin = lo /\ otherMin # None
  BY <1>1, <1>2, <1>3, <1>4
<1>10. w.max # None => w.max - lo \in Nat /\ own.min <= w.max - lo /\ w.max - lo <= UMax
  BY <1>1, <1>2, <1>3, <1>9
<1>11. /\ pmin \in Nat /\ pmin <= UMax
       /\ \A v \in Nat : v >= pmin <=>
            v >= own.min /\ (otherMax # None => v + hi >= w.min)
  BY <1>1, <1>2, <1>3, <1>6 DEF Greater
<1>12. /\ pmax # None => pmax \in Nat /\ pmax <= UMax
       /\ \A v \in Nat : (pmax # None => v <= pmax) <=>
            (own.max # None => v <= own.max) /\ (w.max # None => v + lo <= w.max)
  BY <1>1, <1>2, <1>3, <1>7, <1>9, <1>10 DEF LesserMax, Lesser
<1>13. pmax # None => pmin <= pmax
  <2>1. own.max # None => own.min <= own.max /\ (otherMax # None => own.max + hi >= w.min)
    BY <1>1, <1>2, <1>3, <1>4
  <2>2. w.max # None => w.max - lo >= own.min /\ (otherMax # None => (w.max - lo) + hi >= w.min)
    BY <1>1, <1>2, <1>3, <1>10
  <2>3. own.max # None => pmin <= own.max
    BY <1>2, <1>11, <2>1
  <2>4. w.max # None => pmin <= w.max - lo
    BY <1>10, <1>11, <2>2
  <2>. QED  BY <1>1, <1>2, <1>7, <1>9, <2>3, <2>4 DEF LesserMax, Lesser
<1>14. pmin \in Word /\ pmax \in Word \cup {None}
  BY <1>1, <1>11, <1>12 DEF Word
<1>15. Projected(rs, w, k) = NewCardinality(pmin, pmax)
  BY <1>1, <1>2, <1>3, <1>5, <1>9, <1>10
<1>16. /\ NewCardinality(pmin, pmax) \in Cardinalities
       /\ NewCardinality(pmin, pmax).min = pmin /\ NewCardinality(pmin, pmax).max = pmax
  <2>1. ~(pmax # None /\ pmin > pmax)
    BY <1>11, <1>12, <1>13
  <2>. QED  BY <1>14, <2>1, NewCardinalityType
<1>17. ASSUME NEW v \in Word PROVE In(v, Projected(rs, w, k)) <=> Fits(v, rs, w, k)
  <2>. DEFINE low == v >= own.min /\ (otherMax # None => v + hi >= w.min)
              high == (own.max # None => v <= own.max) /\ (w.max # None => v + lo <= w.max)
  <2>1. v \in Nat /\ v <= UMax
    BY <1>1 DEF Word
  <2>2. In(v, Projected(rs, w, k)) <=> low /\ high
    BY <1>11, <1>12, <1>15, <1>16, <2>1 DEF In
  <2>3. ASSUME low, high PROVE Fits(v, rs, w, k)
    <3>. DEFINE t == IF lo >= w.min - v THEN lo ELSE w.min - v
    <3>1. t \in Nat /\ lo <= t /\ t <= hi
      <4>1. w.min - v <= hi
        BY <1>1, <1>2, <1>3, <2>1, <2>3
      <4>. QED  BY <1>2, <1>3, <2>1, <4>1
    <3>2. In(v + t, w)
      <4>1. t = lo \/ t = w.min - v
        OBVIOUS
      <4>2. v + t >= w.min
        <5>1. t >= w.min - v /\ w.min - v \in Int
          BY <1>2, <1>3, <2>1
        <5>. HIDE DEF t
        <5>. QED  BY <1>2, <2>1, <3>1, <5>1
      <4>3. w.max # None => v + lo <= w.max /\ w.min <= w.max
        BY <1>2, <2>3
      <4>. HIDE DEF t
      <4>4. w.max # None => v + t <= w.max
        BY <1>2, <1>3, <2>1, <3>1, <4>1, <4>3
      <4>. QED  BY <4>2, <4>4 DEF In
    <3>3. In(v, own)
      BY <2>3 DEF In
    <3>. HIDE DEF t
    <3>. QED  BY <1>8, <3>1, <3>2, <3>3
  <2>4. ASSUME Fits(v, rs, w, k) PROVE low /\ high
    <3>1. PICK t \in Nat : lo <= t /\ t <= hi /\ In(v + t, w)
      BY <1>8, <2>4
    <3>2. In(v, own)
      BY <1>8, <2>4
    <3>. QED  BY <1>2, <1>3, <2>1, <3>1, <3>2 DEF In
  <2>. QED  BY <2>2, <2>3, <2>4
<1>. QED  BY <1>15, <1>16, <1>17

\* The only producer gets the whole connection.
Share(rs, w, k) == IF Len(rs) = 1 THEN w ELSE Projected(rs, w, k)

LEMMA ShareIs ==
  ASSUME NEW rs \in Seq(Cardinalities), NEW c \in Cardinalities,
         NEW w, Whole(rs, c, w), w # None, NEW k \in 1 .. Len(rs)
  PROVE  /\ Share(rs, w, k) \in Cardinalities
         /\ \A v \in Word : In(v, Share(rs, w, k)) <=> Fits(v, rs, w, k)
<1>1. w \in Cardinalities /\ Least(rs) <= w.min /\ w.min <= Most(rs)
      /\ \A t \in Word : In(t, w) => Least(rs) <= t /\ t <= Most(rs)
  BY WholeIs
<1>2. CASE Len(rs) # 1
  BY <1>1, <1>2, ProjectedIs DEF Share
<1>3. CASE Len(rs) = 1
  <2>1. Share(rs, w, k) = w /\ k = 1 /\ Len(Others(rs, k)) = 0
    BY <1>3, OthersSeq DEF Share
  <2>2. Least(Others(rs, k)) = 0 /\ Most(Others(rs, k)) = 0
    <3>1. Counts(Minimums(Others(rs, k)), 0) /\ Counts(Reach(Others(rs, k)), 0) /\ 0 \in Nat
      BY <2>1, OthersSeq, RangesSeq
    <3>. QED  BY <2>1, <3>1, SumOfNext DEF Least, Most
  <2>3. UMax \in Nat /\ rs[k] \in Cardinalities /\ rs[k].min \in Nat /\ Reach(rs)[k] \in Nat
        /\ Reach(rs)[k] = IF rs[k].max = None THEN UMax ELSE rs[k].max
    BY RangesAssumption, RangesSeq, CardinalityType
  <2>4. Least(rs) = rs[k].min /\ Most(rs) = Reach(rs)[k]
    BY <2>2, <2>3, OthersSeq
  <2>5. ASSUME NEW v \in Word PROVE In(v, w) <=> Fits(v, rs, w, k)
    <3>1. v \in Nat /\ v + 0 = v
      BY <2>3 DEF Word
    <3>2. Fits(v, rs, w, k) <=> In(v, rs[k]) /\ In(v, w)
      <4>1. \A t \in Nat : 0 <= t /\ t <= 0 <=> t = 0
        OBVIOUS
      <4>. QED  BY <2>2, <3>1, <4>1 DEF Fits
    <3>3. In(v, w) => In(v, rs[k])
      BY <1>1, <2>3, <2>4, <3>1 DEF In
    <3>. QED  BY <3>2, <3>3
  <2>. QED  BY <1>1, <2>1, <2>5
<1>. QED  BY <1>2, <1>3

LEMMA FitsAllowed ==
  ASSUME NEW rs \in Seq(Cardinalities), NEW w, NEW k \in 1 .. Len(rs), NEW v \in Word
  PROVE  Fits(v, rs, w, k) <=>
           \E f \in Allowed(rs) : f[k] = v /\ In(SumOf(f, Len(rs)), w)
<1>. DEFINE n == Len(rs)
            O == Others(rs, k)
<1>1. /\ n \in Nat \ {0} /\ n - 1 \in Nat /\ k \in 1 .. n
      /\ O \in Seq(Cardinalities) /\ Len(O) = n - 1
      /\ \A i \in 1 .. n - 1 : O[i] = IF i < k THEN rs[i] ELSE rs[i + 1]
      /\ \A i \in 1 .. n - 1 : i \in 1 .. n /\ i + 1 \in 1 .. n
  BY RangesSeq, OthersSeq
<1>2. Allowed(rs) = {f \in [1 .. n -> Word] : \A i \in 1 .. n : In(f[i], rs[i])}
  BY DEF Allowed
<1>3. Fits(v, rs, w, k) <=>
        In(v, rs[k]) /\ \E t \in Nat : Least(O) <= t /\ t <= Most(O) /\ In(v + t, w)
  BY DEF Fits
<1>. HIDE DEF n, O
<1>4. Allowed(O) = {g \in [1 .. n - 1 -> Word] : \A i \in 1 .. n - 1 : In(g[i], O[i])}
  BY <1>1 DEF Allowed
<1>5. ASSUME NEW f \in [1 .. n -> Word] PROVE Counts(f, n)
  BY <1>1, RangesAssumption DEF Counts, Word
<1>6. ASSUME Fits(v, rs, w, k)
      PROVE  \E f \in Allowed(rs) : f[k] = v /\ In(SumOf(f, n), w)
  <2>1. PICK t \in Nat : Least(O) <= t /\ t <= Most(O) /\ In(v + t, w)
    BY <1>3, <1>6
  <2>2. PICK g \in Allowed(O) : SumOf(g, n - 1) = t
    BY <1>1, <2>1, AllowedSums
  <2>3. g \in [1 .. n - 1 -> Word] /\ \A i \in 1 .. n - 1 : In(g[i], O[i])
    BY <1>4
  <2>. DEFINE f == [i \in 1 .. n |-> IF i < k THEN g[i] ELSE IF i = k THEN v ELSE g[i - 1]]
  <2>4. \A i \in 1 .. n : (i < k => i \in 1 .. n - 1) /\ (i > k => i - 1 \in 1 .. n - 1)
    BY <1>1
  <2>5. \A i \in 1 .. n : f[i] = IF i < k THEN g[i] ELSE IF i = k THEN v ELSE g[i - 1]
    OBVIOUS
  <2>6. f \in [1 .. n -> Word]
    <3>1. \A i \in 1 .. n : (IF i < k THEN g[i] ELSE IF i = k THEN v ELSE g[i - 1]) \in Word
      BY <1>1, <2>3, <2>4
    <3>. QED  BY <3>1
  <2>. HIDE DEF f
  <2>7. ASSUME NEW i \in 1 .. n PROVE In(f[i], rs[i])
    <3>1. CASE i < k
      BY <1>1, <2>3, <2>4, <2>5, <3>1
    <3>2. CASE i = k
      BY <1>1, <1>3, <1>6, <2>5, <3>2
    <3>3. CASE i > k
      <4>1. i - 1 \in 1 .. n - 1 /\ ~(i - 1 < k) /\ (i - 1) + 1 = i /\ ~(i < k) /\ i # k
        BY <1>1, <2>4, <3>3
      <4>2. f[i] = g[i - 1] /\ O[i - 1] = rs[i]
        BY <1>1, <2>5, <4>1
      <4>. QED  BY <2>3, <4>1, <4>2
    <3>. QED  BY <1>1, <3>1, <3>2, <3>3
  <2>8. \A i \in 1 .. n - 1 : g[i] = IF i < k THEN f[i] ELSE f[i + 1]
    <3>. TAKE i \in 1 .. n - 1
    <3>1. CASE i < k
      BY <1>1, <2>5, <3>1
    <3>2. CASE ~(i < k)
      <4>1. i + 1 \in 1 .. n /\ ~(i + 1 < k) /\ i + 1 # k /\ (i + 1) - 1 = i
        BY <1>1, <3>2
      <4>. QED  BY <2>5, <3>2, <4>1
    <3>. QED  BY <3>1, <3>2
  <2>9. SumOf(f, n) = f[k] + SumOf(g, n - 1)
    BY <1>1, <1>5, <2>6, <2>8, SumOfOthers
  <2>10. f[k] = v
    BY <1>1, <2>5
  <2>11. f \in Allowed(rs)
    BY <1>2, <2>6, <2>7
  <2>. QED  BY <2>1, <2>2, <2>9, <2>10, <2>11
<1>7. ASSUME NEW f \in Allowed(rs), f[k] = v, In(SumOf(f, n), w)
      PROVE  Fits(v, rs, w, k)
  <2>1. f \in [1 .. n -> Word] /\ \A i \in 1 .. n : In(f[i], rs[i])
    BY <1>2
  <2>. DEFINE g == [i \in 1 .. n - 1 |-> IF i < k THEN f[i] ELSE f[i + 1]]
  <2>2. \A i \in 1 .. n - 1 : g[i] = IF i < k THEN f[i] ELSE f[i + 1]
    OBVIOUS
  <2>3. g \in [1 .. n - 1 -> Word]
    BY <1>1, <2>1
  <2>. HIDE DEF g
  <2>4. \A i \in 1 .. n - 1 : In(g[i], O[i])
    BY <1>1, <2>1, <2>2
  <2>5. g \in Allowed(O)
    BY <1>4, <2>3, <2>4
  <2>6. SumOf(g, n - 1) \in Nat /\ Least(O) <= SumOf(g, n - 1) /\ SumOf(g, n - 1) <= Most(O)
    BY <1>1, <2>5, AllowedSums
  <2>7. SumOf(f, n) = f[k] + SumOf(g, n - 1)
    BY <1>1, <1>5, <2>1, <2>2, SumOfOthers
  <2>8. In(v, rs[k])
    BY <1>1, <1>7, <2>1
  <2>. QED  BY <1>3, <1>7, <2>6, <2>7, <2>8
<1>. QED  BY <1>6, <1>7 DEF n

-----------------------------------------------------------------------------
(* The definition, from its first connection to its preparation. *)

\* What validation stored, and what preparation made of it.
RangesInv ==
  /\ TypeOK
  /\ stage \in {"validated", "prepared"} =>
       producers # <<>> /\ total # None /\ Whole(producers, consumer, total)
  /\ stage = "incompatible" => Whole(producers, consumer, None)
  /\ stage = "prepared" => ranges = [k \in 1 .. Len(producers) |-> Share(producers, total, k)]
  /\ stage # "failed"

LEMMA DeclaredType == Declared \subseteq Cardinalities
<1>1. Bounds \subseteq Word
  BY RangesAssumption DEF Word
<1>. QED  BY <1>1 DEF Declared, Cardinalities

LEMMA RangesInit == Init => RangesInv
<1>. SUFFICES ASSUME Init PROVE RangesInv
  OBVIOUS
<1>1. Unlimited \in Cardinalities
  BY RangesAssumption DEF Unlimited, Cardinalities, Word
<1>2. <<>> \in Seq(Cardinalities)
  OBVIOUS
<1>. QED  BY <1>1, <1>2 DEF Init, RangesInv, TypeOK

\* What can be delivered between the producers is the share of each one.
LEMMA ShareExact ==
  ASSUME NEW rs \in Seq(Cardinalities), NEW c \in Cardinalities,
         NEW w, Whole(rs, c, w), w # None, NEW k \in 1 .. Len(rs), NEW v \in Word
  PROVE  In(v, Share(rs, w, k)) <=>
           \E f \in Allowed(rs) : f[k] = v /\ In(SumOf(f, Len(rs)), c)
<1>1. \A t \in Nat : Least(rs) <= t /\ t <= Most(rs) => (In(t, w) <=> In(t, c))
  BY WholeIs
<1>2. \A f \in Allowed(rs) : In(SumOf(f, Len(rs)), w) <=> In(SumOf(f, Len(rs)), c)
  BY <1>1, AllowedSums
<1>3. In(v, Share(rs, w, k)) <=> Fits(v, rs, w, k)
  BY ShareIs
<1>4. Fits(v, rs, w, k) <=> \E f \in Allowed(rs) : f[k] = v /\ In(SumOf(f, Len(rs)), w)
  BY FitsAllowed
<1>. QED  BY <1>2, <1>3, <1>4

\* Some delivery has exactly the minimum of the connection.
LEMMA LeastDelivery ==
  ASSUME NEW rs \in Seq(Cardinalities), NEW c \in Cardinalities,
         NEW w, Whole(rs, c, w), w # None
  PROVE  \E f \in Allowed(rs) : SumOf(f, Len(rs)) = w.min /\ In(SumOf(f, Len(rs)), c)
<1>1. /\ w \in Cardinalities /\ Least(rs) <= w.min /\ w.min <= Most(rs)
      /\ In(w.min, w) <=> In(w.min, c)
  BY WholeIs, CardinalityType
<1>2. w.min \in Nat /\ In(w.min, w)
  BY <1>1, CardinalityType DEF In
<1>3. PICK f \in Allowed(rs) : SumOf(f, Len(rs)) = w.min
  BY <1>1, <1>2, AllowedSums
<1>. QED  BY <1>1, <1>2, <1>3

\* The minimums of all shares fit into the group's budget: in the delivery with
\* the least sum no producer sends less than its share's minimum.
LEMMA SharesFit ==
  ASSUME NEW rs \in Seq(Cardinalities), NEW c \in Cardinalities,
         NEW w, Whole(rs, c, w), w # None,
         NEW shares \in Seq(Cardinalities), Len(shares) = Len(rs),
         \A k \in 1 .. Len(rs) : shares[k] = Share(rs, w, k)
  PROVE  GroupFits(shares, w)
<1>. DEFINE n == Len(rs)
            low == Minimums(shares)
<1>1. PICK f \in Allowed(rs) : SumOf(f, n) = w.min /\ In(SumOf(f, n), c)
  BY LeastDelivery
<1>2. f \in [1 .. n -> Word] /\ n \in Nat
  BY RangesSeq DEF Allowed
<1>3. ASSUME NEW k \in 1 .. n PROVE low[k] <= f[k] /\ f[k] \in Nat
  <2>1. f[k] \in Word /\ f[k] \in Nat
    BY <1>2, RangesAssumption DEF Word
  <2>2. In(f[k], Share(rs, w, k))
    BY <1>1, <2>1, ShareExact
  <2>3. low[k] = shares[k].min /\ shares[k] = Share(rs, w, k)
    BY RangesSeq
  <2>. QED  BY <2>1, <2>2, <2>3, CardinalityType, RangesSeq DEF In
<1>4. Counts(low, n) /\ Counts(f, n)
  BY <1>3, RangesSeq DEF Counts
<1>5. SumOf(low, n) <= SumOf(f, n)
  <2>. HIDE DEF low, n
  <2>. QED  BY <1>2, <1>3, <1>4, SumOfGrows
<1>6. Least(shares) <= w.min
  BY <1>1, <1>5 DEF Least
<1>7. /\ UMax \in Nat /\ None \notin Int
      /\ w.min \in Nat /\ w.min <= UMax /\ (w.max # None => w.max \in Nat /\ w.min <= w.max)
      /\ Least(shares) \in Nat
      /\ SumTo(Minimums(shares)) = IF Least(shares) > UMax THEN None ELSE Least(shares)
  BY RangesAssumption, WholeIs, CardinalityType, RangesSum
<1>8. SumTo(Minimums(shares)) = Least(shares) /\ Least(shares) # None
  BY <1>6, <1>7
<1>. QED  BY <1>6, <1>7, <1>8 DEF GroupFits

\* Preparation of a validated definition succeeds, and gives each producer its
\* share.
LEMMA PrepareSound ==
  ASSUME RangesInv, Prepare
  PROVE  /\ stage' = "prepared"
         /\ ranges' = [k \in 1 .. Len(producers) |-> Share(producers, total, k)]
         /\ ranges' \in Seq(Cardinalities)
<1>. DEFINE n == Len(producers)
            shares == IF n = 1 THEN <<total>>
                      ELSE [k \in DOMAIN producers |-> Projected(producers, total, k)]
            sound == \/ n = 1
                     \/ None \notin {shares[k] : k \in DOMAIN shares} /\ GroupFits(shares, total)
            all == [k \in 1 .. n |-> Share(producers, total, k)]
<1>1. /\ producers \in Seq(Cardinalities) /\ consumer \in Cardinalities
      /\ total # None /\ Whole(producers, consumer, total)
      /\ n \in Nat /\ DOMAIN producers = 1 .. n
  BY RangesSeq DEF RangesInv, TypeOK, Prepare
<1>2. \A k \in 1 .. n : Share(producers, total, k) \in Cardinalities
  BY <1>1, ShareIs
<1>3. /\ stage' = IF sound THEN "prepared" ELSE "failed"
      /\ ranges' = IF sound THEN shares ELSE ranges
  BY DEF Prepare
<1>4. all \in [1 .. n -> Cardinalities] /\ \A k \in 1 .. n : all[k] = Share(producers, total, k)
  BY <1>2
<1>5. shares = all
  <2>1. CASE n = 1
    <3>1. shares = <<total>> /\ all = [k \in 1 .. 1 |-> total]
      BY <2>1 DEF Share
    <3>2. <<total>> = [k \in 1 .. 1 |-> total]
      OBVIOUS
    <3>. QED  BY <3>1, <3>2
  <2>2. CASE n # 1
    BY <1>1, <2>2 DEF Share
  <2>. QED  BY <2>1, <2>2
<1>. HIDE DEF n, all, shares
<1>6. all \in Seq(Cardinalities) /\ Len(all) = n /\ DOMAIN all = 1 .. n
  BY <1>1, <1>4
<1>7. GroupFits(all, total)
  BY <1>1, <1>4, <1>6, SharesFit DEF n
<1>8. None \notin {all[k] : k \in DOMAIN all}
  BY <1>2, <1>4, <1>6, NoneAssumption
<1>9. sound
  BY <1>5, <1>7, <1>8
<1>. HIDE DEF sound
<1>10. stage' = "prepared" /\ ranges' = all
  BY <1>3, <1>5, <1>9
<1>. QED  BY <1>6, <1>10 DEF all, n

LEMMA RangesStep == RangesInv /\ [Next]_vars => RangesInv'
<1>. SUFFICES ASSUME RangesInv, [Next]_vars PROVE RangesInv'
  OBVIOUS
<1>0. TypeOK /\ producers \in Seq(Cardinalities) /\ consumer \in Cardinalities
  BY DEF RangesInv, TypeOK
<1>1. CASE Connect
  <2>1. PICK r \in Declared : producers' = Append(producers, r)
    BY <1>1 DEF Connect
  <2>2. producers' \in Seq(Cardinalities)
    BY <1>0, <2>1, DeclaredType
  <2>. QED  BY <1>1, <2>2 DEF Connect, RangesInv, TypeOK
<1>2. CASE Constrain
  <2>1. PICK r \in Declared :
          IF Intersection(consumer, r) = None
          THEN stage' = "disjoint" /\ UNCHANGED consumer
          ELSE consumer' = Intersection(consumer, r) /\ UNCHANGED stage
    BY <1>2 DEF Constrain
  <2>2. Intersection(consumer, r) \in Cardinalities \cup {None}
    BY <1>0, DeclaredType, IntersectionType
  <2>. QED  BY <1>2, <2>1, <2>2 DEF Constrain, RangesInv, TypeOK
<1>3. CASE Validate
  <2>. DEFINE sum == ProducerSum(producers)
              effective == IF sum = None THEN None ELSE Intersection(sum, consumer)
  <2>1. /\ producers # <<>>
        /\ stage' = IF sum = None THEN "overflow"
                    ELSE IF effective = None THEN "incompatible" ELSE "validated"
        /\ total' = effective
        /\ UNCHANGED <<consumer, producers, ranges>>
    BY <1>3 DEF Validate
  <2>2. effective \in Cardinalities \cup {None}
    BY <1>0, ProducerSumIs, IntersectionType
  <2>3. sum # None => Whole(producers, consumer, effective)
    BY DEF Whole
  <2>4. TypeOK'
    <3>. HIDE DEF sum, effective
    <3>. QED  BY <1>0, <2>1, <2>2 DEF TypeOK
  <2>5. sum # None => Whole(producers, consumer, effective)'
    BY <2>1, <2>3 DEF Whole
  <2>6. /\ stage' \in {"validated", "prepared"} => total' # None /\ sum # None /\ total' = effective
        /\ stage' = "incompatible" => sum # None /\ effective = None
        /\ stage' # "prepared" /\ stage' # "failed"
    <3>. HIDE DEF effective, sum
    <3>. QED  BY <2>1
  <2>7. Whole(producers', consumer', total') <=> Whole(producers, consumer, effective)
    BY <2>1 DEF Whole
  <2>8. Whole(producers', consumer', None) <=> Whole(producers, consumer, None)
    BY <2>1 DEF Whole
  <2>. HIDE DEF effective, sum
  <2>. QED  BY <2>1, <2>3, <2>4, <2>6, <2>7, <2>8 DEF RangesInv
<1>4. CASE Prepare
  <2>1. UNCHANGED <<consumer, producers, total>> /\ stage = "validated"
    BY <1>4 DEF Prepare
  <2>. QED  BY <1>4, <2>1, PrepareSound DEF RangesInv, TypeOK
<1>5. CASE UNCHANGED vars
  BY <1>5 DEF vars, RangesInv, TypeOK
<1>. QED  BY <1>1, <1>2, <1>3, <1>4, <1>5 DEF Next

LEMMA RangesInvariant == Spec => []RangesInv
BY RangesInit, RangesStep, PTL DEF Spec

\* Every cardinality on the way is one that Cardinality::new builds.
THEOREM TypeInvariant == Spec => []TypeOK
<1>1. RangesInv => TypeOK
  BY DEF RangesInv
<1>. QED  BY <1>1, RangesInvariant, PTL

LEMMA DeliveriesAllowed ==
  ASSUME TypeOK
  PROVE  Deliveries = {f \in Allowed(producers) : In(SumOf(f, Len(producers)), consumer)}
<1>1. DOMAIN producers = 1 .. Len(producers)
  BY RangesSeq DEF TypeOK
<1>. QED  BY <1>1 DEF Deliveries, Allowed

\* A definition that passes validation has something to deliver, and its
\* preparation cannot fail.
THEOREM PreparationNeverFails == Spec => []ValidatedPrepares
<1>1. RangesInv => ValidatedPrepares
  <2>. SUFFICES ASSUME RangesInv, stage = "validated" PROVE Deliveries # {}
    BY DEF RangesInv, ValidatedPrepares
  <2>1. /\ producers \in Seq(Cardinalities) /\ consumer \in Cardinalities
        /\ total # None /\ Whole(producers, consumer, total)
    BY DEF RangesInv, TypeOK
  <2>2. PICK f \in Allowed(producers) : In(SumOf(f, Len(producers)), consumer)
    BY <2>1, LeastDelivery
  <2>. QED  BY <2>2, DeliveriesAllowed DEF RangesInv
<1>. QED  BY <1>1, RangesInvariant, PTL

\* What validation refuses as incompatible could not have delivered anything.
THEOREM RefusalIsJustified == Spec => []RefusedIsImpossible
<1>1. RangesInv => RefusedIsImpossible
  <2>. SUFFICES ASSUME RangesInv, stage = "incompatible" PROVE Deliveries = {}
    BY DEF RefusedIsImpossible
  <2>1. /\ producers \in Seq(Cardinalities) /\ consumer \in Cardinalities
        /\ Whole(producers, consumer, None)
    BY DEF RangesInv, TypeOK
  <2>2. \A t \in Nat : Least(producers) <= t /\ t <= Most(producers) => ~In(t, consumer)
    BY <2>1, NoWhole
  <2>3. \A f \in Allowed(producers) : ~In(SumOf(f, Len(producers)), consumer)
    BY <2>1, <2>2, AllowedSums
  <2>. QED  BY <2>3, DeliveriesAllowed DEF RangesInv
<1>. QED  BY <1>1, RangesInvariant, PTL

\* A producer's share is exactly what it may send in some delivery.
THEOREM SharesAreExact == Spec => []SharesExact
<1>1. RangesInv => SharesExact
  <2>. SUFFICES ASSUME RangesInv, stage = "prepared", NEW k \in DOMAIN producers
       PROVE  {n \in Word : In(n, ranges[k])} = {f[k] : f \in Deliveries}
    BY DEF SharesExact
  <2>1. /\ producers \in Seq(Cardinalities) /\ consumer \in Cardinalities
        /\ total # None /\ Whole(producers, consumer, total)
        /\ ranges = [i \in 1 .. Len(producers) |-> Share(producers, total, i)]
        /\ k \in 1 .. Len(producers)
    BY RangesSeq DEF RangesInv, TypeOK
  <2>2. ranges[k] = Share(producers, total, k)
    BY <2>1
  <2>3. \A v \in Word : In(v, ranges[k]) <=>
          \E f \in Allowed(producers) : f[k] = v /\ In(SumOf(f, Len(producers)), consumer)
    BY <2>1, <2>2, ShareExact
  <2>4. \A f \in Allowed(producers) : f[k] \in Word
    BY <2>1 DEF Allowed
  <2>5. Deliveries = {f \in Allowed(producers) : In(SumOf(f, Len(producers)), consumer)}
    BY DeliveriesAllowed DEF RangesInv
  <2>. QED  BY <2>3, <2>4, <2>5
<1>. QED  BY <1>1, RangesInvariant, PTL
=============================================================================
