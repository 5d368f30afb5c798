---------------------------- MODULE PortIdsProofs ----------------------------
(***************************************************************************)
(* Proofs about PortIds, for every word size and any threads: the keys     *)
(* identify the IDs, and a counter gives each of its IDs exactly once.     *)
(***************************************************************************)
EXTENDS PortIds, SequenceTheorems, TLAPS

-----------------------------------------------------------------------------
(* The inductive invariant. *)

\* What a counter has given out lies between zero and the counter, or is
\* everything once the counter is zero.
Spent(d) == {id \in Space(d) : Valid(d, counter[d]) => Magnitude(id) < Magnitude(counter[d])}

CounterInv ==
  \A d \in Directions :
    /\ Valid(d, counter[d]) \/ counter[d] = 0
    /\ Given(d) = Spent(d)
    /\ \A i, j \in DOMAIN issued[d] : issued[d][i] = issued[d][j] => i = j

\* Who has seen an exhausted counter is right for ever.
SeenInv ==
  \A t \in Threads :
    /\ pc[t] = "swapping" => Valid(kind[t], seen[t]) \/ ~Valid(kind[t], counter[kind[t]])
    /\ pc[t] = "panicked" => ~Valid(kind[t], counter[kind[t]])

AllocationInv == TypeOK /\ CounterInv /\ SeenInv

-----------------------------------------------------------------------------
(* The arithmetic of IDs. *)

\* A counter moves one away from zero, or to zero at the end of the word; in
\* both cases the value it leaves is the only one that is newly spent.
LEMMA SuccessorStep ==
  ASSUME NEW d \in Directions, NEW id \in Signed, Valid(d, id)
  PROVE  LET next == Successor(d, id) IN
         /\ next \in Signed
         /\ Valid(d, next) \/ next = 0
         /\ {x \in Space(d) : Valid(d, next) => Magnitude(x) < Magnitude(next)}
            = {x \in Space(d) : Magnitude(x) < Magnitude(id)} \cup {id}
  BY PortIdsAssumption DEF Directions, Signed, Valid, Successor, Space, Magnitude

\* Every number but zero is the key of one ID, whose magnitude fits the word,
\* and which is read back as it was written.
LEMMA NumberIsKey ==
  ASSUME NEW n \in Signed
  PROVE  /\ AsUsize(n) \in Unsigned
         /\ FromUsize(AsUsize(n)) = IF n = 0 THEN None ELSE n
         /\ \A d \in Directions : (Deserialized([tag |-> d, number |-> n]) = n) <=> (Direction(n) = d)
         /\ n # 0 => /\ Deserialized(Serialized(n)) = n
                     /\ Magnitude(n) \in Unsigned /\ Index(n) \in Unsigned
                     /\ Direction(n) = IF n < 0 THEN "input" ELSE "output"
  <1>0. n \in Int /\ None # n /\ None \notin Directions
    BY PortIdsAssumption DEF Signed
  <1>1. Direction(n) = IF n = 0 THEN None ELSE IF n < 0 THEN "input" ELSE "output"
    BY <1>0 DEF Direction
  <1>2. AsUsize(n) \in Unsigned /\ AsIsize(AsUsize(n)) = n
    BY PortIdsAssumption DEF Signed, Unsigned, AsUsize, AsIsize
  <1>3. FromUsize(AsUsize(n)) = IF n = 0 THEN None ELSE n
    BY <1>0, <1>1, <1>2 DEF FromUsize, Directions
  <1>4. ASSUME NEW d \in Directions
        PROVE  (Deserialized([tag |-> d, number |-> n]) = n) <=> (Direction(n) = d)
    <2>1. Deserialized([tag |-> d, number |-> n]) = n <=> Valid(d, n)
      BY <1>0 DEF Deserialized, TypedId
    <2>2. Valid(d, n) <=> Direction(n) = d
      BY <1>0, <1>1 DEF Valid, Directions
    <2> QED BY <2>1, <2>2
  <1>5. n # 0 => Direction(n) \in Directions /\ Deserialized(Serialized(n)) = n
    <2>1. n # 0 => Direction(n) \in Directions
      BY <1>1 DEF Directions
    <2> QED BY <1>4, <2>1 DEF Serialized
  <1>6. n # 0 => Magnitude(n) \in Unsigned /\ Index(n) \in Unsigned
    BY PortIdsAssumption DEF Signed, Unsigned, Magnitude, Index
  <1> QED BY <1>1, <1>2, <1>3, <1>4, <1>5, <1>6

\* Appending a value that is not in a sequence keeps its elements distinct.
LEMMA AppendNew ==
  ASSUME NEW s \in Seq(Signed), NEW x \in Signed,
         \A i, j \in DOMAIN s : s[i] = s[j] => i = j,
         x \notin {s[i] : i \in DOMAIN s}
  PROVE  LET r == Append(s, x) IN
         /\ r \in Seq(Signed)
         /\ {r[i] : i \in DOMAIN r} = {s[i] : i \in DOMAIN s} \cup {x}
         /\ \A i, j \in DOMAIN r : r[i] = r[j] => i = j
  <1> DEFINE r == Append(s, x)
  <1>1. /\ r \in Seq(Signed) /\ DOMAIN s = 1 .. Len(s) /\ Len(s) \in Nat
        /\ DOMAIN r = 1 .. Len(s) + 1
        /\ \A i \in 1 .. Len(s) : r[i] = s[i]
        /\ r[Len(s) + 1] = x
    OBVIOUS
  <1>2. {r[i] : i \in DOMAIN r} = {s[i] : i \in DOMAIN s} \cup {x}
    BY <1>1
  <1>3. \A i, j \in DOMAIN r : r[i] = r[j] => i = j
    BY <1>1
  <1> QED BY <1>1, <1>2, <1>3

-----------------------------------------------------------------------------

LEMMA InitAllocation == Init => AllocationInv
  <1> SUFFICES ASSUME Init PROVE AllocationInv
    OBVIOUS
  <1>1. TypeOK
    BY PortIdsAssumption DEF Init, TypeOK, Directions, Signed, First
  <1>2. ASSUME NEW d \in Directions
        PROVE  /\ Valid(d, counter[d]) /\ Given(d) = {} /\ Spent(d) = {}
               /\ \A i, j \in DOMAIN issued[d] : issued[d][i] = issued[d][j] => i = j
    <2>1. counter[d] = First(d) /\ issued[d] = <<>>
      BY DEF Init
    <2>2. Valid(d, First(d)) /\ \A id \in Space(d) : ~(Magnitude(id) < Magnitude(First(d)))
      BY PortIdsAssumption DEF Directions, First, Valid, Space, Signed, Magnitude
    <2>3. DOMAIN issued[d] = {}
      BY <2>1
    <2> QED BY <2>1, <2>2, <2>3 DEF Given, Spent
  <1>3. CounterInv
    BY <1>2, Zenon DEF CounterInv, Init
  <1>4. SeenInv
    BY DEF Init, SeenInv
  <1> QED BY <1>1, <1>3, <1>4 DEF AllocationInv

\* Steps that leave the counters alone.
LEMMA CountersKept ==
  ASSUME CounterInv, UNCHANGED <<counter, issued>>
  PROVE  CounterInv'
  BY DEF CounterInv, Given, Spent, Space

LEMMA LoadAllocation ==
  ASSUME AllocationInv, NEW t \in Threads, NEW d \in Directions, Load(t, d)
  PROVE  AllocationInv'
  <1>1. TypeOK' /\ SeenInv'
    BY DEF AllocationInv, TypeOK, SeenInv, Load, Goto
  <1> QED BY <1>1, CountersKept DEF AllocationInv, Load

LEMMA SwapAllocation ==
  ASSUME AllocationInv, NEW t \in Threads, Swap(t)
  PROVE  AllocationInv'
  <1>1. PICK d \in Directions, id \in Signed :
          kind[t] = d /\ seen[t] = id /\ Valid(d, id) /\ counter[d] = id
    BY DEF AllocationInv, TypeOK, Swap
  <1>2. /\ counter' = [counter EXCEPT ![d] = Successor(d, id)]
        /\ issued' = [issued EXCEPT ![d] = Append(@, id)]
        /\ pc' = [pc EXCEPT ![t] = "idle"] /\ UNCHANGED <<kind, seen>>
    BY <1>1 DEF Swap, Goto
  <1>3. /\ counter \in [Directions -> Signed] /\ issued \in [Directions -> Seq(Signed)]
        /\ kind \in [Threads -> Directions]
    BY DEF AllocationInv, TypeOK
  <1>4. /\ Given(d) = {x \in Space(d) : Magnitude(x) < Magnitude(id)}
        /\ id \notin Given(d)
    <2>1. Given(d) = Spent(d)
      BY <1>1 DEF AllocationInv, CounterInv
    <2>2. Spent(d) = {x \in Space(d) : Magnitude(x) < Magnitude(id)}
      BY <1>1 DEF Spent
    <2>3. ~(Magnitude(id) < Magnitude(id))
      BY <1>1, PortIdsAssumption DEF Signed, Magnitude
    <2> QED BY <2>1, <2>2, <2>3
  <1>5. /\ counter'[d] = Successor(d, id)
        /\ issued'[d] = Append(issued[d], id)
        /\ \A e \in Directions \ {d} : counter'[e] = counter[e] /\ issued'[e] = issued[e]
    BY <1>1, <1>2, <1>3
  <1>6. /\ Append(issued[d], id) \in Seq(Signed)
        /\ Given(d)' = Given(d) \cup {id}
        /\ \A i, j \in DOMAIN issued'[d] : issued'[d][i] = issued'[d][j] => i = j
    <2>1. \A i, j \in DOMAIN issued[d] : issued[d][i] = issued[d][j] => i = j
      BY <1>1 DEF AllocationInv, CounterInv
    <2>2. issued[d] \in Seq(Signed) /\ id \notin {issued[d][i] : i \in DOMAIN issued[d]}
      BY <1>1, <1>3, <1>4 DEF Given
    <2> DEFINE r == Append(issued[d], id)
    <2>3. /\ r \in Seq(Signed)
          /\ {r[i] : i \in DOMAIN r} = {issued[d][i] : i \in DOMAIN issued[d]} \cup {id}
          /\ \A i, j \in DOMAIN r : r[i] = r[j] => i = j
      BY <1>1, <2>1, <2>2, AppendNew
    <2>4. Given(d)' = {r[i] : i \in DOMAIN r}
      BY <1>5 DEF Given
    <2> HIDE DEF r
    <2>5. issued'[d] = r
      BY <1>5 DEF r
    <2> QED BY <2>3, <2>4, <2>5 DEF Given, r
  <1>7. /\ Successor(d, id) \in Signed
        /\ Valid(d, Successor(d, id)) \/ Successor(d, id) = 0
        /\ Spent(d)' = {x \in Space(d) : Magnitude(x) < Magnitude(id)} \cup {id}
    <2> DEFINE next == Successor(d, id)
    <2>1. /\ next \in Signed /\ (Valid(d, next) \/ next = 0)
          /\ {x \in Space(d) : Valid(d, next) => Magnitude(x) < Magnitude(next)}
             = {x \in Space(d) : Magnitude(x) < Magnitude(id)} \cup {id}
      BY <1>1, SuccessorStep
    <2>2. Spent(d)' = {x \in Space(d) : Valid(d, next) => Magnitude(x) < Magnitude(next)}
      BY <1>5 DEF Spent, Space
    <2> QED BY <2>1, <2>2
  <1>8. TypeOK'
    BY <1>2, <1>3, <1>6, <1>7 DEF AllocationInv, TypeOK
  <1>9. CounterInv'
    <2> SUFFICES ASSUME NEW e \in Directions
                 PROVE  /\ Valid(e, counter'[e]) \/ counter'[e] = 0
                        /\ Given(e)' = Spent(e)'
                        /\ \A i, j \in DOMAIN issued'[e] : issued'[e][i] = issued'[e][j] => i = j
      BY DEF CounterInv
    <2>1. CASE e = d
      <3>1. Given(d)' = Spent(d)'
        BY <1>4, <1>6, <1>7
      <3>2. Valid(d, counter'[d]) \/ counter'[d] = 0
        BY <1>5, <1>7
      <3> QED BY <2>1, <3>1, <3>2, <1>6
    <2>2. CASE e # d
      BY <2>2, <1>5 DEF AllocationInv, CounterInv, Given, Spent, Space
    <2> QED BY <2>1, <2>2
  <1>10. SeenInv'
    <2> SUFFICES ASSUME NEW u \in Threads
                 PROVE  /\ pc'[u] = "swapping" => Valid(kind[u], seen[u]) \/ ~Valid(kind[u], counter'[kind[u]])
                        /\ pc'[u] = "panicked" => ~Valid(kind[u], counter'[kind[u]])
      BY <1>2 DEF SeenInv
    <2>1. CASE u = t
      BY <2>1, <1>2 DEF AllocationInv, TypeOK
    <2>2. ASSUME u # t, ~Valid(kind[u], counter[kind[u]])
          PROVE  ~Valid(kind[u], counter'[kind[u]])
      BY <2>2, <1>1, <1>3, <1>5
    <2>3. u # t => pc'[u] = pc[u]
      BY <1>2 DEF AllocationInv, TypeOK
    <2> QED BY <2>1, <2>2, <2>3 DEF AllocationInv, SeenInv
  <1> QED BY <1>8, <1>9, <1>10 DEF AllocationInv

LEMMA RetryAllocation ==
  ASSUME AllocationInv, NEW t \in Threads, Retry(t)
  PROVE  AllocationInv'
  <1>1. TypeOK' /\ SeenInv'
    BY DEF AllocationInv, TypeOK, SeenInv, Retry
  <1> QED BY <1>1, CountersKept DEF AllocationInv, Retry

LEMMA PanicAllocation ==
  ASSUME AllocationInv, NEW t \in Threads, Panic(t)
  PROVE  AllocationInv'
  <1>1. TypeOK' /\ SeenInv'
    BY DEF AllocationInv, TypeOK, SeenInv, Panic, Goto
  <1> QED BY <1>1, CountersKept DEF AllocationInv, Panic

LEMMA NextAllocation == AllocationInv /\ [Next]_vars => AllocationInv'
  <1> SUFFICES ASSUME AllocationInv, [Next]_vars PROVE AllocationInv'
    OBVIOUS
  <1>1. ASSUME NEW t \in Threads, NEW d \in Directions, Load(t, d) PROVE AllocationInv'
    BY <1>1, LoadAllocation
  <1>2. ASSUME NEW t \in Threads, Allocate(t) PROVE AllocationInv'
    BY <1>2, SwapAllocation, RetryAllocation, PanicAllocation DEF Allocate
  <1>3. CASE UNCHANGED vars
    BY <1>3, CountersKept DEF vars, AllocationInv, TypeOK, SeenInv
  <1> QED BY <1>1, <1>2, <1>3 DEF Next

LEMMA AllocationHolds == Spec => []AllocationInv
  BY InitAllocation, NextAllocation, PTL DEF Spec

-----------------------------------------------------------------------------

\* Every variable of PortIds keeps its type, for any word size and any threads.
THEOREM PortIdTypes == Spec => []TypeOK
  <1>1. AllocationInv => TypeOK
    BY DEF AllocationInv
  <1> QED BY <1>1, AllocationHolds, PTL

\* No two descriptors get the same ID from the counters, however many threads
\* create them, up to the last ID of the word (port_id.rs:164-172, 253-261).
THEOREM NoIdTwice == Spec => []IssuedOnce
  <1>1. AllocationInv => IssuedOnce
    BY DEF AllocationInv, CounterInv, IssuedOnce, Spent
  <1> QED BY <1>1, AllocationHolds, PTL

\* Allocation fails only when all IDs of a direction are given out, and then for ever.
THEOREM ExhaustionIsReal == Spec => []ExhaustedMeansAll
  <1>1. ASSUME AllocationInv, NEW d \in Directions
        PROVE  ~Valid(d, counter[d]) <=> Given(d) = Space(d)
    <2>1. CASE Valid(d, counter[d])
      <3>1. counter[d] \in Space(d) /\ counter[d] \notin Spent(d)
        BY <1>1, <2>1, PortIdsAssumption
        DEF AllocationInv, TypeOK, Space, Spent, Signed, Magnitude
      <3> QED BY <1>1, <2>1, <3>1 DEF AllocationInv, CounterInv
    <2>2. CASE ~Valid(d, counter[d])
      BY <1>1, <2>2 DEF AllocationInv, CounterInv, Spent
    <2> QED BY <2>1, <2>2
  <1>2. AllocationInv => ExhaustedMeansAll
    BY <1>1 DEF AllocationInv, TypeOK, SeenInv, ExhaustedMeansAll
  <1> QED BY <1>2, AllocationHolds, PTL

\* The numbers that come up are keys of one ID each, for a word of any size:
\* isize::MIN as well (port_id.rs:7-29, 50-77).
THEOREM KeysAreExact == Spec => []KeysIdentify
  <1>1. TypeOK => Numbers \subseteq Signed
    <2>1. TypeOK => \A d \in Directions : issued[d] \in Seq(Signed) /\ counter[d] \in Signed
      BY DEF TypeOK
    <2>2. TypeOK => \A d \in Directions : Given(d) \subseteq Signed
      BY <2>1 DEF Given
    <2> QED BY <2>1, <2>2 DEF Numbers
  <1>2. ASSUME NEW n \in Signed \ {0}, NEW m \in Signed \ {0}, Magnitude(n) = Magnitude(m), n # m
        PROVE  Direction(n) # Direction(m)
    <2>1. (n < 0) # (m < 0)
      BY <1>2, PortIdsAssumption DEF Signed, Magnitude
    <2> QED BY <2>1, NumberIsKey
  <1>3. TypeOK => KeysIdentify
    BY <1>1, <1>2, NumberIsKey DEF KeysIdentify
  <1> QED BY <1>3, PortIdTypes, PTL

=============================================================================
