------------------------------ MODULE PortIds -------------------------------
(***************************************************************************)
(* Port identifiers: signed words, negative for inputs and positive for    *)
(* outputs.  New port descriptors get theirs from two process-wide         *)
(* counters, which run away from zero and are set to zero when the last ID *)
(* is out; others are constructed from a number, of which the counters     *)
(* know nothing.                                                           *)
(*                                                                         *)
(* Any thread advances a counter, by a load and a compare-and-swap that is *)
(* repeated with the value found when another thread came first.           *)
(***************************************************************************)
EXTENDS Integers, Sequences, FiniteSets

CONSTANTS
  Threads,  \* the threads that create descriptors
  Half,     \* isize::MAX + 1, half the values of a machine word
  None

Directions == {"input", "output"}

ASSUME PortIdsAssumption ==
  /\ IsFiniteSet(Threads)
  /\ Half \in Nat \ {0, 1}
  /\ None \notin Int \cup Directions

\* What isize and usize can hold.
Signed   == -Half .. Half - 1
Unsigned == 0 .. 2 * Half - 1

VARIABLES
  counter,  \* the counter of each direction
  pc,       \* where each thread's call of next() is
  kind,     \* the direction it allocates in
  seen,     \* the counter's value that it has read
  issued    \* history: the IDs each counter gave out, in order

vars == <<counter, pc, kind, seen, issued>>

-----------------------------------------------------------------------------
(* The representations of an ID. *)

\* isize as usize, and back
AsUsize(id)     == IF id < 0 THEN id + 2 * Half ELSE id
AsIsize(key)    == IF key < Half THEN key ELSE key - 2 * Half

\* unsigned_abs, which has a result for isize::MIN as well
Magnitude(id)   == IF id < 0 THEN -id ELSE id
Index(id)       == Magnitude(id) - 1

\* (fault) zero passes for an output
DirectionLax(id) == IF id < 0 THEN "input" ELSE "output"

\* TryFrom<isize> for PortId
Direction(id) == IF id < 0 THEN "input" ELSE IF id > 0 THEN "output" ELSE None

\* from_usize
FromUsize(key) == IF Direction(AsIsize(key)) = None THEN None ELSE AsIsize(key)

\* TryFrom<isize> for InputPortId and OutputPortId
Valid(d, id)   == IF d = "input" THEN id < 0 ELSE id > 0
TypedId(d, id) == IF Valid(d, id) THEN id ELSE None

\* Serde tags the signed number with the direction, and checks that they agree.
Serialized(id)     == [tag |-> Direction(id), number |-> id]
Deserialized(form) == TypedId(form.tag, form.number)

-----------------------------------------------------------------------------

First(d) == IF d = "input" THEN -1 ELSE 1

\* (fault) the counter of the inputs stops one short of isize::MIN
SuccessorShort(d, id) ==
  IF d = "input" THEN IF id = -Half + 1 THEN 0 ELSE id - 1
                 ELSE IF id = Half - 1 THEN 0 ELSE id + 1

\* checked_sub or checked_add, and zero where they fail
Successor(d, id) ==
  IF d = "input" THEN IF id = -Half THEN 0 ELSE id - 1
                 ELSE IF id = Half - 1 THEN 0 ELSE id + 1

Init ==
  /\ counter = [d \in Directions |-> First(d)]
  /\ pc = [t \in Threads |-> "idle"]
  /\ kind = [t \in Threads |-> "input"]
  /\ seen = [t \in Threads |-> 0]
  /\ issued = [d \in Directions |-> <<>>]

Goto(t, where) == pc' = [pc EXCEPT ![t] = where]

\* Inputs::default and Outputs::default; fetch_update begins with a load.
Load(t, d) ==
  /\ pc[t] = "idle"
  /\ Goto(t, "swapping")
  /\ kind' = [kind EXCEPT ![t] = d]
  /\ seen' = [seen EXCEPT ![t] = counter[d]]
  /\ UNCHANGED <<counter, issued>>

\* (fault) the counter is stored, not swapped
SwapBlind(t) ==
  /\ pc[t] = "swapping" /\ Valid(kind[t], seen[t])
  /\ counter' = [counter EXCEPT ![kind[t]] = Successor(kind[t], seen[t])]
  /\ issued' = [issued EXCEPT ![kind[t]] = Append(@, seen[t])]
  /\ Goto(t, "idle")
  /\ UNCHANGED <<kind, seen>>

\* The value is still the one seen: the ID is this thread's.
Swap(t) ==
  /\ pc[t] = "swapping" /\ Valid(kind[t], seen[t])
  /\ counter[kind[t]] = seen[t]
  /\ counter' = [counter EXCEPT ![kind[t]] = Successor(kind[t], seen[t])]
  /\ issued' = [issued EXCEPT ![kind[t]] = Append(@, seen[t])]
  /\ Goto(t, "idle")
  /\ UNCHANGED <<kind, seen>>

\* (fault) every attempt compares with the value read first
RetryStale(t) ==
  /\ pc[t] = "swapping" /\ Valid(kind[t], seen[t])
  /\ counter[kind[t]] # seen[t]
  /\ UNCHANGED vars

\* Another thread came first: try again with the value it left.  (A weak swap
\* that fails without a reason leaves everything as it is.)
Retry(t) ==
  /\ pc[t] = "swapping" /\ Valid(kind[t], seen[t])
  /\ counter[kind[t]] # seen[t]
  /\ seen' = [seen EXCEPT ![t] = counter[kind[t]]]
  /\ UNCHANGED <<counter, pc, kind, issued>>

\* expect("port ID space exhausted") panics, which ends the thread.
Panic(t) ==
  /\ pc[t] = "swapping" /\ ~Valid(kind[t], seen[t])
  /\ Goto(t, "panicked")
  /\ UNCHANGED <<counter, kind, seen, issued>>

Allocate(t) == Swap(t) \/ Retry(t) \/ Panic(t)

Next == \E t \in Threads : (\E d \in Directions : Load(t, d)) \/ Allocate(t)

Spec == Init /\ [][Next]_vars

\* A thread that has begun to allocate goes on.
FairSpec == Spec /\ \A t \in Threads : WF_vars(Allocate(t))

-----------------------------------------------------------------------------
(* Properties. *)

\* The IDs a counter has to give.
Space(d) == {id \in Signed : Valid(d, id)}

Given(d) == {issued[d][i] : i \in DOMAIN issued[d]}

\* Every variable has its type.
TypeOK ==
  /\ counter \in [Directions -> Signed]
  /\ pc \in [Threads -> {"idle", "swapping", "panicked"}]
  /\ kind \in [Threads -> Directions]
  /\ seen \in [Threads -> Signed]
  /\ issued \in [Directions -> Seq(Signed)]

\* No two descriptors get the same ID, and each gets one of its direction, also
\* when threads race and at the end of the word (port_id.rs:164-172, 253-261).
IssuedOnce ==
  \A d \in Directions :
    /\ Given(d) \subseteq Space(d)
    /\ \A i, j \in DOMAIN issued[d] : issued[d][i] = issued[d][j] => i = j

\* Allocation panics exactly when every ID has been given out: none is left over,
\* and an exhausted counter never starts again.
ExhaustedMeansAll ==
  /\ \A d \in Directions : ~Valid(d, counter[d]) <=> Given(d) = Space(d)
  /\ \A t \in Threads : pc[t] = "panicked" => Given(kind[t]) = Space(kind[t])

\* The numbers that counters and the descriptors made from them hold.
Numbers == {counter[d] : d \in Directions} \cup UNION {Given(d) : d \in Directions}

\* Whatever numbers come up, isize::MIN and the zero of an exhausted counter
\* included: one is the key of an ID unless it is zero; the ID keeps its
\* direction, and is what is read back; its magnitude fits the word, and tells
\* it from the others of its direction (port_id.rs:7-29, 50-77).
KeysIdentify ==
  \A n \in Numbers :
    /\ AsUsize(n) \in Unsigned
    /\ FromUsize(AsUsize(n)) = IF n = 0 THEN None ELSE n
    /\ \A d \in Directions : (Deserialized([tag |-> d, number |-> n]) = n) <=> (Direction(n) = d)
    /\ n # 0 =>
         /\ Deserialized(Serialized(n)) = n
         /\ Magnitude(n) \in Unsigned /\ Index(n) \in Unsigned
         /\ \A m \in Numbers \ {0} :
              Magnitude(n) = Magnitude(m) => n = m \/ Direction(n) # Direction(m)

\* The loop of an allocation ends, however many threads compete.
AllocationEnds == \A t \in Threads : (pc[t] = "swapping") ~> (pc[t] # "swapping")

=============================================================================
