----------------------------- MODULE FanInRanges ----------------------------
(***************************************************************************)
(* Cardinality arithmetic on the way from the declarations to a merged     *)
(* input: the constraints on each port are intersected, validation meets   *)
(* the sum of the producers' ranges with the consumer's, and preparation   *)
(* projects the result back onto each producer, to size its quota.         *)
(* Counts are machine words: 0 .. UMax; a sum that does not fit fails.     *)
(***************************************************************************)
EXTENDS Integers, Sequences

CONSTANTS
  UMax,   \* usize::MAX
  Bounds, \* the counts that declarations name
  Ports,  \* bound: producers connected to the input
  None    \* no maximum, no range, no value

ASSUME RangesAssumption ==
  /\ UMax \in Nat /\ None \notin Int
  /\ Bounds \subseteq 0 .. UMax
  /\ Ports \in Nat

VARIABLES
  stage,     \* how far the definition has got, or the error it ended with
  consumer,  \* the effective range of the input
  producers, \* the effective range of each connected output
  total,     \* connection_cardinalities of the input
  ranges     \* what preparation gives each producer

vars == <<stage, consumer, producers, total, ranges>>

-----------------------------------------------------------------------------

Word == 0 .. UMax

\* Cardinality::new never builds another one.
Cardinalities == {r \in [min : Word, max : Word \cup {None}] : r.max # None => r.min <= r.max}

ASSUME NoneAssumption == None \notin Cardinalities

Unlimited == [min |-> 0, max |-> None]

Lesser(a, b)  == IF a <= b THEN a ELSE b
Greater(a, b) == IF a <= b THEN b ELSE a

\* Cardinality::new; None stands for its failure.
NewCardinality(min, max) ==
  IF max # None /\ min > max THEN None ELSE [min |-> min, max |-> max]

LesserMax(a, b) == IF a = None THEN b ELSE IF b = None THEN a ELSE Lesser(a, b)

Intersection(r, s) == NewCardinality(Greater(r.min, s.min), LesserMax(r.max, s.max))

\* (fault) the sum may be no machine word
CheckedAddUnchecked(a, b) == IF a = None \/ b = None THEN None ELSE a + b

\* (fault) the sum wraps
CheckedAddWraps(a, b) ==
  IF a = None \/ b = None THEN None ELSE (a + b) % (UMax + 1)

\* usize::checked_add, where a None that went in comes out again
CheckedAdd(a, b) ==
  IF a = None \/ b = None \/ a + b > UMax THEN None ELSE a + b

\* Sums over all of a sequence, and over all but one place.
SumTo(s) ==
  LET sum[i \in 0 .. Len(s)] == IF i = 0 THEN 0 ELSE CheckedAdd(sum[i - 1], s[i])
  IN  sum[Len(s)]

Minimums(rs) == [i \in DOMAIN rs |-> rs[i].min]
Maximums(rs) == [i \in DOMAIN rs |-> rs[i].max]

Others(rs, k) == [i \in 1 .. Len(rs) - 1 |-> IF i < k THEN rs[i] ELSE rs[i + 1]]

-----------------------------------------------------------------------------
(* Validation. *)

\* The range of the sum of the producers, or None if it cannot be written down.
ProducerSum(rs) ==
  LET minimum == SumTo(Minimums(rs))
      maximum == SumTo(Maximums(rs))
  IN  IF \/ minimum = None
         \/ maximum = None /\ \A i \in DOMAIN rs : rs[i].max # None
      THEN None ELSE NewCardinality(minimum, maximum)

-----------------------------------------------------------------------------
(* projected_ranges. *)

\* (fault) the producer's own minimum is enough
ProjectedMinOwn(own, whole, otherMax) == own.min

\* (fault) others without a maximum are taken to reach nothing
ProjectedMinUncapped(own, whole, otherMax) ==
  Greater(own.min, IF otherMax = None THEN whole.min ELSE Greater(whole.min - otherMax, 0))

\* What the others cannot reach, this producer must send.
ProjectedMin(own, whole, otherMax) ==
  Greater(own.min, IF otherMax = None THEN 0 ELSE Greater(whole.min - otherMax, 0))

\* What the others must send, this producer cannot.
ProjectedMax(own, whole, otherMin) ==
  IF whole.max = None THEN own.max ELSE LesserMax(own.max, whole.max - otherMin)

\* One producer's share, or None where the code reports an overflow.
Projected(rs, whole, k) ==
  LET otherMin == SumTo(Minimums(Others(rs, k)))
      otherMax == SumTo(Maximums(Others(rs, k)))
  IN  IF otherMin = None \/ (whole.max # None /\ otherMin > whole.max) THEN None
      ELSE NewCardinality(ProjectedMin(rs[k], whole, otherMax), ProjectedMax(rs[k], whole, otherMin))

\* GroupBudget::new fails when the minimums do not fit.
GroupFits(rs, whole) ==
  LET reserved == SumTo(Minimums(rs))
  IN  reserved # None /\ (whole.max # None => reserved <= whole.max)

-----------------------------------------------------------------------------

Init ==
  /\ stage = "building"
  /\ consumer = Unlimited
  /\ producers = <<>>
  /\ total = None
  /\ ranges = <<>>

\* The range that one declaration writes down.
Declared == {r \in [min : Bounds, max : Bounds \cup {None}] : r.max # None => r.min <= r.max}

\* One more connection to the input, from an output with its effective range.
Connect ==
  /\ stage = "building" /\ Len(producers) < Ports
  /\ \E r \in Declared : producers' = Append(producers, r)
  /\ UNCHANGED <<stage, consumer, total, ranges>>

\* One more constraint on the input.
Constrain ==
  /\ stage = "building"
  /\ \E r \in Declared :
       LET effective == Intersection(consumer, r) IN
       IF effective = None
       THEN stage' = "disjoint" /\ UNCHANGED consumer
       ELSE consumer' = effective /\ UNCHANGED stage
  /\ UNCHANGED <<producers, total, ranges>>

\* SystemDefinition::validated_ports
Validate ==
  /\ stage = "building" /\ producers # <<>>
  /\ LET sum == ProducerSum(producers)
         effective == IF sum = None THEN None ELSE Intersection(sum, consumer)
     IN  /\ stage' = IF sum = None THEN "overflow"
                     ELSE IF effective = None THEN "incompatible" ELSE "validated"
         /\ total' = effective
  /\ UNCHANGED <<consumer, producers, ranges>>

\* merged_inputs::connect; a single producer gets the whole connection.
Prepare ==
  /\ stage = "validated"
  /\ LET shares == IF Len(producers) = 1 THEN <<total>>
                   ELSE [k \in DOMAIN producers |-> Projected(producers, total, k)]
         sound  == \/ Len(producers) = 1
                   \/ None \notin {shares[k] : k \in DOMAIN shares} /\ GroupFits(shares, total)
     IN  /\ stage' = IF sound THEN "prepared" ELSE "failed"
         /\ ranges' = IF sound THEN shares ELSE ranges
  /\ UNCHANGED <<consumer, producers, total>>

Next == Connect \/ Constrain \/ Validate \/ Prepare

Spec == Init /\ [][Next]_vars

-----------------------------------------------------------------------------
(* Properties. *)

\* Every variable has its type.
TypeOK ==
  /\ stage \in {"building", "validated", "prepared", "disjoint", "incompatible", "overflow", "failed"}
  /\ consumer \in Cardinalities
  /\ producers \in Seq(Cardinalities)
  /\ total \in Cardinalities \cup {None}
  /\ ranges \in Seq(Cardinalities)

In(n, r) == n >= r.min /\ (r.max # None => n <= r.max)

\* The sum of f[1], ..., f[n], as a number.
SumOf(f, n) ==
  LET sum[i \in 0 .. n] == IF i = 0 THEN 0 ELSE sum[i - 1] + f[i]
  IN  sum[n]

\* The counts the producers may send between them, whatever their order.
Deliveries ==
  {f \in [DOMAIN producers -> Word] :
     /\ \A i \in DOMAIN producers : In(f[i], producers[i])
     /\ In(SumOf(f, Len(producers)), consumer)}

\* A validated definition has something to deliver, and can be prepared: the
\* overflow errors of preparation are out of reach.
ValidatedPrepares ==
  /\ stage # "failed"
  /\ stage = "validated" => Deliveries # {}

\* A definition is refused as incompatible only if nothing could be delivered.
RefusedIsImpossible == stage = "incompatible" => Deliveries = {}

\* A producer's share is exactly what it may send in some delivery that the
\* consumer takes: no possible count is refused, no impossible one admitted.
SharesExact ==
  stage = "prepared" =>
    \A k \in DOMAIN producers :
      {n \in Word : In(n, ranges[k])} = {f[k] : f \in Deliveries}

=============================================================================
