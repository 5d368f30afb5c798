---------------------------- MODULE FanInProofs -----------------------------
(* Theorems about FanIn, for any number of producers and handles, every    *)
(* negotiated cardinality and every queue capacity.                        *)
EXTENDS FanIn, FiniteSetTheorems, SequenceTheorems, TLAPS

-----------------------------------------------------------------------------
(* Type correctness. *)

LEMMA PassPermitType ==
  ASSUME NEW p, NEW holders \in SUBSET Handles, NEW waiting \in SUBSET Handles,
         PassPermit(p, holders, waiting)
  PROVE  PermitTypes'
BY Zenon DEF PassPermit, PermitTypes

LEMMA DropPermitType ==
  ASSUME PermitTypes, NEW h \in Handles, DropPermit(h)
  PROVE  PermitTypes'
<1>1. CASE h \in Holding(Owner[h])
  BY <1>1, PassPermitType DEF DropPermit, PermitTypes
<1>2. CASE h \notin Holding(Owner[h])
  BY <1>2 DEF DropPermit, PermitTypes
<1>. QED  BY <1>1, <1>2

LEMMA ReturnType ==
  ASSUME SendTypes, NEW h \in Handles, Return(h, "exceeded") \/ Return(h, "disconnected")
                                       \/ Return(h, "cancelled"),
         UNCHANGED <<op, calls>>
  PROVE  SendTypes'
BY DEF SendTypes, Return, Goto

\* Init gives every variable its type.
LEMMA NobodyType == Nobody \in [Producers -> Nat]
BY DEF Nobody

LEMMA PassedByType ==
  ASSUME HistoryTypes, NEW p \in Producers
  PROVE  PassedBy(p) \in [Producers -> [Producers -> Nat]]
<1>1. ASSUME NEW q \in Producers PROVE [passed[q] EXCEPT ![p] = @ + 1] \in [Producers -> Nat]
  <2>1. passed[q] \in [Producers -> Nat] /\ passed[q][p] + 1 \in Nat
    BY DEF HistoryTypes
  <2>. QED  BY <2>1
<1>. QED  BY <1>1, NobodyType DEF PassedBy

LEMMA TypeInit == Init => TypeOK
<1>. SUFFICES ASSUME Init PROVE TypeOK
  OBVIOUS
<1>1. <<>> \in Seq({"message", "connect", "disconnect"})
  OBVIOUS
<1>2. 0 \in Producers /\ 0 \in 0 .. N
  BY FanInAssumption DEF Producers
<1>3. SendTypes /\ PermitTypes /\ QuotaTypes
  BY DEF Init, SendTypes, PermitTypes, QuotaTypes
<1>4. QueueTypes /\ PollTypes /\ HistoryTypes
  BY <1>1, <1>2, NobodyType DEF Init, QueueTypes, PollTypes, HistoryTypes
<1>. QED  BY <1>3, <1>4 DEF TypeOK

\* The steps of a sending handle keep the types.
LEMMA TypeSend ==
  ASSUME TypeOK, NEW h \in Handles, HandleStep(h)
  PROVE  TypeOK'
<1>. USE DEF outVars, permVars, quotaVars, pollVars, srcVars, endVars, histVars
<1>0. /\ Owner[h] \in Producers /\ Ops \subseteq {"message", "connect", "disconnect"}
      /\ SendTypes /\ PermitTypes /\ QuotaTypes /\ QueueTypes /\ PollTypes /\ HistoryTypes
  BY FanInAssumption DEF TypeOK
<1>1. ASSUME NEW k \in Ops, Begin(h, k) PROVE TypeOK'
  <2>1. SendTypes'
    BY <1>0, <1>1 DEF SendTypes, Begin, Return, Goto
  <2>2. PermitTypes' /\ QuotaTypes' /\ QueueTypes' /\ PollTypes' /\ HistoryTypes'
    BY <1>0, <1>1 DEF Begin, PermitTypes, QuotaTypes, QueueTypes, PollTypes, HistoryTypes
  <2>. QED  BY <2>1, <2>2 DEF TypeOK
<1>2. CASE Check(h)
  <2>1. SendTypes' /\ PermitTypes'
    <3>1. CASE Exhausted(Owner[h]) /\ Return(h, "exceeded") /\ DropPermit(h)
      BY <1>0, <1>2, <3>1, DropPermitType, ReturnType DEF Check
    <3>2. CASE ~Exhausted(Owner[h])
      BY <1>0, <1>2, <3>2 DEF Check, SendTypes, PermitTypes, Goto
    <3>. QED  BY <1>2, <3>1, <3>2 DEF Check
  <2>2. QuotaTypes' /\ QueueTypes' /\ PollTypes' /\ HistoryTypes'
    BY <1>0, <1>2 DEF Check, QuotaTypes, QueueTypes, PollTypes, HistoryTypes
  <2>. QED  BY <2>1, <2>2 DEF TypeOK
<1>3. CASE Acquire(h)
  <2>1. SendTypes' /\ PermitTypes'
    <3>1. CASE rxClosed[Owner[h]]
      BY <1>0, <1>3, <3>1, DropPermitType, ReturnType DEF Acquire
    <3>2. CASE ~rxClosed[Owner[h]]
      BY <1>0, <1>3, <3>2 DEF Acquire, SendTypes, PermitTypes, Goto
    <3>. QED  BY <3>1, <3>2
  <2>2. QuotaTypes' /\ QueueTypes' /\ PollTypes' /\ HistoryTypes'
    BY <1>0, <1>3 DEF Acquire, QuotaTypes, QueueTypes, PollTypes, HistoryTypes
  <2>. QED  BY <2>1, <2>2 DEF TypeOK
<1>4. CASE Wake(h)
  BY <1>0, <1>4 DEF Wake, Goto, TypeOK, SendTypes, PermitTypes, QuotaTypes, QueueTypes,
                    PollTypes, HistoryTypes
<1>5. CASE Lock(h)
  BY <1>0, <1>5 DEF Lock, Goto, TypeOK, SendTypes, PermitTypes, QuotaTypes, QueueTypes,
                    PollTypes, HistoryTypes
<1>6. CASE Commit(h)
  <2>1. SendTypes' /\ PermitTypes' /\ QuotaTypes'
    <3>1. CASE ~Exhausted(Owner[h])
      <4>1. sent' \in [Producers -> Nat] /\ extras' \in Nat /\ UNCHANGED gate
        BY <1>0, <1>6, <3>1 DEF QuotaTypes, Commit, Spend
      <4>. QED  BY <1>0, <1>6, <3>1, <4>1 DEF Commit, SendTypes, PermitTypes, QuotaTypes, Goto
    <3>2. CASE Exhausted(Owner[h])
      BY <1>0, <1>6, <3>2, DropPermitType, ReturnType DEF Commit, QuotaTypes
    <3>. QED  BY <3>1, <3>2
  <2>2. QueueTypes' /\ PollTypes' /\ HistoryTypes'
    BY <1>0, <1>6 DEF Commit, QueueTypes, PollTypes, HistoryTypes
  <2>. QED  BY <2>1, <2>2 DEF TypeOK
<1>7. CASE Enqueue(h)
  <2>1. SendTypes' /\ PermitTypes' /\ QuotaTypes' /\ PollTypes'
    BY <1>0, <1>7 DEF Enqueue, SendTypes, PermitTypes, QuotaTypes, PollTypes, Goto
  <2>2. buf' \in [Producers -> Seq({"message", "connect", "disconnect"})]
    BY <1>0, <1>7 DEF SendTypes, QueueTypes, Enqueue
  <2>3. HistoryTypes'
    <3>1. accepted' \in [Producers -> Nat]
      BY <1>0, <1>7 DEF HistoryTypes, Enqueue
    <3>2. passed' \in [Producers -> [Producers -> Nat]]
      BY <1>0, <1>7, NobodyType DEF HistoryTypes, Enqueue
    <3>. QED  BY <1>0, <1>7, <3>1, <3>2 DEF HistoryTypes, Enqueue
  <2>. QED  BY <1>0, <1>7, <2>1, <2>2, <2>3 DEF TypeOK, Enqueue, QueueTypes
<1>8. CASE Notify(h)
  <2>1. SendTypes' /\ QuotaTypes' /\ PollTypes'
    BY <1>0, <1>8 DEF Notify, SendTypes, QuotaTypes, PollTypes, Goto
  <2>2. PermitTypes' /\ QueueTypes' /\ HistoryTypes'
    BY <1>0, <1>8 DEF Notify, PermitTypes, QueueTypes, HistoryTypes
  <2>. QED  BY <2>1, <2>2 DEF TypeOK
<1>9. CASE Cancel(h)
  <2>1. SendTypes' /\ PermitTypes'
    BY <1>0, <1>9, DropPermitType, ReturnType DEF Cancel
  <2>2. QuotaTypes' /\ QueueTypes' /\ PollTypes' /\ HistoryTypes'
    BY <1>0, <1>9 DEF Cancel, QuotaTypes, QueueTypes, PollTypes, HistoryTypes
  <2>. QED  BY <2>1, <2>2 DEF TypeOK
<1>10. CASE Close(h)
  BY <1>0, <1>10 DEF Close, Goto, TypeOK, SendTypes, PermitTypes, QuotaTypes, QueueTypes,
                     PollTypes, HistoryTypes
<1>. QED
  BY <1>1, <1>2, <1>3, <1>4, <1>5, <1>6, <1>7, <1>8, <1>9, <1>10 DEF HandleStep, Advance

\* The source the poll looks at is one of the producers.
LEMMA IndexType == PollTypes => Index \in Producers /\ NextTurn \in Producers
BY FanInAssumption DEF PollTypes, Producers, Index, NextTurn

LEMMA CloseSourcesType ==
  ASSUME NEW S, PermitTypes, CloseSources(S)
  PROVE  rxClosed' \in [Producers -> BOOLEAN] /\ queued' \in SUBSET Handles
BY DEF CloseSources, PermitTypes

LEMMA EndType ==
  ASSUME TypeOK, NEW how \in {"complete", "short"}, End(how)
  PROVE  /\ PermitTypes' /\ inp' = "Ended" /\ ending' \in {"complete", "short"}
         /\ rxClosed' \in [Producers -> BOOLEAN]
         /\ buf' \in [Producers -> Seq({"message", "connect", "disconnect"})]
<1>1. <<>> \in Seq({"message", "connect", "disconnect"})
  OBVIOUS
<1>2. rxClosed' \in [Producers -> BOOLEAN] /\ queued' \in SUBSET Handles
  BY CloseSourcesType DEF End, TypeOK
<1>. QED  BY <1>1, <1>2 DEF End, TypeOK, PermitTypes

\* What is left of a queue, or of a dropped one, is a queue.
LEMMA PopType ==
  ASSUME QueueTypes, NEW p \in Producers
  PROVE  /\ [buf EXCEPT ![p] = <<>>] \in [Producers -> Seq({"message", "connect", "disconnect"})]
         /\ buf[p] # <<>> => [buf EXCEPT ![p] = Tail(@)]
                               \in [Producers -> Seq({"message", "connect", "disconnect"})]
<1>1. buf[p] # <<>> => Tail(buf[p]) \in Seq({"message", "connect", "disconnect"})
  BY DEF QueueTypes
<1>2. <<>> \in Seq({"message", "connect", "disconnect"})
  OBVIOUS
<1>. QED  BY <1>1, <1>2 DEF QueueTypes

LEMMA VerdictType ==
  ASSUME NEW counts, NEW count PROVE Verdict(counts, count) \in {"complete", "short"}
BY DEF Verdict

\* What a source gives the poll keeps the types.
LEMMA TypeVisit == ASSUME TypeOK, Visit PROVE TypeOK'
<1>. USE DEF outVars, permVars, quotaVars, pollVars, srcVars, endVars, histVars
<1>. DEFINE p == Index
<1>0. /\ p \in Producers /\ NextTurn \in Producers /\ 0 \in 0 .. N
      /\ SendTypes /\ PermitTypes /\ QuotaTypes /\ QueueTypes /\ PollTypes /\ HistoryTypes
      /\ task = "polling" /\ scan + 1 \in 0 .. N
  BY FanInAssumption, IndexType DEF TypeOK, PollTypes, Visit, Looking
<1>1. /\ SendTypes' /\ QuotaTypes' /\ wake' \in {"listening", "notified"}
      /\ checked' \in BOOLEAN /\ accepted' \in [Producers -> Nat]
  BY <1>0 DEF Visit, SendTypes, QuotaTypes, PollTypes, HistoryTypes
<1>2. CASE Nothing
  <2>1. PermitTypes' /\ QueueTypes'
    BY <1>0, <1>2 DEF Nothing, PermitTypes, QueueTypes
  <2>2. PollTypes' /\ HistoryTypes'
    BY <1>0, <1>1, <1>2 DEF Nothing, LookOn, PollTypes, HistoryTypes
  <2>. QED  BY <1>1, <2>1, <2>2 DEF TypeOK
<1>3. CASE DeliverConnect
  <2>1. PermitTypes'
    BY <1>0, <1>3, PassPermitType DEF DeliverConnect, PermitTypes
  <2>2. QueueTypes'
    BY <1>0, <1>3, PopType DEF DeliverConnect, QueueTypes
  <2>3. passed' \in [Producers -> [Producers -> Nat]]
    BY <1>0, <1>3, PassedByType DEF DeliverConnect
  <2>4. PollTypes' /\ HistoryTypes'
    BY <1>0, <1>1, <1>3, <2>3 DEF DeliverConnect, StopPolling, PollTypes, HistoryTypes
  <2>. QED  BY <1>1, <2>1, <2>2, <2>4 DEF TypeOK
<1>4. CASE SourceOver
  <2>1. /\ UNCHANGED <<next, taken, received, delivered, passed>>
        /\ cut' \in SUBSET Producers
    BY <1>0, <1>4 DEF SourceOver, HistoryTypes
  <2>2. CASE /\ End("short") /\ StopPolling("idle")
             /\ src' = [src EXCEPT ![p] = "Ended"] /\ UNCHANGED done
    <3>1. PermitTypes' /\ QueueTypes'
      BY <1>0, <2>1, <2>2, EndType DEF QueueTypes
    <3>2. PollTypes' /\ HistoryTypes'
      BY <1>0, <1>1, <2>1, <2>2 DEF End, StopPolling, PollTypes, HistoryTypes
    <3>. QED  BY <1>1, <3>1, <3>2 DEF TypeOK
  <2>3. CASE /\ done' = [done EXCEPT ![p] = TRUE] /\ src' = [src EXCEPT ![p] = "Closed"]
             /\ buf' = [buf EXCEPT ![p] = <<>>] /\ CloseSources({p}) /\ LookOn
             /\ UNCHANGED <<inp, ending, assigned>>
    <3>1. PermitTypes' /\ rxClosed' \in [Producers -> BOOLEAN]
      BY <1>0, <2>3, CloseSourcesType DEF PermitTypes
    <3>2. QueueTypes'
      BY <1>0, <2>1, <2>3, <3>1, PopType DEF QueueTypes
    <3>3. PollTypes' /\ HistoryTypes'
      BY <1>0, <1>1, <2>1, <2>3 DEF LookOn, PollTypes, HistoryTypes
    <3>. QED  BY <1>1, <3>1, <3>2, <3>3 DEF TypeOK
  <2>. QED  BY <1>4, <2>2, <2>3 DEF SourceOver
<1>5. CASE Deliver
  <2>. DEFINE count  == IF PMax[p] # None \/ taken[p] < PMin[p] THEN taken[p] + 1 ELSE taken[p]
              total  == IF Max # None \/ received < Min THEN received + 1 ELSE received
              counts == [taken EXCEPT ![p] = count]
  <2>1. counts \in [Producers -> Nat] /\ total \in Nat
    BY <1>0 DEF QueueTypes, PollTypes
  <2>2. /\ taken' = counts /\ received' = total /\ next' = NextTurn /\ StopPolling("idle")
        /\ src' = IF PMax[p] = count THEN [src EXCEPT ![p] = "Ended"] ELSE src
        /\ passed' = PassedBy(p) /\ UNCHANGED <<done, cut>>
        /\ delivered' = IF ending' = "short" THEN delivered ELSE [delivered EXCEPT ![p] = @ + 1]
        /\ buf[p] # <<>>
    BY <1>5 DEF Deliver
  <2>3. \/ End(Verdict(counts, total))
        \/ UNCHANGED <<inp, ending>> /\ CloseSources({p})
           /\ buf' = [buf EXCEPT ![p] = <<>>] /\ UNCHANGED assigned
        \/ UNCHANGED <<inp, ending>> /\ buf' = [buf EXCEPT ![p] = Tail(@)]
           /\ PassPermit(p, assigned, queued) /\ UNCHANGED rxClosed
    BY <1>5 DEF Deliver
  <2>. HIDE DEF count, total, counts
  <2>4. src' \in [Producers -> {"Connected", "Disconnected", "Ended", "Closed"}]
        /\ done' \in [Producers -> BOOLEAN] /\ taken' \in [Producers -> Nat]
    BY <1>0, <2>1, <2>2 DEF QueueTypes
  <2>5. passed' \in [Producers -> [Producers -> Nat]] /\ delivered' \in [Producers -> Nat]
    <3>1. passed' \in [Producers -> [Producers -> Nat]]
      BY <1>0, <2>2, PassedByType
    <3>2. delivered \in [Producers -> Nat]
      BY <1>0 DEF HistoryTypes
    <3>3. delivered' \in [Producers -> Nat]
      BY <1>0, <2>2, <3>2
    <3>. QED  BY <3>1, <3>3
  <2>6. /\ PermitTypes' /\ rxClosed' \in [Producers -> BOOLEAN]
        /\ buf' \in [Producers -> Seq({"message", "connect", "disconnect"})]
        /\ inp' \in {"Merged", "Ended", "Closed"}
        /\ ending' \in {"open", "complete", "short", "aborted"}
    <3>1. CASE End(Verdict(counts, total))
      BY <3>1, EndType, VerdictType
    <3>2. CASE UNCHANGED <<inp, ending>> /\ CloseSources({p})
               /\ buf' = [buf EXCEPT ![p] = <<>>] /\ UNCHANGED assigned
      BY <1>0, <3>2, CloseSourcesType, PopType DEF PermitTypes, PollTypes, HistoryTypes
    <3>3. CASE UNCHANGED <<inp, ending>> /\ buf' = [buf EXCEPT ![p] = Tail(@)]
               /\ PassPermit(p, assigned, queued) /\ UNCHANGED rxClosed
      BY <1>0, <2>2, <3>3, PassPermitType, PopType DEF PermitTypes, QueueTypes, PollTypes, HistoryTypes
    <3>. QED  BY <2>3, <3>1, <3>2, <3>3
  <2>7. QueueTypes' /\ PollTypes' /\ HistoryTypes'
    BY <1>0, <1>1, <2>1, <2>2, <2>4, <2>5, <2>6 DEF QueueTypes, PollTypes, HistoryTypes, StopPolling
  <2>. QED  BY <1>1, <2>6, <2>7 DEF TypeOK
<1>. QED  BY <1>2, <1>3, <1>4, <1>5 DEF Visit

\* The other steps of the receiving task keep the types.
LEMMA TypeReceive ==
  ASSUME TypeOK, Poll \/ CancelReceive \/ Skip \/ Retire \/ ScanDone \/ Disconnect \/ CloseInput
  PROVE  TypeOK'
<1>. USE DEF outVars, permVars, quotaVars, pollVars, srcVars, endVars, histVars
<1>0. /\ SendTypes /\ PermitTypes /\ QuotaTypes /\ QueueTypes /\ PollTypes /\ HistoryTypes
      /\ Index \in Producers /\ 0 \in 0 .. N
  BY FanInAssumption, IndexType DEF TypeOK
<1>1. CASE Poll \/ CancelReceive \/ Skip
  <2>1. SendTypes' /\ PermitTypes' /\ QuotaTypes' /\ QueueTypes' /\ HistoryTypes'
    <3>1. CASE Poll
      BY <1>0, <3>1 DEF Poll, SendTypes, PermitTypes, QuotaTypes, QueueTypes, HistoryTypes
    <3>2. CASE CancelReceive
      BY <1>0, <3>2 DEF CancelReceive, SendTypes, PermitTypes, QuotaTypes, QueueTypes, HistoryTypes
    <3>3. CASE Skip
      BY <1>0, <3>3 DEF Skip, SendTypes, PermitTypes, QuotaTypes, QueueTypes, HistoryTypes
    <3>. QED  BY <1>1, <3>1, <3>2, <3>3
  <2>2. PollTypes'
    BY <1>0, <1>1, FanInAssumption DEF Poll, CancelReceive, Skip, LookOn, PollTypes
  <2>. QED  BY <2>1, <2>2 DEF TypeOK
<1>2. CASE Retire
  <2>1. PermitTypes' /\ QueueTypes'
    BY <1>0, <1>2, CloseSourcesType DEF Retire, PermitTypes, QueueTypes
  <2>2. SendTypes' /\ QuotaTypes' /\ PollTypes' /\ HistoryTypes'
    BY <1>0, <1>2 DEF Retire, SendTypes, QuotaTypes, PollTypes, HistoryTypes
  <2>. QED  BY <2>1, <2>2 DEF TypeOK
<1>3. CASE ScanDone
  <2>0. SendTypes' /\ QuotaTypes'
    BY <1>0, <1>3 DEF ScanDone, SendTypes, QuotaTypes
  <2>1. CASE End(Verdict(taken, received)) /\ StopPolling("idle")
    <3>1. PermitTypes' /\ QueueTypes'
      BY <1>0, <1>3, <2>1, EndType, VerdictType DEF ScanDone, QueueTypes
    <3>2. PollTypes' /\ HistoryTypes'
      BY <1>0, <1>3, <2>1, EndType, VerdictType DEF ScanDone, StopPolling, PollTypes, HistoryTypes
    <3>. QED  BY <2>0, <3>1, <3>2 DEF TypeOK
  <2>2. CASE StopPolling("asleep") /\ UNCHANGED <<inp, ending, rxClosed, permVars, buf>>
    <3>1. PermitTypes' /\ QueueTypes'
      BY <1>0, <1>3, <2>2 DEF ScanDone, PermitTypes, QueueTypes
    <3>2. PollTypes' /\ HistoryTypes'
      BY <1>0, <1>3, <2>2 DEF ScanDone, StopPolling, PollTypes, HistoryTypes
    <3>. QED  BY <2>0, <3>1, <3>2 DEF TypeOK
  <2>. QED  BY <1>3, <2>1, <2>2 DEF ScanDone
<1>4. CASE Disconnect
  <2>1. PermitTypes' /\ QueueTypes'
    BY <1>0, <1>4, CloseSourcesType DEF Disconnect, PermitTypes, QueueTypes
  <2>2. SendTypes' /\ QuotaTypes' /\ PollTypes' /\ HistoryTypes'
    BY <1>0, <1>4 DEF Disconnect, SendTypes, QuotaTypes, PollTypes, HistoryTypes
  <2>. QED  BY <2>1, <2>2 DEF TypeOK
<1>5. CASE CloseInput
  <2>1. <<>> \in Seq({"message", "connect", "disconnect"})
    OBVIOUS
  <2>2. PermitTypes' /\ QueueTypes'
    BY <1>0, <1>5, <2>1, CloseSourcesType DEF CloseInput, PermitTypes, QueueTypes
  <2>3. SendTypes' /\ QuotaTypes' /\ PollTypes' /\ HistoryTypes'
    BY <1>0, <1>5 DEF CloseInput, SendTypes, QuotaTypes, PollTypes, HistoryTypes
  <2>. QED  BY <2>2, <2>3 DEF TypeOK
<1>. QED  BY <1>1, <1>2, <1>3, <1>4, <1>5

\* Every step keeps the types.
LEMMA FanInTypeStep == TypeOK /\ [Next]_vars => TypeOK'
<1>. SUFFICES ASSUME TypeOK, [Next]_vars PROVE TypeOK'
  OBVIOUS
<1>1. ASSUME NEW h \in Handles, HandleStep(h) PROVE TypeOK'
  BY <1>1, TypeSend
<1>2. CASE Visit
  BY <1>2, TypeVisit
<1>3. CASE Poll \/ CancelReceive \/ Skip \/ Retire \/ ScanDone \/ Disconnect \/ CloseInput
  BY <1>3, TypeReceive
<1>4. CASE UNCHANGED vars
  BY <1>4 DEF vars, outVars, permVars, quotaVars, pollVars, srcVars, endVars, histVars, TypeOK,
                SendTypes, PermitTypes, QuotaTypes, QueueTypes, PollTypes, HistoryTypes
<1>. QED  BY <1>1, <1>2, <1>3, <1>4 DEF Next, Scanning

\* Every variable of a fan-in keeps its type.
THEOREM FanInTypeCorrect == Spec => []TypeOK
BY TypeInit, FanInTypeStep, PTL DEF Spec

-----------------------------------------------------------------------------
(* The budget.  An invariant says what the counters of the quotas count: the *)
(* payloads that were spent, those of a producer without maximum only up to  *)
(* its minimum, and the extras those beyond the reserved slots.              *)

\* A slot set is finite, and it has slot k of p if k is within p's count.
LEMMA SlotsMember ==
  ASSUME NEW count \in [Producers -> Nat]
  PROVE  /\ \A p \in Producers : \A k : <<p, k>> \in Slots(count) <=> k \in 1 .. count[p]
         /\ \A x \in Slots(count) : \E p \in Producers, k \in Nat : x = <<p, k>>
BY DEF Slots

LEMMA SlotsFinite ==
  ASSUME NEW count \in [Producers -> Nat] PROVE IsFiniteSet(Slots(count))
<1>. DEFINE R == {{p} \X (1 .. count[p]) : p \in Producers}
            f == [p \in Producers |-> {p} \X (1 .. count[p])]
<1>1. IsFiniteSet(Producers)
  BY FanInAssumption, FS_Interval DEF Producers
<1>2. f \in Surjection(Producers, R)
  BY DEF Surjection
<1>3. IsFiniteSet(R)
  BY <1>1, <1>2, FS_Surjection
<1>4. ASSUME NEW T \in R PROVE IsFiniteSet(T)
  <2>1. PICK p \in Producers : T = {p} \X (1 .. count[p])
    BY <1>4
  <2>2. count[p] \in Int
    OBVIOUS
  <2>3. IsFiniteSet(1 .. count[p])
    BY <2>2, FS_Interval
  <2>4. IsFiniteSet({p})
    BY FS_Singleton
  <2>. QED  BY <2>1, <2>3, <2>4, FS_Product
<1>. HIDE DEF R
<1>5. IsFiniteSet(UNION R)
  BY <1>3, <1>4, FS_UNION
<1>. QED  BY <1>5 DEF Slots, R

LEMMA ReservedSlots == Reserved = Slots(PMin) /\ IsFiniteSet(Reserved)
BY FanInAssumption, SlotsFinite DEF Reserved, Slots

\* What is left over for extras is a number.
LEMMA ExtraLimitType ==
  Max # None => /\ ExtraLimit \in Nat /\ Max \in Nat /\ Cardinality(Reserved) \in Nat
                /\ Cardinality(Reserved) + ExtraLimit = Max
BY FanInAssumption, ReservedSlots, FS_CardinalityType DEF ExtraLimit

\* A producer has finitely many payloads between commit and enqueue.
LEMMA PendingFinite == \A p : IsFiniteSet(Pending(p)) /\ Cardinality(Pending(p)) \in Nat
<1>. TAKE p
<1>1. Pending(p) \in SUBSET Handles
  BY DEF Pending
<1>. QED  BY <1>1, FanInAssumption, FS_Subset, FS_CardinalityType

LEMMA SpentType == TypeOK => \A p \in Producers : Spent(p) \in Nat
BY PendingFinite DEF Spent, TypeOK, HistoryTypes

\* A step of one handle leaves the pending payloads alone unless it enters or
\* leaves the place between commit and enqueue.
LEMMA PendingSame ==
  ASSUME TypeOK, NEW h \in Handles, NEW where, pc[h] # "committed", where # "committed",
         pc' = [pc EXCEPT ![h] = where], \A g \in Handles \ {h} : op'[g] = op[g], NEW p
  PROVE  Pending(p)' = Pending(p)
BY DEF Pending, TypeOK, SendTypes

\* Only a commit changes what was spent, and it does so as Spend counts it.
Spends(h) ==
  /\ ~Exhausted(Owner[h]) /\ Spend(Owner[h]) /\ pc'[h] = "committed" /\ UNCHANGED last
  /\ \A p \in Producers : Spent(p)' = IF p = Owner[h] THEN Spent(p) + 1 ELSE Spent(p)

SpendsNothing ==
  UNCHANGED <<sent, extras>> /\ \A p \in Producers : Spent(p)' = Spent(p)

LEMMA CommitSpends ==
  ASSUME TypeOK, NEW h \in Handles, Commit(h)
  PROVE  Spends(h) \/ SpendsNothing
<1>. USE DEF histVars
<1>0. Owner[h] \in Producers /\ SendTypes /\ UNCHANGED <<op, accepted>>
  BY FanInAssumption DEF Commit, TypeOK
<1>1. CASE Exhausted(Owner[h])
  <2>1. \A p : Pending(p)' = Pending(p)
    BY <1>0, <1>1, PendingSame DEF Commit, Return, Goto
  <2>. QED  BY <1>0, <1>1, <2>1 DEF Commit, SpendsNothing, Spent
<1>2. CASE ~Exhausted(Owner[h]) /\ op[h] # "message"
  <2>1. \A p : Pending(p)' = Pending(p)
    BY <1>0, <1>2 DEF Commit, Goto, Pending, SendTypes
  <2>. QED  BY <1>0, <1>2, <2>1 DEF Commit, SpendsNothing, Spent
<1>3. CASE ~Exhausted(Owner[h]) /\ op[h] = "message"
  <2>1. h \notin Pending(Owner[h])
    BY <1>3 DEF Commit, Pending
  <2>2. \A p : Pending(p)' = IF p = Owner[h] THEN Pending(p) \cup {h} ELSE Pending(p)
    BY <1>0, <1>3 DEF Commit, Goto, Pending, SendTypes
  <2>3. Cardinality(Pending(Owner[h]) \cup {h}) = Cardinality(Pending(Owner[h])) + 1
    BY <2>1, PendingFinite, FS_AddElement
  <2>4. ASSUME NEW p \in Producers
        PROVE  Spent(p)' = IF p = Owner[h] THEN Spent(p) + 1 ELSE Spent(p)
    <3>1. CASE p = Owner[h]
      <4>1. Pending(p)' = Pending(Owner[h]) \cup {h}
        BY <2>2, <3>1
      <4>. QED  BY <1>0, <2>3, <3>1, <4>1, PendingFinite DEF Spent, TypeOK, HistoryTypes
    <3>2. CASE p # Owner[h]
      BY <1>0, <2>2, <3>2 DEF Spent
    <3>. QED  BY <3>1, <3>2
  <2>5. Spend(Owner[h]) /\ UNCHANGED last /\ pc'[h] = "committed"
    BY <1>0, <1>3 DEF Commit, Goto, SendTypes
  <2>. QED  BY <1>3, <2>4, <2>5 DEF Spends
<1>. QED  BY <1>1, <1>2, <1>3

LEMMA EnqueueSpendsNothing ==
  ASSUME TypeOK, NEW h \in Handles, Enqueue(h)
  PROVE  SpendsNothing
<1>. USE DEF quotaVars
<1>0. /\ Owner[h] \in Producers /\ SendTypes /\ pc[h] = "committed"
      /\ pc' = [pc EXCEPT ![h] = "notifying"] /\ UNCHANGED <<op, sent, extras>>
  BY FanInAssumption DEF Enqueue, TypeOK, Goto
<1>1. CASE op[h] # "message"
  <2>1. \A p : Pending(p)' = Pending(p)
    BY <1>0, <1>1 DEF Pending, SendTypes
  <2>. QED  BY <1>0, <1>1, <2>1 DEF Enqueue, SpendsNothing, Spent
<1>2. CASE op[h] = "message"
  <2>1. h \in Pending(Owner[h])
    BY <1>0, <1>2 DEF Pending
  <2>2. \A p : Pending(p)' = IF p = Owner[h] THEN Pending(p) \ {h} ELSE Pending(p)
    BY <1>0, <1>2 DEF Pending, SendTypes
  <2>3. Cardinality(Pending(Owner[h]) \ {h}) = Cardinality(Pending(Owner[h])) - 1
    BY <2>1, PendingFinite, FS_RemoveElement
  <2>4. accepted' = [accepted EXCEPT ![Owner[h]] = @ + 1]
    BY <1>2 DEF Enqueue
  <2>5. ASSUME NEW p \in Producers PROVE Spent(p)' = Spent(p)
    <3>1. CASE p = Owner[h]
      <4>1. Pending(p)' = Pending(Owner[h]) \ {h}
        BY <2>2, <3>1
      <4>2. accepted \in [Producers -> Nat] /\ Cardinality(Pending(p)) \in Nat
        BY PendingFinite DEF TypeOK, HistoryTypes
      <4>3. accepted'[p] = accepted[p] + 1
        BY <2>4, <3>1, <4>2
      <4>. QED  BY <2>3, <3>1, <4>1, <4>2, <4>3 DEF Spent
    <3>2. CASE p # Owner[h]
      BY <1>0, <2>2, <2>4, <3>2 DEF Spent, TypeOK, HistoryTypes
    <3>. QED  BY <3>1, <3>2
  <2>. QED  BY <1>0, <2>5 DEF SpendsNothing
<1>. QED  BY <1>1, <1>2

\* What each step spends.
LEMMA StepSpends ==
  ASSUME TypeOK, [Next]_vars
  PROVE  SpendsNothing \/ \E h \in Handles : Spends(h)
<1>. USE DEF outVars, permVars, quotaVars, pollVars, srcVars, endVars, histVars
<1>1. ASSUME UNCHANGED <<pc, op, accepted, sent, extras>> PROVE SpendsNothing
  BY <1>1 DEF SpendsNothing, Spent, Pending
<1>2. ASSUME NEW h \in Handles, HandleStep(h), ~Commit(h), ~Enqueue(h) PROVE SpendsNothing
  <2>1. /\ UNCHANGED <<accepted, sent, extras>> /\ pc[h] # "committed"
        /\ \A g \in Handles \ {h} : op'[g] = op[g]
        /\ \E where : where # "committed" /\ pc' = [pc EXCEPT ![h] = where]
    <3>1. ASSUME NEW k \in Ops, Begin(h, k)
          PROVE  /\ UNCHANGED <<accepted, sent, extras>> /\ pc[h] # "committed"
                 /\ \A g \in Handles \ {h} : op'[g] = op[g]
                 /\ \E where : where # "committed" /\ pc' = [pc EXCEPT ![h] = where]
      BY <3>1 DEF Begin, Return, Goto, TypeOK, SendTypes
    <3>2. CASE Check(h) \/ Acquire(h)
      BY <3>2 DEF Check, Acquire, Return, Goto
    <3>3. CASE Wake(h) \/ Lock(h) \/ Notify(h)
      BY <3>3 DEF Wake, Lock, Notify, Goto
    <3>4. CASE Cancel(h) \/ Close(h)
      BY <3>4 DEF Cancel, Close, Return, Goto
    <3>. QED  BY <1>2, <3>1, <3>2, <3>3, <3>4 DEF HandleStep, Advance
  <2>2. \A p : Pending(p)' = Pending(p)
    BY <2>1, PendingSame
  <2>. QED  BY <2>1, <2>2 DEF SpendsNothing, Spent
<1>3. ASSUME Poll \/ CancelReceive \/ Scanning \/ Disconnect \/ CloseInput PROVE SpendsNothing
  BY <1>1, <1>3 DEF Poll, CancelReceive, Scanning, Skip, Retire, Visit, ScanDone, Disconnect,
                    CloseInput
<1>4. ASSUME UNCHANGED vars PROVE SpendsNothing
  BY <1>1, <1>4 DEF vars
<1>. QED
  BY <1>2, <1>3, <1>4, CommitSpends, EnqueueSpendsNothing DEF Next

-----------------------------------------------------------------------------
(* The inductive invariant of the budget. *)

QuotaCounts ==
  \A p \in Producers :
    sent[p] = IF PMax[p] # None \/ Spent(p) < PMin[p] THEN Spent(p) ELSE PMin[p]

WithinShare == \A p \in Producers : PMax[p] # None => Spent(p) <= PMax[p]

ExtrasExact ==
  Max # None => extras = Cardinality(SpentSlots \ Reserved) /\ extras <= ExtraLimit

BudgetInv == TypeOK /\ QuotaCounts /\ WithinShare /\ ExtrasExact

\* Slot k of p is spent if p spent k payloads.
LEMMA SpentSlotsMember ==
  ASSUME TypeOK
  PROVE  /\ \A p \in Producers : \A k : <<p, k>> \in SpentSlots <=> k \in 1 .. Spent(p)
         /\ \A x \in SpentSlots : \E p \in Producers, k \in Nat : x = <<p, k>>
         /\ IsFiniteSet(SpentSlots)
<1>. DEFINE count == [p \in Producers |-> Spent(p)]
<1>1. count \in [Producers -> Nat]
  BY SpentType
<1>2. \A p \in Producers : count[p] = Spent(p)
  OBVIOUS
<1>. HIDE DEF count
<1>3. /\ \A p \in Producers : \A k : <<p, k>> \in Slots(count) <=> k \in 1 .. count[p]
      /\ \A x \in Slots(count) : \E p \in Producers, k \in Nat : x = <<p, k>>
      /\ IsFiniteSet(Slots(count))
  BY <1>1, SlotsMember, SlotsFinite
<1>4. SpentSlots = Slots(count)
  BY DEF SpentSlots, count
<1>. QED  BY <1>2, <1>3, <1>4

LEMMA ReservedMember ==
  /\ \A p \in Producers : \A k : <<p, k>> \in Reserved <=> k \in 1 .. PMin[p]
  /\ \A x \in Reserved : \E p \in Producers, k \in Nat : x = <<p, k>>
BY FanInAssumption, ReservedSlots, SlotsMember

\* A commit spends one slot more, which was reserved or is an extra.
LEMMA SlotSpent ==
  ASSUME TypeOK, NEW h \in Handles, Spends(h)
  PROVE  LET p == Owner[h] IN
         (SpentSlots \ Reserved)' =
           IF Spent(p) < PMin[p] THEN SpentSlots \ Reserved
                                 ELSE (SpentSlots \ Reserved) \cup {<<p, Spent(p) + 1>>}
<1>. DEFINE p == Owner[h]
            slot == <<p, Spent(p) + 1>>
            count == [q \in Producers |-> IF q = p THEN Spent(q) + 1 ELSE Spent(q)]
<1>0. p \in Producers /\ Spent(p) \in Nat /\ PMin[p] \in Nat
  BY FanInAssumption, SpentType
<1>1. count \in [Producers -> Nat]
  BY SpentType
<1>2. SpentSlots' = Slots(count)
  BY DEF SpentSlots, Slots, Spends
<1>3. SpentSlots' = SpentSlots \cup {slot}
  <2>1. \A q \in Producers : count[q] = IF q = p THEN Spent(q) + 1 ELSE Spent(q)
    OBVIOUS
  <2>. HIDE DEF count
  <2>2. /\ \A q \in Producers : \A k : <<q, k>> \in Slots(count) <=> k \in 1 .. count[q]
        /\ \A x \in Slots(count) : \E q \in Producers, k \in Nat : x = <<q, k>>
    BY <1>1, SlotsMember
  <2>3. ASSUME NEW x \in Slots(count) PROVE x \in SpentSlots \cup {slot}
    <3>1. PICK q \in Producers, k \in Nat : x = <<q, k>>
      BY <2>2, <2>3
    <3>2. k \in 1 .. count[q]
      BY <2>2, <2>3, <3>1
    <3>3. k \in 1 .. Spent(q) \/ (q = p /\ k = Spent(p) + 1)
      BY <1>0, <2>1, <3>2, SpentType
    <3>. QED  BY <3>1, <3>3, SpentSlotsMember
  <2>4. ASSUME NEW x \in SpentSlots PROVE x \in Slots(count)
    <3>1. PICK q \in Producers, k \in Nat : x = <<q, k>>
      BY <2>4, SpentSlotsMember
    <3>2. k \in 1 .. Spent(q)
      BY <2>4, <3>1, SpentSlotsMember
    <3>3. k \in 1 .. count[q]
      BY <2>1, <3>2, SpentType
    <3>. QED  BY <2>2, <3>1, <3>3
  <2>5. slot \in Slots(count)
    <3>1. Spent(p) + 1 \in 1 .. count[p]
      BY <1>0, <2>1
    <3>. QED  BY <1>0, <2>2, <3>1
  <2>. QED  BY <1>2, <2>3, <2>4, <2>5
<1>4. slot \in Reserved <=> Spent(p) < PMin[p]
  <2>1. Spent(p) + 1 \in 1 .. PMin[p] <=> Spent(p) < PMin[p]
    BY <1>0
  <2>. QED  BY <1>0, <2>1, ReservedMember
<1>5. Reserved' = Reserved
  BY DEF Reserved
<1>. HIDE DEF slot
<1>6. (SpentSlots \ Reserved)' = IF Spent(p) < PMin[p] THEN SpentSlots \ Reserved
                                                     ELSE (SpentSlots \ Reserved) \cup {slot}
  BY <1>3, <1>4, <1>5
<1>. QED  BY <1>6 DEF slot

\* The same, counted.
LEMMA SlotCounted ==
  ASSUME TypeOK, NEW h \in Handles, Spends(h)
  PROVE  Cardinality(SpentSlots \ Reserved)' =
           IF Spent(Owner[h]) < PMin[Owner[h]] THEN Cardinality(SpentSlots \ Reserved)
                                               ELSE Cardinality(SpentSlots \ Reserved) + 1
<1>. DEFINE p == Owner[h]
            extra == SpentSlots \ Reserved
            slot == <<p, Spent(p) + 1>>
<1>1. IsFiniteSet(extra)
  BY SpentSlotsMember, FS_Difference
<1>2. slot \notin SpentSlots
  <2>1. p \in Producers /\ Spent(p) \in Nat
    BY FanInAssumption, SpentType
  <2>2. Spent(p) + 1 \notin 1 .. Spent(p)
    BY <2>1
  <2>. QED  BY <2>1, <2>2, SpentSlotsMember
<1>3. Cardinality(extra \cup {slot}) = Cardinality(extra) + 1
  BY <1>1, <1>2, FS_AddElement
<1>. QED  BY <1>3, SlotSpent

\* Nothing is spent at first.
LEMMA BudgetInit == Init => BudgetInv
<1>. SUFFICES ASSUME Init PROVE BudgetInv
  OBVIOUS
<1>1. TypeOK
  BY TypeInit
<1>2. \A p \in Producers : Spent(p) = 0
  <2>. TAKE p \in Producers
  <2>1. Pending(p) = {}
    BY DEF Init, Pending
  <2>. QED  BY <2>1, FS_EmptySet DEF Init, Spent
<1>3. QuotaCounts /\ WithinShare
  BY <1>2, FanInAssumption DEF Init, QuotaCounts, WithinShare
<1>4. SpentSlots = {}
  <2>1. \A p \in Producers : \A k : k \notin 1 .. Spent(p)
    BY <1>2
  <2>. QED  BY <1>1, <2>1, SpentSlotsMember
<1>5. ExtrasExact
  BY <1>4, ExtraLimitType, FS_EmptySet DEF Init, ExtrasExact
<1>. QED  BY <1>1, <1>3, <1>5 DEF BudgetInv

\* Every step counts what it spends, and spends only what is left.
LEMMA BudgetStep == BudgetInv /\ [Next]_vars => BudgetInv'
<1>. SUFFICES ASSUME BudgetInv, [Next]_vars PROVE BudgetInv'
  OBVIOUS
<1>0. TypeOK /\ QuotaCounts /\ WithinShare /\ ExtrasExact /\ TypeOK'
  BY FanInTypeStep DEF BudgetInv
<1>1. CASE SpendsNothing
  <2>1. SpentSlots' = SpentSlots
    BY <1>1 DEF SpendsNothing, SpentSlots, Slots
  <2>2. QuotaCounts' /\ WithinShare'
    BY <1>0, <1>1 DEF SpendsNothing, QuotaCounts, WithinShare
  <2>3. ExtrasExact'
    BY <1>0, <1>1, <2>1 DEF SpendsNothing, ExtrasExact, ExtraLimit, Reserved
  <2>. QED  BY <1>0, <2>2, <2>3 DEF BudgetInv
<1>2. ASSUME NEW h \in Handles, Spends(h) PROVE BudgetInv'
  <2>. DEFINE p == Owner[h]
  <2>0. /\ p \in Producers /\ \A q \in Producers : Spent(q) \in Nat
        /\ \A q \in Producers : PMin[q] \in Nat /\ PMax[q] \in Nat \cup {None}
        /\ \A q \in Producers : PMax[q] # None => PMin[q] <= PMax[q]
        /\ None \notin Nat
    BY <1>0, FanInAssumption, SpentType
  <2>1. /\ ~Exhausted(p) /\ Spend(p)
        /\ \A q \in Producers : Spent(q)' = IF q = p THEN Spent(q) + 1 ELSE Spent(q)
    BY <1>2 DEF Spends
  <2>2. sent[p] >= PMin[p] <=> Spent(p) >= PMin[p]
    BY <1>0, <2>0 DEF QuotaCounts
  <2>3. QuotaCounts'
    BY <1>0, <2>0, <2>1 DEF QuotaCounts, Spend, TypeOK, QuotaTypes
  <2>4. WithinShare'
    BY <1>0, <2>0, <2>1 DEF QuotaCounts, WithinShare, Exhausted
  <2>5. ExtrasExact'
    <3>1. ASSUME Max # None
          PROVE  extras' = Cardinality(SpentSlots \ Reserved)' /\ extras' <= ExtraLimit
      <4>1. /\ extras = Cardinality(SpentSlots \ Reserved) /\ extras <= ExtraLimit
            /\ extras \in Nat /\ ExtraLimit \in Nat
        BY <1>0, <3>1, ExtraLimitType DEF ExtrasExact, TypeOK, QuotaTypes
      <4>2. Cardinality(SpentSlots \ Reserved)' =
              IF Spent(p) < PMin[p] THEN Cardinality(SpentSlots \ Reserved)
                                    ELSE Cardinality(SpentSlots \ Reserved) + 1
        BY <1>0, <1>2, SlotCounted
      <4>3. extras' = IF sent[p] >= PMin[p] THEN extras + 1 ELSE extras
        BY <2>1, <3>1 DEF Spend
      <4>4. sent[p] >= PMin[p] => extras < ExtraLimit
        BY <2>1, <3>1, <4>1 DEF Exhausted
      <4>. QED  BY <2>0, <2>2, <4>1, <4>2, <4>3, <4>4
    <3>. QED  BY <3>1 DEF ExtrasExact, ExtraLimit, Reserved
  <2>. QED  BY <1>0, <2>3, <2>4, <2>5 DEF BudgetInv
<1>. QED  BY <1>0, <1>1, <1>2, StepSpends

\* What was spent and what is reserved, counted.
LEMMA BudgetCounted ==
  ASSUME BudgetInv, Max # None
  PROVE  /\ Cardinality(SpentSlots \cup Reserved) = Cardinality(Reserved) + extras
         /\ Cardinality(SpentSlots \cup Reserved) <= Max
         /\ IsFiniteSet(SpentSlots \cup Reserved)
<1>. DEFINE extra == SpentSlots \ Reserved
<1>1. IsFiniteSet(extra) /\ IsFiniteSet(Reserved)
  BY SpentSlotsMember, ReservedSlots, FS_Difference DEF BudgetInv
<1>2. SpentSlots \cup Reserved = extra \cup Reserved /\ extra \cap Reserved = {}
  OBVIOUS
<1>3. /\ Cardinality(extra) = extras /\ extras \in Nat /\ extras <= ExtraLimit
      /\ Cardinality(Reserved) \in Nat /\ ExtraLimit \in Nat /\ Max \in Nat
      /\ Cardinality(Reserved) + ExtraLimit = Max
  BY ExtraLimitType DEF BudgetInv, ExtrasExact, TypeOK, QuotaTypes
<1>. HIDE DEF extra
<1>4. IsFiniteSet(extra \cup Reserved)
      /\ Cardinality(extra \cup Reserved) = Cardinality(extra) + Cardinality(Reserved) - 0
  BY <1>1, <1>2, FS_Union, FS_EmptySet
<1>. QED  BY <1>2, <1>3, <1>4

\* The bound, and the sets it is about.
BudgetBounded ==
  Max # None => /\ IsFiniteSet(SpentSlots \cup Reserved)
                /\ Cardinality(SpentSlots \cup Reserved) <= Max

LEMMA BudgetImplies == BudgetInv => BudgetBounded
BY BudgetCounted DEF BudgetBounded

\* However the producers' sends race, the spent and the reserved slots fit
\* into the maximum of the merged input (quota.rs, GroupBudget).
THEOREM BudgetIsKept == Spec => []BudgetKept
<1>1. BudgetInv => BudgetKept
  BY BudgetImplies DEF BudgetKept, BudgetBounded
<1>. QED  BY <1>1, BudgetInit, BudgetStep, PTL DEF Spec

-----------------------------------------------------------------------------
(* Refusals. *)

\* p's own maximum, or the input's with all that is reserved, is used up.
Full(p) ==
  \/ PMax[p] # None /\ Spent(p) = PMax[p]
  \/ Max # None /\ Cardinality(SpentSlots \cup Reserved) = Max

LEMMA ExhaustedIsFull ==
  ASSUME BudgetInv, NEW p \in Producers, Exhausted(p) PROVE Full(p)
<1>0. /\ Spent(p) \in Nat /\ None \notin Nat /\ PMin[p] \in Nat /\ PMax[p] \in Nat \cup {None}
      /\ sent[p] = IF PMax[p] # None \/ Spent(p) < PMin[p] THEN Spent(p) ELSE PMin[p]
      /\ PMax[p] # None => Spent(p) <= PMax[p]
  BY FanInAssumption, SpentType DEF BudgetInv, QuotaCounts, WithinShare
<1>1. CASE PMax[p] # None /\ sent[p] >= PMax[p]
  BY <1>0, <1>1 DEF Full
<1>2. CASE Max # None /\ extras >= ExtraLimit
  <2>1. extras <= ExtraLimit /\ extras \in Nat /\ ExtraLimit \in Nat
    BY <1>2, ExtraLimitType DEF BudgetInv, ExtrasExact, TypeOK, QuotaTypes
  <2>2. extras = ExtraLimit
    BY <1>2, <2>1
  <2>. QED  BY <1>2, <2>2, BudgetCounted, ExtraLimitType DEF Full
<1>. QED  BY <1>1, <1>2 DEF Exhausted

LEMMA BudgetBoundedNext == BudgetInv' => BudgetBounded'
BY BudgetImplies, PTL

\* Nothing that was spent comes back: who is full stays full.
LEMMA FullStays ==
  ASSUME BudgetInv, [Next]_vars, NEW p \in Producers, Full(p) PROVE Full(p)'
<1>0. TypeOK /\ BudgetInv' /\ BudgetBounded' /\ WithinShare'
  BY BudgetStep, BudgetBoundedNext DEF BudgetInv
<1>1. \A q \in Producers : Spent(q) \in Nat /\ Spent(q)' \in {Spent(q), Spent(q) + 1}
  BY <1>0, SpentType, StepSpends DEF Spends, SpendsNothing
<1>2. SpentSlots \subseteq SpentSlots'
  BY <1>1 DEF SpentSlots, Slots
<1>3. CASE PMax[p] # None /\ Spent(p) = PMax[p]
  BY <1>0, <1>1, <1>3 DEF Full, WithinShare
<1>4. CASE Max # None /\ Cardinality(SpentSlots \cup Reserved) = Max
  <2>1. IsFiniteSet(SpentSlots' \cup Reserved) /\ Cardinality(SpentSlots' \cup Reserved) <= Max
    BY <1>0, <1>4 DEF BudgetBounded, Reserved
  <2>2. SpentSlots \cup Reserved \in SUBSET (SpentSlots' \cup Reserved)
    BY <1>2
  <2>3. Cardinality(SpentSlots \cup Reserved) <= Cardinality(SpentSlots' \cup Reserved)
    BY <2>1, <2>2, FS_Subset
  <2>4. Cardinality(SpentSlots' \cup Reserved) \in Nat /\ Max \in Nat
    BY <1>4, <2>1, FS_CardinalityType, ExtraLimitType
  <2>5. Cardinality(SpentSlots' \cup Reserved) = Max
    BY <1>4, <2>1, <2>3, <2>4
  <2>. QED  BY <1>4, <2>5 DEF Full, Reserved
<1>. QED  BY <1>3, <1>4 DEF Full

\* A send is refused only after a look at an exhausted quota.
LEMMA RefusedByLook ==
  ASSUME TypeOK, [Next]_vars, NEW h \in Handles, last'[h] = "exceeded", last[h] # "exceeded"
  PROVE  Exhausted(Owner[h]) /\ SpendsNothing
<1>. USE DEF outVars, permVars, quotaVars, pollVars, srcVars, endVars, histVars
<1>1. ~UNCHANGED last
  OBVIOUS
<1>2. SpendsNothing
  BY <1>1, StepSpends DEF Spends
<1>3. PICK g \in Handles : HandleStep(g)
  <2>1. Poll \/ CancelReceive \/ Scanning \/ Disconnect \/ CloseInput => UNCHANGED last
    BY DEF Poll, CancelReceive, Scanning, Skip, Retire, Visit, ScanDone, Disconnect, CloseInput
  <2>. QED  BY <1>1, <2>1 DEF Next, vars
<1>4. (\E k \in Ops : Begin(g, k)) \/ Check(g) \/ Commit(g)
  <2>1. ~Acquire(g) /\ ~Cancel(g)
    BY DEF Acquire, Cancel, Return, TypeOK, SendTypes
  <2>2. ~Wake(g) /\ ~Lock(g) /\ ~Enqueue(g) /\ ~Close(g)
    BY <1>1 DEF Wake, Lock, Enqueue, Close
  <2>3. ~Notify(g)
    BY DEF Notify, TypeOK, SendTypes
  <2>. QED  BY <1>3, <2>1, <2>2, <2>3 DEF HandleStep, Advance
<1>5. g = h /\ Exhausted(Owner[h])
  BY <1>1, <1>4 DEF Begin, Check, Commit, Return, TypeOK, SendTypes
<1>. QED  BY <1>2, <1>5

\* A send is refused for its quota only when its producer has no slot left
\* (outputs.rs, send_event: the quota errors).
THEOREM RefusalsAreJustified == Spec => []RefusalJustified
<1>. DEFINE Justified == \A h \in Handles : last[h] = "exceeded" => Full(Owner[h])
<1>1. Init => Justified
  BY DEF Init
<1>2. BudgetInv /\ Justified /\ [Next]_vars => Justified'
  <2>. SUFFICES ASSUME BudgetInv, Justified, [Next]_vars, NEW h \in Handles, last'[h] = "exceeded"
                PROVE  Full(Owner[h])'
    OBVIOUS
  <2>0. Owner[h] \in Producers
    BY FanInAssumption
  <2>1. Full(Owner[h])
    <3>1. CASE last[h] = "exceeded"
      BY <3>1
    <3>2. CASE last[h] # "exceeded"
      BY <2>0, <3>2, RefusedByLook, ExhaustedIsFull DEF BudgetInv
    <3>. QED  BY <3>1, <3>2
  <2>2. ASSUME NEW p \in Producers, Full(p) PROVE Full(p)'
    BY <2>2, FullStays
  <2>. QED  BY <2>0, <2>1, <2>2
<1>3. Justified => RefusalJustified
  BY DEF RefusalJustified, Full
<1>. QED  BY <1>1, <1>2, <1>3, BudgetInit, BudgetStep, PTL DEF Spec

-----------------------------------------------------------------------------
(* The end of the merged input.                                             *)

Events == {"message", "connect", "disconnect"}

\* The payloads in a queue.
Messages(s) == {i \in DOMAIN s : s[i] = "message"}
Queued(p)   == Cardinality(Messages(buf[p]))

LEMMA MessagesFinite ==
  ASSUME NEW s \in Seq(Events)
  PROVE  IsFiniteSet(Messages(s)) /\ Cardinality(Messages(s)) \in Nat
<1>1. Len(s) \in Nat /\ DOMAIN s = 1 .. Len(s)
  OBVIOUS
<1>2. IsFiniteSet(1 .. Len(s))
  BY <1>1, FS_Interval
<1>3. Messages(s) \in SUBSET (1 .. Len(s))
  BY <1>1 DEF Messages
<1>. QED  BY <1>2, <1>3, FS_Subset, FS_CardinalityType

LEMMA MessagesEmpty == Cardinality(Messages(<<>>)) = 0
<1>1. Messages(<<>>) = {}
  BY DEF Messages
<1>. QED  BY <1>1, FS_EmptySet

LEMMA MessagesAppend ==
  ASSUME NEW s \in Seq(Events), NEW e \in Events
  PROVE  Cardinality(Messages(Append(s, e))) =
           Cardinality(Messages(s)) + (IF e = "message" THEN 1 ELSE 0)
<1>. DEFINE n == Len(s) + 1
            t == Append(s, e)
<1>1. /\ n \in Nat /\ DOMAIN s = 1 .. n - 1 /\ DOMAIN t = 1 .. n /\ n \in 1 .. n /\ n \notin 1 .. n - 1
      /\ t[n] = e /\ \A i \in 1 .. n - 1 : t[i] = s[i]
  BY AppendProperties
<1>. HIDE DEF n, t
<1>2. 1 .. n = (1 .. n - 1) \cup {n}
  BY <1>1
<1>3. Messages(t) = IF e = "message" THEN Messages(s) \cup {n} ELSE Messages(s)
  BY <1>1, <1>2 DEF Messages
<1>4. n \notin Messages(s)
  BY <1>1 DEF Messages
<1>5. IsFiniteSet(Messages(s)) /\ Cardinality(Messages(s)) \in Nat
  BY MessagesFinite
<1>6. Cardinality(Messages(s) \cup {n}) = Cardinality(Messages(s)) + 1
  BY <1>4, <1>5, FS_AddElement
<1>. QED  BY <1>3, <1>5, <1>6 DEF t

LEMMA MessagesTail ==
  ASSUME NEW s \in Seq(Events), s # <<>>
  PROVE  Cardinality(Messages(s)) =
           Cardinality(Messages(Tail(s))) + (IF Head(s) = "message" THEN 1 ELSE 0)
<1>. DEFINE n == Len(s) - 1
            t == Tail(s)
            later == {i + 1 : i \in Messages(t)}
            f == [i \in Messages(t) |-> i + 1]
<1>1. /\ n \in Nat /\ DOMAIN s = 1 .. n + 1 /\ DOMAIN t = 1 .. n /\ t \in Seq(Events)
      /\ Head(s) = s[1] /\ \A i \in 1 .. n : t[i] = s[i + 1]
  BY HeadTailProperties
<1>. HIDE DEF n, t
<1>2. Messages(t) \subseteq 1 .. n
  BY <1>1 DEF Messages
<1>3. f \in Bijection(Messages(t), later)
  <2>1. \A i \in Messages(t) : i \in Int
    BY <1>1, <1>2
  <2>2. \A i, j \in Messages(t) : f[i] = f[j] => i = j
    BY <2>1
  <2>3. f \in [Messages(t) -> later] /\ \A x \in later : \E i \in Messages(t) : f[i] = x
    OBVIOUS
  <2>. HIDE DEF f, later
  <2>. QED  BY <2>2, <2>3 DEF Bijection, Injection, Surjection, IsInjective
<1>. HIDE DEF f
<1>4. IsFiniteSet(Messages(t)) /\ Cardinality(Messages(t)) \in Nat
  BY <1>1, MessagesFinite
<1>5. IsFiniteSet(later) /\ Cardinality(later) = Cardinality(Messages(t))
  BY <1>3, <1>4, FS_Bijection DEF ExistsBijection
<1>6. Messages(s) = IF Head(s) = "message" THEN later \cup {1} ELSE later
  <2>1. ASSUME NEW i \in 1 .. n PROVE i + 1 \in Messages(s) <=> i \in Messages(t)
    BY <1>1, <2>1 DEF Messages
  <2>2. \A i \in DOMAIN s : i = 1 \/ (i - 1 \in 1 .. n /\ (i - 1) + 1 = i)
    BY <1>1
  <2>3. \A i \in Messages(s) : i = 1 \/ i \in later
    <3>. TAKE i \in Messages(s)
    <3>1. CASE i - 1 \in 1 .. n /\ (i - 1) + 1 = i
      BY <2>1, <3>1
    <3>. QED  BY <2>2, <3>1 DEF Messages
  <2>4. 1 \in Messages(s) <=> Head(s) = "message"
    BY <1>1 DEF Messages
  <2>5. later \subseteq Messages(s)
    BY <1>2, <2>1
  <2>. QED  BY <2>3, <2>4, <2>5
<1>7. 1 \notin later
  BY <1>1, <1>2
<1>. HIDE DEF later
<1>8. Cardinality(later \cup {1}) = Cardinality(later) + 1
  BY <1>5, <1>7, FS_AddElement
<1>. QED  BY <1>4, <1>5, <1>6, <1>8 DEF t

\* One more payload of p is one more slot.
LEMMA SlotAdded ==
  ASSUME NEW count \in [Producers -> Nat], NEW p \in Producers
  PROVE  /\ Cardinality(Slots([count EXCEPT ![p] = @ + 1])) = Cardinality(Slots(count)) + 1
         /\ Cardinality(Slots(count)) \in Nat
<1>. DEFINE more == [count EXCEPT ![p] = @ + 1]
            slot == <<p, count[p] + 1>>
<1>1. more \in [Producers -> Nat] /\ count[p] \in Nat
  OBVIOUS
<1>2. \A q \in Producers : more[q] = IF q = p THEN count[p] + 1 ELSE count[q]
  OBVIOUS
<1>. HIDE DEF more
<1>3. slot \notin Slots(count)
  <2>1. count[p] + 1 \notin 1 .. count[p]
    BY <1>1
  <2>. QED  BY <2>1, SlotsMember
<1>4. Slots(more) = Slots(count) \cup {slot}
  <2>1. ASSUME NEW q \in Producers, NEW k \in Nat
        PROVE  <<q, k>> \in Slots(more) <=> <<q, k>> \in Slots(count) \cup {slot}
    <3>1. k \in 1 .. more[q] <=> k \in 1 .. count[q] \/ (q = p /\ k = count[p] + 1)
      BY <1>1, <1>2
    <3>. QED  BY <1>1, <3>1, SlotsMember
  <2>2. \A x \in Slots(more) : \E q \in Producers, k \in Nat : x = <<q, k>>
    BY <1>1, SlotsMember
  <2>3. \A x \in Slots(count) \cup {slot} : \E q \in Producers, k \in Nat : x = <<q, k>>
    BY <1>1, SlotsMember
  <2>. QED  BY <2>1, <2>2, <2>3
<1>5. IsFiniteSet(Slots(count))
  BY SlotsFinite
<1>. QED  BY <1>3, <1>4, <1>5, FS_AddElement, FS_CardinalityType DEF more

\* No payload of p will be enqueued any more.
Quiet(p) ==
  \/ PMax[p] # None /\ accepted[p] = PMax[p]
  \/ rxClosed[p] /\ Holding(p) = {}
  \/ Senders(p) = {}

Phases ==
  /\ task = "polling" => inp = "Merged"
  /\ inp = "Merged" <=> ending = "open"
  /\ \A p \in Producers : done[p] => src[p] = "Closed" /\ buf[p] = <<>>
  /\ \A h \in queued : ~rxClosed[Owner[h]]

\* A permit handed on goes to a send that waited for one.
LEMMA PassPermitFrame ==
  ASSUME NEW p, NEW holders, NEW waiting, PassPermit(p, holders, waiting)
  PROVE  assigned' \subseteq holders \cup waiting /\ queued' \subseteq waiting
BY DEF PassPermit

LEMMA DropPermitFrame ==
  ASSUME NEW h, DropPermit(h)
  PROVE  assigned' \subseteq assigned \cup queued /\ queued' \subseteq queued
<1>1. CASE h \in Holding(Owner[h])
  BY <1>1, PassPermitFrame DEF DropPermit
<1>. QED  BY <1>1 DEF DropPermit

InHand == {"permit", "locked", "committed"}

\* What the step of a sending handle may change, and how.
LEMMA SendFrame ==
  ASSUME TypeOK, NEW h \in Handles, HandleStep(h)
  PROVE  /\ UNCHANGED <<srcVars, endVars, delivered, cut, next, task, scan, checked>>
         /\ \A g \in Handles \ {h} : pc'[g] = pc[g]
         /\ pc[h] # "closed"
         /\ assigned' \subseteq assigned \cup queued
         /\ \A g \in queued' : g \in queued \/ ~rxClosed[Owner[g]]
         /\ pc'[h] \in InHand => pc[h] \in InHand \/ ~rxClosed[Owner[h]]
         /\ Enqueue(h) \/ UNCHANGED <<buf, accepted, passed>>
<1>. USE DEF outVars, permVars, quotaVars, pollVars, endVars, histVars, Return, Goto
<1>. DEFINE Frame ==
       /\ UNCHANGED <<srcVars, endVars, delivered, cut, next, task, scan, checked>>
       /\ \A g \in Handles \ {h} : pc'[g] = pc[g]
       /\ pc[h] # "closed"
       /\ assigned' \subseteq assigned \cup queued
       /\ \A g \in queued' : g \in queued \/ ~rxClosed[Owner[g]]
       /\ pc'[h] \in InHand => pc[h] \in InHand \/ ~rxClosed[Owner[h]]
       /\ Enqueue(h) \/ UNCHANGED <<buf, accepted, passed>>
<1>0. pc \in [Handles -> {"idle", "checking", "acquiring", "parked", "permit",
                          "locked", "committed", "notifying", "closed"}]
  BY DEF TypeOK, SendTypes
<1>1. ASSUME NEW k \in Ops, Begin(h, k) PROVE Frame
  BY <1>0, <1>1 DEF Begin, InHand
<1>2. ASSUME Check(h) PROVE Frame
  BY <1>0, <1>2, DropPermitFrame DEF Check, InHand
<1>3. ASSUME Acquire(h) PROVE Frame
  BY <1>0, <1>3, DropPermitFrame DEF Acquire, InHand
<1>4. ASSUME Wake(h) PROVE Frame
  BY <1>0, <1>4 DEF Wake, InHand
<1>5. ASSUME Lock(h) PROVE Frame
  BY <1>0, <1>5 DEF Lock, InHand
<1>6. ASSUME Commit(h) PROVE Frame
  BY <1>0, <1>6, DropPermitFrame DEF Commit, InHand
<1>7. ASSUME Enqueue(h) PROVE Frame
  BY <1>0, <1>7 DEF Enqueue, InHand
<1>8. ASSUME Notify(h) PROVE Frame
  BY <1>0, <1>8 DEF Notify, InHand
<1>9. ASSUME Cancel(h) PROVE Frame
  BY <1>0, <1>9, DropPermitFrame DEF Cancel, InHand
<1>10. ASSUME Close(h) PROVE Frame
  BY <1>0, <1>10 DEF Close, InHand
<1>. HIDE DEF Frame
<1>11. Frame
  BY <1>1, <1>2, <1>3, <1>4, <1>5, <1>6, <1>7, <1>8, <1>9, <1>10, Zenon DEF HandleStep, Advance
<1>. QED  BY <1>11 DEF Frame

ReceiverStep == Poll \/ CancelReceive \/ Scanning \/ Disconnect \/ CloseInput

LEMMA CloseSourcesFrame ==
  ASSUME TypeOK, NEW S, CloseSources(S)
  PROVE  /\ \A p \in Producers : rxClosed[p] => rxClosed'[p]
         /\ \A p \in Producers : p \in S => rxClosed'[p]
         /\ \A h \in queued' : h \in queued /\ (~rxClosed[Owner[h]] => ~rxClosed'[Owner[h]])
<1>1. queued \in SUBSET Handles /\ Owner \in [Handles -> Producers]
  BY FanInAssumption DEF TypeOK, PermitTypes
<1>. QED  BY <1>1 DEF CloseSources

\* What a step of the receiving task may change, and how.
LEMMA ReceiveFrame ==
  ASSUME TypeOK, ReceiverStep
  PROVE  /\ UNCHANGED <<pc, op, accepted>>
         /\ assigned' \subseteq assigned \cup queued
         /\ \A p \in Producers : rxClosed[p] => rxClosed'[p]
         /\ \A h \in queued' : h \in queued /\ (~rxClosed[Owner[h]] => ~rxClosed'[Owner[h]])
<1>. USE DEF outVars, permVars, quotaVars, pollVars, srcVars, endVars, histVars
<1>. DEFINE Frame ==
       /\ assigned' \subseteq assigned \cup queued
       /\ \A p \in Producers : rxClosed[p] => rxClosed'[p]
       /\ \A h \in queued' : h \in queued /\ (~rxClosed[Owner[h]] => ~rxClosed'[Owner[h]])
<1>1. UNCHANGED <<pc, op, accepted>>
  BY DEF ReceiverStep, Poll, CancelReceive, Scanning, Skip, Retire, Visit, ScanDone, Disconnect, CloseInput
<1>2. ASSUME NEW S, CloseSources(S), UNCHANGED assigned PROVE Frame
  BY <1>2, CloseSourcesFrame
<1>3. ASSUME UNCHANGED <<assigned, queued, rxClosed>> PROVE Frame
  BY <1>3
<1>4. ASSUME NEW p, PassPermit(p, assigned, queued), UNCHANGED rxClosed PROVE Frame
  BY <1>4, PassPermitFrame
<1>5. \/ \E S : CloseSources(S) /\ UNCHANGED assigned
      \/ UNCHANGED <<assigned, queued, rxClosed>>
      \/ \E p : PassPermit(p, assigned, queued) /\ UNCHANGED rxClosed
  <2>. DEFINE Case ==
         \/ \E S : CloseSources(S) /\ UNCHANGED assigned
         \/ UNCHANGED <<assigned, queued, rxClosed>>
         \/ \E p : PassPermit(p, assigned, queued) /\ UNCHANGED rxClosed
  <2>1. ASSUME Poll \/ CancelReceive \/ Skip PROVE Case
    BY <2>1 DEF Poll, CancelReceive, Skip
  <2>2. ASSUME Retire PROVE Case
    BY <2>2 DEF Retire
  <2>3. ASSUME NEW how, End(how) PROVE Case
    BY <2>3 DEF End
  <2>4. ASSUME ScanDone PROVE Case
    <3>1. (\E how : End(how)) \/ UNCHANGED <<assigned, queued, rxClosed>>
      BY <2>4 DEF ScanDone
    <3>. QED  BY <2>3, <3>1
  <2>5. ASSUME Disconnect \/ CloseInput PROVE Case
    BY <2>5 DEF Disconnect, CloseInput
  <2>6. ASSUME Nothing PROVE Case
    BY <2>6 DEF Nothing
  <2>7. ASSUME DeliverConnect PROVE Case
    BY <2>7 DEF DeliverConnect
  <2>8. ASSUME SourceOver PROVE Case
    <3>1. (\E how : End(how)) \/ (CloseSources({Index}) /\ UNCHANGED assigned)
      BY <2>8 DEF SourceOver
    <3>. QED  BY <2>3, <3>1
  <2>9. ASSUME Deliver PROVE Case
    <3>1. \/ \E how : End(how)
          \/ CloseSources({Index}) /\ UNCHANGED assigned
          \/ PassPermit(Index, assigned, queued) /\ UNCHANGED rxClosed
      BY <2>9 DEF Deliver
    <3>. QED  BY <2>3, <3>1
  <2>. HIDE DEF Case
  <2>10. Case
    BY <2>1, <2>2, <2>4, <2>5, <2>6, <2>7, <2>8, <2>9, Zenon DEF ReceiverStep, Scanning, Visit
  <2>. QED  BY <2>10 DEF Case
<1>. HIDE DEF Frame
<1>6. Frame
  BY <1>2, <1>3, <1>4, <1>5
<1>. QED  BY <1>1, <1>6 DEF Frame

LEMMA StepCases ==
  [Next]_vars => (\E h \in Handles : HandleStep(h)) \/ ReceiverStep \/ UNCHANGED vars
BY DEF Next, ReceiverStep

\* A quiet producer has no payload between its commit and its enqueue.
LEMMA QuietPending ==
  ASSUME BudgetInv, NEW p \in Producers, Quiet(p)
  PROVE  \A h \in Handles : Owner[h] = p /\ op[h] = "message" => pc[h] # "committed"
<1>. SUFFICES ASSUME NEW h \in Handles, Owner[h] = p, op[h] = "message", pc[h] = "committed"
     PROVE  FALSE
  OBVIOUS
<1>1. h \in Pending(p) /\ h \in Holding(p) /\ h \in Senders(p)
  BY DEF Pending, Holding, Senders
<1>2. Cardinality(Pending(p)) > 0
  BY <1>1, PendingFinite, FS_EmptySet
<1>3. Spent(p) > accepted[p] /\ accepted[p] \in Nat /\ Spent(p) \in Nat
  BY <1>2, PendingFinite, SpentType DEF Spent, BudgetInv, TypeOK, HistoryTypes
<1>4. PMax[p] # None => PMax[p] \in Nat /\ Spent(p) <= PMax[p]
  BY FanInAssumption DEF BudgetInv, WithinShare
<1>. QED  BY <1>1, <1>3, <1>4 DEF Quiet

\* What is accepted was spent, and only grows.
AcceptedWithin ==
  \A p \in Producers : accepted[p] <= Spent(p) /\ accepted[p] \in Nat /\ Spent(p) \in Nat

LEMMA AcceptedSpent == BudgetInv => AcceptedWithin
BY PendingFinite, SpentType DEF AcceptedWithin, Spent, BudgetInv, TypeOK, HistoryTypes

LEMMA AcceptedSpentNext == BudgetInv' => AcceptedWithin'
BY AcceptedSpent, PTL

LEMMA AcceptedGrows ==
  ASSUME TypeOK, [Next]_vars, NEW p \in Producers
  PROVE  accepted[p] <= accepted'[p]
<1>0. accepted \in [Producers -> Nat]
  BY DEF TypeOK, HistoryTypes
<1>1. ASSUME NEW h \in Handles, HandleStep(h) PROVE accepted' = accepted \/ Enqueue(h)
  BY <1>1, SendFrame
<1>2. ASSUME NEW h \in Handles, Enqueue(h) PROVE accepted[p] <= accepted'[p]
  BY <1>0, <1>2, FanInAssumption DEF Enqueue
<1>3. UNCHANGED accepted => accepted[p] <= accepted'[p]
  BY <1>0
<1>. QED  BY <1>1, <1>2, <1>3, StepCases, ReceiveFrame DEF vars, histVars

LEMMA QuietStays ==
  ASSUME BudgetInv, Phases, [Next]_vars, NEW p \in Producers, Quiet(p)
  PROVE  Quiet(p)'
<1>0. TypeOK /\ BudgetInv' /\ Owner \in [Handles -> Producers]
  BY BudgetStep, FanInAssumption DEF BudgetInv
<1>1. CASE PMax[p] # None /\ accepted[p] = PMax[p]
  <2>1. accepted[p] <= accepted'[p]
    BY <1>0, AcceptedGrows
  <2>2. (accepted[p] <= Spent(p) /\ accepted[p] \in Nat /\ Spent(p) \in Nat)'
    BY <1>0, AcceptedSpentNext DEF AcceptedWithin
  <2>3. Spent(p)' <= PMax[p] /\ PMax[p] \in Nat
    BY <1>0, <1>1, FanInAssumption DEF BudgetInv, WithinShare
  <2>4. accepted'[p] = PMax[p]
    BY <1>1, <2>1, <2>2, <2>3
  <2>. QED  BY <1>1, <2>4 DEF Quiet
<1>2. CASE UNCHANGED vars
  BY <1>2 DEF Quiet, Senders, Holding, vars, outVars, permVars, histVars, srcVars
<1>3. CASE Senders(p) = {}
  <2>1. ASSUME NEW h \in Handles, HandleStep(h) PROVE \A g \in Handles : Owner[g] = p => pc'[g] = "closed"
    BY <1>0, <1>3, <2>1, SendFrame DEF Senders
  <2>2. ReceiverStep => \A g \in Handles : Owner[g] = p => pc'[g] = "closed"
    BY <1>0, <1>3, ReceiveFrame DEF Senders
  <2>. QED  BY <1>2, <2>1, <2>2, StepCases DEF Quiet, Senders
<1>4. CASE rxClosed[p] /\ Holding(p) = {}
  <2>1. /\ \A h \in assigned \cup queued : h \in Handles => Owner[h] # p
        /\ \A h \in Handles : Owner[h] = p => pc[h] \notin InHand
    BY <1>4 DEF Holding, Phases, InHand
  <2>2. ASSUME NEW h \in Handles, HandleStep(h)
        PROVE  rxClosed'[p] /\ assigned' \subseteq assigned \cup queued
               /\ \A g \in Handles : Owner[g] = p => pc'[g] \notin InHand
    BY <1>0, <1>4, <2>1, <2>2, SendFrame DEF srcVars
  <2>3. ASSUME ReceiverStep
        PROVE  rxClosed'[p] /\ assigned' \subseteq assigned \cup queued
               /\ \A g \in Handles : Owner[g] = p => pc'[g] \notin InHand
    BY <1>0, <1>4, <2>1, <2>3, ReceiveFrame
  <2>. QED  BY <1>2, <2>1, <2>2, <2>3, StepCases DEF Quiet, Holding, InHand
<1>. QED  BY <1>1, <1>3, <1>4 DEF Quiet

LEMMA PhasesInit == Init => Phases
<1>. SUFFICES ASSUME Init PROVE Phases
  OBVIOUS
<1>. QED  BY FanInAssumption DEF Init, Phases

LEMMA PhasesStep == TypeOK /\ Phases /\ [Next]_vars => Phases'
<1>. SUFFICES ASSUME TypeOK, Phases, [Next]_vars PROVE Phases'
  OBVIOUS
<1>. USE DEF outVars, permVars, quotaVars, pollVars, srcVars, endVars, histVars
<1>. DEFINE Over == \A p \in Producers : done[p] => src[p] = "Closed" /\ buf[p] = <<>>
            Run  == (task = "polling" => inp = "Merged") /\ (inp = "Merged" <=> ending = "open")
<1>0. /\ Index \in Producers /\ buf \in [Producers -> Seq(Events)]
      /\ src \in [Producers -> {"Connected", "Disconnected", "Ended", "Closed"}]
      /\ done \in [Producers -> BOOLEAN] /\ Over /\ Run
      /\ queued \subseteq Handles /\ Owner \in [Handles -> Producers]
      /\ rxClosed \in [Producers -> BOOLEAN]
  BY IndexType, FanInAssumption DEF TypeOK, QueueTypes, PermitTypes, Phases, Events
<1>1. ASSUME NEW h \in Handles, HandleStep(h) PROVE Phases'
  <2>1. \A g \in queued' : ~rxClosed'[Owner[g]]
    BY <1>1, SendFrame DEF Phases
  <2>2. Run'
    BY <1>1, <1>0, SendFrame
  <2>3. Over'
    <3>1. CASE Enqueue(h)
      <4>1. \A p \in Producers : Kept(p) \/ buf'[p] = buf[p]
        BY <1>0, <3>1 DEF Enqueue
      <4>2. UNCHANGED <<src, done>>
        BY <1>1, SendFrame
      <4>3. \A p \in Producers : done[p] => src[p] = "Closed" /\ buf'[p] = <<>>
        BY <1>0, <4>1 DEF Kept
      <4>. QED  BY <4>2, <4>3
    <3>2. CASE ~Enqueue(h)
      <4>1. UNCHANGED <<buf, src, done>>
        BY <1>1, <3>2, SendFrame
      <4>. QED  BY <1>0, <4>1
    <3>. QED  BY <3>1, <3>2
  <2>. QED  BY <2>1, <2>2, <2>3 DEF Phases
<1>2. ASSUME ReceiverStep PROVE Phases'
  <2>1. \A g \in queued' : ~rxClosed'[Owner[g]]
    BY <1>2, ReceiveFrame DEF Phases
  <2>2. Run'
    <3>1. ASSUME Poll \/ CancelReceive \/ Skip \/ Retire \/ Disconnect \/ CloseInput PROVE Run'
      BY <1>0, <3>1 DEF Poll, CancelReceive, Skip, LookOn, Retire, Disconnect, CloseInput
    <3>2. ASSUME NEW how \in {"complete", "short"}, End(how), StopPolling("idle") PROVE Run'
      BY <3>2 DEF End, StopPolling
    <3>3. ASSUME ScanDone PROVE Run'
      BY <1>0, <3>2, <3>3, VerdictType DEF ScanDone, StopPolling
    <3>4. ASSUME Visit, Nothing \/ DeliverConnect PROVE Run'
      BY <1>0, <3>4 DEF Visit, Nothing, DeliverConnect, LookOn, StopPolling
    <3>5. ASSUME Visit, SourceOver PROVE Run'
      BY <1>0, <3>2, <3>5 DEF Visit, SourceOver, LookOn
    <3>6. ASSUME Visit, Deliver PROVE Run'
      <4>1. StopPolling("idle") /\ ((\E c, t : End(Verdict(c, t))) \/ UNCHANGED <<inp, ending>>)
        BY <3>6, Zenon DEF Deliver
      <4>. QED  BY <1>0, <3>2, <4>1, VerdictType DEF StopPolling
    <3>. HIDE DEF Run
    <3>. QED
      BY <1>2, <3>1, <3>3, <3>4, <3>5, <3>6, Zenon DEF ReceiverStep, Scanning, Visit
  <2>3. Over'
    <3>1. ASSUME Poll \/ CancelReceive \/ Skip PROVE Over'
      BY <1>0, <3>1 DEF Poll, CancelReceive, Skip
    <3>2. ASSUME Retire \/ Disconnect PROVE Over'
      BY <1>0, <3>2 DEF Retire, Disconnect
    <3>3. ASSUME CloseInput PROVE Over'
      BY <1>0, <3>3 DEF CloseInput
    <3>4. ASSUME ScanDone PROVE Over'
      BY <1>0, <3>4 DEF ScanDone, End
    <3>5. ASSUME Nothing PROVE Over'
      BY <1>0, <3>5 DEF Nothing
    <3>6. ASSUME DeliverConnect PROVE Over'
      BY <1>0, <3>6 DEF DeliverConnect, Kept
    <3>7. ASSUME SourceOver, Looking PROVE Over'
      <4>1. CASE End("short") /\ src' = [src EXCEPT ![Index] = "Ended"] /\ UNCHANGED done
        BY <1>0, <3>7, <4>1 DEF End, Looking
      <4>2. CASE /\ done' = [done EXCEPT ![Index] = TRUE] /\ src' = [src EXCEPT ![Index] = "Closed"]
                 /\ buf' = [buf EXCEPT ![Index] = <<>>]
        BY <1>0, <4>2
      <4>. QED  BY <3>7, <4>1, <4>2 DEF SourceOver
    <3>8. ASSUME Deliver PROVE Over'
      <4>1. /\ ~done[Index] /\ UNCHANGED done
            /\ src' = src \/ src' = [src EXCEPT ![Index] = "Ended"]
        BY <1>0, <3>8 DEF Deliver, Kept
      <4>2. \A p \in Producers : p # Index => buf'[p] = buf[p] \/ buf'[p] = <<>>
        BY <1>0, <3>8 DEF Deliver, End
      <4>. QED  BY <1>0, <4>1, <4>2
    <3>. HIDE DEF Over
    <3>. QED
      BY <1>2, <3>1, <3>2, <3>3, <3>4, <3>5, <3>6, <3>7, <3>8, Zenon DEF ReceiverStep, Scanning, Visit
  <2>. QED  BY <2>1, <2>2, <2>3 DEF Phases
<1>3. ASSUME UNCHANGED vars PROVE Phases'
  BY <1>3 DEF vars, Phases
<1>. QED  BY <1>1, <1>2, <1>3, StepCases

-----------------------------------------------------------------------------
\* How much was delivered, in payloads of all producers.
Total == Cardinality(Slots(delivered))

\* The counts of the inputs, exact up to what their cardinalities need.
Counted ==
  /\ \A p \in Producers :
       taken[p] = IF PMax[p] # None \/ delivered[p] < PMin[p] THEN delivered[p] ELSE PMin[p]
  /\ received = IF Max # None \/ Total < Min THEN Total ELSE Min

\* What a source accepted was delivered or waits, unless its queue was dropped.
Conserved ==
  \A p \in Producers : /\ delivered[p] <= accepted[p]
                       /\ Kept(p) => accepted[p] = delivered[p] + Queued(p)

\* A queue is dropped only when nothing is left in it, or behind a marker.
Settled ==
  \A p \in Producers :
    inp = "Merged" /\ ~Kept(p) /\ p \notin cut => delivered[p] = accepted[p] /\ Quiet(p)

Room == Max # None /\ ending \in {"open", "short"} => received < Max

\* Why an input is complete: it is full, or all its sources have settled.
Completed ==
  ending = "complete" =>
    /\ \A p \in Producers : delivered[p] >= PMin[p]
    /\ Total >= Min
    /\ \/ Max # None /\ Total >= Max
       \/ \A p \in Producers \ cut : delivered[p] = accepted[p] /\ Quiet(p)

EndInv == Counted /\ Conserved /\ Settled /\ Room /\ Completed

\* A full input has room for no slot but those delivered: the reserved ones
\* are among them, and nothing else was accepted.
LEMMA FullSlots ==
  ASSUME BudgetInv, Max # None, NEW d \in [Producers -> Nat],
         \A p \in Producers : d[p] <= accepted[p], Cardinality(Slots(d)) >= Max
  PROVE  \A p \in Producers : d[p] = accepted[p] /\ d[p] >= PMin[p]
<1>. DEFINE all == SpentSlots \cup Reserved
<1>1. IsFiniteSet(all) /\ Cardinality(all) <= Max /\ Max \in Nat
  BY BudgetCounted, FanInAssumption
<1>2. \A p \in Producers : accepted[p] <= Spent(p) /\ accepted[p] \in Nat /\ Spent(p) \in Nat
  BY AcceptedSpent DEF AcceptedWithin
<1>3. Slots(d) \subseteq SpentSlots
  <2>1. ASSUME NEW p \in Producers, NEW k \in Nat, <<p, k>> \in Slots(d) PROVE <<p, k>> \in SpentSlots
    <3>1. k \in 1 .. d[p]
      BY <2>1, SlotsMember
    <3>2. k \in 1 .. Spent(p)
      BY <1>2, <3>1
    <3>. QED  BY <3>2, SpentSlotsMember DEF BudgetInv
  <2>2. \A x \in Slots(d) : \E p \in Producers, k \in Nat : x = <<p, k>>
    BY SlotsMember
  <2>. QED  BY <2>1, <2>2
<1>4. Slots(d) = all
  <2>1. Slots(d) \in SUBSET all
    BY <1>3
  <2>2. IsFiniteSet(Slots(d)) /\ Cardinality(Slots(d)) <= Cardinality(all)
    BY <1>1, <2>1, FS_Subset
  <2>3. Cardinality(Slots(d)) \in Nat /\ Cardinality(all) \in Nat
    BY <1>1, <2>2, FS_CardinalityType
  <2>4. Cardinality(Slots(d)) = Cardinality(all)
    BY <1>1, <2>2, <2>3
  <2>. QED  BY <1>1, <2>1, <2>4, FS_Subset
<1>. TAKE p \in Producers
<1>5. d[p] >= PMin[p]
  <2>. SUFFICES ASSUME d[p] < PMin[p] PROVE FALSE
    BY FanInAssumption
  <2>1. PMin[p] \in 1 .. PMin[p] /\ PMin \in [Producers -> Nat]
    BY FanInAssumption
  <2>2. <<p, PMin[p]>> \in Slots(d)
    BY <1>4, <2>1, ReservedSlots, SlotsMember
  <2>3. PMin[p] \in 1 .. d[p]
    BY <2>2, SlotsMember
  <2>. QED  BY <2>1, <2>3
<1>6. d[p] = accepted[p]
  <2>. SUFFICES ASSUME d[p] < accepted[p] PROVE FALSE
    BY <1>2
  <2>1. accepted[p] \in 1 .. Spent(p)
    BY <1>2
  <2>2. <<p, accepted[p]>> \in Slots(d)
    BY <1>4, <2>1, SpentSlotsMember DEF BudgetInv
  <2>3. accepted[p] \in 1 .. d[p]
    BY <2>2, SlotsMember
  <2>. QED  BY <1>2, <2>3
<1>. QED  BY <1>5, <1>6

LEMMA EndInit == Init => EndInv
<1>. SUFFICES ASSUME Init PROVE EndInv
  OBVIOUS
<1>0. /\ Min \in Nat /\ PMin \in [Producers -> Nat] /\ TypeOK
      /\ None \notin Nat /\ (Max # None => Max \in Nat /\ Min <= Max)
      /\ \A p \in Producers : PMax[p] # None => PMax[p] \in Nat /\ PMin[p] <= PMax[p]
  BY TypeInit, FanInAssumption
<1>1. \A p \in Producers : delivered[p] = 0 /\ accepted[p] = 0 /\ buf[p] = <<>> /\ taken[p] = 0
  BY DEF Init
<1>2. Total = 0
  <2>1. delivered \in [Producers -> Nat]
    BY <1>0 DEF TypeOK, HistoryTypes
  <2>2. Slots(delivered) = {}
    BY <1>1, <2>1, SlotsMember
  <2>. QED  BY <2>2, FS_EmptySet DEF Total
<1>3. Counted
  BY <1>0, <1>1, <1>2 DEF Init, Counted
<1>4. Conserved
  BY <1>1, MessagesEmpty DEF Conserved, Queued
<1>5. Settled
  <2>. SUFFICES ASSUME NEW p \in Producers, inp = "Merged", ~Kept(p) PROVE Quiet(p)
    BY <1>1 DEF Settled
  <2>1. PMax[p] = 0
    BY DEF Init, Kept
  <2>. QED  BY <1>0, <1>1, <2>1 DEF Quiet
<1>6. Room
  BY <1>0 DEF Init, Room
<1>7. Completed
  <2>. SUFFICES ASSUME Max = 0 PROVE Completed
    BY DEF Init, Completed
  <2>1. Max # None /\ Total >= Max
    BY <1>0, <1>2
  <2>2. delivered \in [Producers -> Nat] /\ BudgetInv
    BY <1>0, BudgetInit DEF TypeOK, HistoryTypes
  <2>3. \A p \in Producers : delivered[p] >= PMin[p]
    BY <1>1, <2>1, <2>2, FullSlots DEF Total
  <2>. QED  BY <1>0, <1>2, <2>1, <2>3 DEF Completed
<1>. QED  BY <1>3, <1>4, <1>5, <1>6, <1>7 DEF EndInv

\* What settled stays settled while nothing more of it is accepted.
LEMMA QuietAccepts ==
  ASSUME BudgetInv, [Next]_vars, NEW p \in Producers, Quiet(p)
  PROVE  accepted'[p] = accepted[p]
<1>0. TypeOK /\ accepted \in [Producers -> Nat] /\ Owner \in [Handles -> Producers]
  BY FanInAssumption DEF BudgetInv, TypeOK, HistoryTypes
<1>1. ASSUME NEW h \in Handles, Enqueue(h) PROVE accepted'[p] = accepted[p]
  <2>1. pc[h] = "committed" /\ (Owner[h] = p => op[h] # "message")
    BY <1>1, QuietPending DEF Enqueue
  <2>. QED  BY <1>0, <1>1, <2>1 DEF Enqueue
<1>2. ASSUME NEW h \in Handles, HandleStep(h) PROVE accepted'[p] = accepted[p]
  BY <1>0, <1>1, <1>2, SendFrame
<1>. QED  BY <1>0, <1>2, StepCases, ReceiveFrame DEF vars, histVars

\* The part of the invariant that steps of no source's queue can disturb.
LEMMA EndKept ==
  ASSUME BudgetInv, Phases, EndInv, [Next]_vars,
         UNCHANGED <<taken, received, delivered, cut, inp, ending>>,
         \A p \in Producers : Kept(p)' <=> Kept(p),
         \A p \in Producers : delivered[p] <= accepted'[p] /\ (Kept(p) => accepted'[p] = delivered[p] + Queued(p)')
  PROVE  EndInv'
<1>1. \A p \in Producers : Quiet(p) => Quiet(p)' /\ accepted'[p] = accepted[p]
  BY QuietStays, QuietAccepts
<1>2. Total' = Total
  BY DEF Total
<1>3. Counted' /\ Room'
  BY <1>2 DEF EndInv, Counted, Room
<1>4. Conserved'
  BY DEF Conserved
<1>5. Settled'
  BY <1>1 DEF EndInv, Settled
<1>6. Completed'
  BY <1>1, <1>2 DEF EndInv, Completed
<1>. QED  BY <1>3, <1>4, <1>5, <1>6 DEF EndInv

LEMMA EndHandle ==
  ASSUME BudgetInv, Phases, EndInv, NEW h \in Handles, HandleStep(h)
  PROVE  EndInv'
<1>. USE DEF srcVars, endVars
<1>0. /\ TypeOK /\ [Next]_vars /\ accepted \in [Producers -> Nat] /\ delivered \in [Producers -> Nat]
      /\ buf \in [Producers -> Seq(Events)] /\ op[h] \in Events /\ Owner[h] \in Producers
  BY FanInAssumption DEF BudgetInv, Next, TypeOK, HistoryTypes, QueueTypes, SendTypes, Events
<1>1. /\ UNCHANGED <<srcVars, endVars, delivered, cut>>
      /\ \A p \in Producers : Kept(p)' <=> Kept(p)
      /\ Enqueue(h) \/ UNCHANGED <<buf, accepted>>
  BY <1>0, SendFrame DEF Kept
<1>2. \A p \in Producers : delivered[p] <= accepted[p] /\ (Kept(p) => accepted[p] = delivered[p] + Queued(p))
  BY DEF EndInv, Conserved
<1>3. CASE Enqueue(h)
  <2>. DEFINE q == Owner[h]
  <2>1. \A p \in Producers \ {q} : accepted'[p] = accepted[p] /\ buf'[p] = buf[p]
    BY <1>0, <1>3 DEF Enqueue
  <2>2. /\ accepted'[q] = accepted[q] + (IF op[h] = "message" THEN 1 ELSE 0)
        /\ Kept(q) => buf'[q] = Append(buf[q], op[h])
    BY <1>0, <1>3 DEF Enqueue
  <2>3. Kept(q) => Queued(q)' = Queued(q) + (IF op[h] = "message" THEN 1 ELSE 0)
    BY <1>0, <2>2, MessagesAppend DEF Queued
  <2>4. Queued(q) \in Nat
    BY <1>0, MessagesFinite DEF Queued
  <2>5. \A p \in Producers : delivered[p] <= accepted'[p] /\ (Kept(p) => accepted'[p] = delivered[p] + Queued(p)')
    <3>. TAKE p \in Producers
    <3>1. CASE p = q
      BY <1>0, <1>2, <2>2, <2>3, <2>4, <3>1
    <3>2. CASE p # q
      BY <1>2, <2>1, <3>2 DEF Queued
    <3>. QED  BY <3>1, <3>2
  <2>. QED  BY <1>0, <1>1, <2>5, EndKept
<1>4. CASE UNCHANGED <<buf, accepted>>
  <2>1. \A p \in Producers : delivered[p] <= accepted'[p] /\ (Kept(p) => accepted'[p] = delivered[p] + Queued(p)')
    BY <1>2, <1>4 DEF Queued
  <2>. QED  BY <1>0, <1>1, <2>1, EndKept
<1>. QED  BY <1>1, <1>3, <1>4

\* Steps of the receiving task that take no payload and end nothing.
LEMMA EndIdle ==
  ASSUME BudgetInv, Phases, EndInv,
         Poll \/ CancelReceive \/ Skip \/ Retire \/ Disconnect \/ (Visit /\ (Nothing \/ DeliverConnect))
           \/ UNCHANGED vars
  PROVE  EndInv'
<1>. USE DEF outVars, permVars, quotaVars, pollVars, srcVars, endVars, histVars
<1>0. /\ TypeOK /\ [Next]_vars /\ Index \in Producers
      /\ buf \in [Producers -> Seq(Events)]
      /\ src \in [Producers -> {"Connected", "Disconnected", "Ended", "Closed"}]
  BY IndexType DEF BudgetInv, Next, Scanning, TypeOK, QueueTypes, Events
<1>1. /\ UNCHANGED <<taken, received, delivered, cut, inp, ending, accepted>>
      /\ buf' = buf \/ DeliverConnect
  BY DEF Poll, CancelReceive, Skip, Retire, Disconnect, Visit, Nothing, DeliverConnect, vars
<1>2. \A p \in Producers : Kept(p)' <=> Kept(p)
  <2>1. CASE UNCHANGED <<inp, src>>
    BY <2>1 DEF Kept
  <2>2. CASE Retire \/ Disconnect
    BY <1>0, <1>1, <2>2 DEF Retire, Disconnect, Kept
  <2>3. UNCHANGED <<inp, src>> \/ Retire \/ Disconnect
    BY DEF Poll, CancelReceive, Skip, Visit, Nothing, DeliverConnect, vars
  <2>. QED  BY <2>1, <2>2, <2>3
<1>3. \A p \in Producers : Queued(p)' = Queued(p)
  <2>1. CASE buf' = buf
    BY <2>1 DEF Queued
  <2>2. CASE DeliverConnect
    <3>1. /\ buf[Index] # <<>> /\ Head(buf[Index]) = "connect"
          /\ buf' = [buf EXCEPT ![Index] = Tail(@)]
      BY <2>2 DEF DeliverConnect
    <3>2. Cardinality(Messages(buf[Index])) = Cardinality(Messages(Tail(buf[Index])))
      <4>1. Tail(buf[Index]) \in Seq(Events) /\ buf[Index] \in Seq(Events)
        BY <1>0, <3>1
      <4>2. Cardinality(Messages(Tail(buf[Index]))) \in Nat
        BY <4>1, MessagesFinite
      <4>3. Cardinality(Messages(buf[Index])) = Cardinality(Messages(Tail(buf[Index]))) + 0
        BY <3>1, <4>1, MessagesTail
      <4>. QED  BY <4>2, <4>3
    <3>. QED  BY <1>0, <3>1, <3>2 DEF Queued
  <2>. QED  BY <1>1, <2>1, <2>2
<1>4. \A p \in Producers : delivered[p] <= accepted'[p] /\ (Kept(p) => accepted'[p] = delivered[p] + Queued(p)')
  BY <1>1, <1>3 DEF EndInv, Conserved
<1>. QED  BY <1>0, <1>1, <1>2, <1>4, EndKept

\* The verdict on counts that stand for what was delivered.
LEMMA VerdictMeaning ==
  ASSUME TypeOK, Counted
  PROVE  /\ Verdict(taken, received) = "complete" =>
              Total >= Min /\ \A p \in Producers : delivered[p] >= PMin[p]
<1>0. /\ Min \in Nat /\ PMin \in [Producers -> Nat] /\ delivered \in [Producers -> Nat]
      /\ Total \in Nat /\ received \in Nat /\ taken \in [Producers -> Nat]
      /\ (Max # None => Max \in Nat)
  BY SlotsFinite, FS_CardinalityType, FanInAssumption DEF Total, TypeOK, HistoryTypes, PollTypes, QueueTypes
<1>1. ASSUME Verdict(taken, received) = "complete"
      PROVE  received >= Min /\ \A p \in Producers : taken[p] >= PMin[p]
  BY <1>0, <1>1 DEF Verdict
<1>. QED  BY <1>0, <1>1 DEF Counted

\* The merged input ends, or is closed: no queue is kept.
LEMMA EndOver ==
  ASSUME EndInv, inp' # "Merged", UNCHANGED <<taken, received, delivered, accepted>>, Room', Completed'
  PROVE  EndInv'
<1>1. Total' = Total /\ \A p \in Producers : ~Kept(p)'
  BY DEF Total, Kept
<1>. QED  BY <1>1 DEF EndInv, Counted, Conserved, Settled

LEMMA EndScanDone ==
  ASSUME BudgetInv, Phases, EndInv, ScanDone
  PROVE  EndInv'
<1>. USE DEF outVars, permVars, quotaVars, pollVars, srcVars, endVars, histVars
<1>0. /\ TypeOK /\ [Next]_vars /\ inp = "Merged" /\ ending = "open"
      /\ UNCHANGED <<taken, received, delivered, cut, accepted, src>>
  BY DEF BudgetInv, Next, Scanning, Phases, ScanDone
<1>1. CASE (\A p \in Producers : done[p]) /\ End(Verdict(taken, received))
  <2>1. \A p \in Producers \ cut : delivered[p] = accepted[p] /\ Quiet(p)
    BY <1>0, <1>1 DEF Phases, EndInv, Settled, Kept
  <2>2. \A p \in Producers \ cut' : delivered'[p] = accepted'[p] /\ Quiet(p)'
    BY <1>0, <2>1, QuietStays
  <2>3. Total' = Total /\ inp' = "Ended" /\ ending' = Verdict(taken, received)
    BY <1>0, <1>1 DEF End, Total
  <2>4. Room'
    BY <1>0 DEF EndInv, Room
  <2>5. Completed'
    BY <1>0, <2>2, <2>3, VerdictMeaning DEF EndInv, Completed
  <2>. QED  BY <1>0, <2>3, <2>4, <2>5, EndOver
<1>2. CASE UNCHANGED <<inp, ending, rxClosed, permVars, buf>>
  <2>1. \A p \in Producers : (Kept(p)' <=> Kept(p)) /\ Queued(p)' = Queued(p)
    BY <1>0, <1>2 DEF Kept, Queued
  <2>. QED  BY <1>0, <1>2, <2>1, EndKept DEF EndInv, Conserved
<1>. QED  BY <1>1, <1>2 DEF ScanDone

LEMMA EndCloseInput ==
  ASSUME BudgetInv, Phases, EndInv, CloseInput
  PROVE  EndInv'
<1>. USE DEF outVars, permVars, quotaVars, pollVars, srcVars, endVars, histVars
<1>0. /\ [Next]_vars /\ UNCHANGED <<taken, received, delivered, cut, accepted>>
      /\ inp' = "Closed" /\ ending' = IF ending = "open" THEN "aborted" ELSE ending
  BY DEF Next, CloseInput
<1>1. \A p \in Producers : Quiet(p) => Quiet(p)'
  BY <1>0, QuietStays
<1>2. Total' = Total
  BY <1>0 DEF Total
<1>3. Room' /\ Completed'
  BY <1>0, <1>1, <1>2 DEF EndInv, Room, Completed
<1>. QED  BY <1>0, <1>3, EndOver

LEMMA EndSourceOver ==
  ASSUME BudgetInv, Phases, EndInv, Visit, SourceOver
  PROVE  EndInv'
<1>. USE DEF outVars, permVars, quotaVars, pollVars, srcVars, endVars, histVars
<1>p. PICK p \in Producers : p = Index
  BY IndexType DEF BudgetInv, TypeOK
<1>. DEFINE marked == Kept(p) /\ buf[p] # <<>> /\ Head(buf[p]) = "disconnect"
<1>0. /\ TypeOK /\ [Next]_vars /\ p \in Producers /\ inp = "Merged" /\ ending = "open"
      /\ UNCHANGED <<taken, received, delivered, accepted>>
      /\ src \in [Producers -> {"Connected", "Disconnected", "Ended", "Closed"}]
      /\ delivered \in [Producers -> Nat] /\ accepted \in [Producers -> Nat]
      /\ buf \in [Producers -> Seq(Events)]
  BY DEF BudgetInv, Next, Scanning, TypeOK, QueueTypes, HistoryTypes, Visit, Looking, Phases,
                   SourceOver, Events
<1>1. cut' = IF marked THEN cut \cup {p} ELSE cut
  BY <1>p DEF SourceOver
<1>2. CASE End("short")
  <2>1. inp' = "Ended" /\ ending' = "short"
    BY <1>2 DEF End
  <2>2. Room' /\ Completed'
    BY <1>0, <2>1 DEF EndInv, Room, Completed
  <2>. QED  BY <1>0, <2>1, <2>2, EndOver
<1>3. CASE /\ src' = [src EXCEPT ![p] = "Closed"] /\ buf' = [buf EXCEPT ![p] = <<>>]
           /\ UNCHANGED <<inp, ending>>
  <2>1. /\ ~Kept(p)'
        /\ \A q \in Producers \ {p} : (Kept(q)' <=> Kept(q)) /\ buf'[q] = buf[q]
    BY <1>0, <1>3 DEF Kept
  <2>2. Total' = Total /\ Room' /\ Completed'
    BY <1>0, <1>3 DEF EndInv, Total, Room, Completed
  <2>3. Counted'
    BY <1>0, <2>2 DEF EndInv, Counted
  <2>4. Conserved'
    <3>. SUFFICES ASSUME NEW q \in Producers
         PROVE  delivered[q] <= accepted[q] /\ (Kept(q)' => accepted[q] = delivered[q] + Queued(q)')
      BY <1>0 DEF Conserved
    <3>1. CASE q = p
      BY <2>1, <3>1 DEF EndInv, Conserved
    <3>2. CASE q # p
      BY <2>1, <3>2 DEF EndInv, Conserved, Queued
    <3>. QED  BY <3>1, <3>2
  <2>5. Settled'
    <3>. SUFFICES ASSUME NEW q \in Producers, ~Kept(q)', q \notin cut'
         PROVE  delivered[q] = accepted[q] /\ Quiet(q)'
      BY <1>0 DEF Settled
    <3>1. ~Kept(q) => delivered[q] = accepted[q] /\ Quiet(q)
      BY <1>0, <1>1 DEF EndInv, Settled
    <3>2. CASE Kept(q)
      <4>1. q = p /\ ~marked /\ Drained(p)
        BY <1>p, <1>1, <2>1, <3>2 DEF SourceOver
      <4>2. buf[q] = <<>> /\ Quiet(q)
        BY <4>1 DEF Drained, Quiet
      <4>3. Queued(q) = 0
        BY <4>2, MessagesEmpty DEF Queued
      <4>4. accepted[q] = delivered[q] + Queued(q)
        BY <3>2 DEF EndInv, Conserved
      <4>. QED  BY <1>0, <4>2, <4>3, <4>4, QuietStays
    <3>3. CASE ~Kept(q)
      BY <1>0, <3>1, <3>3, QuietStays
    <3>. QED  BY <3>2, <3>3
  <2>. QED  BY <2>2, <2>3, <2>4, <2>5 DEF EndInv
<1>. QED  BY <1>p, <1>2, <1>3 DEF SourceOver

LEMMA EndDeliver ==
  ASSUME BudgetInv, Phases, EndInv, Visit, Deliver
  PROVE  EndInv'
<1>. USE DEF outVars, permVars, quotaVars, pollVars, srcVars, endVars, histVars
<1>p. PICK p \in Producers : p = Index
  BY IndexType DEF BudgetInv, TypeOK
<1>. DEFINE count == IF PMax[p] # None \/ taken[p] < PMin[p] THEN taken[p] + 1 ELSE taken[p]
            total == IF Max # None \/ received < Min THEN received + 1 ELSE received
            counts == [taken EXCEPT ![p] = count]
            d == [delivered EXCEPT ![p] = @ + 1]
<1>0. /\ TypeOK /\ [Next]_vars /\ p \in Producers /\ inp = "Merged" /\ ending = "open"
      /\ accepted' = accepted /\ cut' = cut
      /\ src \in [Producers -> {"Connected", "Disconnected", "Ended", "Closed"}]
      /\ delivered \in [Producers -> Nat] /\ accepted \in [Producers -> Nat]
      /\ buf \in [Producers -> Seq(Events)] /\ taken \in [Producers -> Nat] /\ received \in Nat
  BY DEF BudgetInv, Next, Scanning, TypeOK, QueueTypes, PollTypes, HistoryTypes, Visit,
                   Looking, Phases, Deliver, Events
<1>1. /\ None \notin Nat /\ Min \in Nat /\ Max \in Nat \cup {None} /\ (Max # None => Min <= Max)
      /\ PMin \in [Producers -> Nat] /\ PMax \in [Producers -> Nat \cup {None}]
  BY FanInAssumption
<1>2. /\ Kept(p) /\ buf[p] # <<>> /\ Head(buf[p]) = "message"
      /\ taken' = counts /\ received' = total
      /\ delivered' = IF ending' = "short" THEN delivered ELSE d
      /\ src' = IF PMax[p] = count THEN [src EXCEPT ![p] = "Ended"] ELSE src
  BY <1>p DEF Deliver
<1>3. /\ Max = total => End(Verdict(counts, total))
      /\ Max # total => /\ UNCHANGED <<inp, ending>>
                        /\ buf' = [buf EXCEPT ![p] = IF PMax[p] = count THEN <<>> ELSE Tail(@)]
  BY <1>p DEF Deliver
<1>4. d \in [Producers -> Nat] /\ d[p] = delivered[p] + 1 /\ \A q \in Producers \ {p} : d[q] = delivered[q]
  BY <1>0
<1>5. Cardinality(Slots(d)) = Total + 1 /\ Total \in Nat
  BY <1>0, SlotAdded DEF Total
<1>6. counts \in [Producers -> Nat] /\ counts[p] = count /\ count \in Nat /\ total \in Nat
      /\ \A q \in Producers \ {p} : counts[q] = taken[q]
  BY <1>0
<1>7. count = IF PMax[p] # None \/ d[p] < PMin[p] THEN d[p] ELSE PMin[p]
  <2>1. taken[p] = IF PMax[p] # None \/ delivered[p] < PMin[p] THEN delivered[p] ELSE PMin[p]
    BY <1>0 DEF EndInv, Counted
  <2>2. PMin[p] \in Nat /\ delivered[p] \in Nat
    BY <1>0, <1>1
  <2>. QED  BY <1>4, <2>1, <2>2
<1>8. total = IF Max # None \/ Total + 1 < Min THEN Total + 1 ELSE Min
  BY <1>1, <1>5 DEF EndInv, Counted
<1>9. \A q \in Producers :
        counts[q] = IF PMax[q] # None \/ d[q] < PMin[q] THEN d[q] ELSE PMin[q]
  BY <1>4, <1>6, <1>7 DEF EndInv, Counted
<1>10. /\ Queued(p) = Cardinality(Messages(Tail(buf[p]))) + 1
       /\ Cardinality(Messages(Tail(buf[p]))) \in Nat
       /\ accepted[p] = delivered[p] + Queued(p)
  <2>1. buf[p] \in Seq(Events) /\ Tail(buf[p]) \in Seq(Events)
    BY <1>0, <1>2
  <2>. QED  BY <1>2, <1>0, <2>1, MessagesTail, MessagesFinite DEF EndInv, Conserved, Queued
<1>11. \A q \in Producers : d[q] <= accepted[q]
  <2>. TAKE q \in Producers
  <2>1. CASE q = p
    BY <1>0, <1>4, <1>10, <2>1
  <2>2. CASE q # p
    BY <1>4, <2>2 DEF EndInv, Conserved
  <2>. QED  BY <2>1, <2>2
<1>. HIDE DEF count, total, counts, d
<1>12. ASSUME ending' # "short" PROVE Counted'
  <2>1. delivered' = d /\ taken' = counts /\ received' = total /\ Total' = Total + 1
    BY <1>2, <1>5, <1>12 DEF Total
  <2>. QED  BY <1>8, <1>9, <2>1 DEF Counted
<1>13. CASE Max = total
  <2>1. Max # None /\ total = Total + 1 /\ Total + 1 >= Max /\ Max \in Nat /\ total >= Min
    BY <1>1, <1>5, <1>6, <1>8, <1>13
  <2>2. \A q \in Producers : d[q] = accepted[q] /\ d[q] >= PMin[q]
    BY <1>4, <1>5, <1>11, <2>1, FullSlots
  <2>3. \A q \in Producers : counts[q] >= PMin[q]
    BY <1>1, <1>4, <1>9, <2>2
  <2>4. Verdict(counts, total) = "complete"
    BY <1>1, <1>6, <2>1, <2>3 DEF Verdict
  <2>5. ending' = "complete" /\ inp' = "Ended"
    BY <1>3, <1>13, <2>4 DEF End
  <2>6. delivered' = d /\ Total' = Total + 1
    BY <1>2, <1>5, <2>5 DEF Total
  <2>7. \A q \in Producers : ~Kept(q)'
    BY <2>5 DEF Kept
  <2>8. Conserved' /\ Settled'
    BY <1>0, <1>11, <2>5, <2>6, <2>7 DEF Conserved, Settled
  <2>9. Room' /\ Completed'
    BY <1>1, <2>1, <2>2, <2>5, <2>6 DEF Room, Completed
  <2>. QED  BY <1>12, <2>5, <2>8, <2>9 DEF EndInv
<1>14. CASE Max # total
  <2>1. /\ inp' = "Merged" /\ ending' = "open" /\ delivered' = d
        /\ buf' = [buf EXCEPT ![p] = IF PMax[p] = count THEN <<>> ELSE Tail(@)]
    BY <1>0, <1>2, <1>3, <1>14
  <2>2. Room'
    <3>1. Max # None => total = received + 1 /\ received < Max
      BY <1>0 DEF total, EndInv, Room
    <3>. QED  BY <1>0, <1>1, <1>2, <1>14, <3>1 DEF Room
  <2>3. Completed'
    BY <2>1 DEF Completed
  <2>4. \A q \in Producers \ {p} : (Kept(q)' <=> Kept(q)) /\ buf'[q] = buf[q] /\ delivered'[q] = delivered[q]
    BY <1>0, <1>2, <1>4, <2>1 DEF Kept
  <2>5. Conserved'
    <3>. SUFFICES ASSUME NEW q \in Producers
         PROVE  d[q] <= accepted[q] /\ (Kept(q)' => accepted[q] = d[q] + Queued(q)')
      BY <1>0, <2>1 DEF Conserved
    <3>1. CASE q # p
      BY <1>11, <2>1, <2>4, <3>1 DEF EndInv, Conserved, Queued
    <3>2. CASE q = p
      <4>1. Kept(p)' => PMax[p] # count
        BY <1>0, <1>2 DEF Kept
      <4>2. PMax[p] # count => buf'[p] = Tail(buf[p])
        BY <1>0, <2>1
      <4>3. PMax[p] # count => Queued(p)' = Cardinality(Messages(Tail(buf[p])))
        BY <4>2 DEF Queued
      <4>. QED  BY <1>0, <1>4, <1>10, <1>11, <3>2, <4>1, <4>3
    <3>. QED  BY <3>1, <3>2
  <2>6. Settled'
    <3>. SUFFICES ASSUME NEW q \in Producers, ~Kept(q)', q \notin cut
         PROVE  d[q] = accepted[q] /\ Quiet(q)'
      BY <1>0, <2>1 DEF Settled
    <3>1. CASE q # p
      <4>1. d[q] = delivered[q] /\ delivered[q] = accepted[q] /\ Quiet(q)
        BY <1>0, <1>4, <2>4, <3>1 DEF EndInv, Settled
      <4>. QED  BY <1>0, <4>1, QuietStays
    <3>2. CASE q = p
      <4>1. PMax[p] = count
        BY <1>0, <1>2, <2>1, <3>2 DEF Kept
      <4>2. PMax[p] # None /\ d[p] = PMax[p]
        BY <1>1, <1>6, <1>7, <4>1
      <4>3. accepted[p] <= Spent(p) /\ Spent(p) <= PMax[p] /\ Spent(p) \in Nat /\ accepted[p] \in Nat
        BY <1>0, <4>2, AcceptedSpent DEF AcceptedWithin, BudgetInv, WithinShare
      <4>4. accepted[p] = PMax[p]
        BY <1>0, <1>4, <1>11, <4>2, <4>3
      <4>. QED  BY <1>0, <3>2, <4>2, <4>4 DEF Quiet
    <3>. QED  BY <3>1, <3>2
  <2>. QED  BY <1>12, <2>1, <2>2, <2>3, <2>5, <2>6 DEF EndInv
<1>. QED  BY <1>13, <1>14

LEMMA EndStep == BudgetInv /\ Phases /\ EndInv /\ [Next]_vars => EndInv'
<1>. SUFFICES ASSUME BudgetInv, Phases, EndInv, [Next]_vars PROVE EndInv'
  OBVIOUS
<1>1. ASSUME Scanning PROVE EndInv'
  BY <1>1, EndIdle, EndScanDone, EndSourceOver, EndDeliver, Zenon DEF Scanning, Visit
<1>. QED
  BY <1>1, EndHandle, EndIdle, EndCloseInput, Zenon DEF Next

LEMMA EndInvariant == Spec => [](BudgetInv /\ Phases /\ EndInv)
<1>1. BudgetInv => TypeOK
  BY DEF BudgetInv
<1>. QED
  BY <1>1, BudgetInit, PhasesInit, EndInit, BudgetStep, PhasesStep, EndStep, PTL DEF Spec

\* An input that ended by itself returned every payload its sources accepted,
\* except behind a marker, and met its own and every producer's minimum.
THEOREM CompleteMeansEverything == Spec => []EndIsComplete
<1>1. BudgetInv /\ EndInv => EndIsComplete
  <2>. SUFFICES ASSUME BudgetInv, EndInv, ending = "complete"
       PROVE  /\ \A p \in Producers : delivered[p] >= PMin[p]
              /\ Cardinality(Slots(delivered)) >= Min
              /\ \A p \in Producers \ cut : delivered[p] = accepted[p]
    BY DEF EndIsComplete
  <2>1. Completed /\ delivered \in [Producers -> Nat] /\ \A p \in Producers : delivered[p] <= accepted[p]
    BY DEF EndInv, Conserved, BudgetInv, TypeOK, HistoryTypes
  <2>2. CASE Max # None /\ Total >= Max
    BY <2>1, <2>2, FullSlots DEF Completed, Total
  <2>3. CASE ~(Max # None /\ Total >= Max)
    BY <2>1, <2>3 DEF Completed, Total
  <2>. QED  BY <2>2, <2>3
<1>. QED  BY <1>1, EndInvariant, PTL

\* The payload that fills the input is returned, and the input is complete.
THEOREM FullMeansComplete == Spec => []FullIsComplete
<1>1. BudgetInv /\ EndInv => FullIsComplete
  BY FanInAssumption DEF EndInv, Room, FullIsComplete
<1>. QED  BY <1>1, EndInvariant, PTL

-----------------------------------------------------------------------------
(* Turns.  Where an event waits, the sources that had their turn since then *)
(* are further from the next poll than its own.                             *)

\* How many sources the next poll looks at before it comes to q.
Ahead(q) == IF q >= next THEN q - next ELSE q - next + N

\* An event of r has been returned while the first one of q waits.
PassedOnce(q, r) == buf[q] # <<>> /\ passed[q][r] # 0

Turns ==
  /\ task # "polling" => scan = 0
  /\ \A q, r \in Producers : passed[q][r] <= 1
  /\ \A q, r \in Producers : PassedOnce(q, r) => Ahead(q) < Ahead(r) /\ scan <= Ahead(q)

LEMMA TurnArithmetic ==
  ASSUME PollTypes
  PROVE  /\ N \in Nat \ {0} /\ next \in 0 .. N - 1 /\ scan \in 0 .. N /\ Index \in 0 .. N - 1
         /\ \A q \in Producers : Ahead(q) \in 0 .. N - 1
         /\ scan < N => \A q \in Producers : Ahead(q) = scan => q = Index
         /\ scan < N => Index = next + scan \/ Index = next + scan - N
         /\ NextTurn = Index + 1 \/ (NextTurn = 0 /\ Index + 1 = N)
<1>1. N \in Nat \ {0} /\ next \in 0 .. N - 1 /\ scan \in 0 .. N /\ Index \in 0 .. N - 1
  BY FanInAssumption, IndexType DEF PollTypes, Producers
<1>2. \A q \in Producers : Ahead(q) \in 0 .. N - 1
  BY <1>1 DEF Ahead, Producers
<1>3. ASSUME scan < N PROVE Index = IF next + scan < N THEN next + scan ELSE next + scan - N
  <2>1. CASE next + scan < N
    BY <1>1, <2>1 DEF Index
  <2>2. CASE next + scan >= N
    <3>1. next + scan = N * 1 + (next + scan - N) /\ next + scan - N \in 0 .. N - 1
      BY <1>1, <1>3, <2>2
    <3>. QED  BY <1>1, <2>2, <3>1 DEF Index
  <2>. QED  BY <1>1, <2>1, <2>2
<1>4. scan < N => \A q \in Producers : Ahead(q) = scan => q = Index
  BY <1>1, <1>3 DEF Ahead, Producers
<1>5. NextTurn = Index + 1 \/ (NextTurn = 0 /\ Index + 1 = N)
  <2>1. CASE Index + 1 < N
    BY <1>1, <2>1 DEF NextTurn
  <2>2. CASE Index + 1 = N
    <3>1. N % N = 0
      <4>1. N = N * 1 + 0
        BY <1>1
      <4>. QED  BY <1>1
    <3>. QED  BY <2>2, <3>1 DEF NextTurn
  <2>. QED  BY <1>1, <2>1, <2>2
<1>. QED  BY <1>1, <1>2, <1>3, <1>4, <1>5

\* Nothing new in any queue.
Shrinks == \A q \in Producers : buf'[q] # <<>> => buf[q] # <<>>

\* Reception stays where it is.
LEMMA TurnsStay ==
  ASSUME TypeOK, Turns, Shrinks, UNCHANGED <<next, scan, passed>>,
         task' # "polling" => task # "polling"
  PROVE  Turns'
BY DEF Turns, PassedOnce, Shrinks, Ahead

\* The scan stops, at any source.
LEMMA TurnsStop ==
  ASSUME TypeOK, Turns, Shrinks, UNCHANGED <<next, passed>>, scan' = 0
  PROVE  Turns'
<1>1. PollTypes
  BY DEF TypeOK
<1>2. \A q \in Producers : Ahead(q)' = Ahead(q) /\ Ahead(q) \in 0 .. N - 1
  BY <1>1, TurnArithmetic DEF Ahead
<1>. HIDE DEF Ahead
<1>3. N \in Nat
  BY FanInAssumption
<1>. QED  BY <1>2, <1>3 DEF Turns, PassedOnce, Shrinks

\* The scan goes on behind a source with an empty queue.
LEMMA TurnsLookOn ==
  ASSUME TypeOK, Turns, Shrinks, UNCHANGED <<next, passed>>, LookOn,
         task = "polling", scan < N, buf'[Index] = <<>>
  PROVE  Turns'
<1>1. PollTypes
  BY DEF TypeOK
<1>2. /\ \A q \in Producers : Ahead(q)' = Ahead(q) /\ Ahead(q) \in 0 .. N - 1
      /\ \A q \in Producers : Ahead(q) = scan => q = Index
      /\ scan \in Nat /\ N \in Nat
  BY <1>1, TurnArithmetic DEF Ahead
<1>. HIDE DEF Ahead
<1>3. scan' = scan + 1 /\ task' = task
  BY DEF LookOn
<1>4. ASSUME NEW q \in Producers, NEW r \in Producers, PassedOnce(q, r)'
      PROVE  Ahead(q)' < Ahead(r)' /\ scan' <= Ahead(q)'
  <2>1. PassedOnce(q, r) /\ q # Index
    BY <1>4 DEF PassedOnce, Shrinks
  <2>2. Ahead(q) < Ahead(r) /\ scan <= Ahead(q) /\ Ahead(q) # scan
    BY <1>2, <2>1 DEF Turns
  <2>. QED  BY <1>2, <1>3, <2>2
<1>. QED  BY <1>3, <1>4 DEF Turns

\* An event of one source is returned, and the turn goes to the next one.
LEMMA TurnsNext ==
  ASSUME TypeOK, Turns, Shrinks, scan < N, next' = NextTurn, scan' = 0,
         passed' = PassedBy(Index)
  PROVE  Turns'
<1>1. PollTypes /\ passed \in [Producers -> [Producers -> Nat]]
  BY DEF TypeOK, HistoryTypes
<1>2. N \in Nat \ {0} /\ next \in 0 .. N - 1 /\ scan \in 0 .. N - 1 /\ Index \in 0 .. N - 1
  BY <1>1, TurnArithmetic
<1>3. Index = next + scan \/ Index = next + scan - N
  BY <1>1, TurnArithmetic
<1>4. next' = Index + 1 \/ (next' = 0 /\ Index + 1 = N)
  BY <1>1, TurnArithmetic
<1>5. ASSUME NEW q \in Producers
      PROVE  /\ Ahead(q)' \in 0 .. N - 1
             /\ q # Index => Ahead(q)' = Ahead(q) - scan - 1 \/ Ahead(q) < scan
  BY <1>2, <1>3, <1>4 DEF Ahead, Producers
<1>6. passed' = [q \in Producers |-> IF q # Index /\ buf[q] # <<>>
                                     THEN [passed[q] EXCEPT ![Index] = @ + 1] ELSE Nobody]
  BY DEF PassedBy
<1>7. ASSUME NEW r \in Producers, r = Index PROVE Ahead(r) = scan /\ Ahead(r)' = N - 1
  <2>1. Ahead(r) = scan
    BY <1>2, <1>3, <1>7 DEF Ahead
  <2>2. Ahead(r)' = N - 1
    BY <1>2, <1>4, <1>7 DEF Ahead
  <2>. QED  BY <2>1, <2>2
<1>8. ASSUME NEW q \in Producers, NEW r \in Producers
      PROVE  /\ passed'[q][r] <= 1
             /\ PassedOnce(q, r)' => Ahead(q)' < Ahead(r)'
  <2>1. CASE q = Index \/ buf[q] = <<>>
    <3>1. passed'[q][r] = 0
      BY <1>6, <2>1 DEF Nobody
    <3>. QED  BY <3>1 DEF PassedOnce
  <2>2. CASE q # Index /\ buf[q] # <<>>
    <3>1. passed'[q] = [passed[q] EXCEPT ![Index] = @ + 1] /\ passed[q] \in [Producers -> Nat]
      BY <1>1, <1>6, <2>2
    <3>2. /\ Ahead(q) \in 0 .. N - 1 /\ Ahead(r) \in 0 .. N - 1
          /\ Ahead(q)' \in 0 .. N - 1 /\ Ahead(r)' \in 0 .. N - 1
      BY <1>1, <1>5, TurnArithmetic
    <3>3. CASE r = Index
      <4>1. passed[q][r] = 0
        <5>1. Ahead(r) = scan
          BY <1>7, <3>3
        <5>2. ~(Ahead(q) < Ahead(r) /\ scan <= Ahead(q))
          BY <1>2, <3>2, <5>1
        <5>. QED  BY <2>2, <5>2 DEF Turns, PassedOnce
      <4>2. passed'[q][r] = 1
        BY <3>1, <3>3, <4>1
      <4>3. Ahead(q)' # N - 1
        BY <1>2, <1>4, <2>2 DEF Ahead, Producers
      <4>4. Ahead(r)' = N - 1
        BY <1>7, <3>3
      <4>. QED  BY <1>2, <3>2, <4>2, <4>3, <4>4
    <3>4. CASE r # Index
      <4>1. passed'[q][r] = passed[q][r]
        BY <3>1, <3>4
      <4>2. passed[q][r] <= 1
        BY DEF Turns
      <4>3. ASSUME passed[q][r] # 0 PROVE Ahead(q)' < Ahead(r)'
        <5>1. Ahead(q) < Ahead(r) /\ scan <= Ahead(q)
          BY <2>2, <4>3 DEF Turns, PassedOnce
        <5>2. /\ Ahead(q)' = Ahead(q) - scan - 1 \/ Ahead(q) < scan
              /\ Ahead(r)' = Ahead(r) - scan - 1 \/ Ahead(r) < scan
          BY <1>5, <2>2, <3>4
        <5>. QED  BY <1>2, <3>2, <5>1, <5>2
      <4>. QED  BY <4>1, <4>2, <4>3 DEF PassedOnce
    <3>. QED  BY <3>3, <3>4
  <2>. QED  BY <2>1, <2>2
<1>9. ASSUME NEW q \in Producers PROVE scan' <= Ahead(q)'
  BY <1>2, <1>5, <1>9
<1>. QED  BY <1>8, <1>9 DEF Turns

LEMMA TurnsInit == Init => Turns
<1>. SUFFICES ASSUME Init PROVE Turns
  OBVIOUS
<1>1. N \in Nat \ {0}
  BY FanInAssumption
<1>2. \A q, r \in Producers : passed[q][r] = 0
  BY DEF Init, Nobody
<1>. QED  BY <1>1, <1>2 DEF Turns, PassedOnce, Init

LEMMA TurnsEnqueue ==
  ASSUME TypeOK, Turns, NEW h \in Handles, Enqueue(h)
  PROVE  Turns'
<1>1. /\ PollTypes /\ N \in Nat \ {0} /\ Owner[h] \in Producers
      /\ passed \in [Producers -> [Producers -> Nat]]
      /\ buf \in [Producers -> Seq({"message", "connect", "disconnect"})]
  BY FanInAssumption DEF TypeOK, HistoryTypes, QueueTypes
<1>2. UNCHANGED <<next, scan, task>>
  BY DEF Enqueue, pollVars
<1>3. \A q \in Producers : Ahead(q)' = Ahead(q) /\ Ahead(q) \in 0 .. N - 1
  BY <1>1, <1>2, TurnArithmetic DEF Ahead
<1>4. \A q \in Producers : \/ passed'[q] = passed[q] /\ (buf'[q] # <<>> => buf[q] # <<>>)
                           \/ passed'[q] = Nobody
  BY <1>1 DEF Enqueue
<1>5. ASSUME NEW q \in Producers, NEW r \in Producers
      PROVE  passed'[q][r] <= 1 /\ (PassedOnce(q, r)' => PassedOnce(q, r))
  <2>1. CASE passed'[q] = passed[q] /\ (buf'[q] # <<>> => buf[q] # <<>>)
    BY <2>1 DEF Turns, PassedOnce
  <2>2. CASE passed'[q] = Nobody
    <3>1. passed'[q][r] = 0
      BY <2>2 DEF Nobody
    <3>. QED  BY <3>1 DEF PassedOnce
  <2>. QED  BY <1>4, <2>1, <2>2
<1>. HIDE DEF Ahead
<1>. QED  BY <1>2, <1>3, <1>5 DEF Turns

LEMMA TurnsVisit ==
  ASSUME BudgetInv, Phases, Turns, Scanning
  PROVE  Turns'
<1>0. TypeOK /\ PollTypes /\ buf \in [Producers -> Seq({"message", "connect", "disconnect"})]
  BY DEF BudgetInv, TypeOK, QueueTypes
<1>1. Index \in Producers
  BY <1>0, IndexType
<1>2. CASE Skip
  BY <1>0, <1>1, <1>2, TurnsLookOn DEF Skip, histVars, Phases, Shrinks
<1>3. CASE Retire
  BY <1>0, <1>3, TurnsStay DEF Retire, histVars, Shrinks
<1>4. CASE ScanDone
  <2>1. Shrinks
    BY <1>4 DEF ScanDone, End, Shrinks
  <2>. QED  BY <1>0, <1>4, <2>1, TurnsStop DEF ScanDone, StopPolling, histVars
<1>5. ASSUME Visit, Nothing PROVE Turns'
  <2>1. task = "polling" /\ scan < N
    BY <1>5 DEF Visit, Looking
  <2>. QED  BY <1>0, <1>5, <2>1, TurnsLookOn DEF Nothing, histVars, Shrinks
<1>6. ASSUME Visit, DeliverConnect PROVE Turns'
  <2>1. scan < N
    BY <1>6 DEF Visit, Looking
  <2>2. Shrinks
    BY <1>0, <1>1, <1>6 DEF DeliverConnect, Shrinks
  <2>. QED  BY <1>0, <1>6, <2>1, <2>2, TurnsNext DEF DeliverConnect, StopPolling
<1>7. ASSUME Visit, Deliver PROVE Turns'
  <2>1. scan < N
    BY <1>7 DEF Visit, Looking
  <2>2. Shrinks
    <3>1. buf[Index] # <<>>
      BY <1>7 DEF Deliver
    <3>2. \A q \in Producers \ {Index} : buf'[q] = buf[q] \/ buf'[q] = <<>>
      BY <1>0, <1>7 DEF Deliver, End
    <3>. QED  BY <3>1, <3>2 DEF Shrinks
  <2>. QED  BY <1>0, <1>7, <2>1, <2>2, TurnsNext DEF Deliver, StopPolling
<1>8. ASSUME Visit, SourceOver PROVE Turns'
  <2>1. task = "polling" /\ scan < N /\ UNCHANGED <<next, passed>>
    BY <1>8 DEF Visit, Looking, SourceOver
  <2>2. CASE End("short") /\ StopPolling("idle")
    BY <1>0, <2>1, <2>2, TurnsStop DEF End, StopPolling, Shrinks
  <2>3. CASE buf' = [buf EXCEPT ![Index] = <<>>] /\ LookOn
    BY <1>0, <1>1, <2>1, <2>3, TurnsLookOn DEF Shrinks
  <2>. QED  BY <1>8, <2>2, <2>3 DEF SourceOver
<1>. QED  BY <1>2, <1>3, <1>4, <1>5, <1>6, <1>7, <1>8, Zenon DEF Scanning, Visit

LEMMA TurnsStep == BudgetInv /\ Phases /\ Turns /\ [Next]_vars => Turns'
<1>. SUFFICES ASSUME BudgetInv, Phases, Turns, [Next]_vars PROVE Turns'
  OBVIOUS
<1>. USE DEF pollVars, histVars, Shrinks
<1>0. TypeOK
  BY DEF BudgetInv
<1>1. ASSUME NEW h \in Handles, HandleStep(h) PROVE Turns'
  <2>1. CASE Enqueue(h)
    BY <1>0, <2>1, TurnsEnqueue
  <2>2. CASE ~Enqueue(h)
    <3>1. UNCHANGED <<next, scan, task, buf, passed>>
      BY <1>0, <1>1, <2>2, SendFrame
    <3>. QED  BY <1>0, <3>1, TurnsStay
  <2>. QED  BY <2>1, <2>2
<1>2. CASE Poll
  BY <1>0, <1>2, TurnsStay DEF Poll
<1>3. CASE CancelReceive
  BY <1>0, <1>3, TurnsStay DEF CancelReceive
<1>4. CASE Disconnect
  BY <1>0, <1>4, TurnsStay DEF Disconnect
<1>5. CASE CloseInput
  BY <1>0, <1>5, TurnsStay DEF CloseInput
<1>6. CASE UNCHANGED vars
  BY <1>0, <1>6, TurnsStay DEF vars
<1>. QED
  BY <1>1, <1>2, <1>3, <1>4, <1>5, <1>6, StepCases, TurnsVisit, Zenon DEF ReceiverStep

\* While an event waits, at most one event of each other source is returned
\* before it.
THEOREM TurnsAreFair == Spec => []FairTurns
<1>1. Turns => FairTurns
  BY DEF Turns, FairTurns
<1>2. Spec => [](BudgetInv /\ Phases /\ Turns)
  <2>1. BudgetInv => TypeOK
    BY DEF BudgetInv
  <2>. QED
    BY <2>1, BudgetInit, PhasesInit, TurnsInit, BudgetStep, PhasesStep, TurnsStep, PTL DEF Spec
<1>. QED  BY <1>1, <1>2, PTL
=============================================================================
