-------------------------- MODULE ConnectionProofs --------------------------
(* Theorems about Connection, for every number of handles, every capacity  *)
(* and every cardinality.                                                  *)
EXTENDS Connection, FiniteSetTheorems, SequenceTheorems, Induction, TLAPS

\* A call of closed() never holds a permit: only sends get past the queue.
PermitsForSends ==
  \A h \in Handles : pc[h] \in {"permit", "committed", "notifying"} => op[h] # "watch"

TypeInv == TypeOK /\ PermitsForSends

-----------------------------------------------------------------------------
(* The semaphore keeps its types. *)

LEMMA RemoveAtType ==
  ASSUME NEW S, NEW s \in Seq(S), NEW i \in DOMAIN s
  PROVE  Seqs!RemoveAt(s, i) \in Seq(S)
<1>1. i \in 1 .. Len(s)
  OBVIOUS
<1>2. SubSeq(s, 1, i - 1) \in Seq(S)
  <2>1. \A j \in 1 .. i - 1 : s[j] \in S
    BY <1>1
  <2>. QED  BY <1>1, <2>1, SubSeqProperties
<1>3. SubSeq(s, i + 1, Len(s)) \in Seq(S)
  <2>1. \A j \in i + 1 .. Len(s) : s[j] \in S
    BY <1>1
  <2>. QED  BY <1>1, <2>1, SubSeqProperties
<1>4. Seqs!RemoveAt(s, i) = SubSeq(s, 1, i - 1) \o SubSeq(s, i + 1, Len(s))
  BY DEF Seqs!RemoveAt
<1>. QED  BY <1>2, <1>3, <1>4

LEMMA PassPermitType ==
  ASSUME NEW holders \in SUBSET Handles, NEW queue \in Seq(Handles), PassPermit(holders, queue)
  PROVE  assigned' \in SUBSET Handles /\ waiters' \in Seq(Handles)
<1>1. CASE queue = <<>>
  BY <1>1 DEF PassPermit
<1>2. CASE queue # <<>>
  BY <1>2, HeadTailProperties DEF PassPermit
<1>. QED  BY <1>1, <1>2

LEMMA LeaveQueueType ==
  ASSUME TypeOK, NEW h \in Handles, LeaveQueue(h)
  PROVE  assigned' \in SUBSET Handles /\ waiters' \in Seq(Handles)
<1>. waiters \in Seq(Handles) /\ assigned \in SUBSET Handles
  BY DEF TypeOK
<1>1. CASE PassPermit(assigned \ {h}, waiters)
  BY <1>1, PassPermitType
<1>2. ASSUME NEW i \in DOMAIN waiters, waiters' = Seqs!RemoveAt(waiters, i), UNCHANGED assigned
      PROVE  assigned' \in SUBSET Handles /\ waiters' \in Seq(Handles)
  BY <1>2, RemoveAtType
<1>3. CASE UNCHANGED permVars
  BY <1>3 DEF permVars
<1>. QED  BY <1>1, <1>2, <1>3, Zenon DEF LeaveQueue

LEMMA CloseTransportType ==
  ASSUME TypeOK, CloseTransport
  PROVE  /\ assigned' \in SUBSET Handles /\ waiters' \in Seq(Handles)
         /\ rxClosed' \in BOOLEAN
BY DEF TypeOK, CloseTransport

-----------------------------------------------------------------------------
(* Type correctness. *)

LEMMA TypeInit == Init => TypeInv
<1>. SUFFICES ASSUME Init PROVE TypeInv
  OBVIOUS
<1>1. PICK h \in Handles : pc = [g \in Handles |-> IF g = h THEN "idle" ELSE "absent"]
  BY DEF Init
<1>. QED
  BY <1>1 DEF Init, TypeInv, TypeOK, PermitsForSends, Waiting, Operations, Kinds, Event, Payload, Idle, Eos

\* What a step of a sending handle leaves alone.
LEMMA TypeSend ==
  ASSUME TypeInv, NEW h \in Handles, HandleStep(h)
  PROVE  TypeInv'
<1>. USE DEF Return, Goto, outVars, permVars, inVars
<1>0. TypeOK /\ PermitsForSends
  BY DEF TypeInv
<1>1. ASSUME NEW k \in Ops, Begin(h, k) PROVE TypeInv'
  <2>1. k \in Operations
    BY ConnectionAssumption
  <2>2. op' \in [Handles -> Operations] /\ num' \in [Handles -> Nat]
    BY <1>0, <1>1, <2>1 DEF TypeOK, Begin
  <2>3. PermitsForSends'
    BY <1>0, <1>1, <2>1 DEF TypeOK, PermitsForSends, Begin
  <2>4. UNCHANGED <<permVars, sent, buf, accepted, inVars>>
    BY <1>1 DEF Begin
  <2>5. CASE Return(h, ExhaustedResult(k))
    BY <1>0, <2>2, <2>3, <2>4, <2>5 DEF TypeInv, TypeOK, ExhaustedResult, Waiting
  <2>6. CASE /\ Goto(h, IF Guarded(k) THEN "enabling" ELSE "acquiring")
             /\ last' = [last EXCEPT ![h] = "none"]
             /\ UNCHANGED notice
    BY <1>0, <2>2, <2>3, <2>4, <2>6 DEF TypeInv, TypeOK, Waiting
  <2>. QED
    BY <1>1, <2>5, <2>6 DEF Begin
<1>2. CASE Enable(h)
  BY <1>0, <1>2 DEF TypeInv, TypeOK, PermitsForSends, Enable, Waiting
<1>3. CASE Check(h)
  <2>1. assigned' \in SUBSET Handles /\ waiters' \in Seq(Handles)
    BY <1>0, <1>3, LeaveQueueType DEF Check, TypeOK
  <2>. QED
    BY <1>0, <1>3, <2>1 DEF TypeInv, TypeOK, PermitsForSends, Check, ExhaustedResult, Waiting
<1>4. CASE Acquire(h)
  <2>1. CASE Refused(h)
    <3>1. assigned' \in SUBSET Handles /\ waiters' \in Seq(Handles)
      BY <1>0, <2>1, LeaveQueueType DEF Refused
    <3>. QED
      BY <1>0, <1>4, <2>1, <3>1 DEF TypeInv, TypeOK, PermitsForSends, Acquire, Refused, ClosedResult, Waiting
  <2>2. CASE Granted(h)
    BY <1>0, <1>4, <2>2 DEF TypeInv, TypeOK, PermitsForSends, Acquire, Granted, Waiting
  <2>3. CASE Postponed(h)
    <3>1. waiters' \in Seq(Handles)
      BY <1>0, <2>3 DEF TypeOK, Postponed
    <3>. QED
      BY <1>0, <1>4, <2>3, <3>1 DEF TypeInv, TypeOK, PermitsForSends, Acquire, Postponed, Waiting
  <2>. QED  BY <1>4, <2>1, <2>2, <2>3 DEF Acquire
<1>5. CASE Wake(h)
  BY <1>0, <1>5 DEF TypeInv, TypeOK, PermitsForSends, Wake, Waiting
<1>6. CASE Commit(h)
  <2>1. assigned' \in SUBSET Handles /\ waiters' \in Seq(Handles)
    BY <1>0, <1>6, PassPermitType DEF Commit, TypeOK
  <2>2. sent' \in Nat
    BY <1>0, <1>6 DEF TypeOK, Commit
  <2>3. /\ pc' \in [Handles -> {"absent", "idle", "enabling", "checking", "permit", "committed",
                               "notifying", "closed"} \cup Waiting]
        /\ last' \in [Handles -> {"none", "ok", "exceeded", "disconnected", "cancelled", "gone"}]
        /\ notice' \in [Handles -> {"none", "listening", "notified"}]
    BY <1>0, <1>6 DEF TypeOK, Commit
  <2>4. PermitsForSends'
    BY <1>0, <1>6 DEF TypeOK, PermitsForSends, Commit
  <2>. QED
    BY <1>0, <1>6, <2>1, <2>2, <2>3, <2>4 DEF TypeInv, TypeOK, Commit
<1>7. CASE Enqueue(h)
  <2>1. EventOf(h) \in Event /\ PayloadOf(EventOf(h)) \in Payload
    BY <1>0, <1>7 DEF TypeOK, PermitsForSends, Enqueue, EventOf, PayloadOf, Event, Payload, Operations, Kinds
  <2>2. buf' \in Seq(Event) /\ accepted' \in Seq(Payload)
    BY <1>0, <1>7, <2>1 DEF TypeOK, Enqueue
  <2>. QED
    BY <1>0, <1>7, <2>2 DEF TypeInv, TypeOK, PermitsForSends, Enqueue, Waiting
<1>8. CASE Notify(h)
  BY <1>0, <1>8 DEF TypeInv, TypeOK, PermitsForSends, Notify, Waiting
<1>9. CASE Cancel(h)
  <2>1. assigned' \in SUBSET Handles /\ waiters' \in Seq(Handles)
    BY <1>0, <1>9, LeaveQueueType DEF Cancel
  <2>. QED
    BY <1>0, <1>9, <2>1 DEF TypeInv, TypeOK, PermitsForSends, Cancel, Waiting
<1>10. CASE Close(h)
  BY <1>0, <1>10 DEF TypeInv, TypeOK, PermitsForSends, Close, Waiting
<1>11. ASSUME NEW g \in Handles, Clone(h, g) PROVE TypeInv'
  BY <1>0, <1>11 DEF TypeInv, TypeOK, PermitsForSends, Clone, Waiting
<1>. QED
  BY <1>1, <1>2, <1>3, <1>4, <1>5, <1>6, <1>7, <1>8, <1>9, <1>10, <1>11 DEF HandleStep, Advance

LEMMA TypeReceive ==
  ASSUME TypeInv, Receive \/ Disconnect \/ CloseInput
  PROVE  TypeInv'
<1>. USE DEF outVars, permVars, inVars
<1>0. TypeOK /\ PermitsForSends
  BY DEF TypeInv
<1>1. CASE Pop
  <2>1. assigned' \in SUBSET Handles /\ waiters' \in Seq(Handles)
    BY <1>0, <1>1, PassPermitType DEF Pop, TypeOK
  <2>2. got' \in Event /\ buf' \in Seq(Event)
    BY <1>0, <1>1, HeadTailProperties DEF Pop, TypeOK
  <2>. QED
    BY <1>0, <1>1, <2>1, <2>2 DEF TypeInv, TypeOK, PermitsForSends, Pop, Waiting
<1>2. CASE Drained
  BY <1>0, <1>2 DEF TypeInv, TypeOK, PermitsForSends, Drained, Waiting
<1>3. CASE Process
  <2>. DEFINE Typed ==
         /\ assigned' \in SUBSET Handles /\ waiters' \in Seq(Handles)
         /\ rxClosed' \in BOOLEAN /\ buf' \in Seq(Event)
         /\ inp' \in {"Connected", "Disconnected", "Ended", "Closed"}
         /\ ending' \in {"open", "complete", "short", "cut", "cutshort", "aborted"}
  <2>1. Typed
    <3>1. ASSUME NEW count, NEW how \in {"complete", "cut"}, Finish(count, how) PROVE Typed
      BY <1>0, <3>1, CloseTransportType DEF Finish, TypeOK
    <3>2. CASE KeepOpen
      BY <1>0, <3>2 DEF KeepOpen, TypeOK
    <3>3. CASE TakeEos /\ Unconstrained
      BY <1>0, <3>3 DEF TakeEos, TypeOK
    <3>4. \/ KeepOpen \/ (TakeEos /\ Unconstrained)
          \/ \E count \in {Counted, received}, how \in {"complete", "cut"} : Finish(count, how)
      BY <1>3, Zenon DEF Process, TakeMessage, TakeConnect, TakeDisconnect, TakeEos
    <3>. HIDE DEF Typed
    <3>. QED  BY <3>1, <3>2, <3>3, <3>4
  <2>2. received' \in Nat
    BY <1>0, <1>3 DEF Process, TakeMessage, TakeConnect, TakeDisconnect, TakeEos, Counted, TypeOK
  <2>3. delivered' \in Seq(Payload)
    <3>1. CASE TakeMessage
      <4>1. PayloadOf(got) \in Payload
        BY <1>0, <3>1 DEF TypeOK, TakeMessage, PayloadOf, Payload, Event, Idle, Eos
      <4>. QED  BY <1>0, <3>1, <4>1 DEF TakeMessage, TypeOK
    <3>. QED  BY <1>0, <1>3, <3>1 DEF Process, TakeConnect, TakeDisconnect, TakeEos, TypeOK
  <2>. QED
    BY <1>0, <1>3, <2>1, <2>2, <2>3 DEF TypeInv, TypeOK, PermitsForSends, Process, Waiting
<1>4. CASE Disconnect
  BY <1>0, <1>4, CloseTransportType DEF TypeInv, TypeOK, PermitsForSends, Disconnect, Waiting
<1>5. CASE CloseInput
  BY <1>0, <1>5, CloseTransportType DEF TypeInv, TypeOK, PermitsForSends, CloseInput, Waiting
<1>. QED  BY <1>1, <1>2, <1>3, <1>4, <1>5 DEF Receive

LEMMA TypeStep == TypeInv /\ [Next]_vars => TypeInv'
<1>1. ASSUME TypeInv, UNCHANGED vars PROVE TypeInv'
  BY <1>1 DEF TypeInv, TypeOK, PermitsForSends, Waiting, vars, outVars, permVars, inVars
<1>. QED  BY <1>1, TypeSend, TypeReceive DEF Next

LEMMA TypeInvariant == Spec => []TypeInv
BY TypeInit, TypeStep, PTL DEF Spec

\* Type correctness: every variable keeps the type Connection gives it.
THEOREM TypeCorrect == Spec => []TypeOK
<1>1. TypeInv => TypeOK
  BY DEF TypeInv
<1>. QED  BY <1>1, TypeInvariant, PTL

-----------------------------------------------------------------------------
(* The quota.  With a maximum every send is guarded, so a payload is       *)
(* counted by the step that commits it and by no other.                    *)

LEMMA CommittedFinite == IsFiniteSet(Committed)
<1>1. Committed \in SUBSET Handles
  BY DEF Committed
<1>. QED  BY <1>1, ConnectionAssumption, FS_Subset

LEMMA QuotaInit == Init => QuotaExact
<1>. SUFFICES ASSUME Init, Max # None PROVE QuotaExact
  BY DEF QuotaExact
<1>1. Committed = {}
  BY DEF Init, Committed
<1>. QED  BY <1>1, FS_EmptySet, ConnectionAssumption DEF Init, QuotaExact

LEMMA QuotaCommit ==
  ASSUME TypeInv, QuotaExact, Max # None, NEW h \in Handles, Commit(h)
  PROVE  QuotaExact'
<1>. sent \in Nat /\ accepted \in Seq(Payload) /\ Max \in Nat
  BY ConnectionAssumption DEF TypeInv, TypeOK
<1>. Cardinality(Committed) \in Nat
  BY CommittedFinite, FS_CardinalityType
<1>1. CASE Exhausted
  <2>1. Committed' = Committed
    BY <1>1 DEF TypeInv, TypeOK, Commit, Committed, Return, Goto
  <2>. QED  BY <1>1, <2>1 DEF Commit, QuotaExact
<1>2. CASE ~Exhausted /\ op[h] = "message"
  <2>1. Committed' = Committed \cup {h} /\ h \notin Committed
    BY <1>2 DEF TypeInv, TypeOK, Commit, Committed, Goto
  <2>2. Cardinality(Committed') = Cardinality(Committed) + 1
    BY <2>1, CommittedFinite, FS_AddElement
  <2>. QED  BY <1>2, <2>2 DEF Commit, QuotaExact, Exhausted
<1>3. CASE ~Exhausted /\ op[h] # "message"
  <2>1. Committed' = Committed
    BY <1>3 DEF TypeInv, TypeOK, Commit, Committed, Goto
  <2>. QED  BY <1>3, <2>1 DEF Commit, QuotaExact
<1>. QED  BY <1>1, <1>2, <1>3

LEMMA QuotaEnqueue ==
  ASSUME TypeInv, QuotaExact, Max # None, NEW h \in Handles, Enqueue(h)
  PROVE  QuotaExact'
<1>. sent \in Nat /\ accepted \in Seq(Payload) /\ Max \in Nat
  BY ConnectionAssumption DEF TypeInv, TypeOK
<1>. Cardinality(Committed) \in Nat
  BY CommittedFinite, FS_CardinalityType
<1>1. CASE op[h] = "message"
  <2>1. Committed' = Committed \ {h} /\ h \in Committed
    BY <1>1 DEF TypeInv, TypeOK, Enqueue, Committed, Goto, Return
  <2>2. Cardinality(Committed') = Cardinality(Committed) - 1
    BY <2>1, CommittedFinite, FS_RemoveElement
  <2>3. accepted' = Append(accepted, PayloadOf(EventOf(h))) /\ sent' = sent
    BY <1>1 DEF Enqueue
  <2>4. PayloadOf(EventOf(h)) \in Payload
    BY DEF TypeInv, TypeOK, PayloadOf, EventOf, Payload
  <2>5. Len(accepted') = Len(accepted) + 1
    BY <2>3, <2>4, AppendProperties
  <2>. QED  BY <2>2, <2>3, <2>5 DEF QuotaExact
<1>2. CASE op[h] # "message"
  <2>1. Committed' = Committed
    BY <1>2 DEF TypeInv, TypeOK, Enqueue, Committed, Goto, Return
  <2>. QED  BY <1>2, <2>1 DEF Enqueue, QuotaExact
<1>. QED  BY <1>1, <1>2

\* Every other step leaves the quota, the accepted payloads and the set of
\* committed sends alone.
LEMMA QuotaOther ==
  ASSUME TypeInv, Max # None, NEW h \in Handles,
         \/ \E k \in Ops : Begin(h, k)
         \/ Enable(h) \/ Check(h) \/ Acquire(h) \/ Wake(h) \/ Notify(h) \/ Cancel(h) \/ Close(h)
         \/ \E g \in Handles : Clone(h, g)
  PROVE  UNCHANGED <<sent, accepted, Committed>>
<1>. USE DEF TypeInv, TypeOK, Committed, Goto, Return
<1>1. ASSUME NEW k \in Ops, Begin(h, k) PROVE UNCHANGED <<sent, accepted, Committed>>
  BY <1>1 DEF Begin
<1>2. CASE Enable(h)
  BY <1>2 DEF Enable
<1>3. CASE Check(h)
  BY <1>3 DEF Check
<1>4. CASE Acquire(h)
  BY <1>4 DEF Acquire, Refused, Granted, Postponed, Guarded
<1>5. CASE Wake(h)
  BY <1>5 DEF Wake
<1>6. CASE Notify(h)
  BY <1>6 DEF Notify
<1>7. CASE Cancel(h)
  BY <1>7 DEF Cancel
<1>8. CASE Close(h)
  BY <1>8 DEF Close
<1>9. ASSUME NEW g \in Handles, Clone(h, g) PROVE UNCHANGED <<sent, accepted, Committed>>
  BY <1>9 DEF Clone
<1>. QED  BY <1>1, <1>2, <1>3, <1>4, <1>5, <1>6, <1>7, <1>8, <1>9

LEMMA QuotaStep == TypeInv /\ QuotaExact /\ [Next]_vars => QuotaExact'
<1>. SUFFICES ASSUME TypeInv, QuotaExact, [Next]_vars, Max # None PROVE QuotaExact'
  BY DEF QuotaExact
<1>1. CASE UNCHANGED <<sent, accepted, Committed>>
  BY <1>1 DEF QuotaExact
<1>2. CASE Receive \/ Disconnect \/ CloseInput \/ UNCHANGED vars
  BY <1>1, <1>2 DEF Receive, Pop, Drained, Process, Disconnect, CloseInput, Committed,
                    vars, outVars, permVars
<1>3. ASSUME NEW h \in Handles, HandleStep(h) PROVE QuotaExact'
  BY <1>1, <1>3, QuotaCommit, QuotaEnqueue, QuotaOther DEF HandleStep, Advance
<1>. QED  BY <1>2, <1>3 DEF Next

\* The quota counts exactly the accepted payloads and those about to be
\* enqueued, and never passes the maximum, however clones race and whichever
\* sends are cancelled or fail.
THEOREM QuotaIsExact == Spec => []QuotaExact
BY TypeInvariant, QuotaInit, QuotaStep, PTL DEF Spec

-----------------------------------------------------------------------------
(* closed().  What it waits for, an exhausted quota or a closed receiver,   *)
(* is never undone.                                                        *)

Over == Exhausted \/ rxClosed

GoneMeansOver == \A h \in Handles : last[h] = "gone" => Over

LEMMA OverStays == TypeInv /\ Over /\ [Next]_vars => Over'
<1>. SUFFICES ASSUME TypeInv, Over, [Next]_vars PROVE Over'
  OBVIOUS
<1>1. CASE rxClosed' /\ UNCHANGED sent
  BY <1>1 DEF Over
<1>2. CASE UNCHANGED <<sent, rxClosed>>
  BY <1>2 DEF Over, Exhausted
<1>3. CASE CloseTransport /\ UNCHANGED sent
  BY <1>1, <1>3 DEF CloseTransport
<1>4. ASSUME NEW h \in Handles, Commit(h) PROVE Over'
  <2>1. UNCHANGED rxClosed
    BY <1>4 DEF Commit, inVars
  <2>2. CASE rxClosed
    BY <2>1, <2>2 DEF Over
  <2>3. CASE Exhausted
    BY <1>4, <2>1, <2>3, <1>2 DEF Commit
  <2>. QED  BY <2>2, <2>3 DEF Over
<1>5. ASSUME NEW h \in Handles, HandleStep(h), ~Commit(h) PROVE Over'
  BY <1>2, <1>5 DEF HandleStep, Advance, Begin, Enable, Check, Acquire, Wake, Enqueue, Notify,
                    Cancel, Close, Clone, inVars
<1>6. CASE Receive \/ Disconnect \/ CloseInput
  BY <1>2, <1>3, <1>6 DEF Receive, Pop, Drained, Process, TakeMessage, TakeConnect, TakeDisconnect,
                          TakeEos, Finish, KeepOpen, Disconnect, CloseInput
<1>7. CASE UNCHANGED vars
  BY <1>2, <1>7 DEF vars, inVars
<1>. QED  BY <1>4, <1>5, <1>6, <1>7 DEF Next

LEMMA GoneInit == Init => GoneMeansOver
BY DEF Init, GoneMeansOver

LEMMA GoneStep == TypeInv /\ GoneMeansOver /\ [Next]_vars => GoneMeansOver'
<1>. SUFFICES ASSUME TypeInv, GoneMeansOver, [Next]_vars,
                     NEW g \in Handles, last'[g] = "gone"
              PROVE  Over'
  BY DEF GoneMeansOver
<1>1. CASE last[g] = "gone"
  BY <1>1, OverStays DEF GoneMeansOver
<1>2. CASE last[g] # "gone"
  <2>1. PICK h \in Handles : HandleStep(h)
    BY <1>2 DEF Next, Receive, Pop, Drained, Process, Disconnect, CloseInput, vars, outVars
  <2>2. Over
    BY <1>2, <2>1 DEF HandleStep, Advance, Begin, Enable, Check, Acquire, Refused, Granted, Postponed,
         Wake, Commit, Enqueue, Notify, Cancel, Close, Clone, Return, ExhaustedResult, ClosedResult,
         TypeInv, TypeOK, Over
  <2>. QED  BY <2>2, OverStays
<1>. QED  BY <1>1, <1>2

\* closed() resolves only for a handle that can never send again.
THEOREM ClosedIsTruthful == Spec => []WatchTruthful
<1>1. GoneMeansOver => WatchTruthful
  BY DEF GoneMeansOver, WatchTruthful, OutputState, Over
<1>. QED  BY <1>1, TypeInvariant, GoneInit, GoneStep, PTL DEF Spec

-----------------------------------------------------------------------------
(* Permits.  PermitsInUse alone is not inductive: the count of permits is   *)
(* kept only because a send is in one place of the queue at a time.  The    *)
(* sends in line are parked, or on the way to finding the quota exhausted.  *)

InLine == {waiters[i] : i \in DOMAIN waiters}

Queueing == {"enabling", "checking", "acquiring", "parked"}

WaitersDistinct == \A i, j \in DOMAIN waiters : waiters[i] = waiters[j] => i = j

InLineParked ==
  \A h \in InLine : pc[h] = "parked" \/ (Exhausted /\ pc[h] \in {"enabling", "checking"})

AssignedQueueing == \A h \in assigned : pc[h] \in Queueing

NotifiedWhenExhausted == \A h \in Handles : notice[h] = "notified" => Exhausted

QueueInv ==
  /\ WaitersDistinct
  /\ InLine \cap assigned = {}
  /\ InLineParked
  /\ AssignedQueueing
  /\ NotifiedWhenExhausted
  /\ rxClosed => waiters = <<>>
  /\ Retained \/ rxClosed

PermitInv == QueueInv /\ PermitsInUse

LEMMA RemoveAtElements ==
  ASSUME NEW S, NEW s \in Seq(S), NEW i \in DOMAIN s
  PROVE  /\ DOMAIN Seqs!RemoveAt(s, i) = 1 .. Len(s) - 1
         /\ \A j \in 1 .. Len(s) - 1 :
              Seqs!RemoveAt(s, i)[j] = IF j < i THEN s[j] ELSE s[j + 1]
<1>. DEFINE front == SubSeq(s, 1, i - 1)
            back  == SubSeq(s, i + 1, Len(s))
<1>1. i \in 1 .. Len(s) /\ Len(s) \in Nat
  OBVIOUS
<1>2. /\ front \in Seq(S) /\ Len(front) = i - 1
      /\ \A j \in 1 .. i - 1 : front[j] = s[j]
  <2>1. \A j \in 1 .. i - 1 : s[j] \in S
    BY <1>1
  <2>2. i - 1 \in Int /\ 1 \in Int
    BY <1>1
  <2>. QED  BY <1>1, <2>1, <2>2, SubSeqProperties
<1>3. /\ back \in Seq(S) /\ Len(back) = Len(s) - i
      /\ \A j \in 1 .. Len(s) - i : back[j] = s[i + j]
  <2>1. \A j \in i + 1 .. Len(s) : s[j] \in S
    BY <1>1
  <2>2. i + 1 \in Int /\ Len(s) \in Int
    BY <1>1
  <2>3. /\ back \in Seq(S)
        /\ Len(back) = IF i + 1 <= Len(s) THEN Len(s) - (i + 1) + 1 ELSE 0
        /\ \A j \in 1 .. Len(s) - (i + 1) + 1 : back[j] = s[i + 1 + j - 1]
    BY <2>1, <2>2, SubSeqProperties
  <2>. HIDE DEF back
  <2>. QED  BY <1>1, <2>3
<1>4. Seqs!RemoveAt(s, i) = front \o back
  BY DEF Seqs!RemoveAt
<1>. HIDE DEF front, back
<1>5. /\ front \o back \in Seq(S)
      /\ Len(front \o back) = Len(s) - 1
      /\ \A j \in 1 .. Len(s) - 1 :
           (front \o back)[j] = IF j <= i - 1 THEN front[j] ELSE back[j - (i - 1)]
  <2>1. front \in Seq(S) /\ back \in Seq(S)
    BY <1>2, <1>3
  <2>2. /\ front \o back \in Seq(S)
        /\ Len(front \o back) = Len(front) + Len(back)
        /\ \A j \in 1 .. Len(front) + Len(back) :
             (front \o back)[j] = IF j <= Len(front) THEN front[j] ELSE back[j - Len(front)]
    BY <2>1, ConcatProperties, Zenon
  <2>3. Len(front) = i - 1 /\ Len(front) + Len(back) = Len(s) - 1
    BY <1>1, <1>2, <1>3
  <2>. QED  BY <2>2, <2>3
<1>6. ASSUME NEW j \in 1 .. Len(s) - 1
      PROVE  (front \o back)[j] = IF j < i THEN s[j] ELSE s[j + 1]
  <2>1. CASE j < i
    BY <1>1, <1>2, <1>5, <2>1
  <2>2. CASE ~(j < i)
    <3>1. j - (i - 1) \in 1 .. Len(s) - i /\ i + (j - (i - 1)) = j + 1
      BY <1>1, <2>2
    <3>2. back[j - (i - 1)] = s[i + (j - (i - 1))]
      BY <1>3, <3>1
    <3>3. (front \o back)[j] = back[j - (i - 1)]
      <4>1. ~(j <= i - 1)
        BY <1>1, <2>2
      <4>. QED  BY <1>5, <4>1
    <3>. QED  BY <2>2, <3>1, <3>2, <3>3
  <2>. QED  BY <2>1, <2>2
<1>7. DOMAIN (front \o back) = 1 .. Len(s) - 1
  BY <1>5
<1>. QED  BY <1>4, <1>6, <1>7

\* What releasing a permit does to the line: its head may leave it.
LEMMA PassPermitShape ==
  ASSUME TypeInv, QueueInv, NEW holders \in SUBSET assigned, PassPermit(holders, waiters)
  PROVE  /\ WaitersDistinct'
         /\ InLine' \subseteq InLine /\ InLine' \cap assigned' = {}
         /\ assigned' \subseteq holders \cup InLine
         /\ waiters = <<>> => waiters' = <<>>
<1>. waiters \in Seq(Handles)
  BY DEF TypeInv, TypeOK
<1>1. CASE waiters = <<>>
  BY <1>1 DEF PassPermit, QueueInv, WaitersDistinct, InLine
<1>2. CASE waiters # <<>>
  <2>1. assigned' = holders \cup {Head(waiters)} /\ waiters' = Tail(waiters)
    BY <1>2 DEF PassPermit
  <2>2. /\ Head(waiters) = waiters[1] /\ 1 \in DOMAIN waiters
        /\ DOMAIN Tail(waiters) = 1 .. Len(waiters) - 1
        /\ \A i \in 1 .. Len(waiters) - 1 : Tail(waiters)[i] = waiters[i + 1]
    BY <1>2, HeadTailProperties
  <2>3. \A i \in DOMAIN waiters' : i + 1 \in DOMAIN waiters /\ waiters'[i] = waiters[i + 1]
    BY <2>1, <2>2
  <2>4. \A i \in DOMAIN waiters' : i \in Nat \ {0}
    BY <2>1, <2>2
  <2>5. WaitersDistinct'
    BY <2>3, <2>4 DEF QueueInv, WaitersDistinct
  <2>6. InLine' \subseteq InLine /\ Head(waiters) \in InLine
    BY <2>2, <2>3 DEF InLine
  <2>7. Head(waiters) \notin InLine'
    BY <2>2, <2>3, <2>4 DEF QueueInv, WaitersDistinct, InLine
  <2>8. InLine' \cap assigned' = {}
    BY <2>1, <2>6, <2>7 DEF QueueInv
  <2>. QED  BY <1>2, <2>1, <2>5, <2>6, <2>8
<1>. QED  BY <1>1, <1>2

\* A send that leaves the queue is neither in line nor assigned afterwards.
LEMMA LeaveQueueShape ==
  ASSUME TypeInv, QueueInv, NEW h \in Handles, LeaveQueue(h)
  PROVE  /\ WaitersDistinct'
         /\ InLine' \subseteq InLine \ {h} /\ InLine' \cap assigned' = {}
         /\ assigned' \subseteq (assigned \cup InLine) \ {h}
         /\ waiters = <<>> => waiters' = <<>>
<1>. DEFINE Shape ==
       /\ WaitersDistinct'
       /\ InLine' \subseteq InLine \ {h} /\ InLine' \cap assigned' = {}
       /\ assigned' \subseteq (assigned \cup InLine) \ {h}
       /\ waiters = <<>> => waiters' = <<>>
<1>. waiters \in Seq(Handles)
  BY DEF TypeInv, TypeOK
<1>1. ASSUME h \in assigned, PassPermit(assigned \ {h}, waiters) PROVE Shape
  <2>1. h \notin InLine
    BY <1>1 DEF QueueInv
  <2>. QED  BY <1>1, <2>1, PassPermitShape
<1>2. ASSUME h \notin assigned, NEW i \in DOMAIN waiters, waiters[i] = h,
             waiters' = Seqs!RemoveAt(waiters, i), UNCHANGED assigned
      PROVE  Shape
  <2>1. /\ DOMAIN waiters' = 1 .. Len(waiters) - 1
        /\ \A j \in 1 .. Len(waiters) - 1 :
             waiters'[j] = IF j < i THEN waiters[j] ELSE waiters[j + 1]
    BY <1>2, RemoveAtElements
  <2>2. i \in 1 .. Len(waiters) /\ DOMAIN waiters = 1 .. Len(waiters) /\ Len(waiters) \in Nat
    OBVIOUS
  <2>3. WaitersDistinct'
    BY <2>1, <2>2 DEF QueueInv, WaitersDistinct
  <2>4. ASSUME NEW j \in DOMAIN waiters' PROVE waiters'[j] \in InLine \ {h}
    <3>1. CASE j < i
      <4>1. j \in DOMAIN waiters /\ j # i /\ waiters'[j] = waiters[j]
        BY <2>1, <2>2, <3>1
      <4>. QED  BY <1>2, <4>1 DEF QueueInv, WaitersDistinct, InLine
    <3>2. CASE ~(j < i)
      <4>1. j + 1 \in DOMAIN waiters /\ j + 1 # i /\ waiters'[j] = waiters[j + 1]
        BY <2>1, <2>2, <3>2
      <4>. QED  BY <1>2, <4>1 DEF QueueInv, WaitersDistinct, InLine
    <3>. QED  BY <3>1, <3>2
  <2>5. InLine' \subseteq InLine \ {h}
    BY <2>4 DEF InLine
  <2>. QED  BY <1>2, <2>2, <2>3, <2>5 DEF QueueInv
<1>3. ASSUME h \notin assigned, ~Seqs!Contains(waiters, h), UNCHANGED permVars PROVE Shape
  <2>1. h \notin InLine
    BY <1>3 DEF Seqs!Contains, InLine
  <2>. QED  BY <1>3, <2>1 DEF permVars, QueueInv, WaitersDistinct, InLine
<1>. HIDE DEF Shape
<1>4. Shape
  BY <1>1, <1>2, <1>3, Zenon DEF LeaveQueue
<1>. QED  BY <1>4 DEF Shape

LEMMA InLineHandles ==
  ASSUME TypeInv
  PROVE  InLine \subseteq Handles /\ (waiters = <<>> => InLine = {})
BY DEF TypeInv, TypeOK, InLine

LEMMA QueueInit == Init => QueueInv
<1>. SUFFICES ASSUME Init PROVE QueueInv
  OBVIOUS
<1>1. InLine = {} /\ WaitersDistinct
  BY DEF Init, InLine, WaitersDistinct
<1>2. NotifiedWhenExhausted
  BY DEF Init, NotifiedWhenExhausted
<1>3. Retained \/ rxClosed
  BY DEF Init, Retained
<1>. QED  BY <1>1, <1>2, <1>3 DEF Init, QueueInv, InLineParked, AssignedQueueing

\* Exhaustion is never undone.
LEMMA ExhaustedStays ==
  ASSUME TypeInv, [Next]_vars, Exhausted
  PROVE  Exhausted'
<1>1. CASE UNCHANGED sent
  BY <1>1 DEF Exhausted
<1>2. ASSUME NEW h \in Handles, HandleStep(h) PROVE UNCHANGED sent
  BY <1>2 DEF HandleStep, Advance, Begin, Enable, Check, Acquire, Wake, Commit, Enqueue, Notify,
              Cancel, Close, Clone
<1>3. CASE Receive \/ Disconnect \/ CloseInput \/ UNCHANGED vars
  BY <1>1, <1>3 DEF Receive, Pop, Drained, Process, Disconnect, CloseInput, vars
<1>. QED  BY <1>1, <1>2, <1>3 DEF Next

\* A step of h that leaves the line as it is, or takes h out of it.
LEMMA QueueHandle ==
  ASSUME TypeInv, QueueInv, TypeInv', NEW h \in Handles, HandleStep(h)
  PROVE  QueueInv'
<1>. USE DEF Goto, Return, outVars, permVars, inVars
<1>0. /\ TypeOK /\ InLine \subseteq Handles
      /\ Exhausted => Exhausted'
  BY InLineHandles, ExhaustedStays DEF TypeInv, Next
<1>1. UNCHANGED <<rxClosed, inp>>
  BY DEF HandleStep, Advance, Begin, Enable, Check, Acquire, Wake, Commit, Enqueue, Notify,
         Cancel, Close, Clone
<1>2. (Retained \/ rxClosed)'
  BY <1>1 DEF QueueInv, Retained
\* The line and the assigned permits stay; h is, or goes, where it may be.
<1>3. ASSUME UNCHANGED permVars, NEW g \in Handles, NEW to,
             pc' = [pc EXCEPT ![g] = to],
             g \in InLine => to = "parked" \/ (Exhausted /\ to \in {"enabling", "checking"}),
             g \in assigned => to \in Queueing,
             NotifiedWhenExhausted'
      PROVE  QueueInv'
  <2>1. InLine' = InLine /\ WaitersDistinct'
    BY <1>3 DEF InLine, QueueInv, WaitersDistinct
  <2>2. InLineParked'
    BY <1>0, <1>3, <2>1 DEF QueueInv, InLineParked, TypeOK
  <2>3. AssignedQueueing'
    BY <1>0, <1>3 DEF QueueInv, AssignedQueueing, TypeOK
  <2>. QED  BY <1>1, <1>2, <1>3, <2>1, <2>2, <2>3 DEF QueueInv
\* h leaves the queue for good.
<1>4. ASSUME LeaveQueue(h), Goto(h, "idle"), NotifiedWhenExhausted' PROVE QueueInv'
  <2>1. /\ WaitersDistinct'
        /\ InLine' \subseteq InLine \ {h} /\ InLine' \cap assigned' = {}
        /\ assigned' \subseteq (assigned \cup InLine) \ {h}
        /\ waiters = <<>> => waiters' = <<>>
    BY <1>4, LeaveQueueShape
  <2>2. InLineParked'
    BY <1>0, <1>4, <2>1 DEF QueueInv, InLineParked, TypeOK
  <2>3. AssignedQueueing'
    BY <1>0, <1>4, <2>1 DEF QueueInv, AssignedQueueing, InLineParked, Queueing, TypeOK
  <2>. QED  BY <1>1, <1>2, <1>4, <2>1, <2>2, <2>3 DEF QueueInv
<1>5. NotifiedWhenExhausted'
  BY <1>0 DEF HandleStep, Advance, Begin, Enable, Check, Acquire, Refused, Granted, Postponed, Wake,
         Commit, Enqueue, Notify, Cancel, Close, Clone, QueueInv, NotifiedWhenExhausted, TypeOK
<1>6. ASSUME NEW k \in Ops, Begin(h, k) PROVE QueueInv'
  <2>1. h \notin InLine /\ h \notin assigned
    BY <1>6 DEF Begin, QueueInv, InLineParked, AssignedQueueing, Queueing
  <2>. QED  BY <1>3, <1>5, <1>6, <2>1 DEF Begin
<1>7. CASE Enable(h)
  BY <1>3, <1>5, <1>7 DEF Enable, QueueInv, InLineParked, Queueing
<1>8. CASE Check(h)
  <2>1. CASE Exhausted
    BY <1>4, <1>5, <1>8, <2>1 DEF Check
  <2>2. CASE ~Exhausted
    <3>1. h \notin InLine
      BY <1>8, <2>2 DEF Check, QueueInv, InLineParked
    <3>. QED  BY <1>3, <1>5, <1>8, <2>2, <3>1 DEF Check, Queueing
  <2>. QED  BY <2>1, <2>2
<1>9. CASE Acquire(h)
  <2>1. h \notin InLine
    BY <1>9 DEF Acquire, QueueInv, InLineParked
  <2>2. CASE Refused(h)
    BY <1>4, <1>5, <2>2 DEF Refused
  <2>3. CASE Granted(h)
    <3>1. InLine' = InLine /\ WaitersDistinct'
      BY <2>3 DEF Granted, InLine, QueueInv, WaitersDistinct
    <3>2. InLineParked'
      BY <1>0, <2>1, <2>3, <3>1 DEF Granted, QueueInv, InLineParked, TypeOK
    <3>3. AssignedQueueing'
      BY <1>0, <2>3 DEF Granted, QueueInv, AssignedQueueing, TypeOK
    <3>. QED  BY <1>1, <1>2, <1>5, <2>3, <3>1, <3>2, <3>3 DEF Granted, QueueInv
  <2>4. CASE Postponed(h) /\ op[h] = "watch"
    BY <1>3, <1>5, <2>1, <2>4 DEF Postponed, Queueing
  <2>5. CASE Postponed(h) /\ op[h] # "watch"
    <3>1. /\ waiters' = Append(waiters, h) /\ waiters \in Seq(Handles)
          /\ Len(waiters') = Len(waiters) + 1 /\ waiters'[Len(waiters) + 1] = h
          /\ \A i \in 1 .. Len(waiters) : waiters'[i] = waiters[i]
          /\ DOMAIN waiters' = 1 .. Len(waiters) + 1
      BY <1>0, <2>5, AppendProperties DEF Postponed, TypeOK
    <3>2. InLine' = InLine \cup {h}
      BY <3>1 DEF InLine
    <3>3. WaitersDistinct'
      <4>1. \A i \in 1 .. Len(waiters) : waiters[i] # h
        BY <2>1 DEF InLine
      <4>. QED  BY <3>1, <4>1 DEF QueueInv, WaitersDistinct
    <3>4. InLineParked'
      BY <1>0, <2>5, <3>2 DEF Postponed, QueueInv, InLineParked, TypeOK
    <3>5. AssignedQueueing'
      BY <1>0, <2>5 DEF Postponed, QueueInv, AssignedQueueing, Queueing, TypeOK
    <3>6. InLine' \cap assigned' = {}
      BY <2>5, <3>2 DEF Postponed, QueueInv
    <3>. QED  BY <1>1, <1>2, <1>5, <2>5, <3>3, <3>4, <3>5, <3>6 DEF Postponed, QueueInv
  <2>. QED  BY <1>9, <2>2, <2>3, <2>4, <2>5 DEF Acquire
<1>10. CASE Wake(h)
  <2>1. CASE notice[h] = "notified" /\ Goto(h, "enabling")
    BY <1>3, <1>5, <1>10, <2>1 DEF Wake, QueueInv, NotifiedWhenExhausted, Queueing
  <2>2. CASE (h \in assigned \/ rxClosed) /\ Goto(h, "acquiring")
    <3>1. h \notin InLine
      BY <2>2, InLineHandles DEF QueueInv
    <3>. QED  BY <1>3, <1>5, <1>10, <2>2, <3>1 DEF Wake, Queueing
  <2>. QED  BY <1>10, <2>1, <2>2 DEF Wake
<1>11. CASE Cancel(h)
  BY <1>4, <1>5, <1>11 DEF Cancel
<1>12. CASE Commit(h)
  <2>1. h \notin InLine /\ h \notin assigned
    BY <1>12 DEF Commit, QueueInv, InLineParked, AssignedQueueing, Queueing
  <2>2. CASE Exhausted
    <3>1. /\ WaitersDistinct'
          /\ InLine' \subseteq InLine /\ InLine' \cap assigned' = {}
          /\ assigned' \subseteq assigned \cup InLine
          /\ waiters = <<>> => waiters' = <<>>
      BY <1>12, <2>2, PassPermitShape DEF Commit
    <3>2. InLineParked' /\ AssignedQueueing'
      BY <1>0, <1>12, <2>1, <3>1
         DEF Commit, QueueInv, InLineParked, AssignedQueueing, Queueing, TypeOK
    <3>. QED  BY <1>1, <1>2, <1>5, <3>1, <3>2 DEF QueueInv
  <2>3. CASE ~Exhausted
    BY <1>3, <1>5, <1>12, <2>1, <2>3 DEF Commit
  <2>. QED  BY <2>2, <2>3
<1>13. CASE Enqueue(h) \/ Notify(h) \/ Close(h)
  <2>1. h \notin InLine /\ h \notin assigned
    BY <1>13 DEF Enqueue, Notify, Close, QueueInv, InLineParked, AssignedQueueing, Queueing
  <2>. QED  BY <1>3, <1>5, <1>13, <2>1 DEF Enqueue, Notify, Close
<1>14. ASSUME NEW g \in Handles, Clone(h, g) PROVE QueueInv'
  <2>1. g \notin InLine /\ g \notin assigned
    BY <1>14 DEF Clone, QueueInv, InLineParked, AssignedQueueing, Queueing
  <2>. QED  BY <1>3, <1>5, <1>14, <2>1 DEF Clone
<1>. QED
  BY <1>6, <1>7, <1>8, <1>9, <1>10, <1>11, <1>12, <1>13, <1>14 DEF HandleStep, Advance

LEMMA QueueReceive ==
  ASSUME TypeInv, QueueInv, Receive \/ Disconnect \/ CloseInput \/ UNCHANGED vars
  PROVE  QueueInv'
<1>. USE DEF outVars, permVars, inVars
<1>0. UNCHANGED <<pc, sent, notice>>
  BY DEF Receive, Pop, Drained, Process, Disconnect, CloseInput, vars
<1>1. NotifiedWhenExhausted' /\ (Exhausted => Exhausted')
  BY <1>0 DEF QueueInv, NotifiedWhenExhausted, Exhausted
<1>2. CASE Pop
  <2>1. /\ WaitersDistinct'
        /\ InLine' \subseteq InLine /\ InLine' \cap assigned' = {}
        /\ assigned' \subseteq assigned \cup InLine
        /\ waiters = <<>> => waiters' = <<>>
    BY <1>2, PassPermitShape DEF Pop
  <2>2. InLineParked' /\ AssignedQueueing'
    BY <1>0, <1>1, <2>1 DEF QueueInv, InLineParked, AssignedQueueing, Queueing
  <2>. QED  BY <1>1, <1>2, <2>1, <2>2 DEF Pop, QueueInv, Retained
<1>3. CASE CloseTransport
  <2>1. InLine' = {} /\ WaitersDistinct'
    BY <1>3 DEF CloseTransport, InLine, WaitersDistinct
  <2>. QED  BY <1>0, <1>1, <1>3, <2>1 DEF CloseTransport, QueueInv, InLineParked, AssignedQueueing
<1>4. CASE UNCHANGED <<permVars, rxClosed, inp>>
  <2>1. InLine' = InLine /\ (WaitersDistinct <=> WaitersDistinct')
    BY <1>4 DEF InLine, WaitersDistinct
  <2>. QED  BY <1>0, <1>1, <1>4, <2>1 DEF QueueInv, InLineParked, AssignedQueueing, Retained
<1>5. CASE Process
  BY <1>3, <1>4, <1>5 DEF Process, TakeMessage, TakeConnect, TakeDisconnect, TakeEos, Finish, KeepOpen
<1>. QED
  BY <1>2, <1>3, <1>4, <1>5 DEF Receive, Drained, Disconnect, CloseInput, vars

LEMMA QueueStep == TypeInv /\ QueueInv /\ [Next]_vars => QueueInv'
BY QueueHandle, QueueReceive, TypeStep DEF Next

-----------------------------------------------------------------------------
(* Counting the permits. *)

LEMMA HoldingFinite ==
  ASSUME TypeInv
  PROVE  /\ Holding \subseteq Handles /\ IsFiniteSet(Holding)
         /\ Cardinality(Holding) \in Nat /\ Len(buf) \in Nat /\ Cap \in Nat
<1>1. Holding \in SUBSET Handles
  BY DEF TypeInv, TypeOK, Holding
<1>2. IsFiniteSet(Holding)
  BY <1>1, ConnectionAssumption, FS_Subset
<1>3. Len(buf) \in Nat
  BY DEF TypeInv, TypeOK
<1>. QED  BY <1>1, <1>2, <1>3, FS_CardinalityType, ConnectionAssumption

LEMMA HoldingFiniteNext ==
  ASSUME TypeInv'
  PROVE  Cardinality(Holding') \in Nat /\ Len(buf') \in Nat
<1>1. Holding' \in SUBSET Handles
  BY DEF TypeInv, TypeOK, Holding
<1>2. IsFiniteSet(Holding')
  BY <1>1, ConnectionAssumption, FS_Subset
<1>3. Len(buf') \in Nat
  BY DEF TypeInv, TypeOK
<1>. QED  BY <1>2, <1>3, FS_CardinalityType

\* A released permit is taken by the head of the line, or the line is empty.
LEMMA PermitPassed ==
  ASSUME TypeInv, PermitInv,
         NEW holders \in SUBSET assigned, PassPermit(holders, waiters),
         NEW kept \in SUBSET Holding, holders \subseteq kept, NEW n \in Nat,
         n + Cardinality(kept) = Len(buf) + Cardinality(Holding) - 1
  PROVE  /\ n + Cardinality(kept \cup assigned') <= Cap
         /\ waiters' # <<>> => n + Cardinality(kept \cup assigned') = Cap
<1>0. /\ IsFiniteSet(kept) /\ Cardinality(kept) \in Nat
      /\ Cardinality(Holding) \in Nat /\ Len(buf) \in Nat /\ Cap \in Nat
  BY HoldingFinite, FS_Subset, FS_CardinalityType
<1>1. /\ Len(buf) + Cardinality(Holding) <= Cap
      /\ waiters # <<>> => Len(buf) + Cardinality(Holding) = Cap
  BY <1>0 DEF PermitInv, PermitsInUse, Free
<1>2. CASE waiters = <<>>
  <2>1. kept \cup assigned' = kept /\ waiters' = <<>>
    BY <1>2 DEF PassPermit
  <2>2. Cardinality(kept \cup assigned') = Cardinality(kept)
    BY <2>1, Zenon
  <2>. QED  BY <1>0, <1>1, <2>1, <2>2
<1>3. CASE waiters # <<>>
  <2>1. kept \cup assigned' = kept \cup {Head(waiters)}
    BY <1>3 DEF PassPermit
  <2>2. Head(waiters) \in InLine
    BY <1>3 DEF TypeInv, TypeOK, InLine
  <2>3. Head(waiters) \notin Holding
    BY <2>2 DEF PermitInv, QueueInv, InLineParked, Holding
  <2>4. Cardinality(kept \cup {Head(waiters)}) = Cardinality(kept) + 1
    BY <1>0, <2>3, FS_AddElement
  <2>5. Cardinality(kept \cup assigned') = Cardinality(kept) + 1
    BY <2>1, <2>4, Zenon
  <2>. QED  BY <1>0, <1>1, <1>3, <2>5
<1>. QED  BY <1>2, <1>3

\* A send that leaves the queue hands its permit on, if it had one.
LEMMA PermitLeft ==
  ASSUME TypeInv, PermitInv, NEW h \in Handles, LeaveQueue(h),
         pc[h] \in Queueing, Goto(h, "idle"), UNCHANGED buf
  PROVE  PermitsInUse'
<1>0. DOMAIN pc = Handles /\ assigned \subseteq Handles
  BY DEF TypeInv, TypeOK, Waiting
<1>. DEFINE direct == {g \in Handles : pc[g] \in {"permit", "committed"}}
<1>1. Holding' = direct \cup assigned' /\ Holding = direct \cup assigned /\ h \notin direct
  BY <1>0 DEF Goto, Holding, Queueing
<1>. HIDE DEF direct
<1>2. ASSUME h \in assigned, PassPermit(assigned \ {h}, waiters) PROVE PermitsInUse'
  <2>. DEFINE kept == Holding \ {h}
  <2>1. Cardinality(kept) = Cardinality(Holding) - 1
    BY <1>1, <1>2, HoldingFinite, FS_RemoveElement
  <2>2. kept \cup assigned' = Holding'
    BY <1>1, <1>2, HoldingFinite DEF PassPermit
  <2>3. assigned \ {h} \subseteq kept /\ kept \subseteq Holding
    BY <1>1
  <2>. HIDE DEF kept
  <2>4. /\ Len(buf) + Cardinality(kept \cup assigned') <= Cap
        /\ waiters' # <<>> => Len(buf) + Cardinality(kept \cup assigned') = Cap
    BY <1>2, <2>1, <2>3, HoldingFinite, PermitPassed
  <2>5. Cardinality(Holding') \in Nat
    <3>1. Holding' \subseteq Handles
      BY <1>1, <1>2, <1>0, LeaveQueueShape, InLineHandles DEF PermitInv, direct
    <3>. QED  BY <3>1, ConnectionAssumption, FS_Subset, FS_CardinalityType
  <2>6. Cardinality(kept \cup assigned') = Cardinality(Holding')
    BY <2>2, Zenon
  <2>. HIDE DEF Holding
  <2>. QED  BY <2>4, <2>5, <2>6, HoldingFinite DEF PermitsInUse, Free
<1>3. CASE UNCHANGED assigned
  <2>1. Holding' = Holding /\ (waiters = <<>> => waiters' = <<>>)
    BY <1>1, <1>3, LeaveQueueShape DEF PermitInv
  <2>. QED  BY <2>1 DEF PermitInv, PermitsInUse, Free
<1>. QED  BY <1>2, <1>3, Zenon DEF LeaveQueue, permVars

LEMMA PermitsInit == Init => PermitsInUse
<1>. SUFFICES ASSUME Init PROVE PermitsInUse
  OBVIOUS
<1>1. Holding = {}
  BY DEF Init, Holding
<1>2. Cardinality(Holding) = 0
  BY <1>1, FS_EmptySet, Zenon
<1>. QED  BY <1>2, ConnectionAssumption DEF Init, PermitsInUse, Free

\* A send with its permit releases it, or turns it into a buffered event.
LEMMA PermitSpent ==
  ASSUME TypeInv, TypeInv', PermitInv, NEW h \in Handles, Commit(h) \/ Enqueue(h)
  PROVE  PermitsInUse'
<1>. DEFINE kept == Holding \ {h}
<1>0. /\ DOMAIN pc = Handles /\ h \notin assigned /\ assigned \subseteq Holding
      /\ Cardinality(Holding) \in Nat /\ Cardinality(Holding') \in Nat
      /\ Len(buf) \in Nat /\ Len(buf') \in Nat /\ Cap \in Nat
  <2>1. DOMAIN pc = Handles /\ h \notin assigned /\ assigned \subseteq Holding
    BY DEF TypeInv, TypeOK, Holding, Commit, Enqueue, PermitInv, QueueInv, AssignedQueueing, Queueing
  <2>. HIDE DEF Holding
  <2>. QED  BY <2>1, HoldingFinite, HoldingFiniteNext
<1>1. CASE pc' = [pc EXCEPT ![h] = "committed"] /\ pc[h] = "permit" /\ UNCHANGED <<permVars, buf>>
  <2>1. Holding' = Holding
    BY <1>0, <1>1 DEF Holding, permVars
  <2>2. Cardinality(Holding') = Cardinality(Holding)
    BY <2>1, Zenon
  <2>. HIDE DEF Holding
  <2>. QED  BY <1>0, <1>1, <2>2 DEF PermitInv, PermitsInUse, Free, permVars
<1>2. ASSUME pc[h] \in {"permit", "committed"}
      PROVE  Cardinality(kept) = Cardinality(Holding) - 1
  <2>1. h \in Holding
    BY <1>2 DEF Holding
  <2>. QED  BY <2>1, HoldingFinite, FS_RemoveElement
<1>3. CASE /\ pc[h] = "permit" /\ Goto(h, "idle") /\ UNCHANGED buf
           /\ PassPermit(assigned, waiters)
  <2>1. Holding' = kept \cup assigned'
    <3>1. assigned \subseteq assigned'
      BY <1>3 DEF PassPermit
    <3>. QED  BY <1>0, <1>3, <3>1 DEF Goto, Holding
  <2>2. assigned \subseteq kept /\ kept \subseteq Holding
    BY <1>0
  <2>. HIDE DEF kept
  <2>3. /\ Len(buf) + Cardinality(kept \cup assigned') <= Cap
        /\ waiters' # <<>> => Len(buf) + Cardinality(kept \cup assigned') = Cap
    BY <1>0, <1>2, <1>3, <2>2, PermitPassed
  <2>4. Cardinality(kept \cup assigned') = Cardinality(Holding')
    BY <2>1, Zenon
  <2>. HIDE DEF Holding
  <2>. QED  BY <1>0, <1>3, <2>3, <2>4 DEF PermitsInUse, Free
<1>4. CASE /\ pc[h] = "committed" /\ pc'[h] \notin {"permit", "committed"}
           /\ \A g \in Handles \ {h} : pc'[g] = pc[g]
           /\ UNCHANGED permVars
           /\ Len(buf') = IF Retained THEN Len(buf) + 1 ELSE Len(buf)
  <2>1. Holding' = kept
    BY <1>0, <1>4 DEF Holding, permVars
  <2>2. Cardinality(Holding') = Cardinality(Holding) - 1
    BY <1>2, <1>4, <2>1, Zenon
  <2>3. ~Retained => waiters = <<>>
    BY DEF PermitInv, QueueInv
  <2>. HIDE DEF Holding
  <2>. QED  BY <1>0, <1>4, <2>2, <2>3 DEF PermitInv, PermitsInUse, Free, permVars
<1>5. ASSUME Enqueue(h)
      PROVE  /\ pc[h] = "committed" /\ pc'[h] \notin {"permit", "committed"}
             /\ \A g \in Handles \ {h} : pc'[g] = pc[g]
             /\ UNCHANGED permVars
             /\ Len(buf') = IF Retained THEN Len(buf) + 1 ELSE Len(buf)
  <2>1. EventOf(h) \in Event
    BY <1>5 DEF TypeInv, TypeOK, PermitsForSends, Enqueue, EventOf, Event, Operations, Kinds
  <2>2. Len(buf') = IF Retained THEN Len(buf) + 1 ELSE Len(buf)
    BY <1>5, <2>1, AppendProperties DEF Enqueue, TypeInv, TypeOK
  <2>. QED  BY <1>0, <1>5, <2>2 DEF Enqueue, Goto, Return
<1>6. CASE Commit(h)
  BY <1>1, <1>3, <1>6 DEF Commit, Goto, Return
<1>. QED  BY <1>4, <1>5, <1>6

\* A send gets a permit, or a place behind those who wait for one.
LEMMA PermitAsked ==
  ASSUME TypeInv, TypeInv', PermitInv, NEW h \in Handles, Acquire(h)
  PROVE  PermitsInUse'
<1>0. /\ DOMAIN pc = Handles
      /\ Cardinality(Holding) \in Nat /\ Cardinality(Holding') \in Nat
      /\ Len(buf) \in Nat /\ buf' = buf /\ Cap \in Nat
  BY HoldingFinite, HoldingFiniteNext DEF TypeInv, TypeOK, Acquire
<1>1. CASE Refused(h)
  BY <1>0, <1>1, PermitLeft DEF Acquire, Refused, Return, Queueing
<1>2. CASE Granted(h) /\ h \in assigned
  <2>1. Holding' = Holding
    BY <1>0, <1>2 DEF Acquire, Granted, Goto, Holding
  <2>2. Cardinality(Holding') = Cardinality(Holding)
    BY <2>1, Zenon
  <2>. HIDE DEF Holding
  <2>. QED  BY <1>0, <1>2, <2>2 DEF Granted, PermitInv, PermitsInUse, Free
<1>3. CASE Granted(h) /\ h \notin assigned
  <2>1. Holding' = Holding \cup {h} /\ h \notin Holding
    BY <1>0, <1>3 DEF Acquire, Granted, Goto, Holding
  <2>2. Cardinality(Holding') = Cardinality(Holding) + 1
    <3>1. Cardinality(Holding \cup {h}) = Cardinality(Holding) + 1
      BY <2>1, HoldingFinite, FS_AddElement
    <3>. QED  BY <2>1, <3>1, Zenon
  <2>. HIDE DEF Holding
  <2>. QED  BY <1>0, <1>3, <2>2 DEF Granted, PermitInv, PermitsInUse, Free
<1>4. CASE Postponed(h)
  <2>1. Holding' = Holding
    BY <1>0, <1>4 DEF Acquire, Postponed, Goto, Holding
  <2>2. Cardinality(Holding') = Cardinality(Holding)
    BY <2>1, Zenon
  <2>. HIDE DEF Holding
  <2>. QED  BY <1>0, <1>4, <2>2 DEF Postponed, PermitInv, PermitsInUse, Free
<1>. QED  BY <1>1, <1>2, <1>3, <1>4 DEF Acquire

LEMMA PermitsHandle ==
  ASSUME TypeInv, TypeInv', PermitInv, NEW h \in Handles, HandleStep(h)
  PROVE  PermitsInUse'
<1>0. DOMAIN pc = Handles
  BY DEF TypeInv, TypeOK
<1>1. CASE UNCHANGED <<Holding, permVars, buf>>
  <2>1. Cardinality(Holding') = Cardinality(Holding)
    BY <1>1, Zenon
  <2>. HIDE DEF Holding
  <2>. QED  BY <1>1, <2>1 DEF PermitInv, PermitsInUse, Free, permVars
<1>2. ASSUME NEW g \in Handles, NEW from, NEW to,
             pc[g] = from, pc' = [pc EXCEPT ![g] = to],
             from \notin {"permit", "committed"}, to \notin {"permit", "committed"},
             UNCHANGED <<permVars, buf>>
      PROVE  PermitsInUse'
  <2>1. Holding' = Holding
    BY <1>0, <1>2 DEF Holding, permVars
  <2>. QED  BY <1>1, <1>2, <2>1
<1>3. ASSUME NEW k \in Ops, Begin(h, k) PROVE PermitsInUse'
  BY <1>2, <1>3 DEF Begin, Return, Goto
<1>4. CASE Enable(h) \/ Wake(h) \/ Notify(h) \/ Close(h)
  BY <1>2, <1>4 DEF Enable, Wake, Notify, Close, Goto
<1>5. CASE Check(h)
  <2>1. CASE Exhausted
    BY <1>5, <2>1, PermitLeft DEF Check, Return, Queueing
  <2>2. CASE ~Exhausted
    BY <1>2, <1>5, <2>2 DEF Check, Goto
  <2>. QED  BY <2>1, <2>2
<1>6. CASE Cancel(h)
  BY <1>6, PermitLeft DEF Cancel, Return, Queueing
<1>7. ASSUME NEW g \in Handles, Clone(h, g) PROVE PermitsInUse'
  <2>1. pc[g] = "absent" /\ pc' = [pc EXCEPT ![g] = "idle"] /\ UNCHANGED <<permVars, buf>>
    BY <1>7 DEF Clone, Goto
  <2>2. Holding' = Holding
    BY <1>0, <2>1 DEF Holding, permVars
  <2>. QED  BY <1>1, <2>1, <2>2
<1>. QED
  BY <1>3, <1>4, <1>5, <1>6, <1>7, PermitSpent, PermitAsked DEF HandleStep, Advance

LEMMA PermitsReceive ==
  ASSUME TypeInv, TypeInv', PermitInv, Receive \/ Disconnect \/ CloseInput \/ UNCHANGED vars
  PROVE  PermitsInUse'
<1>0. /\ UNCHANGED pc
      /\ Cardinality(Holding) \in Nat /\ Cardinality(Holding') \in Nat
      /\ Len(buf) \in Nat /\ Len(buf') \in Nat /\ Cap \in Nat
  BY HoldingFinite, HoldingFiniteNext DEF Receive, Pop, Drained, Process, Disconnect, CloseInput, vars, outVars
<1>1. CASE Pop
  <2>1. Holding' = Holding \cup assigned' /\ assigned \subseteq Holding
    <3>1. assigned \subseteq assigned'
      BY <1>1 DEF Pop, PassPermit
    <3>. QED  BY <1>0, <3>1 DEF Holding
  <2>2. Cardinality(Holding') = Cardinality(Holding \cup assigned')
    BY <2>1, Zenon
  <2>3. Len(buf') = Len(buf) - 1
    BY <1>1, HeadTailProperties DEF Pop, TypeInv, TypeOK
  <2>. HIDE DEF Holding
  <2>4. /\ Len(buf') + Cardinality(Holding \cup assigned') <= Cap
        /\ waiters' # <<>> => Len(buf') + Cardinality(Holding \cup assigned') = Cap
    <3>1. Len(buf') + Cardinality(Holding) = Len(buf) + Cardinality(Holding) - 1
      BY <1>0, <2>3
    <3>. QED  BY <1>0, <1>1, <2>1, <3>1, PermitPassed DEF Pop
  <2>. QED  BY <1>0, <2>2, <2>4 DEF PermitsInUse, Free
<1>2. ASSUME UNCHANGED assigned PROVE Cardinality(Holding') = Cardinality(Holding)
  <2>1. Holding' = Holding
    BY <1>0, <1>2 DEF Holding
  <2>. QED  BY <2>1, Zenon
<1>. HIDE DEF Holding
<1>3. CASE CloseTransport /\ buf' \in {buf, <<>>}
  <2>1. Len(buf') <= Len(buf)
    BY <1>0, <1>3
  <2>. QED
    BY <1>0, <1>2, <1>3, <2>1 DEF CloseTransport, PermitInv, PermitsInUse, Free
<1>4. CASE UNCHANGED <<permVars, buf>>
  BY <1>0, <1>2, <1>4 DEF permVars, PermitInv, PermitsInUse, Free
<1>5. CASE Process
  BY <1>3, <1>4, <1>5
     DEF Process, TakeMessage, TakeConnect, TakeDisconnect, TakeEos, Finish, KeepOpen, permVars
<1>. QED
  BY <1>1, <1>3, <1>4, <1>5 DEF Receive, Drained, Disconnect, CloseInput, vars, permVars

LEMMA PermitsStep == TypeInv /\ PermitInv /\ [Next]_vars => PermitsInUse'
BY TypeStep, PermitsHandle, PermitsReceive DEF Next

\* Permits are conserved, and none lies idle while a send waits for one,
\* whatever is cancelled, refused or late.
THEOREM PermitsConserved == Spec => []PermitsInUse
<1>1. Init => PermitInv
  BY QueueInit, PermitsInit DEF PermitInv
<1>2. TypeInv /\ PermitInv /\ [Next]_vars => PermitInv'
  BY QueueStep, PermitsStep DEF PermitInv
<1>3. PermitInv => PermitsInUse
  BY DEF PermitInv
<1>. QED  BY <1>1, <1>2, <1>3, TypeInvariant, PTL DEF Spec

-----------------------------------------------------------------------------
(* What PayloadsOf computes: the recursion has a solution for every number *)
(* of events, an event more adds its payload at the end, and what is taken  *)
(* from the front comes first.                                              *)

\* f collects the payloads among the first n events.
CollectsStep(f, events, i) == IF i = 0 THEN <<>> ELSE Collect(f[i - 1], events[i])
Collects(f, events, n)     == f = [i \in 0 .. n |-> CollectsStep(f, events, i)]

LEMMA CollectsAt ==
  ASSUME NEW events, NEW n \in Nat, NEW f
  PROVE  Collects(f, events, n) <=>
           /\ f = [i \in 0 .. n |-> f[i]]
           /\ \A i \in 0 .. n : f[i] = CollectsStep(f, events, i)
BY Zenon DEF Collects

LEMMA CollectsNext ==
  ASSUME NEW events, NEW n \in Nat, NEW f, Collects(f, events, n)
  PROVE  f[0] = <<>> /\ \A i \in 0 .. n - 1 : f[i + 1] = Collect(f[i], events[i + 1])
<1>1. \A i \in 0 .. n : f[i] = CollectsStep(f, events, i)
  BY CollectsAt
<1>. QED  BY <1>1 DEF CollectsStep

\* The recursion has a solution for every number of events.
LEMMA CollectsExists ==
  ASSUME NEW events
  PROVE  \A n \in Nat : \E f : Collects(f, events, n)
<1>. DEFINE T == {n \in Nat : \E f : Collects(f, events, n)}
<1>1. 0 \in T
  <2>. DEFINE f == [i \in 0 .. 0 |-> <<>>]
  <2>1. f = [i \in 0 .. 0 |-> f[i]] /\ \A i \in 0 .. 0 : f[i] = CollectsStep(f, events, i)
    BY DEF CollectsStep
  <2>. HIDE DEF f
  <2>2. Collects(f, events, 0)
    BY <2>1, CollectsAt
  <2>. QED  BY <2>2
<1>2. ASSUME NEW n \in Nat, n \in T PROVE n + 1 \in T
  <2>1. PICK f : Collects(f, events, n)
    BY <1>2
  <2>2. \A i \in 0 .. n : f[i] = CollectsStep(f, events, i)
    BY <2>1, CollectsAt
  <2>. DEFINE g == [i \in 0 .. n + 1 |-> IF i = n + 1 THEN Collect(f[n], events[n + 1]) ELSE f[i]]
  <2>3. g = [i \in 0 .. n + 1 |-> g[i]] /\ \A i \in 0 .. n : g[i] = f[i]
        /\ g[n + 1] = Collect(f[n], events[n + 1])
    OBVIOUS
  <2>. HIDE DEF g
  <2>4. ASSUME NEW i \in 0 .. n + 1 PROVE g[i] = CollectsStep(g, events, i)
    <3>1. CASE i = n + 1
      <4>1. i - 1 = n /\ n \in 0 .. n /\ i # 0
        BY <3>1
      <4>2. g[i] = Collect(f[n], events[i]) /\ g[i - 1] = f[n]
        BY <2>3, <3>1, <4>1
      <4>. QED  BY <4>1, <4>2 DEF CollectsStep
    <3>2. CASE i \in 1 .. n
      <4>1. i \in 0 .. n /\ i - 1 \in 0 .. n /\ i # 0
        BY <3>2
      <4>2. g[i] = CollectsStep(f, events, i) /\ g[i - 1] = f[i - 1]
        BY <2>2, <2>3, <4>1
      <4>. QED  BY <4>1, <4>2 DEF CollectsStep
    <3>3. CASE i = 0
      <4>1. i \in 0 .. n
        BY <3>3
      <4>2. g[i] = CollectsStep(f, events, i)
        BY <2>2, <2>3, <4>1
      <4>. QED  BY <3>3, <4>2 DEF CollectsStep
    <3>. QED  BY <3>1, <3>2, <3>3
  <2>5. n + 1 \in Nat
    OBVIOUS
  <2>6. Collects(g, events, n + 1)
    BY <2>3, <2>4, <2>5, CollectsAt, Zenon
  <2>. QED  BY <2>5, <2>6
<1>. HIDE DEF T
<1>3. Nat \subseteq T
  BY <1>1, <1>2, SetInduction
<1>. QED  BY <1>3 DEF T

\* So PayloadsOf is what its recursion says.
LEMMA PayloadsOfCollects ==
  ASSUME NEW S, NEW events \in Seq(S)
  PROVE  \E f : Collects(f, events, Len(events)) /\ PayloadsOf(events) = f[Len(events)]
<1>. DEFINE f == CHOOSE f : Collects(f, events, Len(events))
<1>1. Collects(f, events, Len(events))
  BY CollectsExists
<1>2. PayloadsOf(events) = f[Len(events)]
  BY DEF PayloadsOf, Collects, CollectsStep
<1>. QED  BY <1>1, <1>2

LEMMA PayloadsOfEmpty == PayloadsOf(<<>>) = <<>>
<1>1. PICK f : Collects(f, <<>>, Len(<<>>)) /\ PayloadsOf(<<>>) = f[Len(<<>>)]
  <2>1. <<>> \in Seq({})
    OBVIOUS
  <2>. QED  BY <2>1, PayloadsOfCollects
<1>2. Collects(f, <<>>, 0) /\ PayloadsOf(<<>>) = f[0]
  BY <1>1
<1>. QED  BY <1>2, CollectsNext

\* One more event adds its payload at the end.
LEMMA PayloadsOfAppend ==
  ASSUME NEW S, NEW events \in Seq(S), NEW e \in S
  PROVE  PayloadsOf(Append(events, e)) = Collect(PayloadsOf(events), e)
<1>. DEFINE n == Len(events)
            longer == Append(events, e)
<1>1. /\ n \in Nat /\ n + 1 \in Nat /\ longer \in Seq(S) /\ Len(longer) = n + 1
      /\ longer[n + 1] = e /\ \A i \in 1 .. n : longer[i] = events[i]
  BY AppendProperties
<1>. HIDE DEF longer
<1>2. PICK f : Collects(f, events, n) /\ PayloadsOf(events) = f[n]
  BY PayloadsOfCollects
<1>3. PICK g : Collects(g, longer, n + 1) /\ PayloadsOf(longer) = g[n + 1]
  BY <1>1, PayloadsOfCollects
<1>. HIDE DEF n
<1>4. /\ f[0] = <<>> /\ \A i \in 0 .. n - 1 : f[i + 1] = Collect(f[i], events[i + 1])
      /\ g[0] = <<>> /\ \A i \in 0 .. n : g[i + 1] = Collect(g[i], longer[i + 1])
  BY <1>1, <1>2, <1>3, CollectsNext
<1>. DEFINE T == {i \in Nat : f[i] = g[i]}
<1>5. 0 \in T
  BY <1>4
<1>6. ASSUME NEW i \in 0 .. n - 1, i \in T PROVE i + 1 \in T
  <2>1. f[i] = g[i] /\ i + 1 \in 1 .. n /\ i \in 0 .. n
    BY <1>1, <1>6
  <2>. QED  BY <1>1, <1>4, <2>1
<1>. HIDE DEF T
<1>7. 0 .. n \subseteq T
  BY <1>1, <1>5, <1>6, BoundedInduction
<1>8. g[n] = f[n] /\ g[n + 1] = Collect(g[n], longer[n + 1])
  BY <1>1, <1>4, <1>7 DEF T
<1>. QED  BY <1>1, <1>2, <1>3, <1>8 DEF longer

LEMMA PayloadsOfOne == \A e : PayloadsOf(<<e>>) = Collect(<<>>, e)
<1>. TAKE e
<1>1. <<>> \in Seq({e}) /\ e \in {e} /\ Append(<<>>, e) = <<e>>
  OBVIOUS
<1>2. PayloadsOf(Append(<<>>, e)) = Collect(PayloadsOf(<<>>), e)
  BY <1>1, PayloadsOfAppend, Zenon
<1>. QED  BY <1>1, <1>2, PayloadsOfEmpty, Zenon

LEMMA CollectType ==
  ASSUME NEW payloads \in Seq(Payload), NEW e \in Event
  PROVE  Collect(payloads, e) \in Seq(Payload)
<1>1. PayloadOf(e) \in Payload
  BY DEF Event, Payload, PayloadOf
<1>. QED  BY <1>1 DEF Collect

LEMMA PayloadsOfType ==
  ASSUME NEW events \in Seq(Event) PROVE PayloadsOf(events) \in Seq(Payload)
<1>. DEFINE n == Len(events)
<1>1. n \in Nat /\ \A i \in 1 .. n : events[i] \in Event
  OBVIOUS
<1>2. PICK f : Collects(f, events, n) /\ PayloadsOf(events) = f[n]
  BY PayloadsOfCollects
<1>. HIDE DEF n
<1>3. f[0] = <<>> /\ \A i \in 0 .. n - 1 : f[i + 1] = Collect(f[i], events[i + 1])
  BY <1>1, <1>2, CollectsNext
<1>. DEFINE T == {i \in Nat : f[i] \in Seq(Payload)}
<1>4. 0 \in T
  <2>1. <<>> \in Seq(Payload)
    OBVIOUS
  <2>. QED  BY <1>3, <2>1
<1>5. ASSUME NEW i \in 0 .. n - 1, i \in T PROVE i + 1 \in T
  <2>1. f[i] \in Seq(Payload) /\ i + 1 \in 1 .. n /\ i + 1 \in Nat
    BY <1>1, <1>5
  <2>2. f[i + 1] = Collect(f[i], events[i + 1]) /\ events[i + 1] \in Event
    BY <1>1, <1>3, <2>1
  <2>3. Collect(f[i], events[i + 1]) \in Seq(Payload)
    BY <2>1, <2>2, CollectType
  <2>. QED  BY <2>1, <2>2, <2>3
<1>. HIDE DEF T
<1>6. 0 .. n \subseteq T
  BY <1>1, <1>4, <1>5, BoundedInduction
<1>. QED  BY <1>1, <1>2, <1>6 DEF T

LEMMA CollectBehind ==
  ASSUME NEW s \in Seq(Payload), NEW t \in Seq(Payload), NEW e \in Event
  PROVE  s \o Collect(t, e) = Collect(s \o t, e)
<1>. DEFINE x == PayloadOf(e)
<1>1. x \in Payload
  BY DEF Event, Payload, PayloadOf
<1>. HIDE DEF x
<1>2. s \o Append(t, x) = Append(s \o t, x)
  <2>1. s \o t \in Seq(Payload) /\ <<x>> \in Seq(Payload)
    BY <1>1
  <2>2. Append(t, x) = t \o <<x>> /\ Append(s \o t, x) = (s \o t) \o <<x>>
    BY <1>1, <2>1, AppendIsConcat
  <2>3. (s \o t) \o <<x>> = s \o (t \o <<x>>)
    BY <2>1, ConcatAssociative
  <2>. QED  BY <2>2, <2>3
<1>. QED  BY <1>2 DEF Collect, x

\* What is taken from the front comes first.
LEMMA PayloadsOfTail ==
  ASSUME NEW events \in Seq(Event), events # <<>>
  PROVE  PayloadsOf(events) = PayloadsOf(<<Head(events)>>) \o PayloadsOf(Tail(events))
<1>. DEFINE n == Len(events) - 1
            rest == Tail(events)
            first == PayloadsOf(<<Head(events)>>)
<1>1. /\ n \in Nat /\ n + 1 \in Nat /\ Len(events) = n + 1 /\ rest \in Seq(Event) /\ Len(rest) = n
      /\ \A i \in 1 .. n : rest[i] = events[i + 1]
      /\ Head(events) = events[1] /\ events[1] \in Event
      /\ \A i \in 1 .. n : rest[i] \in Event
  BY HeadTailProperties
<1>2. PICK f : Collects(f, events, n + 1) /\ PayloadsOf(events) = f[n + 1]
  BY <1>1, PayloadsOfCollects
<1>. HIDE DEF rest
<1>3. PICK g : Collects(g, rest, n) /\ PayloadsOf(rest) = g[n]
  BY <1>1, PayloadsOfCollects
<1>. HIDE DEF n
<1>4. /\ f[0] = <<>> /\ \A i \in 0 .. n : f[i + 1] = Collect(f[i], events[i + 1])
      /\ g[0] = <<>> /\ \A i \in 0 .. n - 1 : g[i + 1] = Collect(g[i], rest[i + 1])
  BY <1>1, <1>2, <1>3, CollectsNext
<1>5. f[0 + 1] = first /\ first \in Seq(Payload)
  <2>1. 0 \in 0 .. n
    BY <1>1
  <2>2. f[0 + 1] = Collect(<<>>, events[0 + 1])
    BY <1>4, <2>1, Zenon
  <2>3. <<>> \in Seq(Payload)
    OBVIOUS
  <2>4. Collect(<<>>, events[1]) \in Seq(Payload)
    BY <1>1, <2>3, CollectType
  <2>. QED  BY <1>1, <2>2, <2>4, PayloadsOfOne
<1>. HIDE DEF first
<1>. DEFINE T == {i \in Nat : g[i] \in Seq(Payload) /\ f[i + 1] = first \o g[i]}
<1>6. 0 \in T
  <2>1. first \o <<>> = first /\ <<>> \in Seq(Payload)
    BY <1>5
  <2>2. g[0] \in Seq(Payload) /\ f[0 + 1] = first \o g[0]
    BY <1>4, <1>5, <2>1, Zenon
  <2>. QED  BY <2>2
<1>7. ASSUME NEW i \in 0 .. n - 1, i \in T PROVE i + 1 \in T
  <2>0. i \in 0 .. n - 1 /\ i + 1 \in 0 .. n /\ i + 1 \in 1 .. n /\ i + 1 \in Nat
    BY <1>1
  <2>1. f[i + 1] = first \o g[i] /\ g[i] \in Seq(Payload)
    BY <1>7
  <2>2. rest[i + 1] = events[(i + 1) + 1] /\ rest[i + 1] \in Event
    BY <1>1, <2>0
  <2>3. f[(i + 1) + 1] = Collect(f[i + 1], rest[i + 1])
    BY <1>4, <2>0, <2>2, Zenon
  <2>4. g[i + 1] = Collect(g[i], rest[i + 1])
    BY <1>4, <2>0, Zenon
  <2>5. first \o Collect(g[i], rest[i + 1]) = Collect(first \o g[i], rest[i + 1])
        /\ Collect(g[i], rest[i + 1]) \in Seq(Payload)
    BY <1>5, <2>1, <2>2, CollectBehind, CollectType
  <2>6. g[i + 1] \in Seq(Payload) /\ f[(i + 1) + 1] = first \o g[i + 1]
    BY <2>1, <2>3, <2>4, <2>5, Zenon
  <2>. QED  BY <2>0, <2>6, Zenon
<1>. HIDE DEF T
<1>8. 0 .. n \subseteq T
  BY <1>1, <1>6, <1>7, BoundedInduction
<1>9. f[n + 1] = first \o g[n]
  BY <1>1, <1>8 DEF T
<1>. QED  BY <1>2, <1>3, <1>9 DEF first, rest

-----------------------------------------------------------------------------
(* Delivery.  Payloads move from accepted to delivered through the queue    *)
(* and the receive in progress; nothing else touches the three.             *)

LEMMA PayloadsOfQueued ==
  ASSUME TypeInv
  PROVE  PayloadsOf(<<got>>) \in Seq(Payload) /\ PayloadsOf(buf) \in Seq(Payload)
<1>1. CASE got \in Event
  <2>1. <<got>> \in Seq(Event)
    BY <1>1
  <2>. QED  BY <2>1, PayloadsOfType DEF TypeInv, TypeOK
<1>2. CASE got.kind # "message"
  <2>1. PayloadsOf(<<got>>) = <<>>
    BY <1>2, PayloadsOfOne DEF Collect
  <2>. QED  BY <2>1, PayloadsOfType DEF TypeInv, TypeOK
<1>. QED  BY <1>1, <1>2 DEF TypeInv, TypeOK, Idle, Eos

LEMMA LostInit == Init => NothingLost
<1>. SUFFICES ASSUME Init PROVE NothingLost
  OBVIOUS
<1>1. PayloadsOf(<<got>>) = <<>> /\ PayloadsOf(buf) = <<>>
  BY PayloadsOfOne, PayloadsOfEmpty DEF Init, Idle, Collect
<1>2. <<>> = <<>> \o <<>> \o <<>>
  OBVIOUS
<1>. QED  BY <1>1, <1>2 DEF Init, NothingLost

LEMMA LostEnqueue ==
  ASSUME TypeInv, NothingLost, NEW h \in Handles, Enqueue(h)
  PROVE  NothingLost'
<1>. SUFFICES ASSUME Retained
     PROVE  accepted' = delivered' \o PayloadsOf(<<got'>>) \o PayloadsOf(buf')
  BY DEF Enqueue, inVars, NothingLost, Retained
<1>. DEFINE e == EventOf(h)
            t == PayloadsOf(<<got>>)
            q == PayloadsOf(buf)
<1>1. e \in Event /\ buf \in Seq(Event) /\ delivered \in Seq(Payload) /\ e.kind = op[h]
  BY DEF TypeInv, TypeOK, PermitsForSends, Enqueue, EventOf, Event, Operations, Kinds
<1>2. t \in Seq(Payload) /\ q \in Seq(Payload) /\ delivered \o t \in Seq(Payload)
  BY <1>1, PayloadsOfQueued
<1>3. /\ delivered' = delivered /\ got' = got /\ buf' = Append(buf, e)
      /\ accepted' = Collect(accepted, e) /\ accepted = delivered \o t \o q
  BY <1>1 DEF Enqueue, inVars, NothingLost, Collect
<1>4. PayloadsOf(buf') = Collect(q, e)
  BY <1>1, <1>3, PayloadsOfAppend
<1>. HIDE DEF e, t, q
<1>5. (delivered \o t) \o Collect(q, e) = Collect((delivered \o t) \o q, e)
  BY <1>1, <1>2, CollectBehind
<1>. QED  BY <1>3, <1>4, <1>5 DEF t

LEMMA LostPop ==
  ASSUME TypeInv, NothingLost, Pop
  PROVE  NothingLost'
<1>1. /\ delivered' = delivered /\ accepted' = accepted /\ got' = Head(buf) /\ buf' = Tail(buf)
      /\ got = Idle /\ buf # <<>> /\ buf \in Seq(Event) /\ delivered \in Seq(Payload)
      /\ accepted = delivered \o PayloadsOf(<<got>>) \o PayloadsOf(buf)
  BY DEF Pop, NothingLost, TypeInv, TypeOK
<1>2. PayloadsOf(buf) = PayloadsOf(<<Head(buf)>>) \o PayloadsOf(Tail(buf))
  BY <1>1, PayloadsOfTail
<1>3. PayloadsOf(<<got>>) = <<>>
  BY <1>1, PayloadsOfOne DEF Idle, Collect
<1>4. <<Head(buf)>> \in Seq(Event) /\ Tail(buf) \in Seq(Event)
  BY <1>1, HeadTailProperties
<1>5. PayloadsOf(<<Head(buf)>>) \in Seq(Payload) /\ PayloadsOf(Tail(buf)) \in Seq(Payload)
  BY <1>4, PayloadsOfType
<1>. DEFINE s == PayloadsOf(<<Head(buf)>>)
            t == PayloadsOf(Tail(buf))
<1>. HIDE DEF s, t
<1>6. delivered \o <<>> \o (s \o t) = delivered \o s \o t
  <2>1. delivered \in Seq(Payload) /\ s \in Seq(Payload) /\ t \in Seq(Payload)
    BY <1>1, <1>5 DEF s, t
  <2>2. delivered \o <<>> = delivered
    BY <2>1
  <2>. QED  BY <2>1, <2>2
<1>7. accepted' = delivered' \o PayloadsOf(<<got'>>) \o PayloadsOf(buf')
  BY <1>1, <1>2, <1>3, <1>6, Zenon DEF s, t
<1>. QED  BY <1>7 DEF NothingLost

LEMMA LostProcess ==
  ASSUME TypeInv, NothingLost, Process
  PROVE  NothingLost'
<1>. SUFFICES ASSUME Retained'
     PROVE  accepted' = delivered' \o PayloadsOf(<<got'>>) \o PayloadsOf(buf')
  BY DEF NothingLost
<1>1. ~TakeDisconnect
  BY DEF TakeDisconnect, Finish, Retained
<1>2. Retained /\ buf' = buf /\ accepted' = accepted /\ got' = Idle
  BY <1>1 DEF Process, TakeMessage, TakeConnect, TakeEos, Finish, KeepOpen, Retained
<1>3. delivered' = Collect(delivered, got)
  <2>1. CASE TakeMessage
    <3>1. Max # Counted
      BY <2>1, <1>2 DEF TakeMessage, Finish, Retained
    <3>. QED  BY <2>1, <3>1 DEF TakeMessage, Collect
  <2>2. CASE TakeConnect
    BY <2>2 DEF TakeConnect, Collect
  <2>3. CASE TakeEos
    BY <2>3 DEF TakeEos, Collect, Eos
  <2>. QED  BY <1>1, <2>1, <2>2, <2>3 DEF Process
<1>4. accepted = delivered \o PayloadsOf(<<got>>) \o PayloadsOf(buf)
  BY <1>2 DEF NothingLost
<1>. DEFINE q == PayloadsOf(buf)
<1>5. q \in Seq(Payload) /\ delivered \in Seq(Payload)
  BY PayloadsOfQueued DEF TypeInv, TypeOK
<1>. HIDE DEF q
<1>6. delivered \o Collect(<<>>, got) = Collect(delivered, got)
  <2>1. CASE got.kind = "message"
    BY <1>5, <2>1, AppendIsConcat DEF TypeInv, TypeOK, Collect, PayloadOf, Event, Payload, Idle, Eos
  <2>2. CASE got.kind # "message"
    BY <1>5, <2>2 DEF Collect
  <2>. QED  BY <2>1, <2>2
<1>7. Collect(delivered, got) \in Seq(Payload)
  <2>1. CASE got.kind = "message"
    BY <1>5, <2>1 DEF TypeInv, TypeOK, Collect, PayloadOf, Event, Payload, Idle, Eos
  <2>2. CASE got.kind # "message"
    BY <1>5, <2>2 DEF Collect
  <2>. QED  BY <2>1, <2>2
<1>8. PayloadsOf(<<got'>>) = <<>>
  BY <1>2, PayloadsOfOne DEF Idle, Collect
<1>9. PayloadsOf(<<got>>) = Collect(<<>>, got)
  BY PayloadsOfOne
<1>10. accepted = Collect(delivered, got) \o q
  BY <1>4, <1>6, <1>9, Zenon DEF q
<1>11. Collect(delivered, got) \o <<>> \o q = Collect(delivered, got) \o q
  BY <1>5, <1>7
<1>. QED  BY <1>2, <1>3, <1>8, <1>10, <1>11, Zenon DEF q

LEMMA LostStep == TypeInv /\ NothingLost /\ [Next]_vars => NothingLost'
<1>. SUFFICES ASSUME TypeInv, NothingLost, [Next]_vars PROVE NothingLost'
  OBVIOUS
<1>1. CASE UNCHANGED <<accepted, delivered, buf, got>> /\ (Retained' => Retained)
  BY <1>1 DEF NothingLost
<1>2. ASSUME NEW h \in Handles, HandleStep(h), ~Enqueue(h) PROVE NothingLost'
  BY <1>1, <1>2 DEF HandleStep, Advance, Begin, Enable, Check, Acquire, Wake, Commit, Notify,
              Cancel, Close, Clone, inVars, Retained
<1>3. CASE Drained
  <2>1. PayloadsOf(<<got'>>) = PayloadsOf(<<got>>)
    BY <1>3, PayloadsOfOne DEF Drained, Idle, Eos, Collect
  <2>. QED  BY <1>3, <2>1 DEF Drained, NothingLost, Retained
<1>4. CASE Disconnect
  BY <1>1, <1>4 DEF Disconnect, Retained
<1>5. CASE CloseInput
  BY <1>5 DEF CloseInput, Retained, NothingLost
<1>6. CASE UNCHANGED vars
  BY <1>1, <1>6 DEF vars, inVars, Retained
<1>. QED  BY <1>2, <1>3, <1>4, <1>5, <1>6, LostEnqueue, LostPop, LostProcess DEF Next, Receive

\* While the receiver is retained every accepted payload is delivered, taken
\* or still queued, in the order in which the sends enqueued them.
THEOREM NothingIsLost == Spec => []NothingLost
BY TypeInvariant, LostInit, LostStep, PTL DEF Spec

-----------------------------------------------------------------------------
(* How sends end.  An accepted payload names the operation that sent it, so *)
(* it is known from the handle whether its latest payload was accepted.     *)

Latest(h) == [from |-> h, num |-> num[h]]

Enqueued(h) == \E i \in DOMAIN accepted : accepted[i] = Latest(h)

\* Between the enqueue and the next operation of the handle.
Succeeded(h) ==
  /\ op[h] = "message"
  /\ pc[h] = "notifying" \/ (pc[h] \in {"idle", "closed"} /\ last[h] = "ok")

OutcomeInv ==
  /\ \A i, j \in DOMAIN accepted : accepted[i] = accepted[j] => i = j
  /\ \A i \in DOMAIN accepted : accepted[i].num <= num[accepted[i].from]
  /\ \A h \in Handles : Enqueued(h) <=> Succeeded(h)
  /\ \A h \in Handles : pc[h] = "absent" => last[h] = "none"

LEMMA OutcomeMeansSend == OutcomeInv => SendOutcome
BY DEF OutcomeInv, SendOutcome, Enqueued, Succeeded, Latest

LEMMA OutcomeInit == Init => OutcomeInv
<1>. SUFFICES ASSUME Init PROVE OutcomeInv
  OBVIOUS
<1>1. DOMAIN accepted = {}
  BY DEF Init
<1>2. \A h \in Handles : last[h] = "none" /\ pc[h] # "notifying"
  BY DEF Init
<1>. QED  BY <1>1, <1>2 DEF OutcomeInv, Enqueued, Succeeded

\* A step that accepts nothing and begins nothing keeps the outcomes.
LEMMA OutcomeKept ==
  ASSUME OutcomeInv, UNCHANGED <<accepted, num>>,
         \A h \in Handles : Succeeded(h)' <=> Succeeded(h),
         \A h \in Handles : pc'[h] = "absent" => last'[h] = "none"
  PROVE  OutcomeInv'
BY DEF OutcomeInv, Enqueued, Latest

LEMMA OutcomeBegin ==
  ASSUME TypeInv, OutcomeInv, NEW h \in Handles, NEW k \in Ops, Begin(h, k)
  PROVE  OutcomeInv'
<1>1. /\ accepted' = accepted /\ num' = [num EXCEPT ![h] = @ + 1]
      /\ num \in [Handles -> Nat] /\ accepted \in Seq(Payload)
      /\ \A i \in DOMAIN accepted : accepted[i].from \in Handles /\ accepted[i].num \in Nat
  <2>1. \A i \in DOMAIN accepted : accepted[i] \in Payload
    BY DEF TypeInv, TypeOK
  <2>. QED  BY <2>1 DEF Begin, TypeInv, TypeOK, Payload
<1>2. \A i \in DOMAIN accepted : accepted[i].num <= num[accepted[i].from]
  BY DEF OutcomeInv
<1>3. ~ Enqueued(h)'
  <2>. SUFFICES ASSUME NEW i \in DOMAIN accepted, accepted[i] = [from |-> h, num |-> num[h] + 1]
       PROVE  FALSE
    BY <1>1 DEF Enqueued, Latest
  <2>. QED  BY <1>1, <1>2
<1>4. ~ Succeeded(h)'
  BY DEF TypeInv, TypeOK, Begin, Succeeded, Return, Goto, ExhaustedResult, Guarded
<1>5. \A g \in Handles \ {h} : (Succeeded(g)' <=> Succeeded(g)) /\ (Enqueued(g)' <=> Enqueued(g))
  BY <1>1 DEF TypeInv, TypeOK, Begin, Succeeded, Enqueued, Latest, Return, Goto
<1>6. \A i \in DOMAIN accepted : accepted[i].num <= num'[accepted[i].from]
  <2>. TAKE i \in DOMAIN accepted
  <2>1. num'[accepted[i].from] >= num[accepted[i].from] /\ num'[accepted[i].from] \in Nat
    BY <1>1
  <2>. QED  BY <1>1, <1>2, <2>1
<1>7. \A g \in Handles : pc'[g] = "absent" => last'[g] = "none"
  BY DEF OutcomeInv, TypeInv, TypeOK, Begin, Return, Goto
<1>8. \A g \in Handles : Enqueued(g)' <=> Succeeded(g)'
  BY <1>3, <1>4, <1>5 DEF OutcomeInv
<1>. QED  BY <1>1, <1>6, <1>7, <1>8 DEF OutcomeInv

LEMMA OutcomeEnqueue ==
  ASSUME TypeInv, OutcomeInv, NEW h \in Handles, Enqueue(h)
  PROVE  OutcomeInv'
<1>0. /\ accepted \in Seq(Payload) /\ num \in [Handles -> Nat] /\ num' = num /\ op' = op
      /\ pc[h] = "committed" /\ op[h] # "watch"
  BY DEF Enqueue, TypeInv, TypeOK, PermitsForSends
<1>1. \A g \in Handles \ {h} : Succeeded(g)' <=> Succeeded(g)
  BY DEF TypeInv, TypeOK, Enqueue, Succeeded, Return, Goto
<1>2. Succeeded(h)' <=> op[h] = "message"
  BY <1>0 DEF TypeInv, TypeOK, Enqueue, Succeeded, Return, Goto
<1>3. ~ Succeeded(h)
  BY <1>0 DEF Succeeded
<1>4. \A g \in Handles : pc'[g] = "absent" => last'[g] = "none"
  BY DEF OutcomeInv, TypeInv, TypeOK, Enqueue, Return, Goto
<1>5. CASE op[h] # "message"
  <2>1. accepted' = accepted
    BY <1>5 DEF Enqueue
  <2>. QED  BY <1>0, <1>1, <1>2, <1>3, <1>4, <1>5, <2>1, OutcomeKept
<1>6. CASE op[h] = "message"
  <2>. DEFINE n == Len(accepted) + 1
  <2>1. /\ n \in Nat /\ n \in 1 .. n /\ DOMAIN accepted' = 1 .. n /\ DOMAIN accepted = 1 .. n - 1
        /\ accepted'[n] = Latest(h) /\ \A i \in 1 .. n - 1 : accepted'[i] = accepted[i]
    <3>1. accepted' = Append(accepted, Latest(h))
      BY <1>6 DEF Enqueue, PayloadOf, EventOf, Latest
    <3>2. Latest(h) \in Payload
      BY <1>0 DEF Latest, Payload
    <3>3. /\ Len(accepted') = Len(accepted) + 1 /\ accepted'[Len(accepted) + 1] = Latest(h)
          /\ \A i \in 1 .. Len(accepted) : accepted'[i] = accepted[i]
          /\ accepted' \in Seq(Payload)
      BY <1>0, <3>1, <3>2, AppendProperties
    <3>. QED  BY <1>0, <3>3
  <2>. HIDE DEF n
  <2>2. \A i \in 1 .. n - 1 : accepted[i] # Latest(h)
    BY <1>3, <2>1 DEF OutcomeInv, Enqueued
  <2>3. \A i, j \in DOMAIN accepted' : accepted'[i] = accepted'[j] => i = j
    <3>. SUFFICES ASSUME NEW i \in 1 .. n, NEW j \in 1 .. n, accepted'[i] = accepted'[j]
         PROVE  i = j
      BY <2>1
    <3>1. i \in 1 .. n - 1 \/ i = n
      BY <2>1
    <3>2. j \in 1 .. n - 1 \/ j = n
      BY <2>1
    <3>. QED  BY <2>1, <2>2, <3>1, <3>2 DEF OutcomeInv
  <2>4. \A i \in DOMAIN accepted' : accepted'[i].num <= num'[accepted'[i].from]
    <3>. SUFFICES ASSUME NEW i \in 1 .. n PROVE accepted'[i].num <= num[accepted'[i].from]
      BY <1>0, <2>1
    <3>1. i \in 1 .. n - 1 \/ i = n
      BY <2>1
    <3>2. CASE i = n
      BY <1>0, <2>1, <3>2 DEF Latest
    <3>. QED  BY <2>1, <3>1, <3>2 DEF OutcomeInv
  <2>5. \A g \in Handles : Latest(g)' = Latest(g)
    BY <1>0 DEF Latest
  <2>6. Enqueued(h)'
    BY <2>1, <2>5 DEF Enqueued
  <2>7. ASSUME NEW g \in Handles, g # h PROVE Enqueued(g)' <=> Enqueued(g)
    <3>1. Latest(g) # Latest(h)
      BY <2>7 DEF Latest
    <3>2. \A i \in 1 .. n : accepted'[i] = Latest(g) => i # n
      BY <2>1, <3>1
    <3>3. \A i \in 1 .. n : i = n \/ i \in 1 .. n - 1
      BY <2>1
    <3>4. \A i \in 1 .. n - 1 : i \in 1 .. n
      BY <2>1
    <3>. QED  BY <2>1, <2>5, <3>2, <3>3, <3>4 DEF Enqueued
  <2>8. \A g \in Handles : Enqueued(g)' <=> Succeeded(g)'
    BY <1>1, <1>2, <1>6, <2>6, <2>7 DEF OutcomeInv
  <2>. QED  BY <1>4, <2>3, <2>4, <2>8 DEF OutcomeInv
<1>. QED  BY <1>5, <1>6

LEMMA OutcomeStep == TypeInv /\ OutcomeInv /\ [Next]_vars => OutcomeInv'
<1>. SUFFICES ASSUME TypeInv, OutcomeInv, [Next]_vars PROVE OutcomeInv'
  OBVIOUS
<1>1. CASE UNCHANGED <<accepted, num, pc, op, last>>
  <2>1. \A h \in Handles : Succeeded(h)' <=> Succeeded(h)
    BY <1>1 DEF Succeeded
  <2>. QED  BY <1>1, <2>1, OutcomeKept DEF OutcomeInv
<1>2. ASSUME NEW h \in Handles, HandleStep(h), ~Enqueue(h), \A k \in Ops : ~Begin(h, k)
      PROVE  OutcomeInv'
  <2>. USE DEF Goto, Return, TypeInv, TypeOK, Waiting
  <2>. DEFINE Kept ==
         /\ UNCHANGED <<accepted, num>>
         /\ \A g \in Handles : Succeeded(g)' <=> Succeeded(g)
         /\ \A g \in Handles : pc'[g] = "absent" => last'[g] = "none"
  <2>0. \A g \in Handles : pc[g] = "absent" => last[g] = "none"
    BY DEF OutcomeInv
  <2>1. ASSUME Enable(h) PROVE Kept
    BY <2>0, <2>1 DEF Enable, Succeeded
  <2>2. ASSUME Check(h) PROVE Kept
    BY <2>0, <2>2 DEF Check, Succeeded, ExhaustedResult
  <2>3. ASSUME Acquire(h) PROVE Kept
    BY <2>0, <2>3 DEF Acquire, Refused, Granted, Postponed, Succeeded, ClosedResult
  <2>4. ASSUME Wake(h) PROVE Kept
    BY <2>0, <2>4 DEF Wake, Succeeded
  <2>5. ASSUME Commit(h) PROVE Kept
    BY <2>0, <2>5 DEF Commit, Succeeded
  <2>6. ASSUME Notify(h) PROVE Kept
    BY <2>0, <2>6 DEF Notify, Succeeded
  <2>7. ASSUME Cancel(h) PROVE Kept
    BY <2>0, <2>7 DEF Cancel, Succeeded
  <2>8. ASSUME Close(h) PROVE Kept
    BY <2>0, <2>8 DEF Close, Succeeded
  <2>9. ASSUME NEW g \in Handles, Clone(h, g) PROVE Kept
    BY <2>0, <2>9 DEF Clone, Succeeded
  <2>. HIDE DEF Kept
  <2>10. Kept
    BY <1>2, <2>1, <2>2, <2>3, <2>4, <2>5, <2>6, <2>7, <2>8, <2>9, Zenon DEF HandleStep, Advance
  <2>. QED  BY <2>10, OutcomeKept, Zenon DEF Kept
<1>3. CASE Receive \/ Disconnect \/ CloseInput \/ UNCHANGED vars
  BY <1>1, <1>3 DEF Receive, Pop, Drained, Process, Disconnect, CloseInput, vars, outVars
<1>. QED  BY <1>2, <1>3, OutcomeBegin, OutcomeEnqueue DEF Next

\* A send reports success exactly when its payload was enqueued, and no
\* payload is ever enqueued twice, whatever is cancelled, refused or closed.
THEOREM SendsAreTold == Spec => []SendOutcome
BY TypeInvariant, OutcomeInit, OutcomeStep, OutcomeMeansSend, PTL DEF Spec

-----------------------------------------------------------------------------
(* The stream.  A connection implements Stream because an end is final: once *)
(* the receive finds the queue empty with nobody left to fill it, or the    *)
(* maximum delivered, no payload is ever accepted again.                    *)

\* Nobody can enqueue any more: the condition under which poll_recv says so.
Quiet == Senders = {} \/ (rxClosed /\ Holding = {})

\* Operations are numbered from 1 to Calls.
Numbered ==
  \A h \in Handles :
    num[h] <= Calls /\ (pc[h] \notin {"absent", "idle", "closed"} => num[h] > 0)

\* Inputs::received, exact up to what the cardinality needs to know.
Counting == received = IF Max # None \/ Len(delivered) < Min THEN Len(delivered) ELSE Min

FinalInv ==
  /\ got # Idle => Retained /\ ending = "open"
  /\ got = Eos => Quiet /\ buf = <<>>
  /\ ending = "open" => Retained
  /\ Retained /\ ending # "open" => ending = "complete" /\ Quiet /\ buf = <<>>
  /\ ending \in {"complete", "short"} =>
       /\ delivered = accepted
       /\ Quiet \/ (Max # None /\ Len(accepted) >= Max)

StreamInv == Numbered /\ Counting /\ FinalInv

BaseInv == TypeInv /\ QueueInv /\ QuotaExact /\ NothingLost

LEMMA QuietMeansNobody ==
  ASSUME TypeInv, Quiet, NEW h \in Handles
  PROVE  pc[h] \notin {"permit", "committed"}
BY DEF Quiet, Senders, Holding

LEMMA QuietStays ==
  ASSUME TypeInv, QueueInv, Quiet, [Next]_vars
  PROVE  Quiet'
<1>0. (rxClosed => waiters = <<>>) /\ TypeOK
  BY DEF QueueInv, TypeInv
<1>1. CASE UNCHANGED <<pc, rxClosed, assigned>>
  BY <1>1 DEF Quiet, Senders, Holding
<1>2. CASE Senders = {}
  <2>1. UNCHANGED pc
    BY <1>2 DEF Next, HandleStep, Advance, Begin, Enable, Check, Acquire, Wake, Commit, Enqueue,
                Notify, Cancel, Close, Clone, Senders, Receive, Pop, Drained, Process, Disconnect,
                CloseInput, vars, outVars
  <2>. QED  BY <1>2, <2>1 DEF Quiet, Senders
<1>3. CASE rxClosed /\ Holding = {}
  <2>0. rxClosed /\ waiters = <<>> /\ assigned = {} /\ \A h \in Handles : pc[h] \notin {"permit", "committed"}
    BY <1>0, <1>3 DEF Holding
  <2>. DEFINE Still == rxClosed' = TRUE /\ assigned' = {}
                       /\ \A g \in Handles : pc'[g] \notin {"permit", "committed"}
  <2>1. ASSUME NEW h \in Handles, HandleStep(h) PROVE Still
    <3>. USE DEF Goto, Return, TypeOK, permVars, inVars
    <3>1. LeaveQueue(h) => assigned' = {}
      BY <2>0, Zenon DEF LeaveQueue
    <3>2. ASSUME NEW k \in Ops, Begin(h, k) PROVE Still
      BY <1>0, <2>0, <3>2 DEF Begin
    <3>3. ASSUME Enable(h) PROVE Still
      BY <1>0, <2>0, <3>3 DEF Enable
    <3>4. ASSUME Check(h) PROVE Still
      BY <1>0, <2>0, <3>1, <3>4 DEF Check
    <3>5. ASSUME Acquire(h) PROVE Still
      BY <1>0, <2>0, <3>1, <3>5 DEF Acquire, Refused, Granted, Postponed
    <3>6. ASSUME Wake(h) PROVE Still
      BY <1>0, <2>0, <3>6 DEF Wake
    <3>7. ASSUME Notify(h) PROVE Still
      BY <1>0, <2>0, <3>7 DEF Notify
    <3>8. ASSUME Cancel(h) PROVE Still
      BY <1>0, <2>0, <3>1, <3>8 DEF Cancel
    <3>9. ASSUME Close(h) PROVE Still
      BY <1>0, <2>0, <3>9 DEF Close
    <3>10. ASSUME NEW g \in Handles, Clone(h, g) PROVE Still
      BY <1>0, <2>0, <3>10 DEF Clone
    <3>11. ~Commit(h) /\ ~Enqueue(h)
      BY <2>0 DEF Commit, Enqueue
    <3>. HIDE DEF Still
    <3>. QED
      BY <2>1, <3>2, <3>3, <3>4, <3>5, <3>6, <3>7, <3>8, <3>9, <3>10, <3>11, Zenon DEF HandleStep, Advance
  <2>2. ASSUME Receive \/ Disconnect \/ CloseInput \/ UNCHANGED vars PROVE Still
    <3>1. UNCHANGED pc
      BY <2>2 DEF Receive, Pop, Drained, Process, Disconnect, CloseInput, vars, outVars
    <3>2. rxClosed' = TRUE
      BY <2>0, <2>2, <1>0 DEF Receive, Pop, Drained, Process, TakeMessage, TakeConnect, TakeDisconnect, TakeEos,
           Finish, KeepOpen, Disconnect, CloseInput, CloseTransport, vars, inVars, TypeOK
    <3>3. assigned' = {}
      BY <2>0, <2>2 DEF Receive, Pop, PassPermit, Drained, Process, TakeMessage, TakeConnect, TakeDisconnect,
           TakeEos, Finish, KeepOpen, Disconnect, CloseInput, CloseTransport, vars, permVars
    <3>. QED  BY <2>0, <3>1, <3>2, <3>3
  <2>. HIDE DEF Still
  <2>3. Still
    BY <2>1, <2>2, Zenon DEF Next
  <2>. QED  BY <2>3 DEF Still, Quiet, Holding
<1>. QED  BY <1>2, <1>3 DEF Quiet

LEMMA NumberedStep == TypeInv /\ Numbered /\ [Next]_vars => Numbered'
<1>. SUFFICES ASSUME TypeInv, Numbered, [Next]_vars PROVE Numbered'
  OBVIOUS
<1>0. num \in [Handles -> Nat] /\ Calls \in Nat
  BY ConnectionAssumption DEF TypeInv, TypeOK
<1>1. CASE UNCHANGED <<num, pc>>
  BY <1>1 DEF Numbered
<1>2. ASSUME NEW h \in Handles, NEW k \in Ops, Begin(h, k) PROVE Numbered'
  BY <1>0, <1>2 DEF Begin, Numbered, TypeInv, TypeOK, Return, Goto
<1>3. ASSUME NEW h \in Handles, HandleStep(h), \A k \in Ops : ~Begin(h, k) PROVE Numbered'
  <2>1. UNCHANGED num
    BY <1>3 DEF HandleStep, Advance, Enable, Check, Acquire, Wake, Commit, Enqueue, Notify, Cancel, Close, Clone
  <2>2. \A g \in Handles : pc'[g] \notin {"absent", "idle", "closed"} => pc[g] \notin {"absent", "idle", "closed"}
    BY <1>3 DEF HandleStep, Advance, Enable, Check, Acquire, Refused, Granted, Postponed, Wake, Commit, Enqueue,
                Notify, Cancel, Close, Clone, Goto, Return, TypeInv, TypeOK
  <2>. QED  BY <2>1, <2>2 DEF Numbered
<1>4. CASE Receive \/ Disconnect \/ CloseInput \/ UNCHANGED vars
  BY <1>1, <1>4 DEF Receive, Pop, Drained, Process, Disconnect, CloseInput, vars, outVars
<1>. QED  BY <1>2, <1>3, <1>4 DEF Next

LEMMA CountingStep == TypeInv /\ Counting /\ [Next]_vars => Counting'
<1>. SUFFICES ASSUME TypeInv, Counting, [Next]_vars PROVE Counting'
  OBVIOUS
<1>0. /\ delivered \in Seq(Payload) /\ received \in Nat /\ Min \in Nat
      /\ Max # None => Max \in Nat /\ Min <= Max
      /\ None \notin Nat
  BY ConnectionAssumption DEF TypeInv, TypeOK
<1>1. CASE UNCHANGED <<received, delivered>>
  BY <1>1 DEF Counting
<1>2. CASE Process /\ TakeMessage
  <2>1. PayloadOf(got) \in Payload
    BY <1>2 DEF TypeInv, TypeOK, TakeMessage, PayloadOf, Payload, Event, Idle, Eos
  <2>2. ~(Max = Counted /\ Counted < Min)
    BY <1>0 DEF Counted
  <2>3. delivered' = Append(delivered, PayloadOf(got)) /\ received' = Counted
    BY <1>2, <2>2 DEF TakeMessage
  <2>4. Len(delivered') = Len(delivered) + 1
    BY <1>0, <2>1, <2>3
  <2>. QED  BY <1>0, <2>3, <2>4 DEF Counting, Counted
<1>3. ASSUME NEW h \in Handles, HandleStep(h) PROVE UNCHANGED <<received, delivered>>
  BY <1>3 DEF HandleStep, Advance, Begin, Enable, Check, Acquire, Wake, Commit, Enqueue, Notify, Cancel,
              Close, Clone, inVars
<1>4. CASE Pop \/ Drained \/ Disconnect \/ CloseInput \/ UNCHANGED vars \/ (Process /\ ~TakeMessage)
  BY <1>1, <1>4 DEF Pop, Drained, Process, TakeConnect, TakeDisconnect, TakeEos, Disconnect, CloseInput,
                    vars, inVars
<1>. QED  BY <1>1, <1>2, <1>3, <1>4 DEF Next, Receive

\* With a maximum the accepted payloads never pass it, and a send that has
\* committed its payload still has room for it.
LEMMA AcceptedBelow ==
  ASSUME TypeInv, QuotaExact, Max # None
  PROVE  /\ Len(accepted) <= Max
         /\ \A h \in Handles : pc[h] = "committed" /\ op[h] = "message" => Len(accepted) < Max
<1>1. /\ sent = Len(accepted) + Cardinality(Committed) /\ sent <= Max /\ Max \in Nat
      /\ Cardinality(Committed) \in Nat /\ Len(accepted) \in Nat
  BY CommittedFinite, FS_CardinalityType, ConnectionAssumption DEF QuotaExact, TypeInv, TypeOK
<1>2. ASSUME NEW h \in Handles, pc[h] = "committed", op[h] = "message" PROVE Cardinality(Committed) > 0
  <2>1. h \in Committed
    BY <1>2 DEF Committed
  <2>2. Cardinality(Committed) # 0
    BY <2>1, CommittedFinite, FS_EmptySet
  <2>. QED  BY <1>1, <2>2
<1>. QED  BY <1>1, <1>2

\* What the receive in progress adds to the payloads delivered.
LEMMA TakenIsNext ==
  ASSUME BaseInv, FinalInv, Process, TakeMessage
  PROVE  /\ delivered \in Seq(Payload) /\ PayloadOf(got) \in Payload
         /\ Len(delivered) < Len(accepted) /\ PayloadOf(got) = accepted[Len(delivered) + 1]
         /\ Len(accepted) = Len(delivered) + 1 => accepted = Append(delivered, PayloadOf(got))
<1>. DEFINE p == PayloadOf(got)
            q == PayloadsOf(buf)
<1>1. p \in Payload /\ delivered \in Seq(Payload) /\ accepted \in Seq(Payload) /\ q \in Seq(Payload)
  BY PayloadsOfQueued DEF BaseInv, TypeInv, TypeOK, TakeMessage, PayloadOf, Payload, Event, Idle, Eos
<1>2. Retained /\ got.kind = "message"
  BY DEF FinalInv, TakeMessage, Idle
<1>3. PayloadsOf(<<got>>) = <<p>>
  <2>1. PayloadsOf(<<got>>) = Append(<<>>, p)
    BY <1>2, PayloadsOfOne DEF Collect
  <2>. QED  BY <2>1
<1>4. accepted = delivered \o <<p>> \o q
  BY <1>2, <1>3, Zenon DEF BaseInv, NothingLost
<1>. HIDE DEF p, q
<1>5. Len(accepted) = Len(delivered) + 1 + Len(q) /\ accepted[Len(delivered) + 1] = p
  BY <1>1, <1>4
<1>6. ASSUME Len(accepted) = Len(delivered) + 1 PROVE accepted = Append(delivered, p)
  <2>1. q = <<>>
    BY <1>1, <1>5, <1>6, EmptySeq
  <2>. QED  BY <1>1, <1>4, <2>1
<1>. QED  BY <1>1, <1>5, <1>6 DEF p

\* A payload that is delivered is counted, and is never below the minimum.
LEMMA TakenIsCounted ==
  ASSUME BaseInv, Counting, Process, TakeMessage
  PROVE  /\ delivered' = Append(delivered, PayloadOf(got)) /\ received' = Counted
         /\ Max = Counted => Finish(Counted, "complete") /\ Max \in Nat /\ Counted = Len(delivered) + 1
                             /\ Min <= Counted
         /\ Max # Counted => KeepOpen /\ (Max # None => Max # Len(delivered) + 1)
<1>1. /\ delivered \in Seq(Payload) /\ received \in Nat /\ Min \in Nat
      /\ Max # None => Max \in Nat /\ Min <= Max
      /\ None \notin Nat
  BY ConnectionAssumption DEF BaseInv, TypeInv, TypeOK
<1>2. Counted \in Nat /\ (Max # None => Counted = Len(delivered) + 1)
  BY <1>1 DEF Counting, Counted
<1>3. Max = Counted => Max # None
  BY <1>1, <1>2
<1>4. ~(Max = Counted /\ Counted < Min)
  BY <1>1, <1>2, <1>3
<1>. QED  BY <1>1, <1>2, <1>3, <1>4 DEF TakeMessage

\* Everything accepted is delivered when the receive finds the queue empty.
LEMMA DriedOut ==
  ASSUME BaseInv, FinalInv, got = Eos
  PROVE  delivered = accepted
<1>1. Retained /\ buf = <<>> /\ delivered \in Seq(Payload)
  BY DEF FinalInv, BaseInv, TypeInv, TypeOK, Idle, Eos
<1>2. PayloadsOf(<<got>>) = <<>> /\ PayloadsOf(buf) = <<>>
  BY <1>1, PayloadsOfOne, PayloadsOfEmpty DEF Eos, Collect
<1>3. accepted = delivered \o <<>> \o <<>>
  BY <1>1, <1>2, Zenon DEF BaseInv, NothingLost
<1>. QED  BY <1>1, <1>3

LEMMA FinalInit == Init => StreamInv
<1>. SUFFICES ASSUME Init PROVE StreamInv
  OBVIOUS
<1>1. Numbered
  BY ConnectionAssumption DEF Init, Numbered
<1>2. Counting
  BY ConnectionAssumption DEF Init, Counting
<1>3. Len(accepted) = 0 /\ delivered = accepted /\ (ending # "open" => Max = 0 /\ Max # None)
  BY ConnectionAssumption DEF Init
<1>4. FinalInv
  BY <1>3 DEF Init, FinalInv, Retained, Idle, Eos
<1>. QED  BY <1>1, <1>2, <1>4 DEF StreamInv

LEMMA FinalHandle ==
  ASSUME BaseInv, StreamInv, NEW h \in Handles, HandleStep(h)
  PROVE  FinalInv'
<1>0. Quiet => Quiet'
  BY QuietStays DEF BaseInv, Next
<1>1. UNCHANGED inVars
  BY DEF HandleStep, Advance, Begin, Enable, Check, Acquire, Wake, Commit, Enqueue, Notify, Cancel,
         Close, Clone
<1>2. CASE ~Enqueue(h)
  <2>1. UNCHANGED <<buf, accepted>>
    BY <1>2 DEF HandleStep, Advance, Begin, Enable, Check, Acquire, Wake, Commit, Notify, Cancel, Close, Clone
  <2>. QED  BY <1>0, <1>1, <2>1 DEF StreamInv, FinalInv, inVars, Retained
<1>3. CASE Enqueue(h)
  <2>1. pc[h] = "committed" /\ (op[h] # "message" => accepted' = accepted)
    BY <1>3 DEF Enqueue
  <2>2. ~Quiet
    BY <2>1, QuietMeansNobody DEF BaseInv
  <2>3. ending \in {"complete", "short"} => accepted' = accepted /\ Max # None /\ Len(accepted) >= Max
    <3>. SUFFICES ASSUME ending \in {"complete", "short"}
         PROVE  accepted' = accepted /\ Max # None /\ Len(accepted) >= Max
      OBVIOUS
    <3>1. Max # None /\ Len(accepted) >= Max
      BY <2>2 DEF StreamInv, FinalInv
    <3>2. Len(accepted) < Max => FALSE
      BY <3>1, ConnectionAssumption DEF BaseInv, TypeInv, TypeOK
    <3>. QED  BY <2>1, <3>1, <3>2, AcceptedBelow DEF BaseInv
  <2>. QED  BY <1>1, <2>2, <2>3 DEF StreamInv, FinalInv, inVars, Retained
<1>. QED  BY <1>2, <1>3

LEMMA FinalProcess ==
  ASSUME BaseInv, StreamInv, Process
  PROVE  FinalInv'
<1>0. (Quiet => Quiet') /\ TypeOK
  BY QuietStays DEF BaseInv, TypeInv, Next, Receive
<1>1. FinalInv /\ Counting
  BY DEF StreamInv
<1>2. Retained /\ ending = "open" /\ got' = Idle /\ accepted' = accepted
  BY <1>1 DEF FinalInv, Process, TakeMessage, TakeConnect, TakeDisconnect, TakeEos, Idle, Eos
<1>3. CASE TakeMessage
  <2>1. CASE Max = Counted
    <3>1. /\ Max \in Nat /\ Max # None /\ Counted = Len(delivered) + 1 /\ ~(Counted < Min)
          /\ Finish(Counted, "complete") /\ delivered' = Append(delivered, PayloadOf(got))
      BY <1>1, <1>3, <2>1, TakenIsCounted, ConnectionAssumption
    <3>2. Len(accepted) <= Max /\ Len(delivered) < Len(accepted)
          /\ delivered \in Seq(Payload) /\ accepted \in Seq(Payload)
      BY <1>1, <1>3, <3>1, AcceptedBelow, TakenIsNext DEF BaseInv, TypeInv, TypeOK
    <3>3. Len(accepted) = Len(delivered) + 1 /\ Len(accepted) >= Max
      BY <2>1, <3>1, <3>2
    <3>4. delivered' = accepted
      BY <1>1, <1>3, <3>1, <3>3, TakenIsNext
    <3>5. inp' = "Ended" /\ ending' = "complete"
      BY <3>1 DEF Finish
    <3>. QED  BY <1>2, <3>1, <3>3, <3>4, <3>5 DEF FinalInv, Retained, Idle, Eos
  <2>2. CASE Max # Counted
    <3>1. KeepOpen
      BY <1>1, <1>3, <2>2, TakenIsCounted
    <3>. QED  BY <1>2, <3>1 DEF FinalInv, KeepOpen, Retained, Idle, Eos
  <2>. QED  BY <2>1, <2>2
<1>4. CASE TakeConnect
  BY <1>2, <1>4 DEF TakeConnect, FinalInv, KeepOpen, Retained, Idle, Eos
<1>5. CASE TakeDisconnect
  BY <1>2, <1>5 DEF TakeDisconnect, Finish, FinalInv, Retained, Idle, Eos
<1>6. CASE TakeEos
  <2>1. Quiet' /\ buf = <<>> /\ delivered' = accepted'
    BY <1>0, <1>1, <1>2, <1>6, DriedOut DEF TakeEos, FinalInv
  <2>2. CASE Unconstrained
    BY <1>2, <1>6, <2>1, <2>2 DEF TakeEos, FinalInv, Retained, Idle, Eos
  <2>3. CASE ~Unconstrained
    BY <1>2, <1>6, <2>1, <2>3 DEF TakeEos, Finish, FinalInv, Retained, Idle, Eos
  <2>. QED  BY <2>2, <2>3
<1>. QED  BY <1>3, <1>4, <1>5, <1>6 DEF Process

LEMMA FinalStep == BaseInv /\ StreamInv /\ [Next]_vars => FinalInv'
<1>. SUFFICES ASSUME BaseInv, StreamInv, [Next]_vars PROVE FinalInv'
  OBVIOUS
<1>0. (Quiet => Quiet') /\ TypeOK /\ FinalInv
  BY QuietStays DEF BaseInv, TypeInv, StreamInv
<1>1. CASE Pop
  <2>1. got' \in Event /\ got' # Eos
    <3>1. got' \in Event
      BY <1>0, <1>1, HeadTailProperties DEF Pop, TypeOK
    <3>. QED  BY <3>1 DEF Event, Kinds, Eos
  <2>2. ending = "open" /\ ending' = ending /\ inp' = inp /\ Retained
    BY <1>0, <1>1 DEF Pop, FinalInv
  <2>. QED  BY <2>1, <2>2 DEF FinalInv, Retained
<1>2. CASE Drained
  BY <1>0, <1>2 DEF Drained, FinalInv, Retained, Quiet, inVars, Eos, Idle
<1>3. CASE Disconnect
  BY <1>0, <1>3 DEF Disconnect, FinalInv, Retained, Idle, Eos
<1>4. CASE CloseInput
  BY <1>0, <1>4 DEF CloseInput, FinalInv, Retained, Idle, Eos
<1>5. CASE UNCHANGED vars
  BY <1>0, <1>5 DEF FinalInv, Retained, vars, inVars
<1>. QED  BY <1>1, <1>2, <1>3, <1>4, <1>5, FinalHandle, FinalProcess DEF Next, Receive

LEMMA StreamInvStep == BaseInv /\ StreamInv /\ [Next]_vars => (BaseInv /\ StreamInv)'
BY TypeStep, QueueStep, QuotaStep, LostStep, NumberedStep, CountingStep, FinalStep DEF BaseInv, StreamInv

LEMMA StreamInvariant == Spec => [](BaseInv /\ StreamInv)
<1>1. Init => BaseInv /\ StreamInv
  BY TypeInit, QueueInit, QuotaInit, LostInit, FinalInit DEF BaseInv
<1>. QED  BY <1>1, StreamInvStep, PTL DEF Spec

-----------------------------------------------------------------------------
\* Every step of the connection is a step of the stream or leaves it alone.

LEMMA StreamInit == Init => StreamOfPayloads!Init
BY DEF Init, StreamOfPayloads!Init

LEMMA StreamAccepts ==
  ASSUME BaseInv, StreamInv, NEW h \in Handles, Enqueue(h), op[h] = "message"
  PROVE  StreamOfPayloads!Accept
<1>1. pc[h] = "committed" /\ UNCHANGED <<delivered, ending>>
  BY DEF Enqueue, inVars
<1>2. Max # None => Len(accepted) < Max
  BY <1>1, AcceptedBelow DEF BaseInv
<1>3. ending \notin {"complete", "short"}
  BY <1>1, <1>2, QuietMeansNobody, ConnectionAssumption DEF BaseInv, TypeInv, TypeOK, StreamInv, FinalInv
<1>4. PayloadOf(EventOf(h)) \in [from : Handles, num : 1 .. Calls]
  <2>1. num[h] \in 1 .. Calls
    <3>1. num[h] <= Calls /\ num[h] > 0
      BY <1>1 DEF StreamInv, Numbered
    <3>2. num[h] \in Nat /\ Calls \in Nat
      BY ConnectionAssumption DEF BaseInv, TypeInv, TypeOK
    <3>. QED  BY <3>1, <3>2
  <2>. QED  BY <2>1 DEF PayloadOf, EventOf
<1>5. accepted' = Append(accepted, PayloadOf(EventOf(h)))
  BY DEF Enqueue
<1>. QED  BY <1>1, <1>2, <1>3, <1>4, <1>5 DEF StreamOfPayloads!Accept

LEMMA StreamDelivers ==
  ASSUME BaseInv, StreamInv, Process, TakeMessage
  PROVE  StreamOfPayloads!Deliver
<1>1. /\ ending = "open" /\ accepted' = accepted
      /\ None \notin Nat /\ FinalInv /\ Counting
  BY ConnectionAssumption DEF StreamInv, FinalInv, Process, TakeMessage, Idle
<1>2. /\ delivered \in Seq(Payload) /\ Len(delivered) < Len(accepted)
      /\ delivered' = Append(delivered, accepted[Len(delivered) + 1])
      /\ Len(delivered') = Len(delivered) + 1 /\ Len(delivered') \in Nat
  BY <1>1, TakenIsNext, TakenIsCounted
<1>3. ending' = IF Max = Len(delivered') THEN "complete" ELSE "open"
  <2>1. CASE Max = Counted
    BY <1>1, <1>2, <2>1, TakenIsCounted, ConnectionAssumption DEF Finish
  <2>2. CASE Max # Counted
    BY <1>1, <1>2, <2>2, TakenIsCounted DEF KeepOpen
  <2>. QED  BY <2>1, <2>2
<1>. QED  BY <1>1, <1>2, <1>3 DEF StreamOfPayloads!Deliver

LEMMA StreamEnding ==
  ASSUME BaseInv, StreamInv,
         (Process /\ TakeDisconnect) \/ (Process /\ TakeEos) \/ (CloseInput /\ ending = "open")
  PROVE  StreamOfPayloads!End
<1>0. UNCHANGED <<accepted, delivered>> /\ FinalInv
  BY DEF Process, TakeDisconnect, TakeEos, CloseInput, StreamInv
<1>1. ending = "open"
  BY <1>0 DEF FinalInv, Process, TakeDisconnect, TakeEos, Idle, Eos
<1>2. received < Min <=> Len(delivered) < Min
  BY ConnectionAssumption DEF StreamInv, Counting, BaseInv, TypeInv, TypeOK
<1>3. Len(delivered) \in Nat /\ Min \in Nat
  BY ConnectionAssumption DEF BaseInv, TypeInv, TypeOK
<1>4. CASE Process /\ TakeDisconnect
  BY <1>0, <1>1, <1>2, <1>3, <1>4 DEF TakeDisconnect, Finish, StreamOfPayloads!End, StreamOfPayloads!Ends
<1>5. CASE Process /\ TakeEos
  <2>1. delivered = accepted
    BY <1>0, <1>5, DriedOut DEF TakeEos
  <2>. QED  BY <1>0, <1>1, <1>2, <1>3, <1>5, <2>1
            DEF TakeEos, Finish, Unconstrained, StreamOfPayloads!End, StreamOfPayloads!Ends
<1>6. CASE CloseInput
  BY <1>0, <1>1, <1>6 DEF CloseInput, StreamOfPayloads!End, StreamOfPayloads!Ends
<1>. QED  BY <1>4, <1>5, <1>6

LEMMA StreamStep ==
  BaseInv /\ StreamInv /\ [Next]_vars => [StreamOfPayloads!Next]_(StreamOfPayloads!vars)
<1>. SUFFICES ASSUME BaseInv, StreamInv, [Next]_vars
     PROVE  StreamOfPayloads!Next \/ UNCHANGED <<accepted, delivered, ending>>
  BY DEF StreamOfPayloads!vars
<1>1. ASSUME NEW h \in Handles, HandleStep(h), ~(Enqueue(h) /\ op[h] = "message")
      PROVE  UNCHANGED <<accepted, delivered, ending>>
  BY <1>1 DEF HandleStep, Advance, Begin, Enable, Check, Acquire, Wake, Commit, Enqueue, Notify, Cancel,
              Close, Clone, inVars
<1>2. CASE Pop \/ Drained \/ Disconnect \/ UNCHANGED vars \/ (CloseInput /\ ending # "open")
  BY <1>2 DEF Pop, Drained, Disconnect, CloseInput, vars, inVars
<1>3. CASE Process /\ TakeConnect
  BY <1>3 DEF Process, TakeConnect, KeepOpen
<1>. QED  BY <1>1, <1>2, <1>3, StreamAccepts, StreamDelivers, StreamEnding
          DEF Next, Receive, Process, StreamOfPayloads!Next

\* A connection implements the stream of its payloads.
THEOREM ConnectionImplementsStream == Spec => ImplementsStream
<1>1. ImplementsStream <=> StreamOfPayloads!Init /\ [][StreamOfPayloads!Next]_(StreamOfPayloads!vars)
  BY DEF ImplementsStream, StreamOfPayloads!Spec
<1>. QED  BY <1>1, StreamInvariant, StreamInit, StreamStep, PTL DEF Spec

=============================================================================
