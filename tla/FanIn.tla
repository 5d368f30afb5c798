------------------------------- MODULE FanIn --------------------------------
(***************************************************************************)
(* Fan-in: several producers feed one merged input.  Every producer has a  *)
(* queue and a quota of its own; the quotas share the input's budget, in   *)
(* which the producers' minimums are reserved before any extra is spent.   *)
(* A send takes a permit of its queue and then the group's gate, commits,  *)
(* enqueues and notifies under the gate.  The merged input polls its       *)
(* sources in turn and retires the exhausted ones.                         *)
(*                                                                         *)
(* Steps are atomic accesses, as in Connection, but coarser where          *)
(* Connection shows the detail: a send registers on the Notify and looks   *)
(* at the quota in one step, which of several waiting sends gets a freed   *)
(* permit is left open (Tokio serves them in order), a receive from a      *)
(* source takes the event and accounts for it in one step, and events are  *)
(* counted, not identified.                                                *)
(***************************************************************************)
EXTENDS Integers, Sequences, FiniteSets

CONSTANTS
  N,          \* the number of producers
  Handles,    \* the output handles
  Owner,      \* the producer each handle belongs to
  Min, Max,   \* cardinality of the merged input; Max may be None
  PMin, PMax, \* negotiated cardinality of each producer
  None,       \* Rust's Option::None
  Cap,        \* capacity of every source queue
  Ops,        \* the events that are sent
  Calls       \* bound: sends begun on each handle

Producers == 0 .. N - 1

\* One slot for each payload some producer must be able to send.
Reserved == UNION {{p} \X (1 .. PMin[p]) : p \in Producers}

\* (fault) nothing is reserved
ExtraLimitUnreserved == Max

\* GroupBudget::new: what the maximum leaves once all minimums are reserved.
ExtraLimit == IF Max = None THEN None ELSE Max - Cardinality(Reserved)

ASSUME FanInAssumption ==
  /\ N \in Nat \ {0}
  /\ IsFiniteSet(Handles) /\ Owner \in [Handles -> Producers]
  /\ None \notin Nat
  /\ Min \in Nat /\ Max \in Nat \cup {None}
  /\ Max # None => Min <= Max
  /\ PMin \in [Producers -> Nat] /\ PMax \in [Producers -> Nat \cup {None}]
  /\ \A p \in Producers : PMax[p] # None => PMin[p] <= PMax[p]
  /\ Max # None => Cardinality(Reserved) <= Max
  /\ Cap \in Nat \ {0}
  /\ Ops \subseteq {"message", "connect", "disconnect"}
  /\ Calls \in [Handles -> Nat]

VARIABLES
  pc, op, calls, last, notice, \* the sends, as in Connection
  queued, assigned,            \* sends waiting for a permit; those handed one
  gate,                        \* GroupBudget::gate: its holder, or None
  sent, extras,                \* Quota::sent of each producer, GroupBudget::extras
  buf, rxClosed,               \* the source queues
  src, taken, done,            \* state and count of the source inputs, MergedInputs::done
  next, wake,                  \* MergedInputs::next, ::wake
  task,                        \* the receiving task is idle, polling or asleep
  scan,                        \* how many sources the poll has looked at
  checked,                     \* whether it has checked the quota of the one it looks at
  inp, received,               \* the merged Inputs
  accepted, delivered,         \* history: payloads enqueued and returned, per producer
  cut,                         \* history: producers whose disconnect marker was read
  passed,                      \* history: events of others returned while one waits
  ending                       \* history: how reception ended

outVars   == <<pc, op, calls, last, notice>>
permVars  == <<queued, assigned>>
quotaVars == <<gate, sent, extras>>
pollVars  == <<next, wake, task, scan, checked>>
srcVars   == <<src, taken, done, rxClosed>>
endVars   == <<inp, received, ending>>
histVars  == <<delivered, cut, passed>>
vars == <<outVars, permVars, quotaVars, pollVars, srcVars, endVars, histVars, buf, accepted>>

-----------------------------------------------------------------------------

\* Quota::check of a grouped quota fails.
Exhausted(p) ==
  \/ PMax[p] # None /\ sent[p] >= PMax[p]
  \/ sent[p] >= PMin[p] /\ Max # None /\ extras >= ExtraLimit

Senders(p) == {h \in Handles : Owner[h] = p /\ pc[h] # "closed"}
Holding(p) == {h \in Handles : Owner[h] = p /\
                 (h \in assigned \/ pc[h] \in {"permit", "locked", "committed"})}
Free(p)    == Cap - Len(buf[p]) - Cardinality(Holding(p))
Kept(p)    == inp = "Merged" /\ src[p] \in {"Connected", "Disconnected"}

\* Nothing of any producer was returned.
Nobody == [p \in Producers |-> 0]

Init ==
  /\ pc    = [h \in Handles |-> "idle"]
  /\ op    = [h \in Handles |-> "message"]
  /\ calls = [h \in Handles |-> 0]
  /\ last  = [h \in Handles |-> "none"]
  /\ notice = [h \in Handles |-> "none"]
  /\ queued = {} /\ assigned = {}
  /\ gate = None /\ extras = 0
  /\ sent = [p \in Producers |-> 0]
  /\ buf  = [p \in Producers |-> <<>>]
  /\ src  = [p \in Producers |-> IF PMax[p] = 0 THEN "Ended" ELSE "Connected"]
  /\ rxClosed = [p \in Producers |-> PMax[p] = 0 \/ Max = 0]
  /\ taken = [p \in Producers |-> 0]
  /\ done  = [p \in Producers |-> FALSE]
  /\ next = 0 /\ wake = "listening" /\ task = "idle" /\ scan = 0 /\ checked = FALSE
  /\ inp = IF Max = 0 THEN "Ended" ELSE "Merged"
  /\ received = 0
  /\ ending = IF Max = 0 THEN "complete" ELSE "open"
  /\ accepted  = [p \in Producers |-> 0]
  /\ delivered = [p \in Producers |-> 0]
  /\ cut = {}
  /\ passed = [p \in Producers |-> Nobody]

-----------------------------------------------------------------------------
(* Sending. *)

Goto(h, where) == pc' = [pc EXCEPT ![h] = where]

Return(h, how) ==
  /\ Goto(h, "idle")
  /\ last' = [last EXCEPT ![h] = how]
  /\ notice' = [notice EXCEPT ![h] = "none"]

\* A permit of p comes back: a waiting send gets it, or it is free again.
PassPermit(p, holders, waiting) ==
  LET candidates == {g \in waiting : Owner[g] = p} IN
  \/ candidates = {} /\ assigned' = holders /\ queued' = waiting
  \/ \E g \in candidates : assigned' = holders \cup {g} /\ queued' = waiting \ {g}

\* The send's permit, or its place among those waiting for one, is dropped.
DropPermit(h) ==
  IF h \in Holding(Owner[h])
  THEN PassPermit(Owner[h], assigned \ {h}, queued)
  ELSE queued' = queued \ {h} /\ UNCHANGED assigned

Begin(h, k) ==
  /\ pc[h] = "idle" /\ calls[h] < Calls[h]
  /\ op' = [op EXCEPT ![h] = k]
  /\ calls' = [calls EXCEPT ![h] = @ + 1]
  /\ \/ Exhausted(Owner[h]) /\ Return(h, "exceeded")
     \/ ~Exhausted(Owner[h]) /\ Goto(h, "checking") /\ UNCHANGED <<last, notice>>
  /\ UNCHANGED <<permVars, quotaVars, pollVars, srcVars, endVars, histVars, buf, accepted>>

\* wait_exhausted registers on the group's Notify, then looks at the quota.  An
\* exhaustion that comes in between is found by the look, as in Connection.
Check(h) ==
  /\ pc[h] = "checking"
  /\ \/ Exhausted(Owner[h]) /\ Return(h, "exceeded") /\ DropPermit(h)
     \/ /\ ~Exhausted(Owner[h])
        /\ Goto(h, "acquiring")
        /\ notice' = [notice EXCEPT ![h] = "listening"]
        /\ UNCHANGED <<last, permVars>>
  /\ UNCHANGED <<op, calls, quotaVars, pollVars, srcVars, endVars, histVars, buf, accepted>>

Acquire(h) ==
  LET p == Owner[h] IN
  /\ pc[h] = "acquiring"
  /\ \/ rxClosed[p] /\ Return(h, "disconnected") /\ DropPermit(h)
     \/ /\ ~rxClosed[p]
        /\ h \in assigned \/ Free(p) > 0
        /\ assigned' = assigned \ {h}
        /\ Goto(h, "permit")
        /\ notice' = [notice EXCEPT ![h] = "none"]
        /\ UNCHANGED <<last, queued>>
     \/ /\ ~rxClosed[p]
        /\ h \notin assigned /\ Free(p) <= 0
        /\ queued' = queued \cup {h}
        /\ Goto(h, "parked")
        /\ UNCHANGED <<last, notice, assigned>>
  /\ UNCHANGED <<op, calls, quotaVars, pollVars, srcVars, endVars, histVars, buf, accepted>>

Wake(h) ==
  /\ pc[h] = "parked"
  /\ \/ notice[h] = "notified" /\ Goto(h, "checking")
     \/ /\ notice[h] # "notified"
        /\ h \in assigned \/ rxClosed[Owner[h]]
        /\ Goto(h, "acquiring")
  /\ UNCHANGED <<op, calls, last, notice, permVars, quotaVars, pollVars, srcVars, endVars,
                 histVars, buf, accepted>>

\* Quota::lock_group, with the permit in hand.
Lock(h) ==
  /\ pc[h] = "permit" /\ gate = None
  /\ gate' = h
  /\ Goto(h, "locked")
  /\ UNCHANGED <<op, calls, last, notice, permVars, sent, extras, pollVars, srcVars,
                 endVars, histVars, buf, accepted>>

\* The future is dropped at one of its two awaits.
Cancel(h) ==
  /\ pc[h] \in {"parked", "permit"}
  /\ Return(h, "cancelled")
  /\ DropPermit(h)
  /\ UNCHANGED <<op, calls, quotaVars, pollVars, srcVars, endVars, histVars, buf, accepted>>

\* (fault) every payload is an extra
SpendExtrasFirst(p) ==
  /\ extras' = IF Max # None THEN extras + 1 ELSE extras
  /\ sent' = IF PMax[p] # None \/ sent[p] < PMin[p] THEN [sent EXCEPT ![p] = @ + 1] ELSE sent

\* (fault) the reserved slots count, the extras do not
SpendUncounted(p) ==
  /\ sent' = IF PMax[p] # None \/ sent[p] < PMin[p] THEN [sent EXCEPT ![p] = @ + 1] ELSE sent
  /\ UNCHANGED extras

\* The two counters change one after the other, but a check that reads them in
\* between finds what it would find before or after.
Spend(p) ==
  /\ extras' = IF sent[p] >= PMin[p] /\ Max # None THEN extras + 1 ELSE extras
  /\ sent' = IF PMax[p] # None \/ sent[p] < PMin[p] THEN [sent EXCEPT ![p] = @ + 1] ELSE sent

Commit(h) ==
  /\ pc[h] = "locked"
  /\ \/ /\ ~Exhausted(Owner[h])
        /\ IF op[h] = "message" THEN Spend(Owner[h]) ELSE UNCHANGED <<sent, extras>>
        /\ Goto(h, "committed")
        /\ UNCHANGED <<last, notice, permVars, gate>>
     \/ /\ Exhausted(Owner[h])
        /\ Return(h, "exceeded")
        /\ DropPermit(h)
        /\ gate' = None
        /\ UNCHANGED <<sent, extras>>
  /\ UNCHANGED <<op, calls, pollVars, srcVars, endVars, histVars, buf, accepted>>

Enqueue(h) ==
  LET p == Owner[h] IN
  /\ pc[h] = "committed"
  /\ buf' = IF Kept(p) THEN [buf EXCEPT ![p] = Append(@, op[h])] ELSE buf
  /\ accepted' = IF op[h] = "message" THEN [accepted EXCEPT ![p] = @ + 1] ELSE accepted
  /\ passed' = IF buf[p] = <<>> THEN [passed EXCEPT ![p] = Nobody] ELSE passed
  /\ Goto(h, "notifying")
  /\ UNCHANGED <<op, calls, last, notice, permVars, quotaVars, pollVars, srcVars, endVars,
                 delivered, cut>>

\* (fault) only the producer's own sends are told
NotifyOwn(h) ==
  /\ pc[h] = "notifying"
  /\ Goto(h, "idle")
  /\ last' = [last EXCEPT ![h] = "ok"]
  /\ notice' = [g \in Handles |-> IF Owner[g] = Owner[h] /\ notice[g] = "listening" /\ Exhausted(Owner[h])
                                  THEN "notified" ELSE notice[g]]
  /\ gate' = None
  /\ UNCHANGED <<op, calls, permVars, sent, extras, pollVars, srcVars, endVars, histVars,
                 buf, accepted>>

\* notify_if_exhausted wakes the group's sends and the merged input; then the
\* gate is released.
Notify(h) ==
  /\ pc[h] = "notifying"
  /\ Goto(h, "idle")
  /\ last' = [last EXCEPT ![h] = "ok"]
  /\ \/ /\ Exhausted(Owner[h])
        /\ notice' = [g \in Handles |-> IF notice[g] = "listening" THEN "notified"
                                                                   ELSE notice[g]]
        /\ wake' = "notified"
     \/ ~Exhausted(Owner[h]) /\ UNCHANGED <<notice, wake>>
  /\ gate' = None
  /\ UNCHANGED <<op, calls, permVars, sent, extras, next, task, scan, checked, srcVars, endVars,
                 histVars, buf, accepted>>

Close(h) ==
  /\ pc[h] = "idle"
  /\ Goto(h, "closed")
  /\ UNCHANGED <<op, calls, last, notice, permVars, quotaVars, pollVars, srcVars, endVars,
                 histVars, buf, accepted>>

-----------------------------------------------------------------------------
(* MergedInputs::poll_next and the end of Inputs::poll_recv_event. *)

Index == (next + scan) % N

\* A source queue wakes its receiver when it has an event, or when it can tell
\* that none will come.
Drained(p) == buf[p] = <<>> /\ (Senders(p) = {} \/ (rxClosed[p] /\ Holding(p) = {}))
Ready(p)   == ~done[p] /\ Kept(p) /\ (buf[p] # <<>> \/ Drained(p))

Looking == task = "polling" /\ scan < N /\ ~done[Index]

StopPolling(how) == task' = how /\ scan' = 0
LookOn           == scan' = scan + 1 /\ UNCHANGED task

CloseSources(S) ==
  /\ rxClosed' = [p \in Producers |-> rxClosed[p] \/ p \in S]
  /\ queued' = {h \in queued : Owner[h] \notin S}

\* A poll renews the registration on the Notify before it looks at any source.
\* A receiving task that found nothing polls again only when it is woken.
Poll ==
  /\ inp = "Merged"
  /\ \/ task = "idle"
     \/ task = "asleep" /\ (wake = "notified" \/ \E p \in Producers : Ready(p))
  /\ task' = "polling"
  /\ wake' = "listening"
  /\ UNCHANGED <<outVars, permVars, quotaVars, next, scan, checked, srcVars, endVars,
                 histVars, buf, accepted>>

\* The pending receive is dropped.
CancelReceive ==
  /\ task = "asleep"
  /\ task' = "idle"
  /\ UNCHANGED <<outVars, permVars, quotaVars, next, wake, scan, checked, srcVars, endVars,
                 histVars, buf, accepted>>

Skip ==
  /\ task = "polling" /\ scan < N /\ done[Index]
  /\ LookOn
  /\ UNCHANGED <<outVars, permVars, quotaVars, next, wake, checked, srcVars, endVars,
                 histVars, buf, accepted>>

\* (fault) the quota of the source is not looked at
RetireNever ==
  /\ Looking /\ ~checked
  /\ checked' = TRUE
  /\ UNCHANGED <<outVars, permVars, quotaVars, next, wake, task, scan, srcVars, endVars,
                 histVars, buf, accepted>>

\* (fault) an exhausted source is closed at once, with what its queue holds
RetireAtOnce ==
  /\ Looking /\ ~checked
  /\ checked' = TRUE
  /\ IF Exhausted(Index) /\ src[Index] = "Connected"
     THEN /\ src' = [src EXCEPT ![Index] = "Disconnected"]
          /\ buf' = [buf EXCEPT ![Index] = <<>>]
          /\ CloseSources({Index})
     ELSE UNCHANGED <<src, rxClosed, queued, buf>>
  /\ UNCHANGED <<outVars, assigned, quotaVars, next, wake, task, scan, taken, done, endVars,
                 histVars, accepted>>

\* A source whose quota is exhausted is disconnected before it is polled.
Retire ==
  /\ Looking /\ ~checked
  /\ checked' = TRUE
  /\ IF Exhausted(Index) /\ src[Index] = "Connected"
     THEN src' = [src EXCEPT ![Index] = "Disconnected"] /\ CloseSources({Index})
     ELSE UNCHANGED <<src, rxClosed, queued>>
  /\ UNCHANGED <<outVars, assigned, quotaVars, next, wake, task, scan, taken, done, endVars,
                 histVars, buf, accepted>>

\* The source has nothing now.
Nothing ==
  /\ Kept(Index) /\ buf[Index] = <<>> /\ ~Drained(Index)
  /\ LookOn
  /\ UNCHANGED <<permVars, next, srcVars, endVars, histVars, buf>>

\* The merged input is over: all its receivers are dropped.
End(how) ==
  /\ inp' = "Ended"
  /\ ending' = how
  /\ CloseSources(Producers)
  /\ buf' = [p \in Producers |-> <<>>]
  /\ UNCHANGED assigned

\* (fault) only the producers' minimums count
VerdictLenient(counts, count) ==
  IF \E p \in Producers : counts[p] < PMin[p] THEN "short" ELSE "complete"

\* Inputs::finish of the merged input: producers' minimums, then its own.
Verdict(counts, count) ==
  IF count < Min \/ \E p \in Producers : counts[p] < PMin[p] THEN "short" ELSE "complete"

\* (fault) the merger starts every poll at the first source
NextFirst == 0

\* The source after the one that returned an event comes first the next time.
NextTurn == (Index + 1) % N

\* An event of p is returned, before those that wait in the other queues.
PassedBy(p) ==
  [q \in Producers |-> IF q # p /\ buf[q] # <<>> THEN [passed[q] EXCEPT ![p] = @ + 1] ELSE Nobody]

\* The source returns a payload, and with its last one its receiver is dropped;
\* the merged input counts it and may end.
Deliver ==
  LET p == Index
      count == IF PMax[p] # None \/ taken[p] < PMin[p] THEN taken[p] + 1 ELSE taken[p]
      total == IF Max # None \/ received < Min THEN received + 1 ELSE received
      counts == [taken EXCEPT ![p] = count]
  IN
  /\ Kept(p) /\ buf[p] # <<>> /\ Head(buf[p]) = "message"
  /\ taken' = counts
  /\ received' = total
  /\ src' = IF PMax[p] = count THEN [src EXCEPT ![p] = "Ended"] ELSE src
  /\ next' = NextTurn
  /\ StopPolling("idle")
  /\ passed' = PassedBy(p)
  /\ IF Max = total
     THEN End(Verdict(counts, total))
     ELSE /\ UNCHANGED <<inp, ending>>
          /\ IF PMax[p] = count
             THEN CloseSources({p}) /\ buf' = [buf EXCEPT ![p] = <<>>] /\ UNCHANGED assigned
             ELSE /\ buf' = [buf EXCEPT ![p] = Tail(@)]
                  /\ PassPermit(p, assigned, queued)
                  /\ UNCHANGED rxClosed
  /\ delivered' = IF ending' = "short" THEN delivered ELSE [delivered EXCEPT ![p] = @ + 1]
  /\ UNCHANGED <<done, cut>>

\* A connect event is returned like a payload, but counts nowhere.
DeliverConnect ==
  /\ Kept(Index) /\ buf[Index] # <<>> /\ Head(buf[Index]) = "connect"
  /\ buf' = [buf EXCEPT ![Index] = Tail(@)]
  /\ PassPermit(Index, assigned, queued)
  /\ next' = NextTurn
  /\ StopPolling("idle")
  /\ passed' = PassedBy(Index)
  /\ UNCHANGED <<srcVars, endVars, delivered, cut>>

\* A marker or the end of one source: the source is done, unless its minimum
\* was missed, which ends the merged input.
SourceOver ==
  LET p == Index
      marked == Kept(p) /\ buf[p] # <<>> /\ Head(buf[p]) = "disconnect"
  IN
  /\ marked \/ ~Kept(p) \/ Drained(p)
  /\ cut' = IF marked THEN cut \cup {p} ELSE cut
  /\ \/ /\ Kept(p) /\ taken[p] < PMin[p]
        /\ End("short")
        /\ StopPolling("idle")
        /\ src' = [src EXCEPT ![p] = "Ended"]
        /\ UNCHANGED done
     \/ /\ ~Kept(p) \/ taken[p] >= PMin[p]
        /\ done' = [done EXCEPT ![p] = TRUE]
        /\ src' = [src EXCEPT ![p] = "Closed"]
        /\ buf' = [buf EXCEPT ![p] = <<>>]
        /\ CloseSources({p})
        /\ LookOn
        /\ UNCHANGED <<inp, ending, assigned>>
  /\ UNCHANGED <<next, taken, received, delivered, passed>>

Visit ==
  /\ Looking /\ checked
  /\ checked' = FALSE
  /\ Nothing \/ Deliver \/ DeliverConnect \/ SourceOver
  /\ UNCHANGED <<outVars, quotaVars, wake, accepted>>

\* All sources were looked at: the stream is over, or the task sleeps.
ScanDone ==
  /\ task = "polling" /\ scan = N
  /\ \/ (\A p \in Producers : done[p]) /\ End(Verdict(taken, received)) /\ StopPolling("idle")
     \/ /\ \E p \in Producers : ~done[p]
        /\ StopPolling("asleep")
        /\ UNCHANGED <<inp, ending, rxClosed, permVars, buf>>
  /\ UNCHANGED <<outVars, quotaVars, next, wake, checked, src, taken, done, received,
                 histVars, accepted>>

\* Inputs::disconnect of the merged input, between two receives.
Disconnect ==
  /\ inp = "Merged" /\ task = "idle"
  /\ src' = [p \in Producers |-> IF src[p] = "Connected" THEN "Disconnected" ELSE src[p]]
  /\ CloseSources(Producers)
  /\ UNCHANGED <<outVars, assigned, quotaVars, pollVars, taken, done, endVars, histVars,
                 buf, accepted>>

\* Inputs::close, or the merged input is dropped.
CloseInput ==
  /\ inp \in {"Merged", "Ended"} /\ task = "idle"
  /\ inp' = "Closed"
  /\ ending' = IF ending = "open" THEN "aborted" ELSE ending
  /\ CloseSources(Producers)
  /\ buf' = [p \in Producers |-> <<>>]
  /\ UNCHANGED <<outVars, assigned, quotaVars, pollVars, src, taken, done, received,
                 histVars, accepted>>

-----------------------------------------------------------------------------

Advance(h) == Check(h) \/ Acquire(h) \/ Wake(h) \/ Lock(h) \/ Commit(h)
              \/ Enqueue(h) \/ Notify(h)

HandleStep(h) ==
  \/ \E k \in Ops : Begin(h, k)
  \/ Advance(h)
  \/ Cancel(h)
  \/ Close(h)

Scanning == Skip \/ Retire \/ Visit \/ ScanDone

Next ==
  \/ \E h \in Handles : HandleStep(h)
  \/ Poll \/ CancelReceive \/ Scanning \/ Disconnect \/ CloseInput

Spec == Init /\ [][Next]_vars

\* Woken sends run; nobody has to receive.
TaskSpec == Spec /\ \A h \in Handles : WF_vars(Advance(h))

\* The receiving task keeps receiving; it is woken by its sources and by the
\* group's Notify, and by nothing else.
Receiving == WF_vars(Poll) /\ WF_vars(Scanning)

-----------------------------------------------------------------------------
(* Properties. *)

\* Every variable has its type.
SendTypes ==
  /\ pc \in [Handles -> {"idle", "checking", "acquiring", "parked", "permit",
                         "locked", "committed", "notifying", "closed"}]
  /\ op \in [Handles -> {"message", "connect", "disconnect"}]
  /\ calls \in [Handles -> Nat]
  /\ last \in [Handles -> {"none", "ok", "exceeded", "disconnected", "cancelled"}]
  /\ notice \in [Handles -> {"none", "listening", "notified"}]

PermitTypes == queued \in SUBSET Handles /\ assigned \in SUBSET Handles

QuotaTypes == gate \in Handles \cup {None} /\ sent \in [Producers -> Nat] /\ extras \in Nat

QueueTypes ==
  /\ buf \in [Producers -> Seq({"message", "connect", "disconnect"})]
  /\ rxClosed \in [Producers -> BOOLEAN]
  /\ src \in [Producers -> {"Connected", "Disconnected", "Ended", "Closed"}]
  /\ taken \in [Producers -> Nat] /\ done \in [Producers -> BOOLEAN]

PollTypes ==
  /\ next \in Producers /\ wake \in {"listening", "notified"}
  /\ task \in {"idle", "polling", "asleep"} /\ scan \in 0 .. N /\ checked \in BOOLEAN
  /\ inp \in {"Merged", "Ended", "Closed"} /\ received \in Nat

HistoryTypes ==
  /\ accepted \in [Producers -> Nat] /\ delivered \in [Producers -> Nat]
  /\ cut \in SUBSET Producers /\ passed \in [Producers -> [Producers -> Nat]]
  /\ ending \in {"open", "complete", "short", "aborted"}

TypeOK == SendTypes /\ PermitTypes /\ QuotaTypes /\ QueueTypes /\ PollTypes /\ HistoryTypes

\* The payloads of p that have left its quota: the enqueued ones, and the one
\* that is between its commit and its enqueue.
Pending(p) == {h \in Handles : Owner[h] = p /\ op[h] = "message" /\ pc[h] = "committed"}
Spent(p)   == accepted[p] + Cardinality(Pending(p))

Slots(count) == UNION {{p} \X (1 .. count[p]) : p \in Producers}
SpentSlots   == Slots([p \in Producers |-> Spent(p)])

\* However the sends race, what was spent and what is still reserved fit into
\* the input's maximum: no producer takes a slot another one must be able to
\* fill, and the input never gets more than its maximum.
BudgetKept ==
  Max # None => Cardinality(SpentSlots \cup Reserved) <= Max

\* A send is refused for its quota only when its producer has no slot left.
RefusalJustified ==
  \A h \in Handles : last[h] = "exceeded" =>
    \/ PMax[Owner[h]] # None /\ Spent(Owner[h]) = PMax[Owner[h]]
    \/ Max # None /\ Cardinality(SpentSlots \cup Reserved) = Max

\* The payload that fills the input is returned, never replaced by a
\* producer's shortfall: the reservation has left room for every minimum.
FullIsComplete ==
  Max # None /\ received = Max => ending \notin {"short", "open"}

\* An input that ended by itself returned every payload any source accepted,
\* except behind a source's own marker, and met every minimum.
EndIsComplete ==
  ending = "complete" =>
    /\ \A p \in Producers : delivered[p] >= PMin[p]
    /\ Cardinality(Slots(delivered)) >= Min
    /\ \A p \in Producers \ cut : delivered[p] = accepted[p]

\* While an event waits, at most one event of any other producer is returned.
FairTurns == \A p, q \in Producers : passed[q][p] <= 1

\* A send is woken when its producer's share is used up, by whichever producer,
\* even if nothing is ever received again.
ShareEndWakesSends ==
  \A h \in Handles : (pc[h] = "parked" /\ Exhausted(Owner[h])) ~> (pc[h] = "idle")

\* The merged input ends when no source can send any more, though all handles
\* may still be open and all queues empty.
MergeEnds ==
  Receiving => ((\A p \in Producers : Exhausted(p) \/ Senders(p) = {}) ~> (ending # "open"))

\* What a source accepted is returned, unless its marker or an end came first.
\* As only so many sends are begun, catching up again and again means that
\* nothing is left behind.
Delivery ==
  Receiving => \A p \in Producers :
    (delivered[p] < accepted[p]) ~>
    (delivered[p] = accepted[p] \/ p \in cut \/ ending \in {"short", "aborted"})

=============================================================================
