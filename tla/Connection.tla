----------------------------- MODULE Connection -----------------------------
(***************************************************************************)
(* One connection of the flow: the Outputs handles that share a sender and *)
(* a quota, the bounded Tokio queue between them, and the Inputs endpoint. *)
(*                                                                         *)
(* A step is one atomic access of the code, so that the tasks of a         *)
(* multi-threaded runtime interleave as they can.  A handle runs one       *)
(* operation at a time; operations that overlap on one handle behave like  *)
(* operations of two clones, because the handle only lends out its sender. *)
(*                                                                         *)
(* The queue is Tokio's: a semaphore of Cap permits with a FIFO of         *)
(* waiters, a permit being either free, held by a send, handed to a waiter *)
(* that has not run yet, or spent on a buffered event.                     *)
(***************************************************************************)
EXTENDS Integers, Sequences, FiniteSets

CONSTANTS
  Handles,   \* the output handles that may ever exist (clones of one output)
  Min, Max,  \* effective cardinality of the connection; Max may be None
  None,      \* Rust's Option::None
  Cap,       \* capacity of the queue
  Ops,       \* the operations the handles perform, a subset of Operations
  Calls      \* bound: operations begun on each handle

Kinds      == {"message", "connect", "disconnect"}
Operations == Kinds \cup {"watch"}

Seqs == INSTANCE SequencesExt

ASSUME ConnectionAssumption ==
  /\ IsFiniteSet(Handles) /\ Handles # {}
  /\ Min \in Nat
  /\ None \notin Nat
  /\ Max \in Nat \cup {None}
  /\ Max # None => Min <= Max
  /\ Cap \in Nat \ {0}
  /\ Ops \subseteq Operations
  /\ Calls \in Nat

VARIABLES
  pc,        \* where each handle's operation is
  op,        \* the operation each handle runs, or ran last
  num,       \* how many operations each handle has begun
  last,      \* how each handle's last operation returned
  notice,    \* its registration on the quota's Notify
  waiters,   \* the semaphore's FIFO of waiting reservations
  assigned,  \* waiters the semaphore has handed a permit to
  sent,      \* Quota::sent
  buf,       \* the events in the queue
  rxClosed,  \* the receiver no longer accepts reservations
  inp,       \* InputPortState
  got,       \* what the receive in progress has taken out of the queue
  received,  \* Inputs::received
  accepted,  \* history: the payloads enqueued, in order
  delivered, \* history: the payloads returned to the receiving task
  ending     \* history: how reception ended

outVars  == <<pc, op, num, last, notice>>
permVars == <<waiters, assigned>>
inVars   == <<rxClosed, inp, got, received, delivered, ending>>
vars     == <<outVars, permVars, sent, buf, accepted, inVars>>

-----------------------------------------------------------------------------

Event   == [kind : Kinds, from : Handles, num : Nat]
Payload == [from : Handles, num : Nat]
Idle    == [kind |-> "idle"]   \* no receive is between its two steps
Eos     == [kind |-> "eos"]    \* poll_recv returned None

EventOf(h)   == [kind |-> op[h], from |-> h, num |-> num[h]]
PayloadOf(e) == [from |-> e.from, num |-> e.num]

\* Quota::check fails.
Exhausted == Max # None /\ sent >= Max

\* Cardinality::is_unconstrained
Unconstrained == Min = 0 /\ Max = None

\* Sends of an unlimited connection use the queue alone, never the quota.
Guarded(k) == Max # None \/ k = "watch"

Senders  == {h \in Handles : pc[h] \notin {"absent", "closed"}}
Holding  == {h \in Handles : pc[h] \in {"permit", "committed"}} \cup assigned
Free     == Cap - Len(buf) - Cardinality(Holding)
Retained == inp \in {"Connected", "Disconnected"}

-----------------------------------------------------------------------------

Init ==
  /\ \E h \in Handles : pc = [g \in Handles |-> IF g = h THEN "idle" ELSE "absent"]
  /\ op   = [h \in Handles |-> "message"]
  /\ num  = [h \in Handles |-> 0]
  /\ last = [h \in Handles |-> "none"]
  /\ notice = [h \in Handles |-> "none"]
  /\ waiters = <<>> /\ assigned = {}
  /\ sent = 0
  /\ buf = <<>> /\ accepted = <<>> /\ delivered = <<>>
  /\ inp = IF Max = 0 THEN "Ended" ELSE "Connected"
  /\ rxClosed = (Max = 0)
  /\ got = Idle
  /\ received = 0
  /\ ending = IF Max = 0 THEN "complete" ELSE "open"

-----------------------------------------------------------------------------
(* The semaphore. *)

\* A permit comes back: the first waiter gets it, or it is free again.
PassPermit(holders, queue) ==
  IF queue = <<>>
  THEN assigned' = holders /\ waiters' = queue
  ELSE assigned' = holders \cup {Head(queue)} /\ waiters' = Tail(queue)

\* (fault) the permit of a dropped reservation is freed, but nobody is woken
LeaveQueueSilently(h) ==
  /\ assigned' = assigned \ {h}
  /\ waiters' = IF h \in assigned THEN waiters ELSE SelectSeq(waiters, LAMBDA g : g # h)

\* A reservation is dropped while it waits, or with a permit handed to it.
LeaveQueue(h) ==
  \/ h \in assigned /\ PassPermit(assigned \ {h}, waiters)
  \/ /\ h \notin assigned
     /\ \E i \in DOMAIN waiters : waiters[i] = h /\ waiters' = Seqs!RemoveAt(waiters, i)
     /\ UNCHANGED assigned
  \/ /\ h \notin assigned /\ ~Seqs!Contains(waiters, h)
     /\ UNCHANGED permVars

-----------------------------------------------------------------------------
(* Outputs::send_event and Outputs::closed. *)

Goto(h, where) == pc' = [pc EXCEPT ![h] = where]

Return(h, how) ==
  /\ Goto(h, "idle")
  /\ last' = [last EXCEPT ![h] = how]
  /\ notice' = [notice EXCEPT ![h] = "none"]

ExhaustedResult(k) == IF k = "watch" THEN "gone" ELSE "exceeded"
ClosedResult(k)    == IF k = "watch" THEN "gone" ELSE "disconnected"

\* The call and its first look at the quota.
Begin(h, k) ==
  /\ pc[h] = "idle" /\ num[h] < Calls
  /\ op' = [op EXCEPT ![h] = k]
  /\ num' = [num EXCEPT ![h] = @ + 1]
  /\ \/ Exhausted /\ Return(h, ExhaustedResult(k))
     \/ /\ ~Exhausted
        /\ Goto(h, IF Guarded(k) THEN "enabling" ELSE "acquiring")
        /\ last' = [last EXCEPT ![h] = "none"]
        /\ UNCHANGED notice
  /\ UNCHANGED <<permVars, sent, buf, accepted, inVars>>

\* wait_exhausted registers on the Notify ...
Enable(h) ==
  /\ pc[h] = "enabling"
  /\ Goto(h, "checking")
  /\ notice' = [notice EXCEPT ![h] = "listening"]
  /\ UNCHANGED <<op, num, last, permVars, sent, buf, accepted, inVars>>

\* (fault) the quota is looked at before the registration only
CheckSkipped(h) ==
  /\ pc[h] = "checking"
  /\ Goto(h, "acquiring")
  /\ UNCHANGED <<op, num, last, notice, permVars, sent, buf, accepted, inVars>>

\* ... and only then looks at the quota.
Check(h) ==
  /\ pc[h] = "checking"
  /\ \/ /\ Exhausted
        /\ Return(h, ExhaustedResult(op[h]))
        /\ LeaveQueue(h)
     \/ /\ ~Exhausted
        /\ Goto(h, "acquiring")
        /\ UNCHANGED <<last, notice, permVars>>
  /\ UNCHANGED <<op, num, sent, buf, accepted, inVars>>

\* (fault) closed() takes a full queue for a closed one
RefusedWhenFull(h) ==
  /\ rxClosed \/ (op[h] = "watch" /\ Free <= 0)
  /\ Return(h, ClosedResult(op[h]))
  /\ LeaveQueue(h)

\* The second future of the race: the reservation, or the receiver's closure.
Refused(h) ==
  /\ rxClosed
  /\ Return(h, ClosedResult(op[h]))
  /\ LeaveQueue(h)

Granted(h) ==
  /\ ~rxClosed /\ op[h] # "watch"
  /\ h \in assigned \/ Free > 0
  /\ assigned' = assigned \ {h}
  /\ Goto(h, IF Guarded(op[h]) THEN "permit" ELSE "committed")
  /\ notice' = [notice EXCEPT ![h] = "none"]
  /\ UNCHANGED <<last, waiters>>

Postponed(h) ==
  /\ ~rxClosed
  /\ op[h] = "watch" \/ (h \notin assigned /\ Free <= 0)
  /\ waiters' = IF op[h] = "watch" THEN waiters ELSE Append(waiters, h)
  /\ Goto(h, "parked")
  /\ UNCHANGED <<last, notice, assigned>>

Acquire(h) ==
  /\ pc[h] = "acquiring"
  /\ Refused(h) \/ Granted(h) \/ Postponed(h)
  /\ UNCHANGED <<op, num, sent, buf, accepted, inVars>>

\* A parked task runs again because one of its two futures was woken.
Wake(h) ==
  /\ pc[h] = "parked"
  /\ \/ notice[h] = "notified" /\ Goto(h, "enabling")
     \/ /\ notice[h] # "notified"
        /\ h \in assigned \/ rxClosed
        /\ Goto(h, "acquiring")
  /\ UNCHANGED <<op, num, last, notice, permVars, sent, buf, accepted, inVars>>

\* The parked future is dropped: a timeout, a lost select, an aborted task.
Cancel(h) ==
  /\ pc[h] = "parked"
  /\ Return(h, "cancelled")
  /\ LeaveQueue(h)
  /\ UNCHANGED <<op, num, sent, buf, accepted, inVars>>

\* (fault) the maximum is not checked again with the permit in hand
CommitUnchecked(h) ==
  /\ pc[h] = "permit"
  /\ sent' = IF op[h] = "message" THEN sent + 1 ELSE sent
  /\ Goto(h, "committed")
  /\ UNCHANGED <<op, num, last, notice, permVars, buf, accepted, inVars>>

\* (fault) a payload that comes too late is dropped and the send reports success
CommitDropsLate(h) ==
  /\ pc[h] = "permit"
  /\ \/ /\ ~Exhausted
        /\ sent' = IF op[h] = "message" THEN sent + 1 ELSE sent
        /\ Goto(h, "committed")
        /\ UNCHANGED <<last, notice, permVars>>
     \/ /\ Exhausted
        /\ Return(h, "ok")
        /\ PassPermit(assigned, waiters)
        /\ UNCHANGED sent
  /\ UNCHANGED <<op, num, buf, accepted, inVars>>

\* Quota::commit for a payload, Quota::check for a control event.
Commit(h) ==
  /\ pc[h] = "permit"
  /\ \/ /\ ~Exhausted
        /\ sent' = IF op[h] = "message" THEN sent + 1 ELSE sent
        /\ Goto(h, "committed")
        /\ UNCHANGED <<last, notice, permVars>>
     \/ /\ Exhausted
        /\ Return(h, "exceeded")
        /\ PassPermit(assigned, waiters)
        /\ UNCHANGED sent
  /\ UNCHANGED <<op, num, buf, accepted, inVars>>

\* Permit::send; nobody will read it once the receiver is gone.
Enqueue(h) ==
  /\ pc[h] = "committed"
  /\ buf' = IF Retained THEN Append(buf, EventOf(h)) ELSE buf
  /\ accepted' = IF op[h] = "message" THEN Append(accepted, PayloadOf(EventOf(h)))
                                      ELSE accepted
  /\ \/ Guarded(op[h]) /\ Goto(h, "notifying") /\ UNCHANGED <<last, notice>>
     \/ ~Guarded(op[h]) /\ Return(h, "ok")
  /\ UNCHANGED <<op, num, permVars, sent, inVars>>

\* Quota::notify_if_exhausted, and the send returns.
Notify(h) ==
  /\ pc[h] = "notifying"
  /\ Goto(h, "idle")
  /\ last' = [last EXCEPT ![h] = "ok"]
  /\ notice' = IF Exhausted
               THEN [g \in Handles |-> IF notice[g] = "listening" THEN "notified"
                                                                  ELSE notice[g]]
               ELSE notice
  /\ UNCHANGED <<op, num, permVars, sent, buf, accepted, inVars>>

\* Cloning needs only a shared reference, so h may be in the middle of a send.
Clone(h, g) ==
  /\ h \in Senders /\ pc[g] = "absent"
  /\ Goto(g, "idle")
  /\ UNCHANGED <<op, num, last, notice, permVars, sent, buf, accepted, inVars>>

\* Outputs::close, and dropping the handle.
Close(h) ==
  /\ pc[h] = "idle"
  /\ Goto(h, "closed")
  /\ UNCHANGED <<op, num, last, notice, permVars, sent, buf, accepted, inVars>>

-----------------------------------------------------------------------------
(* Inputs. *)

\* Receiver::close, which dropping the receiver also does.
CloseTransport ==
  /\ rxClosed' = TRUE
  /\ waiters' = <<>>
  /\ UNCHANGED assigned

\* poll_recv takes an event, which gives its permit back ...
Pop ==
  /\ Retained /\ got = Idle /\ buf # <<>>
  /\ got' = Head(buf)
  /\ buf' = Tail(buf)
  /\ PassPermit(assigned, waiters)
  /\ UNCHANGED <<outVars, sent, accepted, rxClosed, inp, received, delivered, ending>>

\* (fault) the end is reported while a permit is still out
DrainedTooEarly ==
  /\ Retained /\ got = Idle /\ buf = <<>> /\ ending = "open"
  /\ Senders = {} \/ rxClosed
  /\ got' = Eos
  /\ UNCHANGED <<outVars, permVars, sent, buf, accepted, rxClosed, inp, received,
                 delivered, ending>>

\* ... or finds that none can come any more.  A further None changes nothing.
Drained ==
  /\ Retained /\ got = Idle /\ buf = <<>> /\ ending = "open"
  /\ Senders = {} \/ (rxClosed /\ Holding = {})
  /\ got' = Eos
  /\ UNCHANGED <<outVars, permVars, sent, buf, accepted, rxClosed, inp, received,
                 delivered, ending>>

\* (fault) the ended input keeps its receiver
FinishKeepsReceiver(count, how) ==
  /\ inp' = "Ended"
  /\ ending' = IF count < Min THEN (IF how = "cut" THEN "cutshort" ELSE "short") ELSE how
  /\ UNCHANGED <<rxClosed, permVars, buf>>

\* Inputs::finish: the receiver is dropped and the minimum checked.
Finish(count, how) ==
  /\ inp' = "Ended"
  /\ CloseTransport
  /\ buf' = <<>>
  /\ ending' = IF count < Min THEN (IF how = "cut" THEN "cutshort" ELSE "short") ELSE how

KeepOpen == UNCHANGED <<inp, rxClosed, permVars, buf, ending>>

\* (fault) unlimited streams do not count at all
CountedIfLimited == IF Max # None THEN received + 1 ELSE received

\* Unlimited streams remember their progress up to Min only.
Counted == IF Max # None \/ received < Min THEN received + 1 ELSE received

\* (fault) one payload too many before the end
TakeMessageOffByOne ==
  /\ got.kind = "message"
  /\ received' = Counted
  /\ delivered' = Append(delivered, PayloadOf(got))
  /\ IF Max # None /\ Counted > Max THEN Finish(Counted, "complete") ELSE KeepOpen

TakeMessage ==
  /\ got.kind = "message"
  /\ received' = Counted
  /\ delivered' = IF Max = Counted /\ Counted < Min THEN delivered
                  ELSE Append(delivered, PayloadOf(got))
  /\ IF Max = Counted THEN Finish(Counted, "complete") ELSE KeepOpen

TakeConnect ==
  /\ got.kind = "connect"
  /\ KeepOpen
  /\ UNCHANGED <<received, delivered>>

TakeDisconnect ==
  /\ got.kind = "disconnect"
  /\ Finish(received, "cut")
  /\ UNCHANGED <<received, delivered>>

TakeEos ==
  /\ got = Eos
  /\ IF Unconstrained
     THEN /\ ending' = "complete"
          /\ UNCHANGED <<inp, rxClosed, permVars, buf>>
     ELSE Finish(received, "complete")
  /\ UNCHANGED <<received, delivered>>

\* The rest of poll_recv_event: account for what was taken and return it.
Process ==
  /\ TakeMessage \/ TakeConnect \/ TakeDisconnect \/ TakeEos
  /\ got' = Idle
  /\ UNCHANGED <<outVars, sent, accepted>>

\* (fault) disconnecting discards what was accepted, as closing does
DisconnectDiscards ==
  /\ inp = "Connected" /\ got = Idle
  /\ inp' = "Disconnected"
  /\ CloseTransport
  /\ buf' = <<>>
  /\ UNCHANGED <<outVars, sent, accepted, got, received, delivered, ending>>

\* Inputs::disconnect
Disconnect ==
  /\ inp = "Connected" /\ got = Idle
  /\ inp' = "Disconnected"
  /\ CloseTransport
  /\ UNCHANGED <<outVars, sent, buf, accepted, got, received, delivered, ending>>

\* Inputs::close; dropping the input has the same effect on the outputs.
CloseInput ==
  /\ inp # "Closed" /\ got = Idle
  /\ inp' = "Closed"
  /\ CloseTransport
  /\ buf' = <<>>
  /\ ending' = IF ending = "open" THEN "aborted" ELSE ending
  /\ UNCHANGED <<outVars, sent, accepted, got, received, delivered>>

-----------------------------------------------------------------------------

Advance(h) == Enable(h) \/ Check(h) \/ Acquire(h) \/ Wake(h) \/ Commit(h)
              \/ Enqueue(h) \/ Notify(h)

HandleStep(h) ==
  \/ \E k \in Ops : Begin(h, k)
  \/ Advance(h)
  \/ Cancel(h)
  \/ Close(h)
  \/ \E g \in Handles : Clone(h, g)

Receive == Pop \/ Drained \/ Process

Next == (\E h \in Handles : HandleStep(h)) \/ Receive \/ Disconnect \/ CloseInput

Spec == Init /\ [][Next]_vars

\* The runtime polls a task that was woken, so an operation takes its next
\* step when it can; no caller has to begin, cancel, close or receive.
TaskFairness == (\A h \in Handles : WF_vars(Advance(h))) /\ WF_vars(Process)

TaskSpec == Spec /\ TaskFairness

\* In addition the receiving task keeps calling recv_event until the end.
ConsumerSpec == TaskSpec /\ WF_vars(Receive)

-----------------------------------------------------------------------------
(* What the endpoints report. *)

\* Outputs::state of a handle that exists
OutputState(h) ==
  IF pc[h] = "closed" THEN "Closed"
  ELSE IF Exhausted \/ rxClosed THEN "Disconnected" ELSE "Connected"

-----------------------------------------------------------------------------
(* Properties. *)

Waiting == {"acquiring", "parked"}

\* Every variable has its type.
TypeOK ==
  /\ pc \in [Handles -> {"absent", "idle", "enabling", "checking", "permit", "committed",
                         "notifying", "closed"} \cup Waiting]
  /\ op \in [Handles -> Operations]
  /\ num \in [Handles -> Nat]
  /\ last \in [Handles -> {"none", "ok", "exceeded", "disconnected", "cancelled", "gone"}]
  /\ notice \in [Handles -> {"none", "listening", "notified"}]
  /\ waiters \in Seq(Handles) /\ assigned \in SUBSET Handles
  /\ sent \in Nat /\ received \in Nat
  /\ buf \in Seq(Event)
  /\ accepted \in Seq(Payload) /\ delivered \in Seq(Payload)
  /\ rxClosed \in BOOLEAN
  /\ inp \in {"Connected", "Disconnected", "Ended", "Closed"}
  /\ got \in Event \cup {Idle, Eos}
  /\ ending \in {"open", "complete", "short", "cut", "cutshort", "aborted"}

Committed == {h \in Handles : pc[h] = "committed" /\ op[h] = "message"}

\* The quota counts the payloads that were enqueued and those between their
\* commit and their enqueue, nothing else: a cancelled or failed send spends
\* none, and racing clones never pass the maximum (outputs.rs:291-300).
QuotaExact ==
  Max # None => sent = Len(accepted) + Cardinality(Committed) /\ sent <= Max

\* Permits are conserved, and none lies idle while a send waits for one: a
\* cancelled, refused or late send hands its permit on (outputs.rs:277-297).
PermitsInUse ==
  /\ Free >= 0
  /\ waiters # <<>> => Free = 0

\* A send reports success exactly when its payload was enqueued, once.
SendOutcome ==
  /\ \A i, j \in DOMAIN accepted : accepted[i] = accepted[j] => i = j
  /\ \A h \in Handles :
       pc[h] \in {"idle", "closed"} /\ op[h] = "message" =>
         (last[h] = "ok" <=> \E i \in DOMAIN accepted :
                                accepted[i] = [from |-> h, num |-> num[h]])

Collect(payloads, e) == IF e.kind = "message" THEN Append(payloads, PayloadOf(e)) ELSE payloads

\* The payloads among the events, in their order.
PayloadsOf(events) ==
  LET upto[i \in 0 .. Len(events)] ==
        IF i = 0 THEN <<>> ELSE Collect(upto[i - 1], events[i])
  IN  upto[Len(events)]

\* While the receiver is retained every accepted payload is delivered, taken
\* or still queued, in the order of the enqueues.
NothingLost ==
  Retained => accepted = delivered \o PayloadsOf(<<got>>) \o PayloadsOf(buf)

\* closed() resolves only for a handle that can never send again.
WatchTruthful ==
  \A h \in Handles : last[h] = "gone" => OutputState(h) # "Connected"

\* A send that waits for capacity, and a closed() call, notice that the quota
\* is exhausted or the input gone even if nothing is ever received again.
EndWakesWaiters ==
  \A h \in Handles :
    (pc[h] = "parked" /\ OutputState(h) # "Connected") ~> (pc[h] # "parked")

\* With a receiver that keeps receiving no send waits for ever.
SendsFinish ==
  \A h \in Handles : (pc[h] = "parked" /\ op[h] # "watch") ~> (pc[h] = "idle")

\* Every accepted payload is delivered, unless a disconnect marker or a close
\* of the input cut the stream.
Delivery ==
  \A i \in 1 .. Calls * Cardinality(Handles) :
    (Len(accepted) >= i) ~> (Len(delivered) >= i \/ ending \in {"cut", "cutshort", "aborted"})

\* The receiver sees an end when the last handle is gone, when it stopped the
\* sends itself, and when the maximum was sent.
StreamEnds ==
  (Senders = {} \/ rxClosed \/ Exhausted) ~> (ending # "open")

-----------------------------------------------------------------------------
\* A connection implements the stream of its payloads.
StreamOfPayloads == INSTANCE Stream WITH Payload <- [from : Handles, num : 1 .. Calls]
ImplementsStream == StreamOfPayloads!Spec
=============================================================================
