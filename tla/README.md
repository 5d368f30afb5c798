# A verification of async-flow

async-flow is a Rust crate for flow-based programming: blocks exchange messages
through typed ports, ports are joined by bounded queues with a message-count
range ("cardinality"), and a `System` runs the blocks as Tokio tasks. This
directory holds TLA+ models of its runtime, the TLC runs that check them on
small instances, and TLAPS proofs about them for every instance.

Contents: [the system](#the-system) ·
[modules](#modules-and-how-they-correspond-to-the-code) ·
[runs](#runs-bounds-and-what-they-show) · [fairness](#fairness) ·
[proofs](#proofs) · [what Tokio is assumed to do](#what-tokio-is-assumed-to-do) ·
[not modelled](#not-modelled) · [plan](#plan)

    tlc -workers 2 -config MCConnection_limited.cfg MCConnection.tla
    tlapm ConnectionProofs.tla

## The system

Paths are relative to `src/`, the repository.

| Component | State | Operations | Correct when |
|---|---|---|---|
| `src/tokio/outputs.rs` `Outputs` | `OutputPortState` with a Tokio sender, a shared `Quota` | `send`, `send_event`, `closed`, `close`, `clone`, drop, `state` | success means enqueued once; the maximum holds under racing clones; a cancelled send costs nothing; no send sleeps through the end of its connection |
| `src/tokio/quota.rs` `Quota`, `GroupBudget` | `sent`, `exhausted`; `extras`, `gate`, `changed` | `check`, `commit`, `notify_if_exhausted`, `wait_exhausted`, `lock_group` | counts exactly what was enqueued; minimums stay reserved; waiters are told of exhaustion |
| `src/tokio/inputs.rs` `Inputs` | `InputPortState`, `received` | `recv`, `recv_event`, `disconnect`, `close`, drop | in order and without loss; ends once, completely, and reports a shortfall exactly when there is one |
| `src/tokio/merged_inputs.rs` `MergedInputs` | sources, `done`, `next`, registration on `changed` | `poll_next`, `disconnect`, `check_minima`; `connect`, `projected_ranges` | fair turns; ends when its budget is spent; no producer's shortfall is masked or invented |
| `src/tokio/channel.rs`, `channel_factory.rs` | none | constructors | endpoints start in matching states |
| `src/io/cardinality.rs` | a range | `new`, `intersection`, `from_limits` | exact on machine words |
| `src/model/system_definition.rs`, `system_builder.rs` | declared ports, constraints, connections, exports | `register*`, `connect*`, `export*`, `validate`, capacities | accepts what can be prepared, refuses only what cannot work |
| `src/tokio/system.rs` | ports, pending futures, `JoinSet` | `prepare`, `build`, `run`, `spawn`, `connect`, `take_*`, `execute`, drop | returns what happened; leaves nothing running; its own loops never block each other |
| `src/tokio/runtime_ports.rs` | a table of slots | `install`, `take_*` | each endpoint is claimed once, at its negotiated range |
| `src/model/port_id.rs` | two atomic counters | `next`, conversions, serde | no ID twice, none left over; a number identifies an ID |
| `src/tokio/stdin.rs`, `stdout.rs`, `stderr.rs` | – | loops | pass on what they read, in order, to the end |
| schedulers, flume, errors | – | wrappers | – |

How they interact. An `Outputs` and the `Inputs` it feeds share a Tokio mpsc
queue and an `Arc<Quota>`; clones of the output share the sender. A connected
input with several producers is a `MergedInputs` over one queue per producer;
the quotas of its producers share a `GroupBudget`. Communication is by the
queue, the quota's atomics and wakeups from `tokio::sync::Notify`. Preparation
turns a definition into a `System` with one unpolled future per block;
`execute()` starts and joins them.

What is hard. On a multi-threaded runtime every access to a quota or a queue
interleaves with the others. Any future may be dropped at any of its awaits, so
a permit can be handed to a send that is no longer there. The end of a stream is
decided from several things (closed senders, a closed receiver, an exhausted
quota, a marker in the queue, outstanding permits) that change independently. A
lost wakeup shows only as a task that sleeps for ever. Failures overlap with the
shutdown that they cause. `PROJECT.json` lists these hazards line by line with the
properties that guard against them.

## Modules and how they correspond to the code

`Connection` – one connection. Each handle runs one operation at a time; its
`pc` says between which two atomic accesses it is:

| `pc` | in `Outputs::send_event` / `closed` |
|---|---|
| `idle` | no operation |
| `enabling`, `checking` | in `wait_exhausted`, before and after registering on the `Notify` (quota.rs:135-138) |
| `acquiring` | about to poll the reservation, or `tx.closed()` |
| `parked` | pending at the await (outputs.rs:289, 335) |
| `permit` | holds a permit, has not committed (outputs.rs:290) |
| `committed` | the count is spent, the payload not yet enqueued (outputs.rs:295-299) |
| `notifying` | before `notify_if_exhausted` (outputs.rs:300) |

`sent` is `Quota::sent`; `notice` a handle's registration on `Quota::exhausted`;
`buf`, `waiters`, `assigned`, `rxClosed` the mpsc queue and its semaphore. The
receiving side has two steps, taking an event out of the queue (`Pop`, `Drained`)
and accounting for it (`Process`), with `inp` the `InputPortState`. A connection
without a maximum takes the plain `tx.send` path, as the code does.
`accepted`, `delivered` and `ending` are histories.

`Stream` – the abstract specification: payloads accepted are delivered in
order, the stream ends once, and how it ends tells the truth. It is what the
documentation of `Outputs` and `Inputs` promises a user. `Connection` states
the refinement (`ImplementsStream`); accepted and delivered payloads and the ending
are the histories of `Connection`, so the mapping is the identity on them.

`FanIn` – several producers, their queues and grouped quotas, and the merged
input with its scan over the sources. The commit, the enqueue and the notification
of a send are separate steps under `gate`. The scan visits one source at a time and
looks at the source's quota (`Retire`) before it polls it (`Visit`), so that sends
run in between. The detail of `Connection` that does not matter here is coarser: registering and
looking is one step, waiting sends form a set instead of a queue (a superset of
Tokio's behaviours), events are counted per producer instead of identified. The
two counters of `Quota::commit` change in one step: a reader in between sees
a total that it would see before or after, because only the gate's holder writes.

`FanInRanges` – the numbers: constraints intersected as they are declared, the
sum of the producers' ranges met with the consumer's in `validated_ports`, and the
projection back onto each producer in `projected_ranges`. Counts are machine
words up to `UMax`, and `checked_add` fails beyond it.

`Preparation` – from the `SystemBuilder` to a prepared `System`: the builder's calls, edits of the
public fields of the definition, validation and the checks of `try_from` in their order (`Checks`),
the slot table of `RuntimePorts`, and the factories that claim their blocks' ports. Each call is
atomic, as all of this is synchronous code; what varies is the sequence of calls.
A cardinality is the set of counts it admits, so sums and projections are enumerations
here; that the code's arithmetic computes these sets is the subject of `FanInRanges`.
An endpoint carries its queues, each named after the port that sends into it and as large as
`capacities` says; a queue beyond Tokio's limit panics, as does an `expect()` on a slot that is
not there (`fits`). A `ChannelFactory` is the payload it constructs for, so an entry
filed under another type can be told from a right one. Such entries come from edits, and from exports: the fields of
`PortExport` are public, and the builder files whatever constructor it carries under its type (system_builder.rs:201-204,
230-233). Only preparation compares the two (system.rs:256-260).
An edit sets, replaces or removes one entry of a map or set of the definition, or removes the first of its blocks.
A call of the builder is a step only when it succeeds, as one that returns an error changes nothing. A claim is a step in either
case: `Take` when the checks of `PortSlot::take` pass (`Claimable`), `TakeFails` when they do not, and the factory goes on.
`stage` is how far the definition has got, `held` the endpoints that were claimed.

`PortIds` – the two counters that give new descriptors their IDs, on a machine word of any size. A
call of `next` is a load and compare-and-swaps until one succeeds or the counter is found exhausted;
threads interleave at each. The conversions of an ID to `usize`, to a magnitude, to an index and
through serde are operators on the same word.

`SystemExecution` – a `System` from preparation to the end of `execute()`. A task is
`absent` (never spawned), `pending` (a prepared future), `running`, `ended` or
`dropped` (a future that never started). What a process computes is left out: it can
succeed once the streams it reads have ended, and fail or panic at any time.
`finished` is the `JoinSet`'s queue of completed tasks.

`Pipeline` – what the processes of a pipeline do, which `SystemExecution` leaves open: it
EXTENDS that module and adds the loops of `System::connect`, `stdin`, `stdout` and `stderr`, the bounded queues
between them, and the user at both ends. A process has a payload in `hand` between its `recv` and its `send`; both
loops of the crate have this form. Here `run` and `build` order the calls, and the only way a
process ends well is the end of its input. `SystemExecution` is its abstract specification: `ImplementsExecution`
checks that every step of the loops is one it allows, and that these loops satisfy the fairness it assumes.
A connection is a plain queue in this module, without maxima or markers; that the code's connections without them are is shown in `Connection`.

`MC*` modules give the constants values for TLC. `*Proofs` modules hold the
theorems, `Induction` the inductions they use. Operators marked "(fault)" are not part of the models: each is a plausible bug in the operator
that follows it, and replacing that operator by it violates a property. `PROJECT.json`
pairs them (`mutants`), maps every definition to source lines (`map`) and lists
components, runs, hazards and theorems.

## Runs, bounds and what they show

| Run | Instance | Question | Properties |
|---|---|---|---|
| `connection_limited` | 3 handles, range 1..2, queue of 1, payloads and markers | do racing, cancelled, cloned and closed sends keep the counts, the permits and the payloads? | `QuotaExact` `PermitsInUse` `SendOutcome` `NothingLost` |
| `connection_unlimited` | 2 handles, minimum 2, no maximum | does the path without a quota implement `Stream`? | `ImplementsStream` |
| `connection_wakeups` | 3 handles, 1 payload, `closed()` calls, nobody has to receive | does every waiting operation learn of the end? | `WatchTruthful` `EndWakesWaiters` |
| `connection_delivery` | 2 handles, range 1..2, a steady receiver | does everything arrive, and every stream end? | `ImplementsStream` `SendsFinish` `Delivery` `StreamEnds` |
| `fanin_limited` | 3 producers, input of 2, one slot reserved | does the reservation hold, and is every refusal justified? | `BudgetKept` `RefusalJustified` `FullIsComplete` `EndIsComplete` |
| `fanin_unlimited` | 2 producers, one with 2 clones, no maxima | completeness and turns without a budget | `EndIsComplete` `FairTurns` |
| `fanin_liveness` | 2 producers compete for 2 payloads, with markers and queues of 2 | does the producer that lost the race wake up although nobody receives; if somebody does, does the merge end with open handles on empty queues, and is everything returned? | `ShareEndWakesSends` `MergeEnds` `Delivery` |
| `faninranges` | up to 3 producers, bounds 0, 1, 2, 5 of words up to 5 | is the arithmetic exact, also where it overflows? | `TypeOK` `ValidatedPrepares` `RefusedIsImpossible` `SharesExact` |
| `preparation` | 2 blocks with 4 ports, 2 types, 2 capacities, 4 calls and edits | is every definition refused for a reason or wired as defined? | `NeverPanics` `BuilderIsConsistent` `ClaimsAreLive` `PreparedIsWired` |
| `system_execution` | a pipeline of 2 prepared processes and a spawned task | is what `execute()` returns what happened, and does it return? | `OkIsTotal` `ReturnMeansStopped` `CauseIsFirst` `ExecuteReturns` `DropStops` |
| `pipeline` | a prepared block and a spawned writer, queues of 1, 4 payloads | do the loops behave as `execute()` needs, lose nothing, and never block themselves? | `Delivered` `BlockedFromOutside` `ImplementsExecution` |
| `port_ids` | 3 threads, a word of 8 values | is each ID issued once, up to the last? | `IssuedOnce` `ExhaustedMeansAll` `KeysIdentify` `AllocationEnds` |

Each module's `TypeOK` is proved (that of `FanInRanges` is a property of its run as well), as are the types that
`Pipeline` adds to the module it extends (`LinkTypes`); `Stream` has the variables of `Connection`.

Why the bounds are enough. The races are between a send that commits, one that waits and one
that cancels: three handles. A queue of one makes the second send wait;
a maximum of two lets a payload be in flight while another is refused. More
payloads repeat these situations, and the number of calls on each handle (`Calls`)
bounds nothing else. For `FanIn` one producer with a reserved
slot and two without are the least in which an extra can be taken by one of several;
`N` = 2 suffices for the turns, which are counted for each pair of producers, and for the merge. `fanin_liveness` has queues of two and a third
send, so that a payload can be left in a queue when its source is retired and a send can wait behind a full one. The ranges are compared with a
brute-force enumeration of all possible deliveries (`Deliveries`), including sums
equal to `UMax` and beyond it. Four calls are enough to register both blocks and
wire two connections, with or without a fan-in, an export or a hand-made mistake; the
ports' ranges are such that one input takes both outputs together and the other does not,
although it would take each of them. One of the two capacities is above the limit for a queue.
Four payloads are in the hands of two processes and in the queues of one behind them when both
are stuck, the most that can wait in a pipeline of two. A word of eight values has three outputs and four inputs, of which the last is the
least number: three threads exhaust both counters. The system of `system_execution` has the two ways a process can be kept
waiting (a predecessor, an external sender) and a task that the user can abort.

`CHECK_DEADLOCK FALSE` everywhere: a connection is at rest when its bounded
calls are used up, a definition when it was refused or prepared, a system when it has
returned. That nothing waits wrongly is the subject of the liveness properties.

Some definitions deserve a note. `BuilderIsConsistent` names the errors that the builder rules out by its own checks; an
`InvalidChannelFactory` is not among them, because an export can carry a constructor of another type. That no prepared
system uses such a constructor is part of `PreparedIsWired`. `ClaimsAreLive` speaks of the slots that nobody holds as well:
a claim that fails leaves the endpoint and the range that preparation gave the slot.
`NothingLost` holds while the receiver is retained: `close()` and a
marker discard by contract. `ExecuteReturns` assumes that nobody outside holds on to
a sender of an exported input, unless some process has failed (`Unhindered`).
`EndWakesWaiters` and `ShareEndWakesSends` are checked without any fairness of the receiver,
because a send must notice exhaustion even on a full queue that is never read. `BlockedFromOutside` is what remains of
a deadlock that no library can rule out: if every process waits, it is for the user.

## Fairness

* Weak fairness of `Advance(h)`: a Tokio task that was woken is polled again. The
  models let a parked operation continue only if it was woken, so a lost wakeup
  remains a counterexample.
* Weak fairness of `Process`: a receive that has taken an event returns, which has no
  await in between.
* Weak fairness of `Receive` in `ConsumerSpec` of `Connection`: the receiving task keeps calling `recv_event`. This is an
  assumption on the caller. In `FanIn` the same assumption stands inside the properties that need it
  (`Receiving => ...`), so that one run also shows what holds without it.
* `SystemExecution`: weak fairness of the steps of `execute()`, which is awaited, and of
  each task's own end: it yields, so an abort takes effect, and it ends when its inputs
  have ended. No task has to fail and nobody has to drop a sender.
* `Pipeline` (`Driven`): each loop is polled when it can go on, an abort takes effect, the system is built and awaited, and a user
  who took the receiver drives it, as the documentation of `execute()` asks. From this the fairness of `SystemExecution` follows.
* `PortIds`: a thread that has begun to allocate goes on.

No property needs strong fairness. Nothing is assumed of `Cancel`, `Close`, `Fail`, `Abort` or `Drop`.

## Proofs

`Induction` is what lets the proofs reason about sequences and sums of any length. The library's induction
theorems take an operator as a parameter, which the installed provers cannot instantiate. Here the
hypothesis is a set instead: if `S` holds 0, and `n + 1` with each `n`, then `Nat \subseteq S` (`SetInduction`, from
`LeastNumber`). `BoundedInduction` is its form for `0 .. n`, and `BoundedRecursion` says that a function defined by
recursion on `0 .. n` satisfies its equation.

`ConnectionProofs`, for any finite set of handles, any range, capacity and set of operations:

* `TypeCorrect` – `Spec => []TypeOK`, the basis of the others.
* `QuotaIsExact` – `QuotaExact` is inductive together with the types: a commit adds
  a member to `Committed`, an enqueue moves it to `accepted`; every other step changes
  neither, which is a fact about cardinalities of the set before and after.
* `ClosedIsTruthful` – `WatchTruthful`; once exhausted or closed a connection remains so.
* `PermitsConserved` – `PermitsInUse`. It is not inductive: to know that a permit handed on
  really serves a waiter, the proof needs that the waiters in line are distinct, parked and
  without a permit yet, that those assigned one are about to poll, and that nobody
  is in line once the receiver has closed (`QueueInv`). `PermitInv` adds this. The main lemma says that `PassPermit`
  keeps the sum of free, held and buffered slots.
* `NothingIsLost` – `NothingLost`. `PayloadsOf` is a recursive function over the queue; the lemmas say what it gives for an
  event appended to the queue and for one taken from its head. With them each step of the
  receiver moves a payload from the queue to `got` to `delivered` and leaves the whole as it was.
* `SendsAreTold` – `SendOutcome`. A handle's calls are numbered; the invariant adds that
  nothing accepted has a number beyond its handle's current one, and that the payload of a send in
  progress is accepted from its enqueue on and not before.
* `ConnectionImplementsStream` – `ImplementsStream`, from the two above: each step either accepts one payload, delivers
  the next one, ends the stream with a true account, or leaves the stream as it is.

`FanInProofs`, for any number of producers and clones, any ranges whose minima fit (`FanInAssumption`), any capacity:

* `FanInTypeCorrect` – `Spec => []TypeOK`.
* `BudgetIsKept` – `BudgetKept`, about sets of slots: the k-th payload of producer p is slot
  `<<p, k>>`, and the first `PMin[p]` of them are reserved. It is not inductive. `BudgetInv` adds that `sent` is
  what was really spent (`QuotaCounts`), that nobody is above their own maximum (`WithinShare`), and
  that `extras` is exactly the number of spent slots that nobody had reserved, and within its limit
  (`ExtrasExact`). A commit spends one slot: a reserved one leaves `SpentSlots \ Reserved` as it
  is, another adds one to it and to `extras`; the enqueue moves it from `Pending` to `accepted` and spends
  nothing. The reserved slots and the extras together are at most the maximum.
* `RefusalsAreJustified` – `RefusalJustified`: a refusal follows a look that found the quota
  exhausted, `BudgetInv` makes this a fact about slots, and a full set of slots stays full.
* `CompleteMeansEverything`, `FullMeansComplete` – `EndIsComplete` and `FullIsComplete`, from
  `EndInv`, in five parts: the counts of each input are those of the deliveries, up to what its
  range needs (`Counted`); what a source accepted was delivered or waits in its queue while that queue is kept (`Conserved`);
  a queue is dropped only when nothing is left in it and nobody can fill it any more, or behind a marker (`Settled`);
  a merge that is open or fell short has room (`Room`); and a complete one is full or has nothing but
  settled sources (`Completed`). The hard case is the full input: `BudgetInv` says that its maximum is
  filled by the spent and the reserved slots together, so every reserved one is delivered and nobody fell short
  (`FullSlots`). That a source stays settled is the lemma that nothing is enqueued once it is `Quiet`: its maximum is
  reached, its queue is closed with no permit out, or its handles are gone.
* `TurnsAreFair` – `FairTurns`, from `Turns`, for each pair of producers: when the event that waits for `q` was passed by
  one of `r`, the next poll comes to `q` before it comes to `r` (`Ahead`), and its scan has not left `q` behind. So `r` does not pass again.

`PreparationProofs`, for any blocks, ports, types, ranges and capacities, and any number of calls and edits:

* `PreparationTypeCorrect` – `Spec => []TypeOK`; the long part is that every endpoint preparation installs is one.
* `PreparationNeverPanics` – `NeverPanics`: a definition in which no check finds a problem is `Sound`, and in
  a sound one every endpoint has a slot and a queue that can be made. Nothing is assumed of how
  the definition came to be, so it holds for every edit.
* `ClaimsStayLive` – `ClaimsAreLive`, from `ClaimInv`: nothing is held before the first factory, what is
  held is marked, and a connected slot that is not marked still has its endpoint at its own range. A claim that fails must
  leave all of this to the next one.
* `BuilderStaysConsistent` – `BuilderIsConsistent`, from `BuilderInv`: what the builder wrote is covered
  by the ports it knows, which are covered by the ports the definition declares; the outputs of
  connections are in `joined`. Then none of the checks that could report these errors finds one. Nothing is
  said of constructors, which the builder does not check.
* `PreparedAsDefined` – `PreparedIsWired`, from `WiringInv`: while a definition is in use it has no problem (`Sound`), no port in two
  connections and no constructor of another type (`Coherent`); each slot holds what was installed in it, or
  its claimant does (`SlotsKept`); and the blocks before `turn` have claimed their connected ports (`ClaimsMade`). What is
  installed in a slot is unique (`OneInstalled`) and agrees with the other end of its channel (`EndFits`).

`PortIdsProofs`, for any threads and a word of any size:

* `NoIdTwice`, `ExhaustionIsReal` – `IssuedOnce` and `ExhaustedMeansAll`, from `AllocationInv`: a counter
  has given out exactly the IDs between zero and itself, or all of them once it is zero, and whoever saw it exhausted is right for ever.
* `KeysAreExact` – `KeysIdentify`; and `PortIdTypes`.

`SystemExecutionProofs`, for any processes, tasks and dependencies between them. `ExecutionInv` adds to
the types: where a task and the system can be together (`TaskInv`), that the tasks already joined are the
first ones that ended and that all of them were good until the first failure was joined (`OrderInv`), that until
then the only aborts are the user's (`AbortInv`), and that the cause, once there, is the
first failure (`CauseInv`). From it:

* `OkMeansAllSucceeded`, `NothingRunsAfterReturn`, `ErrorIsTheFirst` – the invariants
  `OkIsTotal`, `ReturnMeansStopped` and `CauseIsFirst`; and `ExecutionTypeCorrect`.

`PipelineProofs`, for chains of any length and queues of any size. `PipelineInv` adds to `ExecutionInv` the types,
and `Flows`: there are numbers, one for each link, of the payloads that were ever put into it, and what was put into one link and not
into the next is in the hand and in the queue between them, in order. They are a witness of the proof, not a variable of
the model. `Drained` says that a task that ended well has an empty hand, an empty queue before it and nobody who could fill it,
`Ends` who holds the endpoints outside.

* `PayloadsAreDelivered` – `Delivered`. After Ok every task has ended well, so the numbers are the same along the chain.
* `OnlyTheOutsideBlocks` – `BlockedFromOutside`. The first running task is starved or stuck. If starved, the one before
  it cannot be running and has ended, so its sender is the user's; if stuck, the next one runs
  and is stuck too, by induction along the chain to the receiver.
* `PipelineImplementsExecution` – `PipelineSpec => Spec`: the safety part of `ImplementsExecution`. A loop ends well only when
  nobody owns a sender of its input any more, so the task before it is not pending and does not run, and by `Ends` only the
  first one has an external sender. All other steps are ones of `SystemExecution` or leave its variables alone.

`FanInRangesProofs`, for any word size, any bounds and any number of producers. Sums with overflow (`SumTo`) are compared
with sums of numbers (`SumOf`) by induction over the producers; `SumOfBetween` adds that whatever number lies between the
sums of two bounds is the sum of values within them. `RangesInv` says what validation stored and what preparation made of it.

* `TypeInvariant` – `TypeOK`.
* `PreparationNeverFails`, `RefusalIsJustified`, `SharesAreExact` – `ValidatedPrepares`, `RefusedIsImpossible` and `SharesExact`.
* `IntersectionExact` – `Cardinality::intersection` admits exactly the common counts.
* `ProjectionExact` – `projected_ranges` gives a producer exactly the counts that the others
  can complete.

The proofs rest on the ASSUMEs of the modules, which TLC evaluates in the runs of those modules, and on the library theorems about
finite sets, sequences and well-founded orders (the last one for `LeastNumber`). The assumptions are on the constants: finite sets
of handles, tasks and threads, ranges with a least element not above the greatest (`Cardinality::new` makes no other), minima that fit, and `None` different from everything else.

Only model-checked: the liveness properties (`EndWakesWaiters`, `SendsFinish`, `Delivery`, `StreamEnds`, `ShareEndWakesSends`, `MergeEnds`,
`ExecuteReturns`, `DropStops`, `AllocationEnds`) and the fairness that `ImplementsExecution` adds to its steps. They
rest on fairness and on ENABLED, which are out of the prover's reach. Every invariant that a run checks is proved.

## What Tokio is assumed to do

Definitions marked external in `map` model the library from how the code uses it:
the mpsc semaphore serves waiters in order and hands a released permit to the first of them;
dropping a reservation or permit releases it; closing the receiver refuses
every waiter, also one that was just assigned a permit, while a permit that a send already holds may still be
used; `poll_recv` returns `None` when the queue is
empty and either no sender exists or it is closed and no permit is out; a receiver is woken whenever its
poll would be ready; `Notify::notify_waiters` reaches whoever enabled before it, and
`JoinSet::join_next` returns tasks in completion order. Operations that overlap on one handle
behave like operations of two clones, as the handle only lends its sender.

## Not modelled

* Raw access (`as_ref`, `into_inner`) to the Tokio halves: it bypasses the accounting by contract.
* `blocking_send`, `blocking_recv`: they always panic.
* Flume endpoints: they delegate each call to a bounded flume channel, and implement an earlier form of the port traits.
* Schedulers: they own a runtime. The models allow every interleaving that a runtime produces.
* Error types, ID sets and maps, metadata traits: wrappers without behaviour of their own.
* The text that the stdio blocks read and write; payload types and type erasure.
* Deadlocks between blocks of a user's own graph: a matter of the blocks. `Pipeline` covers the loops that the crate provides.
* In `Preparation`: IDs of the wrong sign (the public constructors rule them out), several different ranges declared for one
  port (a registration, an export or an edit gives the range of the port's descriptor or none), and a block whose metadata changes
  from one call to the next.
* In `Pipeline`: maxima and `Disconnect` markers. Its connections are plain queues, so an input that ends well before its
  senders have gone is the subject of `Connection` and `FanIn` only.
* That a factory which fails leaves nothing behind: it follows from Rust dropping the half-prepared `System`, which `Release` takes for granted.
* A panic in a user's factory or metadata: it propagates to the caller by contract.

## Plan

Order: the connection first, because everything rests on it; fan-in, where the concurrency is hardest; then
the numbers that configure it; then execution and what prepares it; port IDs; and the loops that execution runs. These
are done, and every invariant of the runs is proved. What remains, most useful first:

1. Join the two models of a send: what `FanIn` does in one step (registering and looking) and to a set of waiters, `Connection` does
   in two and to a queue. That the one abstracts the other is argued above and not checked.
2. Action properties as theorems: that an ended stream stays ended and an exhausted quota exhausted are lemmas of the proofs so far.
3. Several ranges declared for one port in `Preparation`.
4. The capacity getters and the unconnected constructors of the channels.
