---------------------------- MODULE PipelineProofs ---------------------------
(* Theorems about Pipeline, for any chain of tasks, any capacity of the    *)
(* queues and any number of payloads.                                      *)
EXTENDS Pipeline, SystemExecutionProofs, Induction

-----------------------------------------------------------------------------
(* The chain: each task has one place in it. *)

LEMMA ChainIs ==
  /\ N \in Nat \ {0} /\ Chain \in [1 .. N -> Tasks] /\ None \notin Nat /\ Cap \in Nat \ {0}
  /\ \A i, j \in 1 .. N : Chain[i] = Chain[j] => i = j
  /\ \A t \in Tasks : \E k \in 1 .. N : Chain[k] = t
<1>. DEFINE n == Cardinality(Tasks)
<1>1. n \in Nat /\ IsFiniteSet(Tasks)
  BY ExecutionAssumption, FS_CardinalityType
<1>2. Chain \in [1 .. n -> Tasks] /\ {Chain[k] : k \in DOMAIN Chain} = Tasks
  BY PipelineAssumption
<1>. HIDE DEF n
<1>3. N = n
  BY <1>1, <1>2 DEF N
<1>4. Chain \in Surjection(1 .. n, Tasks)
  BY <1>2 DEF Surjection
<1>5. IsFiniteSet(1 .. n) /\ Cardinality(1 .. n) = n
  BY <1>1, FS_Interval
<1>6. Chain \in Injection(1 .. n, Tasks)
  BY <1>4, <1>5, FS_Surjection DEF n
<1>7. \A i, j \in 1 .. n : Chain[i] = Chain[j] => i = j
  BY <1>6 DEF Injection, IsInjective
<1>8. \A t \in Tasks : \E k \in 1 .. n : Chain[k] = t
  BY <1>2
<1>. QED  BY <1>1, <1>2, <1>3, <1>7, <1>8, PipelineAssumption

LEMMA PlaceIs ==
  ASSUME NEW t \in Tasks
  PROVE  /\ Place(t) \in 1 .. N /\ Chain[Place(t)] = t
         /\ Place(t) - 1 \in 0 .. N - 1
         /\ \A k \in 1 .. N : Chain[k] = t => k = Place(t)
<1>1. Place(t) \in 1 .. N /\ Chain[Place(t)] = t
  BY ChainIs DEF Place
<1>. QED  BY <1>1, ChainIs

-----------------------------------------------------------------------------
(* What passes through the links. *)

Held(h) == IF h = None THEN 0 ELSE 1

\* Of the payloads 1, ..., up that came before a task, 1, ..., down went on
\* behind it; h and q are the ones between, in order.
Carried(up, down, h, q) ==
  /\ up = down + Held(h) + Len(q)
  /\ h # None => h = down + 1
  /\ \A i \in 1 .. Len(q) : q[i] = down + Held(h) + i

LEMMA CarriedReceive ==
  ASSUME NEW up \in Nat, NEW down \in Nat, NEW q \in Seq(Nat), q # <<>>,
         Carried(up, down, None, q)
  PROVE  Carried(up, down, Head(q), Tail(q))
<1>1. Len(q) \in Nat \ {0} /\ 1 \in 1 .. Len(q) /\ Len(Tail(q)) = Len(q) - 1
      /\ Head(q) = q[1] /\ \A i \in 1 .. Len(q) - 1 : i + 1 \in 1 .. Len(q) /\ Tail(q)[i] = q[i + 1]
  OBVIOUS
<1>2. Head(q) = down + 1 /\ Head(q) # None /\ Held(None) = 0 /\ Held(Head(q)) = 1
  BY <1>1, ChainIs DEF Carried, Held
<1>3. ASSUME NEW i \in 1 .. Len(Tail(q)) PROVE Tail(q)[i] = down + Held(Head(q)) + i
  <2>1. i + 1 \in 1 .. Len(q) /\ Tail(q)[i] = q[i + 1] /\ i \in Nat
    BY <1>1
  <2>2. q[i + 1] = down + 0 + (i + 1)
    BY <1>2, <2>1 DEF Carried
  <2>. QED  BY <1>2, <2>1, <2>2
<1>4. up = down + 0 + Len(q)
  BY <1>2 DEF Carried
<1>. QED  BY <1>1, <1>2, <1>3, <1>4 DEF Carried

LEMMA CarriedSend ==
  ASSUME NEW up \in Nat, NEW down \in Nat, NEW q \in Seq(Nat), NEW h, h # None,
         Carried(up, down, h, q)
  PROVE  h = down + 1 /\ Carried(up, down + 1, None, q)
<1>1. Held(h) = 1 /\ Held(None) = 0 /\ Len(q) \in Nat
  BY DEF Held
<1>. QED  BY <1>1 DEF Carried

LEMMA CarriedAppend ==
  ASSUME NEW up \in Nat, NEW down \in Nat, NEW q \in Seq(Nat), NEW h,
         Carried(up, down, h, q)
  PROVE  Carried(up + 1, down, h, Append(q, up + 1))
<1>1. Held(h) \in Nat /\ Len(q) \in Nat
  BY DEF Held
<1>2. /\ Len(Append(q, up + 1)) = Len(q) + 1
      /\ \A i \in 1 .. Len(q) + 1 : Append(q, up + 1)[i] = IF i = Len(q) + 1 THEN up + 1 ELSE q[i]
  BY <1>1
<1>3. up = down + Held(h) + Len(q)
  BY DEF Carried
<1>4. ASSUME NEW i \in 1 .. Len(q) + 1 PROVE Append(q, up + 1)[i] = down + Held(h) + i
  <2>1. CASE i = Len(q) + 1
    BY <1>1, <1>2, <1>3, <2>1
  <2>2. CASE i # Len(q) + 1
    <3>1. i \in 1 .. Len(q)
      BY <1>1, <2>2
    <3>. QED  BY <1>2, <2>2, <3>1 DEF Carried
  <2>. QED  BY <2>1, <2>2
<1>. QED  BY <1>1, <1>2, <1>3, <1>4 DEF Carried

LinkTypes ==
  /\ queue \in [Links -> Seq(Nat)]
  /\ hand \in [Tasks -> Nat \cup {None}]
  /\ receiver \in {"none", "system", "user"}
  /\ provided \in Nat /\ passed \in Seq(Nat)

\* put[k] payloads were ever put into link k.
Flow(put) ==
  /\ put \in [Links -> Nat]
  /\ put[0] = provided /\ put[N] = Len(passed)
  /\ \A k \in 1 .. N : Carried(put[k - 1], put[k], hand[Chain[k]], queue[k - 1])

Flows == (\E put : Flow(put)) /\ \A i \in DOMAIN passed : passed[i] = i

\* A task that ended well has left nothing behind, and nothing will come.
Drained ==
  \A k \in 1 .. N : outcome[Chain[k]] = "ok" =>
    hand[Chain[k]] = None /\ queue[k - 1] = <<>> /\ ~SenderOpen(k - 1)

\* Who holds the endpoints at the two ends.
Ends ==
  /\ \A t \in Tasks : t # Chain[1] => sender[t] = "none"
  /\ phase \notin {"built", "dropped"} => \A t \in Tasks : task[t] # "absent"
  /\ phase \in {"starting", "joining"} =>
       receiver # "system" /\ \A t \in Tasks : sender[t] # "system"

PipelineInv == ExecutionInv /\ LinkTypes /\ Flows /\ Drained /\ Ends

-----------------------------------------------------------------------------

LEMMA LinksAre == \A k \in 1 .. N : k \in Links /\ k - 1 \in Links
BY ChainIs DEF Links

LEMMA PipelineInvInit == PipelineInit => PipelineInv
<1>. SUFFICES ASSUME PipelineInit PROVE PipelineInv
  OBVIOUS
<1>1. ExecutionInv
  BY ExecutionInit DEF PipelineInit
<1>2. <<>> \in Seq(Nat) /\ Len(<<>>) = 0 /\ DOMAIN <<>> = {} /\ 0 \in Nat
  OBVIOUS
<1>3. LinkTypes
  BY <1>2 DEF PipelineInit, LinkTypes
<1>4. Flows
  <2>. DEFINE put == [k \in Links |-> 0]
  <2>1. put \in [Links -> Nat] /\ \A k \in Links : put[k] = 0
    OBVIOUS
  <2>2. 0 \in Links /\ N \in Links
    BY ChainIs DEF Links
  <2>. HIDE DEF put
  <2>3. ASSUME NEW k \in 1 .. N PROVE Carried(put[k - 1], put[k], hand[Chain[k]], queue[k - 1])
    <3>1. hand[Chain[k]] = None /\ queue[k - 1] = <<>> /\ put[k - 1] = 0 /\ put[k] = 0
      BY <2>1, LinksAre, ChainIs DEF PipelineInit
    <3>2. Held(None) = 0 /\ 1 .. 0 = {}
      BY DEF Held
    <3>. QED  BY <1>2, <3>1, <3>2 DEF Carried
  <2>4. Flow(put)
    BY <1>2, <2>1, <2>2, <2>3 DEF Flow, PipelineInit
  <2>. QED  BY <1>2, <2>4 DEF Flows, PipelineInit
<1>5. Drained
  BY ChainIs DEF PipelineInit, Init, Drained
<1>6. Ends
  BY PipelineAssumption DEF PipelineInit, Init, Ends
<1>. QED  BY <1>1, <1>3, <1>4, <1>5, <1>6 DEF PipelineInv

-----------------------------------------------------------------------------
(* Every step of the pipeline is one that SystemExecution allows. *)

LEMMA PipelineRefines ==
  ASSUME PipelineInv, [PipelineNext]_pipelineVars
  PROVE  [Next]_vars
<1>1. CASE UNCHANGED pipelineVars
  BY <1>1 DEF pipelineVars
<1>2. ASSUME NEW t \in Tasks, EndOfInput(t) PROVE Complete(t)
  <2>. DEFINE k == Place(t)
  <2>1. k \in 1 .. N /\ Chain[k] = t /\ ~SenderOpen(k - 1) /\ task[t] = "running" /\ Ended(t, "ok")
    BY <1>2, PlaceIs DEF EndOfInput
  <2>2. Feeds[t] = IF k = 1 THEN {} ELSE {Chain[k - 1]}
    BY <2>1, PipelineAssumption
  <2>. HIDE DEF k
  <2>3. CASE k = 1
    BY <2>1, <2>2, <2>3 DEF SenderOpen, Complete
  <2>4. CASE k # 1
    <3>1. k - 1 # 0 /\ k - 1 \in 1 .. N /\ t # Chain[1]
      BY <2>1, <2>4, ChainIs
    <3>2. task[Chain[k - 1]] \notin {"pending", "running"} /\ sender[t] = "none"
      BY <2>1, <3>1 DEF SenderOpen, Owns, PipelineInv, Ends
    <3>. QED  BY <2>1, <2>2, <2>4, <3>2 DEF Complete
  <2>. QED  BY <2>3, <2>4
<1>3. ASSUME NEW t \in Tasks, Loop(t) PROVE [Next]_vars
  <2>1. CASE Receive(t) \/ Send(t)
    BY <2>1 DEF Receive, Send
  <2>2. CASE SendFails(t)
    BY <2>2 DEF SendFails, Fail, Next
  <2>3. CASE EndOfInput(t)
    BY <1>2, <2>3 DEF Finish, Next
  <2>. QED  BY <1>3, <2>1, <2>2, <2>3 DEF Loop
<1>4. ASSUME NEW t \in Tasks, Breaks(t) \/ Stops(t) PROVE [Next]_vars
  BY <1>4 DEF Breaks, Stops, Finish, Next
<1>5. CASE Provide \/ Consume \/ TakeReceiver \/ DropReceiver
  BY <1>5 DEF Provide, Consume, TakeReceiver, DropReceiver
<1>6. CASE UserOfSystem \/ Build \/ Run \/ Proceed \/ DropSystem
  BY <1>6 DEF UserOfSystem, Build, Run, Proceed, DropSystem, Next
<1>. QED  BY <1>1, <1>3, <1>4, <1>5, <1>6 DEF PipelineNext

\* A task that has ended has no endpoint any more, and gets none back; nor does
\* an external sender come back.
LEMMA OwnersGo ==
  ASSUME TypeOK, [Next]_vars, NEW t \in Tasks
  PROVE  /\ ~Owns(t) => ~Owns(t)'
         /\ sender[t] = "none" => sender'[t] = "none"
<1>. USE DEF userVars, taskVars, endVars, TypeOK, Owns
<1>. DEFINE Goal == /\ ~Owns(t) => ~Owns(t)'
                    /\ sender[t] = "none" => sender'[t] = "none"
<1>1. ASSUME NEW u \in Tasks, Spawn(u) \/ TakeSender(u) \/ DropSender(u) \/ Abort(u) \/ Start(u)
      PROVE  Goal
  BY <1>1 DEF Spawn, TakeSender, DropSender, Abort, Start
<1>2. ASSUME NEW u \in Tasks, NEW how, Ended(u, how) PROVE Goal
  BY <1>2 DEF Ended
<1>3. ASSUME NEW u \in Tasks, Finish(u) \/ Fail(u) PROVE Goal
  <2>1. \E how : Ended(u, how)
    BY <1>3 DEF Finish, Fail, Complete, Cancel
  <2>. QED  BY <1>2, <2>1
<1>4. ASSUME Execute PROVE Goal
  BY <1>4 DEF Execute, Unclaimed
<1>5. ASSUME Join \/ JoinedAll \/ Reap PROVE Goal
  BY <1>5 DEF Join, JoinedAll, Reap
<1>6. ASSUME ShutDown \/ Drop PROVE Goal
  BY <1>6 DEF ShutDown, Drop, DropPending, Unclaimed
<1>7. ASSUME UNCHANGED vars PROVE Goal
  BY <1>7 DEF vars
<1>. HIDE DEF Goal
<1>8. Goal
  BY <1>1, <1>3, <1>4, <1>5, <1>6, <1>7, Zenon DEF Next, Progress
<1>. QED  BY <1>8 DEF Goal

LEMMA SendersGo ==
  ASSUME TypeOK, [Next]_vars, NEW k \in 0 .. N - 1, ~SenderOpen(k)
  PROVE  ~SenderOpen(k)'
<1>1. Chain[1] \in Tasks /\ (k # 0 => Chain[k] \in Tasks)
  BY ChainIs
<1>. QED  BY <1>1, OwnersGo DEF SenderOpen

\* The steps in which something passes through a link.
Passing == (\E t \in Tasks : Receive(t) \/ Send(t)) \/ Provide \/ Consume

\* In all others the links stay as they are, and a task ends well only at the
\* end of its input.
LEMMA NotPassing ==
  ASSUME PipelineInv, [PipelineNext]_pipelineVars, ~Passing
  PROVE  /\ UNCHANGED linkVars
         /\ \A t \in Tasks : outcome'[t] = "ok" => outcome[t] = "ok" \/ EndOfInput(t)
<1>. USE DEF userVars, taskVars, endVars
<1>. DEFINE Goal == /\ UNCHANGED linkVars
                    /\ \A t \in Tasks : outcome'[t] = "ok" => outcome[t] = "ok" \/ EndOfInput(t)
<1>0. outcome \in [Tasks -> {"none", "ok", "failed", "panicked", "cancelled"}]
  BY DEF PipelineInv, ExecutionInv, TypeOK
<1>1. ASSUME NEW u \in Tasks, NEW how \in {"failed", "panicked", "cancelled"}, Ended(u, how),
             UNCHANGED linkVars
      PROVE  Goal
  BY <1>0, <1>1 DEF Ended
<1>2. ASSUME NEW u \in Tasks, SendFails(u) PROVE Goal
  BY <1>1, <1>2 DEF SendFails
<1>3. ASSUME NEW u \in Tasks, Breaks(u) PROVE Goal
  BY <1>1, <1>3 DEF Breaks, Fail
<1>4. ASSUME NEW u \in Tasks, Stops(u) PROVE Goal
  BY <1>1, <1>4 DEF Stops, Cancel
<1>5. ASSUME NEW u \in Tasks, EndOfInput(u) PROVE Goal
  BY <1>0, <1>5 DEF EndOfInput, Ended
<1>6. ASSUME UNCHANGED <<linkVars, outcome>> PROVE Goal
  BY <1>6
<1>7. ASSUME UserOfSystem \/ Build PROVE Goal
  BY <1>6, <1>7 DEF UserOfSystem, Build, TakeSender, DropSender, Abort, Spawn
<1>8. ASSUME Run \/ DropSystem PROVE Goal
  BY <1>6, <1>8 DEF Run, DropSystem, Execute, Drop
<1>9. ASSUME Proceed PROVE Goal
  <2>1. UNCHANGED outcome
    BY <1>9 DEF Proceed, Progress, Start, Join, JoinedAll, Reap, ShutDown
  <2>. QED  BY <1>6, <1>9, <2>1 DEF Proceed
<1>10. ASSUME TakeReceiver \/ DropReceiver PROVE Goal
  BY <1>6, <1>10 DEF TakeReceiver, DropReceiver, vars
<1>11. ASSUME UNCHANGED pipelineVars PROVE Goal
  BY <1>6, <1>11 DEF pipelineVars, vars
<1>. HIDE DEF Goal
<1>12. Goal
  BY <1>2, <1>3, <1>4, <1>5, <1>7, <1>8, <1>9, <1>10, <1>11, Zenon DEF PipelineNext, Loop, Passing
<1>. QED  BY <1>12 DEF Goal

LEMMA EndsStep ==
  ASSUME PipelineInv, [PipelineNext]_pipelineVars
  PROVE  Ends' /\ receiver' \in {"none", "system", "user"}
<1>. USE DEF userVars, taskVars, endVars
<1>. DEFINE Goal == Ends' /\ receiver' \in {"none", "system", "user"}
<1>0. TypeOK /\ Ends /\ receiver \in {"none", "system", "user"} /\ Chain[1] \in Tasks
  BY ChainIs DEF PipelineInv, ExecutionInv, LinkTypes
<1>1. ASSUME NEW u \in Tasks, Spawn(u) \/ TakeSender(u) \/ DropSender(u) \/ Abort(u), UNCHANGED receiver
      PROVE  Goal
  BY <1>0, <1>1 DEF Spawn, TakeSender, DropSender, Abort, Ends, TypeOK
<1>2. ASSUME NEW u \in Tasks, NEW how, Ended(u, how), UNCHANGED receiver PROVE Goal
  BY <1>0, <1>2 DEF Ended, Ends, TypeOK
<1>3. ASSUME NEW u \in Tasks, Loop(u) \/ Breaks(u) \/ Stops(u) PROVE Goal
  <2>1. CASE Receive(u) \/ Send(u)
    BY <1>0, <2>1 DEF Receive, Send, Ends, vars
  <2>2. CASE SendFails(u) \/ EndOfInput(u)
    BY <1>2, <2>2 DEF SendFails, EndOfInput
  <2>3. CASE Breaks(u) \/ Stops(u)
    BY <1>2, <2>3 DEF Breaks, Stops, Fail, Cancel
  <2>. QED  BY <1>3, <2>1, <2>2, <2>3 DEF Loop
<1>4. ASSUME Provide \/ Consume \/ TakeReceiver \/ DropReceiver PROVE Goal
  <2>1. UNCHANGED vars /\ (receiver' = receiver \/ receiver' \in {"user", "none"})
    BY <1>4 DEF Provide, Consume, TakeReceiver, DropReceiver
  <2>. QED  BY <1>0, <2>1 DEF Ends, vars
<1>5. ASSUME UserOfSystem \/ Build PROVE Goal
  BY <1>1, <1>5 DEF UserOfSystem, Build
<1>6. ASSUME Run PROVE Goal
  <2>1. Execute /\ (\A t \in Tasks : task[t] # "absent")
        /\ receiver' = IF phase' = "shutdown" THEN receiver ELSE ReceiverUnclaimed
    BY <1>6 DEF Run
  <2>2. /\ UNCHANGED task
        /\ \/ phase' \in {"starting", "joining"} /\ sender' = Unclaimed
           \/ phase' = "shutdown" /\ UNCHANGED sender
    BY <2>1 DEF Execute
  <2>. QED  BY <1>0, <2>1, <2>2 DEF Ends, Unclaimed, ReceiverUnclaimed, TypeOK
<1>7. ASSUME Proceed PROVE Goal
  <2>1. receiver' = IF phase' = "returned" THEN ReceiverUnclaimed ELSE receiver
    BY <1>7 DEF Proceed
  <2>2. CASE \E t \in Tasks : Start(t)
    BY <1>0, <2>1, <2>2 DEF Start, Ends, TypeOK, ReceiverUnclaimed
  <2>3. CASE Join \/ JoinedAll \/ Reap
    BY <1>0, <2>1, <2>3 DEF Join, JoinedAll, Reap, Ends, ReceiverUnclaimed
  <2>4. CASE ShutDown
    BY <1>0, <2>1, <2>4 DEF ShutDown, DropPending, Unclaimed, Ends, ReceiverUnclaimed
  <2>. QED  BY <1>7, <2>2, <2>3, <2>4 DEF Proceed, Progress
<1>8. ASSUME DropSystem PROVE Goal
  BY <1>0, <1>8 DEF DropSystem, Drop, DropPending, Unclaimed, Ends, ReceiverUnclaimed
<1>9. ASSUME UNCHANGED pipelineVars PROVE Goal
  BY <1>0, <1>9 DEF pipelineVars, vars, Ends
<1>. HIDE DEF Goal
<1>10. Goal
  BY <1>3, <1>4, <1>5, <1>6, <1>7, <1>8, <1>9, Zenon DEF PipelineNext
<1>. QED  BY <1>10 DEF Goal

-----------------------------------------------------------------------------
(* A payload passes through a link. *)

LEMMA PassingReceive ==
  ASSUME PipelineInv, NEW t \in Tasks, Receive(t)
  PROVE  LinkTypes' /\ Flows' /\ Drained'
<1>. DEFINE p == Place(t)
<1>0. /\ p \in 1 .. N /\ Chain[p] = t /\ p - 1 \in Links
      /\ \A k \in 1 .. N : k # p => Chain[k] # t /\ k - 1 # p - 1
      /\ \A k \in 1 .. N : Chain[k] \in Tasks /\ k \in Links /\ k - 1 \in Links
  BY PlaceIs, ChainIs, LinksAre
<1>1. /\ task[t] = "running" /\ hand[t] = None /\ queue[p - 1] # <<>>
      /\ hand' = [hand EXCEPT ![t] = Head(queue[p - 1])]
      /\ queue' = [queue EXCEPT ![p - 1] = Tail(@)]
      /\ UNCHANGED <<vars, receiver, provided, passed>>
  BY DEF Receive
<1>2. LinkTypes /\ TypeOK /\ TaskInv
  BY DEF PipelineInv, ExecutionInv
<1>. HIDE DEF p
<1>3. queue[p - 1] \in Seq(Nat)
  BY <1>0, <1>2 DEF LinkTypes
<1>4. Head(queue[p - 1]) \in Nat /\ Tail(queue[p - 1]) \in Seq(Nat)
  BY <1>1, <1>3
<1>5. LinkTypes'
  BY <1>1, <1>2, <1>4 DEF LinkTypes
<1>6. /\ hand'[t] = Head(queue[p - 1]) /\ queue'[p - 1] = Tail(queue[p - 1])
      /\ \A k \in 1 .. N : k # p => hand'[Chain[k]] = hand[Chain[k]] /\ queue'[k - 1] = queue[k - 1]
  BY <1>0, <1>1, <1>2 DEF LinkTypes
<1>7. Flows'
  <2>1. PICK put : Flow(put)
    BY DEF PipelineInv, Flows
  <2>2. put[p - 1] \in Nat /\ put[p] \in Nat /\ Carried(put[p - 1], put[p], None, queue[p - 1])
    BY <1>0, <1>1, <2>1 DEF Flow
  <2>3. Carried(put[p - 1], put[p], Head(queue[p - 1]), Tail(queue[p - 1]))
    BY <1>1, <1>3, <2>2, CarriedReceive
  <2>4. ASSUME NEW k \in 1 .. N
        PROVE  Carried(put[k - 1], put[k], hand'[Chain[k]], queue'[k - 1])
    <3>1. CASE k = p
      BY <1>0, <1>6, <2>3, <3>1
    <3>2. CASE k # p
      BY <1>6, <2>1, <3>2 DEF Flow
    <3>. QED  BY <3>1, <3>2
  <2>5. Flow(put)'
    BY <1>1, <2>1, <2>4 DEF Flow
  <2>. QED  BY <1>1, <2>5 DEF PipelineInv, Flows
<1>8. Drained'
  <2>. SUFFICES ASSUME NEW k \in 1 .. N, outcome[Chain[k]] = "ok"
       PROVE  hand'[Chain[k]] = None /\ queue'[k - 1] = <<>> /\ ~SenderOpen(k - 1)
    BY <1>1 DEF Drained, vars, taskVars, userVars, SenderOpen, Owns
  <2>1. k # p
    BY <1>0, <1>1, <1>2 DEF TaskInv
  <2>. QED  BY <1>6, <2>1 DEF PipelineInv, Drained
<1>. QED  BY <1>5, <1>7, <1>8

LEMMA PassingSend ==
  ASSUME PipelineInv, NEW t \in Tasks, Send(t)
  PROVE  LinkTypes' /\ Flows' /\ Drained'
<1>. DEFINE p == Place(t)
<1>0. /\ p \in 1 .. N /\ Chain[p] = t /\ p \in Links /\ p # 0
      /\ \A k \in 1 .. N : k # p => Chain[k] # t
      /\ \A k \in 1 .. N : Chain[k] \in Tasks /\ k \in Links /\ k - 1 \in Links
      /\ N \in Nat \ {0} /\ 0 \in Links /\ N \in Links
  BY PlaceIs, ChainIs, LinksAre DEF Links
<1>1. /\ task[t] = "running" /\ hand[t] # None
      /\ queue' = [queue EXCEPT ![p] = Append(@, hand[t])]
      /\ hand' = [hand EXCEPT ![t] = None]
      /\ passed' = IF p = N THEN Append(passed, hand[t]) ELSE passed
      /\ UNCHANGED <<vars, receiver, provided>>
  BY DEF Send
<1>2. LinkTypes /\ TypeOK /\ TaskInv
  BY DEF PipelineInv, ExecutionInv
<1>. HIDE DEF p
<1>3. hand[t] \in Nat /\ passed \in Seq(Nat)
  BY <1>1, <1>2 DEF LinkTypes
<1>4. \A k \in Links : queue[k] \in Seq(Nat)
  BY <1>2 DEF LinkTypes
<1>5. LinkTypes'
  <2>1. Append(queue[p], hand[t]) \in Seq(Nat) /\ Append(passed, hand[t]) \in Seq(Nat)
    BY <1>0, <1>3, <1>4
  <2>. QED  BY <1>1, <1>2, <2>1 DEF LinkTypes
<1>6. /\ hand'[t] = None /\ queue'[p] = Append(queue[p], hand[t])
      /\ \A k \in 1 .. N : k # p => hand'[Chain[k]] = hand[Chain[k]]
      /\ \A k \in Links : k # p => queue'[k] = queue[k]
  BY <1>0, <1>1, <1>2 DEF LinkTypes
<1>7. Flows'
  <2>1. PICK put : Flow(put)
    BY DEF PipelineInv, Flows
  <2>. DEFINE more == [put EXCEPT ![p] = put[p] + 1]
  <2>2. put \in [Links -> Nat] /\ put[p] \in Nat
    BY <1>0, <2>1 DEF Flow
  <2>3. more \in [Links -> Nat] /\ more[p] = put[p] + 1 /\ \A k \in Links : k # p => more[k] = put[k]
    BY <1>0, <2>2
  <2>. HIDE DEF more
  <2>4. put[p - 1] \in Nat /\ queue[p - 1] \in Seq(Nat)
        /\ Carried(put[p - 1], put[p], hand[t], queue[p - 1])
    BY <1>0, <1>4, <2>1, <2>2 DEF Flow
  <2>5. hand[t] = put[p] + 1 /\ Carried(put[p - 1], put[p] + 1, None, queue[p - 1])
    BY <1>1, <2>2, <2>4, CarriedSend
  <2>6. ASSUME NEW k \in 1 .. N
        PROVE  Carried(more[k - 1], more[k], hand'[Chain[k]], queue'[k - 1])
    <3>0. k \in Links /\ k - 1 \in Links /\ put[k - 1] \in Nat /\ put[k] \in Nat /\ queue[k - 1] \in Seq(Nat)
          /\ Carried(put[k - 1], put[k], hand[Chain[k]], queue[k - 1])
      BY <1>0, <1>4, <2>1, <2>2 DEF Flow
    <3>1. CASE k = p
      <4>1. k - 1 # p
        BY <3>1
      <4>. QED  BY <1>0, <1>6, <2>3, <2>5, <3>0, <3>1, <4>1
    <3>2. CASE k - 1 = p
      <4>1. k # p
        BY <3>2
      <4>2. Carried(put[p] + 1, put[k], hand[Chain[k]], Append(queue[p], put[p] + 1))
        BY <3>0, <3>2, CarriedAppend
      <4>. QED  BY <1>6, <2>3, <2>5, <3>0, <3>2, <4>1, <4>2
    <3>3. CASE k # p /\ k - 1 # p
      BY <1>6, <2>3, <3>0, <3>3
    <3>. QED  BY <3>1, <3>2, <3>3
  <2>7. more[0] = provided' /\ more[N] = Len(passed') /\ \A i \in DOMAIN passed' : passed'[i] = i
    <3>1. put[0] = provided /\ put[N] = Len(passed) /\ \A i \in DOMAIN passed : passed[i] = i
      BY <2>1 DEF Flow, PipelineInv, Flows
    <3>2. CASE p = N
      <4>1. passed' = Append(passed, Len(passed) + 1)
        BY <1>1, <2>5, <3>1, <3>2
      <4>2. /\ Len(passed') = Len(passed) + 1 /\ DOMAIN passed' = 1 .. Len(passed) + 1
            /\ passed'[Len(passed) + 1] = Len(passed) + 1
            /\ \A i \in 1 .. Len(passed) : passed'[i] = passed[i] /\ i \in DOMAIN passed
        BY <1>3, <4>1
      <4>. QED  BY <1>0, <1>1, <1>3, <2>3, <3>1, <3>2, <4>2
    <3>3. CASE p # N
      BY <1>0, <1>1, <2>3, <3>1, <3>3
    <3>. QED  BY <3>2, <3>3
  <2>8. Flow(more)'
    BY <2>3, <2>6, <2>7 DEF Flow
  <2>. QED  BY <2>7, <2>8 DEF Flows
<1>8. Drained'
  <2>. SUFFICES ASSUME NEW k \in 1 .. N, outcome[Chain[k]] = "ok"
       PROVE  hand'[Chain[k]] = None /\ queue'[k - 1] = <<>> /\ ~SenderOpen(k - 1)
    BY <1>1 DEF Drained, vars, taskVars, userVars, SenderOpen, Owns
  <2>0. hand[Chain[k]] = None /\ queue[k - 1] = <<>> /\ ~SenderOpen(k - 1)
    BY DEF PipelineInv, Drained
  <2>1. k # p
    BY <1>0, <1>1, <1>2 DEF TaskInv
  <2>2. k - 1 # p
    BY <1>0, <1>1, <2>0 DEF SenderOpen, Owns
  <2>. QED  BY <1>0, <1>6, <2>0, <2>1, <2>2
<1>. QED  BY <1>5, <1>7, <1>8

LEMMA PassingProvide ==
  ASSUME PipelineInv, Provide
  PROVE  LinkTypes' /\ Flows' /\ Drained'
<1>0. /\ N \in Nat \ {0} /\ 0 \in Links /\ 1 \in 1 .. N /\ N # 0 /\ N \in Links
      /\ \A k \in 1 .. N : Chain[k] \in Tasks /\ k \in Links /\ k - 1 \in Links /\ k # 0
      /\ \A k \in 1 .. N : k # 1 => k - 1 # 0
  BY ChainIs, LinksAre DEF Links
<1>1. /\ sender[Chain[1]] = "user" /\ provided' = provided + 1
      /\ queue' = [queue EXCEPT ![0] = Append(@, provided + 1)]
      /\ UNCHANGED <<vars, hand, receiver, passed>>
  BY DEF Provide
<1>2. LinkTypes
  BY DEF PipelineInv
<1>3. provided \in Nat /\ queue[0] \in Seq(Nat) /\ \A k \in Links : queue[k] \in Seq(Nat)
  BY <1>0, <1>2 DEF LinkTypes
<1>4. LinkTypes'
  <2>1. Append(queue[0], provided + 1) \in Seq(Nat)
    BY <1>3
  <2>2. queue' \in [Links -> Seq(Nat)]
    BY <1>1, <1>2, <2>1 DEF LinkTypes
  <2>3. provided' \in Nat
    BY <1>1, <1>3
  <2>. QED  BY <1>1, <1>2, <2>2, <2>3 DEF LinkTypes
<1>5. /\ queue'[0] = Append(queue[0], provided + 1)
      /\ \A k \in Links : k # 0 => queue'[k] = queue[k]
  BY <1>0, <1>1, <1>2 DEF LinkTypes
<1>6. Flows'
  <2>1. PICK put : Flow(put)
    BY DEF PipelineInv, Flows
  <2>. DEFINE more == [put EXCEPT ![0] = put[0] + 1]
  <2>2. put \in [Links -> Nat] /\ put[0] = provided
    BY <2>1 DEF Flow
  <2>3. more \in [Links -> Nat] /\ more[0] = put[0] + 1 /\ \A k \in Links : k # 0 => more[k] = put[k]
    BY <1>0, <1>3, <2>2
  <2>. HIDE DEF more
  <2>4. ASSUME NEW k \in 1 .. N
        PROVE  Carried(more[k - 1], more[k], hand'[Chain[k]], queue'[k - 1])
    <3>0. k \in Links /\ k - 1 \in Links /\ k # 0 /\ put[k - 1] \in Nat /\ put[k] \in Nat
          /\ queue[k - 1] \in Seq(Nat)
          /\ Carried(put[k - 1], put[k], hand[Chain[k]], queue[k - 1])
      BY <1>0, <1>3, <2>1, <2>2 DEF Flow
    <3>1. CASE k = 1
      <4>1. Carried(put[k - 1] + 1, put[k], hand[Chain[k]], Append(queue[k - 1], put[k - 1] + 1))
        BY <3>0, CarriedAppend
      <4>2. k - 1 = 0
        BY <3>1
      <4>. QED  BY <1>1, <1>5, <2>2, <2>3, <3>0, <4>1, <4>2
    <3>2. CASE k # 1
      BY <1>0, <1>1, <1>5, <2>3, <3>0, <3>2
    <3>. QED  BY <3>1, <3>2
  <2>5. Flow(more)'
    BY <1>0, <1>1, <2>1, <2>2, <2>3, <2>4 DEF Flow
  <2>. QED  BY <1>1, <2>5 DEF Flows, PipelineInv
<1>7. Drained'
  <2>. SUFFICES ASSUME NEW k \in 1 .. N, outcome[Chain[k]] = "ok"
       PROVE  hand[Chain[k]] = None /\ queue'[k - 1] = <<>> /\ ~SenderOpen(k - 1)
    BY <1>1 DEF Drained, vars, taskVars, userVars, SenderOpen, Owns
  <2>0. hand[Chain[k]] = None /\ queue[k - 1] = <<>> /\ ~SenderOpen(k - 1)
    BY DEF PipelineInv, Drained
  <2>1. k # 1
    BY <1>1, <2>0 DEF SenderOpen
  <2>. QED  BY <1>0, <1>5, <2>0, <2>1
<1>. QED  BY <1>4, <1>6, <1>7

LEMMA PassingConsume ==
  ASSUME PipelineInv, Consume
  PROVE  LinkTypes' /\ Flows' /\ Drained'
<1>0. N \in Links /\ \A k \in 1 .. N : k - 1 \in Links /\ k - 1 # N /\ Chain[k] \in Tasks
  BY ChainIs, LinksAre DEF Links
<1>1. /\ queue[N] # <<>> /\ queue' = [queue EXCEPT ![N] = Tail(@)]
      /\ UNCHANGED <<vars, hand, receiver, provided, passed>>
  BY DEF Consume
<1>2. LinkTypes /\ queue[N] \in Seq(Nat)
  BY <1>0 DEF PipelineInv, LinkTypes
<1>3. LinkTypes'
  <2>1. Tail(queue[N]) \in Seq(Nat)
    BY <1>1, <1>2
  <2>. QED  BY <1>1, <1>2, <2>1 DEF LinkTypes
<1>4. \A k \in 1 .. N : queue'[k - 1] = queue[k - 1]
  BY <1>0, <1>1, <1>2 DEF LinkTypes
<1>5. Flows'
  <2>1. PICK put : Flow(put)
    BY DEF PipelineInv, Flows
  <2>2. Flow(put)'
    BY <1>1, <1>4, <2>1 DEF Flow
  <2>. QED  BY <1>1, <2>2 DEF Flows, PipelineInv
<1>6. Drained'
  BY <1>1, <1>4 DEF Drained, PipelineInv, vars, taskVars, userVars, SenderOpen, Owns
<1>. QED  BY <1>3, <1>5, <1>6

\* Every step keeps the invariant.
LEMMA PipelineStep == PipelineInv /\ [PipelineNext]_pipelineVars => PipelineInv'
<1>. SUFFICES ASSUME PipelineInv, [PipelineNext]_pipelineVars PROVE PipelineInv'
  OBVIOUS
<1>1. [Next]_vars
  BY PipelineRefines
<1>2. ExecutionInv'
  BY <1>1, ExecutionStep DEF PipelineInv
<1>3. Ends' /\ receiver' \in {"none", "system", "user"}
  BY EndsStep
<1>4. LinkTypes' /\ Flows' /\ Drained'
  <2>1. CASE Passing
    BY <2>1, PassingReceive, PassingSend, PassingProvide, PassingConsume, Zenon DEF Passing
  <2>2. CASE ~Passing
    <3>1. UNCHANGED linkVars
          /\ \A t \in Tasks : outcome'[t] = "ok" => outcome[t] = "ok" \/ EndOfInput(t)
      BY <2>2, NotPassing
    <3>2. LinkTypes'
      BY <1>3, <3>1 DEF PipelineInv, LinkTypes, linkVars
    <3>3. Flows'
      <4>1. PICK put : Flow(put)
        BY DEF PipelineInv, Flows
      <4>2. Flow(put)'
        BY <3>1, <4>1 DEF Flow, linkVars
      <4>. QED  BY <3>1, <4>2 DEF Flows, PipelineInv, linkVars
    <3>4. ASSUME NEW k \in 1 .. N, outcome'[Chain[k]] = "ok"
          PROVE  hand[Chain[k]] = None /\ queue[k - 1] = <<>> /\ ~SenderOpen(k - 1)'
      <4>0. Chain[k] \in Tasks /\ k - 1 \in 0 .. N - 1 /\ TypeOK
        BY ChainIs DEF PipelineInv, ExecutionInv
      <4>1. hand[Chain[k]] = None /\ queue[k - 1] = <<>> /\ ~SenderOpen(k - 1)
        <5>1. CASE outcome[Chain[k]] = "ok"
          BY <5>1 DEF PipelineInv, Drained
        <5>2. CASE EndOfInput(Chain[k])
          <6>1. Place(Chain[k]) = k
            BY <4>0, PlaceIs
          <6>. QED  BY <5>2, <6>1 DEF EndOfInput
        <5>. QED  BY <3>1, <3>4, <4>0, <5>1, <5>2
      <4>2. ~SenderOpen(k - 1)'
        BY <1>1, <4>0, <4>1, SendersGo
      <4>. QED  BY <4>1, <4>2
    <3>5. Drained'
      BY <3>1, <3>4 DEF Drained, linkVars
    <3>. QED  BY <3>2, <3>3, <3>5
  <2>. QED  BY <2>1, <2>2
<1>. QED  BY <1>2, <1>3, <1>4 DEF PipelineInv

LEMMA PipelineInvariant == PipelineSpec => []PipelineInv
<1>. QED  BY PipelineInvInit, PipelineStep, PTL DEF PipelineSpec

-----------------------------------------------------------------------------
(* Payloads leave in order, and Ok means that all of them did. *)

\* No more can be put into a link than into the one before it.
LEMMA FewerBehind ==
  ASSUME LinkTypes, NEW put, Flow(put), NEW k \in 1 .. N
  PROVE  /\ put[k - 1] \in Nat /\ put[k] \in Nat /\ put[k] <= put[k - 1]
         /\ hand[Chain[k]] = None /\ queue[k - 1] = <<>> => put[k] = put[k - 1]
<1>1. k \in Links /\ k - 1 \in Links /\ put[k - 1] \in Nat /\ put[k] \in Nat
      /\ queue[k - 1] \in Seq(Nat) /\ Carried(put[k - 1], put[k], hand[Chain[k]], queue[k - 1])
  BY LinksAre DEF Flow, LinkTypes
<1>2. Len(queue[k - 1]) \in Nat /\ Held(hand[Chain[k]]) \in Nat
      /\ put[k - 1] = put[k] + Held(hand[Chain[k]]) + Len(queue[k - 1])
  BY <1>1 DEF Carried, Held
<1>3. hand[Chain[k]] = None /\ queue[k - 1] = <<>> =>
        Held(hand[Chain[k]]) = 0 /\ Len(queue[k - 1]) = 0
  BY DEF Held
<1>. QED  BY <1>1, <1>2, <1>3

LEMMA AllTheWay ==
  ASSUME LinkTypes, NEW put, Flow(put)
  PROVE  /\ Len(passed) <= provided
         /\ (\A k \in 1 .. N : hand[Chain[k]] = None /\ queue[k - 1] = <<>>) =>
              Len(passed) = provided
<1>. DEFINE idle == \A k \in 1 .. N : hand[Chain[k]] = None /\ queue[k - 1] = <<>>
            S == {k \in 0 .. N : put[k] \in Nat /\ put[k] <= provided /\ (idle => put[k] = provided)}
<1>0. N \in Nat /\ put[0] = provided /\ put[N] = Len(passed) /\ provided \in Nat
  BY ChainIs DEF Flow, LinkTypes
<1>1. 0 \in S
  BY <1>0
<1>2. ASSUME NEW k \in 0 .. N - 1, k \in S PROVE k + 1 \in S
  <2>1. k + 1 \in 1 .. N /\ (k + 1) - 1 = k /\ k + 1 \in 0 .. N
    BY <1>0
  <2>2. put[k + 1] \in Nat /\ put[k + 1] <= put[k] /\ (idle => put[k + 1] = put[k])
    BY <2>1, FewerBehind
  <2>3. put[k] \in Nat /\ put[k] <= provided /\ (idle => put[k] = provided)
    BY <1>2
  <2>. HIDE DEF idle
  <2>. QED  BY <1>0, <2>1, <2>2, <2>3
<1>. HIDE DEF S
<1>3. 0 .. N \subseteq S
  BY <1>0, <1>1, <1>2, BoundedInduction, Zenon
<1>4. N \in S
  BY <1>0, <1>3
<1>. QED  BY <1>0, <1>4 DEF S

\* When execute() has returned Ok, every task has ended well.
LEMMA OkEverywhere ==
  ASSUME PipelineInv, result = "ok", NEW t \in Tasks
  PROVE  outcome[t] = "ok"
<1>0. TypeOK /\ TaskInv /\ OrderInv /\ Ends /\ Len(order) \in Nat /\ DOMAIN order = 1 .. Len(order)
  BY DEF PipelineInv, ExecutionInv, TypeOK
<1>1. phase = "returned" /\ task[t] = "ended"
  BY <1>0 DEF TypeOK, TaskInv, Pending, Running, Ends
<1>2. Joined = Len(order)
  BY <1>0 DEF OrderInv, Joined
<1>3. \A i \in DOMAIN order : outcome[order[i]] = "ok"
  BY <1>0, <1>2 DEF OrderInv
<1>. QED  BY <1>0, <1>1, <1>3 DEF OrderInv

\* The loops of stdin(), connect() and stdout() pass the payloads on in the
\* order in which they came, none twice and none skipped; when System::execute
\* has returned Ok, every payload that was sent has left the last process.
THEOREM PayloadsAreDelivered == PipelineSpec => []Delivered
<1>1. PipelineInv => Delivered
  <2>. SUFFICES ASSUME PipelineInv PROVE Delivered
    OBVIOUS
  <2>1. LinkTypes /\ Drained /\ \A i \in DOMAIN passed : passed[i] = i
    BY DEF PipelineInv, Flows
  <2>2. PICK put : Flow(put)
    BY DEF PipelineInv, Flows
  <2>3. result = "ok" => \A k \in 1 .. N : hand[Chain[k]] = None /\ queue[k - 1] = <<>>
    BY <2>1, OkEverywhere, ChainIs DEF Drained
  <2>4. Len(passed) <= provided /\ (result = "ok" => Len(passed) = provided)
    BY <2>1, <2>2, <2>3, AllTheWay
  <2>. QED  BY <2>1, <2>4 DEF Delivered
<1>. QED  BY <1>1, PipelineInvariant, PTL

-----------------------------------------------------------------------------
(* Nothing but the outside blocks the pipeline. *)

\* A waiting execute() that has nothing to join: every task runs or has ended well.
LEMMA RunningOrWell ==
  ASSUME PipelineInv, phase = "joining", finished = <<>>, NEW t \in Tasks
  PROVE  task[t] = "running" \/ (task[t] = "ended" /\ outcome[t] = "ok")
<1>0. TypeOK /\ TaskInv /\ OrderInv /\ Ends /\ Len(order) \in Nat /\ DOMAIN order = 1 .. Len(order)
  BY DEF PipelineInv, ExecutionInv, TypeOK
<1>1. task[t] \in {"running", "ended"}
  BY <1>0 DEF TypeOK, TaskInv, Pending, Ends
<1>2. Joined = Len(order)
  BY <1>0 DEF OrderInv, Joined
<1>3. \A i \in DOMAIN order : outcome[order[i]] = "ok"
  BY <1>0, <1>2 DEF OrderInv, Before
<1>. QED  BY <1>0, <1>1, <1>3 DEF OrderInv

\* Behind a task that is stuck there is one that runs, and its queue is full.
LEMMA StuckSpreads ==
  ASSUME PipelineInv, phase = "joining", finished = <<>>,
         NEW k \in 1 .. N - 1, task[Chain[k]] = "running", Stuck(Chain[k]),
         \A t \in Running : Starved(t) \/ Stuck(t)
  PROVE  task[Chain[k + 1]] = "running" /\ Stuck(Chain[k + 1])
<1>0. /\ k \in 1 .. N /\ k + 1 \in 1 .. N /\ (k + 1) - 1 = k /\ k \in Links /\ Cap \in Nat \ {0}
      /\ Chain[k] \in Tasks /\ Chain[k + 1] \in Tasks
      /\ Place(Chain[k]) = k /\ Place(Chain[k + 1]) = k + 1
  <2>1. k \in 1 .. N /\ k + 1 \in 1 .. N /\ (k + 1) - 1 = k
    BY ChainIs
  <2>2. Chain[k] \in Tasks /\ Chain[k + 1] \in Tasks
    BY <2>1, ChainIs
  <2>. QED  BY <2>1, <2>2, PlaceIs, ChainIs, LinksAre
<1>1. Len(queue[k]) = Cap /\ queue[k] # <<>>
  BY <1>0 DEF Stuck
<1>2. task[Chain[k + 1]] = "running"
  <2>1. outcome[Chain[k + 1]] # "ok"
    BY <1>0, <1>1 DEF PipelineInv, Drained
  <2>. QED  BY <1>0, <2>1, RunningOrWell
<1>3. ~Starved(Chain[k + 1])
  BY <1>0, <1>1 DEF Starved
<1>. QED  BY <1>0, <1>2, <1>3 DEF Running

LEMMA StuckToTheEnd ==
  ASSUME PipelineInv, phase = "joining", finished = <<>>,
         NEW k \in 1 .. N, task[Chain[k]] = "running", Stuck(Chain[k]),
         \A t \in Running : Starved(t) \/ Stuck(t)
  PROVE  Stuck(Chain[N])
<1>. DEFINE S == {d \in 0 .. N - k : task[Chain[k + d]] = "running" /\ Stuck(Chain[k + d])}
<1>0. N \in Nat /\ N - k \in Nat /\ k + 0 = k
  BY ChainIs
<1>1. 0 \in S
  BY <1>0
<1>2. ASSUME NEW d \in 0 .. (N - k) - 1, d \in S PROVE d + 1 \in S
  <2>1. k + d \in 1 .. N - 1 /\ d + 1 \in 0 .. N - k /\ (k + d) + 1 = k + (d + 1)
    BY <1>0
  <2>. DEFINE m == k + d
  <2>2. m \in 1 .. N - 1 /\ m + 1 = k + (d + 1) /\ task[Chain[m]] = "running" /\ Stuck(Chain[m])
    BY <1>2, <2>1
  <2>. HIDE DEF m
  <2>3. task[Chain[m + 1]] = "running" /\ Stuck(Chain[m + 1])
    BY <2>2, StuckSpreads
  <2>. QED  BY <2>1, <2>2, <2>3
<1>. HIDE DEF S
<1>3. N - k \in S
  BY <1>0, <1>1, <1>2, BoundedInduction
<1>4. k + (N - k) = N
  BY <1>0
<1>. QED  BY <1>3, <1>4 DEF S

\* While System::execute waits for blocked processes, it is the user who keeps
\* it waiting: with a sender they hold on to, or a receiver they do not drive.
\* The bounded queues make no process wait for another in a circle.
THEOREM OnlyTheOutsideBlocks == PipelineSpec => []BlockedFromOutside
<1>1. PipelineInv => BlockedFromOutside
  <2>. SUFFICES ASSUME PipelineInv, phase = "joining", finished = <<>>, Running # {},
                       \A t \in Running : t \notin aborted /\ (Starved(t) \/ Stuck(t))
                PROVE  \/ sender[Chain[1]] = "user" /\ queue[0] = <<>>
                       \/ receiver = "user" /\ Len(queue[N]) = Cap
    BY DEF BlockedFromOutside
  <2>0. N \in Nat \ {0} /\ 1 \in 1 .. N /\ N \in 1 .. N /\ \A k \in 1 .. N : Chain[k] \in Tasks
    BY ChainIs
  <2>1. TypeOK /\ Ends /\ LinkTypes /\ \A t \in Running : Starved(t) \/ Stuck(t)
    BY DEF PipelineInv, ExecutionInv
  <2>2. PICK k \in 1 .. N : task[Chain[k]] = "running"
                            /\ \A m \in 1 .. N : task[Chain[m]] = "running" => k <= m
    <3>. DEFINE S == {m \in 1 .. N : task[Chain[m]] = "running"}
    <3>1. S # {} /\ S \subseteq Nat
      BY ChainIs DEF Running
    <3>. HIDE DEF S
    <3>2. PICK n \in S : \A m \in S : n <= m
      BY <3>1, LeastNumber
    <3>. QED  BY <3>2 DEF S
  <2>3. CASE Stuck(Chain[k])
    <3>1. Stuck(Chain[N])
      BY <2>1, <2>2, <2>3, StuckToTheEnd
    <3>2. Place(Chain[N]) = N
      BY <2>0, PlaceIs
    <3>3. Len(queue[N]) = Cap /\ receiver # "none"
      BY <3>1, <3>2 DEF Stuck, ReceiverOpen
    <3>. QED  BY <2>1, <3>3 DEF Ends, LinkTypes
  <2>4. CASE Starved(Chain[k])
    <3>1. Place(Chain[k]) = k
      BY <2>0, PlaceIs
    <3>2. queue[k - 1] = <<>> /\ SenderOpen(k - 1)
      BY <2>4, <3>1 DEF Starved
    <3>3. k = 1
      <4>. SUFFICES ASSUME k # 1 PROVE FALSE
        OBVIOUS
      <4>1. k - 1 \in 1 .. N /\ k - 1 # 0 /\ ~(k <= k - 1)
        BY <2>0
      <4>2. task[Chain[k - 1]] \in {"absent", "pending", "running"}
        BY <3>2, <4>1 DEF SenderOpen, Owns
      <4>3. task[Chain[k - 1]] = "running" \/ task[Chain[k - 1]] = "ended"
        BY <2>0, <4>1, RunningOrWell
      <4>. QED  BY <2>2, <4>1, <4>2, <4>3
    <3>4. sender[Chain[1]] # "none" /\ queue[0] = <<>>
      BY <3>2, <3>3 DEF SenderOpen
    <3>. QED  BY <2>0, <2>1, <3>4 DEF Ends, TypeOK
  <2>5. Chain[k] \in Running
    BY <2>0, <2>2 DEF Running
  <2>. QED  BY <2>1, <2>3, <2>4, <2>5
<1>. QED  BY <1>1, PipelineInvariant, PTL

-----------------------------------------------------------------------------
(* SystemExecution, implemented. *)

\* Whatever the loops, the queues and the user do, the system of the pipeline
\* behaves as SystemExecution allows: a process ends well only when all that
\* feeds it has ended and its external sender is gone.  (FairSpec also asks
\* for fairness.)
THEOREM PipelineImplementsExecution == PipelineSpec => Spec
<1>1. PipelineInit => Init
  BY DEF PipelineInit
<1>2. PipelineInv /\ [PipelineNext]_pipelineVars => [Next]_vars
  BY PipelineRefines
<1>. QED  BY <1>1, <1>2, PipelineInvariant, PTL DEF PipelineSpec, Spec
=============================================================================
