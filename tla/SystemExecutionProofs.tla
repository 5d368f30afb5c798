----------------------- MODULE SystemExecutionProofs ------------------------
(* Theorems about SystemExecution, for any set of processes and tasks and  *)
(* whatever feeds what.                                                    *)
EXTENDS SystemExecution, SequenceTheorems, TLAPS

Before == phase \in {"built", "starting", "joining"}

\* Where a task and the System can be together.
TaskInv ==
  /\ \A t \in Tasks : (task[t] = "ended") <=> (outcome[t] # "none")
  /\ \A t \in Tasks : task[t] = "dropped" => phase \in {"returned", "dropped"} /\ result # "ok"
  /\ phase \in {"joining", "returned"} => Pending = {}
  /\ phase = "returned" => Running = {}
  /\ (phase = "returned") <=> (result # "none")
  /\ Before => cause = None
  /\ result = "error" => cause # None

\* The tasks that were joined are the first that ended.
Joined == Len(order) - Len(finished)

OrderInv ==
  /\ Joined >= 0
  /\ \A i \in DOMAIN finished : finished[i] = order[Joined + i]
  /\ \A i \in DOMAIN order : task[order[i]] = "ended"
  /\ \A t \in Tasks : task[t] = "ended" => \E i \in DOMAIN order : order[i] = t
  /\ Before \/ result = "ok" => \A i \in 1 .. Joined : outcome[order[i]] = "ok"
  /\ result = "ok" => finished = <<>>

\* Until the first failure is joined nobody but the user has aborted a task.
AbortInv ==
  Before => /\ aborted \subseteq stopped
            /\ \A t \in Tasks : outcome[t] = "cancelled" => t \in stopped

FirstFailure ==
  /\ \E i \in DOMAIN order :
       order[i] = cause /\ \A j \in 1 .. i - 1 : outcome[order[j]] = "ok"
  /\ outcome[cause] # "ok"
  /\ outcome[cause] = "cancelled" => cause \in stopped

CauseInv == cause # None => cause \in Tasks /\ FirstFailure

ExecutionInv == TypeOK /\ TaskInv /\ OrderInv /\ AbortInv /\ CauseInv

-----------------------------------------------------------------------------

LEMMA ExecutionInit == Init => ExecutionInv
<1>. SUFFICES ASSUME Init PROVE ExecutionInv
  OBVIOUS
<1>1. TypeOK
  BY DEF Init, TypeOK
<1>2. TaskInv
  BY DEF Init, TaskInv, Pending, Running, Before
<1>3. OrderInv
  BY DEF Init, OrderInv, Joined, Before
<1>4. AbortInv
  BY DEF Init, AbortInv, Before
<1>5. CauseInv
  BY DEF Init, CauseInv
<1>. QED  BY <1>1, <1>2, <1>3, <1>4, <1>5 DEF ExecutionInv

\* A step that ends no task and joins none keeps the order and the cause.
LEMMA OrderFrame ==
  ASSUME ExecutionInv, UNCHANGED <<outcome, finished, order, cause>>,
         \A t \in Tasks : (task[t] = "ended") <=> (task'[t] = "ended"),
         Before' => Before, (result = "ok")' => Before \/ result = "ok",
         (result = "ok")' => finished = <<>>,
         stopped \subseteq stopped'
  PROVE  OrderInv' /\ CauseInv'
<1>1. OrderInv'
  <2>1. Joined' = Joined
    BY DEF Joined
  <2>2. \A i \in DOMAIN order : order[i] \in Tasks
    BY DEF ExecutionInv, TypeOK
  <2>. QED  BY <2>1, <2>2 DEF ExecutionInv, OrderInv
<1>2. CauseInv'
  BY DEF ExecutionInv, CauseInv, FirstFailure
<1>. QED  BY <1>1, <1>2

LEMMA EndedStep ==
  ASSUME ExecutionInv, NEW t \in Tasks, task[t] = "running",
         NEW how \in {"ok", "failed", "panicked", "cancelled"},
         how = "cancelled" => t \in aborted, Ended(t, how)
  PROVE  ExecutionInv'
<1>. USE DEF Ended, userVars, endVars
<1>0. /\ TypeOK /\ TaskInv /\ OrderInv /\ AbortInv /\ CauseInv
      /\ Len(order) \in Nat /\ Len(finished) \in Nat
  BY DEF ExecutionInv, TypeOK
<1>1. /\ order' = Append(order, t) /\ finished' = Append(finished, t)
      /\ Len(order') = Len(order) + 1 /\ Len(finished') = Len(finished) + 1
      /\ order'[Len(order) + 1] = t /\ finished'[Len(finished) + 1] = t
      /\ \A i \in 1 .. Len(order) : order'[i] = order[i]
      /\ \A i \in 1 .. Len(finished) : finished'[i] = finished[i]
      /\ DOMAIN order' = 1 .. Len(order) + 1 /\ DOMAIN finished' = 1 .. Len(finished) + 1
      /\ DOMAIN order = 1 .. Len(order) /\ DOMAIN finished = 1 .. Len(finished)
  BY <1>0, AppendProperties DEF TypeOK
<1>2. /\ \A i \in 1 .. Len(order) : order[i] \in Tasks /\ order[i] # t
      /\ \A i \in 1 .. Len(order) : outcome'[order[i]] = outcome[order[i]]
  <2>. SUFFICES ASSUME NEW i \in 1 .. Len(order)
                PROVE  order[i] \in Tasks /\ order[i] # t /\ outcome'[order[i]] = outcome[order[i]]
    OBVIOUS
  <2>1. order[i] \in Tasks
    BY <1>0 DEF TypeOK
  <2>2. task[order[i]] = "ended"
    BY <1>0, <1>1 DEF OrderInv
  <2>. QED  BY <1>0, <2>1, <2>2 DEF TypeOK
<1>3. TypeOK'
  BY <1>0, <1>1 DEF TypeOK
<1>4. TaskInv'
  BY <1>0 DEF TypeOK, TaskInv, Pending, Running, Before
<1>5. OrderInv'
  <2>1. Joined' = Joined /\ Joined + Len(finished) = Len(order) /\ Joined \in Nat
    BY <1>0, <1>1 DEF Joined, OrderInv
  <2>2. \A i \in DOMAIN finished' : finished'[i] = order'[Joined + i]
    <3>. SUFFICES ASSUME NEW i \in DOMAIN finished' PROVE finished'[i] = order'[Joined + i]
      OBVIOUS
    <3>1. CASE i = Len(finished) + 1
      <4>. HIDE DEF Joined, Ended
      <4>1. Joined + i = Len(order) + 1
        BY <1>0, <2>1, <3>1
      <4>. QED  BY <1>1, <3>1, <4>1
    <3>2. CASE i # Len(finished) + 1
      <4>1. i \in 1 .. Len(finished) /\ Joined + i \in 1 .. Len(order)
        BY <1>0, <1>1, <2>1, <3>2
      <4>. QED  BY <1>0, <1>1, <4>1 DEF OrderInv
    <3>. QED  BY <3>1, <3>2
  <2>3. \A i \in DOMAIN order' : task'[order'[i]] = "ended"
    BY <1>0, <1>1, <1>2 DEF OrderInv, TypeOK
  <2>4. \A u \in Tasks : task'[u] = "ended" => \E i \in DOMAIN order' : order'[i] = u
    <3>1. Len(order) + 1 \in DOMAIN order'
      BY <1>0, <1>1
    <3>2. \A i \in DOMAIN order : i \in DOMAIN order'
      BY <1>0, <1>1
    <3>. QED  BY <1>0, <1>1, <3>1, <3>2 DEF OrderInv, TypeOK
  <2>5. Before' \/ result' = "ok" => \A i \in 1 .. Joined' : outcome'[order'[i]] = "ok"
    <3>1. \A i \in 1 .. Joined : i \in 1 .. Len(order)
      BY <1>0, <2>1
    <3>. QED  BY <1>0, <1>1, <1>2, <2>1, <3>1 DEF OrderInv, Before
  <2>6. result' # "ok"
    BY <1>0 DEF TaskInv, Running
  <2>. HIDE DEF Joined
  <2>. QED  BY <1>0, <2>1, <2>2, <2>3, <2>4, <2>5, <2>6 DEF OrderInv
<1>6. AbortInv'
  BY <1>0 DEF AbortInv, Before, TypeOK
<1>7. CauseInv'
  <2>. SUFFICES ASSUME cause' # None PROVE cause' \in Tasks /\ FirstFailure'
    BY DEF CauseInv
  <2>0. cause' = cause /\ cause # None /\ stopped' = stopped
    OBVIOUS
  <2>1. PICK k \in 1 .. Len(order) :
          order[k] = cause /\ \A j \in 1 .. k - 1 : outcome[order[j]] = "ok"
    BY <1>0, <1>1, <2>0 DEF CauseInv, FirstFailure
  <2>2. k \in DOMAIN order' /\ order'[k] = cause
    BY <1>0, <1>1, <2>1
  <2>3. \A j \in 1 .. k - 1 : outcome'[order'[j]] = "ok"
    <3>1. \A j \in 1 .. k - 1 : j \in 1 .. Len(order)
      BY <1>0, <2>1
    <3>. QED  BY <1>1, <1>2, <2>1, <3>1
  <2>4. outcome'[cause] = outcome[cause]
    BY <1>2, <2>1
  <2>. QED  BY <1>0, <2>0, <2>2, <2>3, <2>4 DEF CauseInv, FirstFailure
<1>. QED  BY <1>3, <1>4, <1>5, <1>6, <1>7 DEF ExecutionInv

\* join_next takes the next ended task: the first failure becomes the cause.
LEMMA JoinStep == ExecutionInv /\ Join => ExecutionInv'
<1>. SUFFICES ASSUME ExecutionInv, Join PROVE ExecutionInv'
  OBVIOUS
<1>0. /\ TypeOK /\ TaskInv /\ OrderInv /\ AbortInv /\ CauseInv
      /\ Len(order) \in Nat /\ Len(finished) \in Nat /\ Len(finished) > 0
      /\ DOMAIN order = 1 .. Len(order) /\ DOMAIN finished = 1 .. Len(finished)
      /\ phase = "joining" /\ UNCHANGED <<runtime, sender, stopped, task, outcome, order, result>>
  BY DEF ExecutionInv, TypeOK, Join, userVars
<1>1. /\ finished' \in Seq(Tasks) /\ Len(finished') = Len(finished) - 1
      /\ DOMAIN finished' = 1 .. Len(finished')
      /\ \A i \in 1 .. Len(finished) - 1 : finished'[i] = finished[i + 1]
      /\ Head(finished) = finished[1] /\ Head(finished) \in Tasks
  BY <1>0 DEF Join, TypeOK
<1>2. /\ Joined \in Nat /\ Joined' = Joined + 1 /\ Joined + Len(finished) = Len(order)
      /\ Head(finished) = order[Joined + 1] /\ Joined + 1 \in DOMAIN order
  <2>1. Joined \in Nat /\ Joined' = Joined + 1 /\ Joined + Len(finished) = Len(order)
    BY <1>0, <1>1 DEF OrderInv, Joined
  <2>2. 1 \in DOMAIN finished
    BY <1>0
  <2>3. finished[1] = order[Joined + 1]
    BY <1>0, <2>2 DEF OrderInv
  <2>. HIDE DEF Joined
  <2>4. Joined + 1 \in 1 .. Len(order)
    BY <1>0, <2>1
  <2>. QED  BY <1>0, <1>1, <2>1, <2>3, <2>4
<1>3. \A i \in 1 .. Joined : outcome[order[i]] = "ok"
  BY <1>0 DEF OrderInv, Before
<1>4. \/ /\ outcome[Head(finished)] # "ok"
         /\ phase' = "shutdown" /\ cause' = Head(finished) /\ aborted' = aborted \cup Running
      \/ /\ outcome[Head(finished)] = "ok"
         /\ UNCHANGED <<phase, cause, aborted>>
  BY DEF Join
<1>5. TypeOK'
  BY <1>0, <1>1, <1>4 DEF TypeOK, Running
<1>6. TaskInv'
  BY <1>0, <1>1, <1>4 DEF TaskInv, TypeOK, Pending, Running, Before
<1>7. OrderInv'
  <2>1. \A i \in DOMAIN finished' : finished'[i] = order'[Joined' + i]
    <3>. SUFFICES ASSUME NEW i \in DOMAIN finished' PROVE finished'[i] = order[Joined' + i]
      BY <1>0
    <3>. HIDE DEF Joined
    <3>1. finished'[i] = finished[i + 1] /\ i + 1 \in DOMAIN finished
      BY <1>0, <1>1
    <3>2. finished[i + 1] = order[Joined + (i + 1)]
      BY <1>0, <3>1 DEF OrderInv
    <3>3. Joined + (i + 1) = Joined' + i
      BY <1>0, <1>1, <1>2
    <3>. QED  BY <3>1, <3>2, <3>3
  <2>2. Before' => \A i \in 1 .. Joined' : outcome'[order'[i]] = "ok"
    <3>. HIDE DEF Joined
    <3>. SUFFICES ASSUME Before', NEW i \in 1 .. Joined' PROVE outcome[order[i]] = "ok"
      BY <1>0
    <3>1. outcome[order[Joined + 1]] = "ok"
      BY <1>2, <1>4 DEF Before
    <3>2. i \in 1 .. Joined \/ i = Joined + 1
      BY <1>2
    <3>. QED  BY <1>3, <3>1, <3>2
  <2>3. result' # "ok" /\ Joined' >= 0
    <3>. HIDE DEF Joined
    <3>. QED  BY <1>0, <1>2 DEF TaskInv
  <2>. HIDE DEF Joined
  <2>. QED  BY <1>0, <2>1, <2>2, <2>3 DEF OrderInv
<1>8. AbortInv'
  BY <1>0, <1>4 DEF AbortInv, Before
<1>9. CauseInv'
  <2>0. cause = None
    BY <1>0 DEF TaskInv, Before
  <2>. SUFFICES ASSUME cause' # None PROVE cause' \in Tasks /\ FirstFailure'
    BY DEF CauseInv
  <2>1. outcome[Head(finished)] # "ok" /\ cause' = Head(finished)
    BY <1>4, <2>0
  <2>2. \A j \in 1 .. (Joined + 1) - 1 : outcome[order[j]] = "ok"
    <3>. HIDE DEF Joined
    <3>. QED  BY <1>2, <1>3
  <2>3. outcome[cause'] = "cancelled" => cause' \in stopped
    BY <1>0, <1>1, <2>1 DEF AbortInv, Before
  <2>. HIDE DEF Joined
  <2>4. /\ order'[Joined + 1] = cause' /\ Joined + 1 \in DOMAIN order'
        /\ \A j \in 1 .. (Joined + 1) - 1 : outcome'[order'[j]] = "ok"
    BY <1>0, <1>2, <2>1, <2>2
  <2>. QED  BY <1>0, <1>1, <2>1, <2>3, <2>4 DEF FirstFailure
<1>. QED  BY <1>5, <1>6, <1>7, <1>8, <1>9 DEF ExecutionInv

\* The shutdown joins the rest; it changes neither the cause nor an outcome.
LEMMA ReapStep == ExecutionInv /\ Reap => ExecutionInv'
<1>. SUFFICES ASSUME ExecutionInv, Reap PROVE ExecutionInv'
  OBVIOUS
<1>0. /\ TypeOK /\ TaskInv /\ OrderInv /\ AbortInv /\ CauseInv
      /\ Len(order) \in Nat /\ Len(finished) \in Nat /\ Len(finished) > 0
      /\ DOMAIN order = 1 .. Len(order) /\ DOMAIN finished = 1 .. Len(finished)
      /\ phase = "shutdown"
      /\ UNCHANGED <<phase, runtime, aborted, sender, stopped, task, outcome, order, cause, result>>
  BY DEF ExecutionInv, TypeOK, Reap, userVars, endVars
<1>1. /\ finished' \in Seq(Tasks) /\ Len(finished') = Len(finished) - 1
      /\ DOMAIN finished' = 1 .. Len(finished')
      /\ \A i \in 1 .. Len(finished) - 1 : finished'[i] = finished[i + 1]
  BY <1>0 DEF Reap, TypeOK
<1>2. Joined \in Nat /\ Joined' = Joined + 1
  BY <1>0, <1>1 DEF OrderInv, Joined
<1>3. TypeOK' /\ TaskInv' /\ AbortInv'
  BY <1>0, <1>1 DEF TypeOK, TaskInv, AbortInv, Pending, Running, Before
<1>4. OrderInv'
  <2>. HIDE DEF Joined
  <2>1. \A i \in DOMAIN finished' : finished'[i] = order'[Joined' + i]
    <3>. SUFFICES ASSUME NEW i \in DOMAIN finished' PROVE finished'[i] = order[Joined' + i]
      BY <1>0
    <3>1. finished'[i] = finished[i + 1] /\ i + 1 \in DOMAIN finished
      BY <1>0, <1>1
    <3>2. finished[i + 1] = order[Joined + (i + 1)]
      BY <1>0, <3>1 DEF OrderInv
    <3>3. Joined + (i + 1) = Joined' + i
      BY <1>0, <1>1, <1>2
    <3>. QED  BY <3>1, <3>2, <3>3
  <2>2. ~Before' /\ result' # "ok" /\ Joined' >= 0
    BY <1>0, <1>2 DEF TaskInv, Before
  <2>. QED  BY <1>0, <2>1, <2>2 DEF OrderInv
<1>5. CauseInv'
  BY <1>0 DEF CauseInv, FirstFailure
<1>. QED  BY <1>3, <1>4, <1>5 DEF ExecutionInv

\* Every step keeps the invariant.
LEMMA ExecutionStep == ExecutionInv /\ [Next]_vars => ExecutionInv'
<1>. SUFFICES ASSUME ExecutionInv, [Next]_vars PROVE ExecutionInv'
  OBVIOUS
<1>0. TypeOK /\ TaskInv /\ OrderInv /\ AbortInv /\ CauseInv
  BY DEF ExecutionInv
<1>. USE DEF userVars, taskVars, endVars
<1>1. ASSUME NEW t \in Tasks, Spawn(t) PROVE ExecutionInv'
  <2>1. TypeOK' /\ TaskInv' /\ AbortInv'
    BY <1>0, <1>1 DEF Spawn, TypeOK, TaskInv, AbortInv, Pending, Running, Before
  <2>2. OrderInv' /\ CauseInv'
    BY <1>0, <1>1, OrderFrame DEF Spawn, TypeOK, Before, TaskInv
  <2>. QED  BY <2>1, <2>2 DEF ExecutionInv
<1>2. ASSUME NEW t \in Tasks, TakeSender(t) \/ DropSender(t) PROVE ExecutionInv'
  <2>1. TypeOK' /\ TaskInv' /\ AbortInv'
    BY <1>0, <1>2 DEF TakeSender, DropSender, TypeOK, TaskInv, AbortInv, Pending, Running, Before
  <2>2. OrderInv' /\ CauseInv'
    BY <1>0, <1>2, OrderFrame DEF TakeSender, DropSender, Before, OrderInv
  <2>. QED  BY <2>1, <2>2 DEF ExecutionInv
<1>3. ASSUME NEW t \in Tasks, Finish(t) \/ Fail(t) PROVE ExecutionInv'
  BY <1>3, EndedStep DEF Finish, Complete, Cancel, Fail
<1>4. ASSUME NEW t \in Tasks, Abort(t) PROVE ExecutionInv'
  <2>1. TypeOK' /\ TaskInv' /\ AbortInv'
    BY <1>0, <1>4 DEF Abort, TypeOK, TaskInv, AbortInv, Pending, Running, Before
  <2>2. OrderInv' /\ CauseInv'
    BY <1>0, <1>4, OrderFrame DEF Abort, Before, OrderInv
  <2>. QED  BY <2>1, <2>2 DEF ExecutionInv
<1>5. ASSUME Execute PROVE ExecutionInv'
  <2>1. TypeOK'
    BY <1>0, <1>5 DEF Execute, TypeOK, Unclaimed, Running
  <2>2. TaskInv' /\ AbortInv'
    BY <1>0, <1>5 DEF Execute, TaskInv, AbortInv, Pending, Running, Before
  <2>3. OrderInv' /\ CauseInv'
    BY <1>0, <1>5, OrderFrame DEF Execute, Before, OrderInv
  <2>. QED  BY <2>1, <2>2, <2>3 DEF ExecutionInv
<1>6. ASSUME NEW t \in Tasks, Start(t) PROVE ExecutionInv'
  <2>1. TypeOK' /\ TaskInv' /\ AbortInv'
    BY <1>0, <1>6 DEF Start, TypeOK, TaskInv, AbortInv, Pending, Running, Before
  <2>2. OrderInv' /\ CauseInv'
    BY <1>0, <1>6, OrderFrame DEF Start, Before, OrderInv, TypeOK
  <2>. QED  BY <2>1, <2>2 DEF ExecutionInv
<1>7. ASSUME JoinedAll PROVE ExecutionInv'
  <2>1. TypeOK' /\ TaskInv' /\ AbortInv'
    BY <1>0, <1>7 DEF JoinedAll, TypeOK, TaskInv, AbortInv, Pending, Running, Before
  <2>2. OrderInv' /\ CauseInv'
    BY <1>0, <1>7, OrderFrame DEF JoinedAll, Before, OrderInv
  <2>. QED  BY <2>1, <2>2 DEF ExecutionInv
<1>8. ASSUME ShutDown PROVE ExecutionInv'
  <2>0. \A t \in Tasks : (task'[t] = "ended") <=> (task[t] = "ended")
    BY <1>8 DEF ShutDown, DropPending
  <2>1. TypeOK'
    BY <1>0, <1>8 DEF ShutDown, DropPending, Unclaimed, TypeOK
  <2>2. TaskInv' /\ AbortInv'
    BY <1>0, <1>8 DEF ShutDown, DropPending, TaskInv, AbortInv, Pending, Running, Before
  <2>3. OrderInv' /\ CauseInv'
    BY <1>0, <1>8, <2>0, OrderFrame DEF ShutDown, Before, OrderInv
  <2>. QED  BY <2>1, <2>2, <2>3 DEF ExecutionInv
<1>9. ASSUME Drop PROVE ExecutionInv'
  <2>0. \A t \in Tasks : (task'[t] = "ended") <=> (task[t] = "ended")
    BY <1>9 DEF Drop, DropPending
  <2>1. TypeOK'
    BY <1>0, <1>9 DEF Drop, DropPending, Unclaimed, TypeOK, Running
  <2>2. TaskInv' /\ AbortInv'
    BY <1>0, <1>9 DEF Drop, DropPending, TaskInv, AbortInv, Pending, Running, Before
  <2>3. OrderInv' /\ CauseInv'
    BY <1>0, <1>9, <2>0, OrderFrame DEF Drop, Before, OrderInv
  <2>. QED  BY <2>1, <2>2, <2>3 DEF ExecutionInv
<1>10. ASSUME UNCHANGED vars PROVE ExecutionInv'
  <2>1. TypeOK' /\ TaskInv' /\ AbortInv'
    BY <1>0, <1>10 DEF vars, TypeOK, TaskInv, AbortInv, Pending, Running, Before
  <2>2. OrderInv' /\ CauseInv'
    BY <1>0, <1>10, OrderFrame DEF vars, Before, OrderInv
  <2>. QED  BY <2>1, <2>2 DEF ExecutionInv
<1>. QED
  BY <1>1, <1>2, <1>3, <1>4, <1>5, <1>6, <1>7, <1>8, <1>9, <1>10, JoinStep, ReapStep
     DEF Next, Progress

LEMMA ExecutionInvariant == Spec => []ExecutionInv
<1>. QED  BY ExecutionInit, ExecutionStep, PTL DEF Spec

-----------------------------------------------------------------------------

\* Every variable of SystemExecution has its type.
THEOREM ExecutionTypeCorrect == Spec => []TypeOK
<1>1. ExecutionInv => TypeOK
  BY DEF ExecutionInv
<1>. QED  BY <1>1, ExecutionInvariant, PTL

\* System::execute returns Ok only when every task that was ever started, and
\* every prepared process, ended with Ok: a task that ended was joined, and one
\* that was joined without an error had none.
THEOREM OkMeansAllSucceeded == Spec => []OkIsTotal
<1>1. ExecutionInv => OkIsTotal
  <2>. SUFFICES ASSUME ExecutionInv, result = "ok", NEW t \in Tasks
                PROVE  task[t] = "absent" \/ outcome[t] = "ok"
    BY DEF OkIsTotal
  <2>0. TypeOK /\ TaskInv /\ OrderInv /\ Len(order) \in Nat /\ DOMAIN order = 1 .. Len(order)
    BY DEF ExecutionInv, TypeOK
  <2>1. phase = "returned" /\ task[t] \in {"absent", "ended"}
    BY <2>0 DEF TypeOK, TaskInv, Pending, Running
  <2>2. Joined = Len(order)
    BY <2>0 DEF OrderInv, Joined
  <2>3. \A i \in DOMAIN order : outcome[order[i]] = "ok"
    BY <2>0, <2>2 DEF OrderInv
  <2>. QED  BY <2>0, <2>1, <2>3 DEF OrderInv
<1>. QED  BY <1>1, ExecutionInvariant, PTL

\* When System::execute has returned, no task runs and no process is left that
\* could be started: the shutdown waits for the tasks it aborts.
THEOREM NothingRunsAfterReturn == Spec => []ReturnMeansStopped
<1>1. ExecutionInv => ReturnMeansStopped
  BY DEF ExecutionInv, TaskInv, ReturnMeansStopped
<1>. QED  BY <1>1, ExecutionInvariant, PTL

\* The error of System::execute is that of the first task, in completion order,
\* that did not succeed, and never a cancellation the shutdown caused itself.
THEOREM ErrorIsTheFirst == Spec => []CauseIsFirst
<1>1. ExecutionInv => CauseIsFirst
  BY DEF ExecutionInv, TaskInv, CauseInv, FirstFailure, CauseIsFirst
<1>. QED  BY <1>1, ExecutionInvariant, PTL

=============================================================================
