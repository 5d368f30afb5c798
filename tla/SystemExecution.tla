-------------------------- MODULE SystemExecution --------------------------
(***************************************************************************)
(* A Tokio System: the processes that preparation stored unpolled, the     *)
(* tasks that were spawned explicitly, and execute(), which starts the     *)
(* former, joins all of them and stops at the first failure.               *)
(*                                                                         *)
(* What a process does is abstracted to the streams it reads: it can end   *)
(* well once the tasks that feed it have ended and the external sender of  *)
(* its exported input is gone; it can fail or panic at any time.           *)
(***************************************************************************)
EXTENDS Integers, Sequences, FiniteSets

CONSTANTS
  Prepared,   \* the processes preparation has built futures for
  Spawnable,  \* the tasks that may be spawned explicitly
  Feeds,      \* for each task, the tasks whose outputs it reads to their end
  Exported,   \* the tasks that also read an exported input
  None

Tasks == Prepared \cup Spawnable

ASSUME ExecutionAssumption ==
  /\ IsFiniteSet(Tasks) /\ Prepared \cap Spawnable = {}
  /\ Feeds \in [Tasks -> SUBSET Tasks]
  /\ Exported \subseteq Tasks
  /\ None \notin Tasks

VARIABLES
  phase,     \* what has become of the System and of the future of execute()
  runtime,   \* whether execute() is polled inside a Tokio runtime
  task,      \* the state of each task
  outcome,   \* how each task ended
  finished,  \* JoinSet: ended tasks that were not joined yet, in completion order
  aborted,   \* tasks that were told to stop
  sender,    \* who holds the external sender of each task's exported input
  cause,     \* the task whose error execute() returns
  result,    \* what execute() returned
  order,     \* history: the tasks in the order in which they ended
  stopped    \* history: tasks aborted through their AbortHandle

userVars == <<sender, stopped>>
taskVars == <<task, outcome, finished, order>>
endVars  == <<cause, result>>
vars     == <<phase, runtime, aborted, userVars, taskVars, endVars>>

Running == {t \in Tasks : task[t] = "running"}
Pending == {t \in Tasks : task[t] = "pending"}

Init ==
  /\ phase = "built"
  /\ runtime \in BOOLEAN
  /\ task = [t \in Tasks |-> IF t \in Prepared THEN "pending" ELSE "absent"]
  /\ outcome = [t \in Tasks |-> "none"]
  /\ finished = <<>> /\ order = <<>>
  /\ aborted = {} /\ stopped = {}
  /\ sender = [t \in Tasks |-> IF t \in Exported THEN "system" ELSE "none"]
  /\ cause = None /\ result = "none"

-----------------------------------------------------------------------------
(* Before execute(). *)

\* System::spawn; connect, read_stdin and write_stdout spawn in the same way.
Spawn(t) ==
  /\ phase = "built" /\ task[t] = "absent"
  /\ task' = [task EXCEPT ![t] = "running"]
  /\ UNCHANGED <<phase, runtime, aborted, userVars, outcome, finished, order, endVars>>

\* System::take_input_sender
TakeSender(t) ==
  /\ phase = "built" /\ sender[t] = "system"
  /\ sender' = [sender EXCEPT ![t] = "user"]
  /\ UNCHANGED <<phase, runtime, aborted, stopped, taskVars, endVars>>

\* Whoever took the sender drops it.
DropSender(t) ==
  /\ sender[t] = "user"
  /\ sender' = [sender EXCEPT ![t] = "none"]
  /\ UNCHANGED <<phase, runtime, aborted, stopped, taskVars, endVars>>

-----------------------------------------------------------------------------
(* The tasks. *)

Ended(t, how) ==
  /\ task' = [task EXCEPT ![t] = "ended"]
  /\ outcome' = [outcome EXCEPT ![t] = how]
  /\ finished' = Append(finished, t)
  /\ order' = Append(order, t)
  /\ UNCHANGED <<phase, runtime, aborted, userVars, endVars>>

Complete(t) ==
  /\ task[t] = "running"
  /\ \A u \in Feeds[t] : task[u] \notin {"pending", "running"}
  /\ sender[t] = "none"
  /\ Ended(t, "ok")

Fail(t) ==
  /\ task[t] = "running"
  /\ \E how \in {"failed", "panicked"} : Ended(t, how)

\* An aborted task stops at its next yield, unless it ends before it.
Cancel(t) ==
  /\ task[t] = "running" /\ t \in aborted
  /\ Ended(t, "cancelled")

\* AbortHandle::abort, from outside
Abort(t) ==
  /\ task[t] = "running" /\ t \in Spawnable
  /\ aborted' = aborted \cup {t}
  /\ stopped' = stopped \cup {t}
  /\ UNCHANGED <<phase, runtime, sender, taskVars, endVars>>

-----------------------------------------------------------------------------
(* execute(). *)

Unclaimed == [t \in Tasks |-> IF sender[t] = "system" THEN "none" ELSE sender[t]]

\* (fault) the system keeps the endpoints that nobody took
ExecuteKeepsPorts ==
  /\ phase = "built"
  /\ \/ Pending # {} /\ runtime /\ phase' = "starting" /\ UNCHANGED <<sender, aborted>>
     \/ Pending # {} /\ ~runtime /\ phase' = "shutdown" /\ aborted' = aborted \cup Running
                                 /\ UNCHANGED sender
     \/ Pending = {} /\ phase' = "joining" /\ UNCHANGED <<sender, aborted>>
  /\ UNCHANGED <<runtime, stopped, taskVars, endVars>>

\* The first poll of execute(), up to the loop that starts the processes.
Execute ==
  /\ phase = "built"
  /\ \/ Pending # {} /\ runtime /\ phase' = "starting" /\ sender' = Unclaimed /\ UNCHANGED aborted
     \/ Pending # {} /\ ~runtime /\ phase' = "shutdown" /\ aborted' = aborted \cup Running
                                 /\ UNCHANGED sender
     \/ Pending = {} /\ phase' = "joining" /\ sender' = Unclaimed /\ UNCHANGED aborted
  /\ UNCHANGED <<runtime, stopped, taskVars, endVars>>

\* Processes start one after the other, while started ones run already.
Start(t) ==
  /\ phase = "starting" /\ task[t] = "pending"
  /\ task' = [task EXCEPT ![t] = "running"]
  /\ phase' = IF Pending = {t} THEN "joining" ELSE "starting"
  /\ UNCHANGED <<runtime, aborted, userVars, outcome, finished, order, endVars>>

\* (fault) panics and cancellations do not count as failures
JoinIgnoresPanics ==
  /\ phase = "joining" /\ finished # <<>>
  /\ finished' = Tail(finished)
  /\ IF outcome[Head(finished)] = "failed"
     THEN phase' = "shutdown" /\ cause' = Head(finished) /\ aborted' = aborted \cup Running
     ELSE UNCHANGED <<phase, cause, aborted>>
  /\ UNCHANGED <<runtime, userVars, task, outcome, order, result>>

\* (fault) the error is returned while the aborted tasks still run
JoinReturnsAtOnce ==
  /\ phase = "joining" /\ finished # <<>>
  /\ finished' = Tail(finished)
  /\ IF outcome[Head(finished)] # "ok"
     THEN /\ phase' = "returned" /\ cause' = Head(finished) /\ result' = "error"
          /\ aborted' = aborted \cup Running
     ELSE UNCHANGED <<phase, cause, aborted, result>>
  /\ UNCHANGED <<runtime, userVars, task, outcome, order>>

\* join_next returns an ended task; the first failure aborts the others.
Join ==
  /\ phase = "joining" /\ finished # <<>>
  /\ finished' = Tail(finished)
  /\ IF outcome[Head(finished)] # "ok"
     THEN phase' = "shutdown" /\ cause' = Head(finished) /\ aborted' = aborted \cup Running
     ELSE UNCHANGED <<phase, cause, aborted>>
  /\ UNCHANGED <<runtime, userVars, task, outcome, order, result>>

\* join_next returns None.
JoinedAll ==
  /\ phase = "joining" /\ finished = <<>> /\ Running = {}
  /\ phase' = "returned" /\ result' = "ok"
  /\ UNCHANGED <<runtime, aborted, userVars, taskVars, cause>>

\* (fault) a later failure replaces the first one
ReapReplacesCause ==
  /\ phase = "shutdown" /\ finished # <<>>
  /\ finished' = Tail(finished)
  /\ cause' = IF outcome[Head(finished)] # "ok" THEN Head(finished) ELSE cause
  /\ UNCHANGED <<phase, runtime, aborted, userVars, task, outcome, order, result>>

\* JoinSet::shutdown joins the aborted tasks and ignores how they ended.
Reap ==
  /\ phase = "shutdown" /\ finished # <<>>
  /\ finished' = Tail(finished)
  /\ UNCHANGED <<phase, runtime, aborted, userVars, task, outcome, order, endVars>>

\* Futures that never started are dropped, and so are the ports.
DropPending == task' = [t \in Tasks |-> IF task[t] = "pending" THEN "dropped" ELSE task[t]]

ShutDown ==
  /\ phase = "shutdown" /\ finished = <<>> /\ Running = {}
  /\ phase' = "returned"
  /\ result' = IF cause = None THEN "runtime" ELSE "error"
  /\ DropPending
  /\ sender' = Unclaimed
  /\ UNCHANGED <<runtime, aborted, stopped, outcome, finished, order, cause>>

\* (fault) the tasks are detached
DropDetaches ==
  /\ phase \in {"built", "joining", "shutdown"}
  /\ phase' = "dropped"
  /\ DropPending
  /\ sender' = Unclaimed
  /\ UNCHANGED <<runtime, aborted, stopped, outcome, finished, order, endVars>>

\* The System, or the future of execute() at one of its awaits, is dropped.
Drop ==
  /\ phase \in {"built", "joining", "shutdown"}
  /\ phase' = "dropped"
  /\ aborted' = aborted \cup Running
  /\ DropPending
  /\ sender' = Unclaimed
  /\ UNCHANGED <<runtime, stopped, outcome, finished, order, endVars>>

-----------------------------------------------------------------------------

Finish(t) == Complete(t) \/ Cancel(t)

Progress == (\E t \in Tasks : Start(t)) \/ Join \/ JoinedAll \/ Reap \/ ShutDown

Next ==
  \/ \E t \in Tasks : Spawn(t) \/ TakeSender(t) \/ DropSender(t) \/ Finish(t) \/ Fail(t) \/ Abort(t)
  \/ Execute \/ Progress \/ Drop

Spec == Init /\ [][Next]_vars

\* execute() is awaited; tasks yield, and end when their inputs have ended.  No
\* task has to fail, and nobody has to drop a sender.
Fairness == WF_vars(Progress) /\ \A t \in Tasks : WF_vars(Finish(t))

FairSpec == Spec /\ Fairness

-----------------------------------------------------------------------------
(* Properties. *)

\* Every variable has its type.
TypeOK ==
  /\ phase \in {"built", "starting", "joining", "shutdown", "returned", "dropped"}
  /\ runtime \in BOOLEAN
  /\ task \in [Tasks -> {"absent", "pending", "running", "ended", "dropped"}]
  /\ outcome \in [Tasks -> {"none", "ok", "failed", "panicked", "cancelled"}]
  /\ finished \in Seq(Tasks) /\ order \in Seq(Tasks)
  /\ aborted \in SUBSET Tasks /\ stopped \in SUBSET Tasks
  /\ sender \in [Tasks -> {"none", "system", "user"}]
  /\ cause \in Tasks \cup {None}
  /\ result \in {"none", "ok", "error", "runtime"}

\* execute() returns Ok only when every process was started and succeeded.
OkIsTotal ==
  result = "ok" => \A t \in Tasks : task[t] = "absent" \/ outcome[t] = "ok"

\* When execute() has returned, nothing of the system runs any more.
ReturnMeansStopped ==
  phase = "returned" => Running = {} /\ Pending = {}

\* The error is that of the first task that did not succeed.  It is never one
\* that the shutdown caused: a cancellation is returned only if it was asked for.
CauseIsFirst ==
  result = "error" =>
    /\ \E i \in DOMAIN order :
         order[i] = cause /\ \A j \in 1 .. i - 1 : outcome[order[j]] = "ok"
    /\ outcome[cause] # "ok"
    /\ outcome[cause] = "cancelled" => cause \in stopped

\* Nothing outside keeps execute() from returning: the streams from outside have
\* ended, or some process has failed, even if others wait for ever.
Unhindered ==
  \/ \A t \in Tasks : sender[t] # "user"
  \/ \E t \in Tasks : outcome[t] \notin {"none", "ok"}

\* execute() returns; the endpoints nobody took keep no process waiting.
ExecuteReturns ==
  (phase \in {"starting", "joining", "shutdown"} /\ Unhindered) ~> (phase \in {"returned", "dropped"})

\* A dropped system leaves no task running in the background.
DropStops == (phase = "dropped") ~> (Running = {})

=============================================================================
