------------------------------ MODULE Pipeline -------------------------------
(***************************************************************************)
(* A system whose blocks form a pipeline, with the loops that its          *)
(* processes run and the bounded queues between them: stdin() and the      *)
(* reader of an exported input at one end, the loops of System::connect,   *)
(* and stdout() or stderr() or the writer of an exported output at the     *)
(* other.  Each takes a payload from its input, holds it, and passes it    *)
(* on, until its input ends or something fails.                            *)
(*                                                                         *)
(* The outside is one user, who owns what they took: the sender of the     *)
(* first queue and the receiver of the last.  For stdin and stdout these   *)
(* are the other ends of the process's own standard streams.               *)
(*                                                                         *)
(* SystemExecution gives the system its tasks and execute(), and says      *)
(* nothing of queues: that these loops behave as it takes for granted is   *)
(* what is checked here.                                                   *)
(***************************************************************************)
EXTENDS SystemExecution

CONSTANTS
  Chain,   \* the tasks in the order in which the payloads pass them
  Cap,     \* capacity of every queue
  Payloads \* bound: payloads the user sends

N     == Len(Chain)
Links == 0 .. N

ASSUME PipelineAssumption ==
  /\ Chain \in [1 .. Cardinality(Tasks) -> Tasks]
  /\ {Chain[k] : k \in DOMAIN Chain} = Tasks
  /\ N > 0
  /\ \A k \in 1 .. N : Feeds[Chain[k]] = IF k = 1 THEN {} ELSE {Chain[k - 1]}
  /\ Exported = {Chain[1]}
  /\ Cap \in Nat \ {0} /\ Payloads \in Nat
  /\ None \notin Nat

VARIABLES
  queue,    \* the queue of each link: link k joins the k-th task to the next
  hand,     \* the payload each process has received and not yet passed on
  receiver, \* who holds the receiver of the last link
  provided, \* how many payloads the user has sent; the i-th is i
  passed    \* history: what the last process sent or wrote

linkVars     == <<queue, hand, provided, passed>>
pipelineVars == <<vars, linkVars, receiver>>

Place(t) == CHOOSE k \in 1 .. N : Chain[k] = t

\* (fault) something keeps a task's endpoints when it has ended
OwnsForEver(t) == task[t] # "dropped"

\* A process owns its endpoints until it ends; until a task is spawned its
\* endpoints wait for it in the code that builds the system.
Owns(t) == task[t] \in {"absent", "pending", "running"}

SenderOpen(k)   == IF k = 0 THEN sender[Chain[1]] # "none" ELSE Owns(Chain[k])
ReceiverOpen(k) == IF k = N THEN receiver # "none" ELSE Owns(Chain[k + 1])

PipelineInit ==
  /\ Init
  /\ queue = [k \in Links |-> <<>>]
  /\ hand = [t \in Tasks |-> None]
  /\ receiver \in {"system", "user"}
  /\ provided = 0 /\ passed = <<>>

-----------------------------------------------------------------------------
(* The loops of the processes. *)

\* recv(), or the next line
Receive(t) ==
  LET k == Place(t) - 1 IN
  /\ task[t] = "running" /\ hand[t] = None /\ queue[k] # <<>>
  /\ hand' = [hand EXCEPT ![t] = Head(queue[k])]
  /\ queue' = [queue EXCEPT ![k] = Tail(@)]
  /\ UNCHANGED <<vars, receiver, provided, passed>>

\* send(), or a write
Send(t) ==
  LET k == Place(t) IN
  /\ task[t] = "running" /\ hand[t] # None
  /\ ReceiverOpen(k) /\ Len(queue[k]) < Cap
  /\ queue' = [queue EXCEPT ![k] = Append(@, hand[t])]
  /\ hand' = [hand EXCEPT ![t] = None]
  /\ passed' = IF k = N THEN Append(passed, hand[t]) ELSE passed
  /\ UNCHANGED <<vars, receiver, provided>>

\* (fault) an error of send() ends the loop like the end of the input
SendFailsQuietly(t) ==
  /\ task[t] = "running" /\ hand[t] # None /\ ~ReceiverOpen(Place(t))
  /\ Ended(t, "ok")
  /\ UNCHANGED <<linkVars, receiver>>

\* The receiver is gone: the error leaves the loop and the process.
SendFails(t) ==
  /\ task[t] = "running" /\ hand[t] # None /\ ~ReceiverOpen(Place(t))
  /\ Ended(t, "failed")
  /\ UNCHANGED <<linkVars, receiver>>

\* (fault) an empty queue is taken for the end of the input
EndsWhenEmpty(t) ==
  LET k == Place(t) - 1 IN
  /\ task[t] = "running" /\ hand[t] = None /\ queue[k] = <<>>
  /\ Ended(t, "ok")
  /\ UNCHANGED <<linkVars, receiver>>

\* The input has ended: so does the loop.
EndOfInput(t) ==
  LET k == Place(t) - 1 IN
  /\ task[t] = "running" /\ hand[t] = None /\ queue[k] = <<>> /\ ~SenderOpen(k)
  /\ Ended(t, "ok")
  /\ UNCHANGED <<linkVars, receiver>>

\* An error of the stream, a line that does not parse, a panic.
Breaks(t) == Fail(t) /\ UNCHANGED <<linkVars, receiver>>

Stops(t) == Cancel(t) /\ UNCHANGED <<linkVars, receiver>>

-----------------------------------------------------------------------------
(* The user. *)

Provide ==
  /\ sender[Chain[1]] = "user" /\ provided < Payloads
  /\ ReceiverOpen(0) /\ Len(queue[0]) < Cap
  /\ provided' = provided + 1
  /\ queue' = [queue EXCEPT ![0] = Append(@, provided')]
  /\ UNCHANGED <<vars, hand, receiver, passed>>

Consume ==
  /\ receiver = "user" /\ queue[N] # <<>>
  /\ queue' = [queue EXCEPT ![N] = Tail(@)]
  /\ UNCHANGED <<vars, hand, receiver, provided, passed>>

\* System::take_output_receiver
TakeReceiver ==
  /\ phase = "built" /\ receiver = "system"
  /\ receiver' = "user"
  /\ UNCHANGED <<vars, linkVars>>

\* Its holder drops, closes or disconnects it.
DropReceiver ==
  /\ receiver = "user"
  /\ receiver' = "none"
  /\ UNCHANGED <<vars, linkVars>>

UserOfSystem ==
  /\ \E t \in Tasks : TakeSender(t) \/ DropSender(t) \/ Abort(t)
  /\ UNCHANGED <<linkVars, receiver>>

-----------------------------------------------------------------------------
(* The system. *)

\* System::build, connect, read_stdin and write_stdout
Build ==
  /\ \E t \in Tasks : Spawn(t)
  /\ UNCHANGED <<linkVars, receiver>>

ReceiverUnclaimed == IF receiver = "system" THEN "none" ELSE receiver

\* System::run: what f builds is executed once f has returned.
Run ==
  /\ \A t \in Tasks : task[t] # "absent"
  /\ Execute
  /\ receiver' = IF phase' = "shutdown" THEN receiver ELSE ReceiverUnclaimed
  /\ UNCHANGED linkVars

Proceed ==
  /\ Progress
  /\ receiver' = IF phase' = "returned" THEN ReceiverUnclaimed ELSE receiver
  /\ UNCHANGED linkVars

DropSystem ==
  /\ Drop
  /\ receiver' = ReceiverUnclaimed
  /\ UNCHANGED linkVars

-----------------------------------------------------------------------------

Loop(t) == Receive(t) \/ Send(t) \/ SendFails(t) \/ EndOfInput(t)

PipelineNext ==
  \/ \E t \in Tasks : Loop(t) \/ Breaks(t) \/ Stops(t)
  \/ Provide \/ Consume \/ TakeReceiver \/ DropReceiver \/ UserOfSystem
  \/ Build \/ Run \/ Proceed \/ DropSystem

PipelineSpec == PipelineInit /\ [][PipelineNext]_pipelineVars

\* Tasks that were woken are polled, the system is built and awaited, and the
\* user drives the receiver they took.  Nobody has to send or to drop a sender.
Driven ==
  /\ \A t \in Tasks : WF_pipelineVars(Loop(t)) /\ WF_pipelineVars(Stops(t))
  /\ WF_pipelineVars(Build \/ Run) /\ WF_pipelineVars(Proceed)
  /\ WF_pipelineVars(Consume)

DrivenSpec == PipelineSpec /\ Driven

-----------------------------------------------------------------------------
(* Properties. *)

\* The loops over bounded queues do what SystemExecution assumes of processes,
\* its fairness included: one ends well only when all it reads from has ended,
\* and then it does end, as long as the boundary is driven (system.rs:116-128).
ImplementsExecution == FairSpec

\* Payloads leave in the order in which they came, none twice and none skipped,
\* and Ok means that all of them did.
Delivered ==
  /\ \A i \in DOMAIN passed : passed[i] = i
  /\ Len(passed) <= provided
  /\ result = "ok" => Len(passed) = provided

Starved(t) == hand[t] = None /\ queue[Place(t) - 1] = <<>> /\ SenderOpen(Place(t) - 1)
Stuck(t)   == hand[t] # None /\ Len(queue[Place(t)]) = Cap /\ ReceiverOpen(Place(t))

\* If execute() waits and every process is blocked, the reason is outside: a
\* sender that the user holds on to, or a receiver that they do not drive
\* (system.rs:150-154).  The processes never block each other.
BlockedFromOutside ==
  phase = "joining" /\ finished = <<>> /\ Running # {}
  /\ (\A t \in Running : t \notin aborted /\ (Starved(t) \/ Stuck(t)))
    => \/ sender[Chain[1]] = "user" /\ queue[0] = <<>>
       \/ receiver = "user" /\ Len(queue[N]) = Cap

=============================================================================
