-------------------------------- MODULE Lane --------------------------------
(***************************************************************************)
(* A bounded worker lane, backend/src/lanes/mod.rs: at most Workers of its *)
(* jobs run at once, at most Outstanding are admitted, and a full lane     *)
(* refuses at once. A job is a task of its own: it can be cancelled only   *)
(* while it waits for a worker, by an exchange on its state that crosses   *)
(* the task's own.                                                         *)
(*                                                                         *)
(* A step is one atomic of the code: an exchange, a send of the result, a  *)
(* notification, one semaphore's permit. The worker semaphore is tokio's:  *)
(* fair, so that a permit given back goes to the first in its queue, also  *)
(* when that one has not been polled yet.                                  *)
(***************************************************************************)
EXTENDS Naturals, FiniteSets, SequencesExt

CONSTANTS Jobs,          \* the jobs submitted, one by one
          Workers,       \* how many run at once
          Outstanding    \* how many are admitted at once

ASSUME LaneAssumption ==
  /\ IsFiniteSet(Jobs)
  /\ Workers \in Nat \ {0} /\ Outstanding \in Nat
  /\ Outstanding >= Workers

VARIABLES
  admitted,   \* the jobs that hold an admission
  queue,      \* the jobs queued for a worker, in the semaphore's order
  working,    \* the jobs that hold a worker, or were given one
  state,      \* each job's atomic state
  task,       \* where each job's task is
  notified,   \* the jobs whose cancellation was notified
  result,     \* what whoever waits for the job is told
  canceller   \* where the cancellation of each job is

vars == <<admitted, queue, working, state, task, notified, result, canceller>>

Ended == {"done", "panicked", "cancelled"}
States == {"pending", "running", "cancelled"}
TaskAt == {"new", "refused", "spawned", "queued", "holding", "running",
           "ended", "leaving", "gone"}
CancellerAt == {"idle", "send", "notify", "over"}

TaskGoes(j, place) == task' = [task EXCEPT ![j] = place]

Init ==
  /\ admitted = {} /\ queue = <<>> /\ working = {} /\ notified = {}
  /\ state = [j \in Jobs |-> "pending"]
  /\ task = [j \in Jobs |-> "new"]
  /\ result = [j \in Jobs |-> "none"]
  /\ canceller = [j \in Jobs |-> "idle"]

-----------------------------------------------------------------------------
(* deviation: one admission too many *)
SubmitInclusive(j) ==
  /\ task[j] = "new"
  /\ Cardinality(admitted) <= Outstanding
  /\ admitted' = admitted \cup {j}
  /\ TaskGoes(j, "spawned")
  /\ UNCHANGED <<queue, working, state, notified, result, canceller>>

(* submit: takes an admission and spawns the task, or refuses at once.     *)
Submit(j) ==
  /\ task[j] = "new"
  /\ Cardinality(admitted) < Outstanding
  /\ admitted' = admitted \cup {j}
  /\ TaskGoes(j, "spawned")
  /\ UNCHANGED <<queue, working, state, notified, result, canceller>>

Saturated(j) ==
  /\ task[j] = "new"
  /\ Cardinality(admitted) >= Outstanding
  /\ TaskGoes(j, "refused")
  /\ UNCHANGED <<admitted, queue, working, state, notified, result, canceller>>

-----------------------------------------------------------------------------
(* tokio's fair semaphore of workers.                                      *)

(* A worker is free only while nobody is queued.                           *)
WorkerFree == Cardinality(working) < Workers

(* The worker j holds goes to the first in the queue, or is free again.    *)
GiveBack(j) ==
  IF queue = <<>>
  THEN working' = working \ {j} /\ UNCHANGED queue
  ELSE working' = (working \ {j}) \cup {Head(queue)} /\ queue' = Tail(queue)

(* The wait for a worker is dropped: a worker given meanwhile is not lost. *)
LeaveQueue(j) ==
  IF j \in working
  THEN GiveBack(j)
  ELSE /\ UNCHANGED working
       /\ IF j \in ToSet(queue)
          THEN \E i \in DOMAIN queue : queue[i] = j /\ queue' = RemoveAt(queue, i)
          ELSE UNCHANGED queue

-----------------------------------------------------------------------------
(* The job's task. *)

(* deviation: the permit is not bound, and dropped at once *)
TakeWorkerUnbound(j) ==
  /\ task[j] = "spawned" /\ WorkerFree
  /\ TaskGoes(j, "holding")
  /\ UNCHANGED <<admitted, queue, working, state, notified, result, canceller>>

(* The select, polled: a worker is free, or the task queues for one. *)
TakeWorker(j) ==
  /\ task[j] = "spawned" /\ WorkerFree
  /\ working' = working \cup {j}
  /\ TaskGoes(j, "holding")
  /\ UNCHANGED <<admitted, queue, state, notified, result, canceller>>

QueueForWorker(j) ==
  /\ task[j] = "spawned" /\ ~ WorkerFree
  /\ queue' = Append(queue, j)
  /\ TaskGoes(j, "queued")
  /\ UNCHANGED <<admitted, working, state, notified, result, canceller>>

WorkerGiven(j) ==
  /\ task[j] = "queued" /\ j \in working
  /\ TaskGoes(j, "holding")
  /\ UNCHANGED <<admitted, queue, working, state, notified, result, canceller>>

(* The other branch, whenever the select is polled: it returns. *)
Notified(j) ==
  /\ task[j] \in {"spawned", "queued"} /\ j \in notified
  /\ notified' = notified \ {j}
  /\ LeaveQueue(j)
  /\ TaskGoes(j, "leaving")
  /\ UNCHANGED <<admitted, state, result, canceller>>

(* deviation: the state is set without looking whether it was cancelled *)
StartAnyway(j) ==
  /\ task[j] = "holding"
  /\ state' = [state EXCEPT ![j] = "running"]
  /\ TaskGoes(j, "running")
  /\ UNCHANGED <<admitted, queue, working, notified, result, canceller>>

(* PENDING to RUNNING, exchanged; a cancelled job never runs. *)
Start(j) ==
  /\ task[j] = "holding"
  /\ IF state[j] = "pending"
     THEN /\ state' = [state EXCEPT ![j] = "running"]
          /\ TaskGoes(j, "running")
          /\ UNCHANGED result
     ELSE /\ result' = [result EXCEPT ![j] = "cancelled"]
          /\ TaskGoes(j, "ended")
          /\ UNCHANGED state
  /\ UNCHANGED <<admitted, queue, working, notified, canceller>>

(* The job ends, or panics, and its result is sent ... *)
End(j, how) ==
  /\ task[j] = "running"
  /\ result' = [result EXCEPT ![j] = how]
  /\ TaskGoes(j, "ended")
  /\ UNCHANGED <<admitted, queue, working, state, notified, canceller>>

(* deviation: the worker stays with the job *)
DropWorkerNot(j) ==
  /\ task[j] = "ended"
  /\ TaskGoes(j, "leaving")
  /\ UNCHANGED <<admitted, queue, working, state, notified, result, canceller>>

(* ... then the permits are dropped, the worker's first. *)
DropWorker(j) ==
  /\ task[j] = "ended"
  /\ GiveBack(j)
  /\ TaskGoes(j, "leaving")
  /\ UNCHANGED <<admitted, state, notified, result, canceller>>

DropAdmission(j) ==
  /\ task[j] = "leaving"
  /\ admitted' = admitted \ {j}
  /\ TaskGoes(j, "gone")
  /\ UNCHANGED <<queue, working, state, notified, result, canceller>>

-----------------------------------------------------------------------------
(* Job::cancel: PENDING to CANCELLED, exchanged; whoever waits is told at  *)
(* once, then the task. A job that runs, or ended, is left alone.          *)
CancellerGoes(j, place) == canceller' = [canceller EXCEPT ![j] = place]

Cancel(j) ==
  /\ canceller[j] = "idle" /\ task[j] \notin {"new", "refused"}
  /\ IF state[j] = "pending"
     THEN state' = [state EXCEPT ![j] = "cancelled"] /\ CancellerGoes(j, "send")
     ELSE UNCHANGED state /\ CancellerGoes(j, "over")
  /\ UNCHANGED <<admitted, queue, working, task, notified, result>>

CancelSends(j) ==
  /\ canceller[j] = "send"
  /\ result' = [result EXCEPT ![j] = "cancelled"]
  /\ CancellerGoes(j, "notify")
  /\ UNCHANGED <<admitted, queue, working, state, task, notified>>

(* deviation: the task is left to find out when it gets a worker *)
CancelNotifiesNot(j) ==
  /\ canceller[j] = "notify"
  /\ CancellerGoes(j, "over")
  /\ UNCHANGED <<admitted, queue, working, state, task, notified, result>>

CancelNotifies(j) ==
  /\ canceller[j] = "notify"
  /\ notified' = notified \cup {j}
  /\ CancellerGoes(j, "over")
  /\ UNCHANGED <<admitted, queue, working, state, task, result>>

-----------------------------------------------------------------------------
(* What a task does when it is polled, the job itself aside.               *)
Poll(j) ==
  \/ TakeWorker(j) \/ QueueForWorker(j) \/ WorkerGiven(j) \/ Notified(j)
  \/ Start(j) \/ DropWorker(j) \/ DropAdmission(j)

Next ==
  \E j \in Jobs :
     \/ Submit(j) \/ Saturated(j)
     \/ Poll(j) \/ \E how \in {"done", "panicked"} : End(j, how)
     \/ Cancel(j) \/ CancelSends(j) \/ CancelNotifies(j)

Spec == Init /\ [][Next]_vars

(* Tasks are polled and a cancellation that began goes on. Of a job itself *)
(* nothing is assumed: it may run for ever.                                *)
Fairness ==
  \A j \in Jobs : WF_vars(Poll(j)) /\ WF_vars(CancelSends(j) \/ CancelNotifies(j))

FairSpec == Spec /\ Fairness

-----------------------------------------------------------------------------
TypeOK ==
  /\ admitted \subseteq Jobs /\ Cardinality(admitted) <= Outstanding
  /\ working \subseteq Jobs /\ notified \subseteq Jobs
  /\ queue \in Seq(Jobs)
  /\ state \in [Jobs -> States]
  /\ task \in [Jobs -> TaskAt]
  /\ result \in [Jobs -> {"none"} \cup Ended]
  /\ canceller \in [Jobs -> CancellerAt]

(* No way out of the lane -- an end, a panic, a cancellation before, while *)
(* or after the task is given its worker -- keeps a worker or an admission *)
(* that nobody uses: those who hold one are the tasks still on their way.  *)
PermitsHeld ==
  /\ TypeOK
  /\ admitted = {j \in Jobs : task[j] \notin {"new", "refused", "gone"}}
  /\ working = {j \in Jobs : \/ task[j] \in {"holding", "running", "ended"}
                             \/ task[j] = "queued" /\ j \notin ToSet(queue)}
  /\ queue # <<>> => ~ WorkerFree

(* Whoever waits for a job is told one end, whatever crosses: a job that   *)
(* was cancelled is never told to have run, nor the other way round.       *)
OneEnd ==
  [][\A j \in Jobs : result[j] # "none" => result'[j] = result[j]]_vars

(* A cancelled job gives its admission back although every job that runs   *)
(* may run for ever.                                                       *)
CancelledLeaves ==
  \A j \in Jobs : state[j] = "cancelled" ~> j \notin admitted

(* Admissions are a bounded pool of slots, and so are the jobs that run:   *)
(* however permits pass between ends, cancellations and the queue, no more *)
(* jobs run at once than there are workers.                                *)
Admissions == INSTANCE SlotPool WITH
                Workers <- Jobs, Bounds <- {Outstanding},
                bound <- Outstanding, held <- admitted
Pool == INSTANCE SlotPool WITH
          Workers <- Jobs, Bounds <- {Workers}, bound <- Workers,
          held <- {j \in Jobs : task[j] = "running"}
ImplementsPools == Admissions!Spec /\ Pool!Spec

=============================================================================
