-------------------------------- MODULE Gate --------------------------------
(***************************************************************************)
(* The Space's chat execution gate, backend/src/chat/gate/mod.rs: at most  *)
(* the Space's limit of chat operations run at once, the rest wait in one  *)
(* queue, and an operation that Team found the Space busy for rests and    *)
(* goes back to the head of it.                                            *)
(*                                                                         *)
(* Every section the code runs under the state's mutex is one step; what   *)
(* it does after unlocking (telling positions, taking the lock again) is   *)
(* a step of its own, because the runtime runs operations on many threads. *)
(* An operation here is one call of Gate::slot and what follows it, up to  *)
(* the moment its slot is given back for good.                             *)
(***************************************************************************)
EXTENDS Integers, FiniteSets, SequencesExt

CONSTANTS Ops,          \* the chat operations
          Admin,        \* whoever saves or reads the chat limit (set_limit)
          MaxLimit,     \* the highest limit Team's contract allows
          MaxWaiting    \* MAX_WAITING: the operations that may wait at once

ASSUME GateAssumption ==
  /\ IsFiniteSet(Ops)
  /\ Admin \notin Ops
  /\ MaxLimit \in Nat \ {0}
  /\ MaxWaiting \in Nat

VARIABLES
  \* GateState, all of it under one mutex
  limit,      \* Team's limit; NoLimit before Team answered it
  running,    \* the slots in use
  waiting,    \* the queue: one waiter per operation in it
  granted,    \* operations sent their grant that have not woken yet
  resting,    \* operations that rest after a busy Space
  reading,    \* operations that wait for Team's first answer of the limit
  asked,      \* limit_read: one shared read of the limit is in flight
  \* the tasks
  pc,         \* where each operation is
  telling,    \* positions a task computed under the lock and has yet to tell
  shown       \* the position each operation's run was last told; Runs is None

gateState == <<limit, running, waiting, granted, resting, reading, asked>>
vars == <<gateState, pc, telling, shown>>

NoLimit == 0            \* limit.unwrap_or(0)
Runs == 0               \* position(None)
Limits == 1..MaxLimit   \* a limit Team answers or accepts
Tellers == Ops \cup {Admin}

Message == [op : Ops, place : Nat \ {0}]

Reading == {"asking", "answered", "unanswered"}
Queueing == {"waiting", "requeued"}
Location == {"idle", "read", "acquire", "starting", "running",
             "released", "resting", "rested", "ended"}
            \cup Reading \cup Queueing

-----------------------------------------------------------------------------
(* Definitions marked "deviation" are not the code: each changes the       *)
(* definition after it the way a plausible bug would, for a property to    *)
(* catch.                                                                  *)

(* deviation: only the queue itself counts against its bound *)
QueuedInQueue == Len(waiting)

(* GateState::queued: what counts against the queue's bound. *)
Queued == Len(waiting) + resting + reading

(* How many waiters grant() starts: it pops the head while a slot is free. *)
Grants(w, r, l) ==
  IF r >= l THEN 0
  ELSE IF Len(w) <= l - r THEN Len(w) ELSE l - r

(* tell(): everyone whose place in the queue changed is to be told of it.  *)
(* A waiter's recorded place is its index at the last tell(), and each     *)
(* section that changes the queue ends with one, so it is its index in the *)
(* queue the section found. What one task tells goes to different runs:    *)
(* the order among them is left open.                                      *)
Moved(w) ==
  {[op |-> w[i], place |-> i] :
     i \in {j \in DOMAIN w : ~ (j <= Len(waiting) /\ waiting[j] = w[j])}}

(* The queue becomes w with nobody granted, and task t is to tell it. *)
Rearrange(t, w) ==
  /\ waiting' = w
  /\ telling' = [telling EXCEPT ![t] = Moved(w)]
  /\ UNCHANGED <<running, granted>>

(* deviation: the latest waiter is started first *)
GrantLast(t, w, r, l) ==
  LET n == Grants(w, r, l)
      rest == SubSeq(w, 1, Len(w) - n)
  IN  /\ running' = r + n
      /\ granted' = (granted \ {t}) \cup {w[i] : i \in Len(w) - n + 1 .. Len(w)}
      /\ waiting' = rest
      /\ telling' = [telling EXCEPT ![t] = Moved(rest)]

(* grant(): with the queue w and r slots in use, starts whom it can. *)
Grant(t, w, r, l) ==
  LET n == Grants(w, r, l)
      rest == SubSeq(w, n + 1, Len(w))
  IN  /\ running' = r + n
      /\ granted' = (granted \ {t}) \cup {w[i] : i \in 1..n}
      /\ waiting' = rest
      /\ telling' = [telling EXCEPT ![t] = Moved(rest)]

Goes(o, place) == pc' = [pc EXCEPT ![o] = place]

(* A task that tells positions does nothing else until it has told them. *)
Free(t) == telling[t] = {}
At(o, place) == pc[o] = place /\ Free(o)

Init ==
  /\ limit = NoLimit /\ running = 0 /\ waiting = <<>> /\ granted = {}
  /\ resting = 0 /\ reading = 0 /\ asked = FALSE
  /\ pc = [o \in Ops |-> "idle"]
  /\ telling = [t \in Tellers |-> {}]
  /\ shown = [o \in Ops |-> Runs]

-----------------------------------------------------------------------------
(* Reading the limit. *)

(* slot(): an operation begins, and looks once whether the limit is known. *)
Begin(o) ==
  /\ At(o, "idle")
  /\ Goes(o, IF limit = NoLimit THEN "read" ELSE "acquire")
  /\ UNCHANGED <<gateState, telling, shown>>

(* read_limit(): joins the read in flight, or starts one. *)
ReadLimit(o) ==
  /\ At(o, "read")
  /\ Queued < MaxWaiting
  /\ reading' = reading + 1
  /\ asked' = TRUE
  /\ Goes(o, "asking")
  /\ UNCHANGED <<limit, running, waiting, granted, resting, telling, shown>>

ReadRefused(o) ==
  /\ At(o, "read")
  /\ Queued >= MaxWaiting
  /\ Goes(o, "ended")
  /\ UNCHANGED <<gateState, telling, shown>>

(* The shared read ends: NoLimit stands for no answer. A limit saved in    *)
(* the meantime is kept. Who waits for the read has yet to wake.           *)
TeamAnswers(answer) ==
  /\ asked
  /\ asked' = FALSE
  /\ limit' = IF limit = NoLimit THEN answer ELSE limit
  /\ pc' = [o \in Ops |->
              IF pc[o] # "asking" THEN pc[o]
              ELSE IF answer = NoLimit THEN "unanswered" ELSE "answered"]
  /\ UNCHANGED <<running, waiting, granted, resting, reading, telling, shown>>

(* The wait for the read is over, and Reading is dropped. *)
EndReading(o) ==
  /\ pc[o] \in {"answered", "unanswered"}
  /\ reading' = reading - 1
  /\ Goes(o, IF pc[o] = "answered" THEN "acquire" ELSE "ended")
  /\ UNCHANGED <<limit, running, waiting, granted, resting, asked, telling, shown>>

-----------------------------------------------------------------------------
(* acquire(): head = FALSE for an operation that comes from slot(), TRUE   *)
(* for one that comes back from its rest.                                  *)

Returning(o) == pc[o] = "rested"
Acquiring(o) == pc[o] \in {"acquire", "rested"} /\ Free(o)
(* deviation: one slot too many *)
SlotFreeInclusive(o) ==
  waiting = <<>> /\ (resting = 0 \/ Returning(o)) /\ running <= limit

SlotFree(o) ==
  waiting = <<>> /\ (resting = 0 \/ Returning(o)) /\ running < limit

AcquireFree(o) ==
  /\ Acquiring(o)
  /\ SlotFree(o)
  /\ running' = running + 1
  /\ Goes(o, "starting")
  /\ UNCHANGED <<limit, waiting, granted, resting, reading, asked, telling, shown>>

AcquireRefused(o) ==
  /\ Acquiring(o)
  /\ ~ SlotFree(o)
  /\ ~ Returning(o) /\ Queued >= MaxWaiting
  /\ Goes(o, "ended")
  /\ UNCHANGED <<gateState, telling, shown>>

AcquireQueued(o) ==
  /\ Acquiring(o)
  /\ ~ SlotFree(o)
  /\ Returning(o) \/ Queued < MaxWaiting
  /\ LET w == IF Returning(o) THEN <<o>> \o waiting ELSE Append(waiting, o)
     IN  IF resting = 0 THEN Grant(o, w, running, limit) ELSE Rearrange(o, w)
  /\ Goes(o, IF Returning(o) THEN "requeued" ELSE "waiting")
  /\ UNCHANGED <<limit, resting, reading, asked, shown>>

(* position(None), then the caller has its slot. *)
Start(o) ==
  /\ At(o, "starting")
  /\ Goes(o, "running")
  /\ shown' = [shown EXCEPT ![o] = Runs]
  /\ UNCHANGED <<gateState, telling>>

(* The grant wakes the waiter, which disarms its guard. *)
Wake(o) ==
  /\ pc[o] \in Queueing /\ Free(o)
  /\ o \in granted
  /\ granted' = granted \ {o}
  /\ Goes(o, "running")
  /\ shown' = [shown EXCEPT ![o] = Runs]
  /\ UNCHANGED <<limit, running, waiting, resting, reading, asked, telling>>

-----------------------------------------------------------------------------
(* Giving the slot back. *)

(* Held::release, when the work ends or its task is aborted. *)
Finish(o) ==
  /\ At(o, "running")
  /\ Grant(o, waiting, running - 1, limit)
  /\ Goes(o, "ended")
  /\ UNCHANGED <<limit, resting, reading, asked, shown>>

(* Held::busy: gives the slot back under the lock ... *)
Busy(o) ==
  /\ At(o, "running")
  /\ Grant(o, waiting, running - 1, limit)
  /\ Goes(o, "released")
  /\ UNCHANGED <<limit, resting, reading, asked, shown>>

(* deviation: the rest is not counted, and ends as if it were *)
RestUncounted(o) ==
  /\ At(o, "released")
  /\ Goes(o, "resting")
  /\ UNCHANGED <<gateState, telling, shown>>

(* ... and takes the lock again to count as resting. *)
Rest(o) ==
  /\ At(o, "released")
  /\ resting' = resting + 1
  /\ Goes(o, "resting")
  /\ UNCHANGED <<limit, running, waiting, granted, reading, asked, telling, shown>>

(* BUSY_RETRY passed: Resting is dropped without a grant. *)
EndRest(o) ==
  /\ At(o, "resting")
  /\ resting' = resting - 1
  /\ Goes(o, "rested")
  /\ UNCHANGED <<limit, running, waiting, granted, reading, asked, telling, shown>>

-----------------------------------------------------------------------------
(* Stop aborts the operation's task where it awaits: the guards' drops.    *)

CancelReading(o) ==
  /\ pc[o] \in Reading
  /\ reading' = reading - 1
  /\ Goes(o, "ended")
  /\ UNCHANGED <<limit, running, waiting, granted, resting, asked, telling, shown>>

CancelWaiting(o) ==
  /\ pc[o] \in Queueing /\ Free(o)
  /\ \E i \in DOMAIN waiting :
        waiting[i] = o /\ Rearrange(o, RemoveAt(waiting, i))
  /\ Goes(o, "ended")
  /\ UNCHANGED <<limit, resting, reading, asked, shown>>

(* deviation: a slot granted as the wait was dropped is not given back *)
CancelGrantedKept(o) ==
  /\ pc[o] \in Queueing /\ Free(o)
  /\ o \in granted
  /\ granted' = granted \ {o}
  /\ Goes(o, "ended")
  /\ UNCHANGED <<limit, running, waiting, resting, reading, asked, telling, shown>>

(* Granted as the wait was dropped: the slot goes to the next. *)
CancelGranted(o) ==
  /\ pc[o] \in Queueing /\ Free(o)
  /\ o \in granted
  /\ Grant(o, waiting, running - 1, limit)
  /\ Goes(o, "ended")
  /\ UNCHANGED <<limit, resting, reading, asked, shown>>

(* deviation: a rest cut short does not pass its place on *)
CancelRestSilent(o) ==
  /\ At(o, "resting")
  /\ resting' = resting - 1
  /\ Goes(o, "ended")
  /\ UNCHANGED <<limit, running, waiting, granted, reading, asked, telling, shown>>

CancelRest(o) ==
  /\ At(o, "resting")
  /\ resting' = resting - 1
  /\ Grant(o, waiting, running, limit)
  /\ Goes(o, "ended")
  /\ UNCHANGED <<limit, reading, asked, shown>>

-----------------------------------------------------------------------------
(* set_limit: a lower limit lets running operations drain. *)
SetLimit(l) ==
  /\ Free(Admin)
  /\ limit' = l
  /\ Grant(Admin, waiting, running, l)
  /\ UNCHANGED <<resting, reading, asked, pc, shown>>

(* tell(told), after the lock is released. *)
Tell(t, m) ==
  /\ telling' = [telling EXCEPT ![t] = @ \ {m}]
  /\ shown' = [shown EXCEPT ![m.op] = m.place]
  /\ UNCHANGED <<gateState, pc>>

Acquire(o) == AcquireFree(o) \/ AcquireRefused(o) \/ AcquireQueued(o)
Cancel(o) ==
  CancelReading(o) \/ CancelWaiting(o) \/ CancelGranted(o) \/ CancelRest(o)

(* What an operation's own task does when it is polled. *)
Step(o) ==
  \/ ReadLimit(o) \/ ReadRefused(o) \/ EndReading(o)
  \/ Acquire(o) \/ Start(o) \/ Wake(o)
  \/ Rest(o) \/ EndRest(o)

Next ==
  \/ \E o \in Ops : Begin(o) \/ Step(o) \/ Finish(o) \/ Busy(o) \/ Cancel(o)
  \/ \E answer \in {NoLimit} \cup Limits : TeamAnswers(answer)
  \/ \E l \in Limits : SetLimit(l)
  \/ \E t \in Tellers : \E m \in telling[t] : Tell(t, m)

Spec == Init /\ [][Next]_vars

(* Tasks are polled, locks are handed out and the rest's timer fires; Team *)
(* answers the shared read (its transport has a deadline); and a turn that *)
(* keeps getting a slot ends in the end: Team is not busy for ever.        *)
Fairness ==
  /\ \A o \in Ops : WF_vars(Step(o)) /\ SF_vars(Finish(o))
  /\ WF_vars(\E answer \in {NoLimit} \cup Limits : TeamAnswers(answer))
  /\ \A t \in Tellers : WF_vars(\E m \in telling[t] : Tell(t, m))

FairSpec == Spec /\ Fairness

-----------------------------------------------------------------------------
Ranges ==
  /\ limit \in {NoLimit} \cup Limits
  /\ running \in Nat /\ resting \in Nat /\ reading \in Nat
  /\ waiting \in Seq(Ops)
  /\ granted \subseteq Ops
  /\ asked \in BOOLEAN

TypeOK ==
  /\ Ranges
  /\ pc \in [Ops -> Location]
  /\ telling \in [Tellers -> SUBSET Message]
  /\ shown \in [Ops -> Nat]

(* Who holds a slot: a granted waiter holds it before it wakes. *)
Holders == granted \cup {o \in Ops : pc[o] \in {"starting", "running"}}
Resters == {o \in Ops : pc[o] = "resting"}
Readers == {o \in Ops : pc[o] \in Reading}

(* No way out of the gate -- an end, a busy Space, an abort at any await,  *)
(* a grant that crosses an abort -- leaks a slot, gives one back twice, or *)
(* leaves a count behind: each counter is the operations it counts.        *)
SlotsCounted ==
  /\ running = Cardinality(Holders)
  /\ resting = Cardinality(Resters)
  /\ reading = Cardinality(Readers)

(* No lost wakeup: nobody waits while a slot is free, except behind an     *)
(* operation that rests or is about to queue again, which will grant.      *)
NoStrandedWaiter ==
  waiting # <<>> /\ running < limit
    => resting > 0 \/ \E o \in Ops : pc[o] = "rested"

(* Operations that have not run yet never hold more of the queue than its  *)
(* bound, however operations that come back crowd it.                      *)
FreshWithinBound ==
  Cardinality({i \in DOMAIN waiting : pc[waiting[i]] = "waiting"}) + reading
    <= MaxWaiting

(* Every counter keeps its range, and the queue its bound.                 *)
Bounded == TypeOK /\ FreshWithinBound

(* First in, first out: a slot goes to a waiter only once everyone ahead   *)
(* of it has left the queue, and two that keep waiting keep their order.   *)
QueueOrder ==
  [][\A i, j \in DOMAIN waiting : i < j /\ waiting[j] \in granted'
        => waiting[i] \notin ToSet(waiting')]_vars

(* Whoever waits is granted, or leaves, in the end. *)
Served(o) == pc[o] \in Queueing ~> pc[o] \in {"running", "ended"}

(* The gate is a bounded pool of slots. *)
Pool == INSTANCE SlotPool WITH
          Workers <- Ops, Bounds <- {NoLimit} \cup Limits,
          bound <- limit, held <- Holders
ImplementsPool == Pool!Spec

-----------------------------------------------------------------------------
(* What the documentation of the gate says, and the code does not do.      *)

(* gate/mod.rs:18 "The operations that may wait at once, across the        *)
(* Space", with :303 "while it rests it still counts against the queue's   *)
(* bound".                                                                 *)
QueueBounded == Queued <= MaxWaiting

(* gate/mod.rs:23 "Told the operation's place in the queue (1 is next), or *)
(* None once it runs": a run that was told None shows no place again.      *)
RunningShowsNoPlace == \A o \in Ops : pc[o] = "running" => shown[o] = Runs
=============================================================================
