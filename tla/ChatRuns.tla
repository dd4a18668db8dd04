------------------------------ MODULE ChatRuns ------------------------------
(***************************************************************************)
(* One Team's chat runs in Admin: the registry that creates, sweeps and    *)
(* forgets them, the pages that watch them over their session sockets, the *)
(* frames they dispatch and the work those start (chat/run, with the chat  *)
(* channels of session/socket.rs).                                         *)
(*                                                                         *)
(* What a frame does is left to its modules: here a dispatch starts work,  *)
(* refuses, or disconnects the pages.  Every function that looks under one *)
(* lock and acts under the next is two actions: finding the run and        *)
(* watching it, finding a run idle and retiring it, starting work and      *)
(* noting the authority it runs under.                                     *)
(***************************************************************************)
EXTENDS Naturals, FiniteSets, Sequences, SequencesExt, FiniteSetsExt

CONSTANTS Page,         \* the pages of one Team's chat
          PageSession,  \* the session of each page's socket
          MaxFrames,    \* MAX_WAITING_FRAMES
          LiveSteps,    \* LIVE_STEPS
          MaxRuns,      \* bound: runs created
          MaxWorks,     \* bound: operations started by one run
          MaxSteps,     \* bound: progress steps of one operation
          MaxSubmits,   \* bound: frames the pages send
          MaxEnded,     \* bound: sessions that end
          None          \* no session, no work, no push

ASSUME ChatRunsAssumption ==
  /\ {MaxFrames, LiveSteps, MaxRuns, MaxWorks, MaxSteps} \subseteq Nat \ {0}
  /\ MaxSubmits \in Nat /\ DOMAIN PageSession = Page

VARIABLES
  run,      \* the runs created, in order
  current,  \* the Team's run in the registry, 0 for none
  page,     \* the pages: their channel, and the threads inside start, submit and leave
  seen,     \* the steps each page was handed
  valid,    \* the sessions still current
  sweep     \* the sweep task, and the run it found idle

vars == <<run, current, page, seen, valid, sweep>>

Session == {PageSession[p] : p \in Page}
Run == DOMAIN run

Sweep(at, r) == [at |-> at, run |-> r]

NewRun == [observers |-> {}, queue |-> <<>>, loop |-> "waiting", frame |-> None,
           works |-> 0, work |-> None, authority |-> None, live |-> <<>>,
           end |-> "no", retired |-> FALSE]
NewPage == [open |-> TRUE, start |-> "none", main |-> "out", at |-> 0, startAt |-> 0, sent |-> 0]

Init ==
  /\ run = <<>> /\ current = 0 /\ valid = Session
  /\ page = [p \in Page |-> NewPage] /\ seen = [p \in Page |-> {}]
  /\ sweep = Sweep("none", 0)

-----------------------------------------------------------------------------
(* The run.                                                                                *)

(* Run::busy.                                                                              *)
Busy(R) == R.queue # <<>> \/ R.loop \in {"dispatching", "started"} \/ R.work # None

Closed(R) == R.end # "no"

(* Run::observe.                                                                           *)
Observed(R, p) == [R EXCEPT !.observers = @ \cup {p}]

(* A bug: the frames a run holds are not bounded. *)
SubmittedUnbounded(R, p, kind) ==
  IF Closed(R) \/ R.loop = "dead" THEN R ELSE [R EXCEPT !.queue = Append(@, [page |-> p, kind |-> kind])]

(* Run::submit: the frame queued; a run that ends answers 409 instead, and a page that     *)
(* cannot be told stops watching; a run whose loop is gone, or is full, takes nothing.     *)
Submitted(R, p, kind) ==
  IF Closed(R) THEN [R EXCEPT !.observers = IF page[p].open THEN @ ELSE @ \ {p}]
  ELSE IF R.loop = "dead" \/ Len(R.queue) >= MaxFrames THEN R
  ELSE [R EXCEPT !.queue = Append(@, [page |-> p, kind |-> kind])]

Full(R) == ~Closed(R) /\ Len(R.queue) >= MaxFrames

(* registry::forget.                                                                       *)
Forget(r) == current' = IF current = r THEN 0 ELSE current

(* Its loop ends at an await; the frames still queued go with it.                          *)
Aborted(R) == [R EXCEPT !.loop = "dead", !.queue = <<>>, !.frame = None]

(* A bug: the run is forgotten before its work is stopped. *)
EndForgetsFirst(r) ==
  /\ ~Closed(run[r]) /\ Forget(r)
  /\ run' = [run EXCEPT ![r] = [Aborted(@) EXCEPT !.end = "stopping"]]

(* Run::end, spawned by end_apart: a second end returns at once; the run is closed and its *)
(* loop ended.                                                                             *)
End(r) ==
  /\ ~Closed(run[r]) /\ UNCHANGED current
  /\ run' = [run EXCEPT ![r] = [Aborted(@) EXCEPT !.end = "stopping"]]

(* A run that is forgotten and does nothing more.                                          *)
Gone(R) == [NewRun EXCEPT !.loop = "dead", !.end = R.end, !.retired = R.retired]

(* socket::end_run returned: its Team calls and their Stops answered, the turn's ending    *)
(* told; then the registry forgets it.                                                     *)
EndStopped(r) ==
  /\ run[r].end = "stopping" /\ Forget(r)
  /\ run' = [run EXCEPT ![r] = Gone([@ EXCEPT !.end = "over"])]
  /\ UNCHANGED <<page, seen, valid, sweep>>

(* Run::retire: forgotten, its loop aborted.                                               *)
Retire(r) ==
  /\ Forget(r)
  /\ run' = [run EXCEPT ![r] = LET R == [Aborted(@) EXCEPT !.retired = TRUE] IN
                               IF R.work = None /\ ~Closed(R) THEN Gone(R) ELSE R]

-----------------------------------------------------------------------------
(* The registry.                                                                           *)

(* start_sweep: a sweep still running, or on its way out, is taken for one that runs.      *)
SweepStarted == IF sweep.at \in {"asleep", "leaving", "retiring"} THEN sweep ELSE Sweep("asleep", 0)

(* run_for: the Team's run, created on first need,                                         *)
TeamRun == IF current # 0 THEN run[current] ELSE NewRun

(* and what the page's step makes of it.                                                   *)
RunFor(stepped) ==
  LET r == IF current # 0 THEN current ELSE Len(run) + 1
      found == IF current # 0 THEN run ELSE Append(run, NewRun) IN
  /\ r <= MaxRuns /\ current' = r
  /\ run' = [found EXCEPT ![r] = stepped]
  /\ sweep' = IF current # 0 THEN sweep ELSE SweepStarted

(* end_runs: the Team was deleted, or the Space reset.                                     *)
EndRuns ==
  /\ current # 0 /\ valid = Session /\ End(current)
  /\ UNCHANGED <<page, seen, valid, sweep>>

(* A session ends, and sessions_ended is told: the busy run whose noted authority is of the *)
(* session ends.                                                                           *)
SessionsEnded(s) ==
  /\ s \in valid /\ Cardinality(valid) > Cardinality(Session) - MaxEnded /\ valid' = valid \ {s}
  /\ IF current # 0 /\ run[current].authority = s /\ Busy(run[current]) /\ ~Closed(run[current])
     THEN End(current) ELSE UNCHANGED <<run, current>>
  /\ UNCHANGED <<page, seen, sweep>>

(* A bug: a sweep that only looks for idle runs. *)
SweptIdleOnly ==
  /\ sweep.at = "asleep"
  /\ IF current = 0 THEN sweep' = Sweep("leaving", 0) /\ UNCHANGED <<run, current>>
     ELSE /\ sweep' = IF ~Busy(run[current]) /\ run[current].observers = {} THEN Sweep("retiring", current) ELSE sweep
          /\ UNCHANGED <<run, current>>
  /\ UNCHANGED <<page, seen, valid>>

(* One round of start_sweep's task: no run left ends it; a busy run whose authority is not *)
(* current any more ends; an idle one nobody watches retires.                              *)
Swept ==
  /\ sweep.at = "asleep"
  /\ IF current = 0 THEN sweep' = Sweep("leaving", 0) /\ UNCHANGED <<run, current>>
     ELSE LET R == run[current]
              stale == Busy(R) /\ R.authority \notin valid \cup {None} IN
          /\ sweep' = IF ~Busy(R) /\ R.observers = {} THEN Sweep("retiring", current) ELSE sweep
          /\ IF stale /\ ~Closed(R) THEN End(current) ELSE UNCHANGED <<run, current>>
  /\ UNCHANGED <<page, seen, valid>>

SweepRetires ==
  /\ sweep.at = "retiring" /\ sweep' = Sweep("asleep", 0) /\ Retire(sweep.run)
  /\ UNCHANGED <<page, seen, valid>>

SweepReturns ==
  /\ sweep.at = "leaving" /\ sweep' = Sweep("over", 0)
  /\ UNCHANGED <<run, current, page, seen, valid>>

-----------------------------------------------------------------------------
(* The pages.                                                                              *)

(* A bug: the page is shown where the run is before it watches it. *)
AttachObservesLater(p) ==
  /\ page[p].main = "out" /\ PageSession[p] \in valid
  /\ \A q \in Page : q < p => page[q].main # "out"
  /\ RunFor(TeamRun)
  /\ seen' = [seen EXCEPT ![p] = ToSet(run'[current'].live)]
  /\ page' = [page EXCEPT ![p].main = "in", ![p].start = "observed", ![p].startAt = current']
  /\ UNCHANGED valid

(* Socket::attach, answered, start_channel and Run::attach: the page watches its run first, *)
Attach(p) ==
  /\ page[p].main = "out" /\ PageSession[p] \in valid
  /\ \A q \in Page : q < p => page[q].main # "out"
  /\ RunFor(Observed(TeamRun, p))
  /\ page' = [page EXCEPT ![p].main = "in", ![p].start = "observed", ![p].startAt = current']
  /\ UNCHANGED <<seen, valid>>

(* and then is shown where a busy run is, or syncs an idle one.  The page may have left.   *)
StartShown(p) ==
  LET r == page[p].startAt IN
  /\ page[p].start = "observed" /\ page' = [page EXCEPT ![p].start = "over", ![p].startAt = IF page[p].open THEN @ ELSE 0]
  /\ IF Busy(run[r])
     THEN /\ run' = [run EXCEPT ![r].observers = @ \cup {p}]
          /\ seen' = [seen EXCEPT ![p] = IF page[p].open THEN @ \cup ToSet(run[r].live) ELSE @]
     ELSE run' = [run EXCEPT ![r] = Submitted(@, p, "sync")] /\ UNCHANGED seen
  /\ UNCHANGED <<current, valid, sweep>>

Sent == MapThenSumSet(LAMBDA p : page[p].sent, Page)

(* Socket::chat and RunChannel::submit: a frame under a session still current; the page    *)
(* watches a run that is not ending; a full run is a protocol error, which ends the        *)
(* socket.                                                                                 *)
Submit(p) ==
  /\ page[p].main = "in" /\ page[p].open /\ PageSession[p] \in valid /\ Sent < MaxSubmits
  /\ RunFor(Submitted(IF Closed(TeamRun) THEN TeamRun ELSE Observed(TeamRun, p), p, "sent"))
  /\ page' = [page EXCEPT ![p].sent = @ + 1, ![p].open = current = 0 \/ ~Full(run[current])]
  /\ UNCHANGED <<seen, valid>>

(* Socket::detach, or shut_down of a socket that closes, and Run::detach: the page stops   *)
(* watching; the last one to leave an idle run retires it, in a later step.                *)
Leave(p) ==
  LET left == run[current].observers \ {p}
      retires == current # 0 /\ left = {} /\ ~Busy(run[current]) IN
  /\ page[p].main = "in"
  /\ run' = IF current = 0 THEN run ELSE [run EXCEPT ![current].observers = left]
  /\ page' = [page EXCEPT ![p].open = FALSE, ![p].main = IF retires THEN "retiring" ELSE "left",
                          ![p].at = IF retires THEN current ELSE 0]
  /\ seen' = [seen EXCEPT ![p] = {}]
  /\ UNCHANGED <<current, valid, sweep>>

DetachRetires(p) ==
  /\ page[p].main = "retiring" /\ Retire(page[p].at)
  /\ page' = [page EXCEPT ![p].main = "left", ![p].at = 0]
  /\ UNCHANGED <<seen, valid, sweep>>

-----------------------------------------------------------------------------
(* Frames and the work they start.                                                         *)

(* run_loop: a frame whose authority is not current any more is dropped.                   *)
Take(r) ==
  LET R == run[r] IN
  /\ R.loop = "waiting" /\ R.queue # <<>>
  /\ run' = [run EXCEPT ![r].queue = Tail(@),
       ![r].loop = IF PageSession[Head(R.queue).page] \in valid THEN "dispatching" ELSE @,
       ![r].frame = IF PageSession[Head(R.queue).page] \in valid THEN Head(R.queue) ELSE @]

(* socket::dispatch starts an operation where none runs; its delivery runs from here.      *)
StartWork(r) ==
  LET R == run[r] IN
  /\ R.loop = "dispatching" /\ R.work = None /\ R.works < MaxWorks
  /\ run' = [run EXCEPT ![r].loop = "started", ![r].works = @ + 1,
                        ![r].work = [by |-> PageSession[R.frame.page], steps |-> 0]]

(* run_frame returned, with work or a refusal: new work runs under the frame's authority,  *)
(* watched afresh.                                                                         *)
Returned(r) ==
  LET R == run[r]
      new == R.loop = "started" /\ R.work # None IN
  /\ R.loop \in {"dispatching", "started"}
  /\ run' = [run EXCEPT ![r].loop = "waiting", ![r].frame = None,
               ![r].authority = IF new THEN PageSession[R.frame.page] ELSE @,
               ![r].live = IF new THEN <<>> ELSE @]

(* A page's Stop that crosses a continuation closes the pages; the loop spawns end and returns.   *)
Disconnect(r) ==
  LET R == run[r] IN
  /\ R.loop = "dispatching" /\ R.frame.kind = "sent" /\ R.work # None /\ End(r)
  /\ page' = [p \in Page |-> IF p \in R.observers THEN [page[p] EXCEPT !.open = FALSE] ELSE page[p]]

(* Run::publish of a progress step: the steps an attaching page is shown, and the pages    *)
(* watching take it; one that cannot stops watching.                                       *)
Publish(r) ==
  LET R == run[r]
      step == [of |-> R.works, n |-> R.work.steps + 1]
      steps == IF step.n = 1 THEN <<step>> ELSE Append(R.live, step)
      excess == IF Len(steps) > LiveSteps THEN Len(steps) - LiveSteps ELSE 0
      took == {p \in R.observers : page[p].open} IN
  /\ R.work # None /\ R.work.steps < MaxSteps
  /\ run' = [run EXCEPT ![r].live = SubSeq(steps, excess + 1, Len(steps)),
                        ![r].work.steps = @ + 1, ![r].observers = took]
  /\ seen' = [p \in Page |-> IF p \in took THEN seen[p] \cup {step} ELSE seen[p]]

WorkEnds(r) ==
  /\ run[r].work # None
  /\ run' = [run EXCEPT ![r] = IF @.retired /\ ~Closed(@) THEN Gone(@) ELSE [@ EXCEPT !.work = None]]

LoopStep(r) ==
  /\ Take(r) \/ StartWork(r) \/ Returned(r) \/ WorkEnds(r)
  /\ UNCHANGED <<current, page, seen, valid, sweep>>
CloseStep(r) == Disconnect(r) /\ UNCHANGED <<seen, valid, sweep>>
PublishStep(r) == Publish(r) /\ UNCHANGED <<current, page, valid, sweep>>

RunStep(r) == LoopStep(r) \/ CloseStep(r) \/ PublishStep(r) \/ EndStopped(r)
PageStep(p) == StartShown(p) \/ DetachRetires(p)
Moves(p) == Attach(p) \/ Submit(p) \/ Leave(p)
SweepStep == Swept \/ SweepRetires \/ SweepReturns

Next ==
  \/ \E r \in Run : RunStep(r)
  \/ \E p \in Page : PageStep(p) \/ Moves(p)
  \/ \E s \in Session : SessionsEnded(s)
  \/ EndRuns \/ SweepStep

(* The runtime keeps running the tasks that can move: the loops, the ends and the sweep's  *)
(* timer.  The frames' own work may take as long as it likes.              *)
Fairness ==
  /\ WF_vars(\E r \in Run : EndStopped(r))
  /\ WF_vars(\E r \in Run : Returned(r) /\ UNCHANGED <<current, page, seen, valid, sweep>>)
  /\ WF_vars(SweepStep)

Spec == Init /\ [][Next]_vars /\ Fairness

-----------------------------------------------------------------------------

TypeOK ==
  /\ current \in 0..Len(run) /\ Len(run) <= MaxRuns
  /\ \A r \in Run : run[r].observers \subseteq Page /\ Len(run[r].queue) <= MaxFrames
                    /\ Len(run[r].live) <= LiveSteps
  /\ valid \subseteq Session /\ sweep.at \in {"none", "asleep", "retiring", "leaving", "over"}

(* The steps an attaching page would be shown that are of the work under way: until        *)
(* run_frame has noted new work, those of the work before are still there.                 *)
Live(R) == {step \in ToSet(R.live) : step.of = R.works}

(* A page that attached, and still watches, has been handed every step of the work under   *)
(* way that a page attaching now would be shown: attach watches before it shows.           *)
LiveShown ==
  \A r \in Run : \A p \in run[r].observers :
    run[r].work # None /\ page[p].start = "over" /\ page[p].startAt = r /\ page[p].open
    => Live(run[r]) \subseteq seen[p]

(* One run of the Team works or is being stopped at a time: a run that ends stays the      *)
(* Team's until its work was stopped.  A run retired while a page came back is not         *)
(* counted: the idle look and the retirement are two steps.                                *)
OneRunWorks ==
  Cardinality({r \in Run : ~run[r].retired /\ (run[r].work # None \/ run[r].end = "stopping")}) <= 1

(* Work authorized by a session that ended ends, also when the session ended between the   *)
(* dispatch that started it and the note of its authority; the sweep must still run, and   *)
(* the run must still be the Team's.                                                       *)
EndedSessionStops ==
  \A s \in Session :
    s \notin valid ~> \/ \A r \in Run : run[r].work = None \/ run[r].work.by # s \/ run[r].retired
                     \/ sweep.at \in {"leaving", "over"}

(* A Team's run is the one its pages are shown, and the only one that works for it.         *)
RunsAsShown == TypeOK /\ LiveShown /\ OneRunWorks
=============================================================================
