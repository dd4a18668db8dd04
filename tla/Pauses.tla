------------------------------- MODULE Pauses -------------------------------
(***************************************************************************)
(* The work of one Team's chat run that Team may pause (chat/socket/       *)
(* {mod,turn,stop,sync,human}.rs, chat/delivery/{terminal,challenge,       *)
(* progress,sync,gated}.rs, chat/connection.rs, chat/task_resume.rs):      *)
(* turns, their challenges and continuations, Stops and the run's end,     *)
(* over the Team's transcript.                                             *)
(*                                                                         *)
(* A frame's dispatch is one step but where it starts a task; a task is    *)
(* cut at every await another task can use.  A turn's ending is checked    *)
(* and its receipt taken in one step, committed and sent in a later one.   *)
(* What comes before a turn is sent (its route, its place in the gate) is  *)
(* the stage "gate"; the conversation window and the lifecycle are left    *)
(* out.                                                                    *)
(*                                                                         *)
(* Team is external: it runs one turn of the Team, pauses it on one        *)
(* challenge, answers a continuation of it, ends it on a Stop, and answers *)
(* an orphaned turn to the sweep.                                          *)
(***************************************************************************)
EXTENDS History

CONSTANTS T,        \* the Team
          MaxSteps, \* MAX_PUBLIC_PROGRESS_EVENTS
          Budgets   \* the starts: how many turns, Stops, syncs, answers, faults and ends follow

VARIABLES
  team,   \* Team's turn: where it is, the challenge it waits for and whether that is granted
  calls,  \* the chat request of each turn: who awaits it, where it is, its steps and its answer
  hist,   \* the transcript store
  conn,   \* Connection: the pending challenge, its turn, the receipt, closed
  active, \* the active turn and its delivery
  stop,   \* the Stop task of the active turn
  sync,   \* the sync or continuation task
  cont,   \* the continuation request of that task
  ender,  \* the end of the run
  left,   \* what the start's budget still allows
  crossed \* ghost: a turn met another's work, or a Stop passed its request

vars == <<team, calls, hist, conn, active, stop, sync, cont, ender, left>>
allVars == <<vars, crossed>>

NoCall == [owner |-> "none", at |-> "none", steps |-> <<>>, answer |-> "none", ch |-> 0, stands |-> "failed"]
NoCont == [at |-> "none", kind |-> "none", ch |-> 0, next |-> 0, turn |-> NoTurn, steps |-> <<>>, answer |-> "none"]
NoActive == [turn |-> NoTurn, op |-> "none", stage |-> "none", requested |-> FALSE, sent |-> FALSE,
             unconfirmed |-> FALSE, current |-> FALSE, event |-> "none", receipt |-> <<>>]
NoStop == [at |-> "none", turn |-> NoTurn, op |-> "none", emit |-> FALSE, sent |-> FALSE,
           answer |-> "none", event |-> "none", finish |-> FALSE, receipt |-> <<>>]
NoSync == [at |-> "none", kind |-> "none", ch |-> 0, next |-> 0, current |-> FALSE, event |-> "none", receipt |-> <<>>]
NoEnd == [at |-> "none", unfinished |-> NoTurn, continuing |-> FALSE, unconfirmed |-> FALSE]

(* Connection::default.                                                                    *)
NewConnection ==
  [ch |-> 0, kind |-> "none", pending |-> NoTurn, terminal |-> FALSE, answered |-> TRUE,
   closed |-> FALSE, of |-> NoTurn, events |-> <<>>]

Turns == {hist.rows[i].turn : i \in {j \in 1..Len(hist.rows) : hist.rows[j].suffix = "user"}}

(* A fault the budget allows; each costs one.                                              *)
Costs(fault) == left' = [left EXCEPT !.faults = @ - fault] /\ left.faults >= fault
Spend(what) == left[what] > 0 /\ left' = [left EXCEPT ![what] = @ - 1]

-----------------------------------------------------------------------------
(* The connection.                                                                         *)

(* remember_challenge, forget_challenge.                                                   *)
Remembered(c, ch, kind) == [c EXCEPT !.ch = ch, !.kind = kind]
Forgotten(c) == [c EXCEPT !.ch = 0, !.kind = "none"]

(* begin_collection: the receipt of another turn, empty; whoever records into the earlier  *)
(* one records nothing more (Receipt::generation).                                         *)
Collecting(c, turn) == [c EXCEPT !.of = turn, !.events = <<>>]

(* A bug: a delivery adds to whatever receipt there is.                                    *)
BegunAny(c, turn, fresh) == [c EXCEPT !.of = turn]

(* receipt_delivery: a turn's own delivery begins its receipt afresh, a continuation only  *)
(* the receipt of another turn.                                                            *)
Begun(c, turn, fresh) == IF fresh \/ c.of # turn THEN Collecting(c, turn) ELSE c

(* record: one more than the bound is kept.                                                *)
Recorded(c, current, step) ==
  IF ~current \/ Len(c.events) > MaxSteps THEN c ELSE [c EXCEPT !.events = Append(@, step)]

(* take_receipt: what a reply of the turn keeps.                                           *)
Taken(c, turn) ==
  IF turn = NoTurn \/ c.of # turn \/ Len(c.events) > MaxSteps THEN <<>> ELSE c.events

(* history::delivery::terminal: whether it was committed, and the store.                   *)
Ending(h, turn, event, finish, receipt) ==
  CASE turn = NoTurn -> <<TRUE, h>>
    [] turn # NoTurn /\ event = "done" ->
         AppendReply(h, T, turn, [kind |-> "done", receipt |-> receipt], 0)
    [] turn # NoTurn /\ event # "done" -> AppendStatus(h, T, turn, [kind |-> event], finish, 0)

-----------------------------------------------------------------------------
(* Team.                                                                                   *)

Idle == [at |-> "idle", turn |-> NoTurn, kind |-> "none", ch |-> 0, granted |-> FALSE, last |-> team.last]

(* A job of the turn lane reaches a worker: it can no longer be cancelled.                 *)
CallSent(t) ==
  /\ calls[t].at = "waiting"
  /\ calls' = [calls EXCEPT ![t].at = "sent"]
  /\ UNCHANGED <<team, hist, conn, active, stop, sync, cont, ender, left>>

(* Team begins the turn; one that comes while another has not ended is refused.            *)
TeamStarts(t) ==
  /\ calls[t].at = "sent"
  /\ IF team.at = "idle"
     THEN /\ team' = [Idle EXCEPT !.at = "running", !.turn = t]
          /\ calls' = [calls EXCEPT ![t].at = "running",
                                    ![t].steps = IF MaxSteps > 0 THEN <<0>> ELSE <<>>]
     ELSE /\ team' = team
          /\ calls' = [calls EXCEPT ![t].at = "answered", ![t].answer = "failed"]
  /\ UNCHANGED <<hist, conn, active, stop, sync, cont, ender, left>>

(* The Space runs as many turns as its limit: nothing was started.                         *)
TeamBusy(t) ==
  /\ calls[t].at = "sent" /\ Costs(1)
  /\ calls' = [calls EXCEPT ![t].at = "answered", ![t].answer = "busy"]
  /\ UNCHANGED <<team, hist, conn, active, stop, sync, cont, ender>>

(* What Team answers of a turn that is sent again: how it stands by now.                   *)
Stands(t, outcome) ==
  IF t # NoTurn /\ calls[t].at = "answered" THEN [calls EXCEPT ![t].stands = outcome] ELSE calls

(* How Team leaves a turn it ran.                                                          *)
Leaves(t, outcome) ==
  IF outcome \in {"integration", "human"}
  THEN [at |-> "paused", turn |-> t, kind |-> outcome, ch |-> team.last + 1, granted |-> FALSE,
        last |-> team.last + 1]
  ELSE Idle

TeamAnswers(t) ==
  /\ calls[t].at = "running" /\ team.at = "running" /\ team.turn = t
  /\ \E outcome \in {"done", "failed", "integration", "human"} :
       /\ outcome \in {"integration", "human"} => team.last < 2
       /\ team' = Leaves(t, outcome)
       /\ calls' = [calls EXCEPT ![t].at = "answered", ![t].answer = outcome, ![t].ch = team'.ch,
                                 ![t].stands = outcome]
  /\ UNCHANGED <<hist, conn, active, stop, sync, cont, ender, left>>

(* The person grants an Integration through its handoff.                                   *)
TeamGrants ==
  /\ team.at = "paused" /\ team.kind = "integration" /\ ~team.granted
  /\ team' = [team EXCEPT !.granted = TRUE]
  /\ UNCHANGED <<calls, hist, conn, active, stop, sync, cont, ender, left>>

(* A challenge's time is over.                                                             *)
TeamExpires ==
  /\ team.at = "paused" /\ Costs(1) /\ team' = Idle
  /\ calls' = Stands(team.turn, "failed")
  /\ UNCHANGED <<hist, conn, active, stop, sync, cont, ender>>

(* Team takes a continuation of the challenge it waits for, and a denial ends the turn;    *)
(* one of another challenge, or of one not granted, leaves it.                             *)
TeamContinues ==
  /\ cont.at = "sent"
  /\ LET mine == team.at = "paused" /\ team.ch = cont.ch
     IN IF mine /\ (team.kind = "human" \/ team.granted) /\ cont.kind # "deny"
        THEN /\ team' = [team EXCEPT !.at = "running"]
             /\ cont' = [cont EXCEPT !.at = "running", !.turn = team.turn,
                                     !.steps = IF MaxSteps > 0 THEN <<cont.ch>> ELSE <<>>]
             /\ calls' = calls
        ELSE /\ team' = IF mine /\ cont.kind = "deny" THEN Idle ELSE team
             /\ calls' = IF mine /\ cont.kind = "deny" THEN Stands(team.turn, "failed") ELSE calls
             /\ cont' = [cont EXCEPT !.at = "answered", !.next = team.ch,
                          !.answer = CASE mine /\ cont.kind = "deny" -> "denied"
                                       [] mine /\ cont.kind # "deny" -> team.kind
                                       [] ~mine -> "failed"]
  /\ UNCHANGED <<hist, conn, active, stop, sync, ender, left>>

TeamAnswersContinuation ==
  /\ cont.at = "running" /\ team.at = "running" /\ team.turn = cont.turn
  /\ \E outcome \in {"done", "failed", "human"}, lost \in {0, 1} :
       /\ outcome = "human" => team.last < 2
       /\ Costs(lost)
       /\ team' = Leaves(cont.turn, outcome)
       /\ cont' = [cont EXCEPT !.at = "answered", !.answer = IF lost = 1 THEN "lost" ELSE outcome,
                               !.next = team'.ch]
       /\ calls' = Stands(cont.turn, outcome)
  /\ UNCHANGED <<hist, conn, active, stop, sync, ender>>

(* What a Stop does in Team: it ends the turn that runs or is paused, whose request is     *)
(* answered; there was one or not.                                                         *)
TeamStopped(answer) ==
  /\ team' = Idle
  /\ calls' = [t \in DOMAIN calls |->
                 IF team.turn # t THEN calls[t]
                 ELSE [calls[t] EXCEPT !.at = IF @ = "running" THEN "answered" ELSE @, !.stands = "failed",
                                       !.answer = IF calls[t].at = "running" THEN "failed" ELSE @]]
  /\ cont' = IF cont.at = "running" THEN [cont EXCEPT !.at = "answered", !.answer = "failed"] ELSE cont
  /\ answer = IF team.at = "idle" THEN "nothing" ELSE "stopped"

-----------------------------------------------------------------------------
(* A turn.                                                                                 *)

Open == ender.at = "none" /\ ~conn.closed

(* dispatch_chat, admit, and task_resume::dispatch, begin, spawn_route: nothing else       *)
(* works, no challenge waits, and the message is admitted into the Team's history; a       *)
(* Stop's commit that was asked for before is done by then.                                *)
Chat ==
  /\ Open /\ active.turn = NoTurn /\ sync.at = "none" /\ conn.ch = 0 /\ stop.at # "commit" /\ Spend("turns")
  /\ LET t == Cardinality(Turns) + 1
     IN /\ hist' = AppendUser(hist, T, t, [kind |-> "text"], FALSE, 0)[2]
        /\ active' = [NoActive EXCEPT !.turn = t, !.op = "queued", !.stage = "gate"]
  /\ UNCHANGED <<team, calls, conn, stop, sync, cont, ender>>

(* terminal::turn, until its await: nothing when the run or the turn has ended; else the   *)
(* receipt is taken and the ending is about to be committed.                               *)
Checked(stage, event) ==
  IF conn.closed \/ active.sent THEN [active EXCEPT !.stage = "release"]
  ELSE [active EXCEPT !.stage = stage, !.event = event, !.receipt = Taken(conn, active.turn),
                      !.current = FALSE]
CheckedConnection(c) == IF conn.closed \/ active.sent THEN c ELSE Collecting(c, NoTurn)

(* finish_active_turn: from where a turn is not sent to Team.                              *)
Finishes(event) ==
  /\ active' = Checked("commit", event)
  /\ conn' = CheckedConnection(conn)
  /\ sync' = [sync EXCEPT !.current = FALSE]

(* gated::run, and busy: a slot of the gate, or it lets the turn not start.                *)
Slot ==
  /\ active.stage \in {"gate", "requeued"}
  /\ \/ /\ active' = [active EXCEPT !.stage = IF @ = "gate" THEN "ready" ELSE "submit"]
        /\ UNCHANGED <<conn, sync, left>>
     \/ Costs(1) /\ Finishes("error")
  /\ UNCHANGED <<team, calls, hist, stop, cont, ender>>

(* continue_team_turn, its first check.                                                    *)
Continue ==
  /\ active.stage = "ready"
  /\ IF active.requested \/ conn.closed THEN Finishes("stopped")
     ELSE active' = [active EXCEPT !.stage = "submit"] /\ UNCHANGED <<conn, sync>>
  /\ UNCHANGED <<team, calls, hist, stop, cont, ender, left>>

(* submit_team_turn and turn_response: the turn is recorded and its request handed to the  *)
(* turn lane, or that is full.  A delivery aborted on its way here is gone only then.      *)
SubmitTeamTurn ==
  /\ active.stage = "submit"
  /\ \/ /\ calls' = [calls EXCEPT ![active.turn] = [NoCall EXCEPT !.owner = "run", !.at = "waiting"]]
        /\ active' = [active EXCEPT !.stage = IF active.requested THEN "gone" ELSE "await", !.op = "chat",
                                     !.current = TRUE]
        /\ conn' = Begun(conn, active.turn, TRUE)
        /\ sync' = [sync EXCEPT !.current = FALSE]
        /\ UNCHANGED left
     \/ Costs(1) /\ Finishes("error") /\ UNCHANGED calls
  /\ UNCHANGED <<team, hist, stop, cont, ender>>

MyCall == calls[active.turn]

(* until_ended, Sender::deliver: one step of progress, unless the delivery no longer       *)
(* matters.                                                                                *)
TurnStep ==
  /\ active.stage = "await" /\ MyCall.steps # <<>> /\ ~conn.closed /\ ~active.sent
  /\ conn' = Recorded(conn, active.current, [of |-> active.turn, segment |-> Head(MyCall.steps)])
  /\ calls' = [calls EXCEPT ![active.turn].steps = Tail(@)]
  /\ UNCHANGED <<team, hist, active, stop, sync, cont, ender, left>>

(* await_result: the answer, its steps delivered before it; no answer once the delivery    *)
(* no longer matters.                                                                      *)
TurnResponse ==
  /\ active.stage = "await"
  /\ LET dead == conn.closed \/ active.sent
     IN /\ \/ dead /\ MyCall.steps # <<>>
           \/ MyCall.at \in {"answered", "cancelled"} /\ (dead \/ MyCall.steps = <<>>)
        /\ active' = IF MyCall.answer = "busy" /\ ~active.requested /\ ~dead
                     THEN [active EXCEPT !.stage = "requeued", !.op = "queued"]
                     ELSE [active EXCEPT !.stage = IF active.requested /\ stop.at # "none" THEN "wait" ELSE "deliver"]
  /\ UNCHANGED <<team, calls, hist, conn, stop, sync, cont, ender, left>>

(* deliver_turn awaits the Stop sent for the turn, for at most STOP_RESULT_WAIT.           *)
StopAwaited ==
  /\ active.stage = "wait"
  /\ \/ stop.at = "none" /\ UNCHANGED left
     \/ stop.at # "none" /\ Costs(1)
  /\ active' = [active EXCEPT !.stage = "deliver"]
  /\ UNCHANGED <<team, calls, hist, conn, stop, sync, cont, ender>>

(* deliver_turn: nothing once the turn has ended; a challenge is bound, then shown; every  *)
(* other answer ends the turn.                                                             *)
DeliverTurn ==
  /\ active.stage = "deliver"
  /\ CASE conn.closed \/ active.sent -> active' = [active EXCEPT !.stage = "release"] /\ UNCHANGED <<conn, sync>>
       [] ~(conn.closed \/ active.sent) /\ MyCall.answer \in {"integration", "human"} ->
            active' = [active EXCEPT !.stage = "bind", !.event = MyCall.answer] /\ UNCHANGED <<conn, sync>>
       [] ~(conn.closed \/ active.sent) /\ MyCall.answer \notin {"integration", "human"} ->
            LET event == IF MyCall.answer = "done" THEN "done" ELSE "error"
            IN /\ active' = Checked("commit", event)
               /\ conn' = CheckedConnection(IF event = "done" THEN Forgotten(conn) ELSE conn)
               /\ sync' = [sync EXCEPT !.current = FALSE]
  /\ UNCHANGED <<team, calls, hist, stop, cont, ender, left>>

(* challenge::deliver: the turn becomes the Team's resumable turn.                         *)
BindChallenge ==
  /\ active.stage = "bind"
  /\ LET bound == Bind(hist, T, active.turn)
     IN \/ /\ hist' = bound[2]
           /\ IF bound[1] THEN active' = [active EXCEPT !.stage = "show"] /\ UNCHANGED <<conn, sync>>
              ELSE Finishes("error")
           /\ UNCHANGED left
        \/ Costs(1) /\ Finishes("error") /\ UNCHANGED hist
  /\ UNCHANGED <<team, calls, stop, cont, ender>>

(* settled: Team is told a delivered turn's ending is kept; any other that was sent is     *)
(* left to the sweep, which sends it again unless its session has ended with the run.      *)
Settled(committed) ==
  calls' = IF active.op # "chat" THEN calls
           ELSE [calls EXCEPT ![active.turn] =
                   CASE committed -> NoCall
                     [] ~committed /\ ender.at # "none" -> [@ EXCEPT !.owner = "revoked", !.steps = <<>>]
                     [] ~committed /\ ender.at = "none" ->
                          [@ EXCEPT !.owner = "sweep", !.steps = <<>>, !.at = IF @ = "cancelled" THEN "sent" ELSE @]]

(* release: the run goes on without the turn, which its Stop task and the run's end still  *)
(* know.                                                                                   *)
Released(sent) ==
  /\ active' = IF ender.at = "none" THEN NoActive ELSE [active EXCEPT !.stage = "gone", !.sent = sent]
  /\ stop' = IF stop.turn = active.turn THEN [stop EXCEPT !.sent = sent] ELSE stop

(* challenge::deliver, its end, and deliver_turn's.                                        *)
ShowChallenge ==
  /\ active.stage = "show"
  /\ conn' = Remembered([conn EXCEPT !.pending = active.turn], MyCall.ch, active.event)
  /\ Settled(TRUE) /\ Released(FALSE)
  /\ UNCHANGED <<team, hist, sync, cont, ender, left>>

(* A bug: any committed ending forgets the challenge's turn.                               *)
ClosingAny(c, turn, event, finish) == [c EXCEPT !.pending = NoTurn]

(* What a committed ending leaves of the connection: the challenge's turn when it ended.   *)
Closing(c, turn, event, finish) ==
  IF (event = "done" \/ finish) /\ turn = c.pending THEN [c EXCEPT !.pending = NoTurn] ELSE c

(* terminal::turn from its await, for the delivery: the ending committed and sent, the     *)
(* turn settled and released.                                                              *)
TurnTerminal ==
  /\ active.stage = "commit"
  /\ LET written == Ending(hist, active.turn, active.event, FALSE, active.receipt)
     IN \/ /\ hist' = written[2] /\ Settled(written[1])
           /\ conn' = IF written[1] THEN Closing(conn, active.turn, active.event, FALSE) ELSE conn
           /\ UNCHANGED left
        \/ Costs(1) /\ Settled(FALSE) /\ UNCHANGED <<hist, conn>>
  /\ Released(TRUE)
  /\ UNCHANGED <<team, sync, cont, ender>>

(* deliver_turn whose turn has ended another way.                                          *)
Release ==
  /\ active.stage = "release"
  /\ Settled(FALSE) /\ Released(active.sent)
  /\ UNCHANGED <<team, hist, conn, sync, cont, ender, left>>

-----------------------------------------------------------------------------
(* Stop.                                                                                   *)

(* terminal::resumed, for an ending that is not kept: once, and the receipt is over.       *)
Refusal(c) ==
  IF c.closed \/ c.terminal THEN c
  ELSE [Collecting(c, NoTurn) EXCEPT !.terminal = TRUE, !.answered = TRUE]

(* dispatch_stop while a continuation works: it is refused, and the pages are closed.      *)
StopCrossesSync ==
  /\ Open /\ sync.at # "none" /\ ~conn.terminal /\ Spend("stops")
  /\ conn' = [Refusal(conn) EXCEPT !.closed = TRUE]
  /\ sync' = [sync EXCEPT !.current = FALSE]
  /\ UNCHANGED <<team, calls, hist, active, stop, cont, ender>>

(* pending_stop: the Stop of a paused turn becomes the active turn.                        *)
StopPaused ==
  /\ Open /\ sync.at = "none" /\ active.turn = NoTurn /\ conn.ch # 0 /\ stop.at = "none" /\ Spend("stops")
  /\ LET turn == IF conn.pending # NoTurn THEN conn.pending ELSE BoundTo(hist, T)
     IN /\ turn # NoTurn
        /\ active' = [NoActive EXCEPT !.turn = turn, !.op = "pending-stop", !.requested = TRUE]
        /\ stop' = [NoStop EXCEPT !.at = "team", !.turn = turn, !.op = "pending-stop", !.emit = TRUE]
  /\ UNCHANGED <<team, calls, hist, conn, sync, cont, ender>>

(* request_stop of a turn that waits: its delivery is aborted at its next await, and the   *)
(* turn ends as stopped.                                                                   *)
StopQueued ==
  /\ Open /\ active.op = "queued" /\ ~active.requested /\ stop.at = "none" /\ Spend("stops")
  /\ active' = [active EXCEPT !.requested = TRUE, !.stage = IF @ = "submit" THEN @ ELSE "gone"]
  /\ stop' = [NoStop EXCEPT !.at = "answered", !.turn = active.turn, !.op = "queued", !.emit = TRUE,
                            !.answer = "cancelled"]
  /\ UNCHANGED <<team, calls, hist, conn, sync, cont, ender>>

(* request_stop of a turn that was sent: cancelled while no worker has its request, else   *)
(* Team is asked.                                                                          *)
Requested(emit) ==
  LET cancelled == MyCall.at = "waiting" /\ conn.ch = 0
  IN /\ calls' = IF MyCall.at # "waiting" THEN calls
                 ELSE [calls EXCEPT ![active.turn].at = "cancelled", ![active.turn].answer = "lost"]
     /\ active' = [active EXCEPT !.requested = TRUE]
     /\ stop' = IF cancelled /\ ~emit THEN stop
                ELSE [NoStop EXCEPT !.at = IF cancelled THEN "answered" ELSE "team", !.turn = active.turn,
                                    !.op = IF cancelled THEN "queued" ELSE "chat", !.emit = emit,
                                    !.answer = IF cancelled THEN "cancelled" ELSE "none"]

StopChat ==
  /\ Open /\ active.op = "chat" /\ ~active.requested /\ stop.at = "none" /\ Spend("stops")
  /\ Requested(TRUE)
  /\ UNCHANGED <<team, hist, conn, sync, cont, ender>>

(* team_stop: Team's answer, or none, whether or not it did as asked.                      *)
StopAsked ==
  /\ stop.at = "team"
  /\ \/ \E answer \in {"stopped", "nothing"} :
          TeamStopped(answer) /\ stop' = [stop EXCEPT !.at = "answered", !.answer = answer] /\ UNCHANGED left
     \/ /\ Costs(1) /\ stop' = [stop EXCEPT !.at = "answered", !.answer = "unconfirmed"]
        /\ TeamStopped("stopped") \/ UNCHANGED <<team, calls, cont>>
  /\ UNCHANGED <<hist, conn, active, sync, ender>>

TurnSent == IF stop.turn = active.turn THEN active.sent ELSE stop.sent

(* How a Stop ends its turn: as stopped when it was never sent or Team confirmed it.       *)
Ends ==
  CASE stop.answer = "cancelled" -> [event |-> "stopped", finish |-> FALSE]
    [] stop.answer = "stopped" -> [event |-> "stopped", finish |-> TRUE]
    [] stop.answer = "unconfirmed" -> [event |-> "error", finish |-> FALSE]
    [] stop.answer = "nothing" -> [event |-> "error", finish |-> TRUE]

(* A bug: only a waiting turn is released.                                                 *)
StopEndsKeeping(sent) ==
  /\ stop' = NoStop
  /\ active' = IF stop.turn # active.turn THEN active
               ELSE IF ender.at = "none" /\ stop.op = "queued" THEN NoActive
               ELSE [active EXCEPT !.sent = sent, !.unconfirmed = @ \/ stop.answer = "unconfirmed"]

(* run_stop's end, and finish_cancelled_turn's: a waiting turn, and a paused one whose     *)
(* ending was sent, are released.                                                          *)
StopEnds(sent) ==
  /\ stop' = NoStop
  /\ active' = IF stop.turn # active.turn THEN active
               ELSE IF ender.at = "none" /\ (stop.op = "queued" \/ (stop.op = "pending-stop" /\ sent)) THEN NoActive
               ELSE [active EXCEPT !.sent = sent, !.unconfirmed = @ \/ stop.answer = "unconfirmed"]

(* run_stop after Team's answer, and terminal::turn until its await: nothing when the run  *)
(* or the turn has ended, or when Team had nothing to stop of a turn that was sent.        *)
StopAnswered ==
  /\ stop.at = "answered"
  /\ IF ~stop.emit \/ conn.closed \/ TurnSent \/ (stop.answer = "nothing" /\ stop.op = "chat")
     THEN StopEnds(TurnSent) /\ UNCHANGED <<conn, sync>>
     ELSE /\ stop' = [stop EXCEPT !.at = "commit", !.event = Ends.event, !.finish = Ends.finish,
                                  !.receipt = Taken(conn, stop.turn)]
          /\ conn' = Collecting(IF stop.answer = "stopped" THEN Forgotten(conn) ELSE conn, NoTurn)
          /\ active' = [active EXCEPT !.current = FALSE,
                          !.unconfirmed = @ \/ (stop.turn = active.turn /\ stop.answer = "unconfirmed")]
          /\ sync' = [sync EXCEPT !.current = FALSE]
  /\ UNCHANGED <<team, calls, hist, cont, ender, left>>

(* terminal::turn's commit for a Stop: a paused turn whose Stop failed has not ended.      *)
StopWritten ==
  IF stop.op = "pending-stop" /\ stop.event = "error" THEN <<TRUE, hist>>
  ELSE Ending(hist, stop.turn, stop.event, stop.finish, stop.receipt)

StopTerminal ==
  /\ stop.at = "commit"
  /\ \/ /\ hist' = StopWritten[2]
        /\ conn' = IF StopWritten[1] THEN Closing(conn, stop.turn, stop.event, stop.finish) ELSE conn
        /\ UNCHANGED left
     \/ Costs(1) /\ UNCHANGED <<hist, conn>>
  /\ StopEnds(TRUE)
  /\ UNCHANGED <<team, calls, sync, cont, ender>>

-----------------------------------------------------------------------------
(* A sync, and a person's answer.                                                          *)

(* dispatch_sync: nothing else works.                                                      *)
Sync ==
  /\ Open /\ active.turn = NoTurn /\ sync.at = "none" /\ Spend("syncs")
  /\ sync' = [NoSync EXCEPT !.at = "observe"]
  /\ conn' = [conn EXCEPT !.terminal = FALSE, !.answered = FALSE]
  /\ UNCHANGED <<team, calls, hist, active, stop, cont, ender>>

(* dispatch_human_response: the challenge that waits, approved, denied, or its password    *)
(* could not be checked; a wrong one is answered and changes nothing.                      *)
HumanResponse ==
  /\ Open /\ active.turn = NoTurn /\ sync.at = "none" /\ conn.ch # 0 /\ conn.kind = "human" /\ Spend("syncs")
  /\ \E kind \in {"human", "deny", "failure"} : sync' = [NoSync EXCEPT !.at = "gate", !.kind = kind, !.ch = conn.ch]
  /\ conn' = [conn EXCEPT !.terminal = FALSE, !.answered = FALSE]
  /\ UNCHANGED <<team, calls, hist, active, stop, cont, ender>>

(* A bug: a sync without a result ends its task and nothing else.                          *)
RefusedSilently == conn' = conn /\ sync' = NoSync

(* A sync that ends without a result: its refusal is sent.                                 *)
Refused == conn' = Refusal(conn) /\ sync' = NoSync
(* sync_event: a sync's answer while its turn goes on.                                     *)
Shown(c) == IF c.closed \/ c.terminal THEN c ELSE [c EXCEPT !.answered = TRUE]

(* restore: the Team's resumable turn is observed.                                         *)
SyncObserves ==
  /\ sync.at = "observe"
  /\ \/ /\ conn' = [conn EXCEPT !.pending = BoundTo(hist, T)]
        /\ sync' = [sync EXCEPT !.at = "read"]
        /\ UNCHANGED left
     \/ Costs(1) /\ Refused
  /\ UNCHANGED <<team, calls, hist, active, stop, cont, ender>>

(* snapshot, load_snapshot: what Team has paused; it refuses to say while a turn runs.     *)
SyncReads ==
  /\ sync.at = "read"
  /\ \/ /\ team.at # "running" /\ ~conn.closed
        /\ sync' = CASE team.at = "idle" -> [sync EXCEPT !.at = "empty"]
                     [] team.at = "paused" /\ team.kind = "human" -> [sync EXCEPT !.at = "human", !.ch = team.ch]
                     [] team.at = "paused" /\ team.kind = "integration" ->
                          [sync EXCEPT !.at = "gate", !.kind = "integration", !.ch = team.ch]
        /\ UNCHANGED <<conn, left>>
     \/ (team.at = "running" \/ conn.closed) /\ Refused /\ UNCHANGED left
     \/ Costs(1) /\ Refused
  /\ UNCHANGED <<team, calls, hist, active, stop, cont, ender>>

(* abandon: the turn the sync observed.                                                    *)
Abandoned == Finish(hist, conn.pending)

(* empty: nothing waits in Team, so nothing resumes the turn.                              *)
SyncEmpty ==
  /\ sync.at = "empty"
  /\ \/ /\ hist' = Abandoned
        /\ conn' = Shown([Forgotten(conn) EXCEPT !.pending = NoTurn])
        /\ sync' = NoSync /\ UNCHANGED left
     \/ Costs(1) /\ Refused /\ UNCHANGED hist
  /\ UNCHANGED <<team, calls, active, stop, cont, ender>>

(* restore_history: the challenge's turn is still the Team's resumable turn.               *)
Resumes == conn.pending # NoTurn /\ BoundTo(hist, T) = conn.pending

(* delivery::sync::human.                                                                  *)
SyncHuman ==
  /\ sync.at = "human"
  /\ IF Resumes THEN conn' = Shown(Remembered(conn, sync.ch, "human")) /\ sync' = NoSync ELSE Refused
  /\ UNCHANGED <<team, calls, hist, active, stop, cont, ender, left>>

(* gated_continuation, continue_once: a slot of the gate, the request handed to its lane,  *)
(* its receipt begun; or the gate or the lane refuses.                                     *)
SyncSubmits ==
  /\ sync.at = "gate"
  /\ \/ /\ cont' = [NoCont EXCEPT !.at = "sent", !.ch = sync.ch,
                                   !.kind = IF sync.kind = "failure" THEN "deny" ELSE sync.kind]
        /\ sync' = [sync EXCEPT !.at = "await", !.current = TRUE]
        /\ conn' = Begun(conn, conn.pending, FALSE)
        /\ UNCHANGED left
     \/ Costs(1) /\ Refused /\ UNCHANGED cont
  /\ UNCHANGED <<team, calls, hist, active, stop, ender>>

SyncStep ==
  /\ sync.at = "await" /\ cont.steps # <<>> /\ ~conn.closed /\ ~conn.terminal
  /\ conn' = Recorded(conn, sync.current, [of |-> conn.pending, segment |-> Head(cont.steps)])
  /\ cont' = [cont EXCEPT !.steps = Tail(@)]
  /\ UNCHANGED <<team, calls, hist, active, stop, sync, ender, left>>

(* await_result: the continuation's answer; without one the sync is refused.               *)
SyncAnswered ==
  /\ sync.at = "await" /\ cont.at = "answered" /\ cont.steps = <<>>
  /\ cont' = NoCont
  /\ IF conn.closed \/ conn.terminal \/ cont.answer = "lost" THEN Refused
     ELSE sync' = [sync EXCEPT !.at = "conclude", !.event = cont.answer, !.next = cont.next] /\ UNCHANGED conn
  /\ UNCHANGED <<team, calls, hist, active, stop, ender, left>>

(* terminal::resumed until its await, for an ending that is kept.                          *)
Concludes(event) ==
  IF conn.closed \/ conn.terminal THEN conn' = Forgotten(conn) /\ sync' = NoSync
  ELSE /\ conn' = Collecting(Forgotten(conn), NoTurn)
       /\ sync' = [sync EXCEPT !.at = "commit", !.event = event, !.current = FALSE,
                               !.receipt = Taken(conn, conn.pending)]

(* delivery::sync::integration, integration_terminal: the turn must still be resumable;    *)
(* the next challenge, the turn's reply, or a failure the challenge outlives.              *)
ConcludeIntegration ==
  /\ sync.at = "conclude" /\ sync.kind = "integration"
  /\ CASE ~Resumes -> Refused
       [] Resumes /\ sync.event \in {"integration", "human"} ->
            conn' = Shown(Remembered(conn, sync.next, sync.event)) /\ sync' = NoSync
       [] Resumes /\ sync.event = "done" -> Concludes("done")
       [] Resumes /\ sync.event = "failed" ->
            conn' = Refusal(Remembered(conn, sync.ch, "integration")) /\ sync' = NoSync
  /\ UNCHANGED <<team, calls, hist, active, stop, cont, ender, left>>

(* conclude: the next challenge, the turn's reply, or a failure; a denial Admin itself     *)
(* made ends the turn.                                                                     *)
ConcludeHuman ==
  /\ sync.at = "conclude" /\ sync.kind \in {"human", "deny", "failure"}
  /\ CASE sync.event \in {"integration", "human"} /\ sync.kind # "failure" ->
            conn' = Shown(Remembered(conn, sync.next, sync.event)) /\ sync' = NoSync
       [] sync.event = "done" -> Concludes("done")
       [] sync.event = "denied" /\ sync.kind = "failure" -> Concludes("error")
       [] sync.event # "done" /\ (sync.kind = "failure" => sync.event # "denied")
            /\ (sync.event \in {"integration", "human"} => sync.kind = "failure") -> Refused
  /\ UNCHANGED <<team, calls, hist, active, stop, cont, ender, left>>

(* terminal::resumed from its await: the ending committed and sent; the turn it resumed    *)
(* must be known.                                                                          *)
SyncTerminal ==
  /\ sync.at = "commit"
  /\ LET written == IF conn.pending = NoTurn THEN <<FALSE, hist>>
                    ELSE Ending(hist, conn.pending, sync.event, TRUE, sync.receipt)
         sent == [conn EXCEPT !.terminal = TRUE, !.answered = TRUE]
     IN \/ /\ hist' = written[2]
           /\ conn' = IF written[1] THEN [sent EXCEPT !.pending = NoTurn] ELSE sent
           /\ UNCHANGED left
        \/ Costs(1) /\ conn' = sent /\ UNCHANGED hist
  /\ sync' = NoSync
  /\ UNCHANGED <<team, calls, active, stop, cont, ender>>

-----------------------------------------------------------------------------
(* The end of the run, a crash, and the sweep.                                             *)

(* What a commit under way leaves of the store when its task is aborted.                   *)
Aborted(committing, written) == hist' \in {hist} \cup (IF committing THEN {written} ELSE {})

(* Run::end, end_run and close_connection: the run closes, its sync is aborted, and a turn *)
(* Team works on is stopped.                                                               *)
EndRun ==
  /\ ender.at = "none"
  /\ \/ conn.closed /\ UNCHANGED left
     \/ ~conn.closed /\ Spend("ends")
  /\ conn' = [conn EXCEPT !.closed = TRUE]
  /\ ender' = [at |-> "stop", unconfirmed |-> FALSE, continuing |-> cont.at # "none",
               unfinished |-> IF active.sent THEN NoTurn ELSE active.turn]
  /\ sync' = NoSync
  /\ Aborted(sync.at = "commit", Ending(hist, conn.pending, sync.event, TRUE, sync.receipt)[2])
  /\ UNCHANGED <<team, calls, active, stop, cont>>

(* close_connection: a request Team has not answered is stopped there.                     *)
CloseStops ==
  /\ ender.at = "stop"
  /\ IF active.op = "chat" /\ ~active.requested /\ MyCall.at \in {"waiting", "sent", "running"} /\ stop.at = "none"
     THEN Requested(FALSE) ELSE UNCHANGED <<calls, active, stop>>
  /\ ender' = [ender EXCEPT !.at = "await"]
  /\ UNCHANGED <<team, hist, conn, sync, cont, left>>

(* Then the Stop is awaited, for at most STOP_RESULT_WAIT, and the delivery aborted.       *)
CloseAborts ==
  /\ ender.at = "await"
  /\ \/ stop.at = "none" /\ UNCHANGED left
     \/ stop.at # "none" /\ Costs(1)
  /\ ender' = [ender EXCEPT !.at = "team"]
  /\ active' = [active EXCEPT !.stage = "gone"]
  /\ Aborted(active.stage = "commit", Ending(hist, active.turn, active.event, FALSE, active.receipt)[2])
  /\ UNCHANGED <<team, calls, conn, stop, sync, cont>>

(* stop_in_team: once more when a continuation works or no Stop of the turn is under way.  *)
CloseAsks ==
  /\ ender.at = "team"
  /\ IF ender.continuing \/ (active.turn # NoTurn /\ ~active.sent /\ stop.at = "none")
     THEN \/ /\ \E answer \in {"stopped", "nothing"} : TeamStopped(answer)
             /\ ender' = [ender EXCEPT !.at = "ended"] /\ UNCHANGED left
          \/ /\ Costs(1) /\ ender' = [ender EXCEPT !.at = "ended", !.unconfirmed = TRUE]
             /\ TeamStopped("stopped") \/ UNCHANGED <<team, calls, cont>>
     ELSE ender' = [ender EXCEPT !.at = "ended"] /\ UNCHANGED <<team, calls, cont, left>>
  /\ UNCHANGED <<hist, conn, active, stop, sync>>

(* A bug: what Team did not confirm is stopped like anything else.                         *)
EndedAs == [event |-> "stopped", finish |-> TRUE]

(* end_run: a Stop Team did not confirm is never shown as stopped.                         *)
RunEnding ==
  IF ender.unconfirmed \/ active.unconfirmed THEN [event |-> "error", finish |-> FALSE]
  ELSE [event |-> "stopped", finish |-> TRUE]

(* ended, history_terminal: when the requests and the Stop have answered, how the turn     *)
(* ended is kept, and the run is forgotten.                                                *)
RunEnds ==
  /\ ender.at = "ended" /\ stop.at = "none"
  /\ cont.at \in {"none", "answered"}
  /\ active.turn # NoTurn => MyCall.at \in {"none", "answered", "cancelled"} \/ MyCall.owner # "run"
  /\ \/ /\ hist' = Ending(hist, ender.unfinished, RunEnding.event, RunEnding.finish, <<>>)[2]
        /\ UNCHANGED left
     \/ ender.unfinished # NoTurn /\ Costs(1) /\ UNCHANGED hist
  /\ conn' = NewConnection /\ active' = NoActive /\ cont' = NoCont /\ ender' = NoEnd
  /\ UNCHANGED <<team, calls, stop, sync>>

(* The process is gone, or an idle run nobody watches (retire): what Team was sent goes    *)
(* on, and the sweep attaches to it.                                                       *)
Crash ==
  /\ Spend("ends")
  /\ conn' = NewConnection /\ active' = NoActive /\ stop' = NoStop /\ sync' = NoSync
  /\ cont' = NoCont /\ ender' = NoEnd
  /\ calls' = [t \in DOMAIN calls |->
                 IF calls[t].owner = "none" THEN calls[t]
                 ELSE [calls[t] EXCEPT !.owner = "sweep", !.steps = <<>>,
                                       !.at = IF @ \in {"waiting", "cancelled"} THEN "sent" ELSE @]]
  /\ UNCHANGED <<team, hist>>

(* reattach::commit, settled: Team's answer to a turn sent again is kept, and Team told;   *)
(* what could not be kept is tried again.                                                  *)
SweepDelivers(t) ==
  /\ calls[t].owner = "sweep" /\ calls[t].at = "answered" /\ ~(team.at = "running" /\ team.turn = t)
  /\ LET answer == calls[t].stands
         written == IF answer \in {"integration", "human"} THEN Bind(hist, T, t)
                    ELSE Ending(hist, t, IF answer = "done" THEN "done" ELSE "error", TRUE, <<>>)
     IN written[1] /\ hist' = written[2]
  /\ calls' = [calls EXCEPT ![t] = NoCall]
  /\ UNCHANGED <<team, conn, active, stop, sync, cont, ender, left>>

(* revoke: Team ends the turn first; then it is kept as failed unless it has its ending.   *)
SweepRevokes(t) ==
  /\ calls[t].owner = "revoked" /\ calls[t].at \in {"answered", "cancelled"}
  /\ team' = IF team.turn = t THEN Idle ELSE team
  /\ cont' = IF team.turn = t /\ cont.at = "running" THEN [cont EXCEPT !.at = "answered", !.answer = "failed"] ELSE cont
  /\ LET written == IF Ended(hist, T, t) THEN <<TRUE, hist>> ELSE Ending(hist, t, "error", TRUE, <<>>)
     IN written[1] /\ hist' = written[2]
  /\ calls' = [calls EXCEPT ![t] = NoCall]
  /\ UNCHANGED <<conn, active, stop, sync, ender, left>>
-----------------------------------------------------------------------------
Init ==
  /\ team = [at |-> "idle", turn |-> NoTurn, kind |-> "none", ch |-> 0, granted |-> FALSE, last |-> 0]
  /\ left \in Budgets
  /\ calls = [t \in 1..left.turns |-> NoCall]
  /\ hist = Empty /\ conn = NewConnection /\ active = NoActive /\ stop = NoStop /\ sync = NoSync
  /\ cont = NoCont /\ ender = NoEnd
  /\ crossed = FALSE

TeamNext ==
  \/ \E t \in DOMAIN calls : CallSent(t) \/ TeamStarts(t) \/ TeamBusy(t) \/ TeamAnswers(t)
  \/ TeamGrants \/ TeamExpires \/ TeamContinues \/ TeamAnswersContinuation

Frame == Chat \/ StopCrossesSync \/ StopPaused \/ StopQueued \/ StopChat \/ Sync \/ HumanResponse

Delivery ==
  \/ Slot \/ Continue \/ SubmitTeamTurn \/ TurnStep \/ TurnResponse \/ StopAwaited \/ DeliverTurn
  \/ BindChallenge \/ ShowChallenge \/ TurnTerminal \/ Release

Stopping == StopAsked \/ StopAnswered \/ StopTerminal

Syncing ==
  \/ SyncObserves \/ SyncReads \/ SyncEmpty \/ SyncHuman \/ SyncSubmits \/ SyncStep \/ SyncAnswered
  \/ ConcludeIntegration \/ ConcludeHuman \/ SyncTerminal

EndingRun == EndRun \/ CloseStops \/ CloseAborts \/ CloseAsks \/ RunEnds

Step ==
  \/ TeamNext \/ Frame \/ Delivery \/ Stopping \/ Syncing \/ EndingRun \/ Crash
  \/ \E t \in DOMAIN calls : SweepDelivers(t) \/ SweepRevokes(t)

(* A Stop names the Team and no turn.  So it may be of another turn than was meant when a  *)
(* message begins a turn beside an earlier one's work or Stop, and of none when Team       *)
(* answers it before the turn's request, which is on its way, has come.                    *)
OnItsWay(t) == t # NoTurn /\ calls[t].at \in {"waiting", "sent"}
Crosses ==
  \/ Turns' # Turns /\ (stop.at # "none" \/ \E t \in DOMAIN calls : calls[t].owner # "none")
  \/ stop.at = "team" /\ stop'.at # "team" /\ OnItsWay(stop.turn)
  \/ ender.at = "team" /\ ender'.at # "team" /\ OnItsWay(active.turn)

Next == Step /\ crossed' = (crossed \/ Crosses)

(* Every task goes on, and Team answers what it was asked.                                 *)
Fairness ==
  /\ WF_vars(Delivery) /\ WF_vars(Stopping) /\ WF_vars(Syncing) /\ WF_vars(EndingRun)
  /\ WF_vars(TeamContinues) /\ WF_vars(TeamAnswersContinuation)
  /\ WF_vars(\E t \in DOMAIN calls : CallSent(t) \/ TeamStarts(t) \/ TeamAnswers(t))

Spec == Init /\ [][Next]_allVars /\ Fairness

-----------------------------------------------------------------------------
(* The challenge a page is asked to answer, as long as Team waits for it.                  *)
Asked == conn.ch # 0 /\ ~conn.closed /\ team.at = "paused" /\ team.ch = conn.ch

(* The answer to what a page is asked, and Team still waits for, has a turn of the history *)
(* to be kept under: the one the run knows of is the Team's resumable turn (challenge.rs,  *)
(* sync.rs, terminal.rs).  That is so unless turns crossed.                                *)
ShownIsBound == Asked => conn.pending # NoTurn /\ BoundTo(hist, T) = conn.pending

(* The Team's resumable turn is given up only when Team no longer waits for anything of    *)
(* it: a Stop that failed, a sync that could not read, a run that ends and a crash all     *)
(* leave it (stop.rs, sync.rs, mod.rs), unless turns crossed.                              *)
GivesUp(t) == BoundTo(hist, T) = t /\ BoundTo(hist, T)' # t
BoundUntilEnded ==
  [][crossed' \/ \A t \in DOMAIN calls : GivesUp(t) => ~(team'.at = "paused" /\ team'.turn = t)]_allVars

(* The receipt a reply keeps is of its own turn, its steps in the order of their segments  *)
(* (progress.rs).                                                                          *)
ReceiptOfTurn ==
  \A i \in DOMAIN hist.rows :
    LET row == hist.rows[i]
    IN row.suffix = "reply" =>
         /\ \A n \in DOMAIN row.body.receipt : row.body.receipt[n].of = row.turn
         /\ \A m, n \in DOMAIN row.body.receipt :
              m < n => row.body.receipt[m].segment < row.body.receipt[n].segment

(* A sync or an answer that is over was answered with something a page sees, unless the    *)
(* run closed (sync.rs, human.rs).                                                         *)
EverySyncAnswered == sync.at = "none" => conn.answered \/ conn.closed

(* A run's turn, sync and end are over at last: Stop and the next message find it free     *)
(* (stop.rs, turn.rs, sync.rs).                                                            *)
WorkEnds == (active.turn # NoTurn \/ sync.at # "none") ~> (active.turn = NoTurn /\ sync.at = "none")

(* What a page is asked of a turn, unless turns crossed, and what it is shown of one is of  *)
(* the turn it belongs to, and every sync is answered.                                     *)
PauseKept == (crossed \/ ShownIsBound) /\ ReceiptOfTurn /\ EverySyncAnswered

-----------------------------------------------------------------------------
(* What the documentation says, and the code does not do.                                  *)

(* delivery/challenge.rs:1 "Commits and projects one Team-owned chat challenge: its turn   *)
(* becomes the Team's resumable turn first": a sync reads the resumable turn, then Team's   *)
(* challenge, which may be of an earlier turn that was shown as stopped and ran after all. *)
ShownUnderItsTurn == Asked => conn.pending = team.turn

(* The two properties above when turns may cross: a crash leaves a turn that goes on in    *)
(* Team beside the next, a sync shows what the next one asks under the first, a Stop of    *)
(* one is answered with the end of the other.                                              *)
ShownAlwaysBound == ShownIsBound
BoundAlways ==
  [][\A t \in DOMAIN calls : GivesUp(t) => ~(team'.at = "paused" /\ team'.turn = t)]_allVars

(* socket/stop.rs:1 "a running one is stopped in Team on its own bounded lane, and its turn *)
(* ends as stopped only when Team confirmed it": a Stop after the check of                 *)
(* continue_team_turn and before it names the operation "chat" ends a turn that waits,     *)
(* whose send is under way.                                                                *)
StoppedIsStopped ==
  \A i \in DOMAIN hist.rows :
    LET row == hist.rows[i]
    IN row.suffix = "status" /\ row.body.kind = "stopped" => ~(team.at = "running" /\ team.turn = row.turn)
=============================================================================
