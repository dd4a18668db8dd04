---------------------------- MODULE DurableTurns ----------------------------
(***************************************************************************)
(* Durable chat turns (ADR-0125), backend/src/chat/durable and the runs in *)
(* backend/src/chat/socket that own them: a turn is recorded before Team   *)
(* is sent it; its run, or the sweep once no run owns it, commits its      *)
(* ending to the history and tells Team it was delivered; then its record  *)
(* goes. Admin may die at any step: records and history stay, the runs,    *)
(* the sessions and the set of owned turns do not.                         *)
(*                                                                         *)
(* A turn is one send: one nonce, one history turn, one session. Turns are *)
(* of different Teams, so they meet only in turns.json and in the sweep,   *)
(* which settles one at a time. Each section the code runs under one lock, *)
(* each history write and each answer of Team is one step.                 *)
(***************************************************************************)
EXTENDS Naturals, FiniteSets

CONSTANTS Turns,         \* the sends
          NoTurn,        \* no send
          MaxTurns,      \* MAX_TURNS: the records Admin keeps at once
          MaxRestarts    \* how often Admin dies

ASSUME TurnsAssumption ==
  /\ IsFiniteSet(Turns) /\ NoTurn \notin Turns
  /\ MaxTurns \in Nat /\ MaxRestarts \in Nat

VARIABLES
  \* durable
  kept,       \* turns.json: the turns recorded and not yet removed
  ended,      \* those whose grant ended: marked revoked, past a deadline, or
              \* of a session secret or an Origin that is no longer admitted
  reply,      \* each turn's reply row
  status,     \* each turn's status row
  bound,      \* the turns bound as their Team's resumable turn
  \* this process
  owned,      \* Turns.owned
  run,        \* where each turn's run is
  answer,     \* what each run has to deliver
  sweep,      \* where the sweep is
  todo,       \* the records it read and has not settled yet
  turn,       \* the one it settles
  resent,     \* what sending it again came to
  \* the sessions
  live,       \* the turns whose session is current in this process
  \* Team, and the way to it
  inFlight,   \* the turns a request to run is on its way for
  team,       \* Team's journal of each turn
  restarts

durable == <<kept, ended>>
history == <<reply, status, bound>>
sweeping == <<sweep, todo, turn, resent>>
outside == <<inFlight, team>>
turnsVars == <<durable, history, owned, run, answer, sweeping, live, outside, restarts>>

(* What Team keeps of a turn that ended, until it is told of its delivery. *)
Kept == {"done", "error", "challenge", "stopped"}
Journal == {"none", "running", "delivered", "revoked"} \cup Kept
Settled == {"delivered", "revoked"}

(* The status rows that end a turn. Only Team's own error is the same one  *)
(* whoever commits it. "local" is the run's own failure: no lane, no slot, *)
(* an unconfirmed Stop, no Team; "busy" and "refused" are made of a turn   *)
(* Team did not run; "ended" is the sweep's 403.                           *)
Statuses == {"stopped", "error", "local", "busy", "refused", "ended"}

RunAt == {"idle", "submit", "own", "pending", "sent", "resting", "deliver",
          "settle", "removed", "cancelled", "stopping", "release",
          "aborted", "refused", "closing", "over"}
Underway == {"pending", "sent", "resting", "deliver"}
SweepAt == {"asleep", "filter", "next", "send", "wait", "commit", "tell", "telloff",
            "revoke", "check", "fail", "remove", "removed"}

TurnsInit ==
  /\ kept = {} /\ ended = {}
  /\ reply = [t \in Turns |-> "none"]
  /\ status = [t \in Turns |-> "none"]
  /\ bound = {}
  /\ owned = {}
  /\ run = [t \in Turns |-> "idle"]
  /\ answer = [t \in Turns |-> "none"]
  /\ sweep = "asleep" /\ todo = {} /\ turn = NoTurn /\ resent = "none"
  /\ live = Turns
  /\ inFlight = {} /\ team = [t \in Turns |-> "none"]
  /\ restarts = 0

RunGoes(t, place) == run' = [run EXCEPT ![t] = place]

-----------------------------------------------------------------------------
(* The history (history/store): one row per key, and a second commit of a  *)
(* row succeeds only when it is the same row. A reply carries the receipt  *)
(* of the steps its page was shown ("steps"), or none ("bare"). A write    *)
(* may always fail.                                                        *)

Written(t, what) ==
  CASE what = "challenge" -> /\ bound' = bound \cup {t}
                             /\ UNCHANGED <<reply, status>>
    [] what \in {"steps", "bare"} ->
                             /\ reply[t] \in {"none", what}
                             /\ reply' = [reply EXCEPT ![t] = what]
                             /\ bound' = bound \ {t}
                             /\ UNCHANGED status
    [] OTHER              -> /\ status[t] \in {"none", what}
                             /\ status' = [status EXCEPT ![t] = what]
                             /\ UNCHANGED <<reply, bound>>

(* deviation: not one transaction, the resumable state may end on its own *)
WrittenFinishFirst(t, what) ==
  IF what \in Statuses
  THEN /\ status[t] \in {"none", what}
       /\ status' \in {status, [status EXCEPT ![t] = what]}
       /\ bound' = bound \ {t}
       /\ UNCHANGED reply
  ELSE Written(t, what)

(* The same with finish: it also ends the turn's resumable state. *)
WrittenFinish(t, what) ==
  IF what \in Statuses
  THEN /\ status[t] \in {"none", what}
       /\ status' = [status EXCEPT ![t] = what]
       /\ bound' = bound \ {t}
       /\ UNCHANGED reply
  ELSE Written(t, what)

(* Store::ended: a reply or a status row. *)
HasEnding(t) == reply[t] # "none" \/ status[t] # "none"

(* How a run, or the sweep, keeps what Team ended the turn with. *)
RunKeeps(what) ==
  CASE what = "done" -> {"steps", "bare"}
    [] what \in {"stopped", "error"} -> {"error"}   \* chat-stopped is an error
    [] OTHER -> {what}
SweepKeeps(what) == IF what = "done" THEN {"bare"} ELSE RunKeeps(what)

-----------------------------------------------------------------------------
(* A turn's run: submit_team_turn and continue_team_turn.                  *)

(* Turns::record, the file: kept before anything is sent. *)
Record(t) ==
  /\ run[t] \in {"idle", "submit"}
  /\ t \in kept \/ Cardinality(kept) < MaxTurns
  /\ kept' = kept \cup {t}
  /\ RunGoes(t, "own")
  /\ UNCHANGED <<ended, history, owned, answer, sweeping, live, outside, restarts>>

(* It cannot be kept: no room, or the file cannot be written. *)
RecordRefused(t) ==
  /\ run[t] \in {"idle", "submit"}
  /\ RunGoes(t, "refused")
  /\ UNCHANGED <<durable, history, owned, answer, sweeping, live, outside, restarts>>

(* Turns::record, under the other lock; then the turn lane admits the job, *)
(* or is saturated.                                                        *)
Own(t, place) ==
  /\ run[t] = "own"
  /\ owned' = owned \cup {t}
  /\ RunGoes(t, place)
  /\ UNCHANGED <<durable, history, answer, sweeping, live, outside, restarts>>

(* The turn is sent: Team attaches a second send to the turn it has. *)
Sent(t) == inFlight' = IF team[t] = "none" THEN inFlight \cup {t} ELSE inFlight

(* A worker takes the job, which sends the turn. *)
Send(t) ==
  /\ run[t] = "pending"
  /\ Sent(t)
  /\ RunGoes(t, "sent")
  /\ UNCHANGED <<durable, history, owned, answer, sweeping, live, team, restarts>>

(* finish_active_turn with the run's own failure: the turn is not settled. *)
Refused(t) ==
  /\ run[t] = "refused"
  /\ Written(t, "local") \/ UNCHANGED history
  /\ RunGoes(t, "over")
  /\ UNCHANGED <<durable, owned, answer, sweeping, live, outside, restarts>>

(* Team answers with the terminal it keeps, or that it was settled. *)
Answered(t) ==
  /\ run[t] = "sent"
  /\ team[t] \in Kept \cup Settled
  /\ answer' = [answer EXCEPT ![t] = IF team[t] \in Kept THEN team[t] ELSE "local"]
  /\ RunGoes(t, "deliver")
  /\ UNCHANGED <<durable, history, owned, sweeping, live, outside, restarts>>

(* Team was not reached, or lost the turn's run: sent again, while the     *)
(* session is current; otherwise the failure is the answer.                *)
Unreached(t) ==
  /\ run[t] = "sent"
  /\ IF t \in live
     THEN RunGoes(t, "submit") /\ UNCHANGED answer
     ELSE RunGoes(t, "deliver") /\ answer' = [answer EXCEPT ![t] = "local"]
  /\ UNCHANGED <<durable, history, owned, sweeping, live, outside, restarts>>

(* space-busy: the run rests at the gate, then asks again. *)
SpaceBusy(t) ==
  /\ run[t] = "sent" /\ t \in inFlight /\ team[t] = "none"
  /\ inFlight' = inFlight \ {t}
  /\ RunGoes(t, "resting")
  /\ UNCHANGED <<durable, history, owned, answer, sweeping, live, team, restarts>>

Rested(t) ==
  /\ run[t] = "resting"
  /\ RunGoes(t, IF t \in live THEN "submit" ELSE "refused")
  /\ UNCHANGED <<durable, history, owned, answer, sweeping, live, outside, restarts>>

(* deviation: Team is told of an ending the history did not take *)
DeliverAnyway(t) ==
  /\ run[t] = "deliver"
  /\ (\E row \in RunKeeps(answer[t]) : Written(t, row)) \/ UNCHANGED history
  /\ RunGoes(t, "settle")
  /\ answer' = [answer EXCEPT ![t] = "none"]
  /\ UNCHANGED <<durable, owned, sweeping, live, outside, restarts>>

(* deliver_turn: Team is told only of an ending the history committed. A   *)
(* challenge that could not be bound fails the turn, if that can be kept.  *)
Deliver(t) ==
  /\ run[t] = "deliver"
  /\ \/ /\ \E row \in RunKeeps(answer[t]) : Written(t, row)
        /\ RunGoes(t, "settle")
     \/ /\ (answer[t] = "challenge" /\ Written(t, "local")) \/ UNCHANGED history
        /\ RunGoes(t, "release")
  /\ answer' = [answer EXCEPT ![t] = "none"]
  /\ UNCHANGED <<durable, owned, sweeping, live, outside, restarts>>

-----------------------------------------------------------------------------
(* settle_chat: what Team answers when it is told of a delivery or a       *)
(* revocation. "gone": it settled the turn, now or before, or knows none   *)
(* (404, 409); "failed": it was not reached, or its answer was lost.       *)
TeamSettles(t, as, told) ==
  \/ /\ told = "gone"
     /\ \/ team[t] \in {"none"} \cup Settled /\ UNCHANGED team
        \/ team[t] \notin Settled /\ team' = [team EXCEPT ![t] = as]
  \/ /\ told = "failed"
     /\ UNCHANGED team \/ (team[t] \notin Settled /\ team' = [team EXCEPT ![t] = as])

(* Turns::remove, the file. *)
Removed(t) == kept' = kept \ {t} /\ ended' = ended \ {t}

(* settled(), a task of its own: Turns::remove, or Turns::release (as for  *)
(* a failure, also when Team answers 404). When the file cannot be         *)
(* written, remove() returns before it releases.                           *)
Settle(t) ==
  /\ run[t] = "settle"
  /\ \/ /\ TeamSettles(t, "delivered", "gone")
        /\ \/ Removed(t) /\ RunGoes(t, "release")
           \/ UNCHANGED durable /\ RunGoes(t, "over")
     \/ /\ TeamSettles(t, "delivered", "failed")
        /\ UNCHANGED durable
        /\ RunGoes(t, "release")
  /\ UNCHANGED <<history, owned, answer, sweeping, live, inFlight, restarts>>

Release(t) ==
  /\ run[t] = "release"
  /\ owned' = owned \ {t}
  /\ RunGoes(t, "over")
  /\ UNCHANGED <<durable, history, answer, sweeping, live, outside, restarts>>

-----------------------------------------------------------------------------
(* Stop (socket/stop.rs), and the end of a run whose session ended.        *)

(* A job still in its lane is cancelled; a turn that rests has its task    *)
(* aborted; a turn that was sent is stopped in Team.                       *)
Stop(t) ==
  /\ run[t] \in {"pending", "resting", "sent"}
  /\ RunGoes(t, CASE run[t] = "pending" -> "cancelled"
                  [] run[t] = "resting" -> "aborted"
                  [] run[t] = "sent"    -> "stopping")
  /\ UNCHANGED <<durable, history, owned, answer, sweeping, live, outside, restarts>>

(* finish_cancelled_turn. A cancelled job's delivery then finds the turn   *)
(* ended, and releases it; an aborted one is gone.                         *)
Cancelled(t) ==
  /\ run[t] \in {"cancelled", "aborted"}
  /\ Written(t, "stopped") \/ UNCHANGED history
  /\ RunGoes(t, IF run[t] = "cancelled" THEN "release" ELSE "over")
  /\ UNCHANGED <<durable, owned, answer, sweeping, live, outside, restarts>>

(* run_stop: Team stopped it, did not confirm, or had nothing to stop. The *)
(* delivery then finds the turn ended, and releases it.                    *)
Stopped(t) ==
  /\ run[t] = "stopping"
  /\ \/ /\ \/ team[t] = "stopped" /\ WrittenFinish(t, "stopped")
           \/ Written(t, "local")
           \/ UNCHANGED history
        /\ RunGoes(t, "release")
     \/ /\ team[t] \notin {"running", "stopped"}
        /\ RunGoes(t, "sent") /\ UNCHANGED history
  /\ UNCHANGED <<durable, owned, answer, sweeping, live, outside, restarts>>

(* Run::end, close_connection: the delivery is aborted; one that had begun *)
(* to deliver may still write, one whose wait ended may release first.     *)
Close(t) ==
  /\ run[t] \in Underway /\ t \notin live
  /\ \/ run[t] = "deliver" /\ \E row \in RunKeeps(answer[t]) : Written(t, row)
     \/ run[t] = "deliver" /\ answer[t] = "challenge" /\ Written(t, "local")
     \/ UNCHANGED history
  /\ \/ run[t] \in {"pending", "sent"} /\ owned' = owned \ {t}
     \/ UNCHANGED owned
  /\ answer' = [answer EXCEPT ![t] = "none"]
  /\ RunGoes(t, "closing")
  /\ UNCHANGED <<durable, sweeping, live, outside, restarts>>

(* end_run: keeps how the turn ended. *)
Closed(t) ==
  /\ run[t] = "closing"
  /\ \/ team[t] # "running" /\ WrittenFinish(t, "stopped")
     \/ Written(t, "local")
     \/ UNCHANGED history
  /\ RunGoes(t, "over")
  /\ UNCHANGED <<durable, owned, answer, sweeping, live, outside, restarts>>

(* A session ends, and the listener marks its turns revoked -- unless the  *)
(* file cannot be written, or Admin dies first: nobody hears of that.      *)
SessionEnds(t) ==
  /\ t \in live /\ run[t] # "idle"
  /\ live' = live \ {t}
  /\ ended' = ended \cup ({t} \cap kept) \/ UNCHANGED ended
  /\ UNCHANGED <<kept, history, owned, run, answer, sweeping, outside, restarts>>

(* A deadline passes, the session secret changes, or an Origin goes. *)
GrantLapses(t) ==
  /\ t \in kept
  /\ ended' = ended \cup {t}
  /\ UNCHANGED <<kept, history, owned, run, answer, sweeping, live, outside, restarts>>

-----------------------------------------------------------------------------
(* The sweep (durable/reattach.rs).                                        *)

(* reattach::current: the turn may still be delivered. *)
Current(t) == t \in kept /\ t \notin ended

SweepGoes(place) == sweep' = place /\ UNCHANGED <<todo, turn, resent>>
SweepOnly == UNCHANGED <<owned, run, answer, live, restarts>>
SweepNext ==
  /\ sweep' = "next" /\ turn' = NoTurn /\ resent' = "none"
  /\ UNCHANGED todo

(* Turns::unowned reads the file under one lock ... *)
SweepReads ==
  /\ sweep = "asleep"
  /\ sweep' = "filter" /\ todo' = kept
  /\ UNCHANGED <<turn, resent, durable, history, outside>> /\ SweepOnly

(* ... and looks at who owns what under another. *)
SweepFilters ==
  /\ sweep = "filter"
  /\ sweep' = "next" /\ todo' = todo \ owned
  /\ UNCHANGED <<turn, resent, durable, history, outside>> /\ SweepOnly

SweepSleeps ==
  /\ sweep = "next" /\ todo = {}
  /\ sweep' = "asleep"
  /\ UNCHANGED <<todo, turn, resent, durable, history, outside>> /\ SweepOnly

(* settle(): revoked, or sent again. A record that was revoked when it was *)
(* read still is, or is gone: both are not current.                        *)
SweepTakes(t) ==
  /\ sweep = "next" /\ t \in todo
  /\ sweep' = IF Current(t) THEN "send" ELSE "revoke"
  /\ turn' = t /\ todo' = todo \ {t}
  /\ UNCHANGED <<resent, durable, history, outside>> /\ SweepOnly

SweepSends ==
  /\ sweep = "send"
  /\ Sent(turn)
  /\ SweepGoes("wait")
  /\ UNCHANGED <<durable, history, team>> /\ SweepOnly

(* Team cannot be reached, or lost the turn's run. *)
SweepUnsent ==
  /\ sweep \in {"send", "wait"}
  /\ SweepNext
  /\ UNCHANGED <<durable, history, outside>> /\ SweepOnly

(* lapsed(): its session ended, or its grant, while it was sent again. *)
SweepLapsed ==
  /\ sweep \in {"send", "wait"} /\ ~ Current(turn)
  /\ SweepGoes("revoke")
  /\ UNCHANGED <<durable, history, outside>> /\ SweepOnly

SweepHas(what) ==
  /\ Current(turn)
  /\ sweep' = "commit" /\ resent' = what
  /\ UNCHANGED <<todo, turn, durable, history, team>> /\ SweepOnly

(* Admin holds no provider key: the turn is refused before it is sent. *)
SweepRefused == sweep = "send" /\ SweepHas("refused") /\ UNCHANGED inFlight

(* Team's kept terminal; or space-busy, an answer like any other. *)
SweepAnswered == sweep = "wait" /\ team[turn] \in Kept /\ SweepHas(team[turn]) /\ UNCHANGED inFlight
SweepBusy ==
  /\ sweep = "wait" /\ turn \in inFlight /\ team[turn] = "none"
  /\ SweepHas("busy")
  /\ inFlight' = inFlight \ {turn}

(* turn-delivered: Team settled it already. *)
SweepSettled ==
  /\ sweep = "wait" /\ team[turn] \in Settled /\ Current(turn)
  /\ SweepGoes("remove")
  /\ UNCHANGED <<durable, history, outside>> /\ SweepOnly

SweepCommits ==
  /\ sweep = "commit"
  /\ \/ /\ \E row \in SweepKeeps(resent) : WrittenFinish(turn, row)
        /\ sweep' = IF resent = "refused" THEN "telloff" ELSE "tell"
        /\ resent' = "none"
        /\ UNCHANGED <<todo, turn>>
     \/ SweepNext /\ UNCHANGED history
  /\ UNCHANGED <<durable, outside>> /\ SweepOnly

(* settled(): a refused turn is revoked at Team, any other delivered. *)
SweepTells ==
  /\ sweep \in {"tell", "telloff"}
  /\ LET as == IF sweep = "tell" THEN "delivered" ELSE "revoked"
     IN  \/ TeamSettles(turn, as, "gone") /\ SweepGoes("remove")
         \/ TeamSettles(turn, as, "failed") /\ SweepNext
  /\ UNCHANGED <<durable, history, inFlight>> /\ SweepOnly

(* revoke(): Team first; any answer of Team but an unreached one will do. *)
SweepRevokes ==
  /\ sweep = "revoke"
  /\ \/ TeamSettles(turn, "revoked", "gone") /\ SweepGoes("check")
     \/ UNCHANGED team /\ SweepGoes("check")
     \/ TeamSettles(turn, "revoked", "failed") /\ SweepNext
  /\ UNCHANGED <<durable, history, inFlight>> /\ SweepOnly

(* deviation: a turn whose history holds its ending is left as it is *)
SweepChecksAlone ==
  /\ sweep = "check"
  /\ (~ HasEnding(turn) /\ SweepGoes("fail")) \/ SweepNext
  /\ UNCHANGED <<durable, history, outside>> /\ SweepOnly

SweepChecks ==
  /\ sweep = "check"
  /\ SweepGoes(IF HasEnding(turn) THEN "remove" ELSE "fail") \/ SweepNext
  /\ UNCHANGED <<durable, history, outside>> /\ SweepOnly

(* deviation: the record goes though the history did not take the failure *)
SweepFailsAnyway ==
  /\ sweep = "fail"
  /\ WrittenFinish(turn, "ended") \/ UNCHANGED history
  /\ SweepGoes("remove")
  /\ UNCHANGED <<durable, outside>> /\ SweepOnly

SweepFails ==
  /\ sweep = "fail"
  /\ \/ WrittenFinish(turn, "ended") /\ SweepGoes("remove")
     \/ SweepNext /\ UNCHANGED history
  /\ UNCHANGED <<durable, outside>> /\ SweepOnly

(* Turns::remove: the file, then the owner. *)
SweepRemoves ==
  /\ sweep = "remove"
  /\ \/ Removed(turn) /\ SweepGoes("removed")
     \/ SweepNext /\ UNCHANGED durable
  /\ UNCHANGED <<history, outside>> /\ SweepOnly

SweepReleases ==
  /\ sweep = "removed"
  /\ owned' = owned \ {turn}
  /\ SweepNext
  /\ UNCHANGED <<durable, history, run, answer, live, outside, restarts>>

-----------------------------------------------------------------------------
(* Team, as Admin uses it: it runs a turn once it has a request for it,    *)
(* keeps how it ended, may lose what runs, and stops what it is asked to.  *)
TeamGoes(t, from, to) ==
  /\ team[t] \in from
  /\ team' = [team EXCEPT ![t] = to]
  /\ UNCHANGED <<durable, history, owned, run, answer, sweeping, live, restarts>>

TeamStarts(t) == t \in inFlight /\ TeamGoes(t, {"none"}, "running") /\ inFlight' = inFlight \ {t}
TeamEnds(t, how) == TeamGoes(t, {"running"}, how) /\ UNCHANGED inFlight
TeamLoses(t) == TeamGoes(t, {"running"}, "none") /\ UNCHANGED inFlight
TeamStops(t) ==
  run[t] \in {"stopping", "closing"} /\ TeamGoes(t, {"running"}, "stopped") /\ UNCHANGED inFlight

(* Admin dies, and starts again: no session survives, every grant does.    *)
Restart ==
  /\ restarts < MaxRestarts
  /\ restarts' = restarts + 1
  /\ owned' = {}
  /\ run' = [t \in Turns |-> IF run[t] = "idle" THEN "idle" ELSE "over"]
  /\ answer' = [t \in Turns |-> "none"]
  /\ sweep' = "asleep" /\ todo' = {} /\ turn' = NoTurn /\ resent' = "none"
  /\ live' = {t \in live : run[t] = "idle"}
  /\ UNCHANGED <<durable, history, outside>>

Run(t) ==
  \/ Record(t) \/ RecordRefused(t)
  \/ Own(t, "pending") \/ Own(t, "refused") \/ Send(t) \/ Refused(t)
  \/ Answered(t) \/ Unreached(t) \/ SpaceBusy(t) \/ Rested(t)
  \/ Deliver(t) \/ Settle(t) \/ Release(t)
  \/ Cancelled(t) \/ Stopped(t) \/ Close(t) \/ Closed(t)

Sweep ==
  \/ SweepReads \/ SweepFilters \/ SweepSleeps
  \/ \E t \in Turns : SweepTakes(t)
  \/ SweepSends \/ SweepUnsent \/ SweepLapsed \/ SweepRefused
  \/ SweepAnswered \/ SweepBusy \/ SweepSettled
  \/ SweepCommits \/ SweepTells
  \/ SweepRevokes \/ SweepChecks \/ SweepFails
  \/ SweepRemoves \/ SweepReleases

Team(t) ==
  \/ TeamStarts(t) \/ \E how \in Kept \ {"stopped"} : TeamEnds(t, how)
  \/ TeamLoses(t) \/ TeamStops(t)

TurnsNext ==
  \/ \E t \in Turns : Run(t) \/ Stop(t) \/ Team(t)
  \/ \E t \in Turns : SessionEnds(t) \/ GrantLapses(t)
  \/ Sweep
  \/ Restart

TurnsSpec == TurnsInit /\ [][TurnsNext]_turnsVars

(* The sweep's task is polled and its timer fires; a grant has a deadline; *)
(* and Team and the disk do not fail every time they are tried.            *)
TurnsFairness ==
  /\ WF_turnsVars(Sweep)
  /\ \A t \in Turns :
        /\ WF_turnsVars(GrantLapses(t))
        /\ SF_turnsVars(SweepRevokes /\ turn = t /\ sweep' = "check")
        /\ SF_turnsVars(SweepChecks /\ turn = t /\ sweep' # "next")
        /\ SF_turnsVars(SweepFails /\ turn = t /\ sweep' = "remove")
        /\ SF_turnsVars(SweepRemoves /\ turn = t /\ sweep' = "removed")

TurnsFairSpec == TurnsSpec /\ TurnsFairness

-----------------------------------------------------------------------------
TurnsTypeOK ==
  /\ kept \subseteq Turns /\ Cardinality(kept) <= MaxTurns
  /\ ended \subseteq kept
  /\ reply \in [Turns -> {"none", "bare", "steps"}]
  /\ status \in [Turns -> {"none"} \cup Statuses]
  /\ bound \subseteq Turns /\ owned \subseteq Turns
  /\ run \in [Turns -> RunAt]
  /\ answer \in [Turns -> {"none", "local"} \cup Kept]
  /\ sweep \in SweepAt
  /\ todo \subseteq Turns
  /\ turn \in Turns \cup {NoTurn}
  /\ resent \in {"none", "busy", "refused"} \cup Kept
  /\ live \subseteq Turns
  /\ inFlight \subseteq Turns /\ team \in [Turns -> Journal]
  /\ restarts \in 0..MaxRestarts

(* Ended or paused where the person sees it. *)
Shown(t) == HasEnding(t) \/ t \in bound

(* A turn Team ever had stays recorded until the history shows how it      *)
(* ended, or that it is paused: whatever dies, fails or crosses, nobody's  *)
(* message disappears.                                                     *)
NothingLost == \A t \in Turns : team[t] # "none" => t \in kept \/ Shown(t)

(* Team drops what it keeps of a turn as delivered only once the history   *)
(* committed it.                                                           *)
DeliveredAfterCommit == \A t \in Turns : team[t] = "delivered" => Shown(t)

(* What the history shows of a turn -- how it ended, or that it is paused  *)
(* and can be resumed -- never disappears, whoever commits what after it.  *)
ShownStays == [][\A t \in Turns : Shown(t) => Shown(t)']_turnsVars

(* A record no run owns goes in the end, however often the sweep failed.   *)
RecordGoes == \A t \in Turns : t \in kept \ owned ~> t \notin kept \/ t \in owned

-----------------------------------------------------------------------------
(* What the documentation says, and the code does not do.                  *)

(* socket/turn.rs:146 "a turn whose ending is not committed, or Team could *)
(* not be told of, is left to the sweep": a turn whose run is over is not  *)
(* owned any more.                                                         *)
OwnedHasRun == \A t \in kept \cap owned : run[t] # "over"

(* history/store/rows.rs:1 "The rows of one chat turn: the person's        *)
(* message, then exactly one of its endings".                              *)
OneEnding == \A t \in Turns : ~ (reply[t] # "none" /\ status[t] # "none")

(* durable/reattach.rs:6 "idempotently: a commit repeated after a crash is *)
(* the same row": a reply the sweep commits again is the row that is kept. *)
SameRow ==
  sweep = "commit" /\ resent = "done" /\ reply[turn] # "none" => reply[turn] = "bare"

(* durable/mod.rs:2 "an Admin restart neither loses the turn": a turn that *)
(* Team did not run because the Space was busy is not ended by the sweep.  *)
BusyIsNoEnding == \A t \in Turns : status[t] # "busy"
=============================================================================
