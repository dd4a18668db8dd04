--------------------------- MODULE BrowserSignIn ---------------------------
(***************************************************************************)
(* The sign-in sessions of a Team's Browser (team/sign_ins.rs, team/       *)
(* methods.rs): a Supervisor session starts one, saves or cancels it, and  *)
(* when that Supervisor session ends Admin cancels it.  Every call is      *)
(* signed under the key of the record (Keys), so a rotation that Team has  *)
(* switched and Admin has not yet adopted refuses the calls meanwhile.     *)
(*                                                                         *)
(* Admin's memory of a sign-in session (Tracker) and Team's Browser change *)
(* at different times: a session ends while Team still starts the Browser, *)
(* after the last check and before the start is tracked, or by its age,    *)
(* which no listener hears; an answer of Team is lost, or is heard only    *)
(* after its Browser ended and the next one was answered; an earlier       *)
(* session's end is answered after a later one began.  One Team is         *)
(* modelled; a sign-in session is named by the number of its start.        *)
(***************************************************************************)
EXTENDS Keys

CONSTANTS Session,   \* Supervisor sessions
          MaxStarts  \* bound: sign-in sessions asked for

ASSUME SignInsAssumption == MaxStarts \in Nat

VARIABLES
  live,    \* Supervisor sessions that are current
  starts,  \* every start: where it is, its session, the key its Team handle signs with
  count,   \* starts so far
  running, \* Tracker: the running sign-in session Admin tracks for the Team (0: none)
  browser, \* Team: the sign-in session its Browser runs (0: none)
  displaced \* history: sessions that ran when the answer about another took their place in the Tracker

signVars == <<live, starts, count, running, browser, displaced>>
vars == <<keyVars, signVars>>

None == 0
Start == 1..MaxStarts
Unused == [at |-> "unused", by |-> None, key |-> NoKey, revoked |-> FALSE]

SignInsInit ==
  /\ live = Session
  /\ starts = [n \in Start |-> Unused]
  /\ count = 0 /\ running = None /\ browser = None /\ displaced = {}

Init == KeysInit /\ SignInsInit

Move(n, s) == starts' = [starts EXCEPT ![n] = s]

(* A start Admin is done with, or only has to cancel.                                      *)
Past(at) == [Unused EXCEPT !.at = at]
Cancelling(n) == [Unused EXCEPT !.at = "cancelling", !.by = starts[n].by]

-----------------------------------------------------------------------------
(* sign_in_start: the lane's last check of the session, and the Team handle of the current *)
(* signing identity.                                                                       *)
Admit(s) ==
  /\ s \in live /\ count < MaxStarts
  /\ count' = count + 1
  /\ Move(count + 1, [at |-> "admitted", by |-> s, key |-> record.current, revoked |-> FALSE])
  /\ UNCHANGED <<live, running, browser, displaced, keyVars>>

(* start_under: tracked before Team is asked.                                              *)
Track(n) ==
  /\ starts[n].at = "admitted"
  /\ Move(n, [starts[n] EXCEPT !.at = "starting"])
  /\ UNCHANGED <<live, count, running, browser, displaced, keyVars>>

(* Team starts the Browser for the key it pins, while no other sign-in session runs        *)
(* (external).                                                                             *)
Admissible(n) == starts[n].key = pin /\ browser = None

(* Team started the session, and its answer is on its way (external).                      *)
TeamStarts(n) ==
  /\ starts[n].at = "starting" /\ Admissible(n)
  /\ browser' = n
  /\ Move(n, [starts[n] EXCEPT !.at = "started", !.key = NoKey])
  /\ UNCHANGED <<live, count, running, displaced, keyVars>>

(* start_under once Team answered: one revoked meanwhile is cancelled, any other becomes   *)
(* the Team's running one, whichever Admin tracked before and whether it still runs.       *)
Started(n) ==
  /\ starts[n].at = "started"
  /\ IF starts[n].revoked
     THEN Move(n, Cancelling(n)) /\ UNCHANGED <<running, displaced>>
     ELSE /\ Move(n, [starts[n] EXCEPT !.at = "running"])
          /\ running' = n /\ displaced' = displaced \cup ({running} \cap {browser} \cap Start)
  /\ UNCHANGED <<live, count, browser, keyVars>>

(* Team refuses the start, the request does not reach it, or the answer is lost: nothing   *)
(* tracked changes.                                                                        *)
NotStarted(n) ==
  /\ \/ starts[n].at = "starting" /\ ~Admissible(n) /\ UNCHANGED faults
     \/ starts[n].at \in {"starting", "started"} /\ Fault
  /\ Move(n, Past("untracked"))
  /\ UNCHANGED <<live, count, running, browser, displaced, record, pin, file, made, held, task, woken, crashes>>

(* Team ends the session a call names.                                                     *)
Ends(n) == browser' = IF browser = n THEN None ELSE browser

(* sign_in.save and sign_in.cancel: Team ended it, or answers that it no longer runs.      *)
Finish(n) ==
  /\ starts[n].at = "running" /\ starts[n].by \in live /\ record.current = pin
  /\ Ends(n)
  /\ Move(n, [starts[n] EXCEPT !.at = "finished"])
  /\ UNCHANGED <<live, count, running, displaced, keyVars>>

(* A bug: the end of any session of the Team clears what is tracked.                       *)
FinishedAny(n) == None

(* Tracker::finished: only the same session is forgotten.                                  *)
Finished(n) == IF running = n THEN None ELSE running

(* sign_in_finish, once Team answered.                                                     *)
FinishAnswered(n) ==
  /\ starts[n].at = "finished"
  /\ running' = Finished(n)
  /\ Move(n, Past("over"))
  /\ UNCHANGED <<live, count, browser, displaced, keyVars>>

(* Team ends a sign-in session by itself: its limit, or the Browser went away (external).  *)
BrowserEnds ==
  /\ browser # None /\ browser' = None
  /\ UNCHANGED <<live, starts, count, running, displaced, keyVars>>

(* The Tracker's list of starts that wait for Team's answer.                               *)
IsStarting(n) == starts[n].at \in {"starting", "started"}

(* Tracker::revoke: a running session of an ended one is taken out and cancelled apart; a  *)
(* starting one is marked.                                                                 *)
Revoke(ended) ==
  /\ running' = IF running # None /\ starts[running].by \in ended THEN None ELSE running
  /\ starts' = [n \in Start |->
       CASE starts[n].by \in ended /\ IsStarting(n) -> [starts[n] EXCEPT !.revoked = TRUE]
         [] starts[n].by \in ended /\ n = running -> Cancelling(n)
         [] OTHER -> starts[n]]

(* A Supervisor session ends: the tracker's listener hears it (listen, sessions_ended).    *)
SessionEnds(s) ==
  /\ s \in live
  /\ live' = live \ {s}
  /\ Revoke({s})
  /\ UNCHANGED <<count, browser, displaced, keyVars>>

(* A Supervisor session is over by its age: no listener hears it.                          *)
SessionLapses(s) ==
  /\ s \in live
  /\ live' = live \ {s}
  /\ UNCHANGED <<starts, count, running, browser, displaced, keyVars>>

(* Tracker::tracked, and the ones whose authority is no longer current.                    *)
Lapsed == {n \in Start : (IsStarting(n) \/ n = running) /\ starts[n].by \notin live}

(* run_sweep: every SWEEP, the tracked authorities are checked again by the full rule.     *)
Sweep ==
  /\ \E n \in Lapsed : ~starts[n].revoked
  /\ Revoke({starts[n].by : n \in Lapsed})
  /\ UNCHANGED <<live, count, browser, displaced, keyVars>>

(* A bug: any answer of Team, a refusal too, ends the deliveries of the Cancel.            *)
CancelDelivered == TRUE

(* cancel_ended takes only Team's confirmation, or that the session no longer runs; a      *)
(* signature Team refuses is neither, and the Cancel is asked again.                       *)
Delivered == record.current = pin

(* cancel_ended: one delivery, signed under the identity of that moment.                   *)
CancelEnded(n) ==
  /\ starts[n].at = "cancelling" /\ Delivered
  /\ IF record.current = pin THEN Ends(n) ELSE UNCHANGED browser
  /\ Move(n, Past("over"))
  /\ UNCHANGED <<live, count, running, displaced, keyVars>>

(* The process starts again: its sessions and its tracker are gone.                        *)
Reborn ==
  /\ Restart
  /\ live' = {}
  /\ running' = None /\ displaced' = {}
  /\ starts' = [n \in Start |-> IF starts[n].at = "unused" THEN Unused ELSE Past("untracked")]
  /\ UNCHANGED <<count, browser>>

(* What a start, its end's answer or its Cancel does next without a page.                  *)
StartStep(n) == Track(n) \/ TeamStarts(n) \/ Started(n) \/ NotStarted(n) \/ FinishAnswered(n) \/ CancelEnded(n)

(* What a page's request or the retry task does next.                                      *)
TaskStep(a) == Settle(a) \/ (a \in Page /\ Begin(a)) \/ (a = "retry" /\ Retry)

Next ==
  \/ KeysStep /\ UNCHANGED signVars
  \/ Reborn
  \/ \E s \in Session : Admit(s) \/ SessionEnds(s) \/ SessionLapses(s)
  \/ \E n \in Start : StartStep(n) \/ Finish(n)
  \/ BrowserEnds
  \/ Sweep

(* The retry task, the sweep and the deliveries of a Cancel are timed loops of the process; *)
(* what a request began goes on.  Team's own limit is not relied on.                       *)
Fairness ==
  /\ \A a \in Actor : WF_vars(TaskStep(a) /\ UNCHANGED signVars)
  /\ \A n \in Start : WF_vars(StartStep(n))
  /\ WF_vars(Sweep)

Spec == Init /\ [][Next]_vars /\ Fairness

-----------------------------------------------------------------------------
TypeOK ==
  /\ KeysTypeOK
  /\ live \subseteq Session
  /\ starts \in [Start -> [at : {"unused", "admitted", "starting", "started", "running", "finished", "cancelling",
                                 "over", "untracked"},
                           by : Session \cup {None}, key : KeyOrNone, revoked : BOOLEAN]]
  /\ count \in 0..MaxStarts /\ running \in 0..MaxStarts /\ browser \in 0..MaxStarts /\ displaced \subseteq Start

(* "Each Team's running sign-in session" is what Tracker keeps (sign_ins.rs:81): one whose  *)
(* start was answered and whose end was not is tracked while it runs.  The code does not   *)
(* keep it: start_under inserts an answer whenever it comes.                               *)
TracksRunning ==
  \A n \in Start : starts[n].at = "running" /\ browser = n => running = n

(* What holds is that nothing but such an answer, about a session whose Browser had ended,  *)
(* makes Admin forget the one that runs: no other session's end, late answer about an end, *)
(* refused start or revocation does (finished, start_under, revoke).                       *)
KnownIsTracked ==
  \A n \in Start : starts[n].at = "running" /\ browser = n => running = n \/ n \in displaced

(* "When that session ends, Admin cancels it": a sign-in session started for a Supervisor  *)
(* session that is over comes to its end at Team, whichever way the session ended and      *)
(* whatever the key rotation is doing, unless Admin never heard of its start, restarted,   *)
(* or heard late of another (sign_ins.rs: revoke, run_sweep, cancel_ended, start_under).   *)
EndedSessionIsCancelled ==
  \A n \in Start :
    (browser = n /\ starts[n].by \notin live) ~> (browser # n \/ starts[n].at = "untracked" \/ n \in displaced)

(* Admin, Team and the pages agree on the key: the key held is the one Team pins, what is   *)
(* published is no newer, and Admin forgets no sign-in but for a late answer.              *)
KeysAgree == TypeOK /\ HoldsPinnedKey /\ PublishedLags /\ KnownIsTracked
=============================================================================
