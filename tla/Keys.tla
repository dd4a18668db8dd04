-------------------------------- MODULE Keys --------------------------------
(***************************************************************************)
(* The rotation of the Supervisor's signing key (space/supervisor_key.rs,  *)
(* record/identity.rs, supervisor/identity.rs).                            *)
(*                                                                         *)
(* Three copies of the key change at three places and times: the record    *)
(* keeps the current key and, while a rotation is open, the pending one;   *)
(* Team pins one key; a file publishes the current one.  A page's request  *)
(* and the retry task settle the same rotation under one lock that each    *)
(* holds across its calls to Team and its transaction, and that a request  *)
(* gives up between settling the open rotation and beginning its own.      *)
(* Any answer of Team may be lost, after Team switched too; the journal,   *)
(* the publication and the process may fail between any two steps.         *)
(*                                                                         *)
(* Keys are numbered as they are made.  Team (external) switches its pin   *)
(* only for a request signed by the pinned key, refuses any other signer   *)
(* with 403 or 409, and confirms the key it pins; a request whose answer   *)
(* is given up on has reached Team by then or never does.                  *)
(***************************************************************************)
EXTENDS Naturals

CONSTANTS Page,       \* pages that may ask for a rotation
          MaxKey,     \* bound: keys made in all
          MaxFaults,  \* bound: lost answers, refused journals and failed publications
          MaxCrashes  \* bound: restarts of the process

ASSUME KeysAssumption ==
  /\ MaxKey \in Nat \ {0} /\ MaxFaults \in Nat /\ MaxCrashes \in Nat
  /\ "retry" \notin Page /\ "nobody" \notin Page

VARIABLES
  record,    \* supervisor_signing_key, and supervisor_pending_signing_key (0: absent)
  pin,       \* the key Team verifies under
  file,      \* the published key
  made,      \* keys made so far
  held,      \* who holds the rotation lock
  task,      \* where each page's request and the retry task are
  woken,     \* the permit notify_one left for the retry task
  faults,    \* bound
  crashes    \* bound

keyVars == <<record, pin, file, made, held, task, woken, faults, crashes>>

Actor == Page \cup {"retry"}
NoOne == "nobody"
NoKey == 0

(* A task: where it is, the pending key resolve read, the key it signs with, and whether   *)
(* its resolve is the one after begin.                                                     *)
Idle == [at |-> "idle", new |-> NoKey, signer |-> NoKey, begun |-> FALSE]

(* start_recovery: the retry task's first attempt comes at once.                           *)
AtStart == [a \in Actor |-> IF a = "retry" THEN [Idle EXCEPT !.at = "resolve"] ELSE Idle]

Go(a, t) == task' = [task EXCEPT ![a] = t]

(* One more fault.                                                                         *)
Fault == faults < MaxFaults /\ faults' = faults + 1

KeysInit ==
  /\ record = [current |-> 1, pending |-> NoKey]
  /\ pin = 1 /\ file = 1 /\ made = 1
  /\ held = NoOne
  /\ task = AtStart
  /\ woken = FALSE /\ faults = 0 /\ crashes = 0

-----------------------------------------------------------------------------
(* rotate_supervisor_key: a page's request, which first settles an open rotation.          *)
Ask(p) ==
  /\ task[p].at = "idle" /\ made < MaxKey
  /\ Go(p, [Idle EXCEPT !.at = "resolve"])
  /\ UNCHANGED <<record, pin, file, made, held, woken, faults, crashes>>

(* A bug: the retry task tries again only when it is woken.                                *)
RetryWhenWoken ==
  /\ task["retry"].at = "idle" /\ woken
  /\ woken' = FALSE
  /\ Go("retry", [Idle EXCEPT !.at = "resolve"])
  /\ UNCHANGED <<record, pin, file, made, held, faults, crashes>>

(* The retry task's next attempt: RETRY has passed, or a pending answer woke it.           *)
Retry ==
  /\ task["retry"].at = "idle"
  /\ woken' = FALSE
  /\ Go("retry", [Idle EXCEPT !.at = "resolve"])
  /\ UNCHANGED <<record, pin, file, made, held, faults, crashes>>

(* Where rotate goes when its resolve ended with this outcome: a request begins a rotation *)
(* of its own once none is open any more, and is answered otherwise; the retry task waits. *)
Ended(a, outcome) ==
  IF a \in Page /\ ~task[a].begun /\ outcome \in {"none", "abandoned"}
  THEN [Idle EXCEPT !.at = "begin"] ELSE Idle

(* A page that is told pending wakes the retry task.                                       *)
Answered(a, outcome) ==
  /\ Go(a, Ended(a, outcome))
  /\ woken' = (woken \/ (a \in Page /\ outcome = "pending"))

(* resolve releases the lock as it returns.                                                *)
Return(a, outcome) == held' = NoOne /\ Answered(a, outcome)

(* resolve: takes the lock and reads both keys.                                            *)
Resolve(a) ==
  /\ task[a].at = "resolve" /\ held = NoOne
  /\ IF record.pending = NoKey
     THEN Answered(a, "none") /\ UNCHANGED held
     ELSE /\ held' = a
          /\ Go(a, [task[a] EXCEPT !.at = "ask", !.new = record.pending, !.signer = record.current])
          /\ UNCHANGED woken
  /\ UNCHANGED <<record, pin, file, made, faults, crashes>>

(* Team's possible answers to a request of this signer to pin this key, each with the pin  *)
(* it leaves (external).                                                                   *)
TeamAnswers(signer, new) ==
  IF signer # pin THEN {<<"forbidden", pin>>}
  ELSE {<<"switched", new>>} \cup (IF new = pin THEN {} ELSE {<<"forbidden", pin>>, <<"refused", pin>>})

(* switched: what an answer decides.                                                       *)
Switched(answer) ==
  CASE answer = "switched" -> "adopt"
    [] answer \in {"forbidden", "refused"} -> "abandon"

(* A bug: the refusal of the earlier key is taken for Team's decision.                     *)
DecidedAtOnce(t, answer) == [t EXCEPT !.at = Switched(answer)]

(* resolve once ask_team answered: a key Team forbids asks again under the new key, which  *)
(* Team accepts when it had switched already.                                              *)
Decided(t, answer) ==
  IF answer = "forbidden" /\ t.signer # t.new
  THEN [t EXCEPT !.signer = t.new]
  ELSE [t EXCEPT !.at = Switched(answer)]

(* ask_team, and Team's answer.                                                            *)
AskTeam(a) ==
  /\ task[a].at = "ask"
  /\ \E reply \in TeamAnswers(task[a].signer, task[a].new) :
       pin' = reply[2] /\ Go(a, Decided(task[a], reply[1]))
  /\ UNCHANGED <<record, file, made, held, woken, faults, crashes>>

(* The answer is lost, or decides nothing (5xx, another key): Team may have switched.      *)
Unanswered(a) ==
  /\ task[a].at = "ask" /\ Fault
  /\ pin' \in {pin} \cup {reply[2] : reply \in TeamAnswers(task[a].signer, task[a].new)}
  /\ Return(a, "pending")
  /\ UNCHANGED <<record, file, made, crashes>>

(* A bug: the pending key is removed before it is made current.                            *)
SettledSwapped(r, new, adopt) ==
  LET cleared == [r EXCEPT !.pending = NoKey]
  IN [cleared EXCEPT !.current = IF adopt THEN cleared.pending ELSE @]

(* settle_rotation: only the rotation it asked about is settled.                           *)
Settled(r, new, adopt) ==
  IF r.pending # new THEN r
  ELSE [current |-> IF adopt THEN new ELSE r.current, pending |-> NoKey]

(* adopt: the new key becomes current; its publication follows.                            *)
Adopt(a) ==
  /\ task[a].at = "adopt"
  /\ record' = Settled(record, task[a].new, TRUE)
  /\ Go(a, [task[a] EXCEPT !.at = "publish"])
  /\ UNCHANGED <<pin, file, made, held, woken, faults, crashes>>

(* abandon: the pending key is dropped.                                                    *)
Abandon(a) ==
  /\ task[a].at = "abandon"
  /\ record' = Settled(record, task[a].new, FALSE)
  /\ Return(a, "abandoned")
  /\ UNCHANGED <<pin, file, made, faults, crashes>>

(* The journal refuses the transaction: both keys stay.                                    *)
SettleRefused(a) ==
  /\ task[a].at \in {"adopt", "abandon"} /\ Fault
  /\ Return(a, "failed")
  /\ UNCHANGED <<record, pin, file, made, crashes>>

(* materialize, of the key that was adopted; a failure leaves the earlier copy.            *)
Publish(a) ==
  /\ task[a].at = "publish"
  /\ \/ file' = task[a].new /\ UNCHANGED faults
     \/ Fault /\ UNCHANGED file
  /\ Return(a, "rotated")
  /\ UNCHANGED <<record, pin, made, crashes>>

(* begin_supervisor_key_rotation: one rotation at a time.                                  *)
Begun(r, new) == [r EXCEPT !.pending = IF r.pending = NoKey THEN new ELSE r.pending]

(* rotate, once no rotation is open: saves a new key, journaled first.                     *)
Begin(p) ==
  /\ task[p].at = "begin"
  /\ \/ /\ made < MaxKey
        /\ made' = made + 1
        /\ record' = Begun(record, made + 1)
        /\ Go(p, IF record'.pending = made + 1
                 THEN [Idle EXCEPT !.at = "resolve", !.begun = TRUE] ELSE Idle)
        /\ UNCHANGED faults
     \/ Fault /\ Go(p, Idle) /\ UNCHANGED <<record, made>>
  /\ UNCHANGED <<pin, file, held, woken, crashes>>

(* A bug: every start publishes the newest key of the record.                              *)
PublishedNewest(r) == IF r.pending = NoKey THEN r.current ELSE r.pending

(* publish: every start publishes the current key.                                         *)
Published(r) == r.current

(* The process ends and starts again; its retry task resolves at once.                     *)
Restart ==
  /\ crashes < MaxCrashes
  /\ crashes' = crashes + 1
  /\ \/ file' = Published(record) /\ UNCHANGED faults
     \/ Fault /\ UNCHANGED file
  /\ held' = NoOne /\ woken' = FALSE
  /\ task' = AtStart
  /\ UNCHANGED <<record, pin, made>>

Settle(a) ==
  \/ Resolve(a) \/ AskTeam(a) \/ Unanswered(a) \/ Adopt(a) \/ Abandon(a) \/ SettleRefused(a) \/ Publish(a)

KeysStep ==
  \/ \E p \in Page : Ask(p) \/ Begin(p)
  \/ \E a \in Actor : Settle(a)
  \/ Retry

-----------------------------------------------------------------------------
Key == 1..MaxKey
KeyOrNone == 0..MaxKey

KeysTypeOK ==
  /\ record \in [current : Key, pending : KeyOrNone]
  /\ pin \in Key /\ file \in Key /\ made \in Key
  /\ held \in Actor \cup {NoOne}
  /\ task \in [Actor -> [at : {"idle", "resolve", "ask", "adopt", "abandon", "publish", "begin"},
                         new : KeyOrNone, signer : KeyOrNone, begun : BOOLEAN]]
  /\ woken \in BOOLEAN /\ faults \in 0..MaxFaults /\ crashes \in 0..MaxCrashes

(* Whatever is lost, refused or cut off, the record holds the key Team pins, as the current *)
(* or as the pending one: Admin never loses the means to speak to Team                     *)
(* (supervisor_key.rs: resolve, adopt, abandon).                                           *)
HoldsPinnedKey == pin \in {record.current, record.pending}

(* The published copy may lag behind the record and never leads it: it is a key that Team  *)
(* pinned, never one that may still be abandoned (adopt publishes after its transaction).  *)
PublishedLags == file <= record.current /\ file # record.pending

(* A key Admin no longer signs with is not Team's for ever: once Team switched, the retry   *)
(* task brings the record after it (retry, start_recovery).                                *)
RecordCatchesUp == (record.current # pin) ~> (record.current = pin)
=============================================================================
