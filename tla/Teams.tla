------------------------------- MODULE Teams --------------------------------
(***************************************************************************)
(* The Teams of a Space as Admin manages them: creation under a free id,   *)
(* renaming, deletion, the saved list order, the reset of the Space from a *)
(* page and from the host (team/{names,order,history,methods}.rs,          *)
(* team/bridge/mod.rs, space/{reset,host_reset}.rs), together with the     *)
(* transcripts those operations clear and the chat turns that write to     *)
(* them (history/delivery.rs).                                             *)
(*                                                                         *)
(* Two locks order them.  The order lock is held across a creation, a      *)
(* deletion, a reorder and a reset; the lifecycle lock across a deletion's *)
(* and a reset's call to Team and the clearing of the transcript, and      *)
(* across the admission of a message.  What a creation clears, it clears   *)
(* after both; a turn's later rows are written under neither.              *)
(*                                                                         *)
(* A Team id is reused: `life` numbers the Teams made, a ghost by which a  *)
(* position or a row of one Team is told from those of a later Team with   *)
(* its id.  Team (external) answers or the answer is lost; what a lost     *)
(* answer's request did, it did before Admin gives up on it.               *)
(***************************************************************************)
EXTENDS History

CONSTANTS Request,      \* requests served at the same time
          Name,         \* Team names
          Message,      \* how long a message is: "text" or "long"
          MaxSuffix,    \* MAX_ID_SUFFIX
          MaxReceived,  \* bound: requests received
          MaxTurns,     \* bound: messages admitted
          MaxMishaps,   \* bound: lost answers, failed writes and crashes
          None

ASSUME TeamsAssumption ==
  {MaxSuffix, MaxReceived, MaxTurns, MaxMishaps} \subseteq Nat /\ MaxSuffix > 0 /\ None \notin Request

VARIABLES
  team,       \* Team's inventory, newest first: [id, name, life]
  lives,      \* ghost: Teams made so far
  saved,      \* team-order.json: [id, life], the life being a ghost
  h,          \* the transcript store
  order,      \* who holds the order lock
  lifecycle,  \* who holds the lifecycle lock
  req,        \* where each request is
  turns,      \* the admitted turns: [id, life, open], open while a run may still write for it
  capability, \* the host's one-use capability: "projected" or "consumed"
  wiped,      \* ghost: the Spaces deleted by that capability
  received, mishaps  \* bounds

vars == <<team, lives, saved, h, order, lifecycle, req, turns, capability, wiped, received, mishaps>>

Idle == [at |-> "idle", kind |-> "none", id |-> None, name |-> None, n |-> 1, life |-> 0]

(* candidate_ids: the name's id, then its suffixed ids.                                    *)
CandidateIds(name) == [n \in 1..MaxSuffix |-> <<name, n>>]
Id == {CandidateIds(name)[n] : name \in Name, n \in 1..MaxSuffix}

Init ==
  /\ team = <<>> /\ lives = 0 /\ saved = <<>>
  /\ h = Empty
  /\ order = None /\ lifecycle = None
  /\ req = [r \in Request |-> Idle]
  /\ turns = <<>>
  /\ capability = "projected" /\ wiped = 0
  /\ received = 0 /\ mishaps = 0

Ids(entries) == {entries[i].id : i \in DOMAIN entries}
Of(teams, id) == Select(teams, LAMBDA t : t.id = id)
Entry(id) == Of(team, id)
Dropped(entries, id) == Select(entries, LAMBDA e : e.id # id)

Go(r, to) == req' = [req EXCEPT ![r].at = to]
Done(r) == req' = [req EXCEPT ![r] = Idle]
Mishap == mishaps < MaxMishaps /\ mishaps' = mishaps + 1

space == <<team, lives, saved, h>>
locks == <<order, lifecycle>>
chat == <<turns, capability, wiped>>

-----------------------------------------------------------------------------
(* Requests.                                                                               *)

Received(r, q) ==
  /\ req[r] = Idle /\ received < MaxReceived
  /\ received' = received + 1
  /\ req' = [req EXCEPT ![r] = q]
  /\ UNCHANGED <<space, locks, chat, mishaps>>

(* teams_create, teams_delete, teams_reorder: each waits for the order lock.  A reorder    *)
(* lists the Teams its page showed, in another order.                                      *)
TeamsCreate(r) == \E name \in Name : Received(r, [Idle EXCEPT !.at = "order", !.kind = "create", !.name = name])
TeamsDelete(r) ==
  \E id \in Ids(team), name \in Name : Received(r, [Idle EXCEPT !.at = "order", !.kind = "delete", !.id = id, !.name = name])
TeamsReorder(r) ==
  /\ team # <<>>
  /\ Received(r, [Idle EXCEPT !.at = "order", !.kind = "reorder", !.id = [i \in DOMAIN team |-> team[Len(team) + 1 - i].id]])

(* authenticated: the reset a page asks for.                                               *)
Authenticated(r) == Received(r, [Idle EXCEPT !.at = "order", !.kind = "reset"])

(* host_reset: refused while another one runs (the setup lock is only tried) and once the  *)
(* capability is consumed.                                                                 *)
HostReset(r) ==
  /\ \A q \in Request : req[q].kind # "host"
  /\ Received(r, [Idle EXCEPT !.at = "consume", !.kind = "host"])

(* admit: a message waits for the lifecycle lock only.                                     *)
Admit(r) ==
  /\ Len(turns) < MaxTurns /\ \A q \in Request : req[q].kind # "admit"
  /\ \E id \in Ids(team) : Received(r, [Idle EXCEPT !.at = "lifecycle", !.kind = "admit", !.id = id])

(* rename: one call to Team, under no lock; only the name changes.                         *)
Rename ==
  /\ received < MaxReceived
  /\ \E i \in DOMAIN team, name \in Name :
       /\ name # team[i].name
       /\ team' = [team EXCEPT ![i].name = name]
  /\ received' = received + 1
  /\ UNCHANGED <<lives, saved, h, locks, chat, req, mishaps>>

(* A bug: the capability is consumed when the reset is done.                               *)
ConsumeLater(r) ==
  /\ req[r].at = "consume"
  /\ IF capability = "projected" THEN Go(r, "order") ELSE Done(r)
  /\ UNCHANGED <<space, locks, chat, received, mishaps>>

(* consume_host_reset_capability: durably, before anything else; a journal that refuses    *)
(* the reset afterwards leaves it consumed.                                                *)
Consume(r) ==
  /\ req[r].at = "consume"
  /\ capability' = "consumed"
  /\ \/ /\ IF capability = "projected" THEN Go(r, "order") ELSE Done(r)
        /\ UNCHANGED mishaps
     \/ capability = "projected" /\ Mishap /\ Done(r)
  /\ UNCHANGED <<space, locks, turns, wiped, received>>

AfterOrder == [create |-> "release", delete |-> "lifecycle", reorder |-> "save", reset |-> "lifecycle", host |-> "lifecycle"]

LockOrder(r) ==
  /\ req[r].at = "order" /\ order = None
  /\ order' = r
  /\ Go(r, AfterOrder[req[r].kind])
  /\ UNCHANGED <<space, lifecycle, chat, received, mishaps>>

LockLifecycle(r) ==
  /\ req[r].at = "lifecycle" /\ lifecycle = None
  /\ lifecycle' = r
  /\ Go(r, IF req[r].kind = "admit" THEN "check" ELSE "call")
  /\ UNCHANGED <<space, order, chat, received, mishaps>>

-----------------------------------------------------------------------------
(* reorder: an exact permutation of the Teams of now, or nothing.                          *)
Reorder(r) ==
  /\ req[r].at = "save"
  /\ LET ids == req[r].id
         exact == {ids[i] : i \in DOMAIN ids} = Ids(team)
     IN \/ /\ saved' = IF exact THEN [i \in DOMAIN ids |-> [id |-> ids[i], life |-> Entry(ids[i])[1].life]] ELSE saved
           /\ UNCHANGED mishaps
        \/ Mishap /\ UNCHANGED saved
  /\ order' = None /\ Done(r)
  /\ UNCHANGED <<team, lives, h, lifecycle, chat, received>>

-----------------------------------------------------------------------------
(* Creation.                                                                               *)

(* A bug: the id's position is left as it is.                                              *)
ReleaseNothing(r) ==
  /\ req[r].at = "release"
  /\ Go(r, "make")
  /\ UNCHANGED <<space, locks, chat, received, mishaps>>

(* release_for_create: a position the id kept from a Team that is gone is dropped before   *)
(* the id is used again; an inventory or a file that is unavailable refuses the creation.  *)
Release(r) ==
  /\ req[r].at = "release"
  /\ LET id == CandidateIds(req[r].name)[req[r].n]
     IN \/ /\ saved' = IF Entry(id) = <<>> THEN Dropped(saved, id) ELSE saved
           /\ Go(r, "make")
           /\ UNCHANGED <<order, mishaps>>
        \/ /\ Mishap
           /\ order' = None /\ Done(r)
           /\ UNCHANGED saved
  /\ UNCHANGED <<team, lives, h, lifecycle, chat, received>>

(* create_free, bridge::create: the next candidate while the id is held under another      *)
(* name; a Team of that id and name is already there.  What is created is cleared once the *)
(* order lock is given back; an answer that is lost clears nothing.                        *)
Make(r) ==
  /\ req[r].at = "make"
  /\ LET q == req[r]
         id == CandidateIds(q.name)[q.n]
         there == Entry(id)
         made == <<[id |-> id, name |-> q.name, life |-> lives + 1]>> \o team
     IN \/ /\ there = <<>>
           /\ team' = made /\ lives' = lives + 1
           /\ order' = None
           /\ \/ req' = [req EXCEPT ![r].at = "clear", ![r].id = id] /\ UNCHANGED mishaps
              \/ Mishap /\ Done(r)
        \/ /\ there # <<>> /\ there[1].name # q.name
           /\ IF q.n < MaxSuffix THEN req' = [req EXCEPT ![r].at = "release", ![r].n = q.n + 1] /\ UNCHANGED order
              ELSE Done(r) /\ order' = None
           /\ UNCHANGED <<team, lives, mishaps>>
        \/ /\ there # <<>> /\ there[1].name = q.name
           /\ Done(r) /\ order' = None
           /\ UNCHANGED <<team, lives, mishaps>>
  /\ UNCHANGED <<saved, h, lifecycle, chat, received>>

(* create: history::cleanup of the new Team.                                               *)
ClearCreated(r) ==
  /\ req[r].at = "clear"
  /\ \/ h' = ClearTeam(h, req[r].id) /\ UNCHANGED mishaps
     \/ Mishap /\ UNCHANGED h
  /\ Done(r)
  /\ UNCHANGED <<team, lives, saved, locks, chat, received>>

-----------------------------------------------------------------------------
(* Deletion and reset.                                                                     *)

Deletes(q) == Entry(q.id) # <<>> /\ Entry(q.id)[1].name = q.name
Remaining(q) ==
  IF q.kind = "delete" THEN IF Deletes(q) THEN Dropped(team, q.id) ELSE team ELSE <<>>

(* destroy_confirmed, reset_space: a Team that is gone counts as deleted; another name     *)
(* refuses; an answer that is lost clears nothing.                                         *)
CallTeam(r) ==
  /\ req[r].at = "call"
  /\ LET q == req[r]
         refused == q.kind = "delete" /\ Entry(q.id) # <<>> /\ ~Deletes(q)
     IN \/ /\ team' = Remaining(q)
           /\ IF refused THEN Done(r) /\ order' = None /\ lifecycle' = None
              ELSE Go(r, "wipe") /\ UNCHANGED locks
           /\ UNCHANGED mishaps
        \/ /\ Mishap
           /\ team' \in {team, Remaining(q)}
           /\ Done(r) /\ order' = None /\ lifecycle' = None
     /\ wiped' = IF q.kind = "host" THEN wiped + 1 ELSE wiped
  /\ UNCHANGED <<lives, saved, h, turns, capability, received>>

(* A bug: a transcript that cannot be cleared leaves the order locked.                     *)
WipeKeepsOrder(r) ==
  /\ req[r].at = "wipe"
  /\ lifecycle' = None
  /\ \/ /\ h' = IF req[r].kind = "delete" THEN ClearTeam(h, req[r].id) ELSE ClearAll(h)
        /\ Go(r, "forget")
        /\ UNCHANGED <<order, mishaps>>
     \/ Mishap /\ Done(r) /\ UNCHANGED <<order, h>>
  /\ UNCHANGED <<team, lives, saved, chat, received>>

(* history::cleanup: the transcript goes under the lifecycle lock; if it cannot, nothing   *)
(* else is cleaned and the page is told to try again.                                      *)
Wipe(r) ==
  /\ req[r].at = "wipe"
  /\ lifecycle' = None
  /\ \/ /\ h' = IF req[r].kind = "delete" THEN ClearTeam(h, req[r].id) ELSE ClearAll(h)
        /\ Go(r, "forget")
        /\ UNCHANGED <<order, mishaps>>
     \/ Mishap /\ Done(r) /\ order' = None /\ UNCHANGED h
  /\ UNCHANGED <<team, lives, saved, chat, received>>

(* team_deleted, space_reset: the saved position, or all of them.                          *)
Forget(r) ==
  /\ req[r].at = "forget"
  /\ order' = None
  /\ \/ /\ saved' = IF req[r].kind = "delete" THEN Dropped(saved, req[r].id) ELSE <<>>
        /\ Go(r, "end")
        /\ UNCHANGED mishaps
     \/ Mishap /\ Done(r) /\ UNCHANGED saved
  /\ UNCHANGED <<team, lives, h, lifecycle, chat, received>>

(* end_runs: after the locks; it ends whatever run the Team id has by then.                *)
EndRuns(r) ==
  /\ req[r].at = "end"
  /\ turns' = [t \in DOMAIN turns |->
                 [turns[t] EXCEPT !.open = @ /\ req[r].kind = "delete" /\ turns[t].id # req[r].id]]
  /\ Done(r)
  /\ UNCHANGED <<space, locks, capability, wiped, received, mishaps>>

-----------------------------------------------------------------------------
(* Messages and what their turns write.                                                    *)

(* A bug: the lock is given back before the message is written.                            *)
AdmitCheckUnlocks(r) ==
  /\ req[r].at = "check"
  /\ LET there == Entry(req[r].id)
     IN req' = [req EXCEPT ![r] = IF there = <<>> THEN Idle ELSE [@ EXCEPT !.at = "append", !.life = there[1].life]]
  /\ lifecycle' = None
  /\ UNCHANGED <<space, order, chat, received, mishaps>>

(* A bug: an admission waits for the order too, with the lifecycle lock in hand.           *)
AdmitCheckOrdered(r) == order = None /\ AdmitCheckUnlocks(r)

(* append_live_user: the Team must be in the inventory, read under the lifecycle lock.     *)
AdmitCheck(r) ==
  /\ req[r].at = "check"
  /\ LET there == Entry(req[r].id)
     IN IF there = <<>> THEN Done(r) /\ lifecycle' = None
        ELSE req' = [req EXCEPT ![r].at = "append", ![r].life = there[1].life] /\ UNCHANGED lifecycle
  /\ UNCHANGED <<space, order, chat, received, mishaps>>

AdmitAppend(r) ==
  /\ req[r].at = "append"
  /\ \/ \E kind \in Message :
          /\ h' = AppendUser(h, req[r].id, Len(turns) + 1, [kind |-> kind], FALSE, req[r].life)[2]
          /\ turns' = Append(turns, [id |-> req[r].id, life |-> req[r].life, open |-> TRUE])
          /\ UNCHANGED mishaps
     \/ Mishap /\ UNCHANGED <<h, turns>>
  /\ lifecycle' = IF lifecycle = r THEN None ELSE lifecycle
  /\ Done(r)
  /\ UNCHANGED <<team, lives, saved, order, capability, wiped, received>>

Writes(t, outcome, ends) ==
  /\ turns[t].open
  /\ h' = outcome[2]
  /\ turns' = IF ends THEN [turns EXCEPT ![t].open = FALSE] ELSE turns
  /\ UNCHANGED <<team, lives, saved, locks, capability, wiped, req, received, mishaps>>

(* terminal, guidance: a turn ends with one row; install goes on when it dispatches;       *)
(* challenge binds the turn; abandon ends what nothing resumes.                            *)
TurnReplies(t) == Writes(t, AppendReply(h, turns[t].id, t, [kind |-> "text"], turns[t].life), TRUE)
TurnGuides(t) == Writes(t, AppendGuidance(h, turns[t].id, t, [kind |-> "text"], turns[t].life), TRUE)
TurnFails(t) == Writes(t, AppendStatus(h, turns[t].id, t, [kind |-> "failed"], TRUE, turns[t].life), TRUE)
TurnInstalls(t) ==
  \E k \in {"dispatch", "installed"} : Writes(t, AppendInstall(h, turns[t].id, t, [kind |-> k], turns[t].life), k # "dispatch")
TurnUninstalls(t) == Writes(t, AppendUninstall(h, turns[t].id, t, [kind |-> "uninstalled"], turns[t].life), TRUE)
TurnPauses(t) == Writes(t, Bind(h, turns[t].id, t), FALSE)
TurnAbandoned(t) == Writes(t, <<TRUE, Finish(h, t)>>, TRUE)

(* The process stops: requests, locks and runs go; the files and Team stay.                *)
Crash ==
  /\ Mishap
  /\ req' = [r \in Request |-> Idle]
  /\ order' = None /\ lifecycle' = None
  /\ turns' = [t \in DOMAIN turns |-> [turns[t] EXCEPT !.open = BoundTo(h, turns[t].id) = t]]
  /\ UNCHANGED <<space, capability, wiped, received>>

Step(r) ==
  \/ Consume(r) \/ LockOrder(r) \/ LockLifecycle(r) \/ Reorder(r) \/ Release(r) \/ Make(r) \/ ClearCreated(r)
  \/ CallTeam(r) \/ Wipe(r) \/ Forget(r) \/ EndRuns(r) \/ AdmitCheck(r) \/ AdmitAppend(r)

Next ==
  \/ \E r \in Request : TeamsCreate(r) \/ TeamsDelete(r) \/ TeamsReorder(r) \/ Authenticated(r) \/ HostReset(r) \/ Admit(r)
  \/ Rename
  \/ \E r \in Request : Step(r)
  \/ \E t \in DOMAIN turns : \/ TurnReplies(t) \/ TurnGuides(t) \/ TurnFails(t) \/ TurnInstalls(t)
                             \/ TurnUninstalls(t) \/ TurnPauses(t) \/ TurnAbandoned(t)
  \/ Crash

(* A request's next step is taken: Admin's calls to Team time out, its locks are fair.     *)
Spec == Init /\ [][Next]_vars /\ \A r \in Request : SF_vars(Step(r))

-----------------------------------------------------------------------------
(* The shape of the state; a lock is held by a request that runs.                          *)
TypeOK ==
  /\ \A i \in DOMAIN team : team[i] \in [id : Id, name : Name, life : 1..lives]
  /\ Cardinality(Ids(team)) = Len(team)
  /\ Cardinality(Ids(saved)) = Len(saved) /\ Ids(saved) \subseteq Id
  /\ \A lock \in {order, lifecycle} : lock # None => lock \in Request /\ req[lock].at # "idle"
  /\ capability \in {"projected", "consumed"}

(* order.rs:9-10, "a saved position never outlives its Team into a later Team that reuses  *)
(* the id": the position a listing gives a Team was saved for that Team, whatever answer   *)
(* was lost and wherever a deletion or a reset was cut off.                                *)
PositionOfItsTeam ==
  \A i \in DOMAIN saved, j \in DOMAIN team : saved[i].id = team[j].id => saved[i].life = team[j].life

(* store/mod.rs:3-5: a cleared transcript is not undone by a delayed row.  A Team whose    *)
(* creation is over shows only rows written for it, not those of an earlier Team with its  *)
(* id, as long as no more than one thing has gone wrong.                                   *)
OwnTranscript ==
  mishaps <= 1 =>
    \A j \in DOMAIN team, i \in DOMAIN h.rows :
      h.rows[i].team = team[j].id =>
        h.rows[i].origin = team[j].life \/ \E r \in Request : req[r].at = "clear" /\ req[r].id = team[j].id

(* The turn a Team resumes has its message in that Team's transcript: what resumes it      *)
(* (resume, resume_exact) never answers into a transcript that forgot the question.        *)
BoundIsAdmitted == \A i \in DOMAIN h.bound : Admitted(h, h.bound[i][1], h.bound[i][2])

(* arrange: the Teams without a position, then those the saved ids find.                   *)
Arrange(teams, order0) ==
  LET unsaved == Select(teams, LAMBDA t : t.id \notin Ids(order0))
      found == Select(order0, LAMBDA e : e.id \in Ids(teams))
  IN unsaved \o [i \in DOMAIN found |-> Of(teams, found[i].id)[1]]

(* page after page, from the newest row back to the first.                                 *)
Walked(id) ==
  LET w[n \in 0..Len(h.rows) + 1] ==
        IF n = 0 THEN [rows |-> <<>>, before |-> 0, over |-> FALSE]
        ELSE IF w[n - 1].over THEN w[n - 1]
        ELSE LET p == Page(h, id, NoTurn, w[n - 1].before)
             IN [rows |-> p.shown \o w[n - 1].rows, before |-> p.before, over |-> p.before = 0]
  IN w[Len(h.rows) + 1]

(* Paging back through a transcript shows every row of it once, in order, however the      *)
(* pages are cut by their row and byte bounds.                                             *)
PagesCoverView == \A id \in Id : Walked(id).rows = View(h, id, NoTurn)

(* The list names every Team once: first those without a position, newest first, then the  *)
(* others as they were arranged, whatever stale positions the file still holds.            *)
ListingExact ==
  LET list == Arrange(team, saved)
      Place(id) == CHOOSE i \in DOMAIN list : list[i].id = id
  IN /\ Len(list) = Len(team) /\ Ids(list) = Ids(team)
     /\ \A i, j \in DOMAIN team : i < j /\ team[j].id \notin Ids(saved) => Place(team[i].id) < Place(team[j].id) \/ team[i].id \in Ids(saved)
     /\ \A i, j \in DOMAIN saved : i < j /\ {saved[i].id, saved[j].id} \subseteq Ids(team) => Place(saved[i].id) < Place(saved[j].id)

(* A host capability deletes a Space once, wherever the process stops and starts again.    *)
CapabilityOnce == wiped <= 1

(* Every request ends: no two of them wait for each other's lock.                          *)
EveryRequestEnds == \A r \in Request : req[r].at # "idle" ~> req[r].at = "idle"

(* A Team's history is its own: its positions, its transcript, and the turn bound to it.    *)
HistoryOfItsTeam == TypeOK /\ PositionOfItsTeam /\ OwnTranscript /\ BoundIsAdmitted

(* What a page reads or consumes is exactly what is there.                                 *)
ReadsExact == PagesCoverView /\ ListingExact /\ CapabilityOnce
=============================================================================
