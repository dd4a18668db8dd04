----------------------------- MODULE Assistants -----------------------------
(***************************************************************************)
(* One chat run's routed messages (chat/assistants/{route,plan,install,    *)
(* uninstall}.rs, chat/lifecycle.rs, chat/delivery/{route,plan,            *)
(* uninstall}.rs): a message is classified while a capability plan is      *)
(* speculated, its Assistants are installed one by one before its task is  *)
(* dispatched, an uninstall is proposed and decided by the next message.   *)
(*                                                                         *)
(* Every request to Team is a step of its own: other pages install, remove *)
(* and replace the Team's Assistants between them, and an answer may be a  *)
(* failure or be lost.  What the Team turn does is DurableTurns; its first *)
(* dispatch ends a message here.  A terminal's commit and its sending are  *)
(* one step (DurableTurns takes them apart).                               *)
(***************************************************************************)
EXTENDS Candidates

CONSTANTS MaxTeam,      \* MAX_TEAM_ASSISTANTS
          MaxChat,      \* MAX_CHAT_ASSISTANTS
          MaxSelected,  \* MAX_INTENT_ROUTE_SELECTED, MAX_CAPABILITY_SELECTED
          Staged,       \* the staged images of the Space
          Published,    \* the publications of the catalog
          Inventories,  \* the inventories a Team may begin with
          Messages,     \* bound: the messages a page may send, [text, scope, files, resume]
          Queries,      \* bound: the queries Team may classify a message with
          MaxMessages,  \* bound: messages sent, one more while a proposal waits
          MaxOthers,    \* bound: what other pages do to the Team's Assistants
          MaxFaults     \* bound: requests that fail, lanes that are full, commits that fail

(* The offers of a Space are some Assistants, and what a page writes, or Team makes a query *)
(* of, is a text.                                                                          *)
AssistantsShaped ==
  /\ CandidatesNumbered /\ PlanningCatalog(Staged, Published) \subseteq Assistant
  /\ \A m \in Messages : IsText(m.text)
  /\ \A q \in Queries : IsText(q)
ASSUME AssistantsAssumption == AssistantsShaped

VARIABLES inv,     \* Team's Assistants
          turn,    \* the active message: its route, its plan, its delivery
          spec,    \* the speculated capability plan of the message
          conn,    \* the run's Connection
          rows,    \* the lifecycle rows of the history, by history id
          shown,   \* the events the pages were sent, by history id
          used,    \* what was used up of the bounds
          ran      \* the Assistants that ran at some time since the message was sent

assistantsVars == <<inv, turn, spec, conn, rows, shown, used, ran>>

NoPlan == [ids |-> <<>>, scope |-> {}, terminal |-> FALSE, named |-> {}]

(* Preparation: a plan, a selection that already runs, a failure, or nothing to do.        *)
Prepared(kind) == [kind |-> kind, plan |-> NoPlan]

NewTurn == [at |-> "none", no |-> 0, text |-> <<>>, scope |-> {}, files |-> FALSE, resume |-> FALSE,
            stop |-> FALSE, sent |-> FALSE, inv |-> <<>>, reg |-> {}, offers |-> {}, dir |-> {},
            query |-> <<>>, follows |-> FALSE, pick |-> 0, version |-> 0,
            prep |-> Prepared("none"), op |-> "route", done |-> 0, halt |-> FALSE, stopping |-> FALSE, end |-> "", out |-> {}]

NewSpec == [at |-> "none", inv |-> <<>>, gap |-> "", prep |-> Prepared("none"),
            enabled |-> {}, shortlist |-> {}]
NoProposal == [no |-> 0, id |-> 0, version |-> 0, live |-> FALSE]
NewConn == [proposal |-> NoProposal, op |-> "none", opOf |-> NoProposal, result |-> "",
            reference |-> 0, hid |-> 0, closed |-> FALSE]

AssistantsInit ==
  /\ inv \in Inventories /\ turn = NewTurn /\ spec = NewSpec /\ conn = NewConn
  /\ rows = {} /\ shown = {} /\ used = [messages |-> 0, others |-> 0, faults |-> 0]
  /\ ran = {}

Active == turn.at \notin {"none", "gone"}

(* The next step of the delivery, or of the job it waits for.                              *)
TurnIs(t) == turn' = t
TurnAt(place) == [turn EXCEPT !.at = place]

(* The route's job is over: what it read is gone.                                          *)
RouteOver(place) == [turn EXCEPT !.at = place, !.text = <<>>, !.files = FALSE, !.resume = FALSE, !.inv = <<>>,
                            !.reg = {}, !.offers = {}, !.dir = {}, !.query = <<>>, !.follows = FALSE]

(* A failure of a request, of a lane or of the history.                                    *)
Fault == used.faults < MaxFaults /\ used' = [used EXCEPT !.faults = @ + 1]

Event(kind, ids) == [kind |-> kind, ids |-> ids]

(* What the pages are sent; the endings every turn may have, and progress, are not noted.  *)
ShowEvent(no, e) == shown' = IF e.kind \in {"planned", "error", "stopped", "done"} THEN shown ELSE shown \cup {<<no, e>>}
KeepRow(no, e) == rows' = rows \cup {<<no, e>>}

-----------------------------------------------------------------------------
(* Team.                                                                                   *)

(* What another page of the Space does: install, remove, replace, or find an Assistant     *)
(* refused by the contract.                                                                *)
Other ==
  /\ used.others < MaxOthers /\ used' = [used EXCEPT !.others = @ + 1]
  /\ \E a \in Assistant, status \in {"running", "invalid", "gone"} :
       LET v == inv[a].version IN
       inv' = [inv EXCEPT ![a] =
         IF status = "gone" THEN [version |-> 0, status |-> "none"] ELSE [version |-> v + 1, status |-> status]]
  /\ UNCHANGED <<turn, spec, conn, rows, shown>>

(* Team's install: a fresh one runs, or is still starting; one that is installed stays.    *)
TeamInstalls(a, status) ==
  IF inv[a].version # 0 THEN inv ELSE [inv EXCEPT ![a] = [version |-> 1, status |-> status]]

TeamUninstalls(a) == [inv EXCEPT ![a] = [version |-> 0, status |-> "none"]]

-----------------------------------------------------------------------------
(* The message.                                                                            *)

(* lifecycle::reuses_history: the message decides the pending proposal.                    *)
ReusesHistory(m) == conn.proposal # NoProposal /\ DecisionOf(m.text, m.files) # "ambiguous"

(* route_delivery::begin and spawn_route: the message is the active turn, queued at the    *)
(* gate.                                                                                   *)
BeginTurn(m, no) ==
  /\ TurnIs([NewTurn EXCEPT !.at = "queued", !.no = no, !.text = m.text, !.scope = m.scope,
                        !.files = m.files, !.resume = m.resume])
  /\ spec' = NewSpec

(* A bug: the decided proposal is left in place. *)
ResolvedStays(decision) == [conn EXCEPT !.hid = IF decision = "ambiguous" THEN @ ELSE 0]

(* lifecycle::resolve: whatever the message is, the proposal is over; its decision takes   *)
(* the history id the proposal kept.                                                       *)
Resolved(decision) ==
  [conn EXCEPT !.proposal = NoProposal,
               !.reference = IF conn.proposal.live /\ decision = "confirm" THEN @ ELSE 0,
               !.hid = IF decision = "ambiguous" THEN @ ELSE 0]

(* ended_proposal, commit_uninstall: kept first, then shown; an error in its place when it *)
(* cannot be kept.                                                                         *)
EndedProposal(kind, p, hid) ==
  \/ KeepRow(hid, Event(kind, {p.id})) /\ ShowEvent(hid, Event(kind, {p.id})) /\ UNCHANGED used
  \/ Fault /\ UNCHANGED rows /\ ShowEvent(hid, Event("error", {}))

(* dispatch: the uninstall is submitted to the lifecycle lane, or fails with 429.          *)
DispatchUninstall(p, hid, resolved) ==
  \/ /\ conn' = [resolved EXCEPT !.op = "read", !.opOf = [p EXCEPT !.no = hid]]
     /\ UNCHANGED <<rows, shown, used>>
  \/ /\ used.faults < MaxFaults
     /\ conn' = [resolved EXCEPT !.reference = 0]
     /\ EndedProposal("failed", p, hid)

Sent == used.messages + 1

(* dispatch_chat of a decision: admit keeps the proposal's history turn.                   *)
Decide(m) ==
  LET decision == DecisionOf(m.text, m.files)  p == conn.proposal IN
  /\ ReusesHistory(m) /\ UNCHANGED <<inv, turn, spec>>
  /\ \/ ~p.live /\ conn' = Resolved(decision) /\ EndedProposal("expired", p, conn.hid)
     \/ p.live /\ decision = "confirm" /\ DispatchUninstall(p, conn.hid, Resolved(decision))
     \/ p.live /\ decision = "cancel" /\ conn' = Resolved(decision) /\ EndedProposal("cancelled", p, conn.hid)

(* dispatch_chat of any other message: committed to the history, a pending proposal        *)
(* dropped, its turn begun.                                                                *)
SendMessage(m) ==
  /\ ~ReusesHistory(m) /\ used.messages < MaxMessages + (IF conn.proposal = NoProposal THEN 0 ELSE 1)
  /\ (m.resume => conn.proposal = NoProposal)
  /\ used' = [used EXCEPT !.messages = @ + 1]
  /\ conn' = [(IF conn.proposal = NoProposal THEN conn ELSE Resolved("ambiguous")) EXCEPT !.hid = 0]
  /\ BeginTurn(m, Sent)
  /\ UNCHANGED <<inv, rows, shown>>

(* admit: one turn, one lifecycle operation at a time.                                     *)
Send ==
  /\ ~Active /\ conn.op = "none" /\ ~conn.closed
  /\ \E m \in Messages : Decide(m) \/ SendMessage(m)

(* UninstallProposal::valid_for: its time passes.                                          *)
ProposalExpires ==
  /\ conn.proposal.live /\ conn' = [conn EXCEPT !.proposal.live = FALSE]
  /\ UNCHANGED <<inv, turn, spec, rows, shown, used>>

-----------------------------------------------------------------------------
(* The speculated plan.                                                                    *)

(* capability_gap: Team's Assistants, the Space's offers, and the bounded shortlist.       *)
Gap(job) ==
  LET offers == PlanningCatalog(Staged, Published)
      c == CapabilityCandidates(turn.text, offers, InstalledIn(inv), turn.scope)
  IN IF EnabledValid(turn.scope, inv, RegistryOf(inv))
     THEN [job EXCEPT !.gap = "some", !.inv = inv, !.enabled = c.enabled, !.shortlist = c.shortlist]
     ELSE [job EXCEPT !.gap = "none"]

(* beyond_limit.                                                                           *)
BeyondLimit(installed, missing) == Cardinality(installed \cup missing) > MaxTeam

(* prepared_plan: what the plan installs, in order, and the scope its task has.            *)
PreparedPlan(enabled, selected, terminal, dispatched, named) ==
  IF selected = {} THEN Prepared("none")
  ELSE IF Cardinality(enabled \cup dispatched) > MaxChat THEN Prepared("error")
  ELSE [Prepared("plan") EXCEPT !.plan =
          [ids |-> InOrder(selected), scope |-> enabled \cup dispatched,
           terminal |-> terminal, named |-> named]]

(* selected_ids: Team's answer, or nothing when it does not fit what was asked.            *)
SelectedIds(job, answer) ==
  IF /\ answer.ids \subseteq (job.enabled \cup job.shortlist) /\ Cardinality(answer.ids) <= MaxSelected
     /\ (answer.sufficient <=> answer.ids = {})
  THEN answer.ids ELSE {}

(* plan_gap: the gate over Team's answer.                                                  *)
PlanGap(job, answer) ==
  LET missing == SelectedIds(job, answer) \cap job.shortlist IN
  IF BeyondLimit(InstalledIn(job.inv), missing) THEN Prepared("error")
  ELSE PreparedPlan(turn.scope, missing, FALSE, missing, {})

(* plan_answer: any answer of Team's planner, or none.                                     *)
PlanAnswers == [ids : SUBSET Assistant, sufficient : BOOLEAN]

(* plan_gap with its request: nothing is planned without a shortlist or an answer; a plan  *)
(* whose summaries are not to be had in the page's language fails (shown_preparation).     *)
PlansOf(job) ==
  IF job.gap # "some" \/ job.shortlist = {} THEN {Prepared("none")}
  ELSE LET planned == {PlanGap(job, answer) : answer \in PlanAnswers} IN
       planned \cup {Prepared("none")} \cup {Prepared("error") : p \in {x \in planned : x.kind = "plan"}}

(* The speculation's own steps: the gap is published, then planned over.                   *)
SpecGap ==
  /\ spec.at = "pending"
  /\ \/ spec' = [Gap(spec) EXCEPT !.at = "planning"] /\ UNCHANGED used
     \/ Fault /\ spec' = [spec EXCEPT !.at = "done", !.prep = Prepared("fault")]
  /\ UNCHANGED <<inv, turn, conn, rows, shown>>

SpecPlan ==
  /\ spec.at = "planning"
  /\ \E prep \in PlansOf(spec) : spec' = [NewSpec EXCEPT !.at = "done", !.prep = prep]
  /\ UNCHANGED <<inv, turn, conn, rows, shown, used>>

(* Job::cancel of the speculation: one that has not started never will; one that runs goes *)
(* on unread, and only reads.                                                              *)
CancelledSpec == NewSpec

-----------------------------------------------------------------------------
(* The route.                                                                              *)

(* submit_route and submit_resume, then speculate: both are refused by a full lane.        *)
Submit ==
  /\ turn.at = "queued" /\ ~conn.closed
  /\ \/ TurnIs(TurnAt("classify")) /\ UNCHANGED used
        /\ \/ spec' = [NewSpec EXCEPT !.at = "pending"]
           \/ spec' = NewSpec
     \/ Fault /\ TurnIs([RouteOver("finish") EXCEPT !.end = "error"]) /\ UNCHANGED spec
  /\ UNCHANGED <<inv, conn, rows, shown>>

(* The answers Team's intent route may give, valid or not.                                 *)
RouteBodies == [intent : {"ordinary", "install", "uninstall", "unresolved"}, query : BOOLEAN,
           reply : BOOLEAN, follows : BOOLEAN, capability : {"possible", "not-needed"}]

(* answer_valid, capability_valid, project: a classification.                              *)
ClassificationValid(b) ==
  /\ b.follows => b.intent = "install"
  /\ b.reply <=> (b.intent = "unresolved" \/ (b.intent \in {"install", "uninstall"} /\ ~b.query))
  /\ b.capability = "not-needed" => b.intent = "ordinary"

(* route: a refusal of Team, or an answer that does not fit, fails the message.            *)
RouteFails == TurnIs([RouteOver("finish") EXCEPT !.end = "error"])

(* lifecycle: guidance for an attachment, for what Team could not resolve and for a        *)
(* missing target; a reconnect removes nothing.                                            *)
Lifecycle(b, q) ==
  LET target == [turn EXCEPT !.query = q, !.follows = b.follows] IN
  IF turn.files \/ b.intent = "unresolved" THEN RouteOver("guide")
  ELSE IF b.intent = "install" THEN IF b.query THEN [target EXCEPT !.at = "read"] ELSE RouteOver("guide")
  ELSE IF turn.resume THEN [RouteOver("finish") EXCEPT !.end = "error"]
  ELSE IF b.query THEN [target EXCEPT !.at = "readInstalled"] ELSE RouteOver("guide")

(* classify and prepare_with: an ordinary task waits for the speculation, or plans itself; *)
(* anything else cancels it.                                                               *)
Classify ==
  /\ turn.at = "classify"
  /\ \/ \E b \in {x \in RouteBodies : ClassificationValid(x)} :
          IF b.intent = "ordinary"
          THEN IF b.capability = "not-needed" /\ spec.at # "none"
               THEN TurnIs(RouteOver("prepared")) /\ spec' = CancelledSpec
               ELSE TurnIs(TurnAt(IF spec.at = "none" THEN "gap" ELSE "wait")) /\ UNCHANGED spec
          ELSE (\E q \in Queries : TurnIs(Lifecycle(b, q))) /\ spec' = CancelledSpec
     \/ RouteFails /\ spec' = CancelledSpec
  /\ UNCHANGED <<inv, conn, rows, shown, used>>

(* ordinary: the speculation's end; one cancelled or panicked is a routing failure, and a  *)
(* plan for a message with files is guidance.                                              *)
Ordinary(prep) ==
  IF prep.kind = "fault" THEN [RouteOver("finish") EXCEPT !.end = "error"]
  ELSE IF turn.files /\ prep.kind = "plan" THEN RouteOver("guide")
  ELSE [RouteOver("prepared") EXCEPT !.prep = prep]

Wait ==
  /\ turn.at = "wait" /\ spec.at = "done" /\ TurnIs(Ordinary(spec.prep))
  /\ spec' = NewSpec
  /\ UNCHANGED <<inv, conn, rows, shown, used>>

(* prepare_capability: without a speculation the message plans for itself.                 *)
PlanAlone ==
  /\ turn.at = "gap"
  /\ \/ spec' = [Gap(NewSpec) EXCEPT !.at = "planning"] /\ TurnIs(TurnAt("wait")) /\ UNCHANGED used
     \/ Fault /\ TurnIs(Ordinary(Prepared("fault"))) /\ UNCHANGED spec
  /\ UNCHANGED <<inv, conn, rows, shown>>

(* route::prepare_install: Team's Assistants and the Space's offers are read, the bounded  *)
(* directory is asked about.                                                               *)
ReadInstall ==
  /\ turn.at = "read"
  /\ LET offers == PlanningCatalog(Staged, Published) IN
     \/ /\ TurnIs([TurnAt("select") EXCEPT !.inv = inv, !.offers = offers,
                                   !.dir = InstallShortlist(turn.query, offers)])
        /\ UNCHANGED used
     \/ Fault /\ RouteFails
  /\ UNCHANGED <<inv, spec, conn, rows, shown>>

(* A bug: an Assistant that is installed but does not run is not installed again. *)
MissingInstalled(selected) == {a \in selected : turn.inv[a].version = 0}

(* Selection::missing.                                                                     *)
Missing(selected) == selected \ RunningIn(turn.inv)

(* plan::prepare_install and already_installed: the selection bound to what was read.      *)
PrepareInstall(selected) ==
  LET missing == Missing(selected)
      scope == IF turn.follows THEN turn.scope \cup selected ELSE {} IN
  IF selected = {} \/ Cardinality(selected) > MaxSelected \/ ~(selected \subseteq turn.offers) THEN Prepared("error")
  ELSE IF missing = {}
  THEN IF Cardinality(scope) > MaxChat THEN Prepared("error")
       ELSE [Prepared("already") EXCEPT !.plan = [NoPlan EXCEPT !.scope = scope, !.named = selected]]
  ELSE IF BeyondLimit(InstalledIn(turn.inv), missing) THEN Prepared("error")
  ELSE PreparedPlan(turn.scope, missing, ~turn.follows, selected, selected)

(* The structured selection: guidance when it is unresolved; a plan's summaries, or the    *)
(* creators of what runs, may not be had.                                                  *)
SelectInstall ==
  /\ turn.at = "select"
  /\ \/ TurnIs(RouteOver("guide"))
     \/ RouteFails
     \/ \E selected \in SUBSET Assistant :
          LET prep == PrepareInstall(selected) IN
          TurnIs([(IF prep.kind = "already" THEN TurnAt("creators") ELSE RouteOver("prepared")) EXCEPT !.prep = prep])
     \/ TurnIs([RouteOver("prepared") EXCEPT !.prep = Prepared("error")])
  /\ UNCHANGED <<inv, spec, conn, rows, shown, used>>

(* binding_creator of each: the binding Team runs must be the version that was read.       *)
Creators ==
  /\ turn.at = "creators"
  /\ LET same == \A a \in turn.prep.plan.named : inv[a] = turn.inv[a] IN
     TurnIs(IF same THEN RouteOver("prepared") ELSE [RouteOver("prepared") EXCEPT !.prep = Prepared("error")])
  /\ UNCHANGED <<inv, spec, conn, rows, shown, used>>

(* uninstall::candidates: the installed Assistants, then, in a second request, the         *)
(* registry; the two must agree.                                                           *)
ReadInstalled ==
  /\ turn.at = "readInstalled"
  /\ \/ TurnIs([TurnAt("readRegistry") EXCEPT !.inv = inv]) /\ UNCHANGED used
     \/ Fault /\ RouteFails
  /\ UNCHANGED <<inv, spec, conn, rows, shown>>

ReadRegistry ==
  /\ turn.at = "readRegistry"
  /\ LET registry == RegistryOf(inv) IN
     IF DirectoryValid(turn.inv, registry)
     THEN TurnIs([TurnAt("selectOne") EXCEPT !.reg = registry,
                !.dir = UninstallShortlist(turn.query, InstalledIn(turn.inv), RefusedIn(turn.inv, registry))])
     ELSE RouteFails
  /\ UNCHANGED <<inv, spec, conn, rows, shown, used>>

(* prepare_uninstall: exactly one of the directory; one the contract refuses is guidance.  *)
SelectUninstall ==
  /\ turn.at = "selectOne"
  /\ \/ TurnIs(RouteOver("guide"))
     \/ \E chosen \in SUBSET Assistant :
          IF Cardinality(chosen \cap turn.dir) # 1 THEN RouteFails
          ELSE LET a == CHOOSE x \in chosen \cap turn.dir : TRUE IN
               TurnIs(IF a \in RefusedIn(turn.inv, turn.reg) THEN RouteOver("guide")
                  ELSE [TurnAt("creator") EXCEPT !.pick = a])
  /\ UNCHANGED <<inv, spec, conn, rows, shown, used>>

(* The creator of the binding, whose version must be the one that was read.                *)
Creator ==
  /\ turn.at = "creator"
  /\ \/ inv[turn.pick].version = turn.inv[turn.pick].version /\ inv[turn.pick].version # 0 /\ TurnIs([RouteOver("propose") EXCEPT !.version = inv[turn.pick].version])
     \/ RouteFails
  /\ UNCHANGED <<inv, spec, conn, rows, shown, used>>

-----------------------------------------------------------------------------
(* Its delivery.                                                                           *)

(* The run forgets the turn; its delivery is over.                                         *)
ReleaseTurn == TurnIs([NewTurn EXCEPT !.at = "gone"])

(* terminal::turn: nothing of a closed run, or of a turn whose terminal was sent.          *)
Terminal(e) ==
  IF conn.closed \/ turn.sent THEN UNCHANGED shown ELSE ShowEvent(turn.no, e)

(* finish_active_turn.                                                                     *)
FinishTurn ==
  /\ turn.at = "finish" /\ Terminal(Event(turn.end, turn.out)) /\ ReleaseTurn
  /\ UNCHANGED <<inv, spec, conn, rows, used>>

EndsAs(end) == TurnIs([TurnAt("finish") EXCEPT !.end = end])

(* deliver_guidance: kept, then shown.                                                     *)
DeliverGuidance ==
  /\ turn.at = "guide"
  /\ IF conn.closed \/ turn.stop THEN EndsAs("stopped") /\ UNCHANGED <<rows, conn, used>>
     ELSE \/ /\ KeepRow(turn.no, Event("guidance", {})) /\ EndsAs("guidance")
             /\ conn' = [conn EXCEPT !.reference = 0] /\ UNCHANGED used
          \/ Fault /\ EndsAs("error") /\ UNCHANGED <<rows, conn>>
  /\ UNCHANGED <<inv, spec, shown>>

(* deliver_candidate, create_proposal, retain_history: the proposal keeps its turn's       *)
(* history for the answer that decides it.                                                 *)
Propose ==
  /\ turn.at = "propose"
  /\ IF conn.closed \/ turn.stop THEN EndsAs("stopped") /\ UNCHANGED <<conn, shown>>
     ELSE /\ conn' = [conn EXCEPT !.proposal = [no |-> turn.no, id |-> turn.pick,
                                                version |-> turn.version, live |-> TRUE],
                                  !.hid = turn.no]
          /\ Terminal(Event("proposed", {turn.pick})) /\ ReleaseTurn
  /\ UNCHANGED <<inv, spec, rows, used>>

(* plan::deliver_result, in its order: an error, nothing to do, a Stop, then what was      *)
(* prepared.                                                                               *)
DeliverPrepared ==
  /\ turn.at = "prepared"
  /\ LET prep == turn.prep IN
     IF conn.closed THEN ReleaseTurn /\ UNCHANGED conn
     ELSE IF turn.stop THEN EndsAs("stopped") /\ UNCHANGED conn
     ELSE IF prep.kind = "error" THEN EndsAs("error") /\ conn' = [conn EXCEPT !.reference = 0]
     ELSE IF prep.kind = "none" THEN TurnIs([TurnAt("continue") EXCEPT !.out = turn.scope]) /\ UNCHANGED conn
     ELSE IF prep.kind = "already" THEN TurnIs([TurnAt("commit") EXCEPT !.end = "installed", !.out = prep.plan.named]) /\ UNCHANGED conn
     ELSE TurnIs(TurnAt("planning")) /\ UNCHANGED conn
  /\ UNCHANGED <<inv, spec, rows, shown, used>>

(* run_job: a fresh stop flag, the plan on the lifecycle lane.                             *)
RunJob ==
  /\ turn.at = "planning"
  /\ ShowEvent(turn.no, Event("planned", {}))
  /\ \/ TurnIs([TurnAt("between") EXCEPT !.op = "plan", !.halt = FALSE]) /\ UNCHANGED used
     \/ Fault /\ TurnIs([TurnAt("commit") EXCEPT !.end = "failed"])
  /\ UNCHANGED <<inv, spec, conn, rows>>

Item == turn.prep.plan.ids[turn.done + 1]

(* execute: stopped only between items.                                                    *)
Execute ==
  /\ turn.at = "between"
  /\ IF turn.halt /\ turn.done < Len(turn.prep.plan.ids) THEN TurnIs([TurnAt("commit") EXCEPT !.end = "halted"])
     ELSE IF turn.done < Len(turn.prep.plan.ids) THEN TurnIs(TurnAt("install"))
     ELSE TurnIs([TurnAt("commit") EXCEPT !.end = "installed"])
  /\ UNCHANGED <<inv, spec, conn, rows, shown, used>>

(* install: a publication or a staged snapshot; Team installs it, whether or not its       *)
(* answer comes, or refuses it at its limit.                                               *)
Install ==
  /\ turn.at = "install"
  /\ \E status \in {"running", "starting"} :
       LET after == TeamInstalls(Item, status) IN
       IF Cardinality(InstalledIn(after)) > MaxTeam
       THEN TurnIs([TurnAt("commit") EXCEPT !.end = "failed"]) /\ UNCHANGED <<inv, used>>
       ELSE /\ inv' = after
            /\ \/ TurnIs(TurnAt("prove")) /\ UNCHANGED used
               \/ Fault /\ TurnIs([TurnAt("commit") EXCEPT !.end = "failed"])
  /\ UNCHANGED <<spec, conn, rows, shown>>

(* A bug: an answered install is taken for a running Assistant. *)
ProveUnread ==
  /\ turn.at = "prove"
  /\ TurnIs([TurnAt("between") EXCEPT !.done = @ + 1, !.out = @ \cup {Item}])
  /\ UNCHANGED <<inv, spec, conn, rows, shown, used>>

(* install_and_prove_running: read back, it must run.                                      *)
Prove ==
  /\ turn.at = "prove"
  /\ TurnIs(IF Item \in RunningIn(inv) THEN [TurnAt("between") EXCEPT !.done = @ + 1, !.out = @ \cup {Item}]
        ELSE [TurnAt("commit") EXCEPT !.end = "failed"])
  /\ UNCHANGED <<inv, spec, conn, rows, shown, used>>

(* The job panicked: its items are told as they began.                                     *)
Panicked ==
  /\ turn.at \in {"install", "prove"} /\ Fault
  /\ TurnIs([TurnAt("commit") EXCEPT !.end = "failed", !.out = {}])
  /\ UNCHANGED <<inv, spec, conn, rows, shown>>

(* deliver_admitted, deliver_already_installed, commit_install: the outcome is kept before *)
(* it is shown; a plan that is its message's end, or failed, ends the turn, and the only   *)
(* Assistant it names becomes the run's reference; else the task goes on.                  *)
CommitPlan ==
  /\ turn.at = "commit"
  /\ LET e == Event(turn.end, turn.out)
         plan == turn.prep.plan
         over == turn.end # "installed" \/ (turn.prep.kind = "plan" /\ plan.terminal) \/ plan.scope = {}
         named == IF turn.end = "installed" /\ over /\ plan.named \subseteq turn.out THEN plan.named ELSE {} IN
     IF conn.closed THEN ReleaseTurn /\ UNCHANGED <<conn, rows, shown, used>>
     ELSE \/ /\ KeepRow(turn.no, e) /\ UNCHANGED used
             /\ conn' = [conn EXCEPT !.reference = IF Cardinality(named) = 1 THEN CHOOSE a \in named : TRUE ELSE 0]
             /\ IF over THEN TurnIs(TurnAt("finish")) /\ UNCHANGED shown
                ELSE TurnIs([TurnAt("continue") EXCEPT !.out = plan.scope]) /\ ShowEvent(turn.no, e)
          \/ /\ Fault /\ EndsAs("error") /\ conn' = [conn EXCEPT !.reference = 0]
             /\ UNCHANGED <<rows, shown>>
  /\ UNCHANGED <<inv, spec>>

(* continue_team_turn: stopped, or the task dispatched with its scope.                     *)
Continue ==
  /\ turn.at = "continue"
  /\ IF turn.stop \/ conn.closed THEN EndsAs("stopped") ELSE TurnIs(TurnAt("chat"))
  /\ UNCHANGED <<inv, spec, conn, rows, shown, used>>

(* Its Team turn ends.                                                                     *)
TeamTurnEnds ==
  /\ turn.at = "chat" /\ EndsAs("done") /\ UNCHANGED <<inv, spec, conn, rows, shown, used>>

(* request_stop: a queued turn's delivery is aborted, a plan is stopped between items, a   *)
(* route is told to end while its job goes on.                                             *)
Stop ==
  /\ Active /\ ~turn.stop /\ ~conn.closed
  /\ LET halted == [turn EXCEPT !.stop = TRUE, !.halt = TRUE] IN
     TurnIs(IF turn.at = "queued" THEN [halted EXCEPT !.at = "aborted", !.stopping = TRUE]
        ELSE IF turn.at = "chat" THEN [halted EXCEPT !.at = "finish", !.end = "stopped"]
        ELSE [halted EXCEPT !.stopping = (turn.op = "route")])
  /\ UNCHANGED <<inv, spec, conn, rows, shown, used>>

(* finish_cancelled_turn, the Stop's own task.                                             *)
StopEnds ==
  /\ turn.stopping /\ Terminal(Event("stopped", {}))
  /\ IF turn.at = "aborted" THEN ReleaseTurn ELSE TurnIs([turn EXCEPT !.stopping = FALSE, !.sent = TRUE])
  /\ UNCHANGED <<inv, spec, conn, rows, used>>

-----------------------------------------------------------------------------
(* The confirmed uninstall.                                                                *)

(* uninstall::uninstall: the version is read again before Team is asked.                   *)
UninstallReads ==
  /\ conn.op = "read"
  /\ LET a == conn.opOf.id IN
     \/ /\ UNCHANGED used
        /\ conn' = IF inv[a].version = 0 THEN [conn EXCEPT !.op = "deliver", !.result = "uninstalled"]
                   ELSE IF inv[a].version # conn.opOf.version THEN [conn EXCEPT !.op = "deliver", !.result = "failed"]
                   ELSE [conn EXCEPT !.op = "call"]
     \/ Fault /\ conn' = [conn EXCEPT !.op = "deliver", !.result = "failed"]
  /\ UNCHANGED <<inv, turn, spec, rows, shown>>

UninstallCalls ==
  /\ conn.op = "call"
  /\ inv' = TeamUninstalls(conn.opOf.id)
  /\ \/ conn' = [conn EXCEPT !.op = "deliver", !.result = "uninstalled"] /\ UNCHANGED used
     \/ Fault /\ conn' = [conn EXCEPT !.op = "deliver", !.result = "failed"]
  /\ UNCHANGED <<turn, spec, rows, shown>>

(* A bug: the result is shown whether or not it was kept. *)
UninstallDeliversAnyway ==
  LET e == Event(conn.result, {conn.opOf.id})
      over == [conn EXCEPT !.op = "none", !.opOf = NoProposal, !.result = "", !.reference = conn.opOf.id]
  IN /\ conn.op = "deliver" /\ ~conn.closed /\ conn' = over
     /\ \/ KeepRow(conn.opOf.no, e) /\ ShowEvent(conn.opOf.no, e) /\ UNCHANGED used
        \/ Fault /\ UNCHANGED rows /\ ShowEvent(conn.opOf.no, e)
     /\ UNCHANGED <<inv, turn, spec>>

(* lifecycle::deliver, result_event: kept, shown, and the operation over.                  *)
UninstallDelivers ==
  LET e == Event(conn.result, {conn.opOf.id})
      over == [conn EXCEPT !.op = "none", !.opOf = NoProposal, !.result = "", !.reference = 0]
  IN /\ conn.op = "deliver"
     /\ \/ conn.closed /\ conn' = over /\ UNCHANGED <<rows, shown, used>>
        \/ /\ ~conn.closed /\ KeepRow(conn.opOf.no, e) /\ ShowEvent(conn.opOf.no, e) /\ UNCHANGED used
           /\ conn' = [over EXCEPT !.reference = IF conn.result = "uninstalled" THEN conn.opOf.id ELSE 0]
        \/ ~conn.closed /\ Fault /\ UNCHANGED rows /\ ShowEvent(conn.opOf.no, Event("error", {})) /\ conn' = over
     /\ UNCHANGED <<inv, turn, spec>>

(* close: the run ends; its proposal is gone, an operation goes on unobserved.             *)
Close ==
  /\ ~conn.closed
  /\ conn' = [conn EXCEPT !.closed = TRUE, !.proposal = NoProposal]
  /\ TurnIs(IF turn.at \in {"queued", "aborted", "chat"} THEN [NewTurn EXCEPT !.at = "gone"] ELSE turn)
  /\ UNCHANGED <<inv, spec, rows, shown, used>>

-----------------------------------------------------------------------------
Route == Submit \/ Classify \/ Wait \/ PlanAlone \/ ReadInstall \/ SelectInstall \/ Creators
         \/ ReadInstalled \/ ReadRegistry \/ SelectUninstall \/ Creator
Delivery == FinishTurn \/ DeliverGuidance \/ Propose \/ DeliverPrepared \/ RunJob \/ Execute \/ Install
            \/ Prove \/ Panicked \/ CommitPlan \/ Continue \/ TeamTurnEnds
Uninstall == UninstallReads \/ UninstallCalls \/ UninstallDelivers

(* The ghost: since the message was sent.                                                  *)
Ran == ran' = IF ~Active' THEN {} ELSE IF Active THEN ran \cup RunningIn(inv') ELSE RunningIn(inv)

AssistantsNext ==
  /\ \/ Send \/ Other \/ ProposalExpires \/ SpecGap \/ SpecPlan \/ Route \/ Delivery \/ Stop \/ StopEnds
     \/ Uninstall \/ Close
  /\ Ran

AssistantsSpec == AssistantsInit /\ [][AssistantsNext]_assistantsVars

-----------------------------------------------------------------------------
Endings == {"expired", "cancelled", "uninstalled", "failed"}

(* A directory Team chooses from holds the strongest candidates, and never some of those   *)
(* that score alike while it leaves others out (bounded_pool): whoever is left out scores  *)
(* less than all that are in.                                                              *)
DirectoriesFair ==
  LET offers == PlanningCatalog(Staged, Published)
      identity(a) == IdentityScore(turn.query, About[a].id, About[a].name)
      Fair(S, pool, score(_)) == \A a \in pool, b \in S \ pool : score(b) < score(a)
  IN /\ spec.at = "planning" /\ spec.gap = "some" =>
          Fair(offers \ InstalledIn(spec.inv), spec.shortlist, LAMBDA a : Score(turn.text, a))
     /\ turn.at = "select" => Fair(offers, turn.dir, LAMBDA a : Max({identity(a), Score(turn.query, a)}))
     /\ turn.at = "selectOne" => Fair(InstalledIn(turn.inv) \cap turn.reg, turn.dir \cap turn.reg, identity)

(* What a message says it installed, and what its task is dispatched with beyond the scope *)
(* it was sent with, ran at some time since it was sent (install_and_prove_running,        *)
(* Selection::missing).                                                                    *)
InstalledRan ==
  /\ turn.at = "chat" => turn.out \ turn.scope \subseteq ran
  /\ turn.at \in {"commit", "finish"} /\ turn.end = "installed" => turn.out \subseteq ran

(* What a page is shown as the end of a plan, of guidance or of a proposal is in the       *)
(* history under its message (commit_install, commit_uninstall, deliver_guidance).         *)
ShownIsKept ==
  \A s \in shown : s[2].kind \in Endings \cup {"installed", "halted", "guidance"} => s \in rows

(* A proposal ends once, whatever its answers and however late they come, and only in the  *)
(* turn it was proposed in (resolve, retain_history).                                      *)
ProposalEndsOnce ==
  \A s, t \in shown :
    /\ s[2].kind \in Endings /\ s[2].ids # {} /\ s[1] = t[1] /\ t[2].kind \in Endings => s = t
    /\ s[2].kind \in {"expired", "cancelled"} => <<s[1], Event("proposed", s[2].ids)>> \in shown

(* What is installed ran, what is shown is kept, and every directory and proposal has its   *)
(* turn.                                                                                   *)
PlansKept == DirectoriesFair /\ InstalledRan /\ ShownIsKept /\ ProposalEndsOnce
=============================================================================
