------------------------------- MODULE RowValues ------------------------------
(***************************************************************************)
(* What Admin is asked to keep: events it emits, and ones it never does.   *)
(***************************************************************************)
EXTENDS Naturals, Sequences, TLC

Item(id, status) == [id |-> id, made |-> "ok", shown |-> "ok", provenance |-> "published", status |-> status, providers |-> <<1, 2>>]
Plan(state, items) == [type |-> "assistant-install-plan", state |-> state, plan_id |-> "ok", team_id |-> "t", assistants |-> items]
Both == <<Item(1, "installed"), Item(2, "installed")>>
Part == <<Item(1, "installed"), Item(2, "failed")>>
Plans ==
  {Plan("installed", Both) @@ [continuation |-> "dispatch"],
   Plan("installed", Both) @@ [continuation |-> "none", outcome |-> "already-installed"],
   Plan("installed", Both) @@ [continuation |-> "none", outcome |-> "other"],
   Plan("installed", Part) @@ [continuation |-> "none"], Plan("installed", Both) @@ [continuation |-> "later"],
   Plan("installed", Both) @@ [continuation |-> "none", code |-> "assistant-limit-reached"],
   Plan("failed", Part) @@ [status |-> 409, code |-> "assistant-limit-reached"],
   Plan("failed", Part) @@ [status |-> 503, code |-> "assistant-limit-reached"],
   Plan("failed", Part) @@ [status |-> 503], Plan("failed", Part) @@ [status |-> 600], Plan("failed", Part),
   Plan("stopped", Part), Plan("stopped", <<>>), Plan("stopped", <<Item(2, "pending"), Item(1, "pending")>>),
   Plan("stopped", <<[Item(1, "pending") EXCEPT !.providers = <<2, 1>>]>>), Plan("proposed", Part), [Plan("stopped", Part) EXCEPT !.team_id = "u"]}
Gone(state) ==
  [type |-> "assistant-uninstall", state |-> state, proposal_id |-> "ok", assistant_id |-> 1,
   assistant |-> [id |-> 1, shown |-> "ok", made |-> "ok", provenance |-> "local"]]
Removals ==
  {Gone("uninstalled") @@ [team_id |-> "t", uninstalled |-> b] : b \in BOOLEAN}
  \cup {Gone("uninstalled"), Gone("failed") @@ [status |-> 502], Gone("failed") @@ [status |-> 200], Gone("cancelled"), Gone("expired"),
        Gone("proposed"), [Gone("expired") EXCEPT !.assistant_id = 2], [Gone("expired") EXCEPT !.assistant.shown = "lines"]}
Done(reply) == [type |-> "done", team_id |-> "t", team_name |-> "ok", reply |-> reply, clarification |-> "null"]
Step(segment, seq) == [segment |-> segment, seq |-> seq, origin |-> "team"]
Card == [valid |-> TRUE, proposal_id |-> 1, name |-> "ok"]
Receipts ==
  {<<Step(0, 1)>>, <<Step(0, 2), Step(1, 1)>>, <<Step(0, 1), Step(0, 2), Step(1, 1)>>, <<Step(1, 1)>>, <<Step(0, 2), Step(0, 2)>>,
   <<Step(0, 1), Step(2, 1)>>, <<>>, <<[Step(0, 1) EXCEPT !.origin = "admin"]>>}
Dones ==
  {Done(t) : t \in {"ok", "lines", "long", "padded", "empty", "bad"}} \cup {Done("ok") @@ [receipt |-> r] : r \in Receipts}
  \cup {Done("empty") @@ [routine_proposal |-> Card], Done("ok") @@ [routine_refinement |-> Card], Done("empty") @@ [routine_refusal |-> [valid |-> FALSE]],
        Done("ok") @@ [routine_proposal |-> Card, routine_question |-> [valid |-> TRUE]], [Done("lines") EXCEPT !.clarification = "asks"],
        [Done("ok") EXCEPT !.clarification = "asks"], [Done("lines") EXCEPT !.clarification = "asks"] @@ [routine_question |-> [valid |-> TRUE]],
        Done("ok") @@ [usage |-> "ok", browser |-> "ok", receipt |-> <<Step(0, 1)>>],
        Done("ok") @@ [usage |-> "ok", browser |-> "ok", receipt |-> <<Step(0, 1), Step(0, 2), Step(1, 1)>>], Done("ok") @@ [usage |-> "bad"],
        [Done("ok") EXCEPT !.team_name = "lines"], [Done("ok") EXCEPT !.team_id = "u"], Done("ok") @@ [more |-> "ok"]}
Failure(status, detail) == [type |-> "error", status |-> status, detail |-> detail]
Statuses == {[type |-> "stopped"]} \cup {Failure(s, d) : s \in {399, 400, 599, 600}, d \in {"ok", "lines", "long", "padded", "empty", "bad"}}
File(id) == [id |-> id, fields |-> "ok"]
Users ==
  {[type |-> "user", text |-> "ok", files |-> f] : f \in {<<>>, <<File(1)>>, <<File(1), File(2)>>, <<File(1), File(1)>>, <<File(1), File(2), File(3)>>, <<[File(1) EXCEPT !.fields = "bad"]>>}}
  \cup {[type |-> "user", text |-> "padded", files |-> <<>>], [type |-> "guidance", code |-> "ambiguous", reply |-> "lines"],
        [type |-> "guidance", code |-> "other", reply |-> "ok"], [type |-> "guidance", code |-> "ambiguous", reply |-> "bad"]}
Notice(outcome, detail, usage, run) ==
  [type |-> "notice", names |-> "ok", notice_id |-> 1, run_id |-> run, outcome |-> outcome, detail |-> detail, usage |-> usage, version |-> 1,
   protection_lost |-> FALSE]
Notices ==
  {Notice("done", "plan", "run", 1), [Notice("done", "plan", "run", 1) EXCEPT !.version = 2, !.protection_lost = TRUE], Notice("done", "plan", "run", 0),
   Notice("failed", "code", "run", 1), Notice("failed", "plan", "run", 1), Notice("started", "nothing", "run", 1),
   Notice("created", "steps", "turn", 0), Notice("created", "steps", "null", 0), Notice("created", "steps", "run", 0),
   Notice("healthy", "nothing", "run", 0), Notice("healthy", "nothing", "null", 0), Notice("created", "steps", "null", 1),
   [Notice("healthy", "nothing", "run", 0) EXCEPT !.protection_lost = TRUE], Notice("failed", "code", "run", 2)}
Answering == {[type |-> "answer", proposal_id |-> 1, decision |-> d, routine_id |-> r] : d \in {"created", "revoked"}, r \in {0, 5}}
             \cup {[type |-> "answer", proposal_id |-> 2, decision |-> "created", routine_id |-> 5]}
MCEvents == Plans \cup Removals \cup Dones \cup Statuses \cup Users \cup Notices \cup Answering
===============================================================================
