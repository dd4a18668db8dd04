----------------------------- MODULE AnswerValues -----------------------------
(***************************************************************************)
(* What Team answers, well-formed and not, and what pages answer it.       *)
(***************************************************************************)
EXTENDS Naturals, Sequences, TLC

Texts == {"", "a", "b", "long", "longer"}
MCLength == [t \in Texts |-> CASE t = "" -> 0 [] t \in {"a", "b"} -> 1 [] t = "long" -> 2 [] OTHER -> 3]
MCLengthKinds == ("input:text" :> 2) @@ ("input:textarea" :> 3) @@ ("input:password" :> 2) @@ ("input:phone" :> 1)
Opt(v) == [value |-> v, label |-> "ok", description |-> "null"]
Ask(kind) == [kind |-> kind, ordinal |-> 0, title |-> "ok", description |-> "ok"]
Field(kind, required, min, max) ==
  [kind |-> kind, ordinal |-> 0, title |-> "ok", description |-> "ok", label |-> "ok", required |-> required,
   placeholder |-> "null", min |-> min, max |-> max]
Pick(kind, required, options) ==
  [kind |-> kind, ordinal |-> 0, title |-> "ok", description |-> "ok", label |-> "ok", required |-> required, options |-> options]
Picks(min, max, options) == Pick("input:choices", TRUE, options) @@ [min |-> min, max |-> max]
Stored == Field("input:password", TRUE, 1, 2) @@ [stored_input |-> "ok"]
AB == <<Opt("a"), Opt("b")>>
Requests ==
  {Ask("approval"), Ask("auth:password"), Ask("auth:totp"), [Ask("approval") EXCEPT !.ordinal = 2],
   [Ask("approval") EXCEPT !.title = "bad"], Ask("approval") @@ [label |-> "ok"], Stored,
   Field("input:text", TRUE, 0, 2), Field("input:text", FALSE, 0, 0), Field("input:text", TRUE, 0, 0), Field("input:text", TRUE, 2, 1),
   Field("input:text", FALSE, 0, 3), Field("input:password", TRUE, 1, 2), Field("input:textarea", FALSE, 1, 3),
   Pick("input:select", TRUE, AB), Pick("input:choice", FALSE, AB), Pick("input:choice", TRUE, <<Opt("a")>>),
   Pick("input:choice", TRUE, <<Opt("a"), Opt("")>>), Pick("input:choice", TRUE, <<Opt("a"), Opt("longer")>>),
   Picks(0, 2, AB), Picks(1, 1, <<Opt("a"), Opt("b"), Opt("long")>>), Picks(2, 3, <<Opt("a"), Opt("b"), Opt("long")>>), Picks(3, 3, AB), Picks(1, 2, <<Opt("a"), Opt("a")>>)}
Copy == {"title", "description", "label", "placeholder", "options"}
Rendered(r) ==
  [name \in DOMAIN r \cap Copy |->
     IF name = "options" THEN [n \in DOMAIN r.options |-> [label |-> "ok", description |-> r.options[n].description]]
     ELSE r[name]]
Help == [help |-> "ok", help_url |-> "ok"]
Human(r) ==
  [status |-> "human-required", team |-> "t", challenge |-> "c", turn |-> "c", expires |-> 1, names |-> "ok",
   request |-> r, fingerprint |-> r, rendered |-> Rendered(r), locale |-> "en",
   shows |-> IF r.kind = "input:password" THEN Help ELSE [purpose |-> "ok"]]
Ok == Human(Ask("approval"))
Inp(fields, omitted) == [fields |-> fields, omitted |-> omitted]
Bodies ==
  {Human(r) : r \in Requests} \cup
  {[Ok EXCEPT !.team = "u"], [Ok EXCEPT !.turn = "d"], [Ok EXCEPT !.expires = 0], [Ok EXCEPT !.names = "bad"],
   [Ok EXCEPT !.fingerprint = Field("input:text", TRUE, 1, 1)], [Ok EXCEPT !.locale = "es"], [Ok EXCEPT !.rendered = <<>>],
   [Ok EXCEPT !.shows = [file |-> "ok", input |-> Inp(<<1, 2>>, 1)]], [Ok EXCEPT !.shows = [input |-> Inp(<<1>>, 1)]],
   [Ok EXCEPT !.shows = [input |-> Inp(<<2, 1>>, 0)]], [Ok EXCEPT !.shows = Help],
   [Human(Pick("input:select", TRUE, AB)) EXCEPT !.shows = [file |-> "ok"]],
   [Human(Pick("input:select", TRUE, AB)) EXCEPT !.rendered.options = <<>>]}
Need(a, i) == [assistant |-> a, integration |-> i, names |-> "ok", actions |-> <<1, 2>>]
Gate(needs) == [status |-> "integrations-required", team |-> "t", challenge |-> "c", turn |-> "c", expires |-> 1, requirements |-> needs]
Gates == {Gate(<<Need(1, 1), Need(2, 1)>>), Gate(<<>>), Gate(<<Need(1, 1), Need(1, 1)>>), Gate(<<[Need(1, 1) EXCEPT !.actions = <<1, 1>>]>>), [status |-> "other"]}
Done == [team_id |-> "t", team_name |-> "ok", reply |-> "ok", clarification |-> "null"]
Turns ==
  {Done, [Done EXCEPT !.team_id = "u"], [Done EXCEPT !.clarification = "ok"], [Done EXCEPT !.clarification = "key"], [Done EXCEPT !.reply = "key"],
   [Done EXCEPT !.reply = "empty"], Done @@ [usage |-> "ok", browser |-> "ok"], Done @@ [usage |-> "key"], Done @@ [browser |-> "bad"],
   [Done EXCEPT !.reply = "empty"] @@ [routine_question |-> "ok"], Done @@ [routine_refusal |-> "key"], Done @@ [other |-> "ok"],
   Done @@ [routine_proposal |-> "ok", routine_refusal |-> "ok"], [Done EXCEPT !.clarification = "ok"] @@ [routine_refinement |-> "ok"],
   Done @@ [routine_proposal |-> "bad"]}
Reply(status, body, calls) == [team |-> "t", locale |-> "en", status |-> status, body |-> body, calls |-> calls]
MCReplies ==
  {Reply("challenge", b, 1) : b \in Bodies \cup Gates} \cup {Reply("turn", b, 0) : b \in Turns}
  \cup {Reply("challenge", Human(Ask("auth:password")), 5), [Reply("challenge", [Ok EXCEPT !.locale = "es"], 1) EXCEPT !.locale = "any"]}
  \cup {Reply("denied", [team |-> "t", reason |-> r], 0) : r \in {"denied", "authentication-unavailable", "other"}}
  \cup {Reply("refused", "brain-runtime-failed", 0), Reply("refused", "unknown", 0), Reply("unreached", "", 0), Reply("missing", "", 0),
        Reply("none", [team |-> "t"], 0), Reply("none", [team |-> "u"], 0)}
TextOf(t) == [is |-> "text", text |-> t]
ListOf(s) == [is |-> "list", items |-> s]
MCValues ==
  {[is |-> "true"], [is |-> "other"]} \cup {TextOf(t) : t \in Texts}
  \cup {ListOf(s) : s \in UNION {[1..k -> {"a", "b", "long"}] : k \in 0..2} \cup {<<"longer">>}
                        \cup {s \in [1..3 -> {"a", "b", "long"}] : {s[1], s[2], s[3]} = {"a", "b", "long"}}}
===============================================================================
