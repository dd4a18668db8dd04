-------------------------- MODULE AssistantValues --------------------------
(* Three Assistants: a mail and a calendar one published, a staged mail one  *)
(* that goes by a similar name.                                              *)
EXTENDS TLC

CONSTANT Nothing \* punctuation, folded

Texts(id, name, summary, integrations, actions) ==
  [id |-> id, name |-> name, summary |-> summary, integrations |-> integrations, actions |-> actions]

AboutThem ==
  <<Texts(<<"mail">>, <<"Team", "Mail">>, <<"Reads", "mail">>, {<<"post">>}, {<<"send", "mail">>}),
    Texts(<<"plan">>, <<"Team", "Plan">>, <<"Keeps", "dates">>, {<<"post">>}, {<<"book">>}),
    Texts(<<"chart">>, <<"Chart">>, <<"Draws">>, {}, {<<"draw">>})>>

Folding ==
  [w \in {"mail", "team", "reads", "post", "send", "plan", "keeps", "dates", "book", "chart", "draws", "draw",
          "yes", "no", "the"} |-> w]
  @@ [w \in {"Mail", "Team", "Reads", "Plan", "Keeps", "Chart", "Draws", "Yes", "!"} |->
       CASE w = "Mail" -> "mail" [] w = "Team" -> "team" [] w = "Reads" -> "reads" [] w = "Plan" -> "plan"
         [] w = "Keeps" -> "keeps" [] w = "Chart" -> "chart" [] w = "Draws" -> "draws" [] w = "Yes" -> "yes"
         [] OTHER -> Nothing]

Image(id, image, created, admission) == [id |-> id, image |-> image, created |-> created, admission |-> admission]

StagedThem == {Image(3, 1, 2, "admissible"), Image(3, 2, 1, "refused")}

Runs(v, status) == [version |-> v, status |-> status]
Teams ==
  {<<Runs(0, "none"), Runs(0, "none"), Runs(0, "none")>>,
   <<Runs(1, "running"), Runs(0, "none"), Runs(1, "invalid")>>}

Sends ==
  {[text |-> <<"send", "the", "post", "!">>, scope |-> {}, files |-> FALSE, resume |-> FALSE],
   [text |-> <<"draw">>, scope |-> {1}, files |-> FALSE, resume |-> TRUE],
   [text |-> <<"book">>, scope |-> {}, files |-> TRUE, resume |-> FALSE],
   [text |-> <<"Yes", "!">>, scope |-> {}, files |-> FALSE, resume |-> FALSE],
   [text |-> <<"no">>, scope |-> {}, files |-> FALSE, resume |-> FALSE]}

Asks == {<<"Mail">>, <<"Team">>}
Yes == {<<"yes">>}
No == {<<"no">>}
=============================================================================
