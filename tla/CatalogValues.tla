----------------------------- MODULE CatalogValues ----------------------------
(***************************************************************************)
(* What the Store publishes, one state after the other, and what pages ask. *)
(* An icon that is too large, a catalog in the wrong language and one that *)
(* repeats an Action are among it.                                         *)
(***************************************************************************)
EXTENDS TLC

Act(id, asks) == [id |-> id, requests |-> asks]
Ic(n, size) == [of |-> n, size |-> size]
Pub(id, icon, size) ==
  [id |-> id, texts |-> TRUE, actions |-> <<Act(1, <<"approval", "input:text">>), Act(2, <<>>)>>, integrations |-> <<1, 2>>,
   inputs |-> <<1>>, icon |-> icon, size |-> size]
Small == Pub(1, Ic(1, 1), 2)
SmallAgain == Pub(1, Ic(4, 1), 2)
Twice == Pub(2, Ic(2, 2), 2)
Third == Pub(3, Ic(3, 1), 1)
Huge == Pub(3, Ic(5, 4), 9)
Bad == [Pub(2, Ic(2, 1), 1) EXCEPT !.actions = <<Act(1, <<>>), Act(1, <<>>)>>]
Raw(locale, items) == [locale |-> locale, items |-> items]
Both(items) == ("en" :> Raw("en", items)) @@ ("es" :> Raw("es", items))
MCStored ==
  <<Both(<<Small, Twice, Third>>), Both(<<SmallAgain, Third>>),
    ("en" :> Raw("en", <<Small, Small>>)) @@ ("es" :> Raw("en", <<Small>>)), Both(<<Small, Bad>>), Both(<<Small, Huge>>)>>
Pages(l) == [kind |-> "pages", locale |-> l]
IconOf(n) == [kind |-> "icon", id |-> n]
MCReads == {<<Pages("en"), IconOf(1)>>, <<IconOf(1), IconOf(1), IconOf(2)>>, <<Pages("es"), Pages("es")>>}
===============================================================================
