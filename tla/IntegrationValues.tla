--------------------------- MODULE IntegrationValues --------------------------
(***************************************************************************)
(* Which pages ask for which authorization, how many handoffs the store    *)
(* holds, and how many calls are made.                                     *)
(***************************************************************************)
EXTENDS Naturals

From(pages, capacity, most) == [pages |-> pages, capacity |-> capacity, calls |-> most]
MCAuthorizations == {From({<<"s1", "c1", "loopback">>, <<"s2", "c1", "out-of-band">>}, 2, 2),
             From({<<"s1", "c1", "local-domain">>, <<"s1", "c1", "out-of-band">>}, 2, 2),
             From({<<"s1", "c1", "loopback">>}, 2, 3),
             From({<<"s1", "c1", "loopback">>, <<"s1", "c2", "loopback">>, <<"s1", "c2", "refused">>}, 1, 2)}
===============================================================================
