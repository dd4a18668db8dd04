--------------------------- MODULE MCDurableTurns ---------------------------
(***************************************************************************)
(* DurableTurns for TLC: one send as a model value.                        *)
(***************************************************************************)
EXTENDS DurableTurns

CONSTANT t1

OneTurn == {t1}

=============================================================================
