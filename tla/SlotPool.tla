------------------------------ MODULE SlotPool ------------------------------
(***************************************************************************)
(* What a bounded pool of slots promises, whatever queue stands before it: *)
(* work enters only while the pool is within its bound, and a bound that   *)
(* is lowered evicts nobody -- those who hold a slot leave as they end.    *)
(* Gate and Lane are both shown to implement it.                           *)
(***************************************************************************)
EXTENDS Naturals, FiniteSets

CONSTANTS Workers,      \* whoever may hold a slot
          Bounds        \* the bounds the pool may be given

VARIABLES bound,        \* how many may hold a slot at once
          held          \* those who hold one

vars == <<bound, held>>

Init == bound \in Bounds /\ held = {}

(* Some holders leave, then some workers enter, never beyond the bound. *)
Change(gone, came) ==
  /\ held' = (held \ gone) \cup came
  /\ came # {} => Cardinality(held') <= bound'

Next ==
  /\ bound' \in Bounds
  /\ \E gone \in SUBSET held, came \in SUBSET (Workers \ held) : Change(gone, came)

Spec == Init /\ [][Next]_vars
=============================================================================
