------------------------------ MODULE PauseValues ------------------------------
(* What the starts of Pauses allow, for TLC: one Team with two turns at most.   *)
(* Each start asks its own question: Stops and the run's end around one turn,   *)
(* syncs and answers around a paused one, and the turns that cross.             *)
EXTENDS Naturals

Budget(turns, stops, syncs, faults, ends) ==
  [turns |-> turns, stops |-> stops, syncs |-> syncs, faults |-> faults, ends |-> ends]

MCBudgets ==
  {Budget(1, 2, 2, 1, 0), Budget(1, 1, 1, 1, 1), Budget(1, 1, 2, 2, 0), Budget(1, 0, 2, 1, 1),
   Budget(2, 0, 2, 1, 0), Budget(2, 1, 2, 0, 0), Budget(2, 0, 1, 1, 1)}
=============================================================================
