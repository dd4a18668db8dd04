------------------------------- MODULE MCGate -------------------------------
(***************************************************************************)
(* Gate for TLC: a few operations as model values.                         *)
(***************************************************************************)
EXTENDS Gate, TLC

CONSTANTS o1, o2, o3

ThreeOps == {o1, o2, o3}

(* Whoever waits is granted, or leaves, in the end. No operation differs   *)
(* from another: what holds of one, whatever the others do, holds of all.  *)
WaiterServed == Served(o1)

=============================================================================
