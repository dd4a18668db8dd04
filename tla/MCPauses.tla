------------------------------- MODULE MCPauses -------------------------------
(* Pauses by itself for TLC.                                                   *)
EXTENDS Pauses, PauseValues
=============================================================================
