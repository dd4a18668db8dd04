----------------------------- MODULE MCRoutines -----------------------------
(* Two Teams with a run each, one long and one short; one challenge kept and   *)
(* one Team opening at a time.  Each start asks its own question: two due runs *)
(* and a failure; every other standing of a run and a person's call; a frozen  *)
(* run and the calls that open and answer it.                              *)
EXTENDS Routines

CONSTANTS long, short

MCRuns == {long, short}
MCLong == {long}
MCTeamOf == [r \in MCRuns |-> r]

Start(l, s, calls, failures, version) ==
  [status |-> (long :> l) @@ (short :> s), calls |-> calls, faults |-> failures, version |-> version]

MCStarts ==
  {Start("due", "due", 0, 1, 1), Start("waiting", "due", 0, 1, 1), Start("due", "done", 1, 0, 1),
   Start("frozen", "done", 3, 0, 2), Start("frozen", "held", 0, 1, 1), Start("frozen", "frozen", 2, 0, 1)}
    \cup {Start(l, "due", 1, 0, 2) : l \in {"frozen-integration", "held"}}
    \cup {Start(l, "done", 1, 1, 2) : l \in {"waiting", "proposed", "frozen", "frozen-integration", "held"}}
=============================================================================
