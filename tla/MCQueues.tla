------------------------------- MODULE MCQueues -------------------------------
(* Three jobs of a lane that differ in nothing; one topic with one page. *)
EXTENDS Queues
CONSTANTS j1, j2, j3
ThreeJobs == {j1, j2, j3}
=============================================================================
