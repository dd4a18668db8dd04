-------------------------------- MODULE Fields --------------------------------
(***************************************************************************)
(* The fields a turn's answer may have beside those it must have, which    *)
(* the page's projection (Answers) and the store's writer and reader       *)
(* (Rows) each admit.                                                      *)
(***************************************************************************)

ROUTINE_FIELDS == {"routine_proposal", "routine_refinement", "routine_refusal", "routine_question"}
OPTIONAL_DONE_FIELDS == {"usage", "browser"} \cup ROUTINE_FIELDS
===============================================================================
