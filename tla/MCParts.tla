-------------------------------- MODULE MCParts --------------------------------
(***************************************************************************)
(* The parts of Admin that keep a state of their own and meet the others   *)
(* only by what they answer, for TLC: the Supervisor's sign-in, a chat's   *)
(* Assistants, the catalog, the Integrations' handoffs, Team's answers and *)
(* a page's, and the rows of a transcript.  A behaviour is of one of them; *)
(* the others stay as they began.                                          *)
(***************************************************************************)
EXTENDS SignIn, Integrations, Answers, Rows, Catalog, Assistants

VARIABLE part \* which of them this behaviour is of

-----------------------------------------------------------------------------
PV == INSTANCE AssistantValues
MCFoldOf == PV!Folding
MCAbout == PV!AboutThem
MCAffirmative == PV!Yes
MCNegative == PV!No
MCStaged == PV!StagedThem
MCInventories == PV!Teams
MCMessages == PV!Sends
MCQueries == PV!Asks

-----------------------------------------------------------------------------
CV == INSTANCE CatalogValues
MCStored == CV!MCStored
MCAsks == CV!MCReads

-----------------------------------------------------------------------------
IV == INSTANCE IntegrationValues
MCStarts == IV!MCAuthorizations

-----------------------------------------------------------------------------
AV == INSTANCE AnswerValues
MCLength == AV!MCLength
MCLengthKinds == AV!MCLengthKinds
MCReplies == AV!MCReplies
MCValues == AV!MCValues

-----------------------------------------------------------------------------
RV == INSTANCE RowValues
MCEvents == RV!MCEvents

-----------------------------------------------------------------------------
allVars == <<part, assistantsVars, catalogVars, handoffVars, answerVars, rowVars, vars>>

(* The other parts stay as one of their beginnings.                                        *)
PartsInit ==
  /\ part \in {"assistants", "catalog", "answers", "rows", "integrations", "sign-in"}
  /\ AssistantsInit /\ (part # "assistants" => inv = CHOOSE i \in Inventories : TRUE)
  /\ CatalogInit /\ (part # "catalog" => LET asked == CHOOSE a \in PageReads : TRUE IN reads = [r \in DOMAIN asked |-> NoRead(asked[r])])
  /\ AnswersInit /\ (part # "answers" => reply = CHOOSE r \in Replies : TRUE)
  /\ RowsInit
  /\ HandoffsInit /\ (part # "integrations" => start = CHOOSE s \in Starts : TRUE)
  /\ Init /\ (part # "sign-in" => rec = Fresh)

PartsNext ==
  \/ /\ part = "assistants" /\ AssistantsNext
     /\ UNCHANGED <<part, catalogVars, handoffVars, answerVars, rowVars, vars>>
  \/ /\ part = "catalog" /\ CatalogNext
     /\ UNCHANGED <<part, assistantsVars, handoffVars, answerVars, rowVars, vars>>
  \/ /\ part = "integrations" /\ HandoffsNext
     /\ UNCHANGED <<part, assistantsVars, catalogVars, answerVars, rowVars, vars>>
  \/ /\ part = "answers" /\ AnswersNext
     /\ UNCHANGED <<part, assistantsVars, catalogVars, handoffVars, rowVars, vars>>
  \/ /\ part = "rows" /\ RowsNext
     /\ UNCHANGED <<part, assistantsVars, catalogVars, handoffVars, answerVars, vars>>
  \/ /\ part = "sign-in" /\ Next
     /\ UNCHANGED <<part, assistantsVars, catalogVars, handoffVars, answerVars, rowVars>>

PartsSpec == PartsInit /\ [][PartsNext]_allVars
=============================================================================
