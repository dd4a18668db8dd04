--------------------------------- MODULE Rows ---------------------------------
(***************************************************************************)
(* The shapes of the rows of a transcript.  Every row is checked twice: by *)
(* the writer of its kind, which shapes it from an event                   *)
(* (history/store/{rows,routine}.rs, history/{lifecycle,reply}.rs), and by *)
(* the reader (history/store/{mod,validate}.rs), to which one row it does  *)
(* not admit makes its whole transcript unreadable.  The two are written   *)
(* apart from each other, each with its own conditions.                    *)
(*                                                                         *)
(* A text is "ok", "lines" (more than one line), "long" (more than a line  *)
(* may hold), "padded", "empty" or "bad".  Positions, keys and anchors are *)
(* History's.                                                              *)
(***************************************************************************)
EXTENDS Fields, Naturals, FiniteSets, Sequences

CONSTANTS
  TEAM,             \* the Team of the transcript
  GUIDANCE_CODES, STORED_OUTCOMES, ROUTINE_OUTCOMES, PROPOSAL_STATUSES,
  MAX_CHAT_FILES, MAX_PUBLIC_PROGRESS_EVENTS,
  MAX_ENTRY,        \* the largest row, in parts
  Events,           \* what Admin is asked to keep
  MaxRows           \* bound: the rows of the transcript

VARIABLES
  transcript,       \* the stored rows
  keeping,          \* what was last asked to be kept
  kept              \* whether it was admitted

rowVars == <<transcript, keeping, kept>>

(* What is asked comes as its kind of event: a notice with every field of its own, a card   *)
(* that is valid with a name, and no row is too small for a status.                        *)
EVENT_TYPES ==
  {"assistant-install-plan", "assistant-uninstall", "done", "stopped", "error", "user", "guidance", "notice", "answer"}
NOTICE_FIELDS == {"notice_id", "run_id", "names", "outcome", "detail", "usage", "version", "protection_lost"}
EventsShaped ==
  /\ MAX_ENTRY \in Nat /\ MAX_ENTRY >= 4
  /\ \A e \in Events :
       /\ e.type \in EVENT_TYPES
       /\ e.type = "notice" => NOTICE_FIELDS \subseteq DOMAIN e
       /\ \A name \in DOMAIN e \cap {"routine_proposal", "routine_refinement"} : e[name].valid => e[name].name = "ok"
ASSUME RowsAssumption == EventsShaped

Invalid == [kind |-> "invalid"]
NothingYet == [type |-> "none"]

-----------------------------------------------------------------------------
(* Texts, files and the other parts both sides check.                                      *)


Only(r, names) == [name \in DOMAIN r \cap names |-> r[name]]
Increasing(s) == \A n \in 1..Len(s) - 1 : s[n] < s[n + 1]

PublicText(text) == text \in {"ok", "plain"}

(* chat_text.                                                                              *)
ChatText(text) == text \in {"ok", "lines", "long"}

(* reply_text: empty only beside a Routine card, question or refusal.                      *)
ReplyText(text, carrier) == ChatText(text) \/ (text = "empty" /\ DOMAIN carrier \cap ROUTINE_FIELDS # {})

(* render_clarification: its lines.                                                        *)
Rendered(clarification) == "lines"

(* file_reference, file_references: as many as a message may carry, none twice.            *)
FileReferences(files) ==
  /\ Len(files) \in 1..MAX_CHAT_FILES
  /\ \A n \in DOMAIN files : files[n].fields = "ok"
  /\ Cardinality({files[n].id : n \in DOMAIN files}) = Len(files)

(* admit_routine_fields, routine_reply.                                                    *)
RoutineReply(carrier, clarification) ==
  LET present == DOMAIN carrier \cap ROUTINE_FIELDS
  IN /\ Cardinality(present) <= 1 /\ (present # {} => clarification = "null")
     /\ \A name \in present : carrier[name].valid

(* receipt_event, receipt: Team's own steps, numbered by delivery from 0 and, within one,  *)
(* by an increasing sequence.                                                              *)
Receipt(items) ==
  /\ Len(items) \in 1..MAX_PUBLIC_PROGRESS_EVENTS
  /\ \A n \in DOMAIN items :
       /\ items[n].origin = "team" /\ items[n].seq \in 1..MAX_PUBLIC_PROGRESS_EVENTS
       /\ IF n = 1 THEN items[n].segment = 0
          ELSE \/ items[n].segment = items[n - 1].segment /\ items[n].seq > items[n - 1].seq
               \/ items[n].segment = items[n - 1].segment + 1

StatusCode(r) == "status" \in DOMAIN r /\ r.status \in 400..599

(* install_assistant, providers: in the order of their names.                              *)
InstallAssistant(item) ==
  /\ item.id > 0 /\ item.made = "ok" /\ PublicText(item.shown)
  /\ item.provenance \in {"local", "published"} /\ item.status \in {"pending", "installed", "failed"}
  /\ Len(item.providers) <= 32 /\ Increasing(item.providers)

(* install_assistants: up to four, in the order of their ids.                              *)
InstallAssistants(items) ==
  /\ Len(items) \in 1..4 /\ \A n \in DOMAIN items : InstallAssistant(items[n])
  /\ Increasing([n \in DOMAIN items |-> items[n].id])

AllInstalled(items) == \A n \in DOMAIN items : items[n].status = "installed"

UninstallAssistant(item) ==
  /\ DOMAIN item = {"id", "shown", "made", "provenance"}
  /\ item.id > 0 /\ item.made = "ok" /\ PublicText(item.shown) /\ item.provenance \in {"local", "published"}

(* detail_rule, canonical_notice_detail: what each outcome says of itself.                 *)
NoticeDetail(outcome, detail) ==
  CASE outcome \in {"done", "recovered"} -> detail \in {"plan", "plan with output"}
    [] outcome = "created"               -> detail = "steps"
    [] outcome = "failed"                -> detail = "code"
    [] OTHER                             -> detail = "nothing"

(* notice_usage: a run spends; a Routine's own event only when it was made.                *)
NoticeUsage(outcome, usage) ==
  CASE outcome = "created" -> usage \in {"null", "turn"}
    [] outcome \in ROUTINE_OUTCOMES \ {"created", "healthy"} -> usage = "null"
    [] OTHER -> usage = "run"

-----------------------------------------------------------------------------
(* The reader.                                                                             *)

(* validate_stored_install.                                                                *)
StoredInstall(p) ==
  /\ DOMAIN p = {"kind", "state", "assistants"} \cup (IF p.state = "failed" THEN {"status"} ELSE {})
                \cup (DOMAIN p \cap {"outcome", "code"})
  /\ p.state \in {"installed", "failed", "stopped"}
  /\ InstallAssistants(p.assistants) /\ (p.state = "installed" => AllInstalled(p.assistants))
  /\ "outcome" \in DOMAIN p => p.state = "installed" /\ p.outcome = "already-installed"
  /\ p.state = "failed" => StatusCode(p)
  /\ "code" \in DOMAIN p => p.state = "failed" /\ p.status = 409 /\ p.code = "assistant-limit-reached"

(* validate_stored_uninstall.                                                              *)
StoredUninstall(p) ==
  /\ p.state \in {"uninstalled", "failed", "cancelled", "expired"}
  /\ DOMAIN p = {"kind", "state", "assistant"}
                \cup (CASE p.state = "uninstalled" -> {"uninstalled"} [] p.state = "failed" -> {"status"} [] OTHER -> {})
  /\ UninstallAssistant(p.assistant)
  /\ p.state = "uninstalled" => p.uninstalled \in BOOLEAN
  /\ p.state = "failed" => StatusCode(p)

(* assistant_extras.                                                                       *)
AssistantExtras(p) ==
  /\ "clarification" \in DOMAIN p => p.clarification = "asks" /\ p.text = Rendered(p.clarification)
  /\ \A name \in DOMAIN p \cap {"usage", "browser"} : p[name] = "ok"
  /\ "receipt" \in DOMAIN p => Receipt(p.receipt)
  /\ RoutineReply(p, IF "clarification" \in DOMAIN p THEN p.clarification ELSE "null")

(* message.                                                                                *)
StoredMessage(p) ==
  \/ /\ p.role = "user" /\ DOMAIN p \ {"files"} = {"kind", "role", "text"}
     /\ "files" \in DOMAIN p => FileReferences(p.files)
     /\ ChatText(p.text)
  \/ /\ p.role = "assistant" /\ AssistantExtras(p)
     /\ DOMAIN p \ ({"clarification", "receipt"} \cup OPTIONAL_DONE_FIELDS) = {"kind", "role", "text", "author"}
     /\ ReplyText(p.text, p) /\ PublicText(p.author)

(* status.                                                                                 *)
StoredStatus(p) ==
  \/ p.state = "stopped" /\ DOMAIN p = {"kind", "state"}
  \/ /\ p.state = "failed" /\ DOMAIN p = {"kind", "state", "status", "detail"}
     /\ StatusCode(p) /\ PublicText(p.detail)

(* guidance.                                                                               *)
StoredGuidance(p) == DOMAIN p = {"kind", "code", "reply"} /\ p.code \in GUIDANCE_CODES /\ ChatText(p.reply)

(* routine_run: the run's own row, under its notice's id.                                  *)
StoredNotice(p) ==
  LET ofRoutine == p.outcome \in ROUTINE_OUTCOMES
  IN /\ p.outcome \in STORED_OUTCOMES /\ NoticeDetail(p.outcome, p.detail) /\ NoticeUsage(p.outcome, p.usage)
     /\ p.names = "ok" /\ p.version >= 1 /\ p.run_id = (IF ofRoutine THEN 0 ELSE p.notice_id)
     /\ ~(ofRoutine /\ p.protection_lost)

(* routine_answer.                                                                         *)
StoredAnswer(p) ==
  DOMAIN p = {"kind", "proposal_id", "decision", "name"} /\ p.decision \in PROPOSAL_STATUSES /\ p.name = "ok"

(* How much of a row each part takes.                                                      *)
RowSize(p) == Cardinality(DOMAIN p) + (IF "receipt" \in DOMAIN p THEN Len(p.receipt) ELSE 0)

(* decoded, payload.                                                                       *)
Decoded(p) ==
  /\ RowSize(p) <= MAX_ENTRY
  /\ CASE p.kind = "message"             -> StoredMessage(p)
       [] p.kind = "assistant-install"   -> StoredInstall(p)
       [] p.kind = "assistant-uninstall" -> StoredUninstall(p)
       [] p.kind = "guidance"            -> StoredGuidance(p)
       [] p.kind = "routine-run"         -> StoredNotice(p)
       [] p.kind = "routine-answer"      -> StoredAnswer(p)
       [] p.kind = "status"              -> StoredStatus(p)
       [] OTHER                          -> FALSE

-----------------------------------------------------------------------------
(* The writers: the row an event becomes, or Invalid.                                      *)

(* install_expected: each state's own fields.                                              *)
InstallExpected(e) ==
  {"type", "state", "plan_id", "team_id", "assistants"}
  \cup (CASE e.state = "installed" -> {"continuation"} \cup (DOMAIN e \cap {"outcome"})
          [] e.state = "failed"    -> {"status"} \cup (DOMAIN e \cap {"code"})
          [] OTHER                 -> {})

(* A bug: a failed plan's code is not compared with its status.                            *)
CodeOfAnyStatus(e) == "code" \in DOMAIN e => e.code = "assistant-limit-reached"

(* code_valid: only of the answer it is the code of.                                       *)
CodeValid(e) == "code" \in DOMAIN e => e.status = 409 /\ e.code = "assistant-limit-reached"

(* install_result_valid.                                                                   *)
InstallResultValid(e) ==
  /\ e.state = "installed" =>
       /\ e.continuation \in {"dispatch", "none"} /\ AllInstalled(e.assistants)
       /\ "outcome" \in DOMAIN e => e.outcome = "already-installed"
  /\ e.state = "failed" => StatusCode(e) /\ CodeValid(e)

(* install_payload, install_stored.                                                        *)
InstallPayload(e) ==
  IF /\ e.state \in {"installed", "failed", "stopped"} /\ DOMAIN e = InstallExpected(e)
     /\ e.team_id = TEAM /\ e.plan_id = "ok" /\ InstallAssistants(e.assistants) /\ InstallResultValid(e)
  THEN [name \in {"kind"} \cup (DOMAIN e \cap {"state", "assistants", "status", "code", "outcome"}) |->
          IF name = "kind" THEN "assistant-install" ELSE e[name]]
  ELSE Invalid

(* uninstall_payload, of the Assistant as the page was shown it.                           *)
UninstallPayload(e) ==
  LET assistant == e.assistant
      fields == {"type", "state", "proposal_id", "assistant_id", "assistant"}
                \cup (CASE e.state = "uninstalled" -> {"team_id", "uninstalled"} [] e.state = "failed" -> {"status"} [] OTHER -> {})
  IN IF /\ e.state \in {"uninstalled", "failed", "cancelled", "expired"}
        /\ UninstallAssistant(assistant) /\ DOMAIN e = fields /\ e.proposal_id = "ok" /\ e.assistant_id = assistant.id
        /\ e.state = "uninstalled" => e.team_id = TEAM /\ e.uninstalled \in BOOLEAN
        /\ e.state = "failed" => StatusCode(e)
     THEN [name \in {"kind"} \cup (DOMAIN e \cap {"state", "assistant", "uninstalled", "status"}) |->
             IF name = "kind" THEN "assistant-uninstall" ELSE e[name]]
     ELSE Invalid

(* done_shape.                                                                             *)
DoneShape(e) ==
  DOMAIN e \ (OPTIONAL_DONE_FIELDS \cup {"receipt"}) = {"type", "team_id", "team_name", "reply", "clarification"} /\ e.team_id = TEAM

(* reply_extras: a clarification is what its reply says.                                   *)
ReplyExtras(e) ==
  /\ e.clarification # "null" => e.clarification = "asks" /\ e.reply = Rendered(e.clarification)
  /\ \A name \in DOMAIN e \cap {"usage", "browser"} : e[name] = "ok"

(* A bug: a reply keeps its receipt at any size.                                           *)
FittedWhole(entry) == entry

(* A receipt that would make the row too large is left out.                                *)
Fitted(entry) == IF RowSize(entry) > MAX_ENTRY THEN Only(entry, DOMAIN entry \ {"receipt"}) ELSE entry

(* reply_entry.                                                                            *)
ReplyEntry(e) ==
  LET parts == (DOMAIN e \cap (OPTIONAL_DONE_FIELDS \cup {"receipt"}))
               \cup (IF e.clarification = "null" THEN {} ELSE {"clarification"})
      entry == [name \in parts \cup {"kind", "role", "text", "author"} |->
                  CASE name = "kind" -> "message" [] name = "role" -> "assistant"
                    [] name = "text" -> e.reply [] name = "author" -> e.team_name [] OTHER -> e[name]]
  IN IF /\ DoneShape(e) /\ PublicText(e.team_name) /\ ReplyText(e.reply, e) /\ ReplyExtras(e)
        /\ RoutineReply(e, e.clarification) /\ ("receipt" \in DOMAIN e => Receipt(e.receipt))
     THEN Fitted(entry) ELSE Invalid

(* status_detail: on one line, cut, or a plain one.                                        *)
StatusDetail(detail) == IF detail \in {"ok", "lines", "long", "padded"} THEN "ok" ELSE "plain"

(* status_payload.                                                                         *)
StatusPayload(e) ==
  IF e.type = "stopped" THEN [kind |-> "status", state |-> "stopped"]
  ELSE LET p == [kind |-> "status", state |-> "failed", status |-> e.status, detail |-> StatusDetail(e.detail)]
       IN IF StoredStatus(p) THEN p ELSE Invalid

(* append_user, append_guidance: the text as it was admitted.                              *)
UserPayload(e) ==
  IF ChatText(e.text) /\ (e.files # <<>> => FileReferences(e.files))
  THEN [name \in {"kind", "role", "text"} \cup (IF e.files = <<>> THEN {} ELSE {"files"}) |->
          CASE name = "kind" -> "message" [] name = "role" -> "user" [] OTHER -> e[name]]
  ELSE Invalid

GuidancePayload(e) ==
  IF e.code \in GUIDANCE_CODES /\ ChatText(e.reply) THEN [kind |-> "guidance", code |-> e.code, reply |-> e.reply] ELSE Invalid

(* canonical_notice.                                                                       *)
CanonicalNotice(e) ==
  LET ofRoutine == e.outcome \in ROUTINE_OUTCOMES
  IN /\ e.names = "ok" /\ e.version >= 1 /\ ((e.run_id = 0) <=> ofRoutine) /\ e.run_id \in {0, e.notice_id}
     /\ NoticeDetail(e.outcome, e.detail) /\ NoticeUsage(e.outcome, e.usage)
     /\ ofRoutine => ~e.protection_lost

(* notice_payload.                                                                         *)
NoticePayload(e) ==
  IF CanonicalNotice(e)
  THEN [name \in {"kind"} \cup (DOMAIN e \ {"type"}) |-> IF name = "kind" THEN "routine-run" ELSE e[name]]
  ELSE Invalid

(* The card a reply carries: a recording's, or a refinement's.                             *)
CardOf(p) ==
  IF p.kind # "message" THEN {}
  ELSE {p[name] : name \in DOMAIN p \cap {"routine_proposal", "routine_refinement"}}

(* canonical_proposal_answer: of the Routine it made or changed.                           *)
CanonicalAnswer(e) == e.decision \in PROPOSAL_STATUSES /\ ((e.routine_id = 0) <=> (e.decision = "revoked"))

(* append_proposal_answer: under its card's name.                                          *)
AnswerPayload(e, card) == [kind |-> "routine-answer", proposal_id |-> e.proposal_id, decision |-> e.decision, name |-> card.name]

-----------------------------------------------------------------------------
(* Asked to keep an event: what its writer shapes, when it is not too large.               *)

Keep(p) ==
  /\ kept' = (p # Invalid /\ RowSize(p) <= MAX_ENTRY)
  /\ transcript' = IF kept' THEN transcript \cup {p} ELSE transcript

Shaped(e) ==
  CASE e.type = "assistant-install-plan" -> InstallPayload(e)
    [] e.type = "assistant-uninstall"    -> UninstallPayload(e)
    [] e.type = "done"                   -> ReplyEntry(e)
    [] e.type \in {"stopped", "error"}   -> StatusPayload(e)
    [] e.type = "user"                   -> UserPayload(e)
    [] e.type = "guidance"               -> GuidancePayload(e)

Write ==
  \E e \in Events :
    /\ e.type \notin {"notice", "answer"}
    /\ keeping' = e /\ Keep(Shaped(e))

(* append_routine_notice: one no view shows is kept nowhere; a newer one replaces the      *)
(* run's row, and an older one does not.                                                   *)
WriteNoticeRow ==
  \E e \in Events :
    LET rows == {p \in transcript : p.kind = "routine-run" /\ p.notice_id = e.notice_id}
        p == IF RowSize(NoticePayload(e)) <= MAX_ENTRY THEN NoticePayload(e) ELSE Invalid
    IN /\ e.type = "notice" /\ keeping' = e
       /\ IF p # Invalid /\ e.outcome \in STORED_OUTCOMES /\ \A row \in rows : row.version < e.version
          THEN kept' = TRUE /\ transcript' = (transcript \ rows) \cup {p}
          ELSE kept' = (p # Invalid) /\ UNCHANGED transcript

(* append_proposal_answer: once, and only of a card the transcript holds.                  *)
WriteAnswer ==
  \E e \in Events :
    /\ e.type = "answer" /\ keeping' = e
    /\ \/ /\ \/ ~CanonicalAnswer(e)
             \/ \A p \in transcript : \A card \in CardOf(p) : card.proposal_id # e.proposal_id
          /\ kept' = FALSE /\ UNCHANGED transcript
       \/ \E p \in transcript : \E card \in CardOf(p) :
            /\ CanonicalAnswer(e) /\ card.proposal_id = e.proposal_id
            /\ IF \E row \in transcript : row.kind = "routine-answer" /\ row.proposal_id = e.proposal_id
               THEN kept' = TRUE /\ UNCHANGED transcript
               ELSE Keep(AnswerPayload(e, card))

RowsInit == transcript = {} /\ keeping = NothingYet /\ kept = TRUE

RowsNext ==
  \/ Cardinality(transcript) < MaxRows /\ (Write \/ WriteNoticeRow)
  \/ WriteAnswer

RowsSpec == RowsInit /\ [][RowsNext]_rowVars

-----------------------------------------------------------------------------
(* One row the reader does not admit makes its Team's whole transcript unreadable, for     *)
(* good: every row a writer stored, each by conditions of its own, is one it admits.       *)
RowsReadable == \A p \in transcript : Decoded(p)

(* An ending is never lost for what surrounds it: not a failure for how its detail reads,  *)
(* nor a reply for the size of the receipt beside it.                                      *)
EndingsKept ==
  ~kept =>
    /\ keeping.type # "stopped"
    /\ keeping.type = "error" => ~StatusCode(keeping)
    /\ keeping.type = "done" /\ "receipt" \in DOMAIN keeping /\ Receipt(keeping.receipt) =>
         LET bare == ReplyEntry(Only(keeping, DOMAIN keeping \ {"receipt"}))
         IN bare = Invalid \/ RowSize(bare) > MAX_ENTRY

(* What a writer admits can be read, and an ending is always admitted.                     *)
RowsKept == RowsReadable /\ EndingsKept
=============================================================================
