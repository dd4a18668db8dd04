------------------------------- MODULE Answers -------------------------------
(***************************************************************************)
(* What Team answers a chat call as a page is shown it, and what the page  *)
(* answers a human request with: the projection of Team's answer           *)
(* (chat/local/{turn,challenge,mod}.rs, chat/human.rs), the events it      *)
(* becomes (chat/projection.rs), and the answer checked against the        *)
(* request shown, an Action password by the one bounded ceremony chat and  *)
(* Routine runs share (chat/human.rs: ActionPasswords).                    *)
(*                                                                         *)
(* A text is a name with a length; a copy reference, an id or a rendering  *)
(* is "ok", "null" or "bad".  A fingerprint is the request it was taken    *)
(* of.  A password check is cut where it waits for the ceremony and where  *)
(* it runs on another thread.                                              *)
(***************************************************************************)
EXTENDS Fields, Naturals, FiniteSets, Sequences, SequencesExt

CONSTANTS
  Length,           \* how long each text is: a function of the texts
  PASSWORD,         \* the text that is the Supervisor's password
  LENGTH_KINDS,     \* the longest answer of each kind that is a text
  MAX_OPTIONS, MAX_OPTION_CHARS, MAX_REQUESTS_PER_ACTION, MAX_TTL_SECONDS, MAX_REQUIREMENTS, MAX_INPUT_FIELDS,
  MAX_HUMAN_TEXT_CHARS, MAX_HUMAN_CHOICES, MAX_HUMAN_CHOICE_CHARS, MAX_AUTH_SECRET_CHARS,
  MAX_PASSWORD_ATTEMPTS, PASSWORD_LOCK,
  Replies,          \* what Team may answer, each with the Team and the locale it was asked for and,
                    \* a bound, how many answers are made to what it shows
  Values,           \* what a page may answer
  MaxClock          \* bound: how long the ceremony is watched

VARIABLES
  reply,    \* what Team answered
  event,    \* what the page is shown of it
  answers,  \* each answer a page or a Routine page makes: where it is, its value
  passwords,\* ActionPasswords: the failures, until when it is locked, and the answer that holds it, or 0
  clock,
  told,     \* what Team was told: a decision, a value, and the password an assurance was given for
  checked   \* the checks that ended since the last password that was right: when each wrong one did

answerVars == <<reply, event, answers, passwords, clock, told, checked>>

NoEvent == [type |-> "none"]
NOTHING == [is |-> "nothing"]
NoAnswer == [at |-> "page", value |-> NOTHING, failures |-> 0]
Unlocked == [failures |-> 0, until |-> 0, holder |-> 0]

-----------------------------------------------------------------------------
(* What is counted, and what comes from outside.                                           *)

(* The bounds of a frame and of a request are set apart: none of a request's is above the  *)
(* frame's (websocket/mod.rs, challenge.rs, human.rs).                                     *)
BoundsOrdered ==
  /\ Length \in [DOMAIN Length -> Nat]
  /\ MAX_HUMAN_TEXT_CHARS \in Nat /\ MAX_AUTH_SECRET_CHARS \in 1..MAX_HUMAN_TEXT_CHARS
  /\ \A kind \in DOMAIN LENGTH_KINDS : LENGTH_KINDS[kind] \in 0..MAX_HUMAN_TEXT_CHARS
  /\ MAX_HUMAN_CHOICES \in Nat /\ MAX_OPTIONS \in 0..MAX_HUMAN_CHOICES
  /\ MAX_HUMAN_CHOICE_CHARS \in Nat /\ MAX_OPTION_CHARS \in 0..MAX_HUMAN_CHOICE_CHARS
  /\ MAX_OPTION_CHARS <= MAX_HUMAN_TEXT_CHARS
  /\ MAX_PASSWORD_ATTEMPTS \in Nat \ {0} /\ PASSWORD_LOCK \in Nat \ {0}

(* The kinds a text answers are none of the others.                                        *)
KindsApart ==
  DOMAIN LENGTH_KINDS \cap {"approval", "auth:password", "input:select", "input:choice", "input:choices"} = {}

(* What Team answers is JSON of one of these statuses; numbers are numbers, options a list *)
(* of texts, a Team is not named as the key is.                                            *)
RepliesShaped ==
  \A r \in Replies :
    /\ r.status \in {"unreached", "missing", "challenge", "denied", "refused", "turn", "none"}
    /\ r.team # "key" /\ r.calls \in Nat
    /\ r.status = "none" => "team" \in DOMAIN r.body
    /\ r.status = "challenge" /\ r.body.status = "human-required" =>
         LET asked == r.body.request
         IN /\ {"min", "max"} \subseteq DOMAIN asked => asked.min \in Nat /\ asked.max \in Nat
            /\ "options" \in DOMAIN asked =>
                 /\ asked.options = [n \in 1..Len(asked.options) |-> asked.options[n]]
                 /\ \A n \in 1..Len(asked.options) : asked.options[n].value \in DOMAIN Length

(* What a page answers: any text and any list of different texts an option may be, and     *)
(* other values of these forms.                                                            *)
Text(t) == [is |-> "text", text |-> t]
List(s) == [is |-> "list", items |-> s]
ValuesShaped ==
  /\ [is |-> "true"] \in Values
  /\ \A t \in DOMAIN Length : Text(t) \in Values
  /\ \A n \in 0..MAX_HUMAN_TEXT_CHARS : \E t \in DOMAIN Length : Length[t] = n
  /\ \A k \in 0..MAX_OPTIONS : \A s \in [1..k -> {t \in DOMAIN Length : Length[t] \in 1..MAX_OPTION_CHARS}] :
       IsInjective(s) => List(s) \in Values
  /\ \A v \in Values :
       /\ v.is = "true" => v = [is |-> "true"]
       /\ v.is = "text" => v = Text(v.text) /\ v.text \in DOMAIN Length
       /\ v.is = "list" => v = List(v.items) /\ v.items \in [1..Len(v.items) -> DOMAIN Length] /\ Len(v.items) \in Nat

AnswersShaped == BoundsOrdered /\ KindsApart /\ RepliesShaped /\ ValuesShaped
ASSUME AnswersAssumption == AnswersShaped

-----------------------------------------------------------------------------
(* The shape of a human request.                                                           *)

AUTH_KINDS == {"auth:password"}
AUTHORIZATION_KINDS == {"approval"} \cup AUTH_KINDS
CHOICE_KINDS == {"input:select", "input:choice"}
COPY == {"title", "description", "label", "placeholder"}
Base == {"kind", "ordinal", "title", "description"}

(* reference, param.                                                                       *)
Reference(ref) == ref = "ok"
Optional(ref) == ref \in {"null", "ok"}

(* input_base, length.                                                                     *)
LengthValid(r) ==
  /\ Reference(r.label) /\ Optional(r.placeholder)
  /\ r.min <= r.max /\ r.max <= LENGTH_KINDS[r.kind]

(* option, plain_text.                                                                     *)
OptionValid(o) ==
  Length[o.value] \in 1..MAX_OPTION_CHARS /\ Reference(o.label) /\ Optional(o.description)

(* A bug: two options may have one value.                                                  *)
OptionsRepeated(r) ==
  Reference(r.label) /\ Len(r.options) \in 2..MAX_OPTIONS /\ \A n \in DOMAIN r.options : OptionValid(r.options[n])

(* choices: from two options up, each with its own value.                                  *)
OptionsValid(r) ==
  /\ Reference(r.label) /\ Len(r.options) \in 2..MAX_OPTIONS
  /\ \A n \in DOMAIN r.options : OptionValid(r.options[n])
  /\ IsInjective([n \in DOMAIN r.options |-> r.options[n].value])

(* kind_shape: exactly the fields of its kind.                                             *)
KindShape(r) ==
  LET With(extra) == DOMAIN r = Base \cup extra
      Stored == IF r.kind = "input:password" THEN {"stored_input"} ELSE {}
  IN \/ r.kind \in AUTHORIZATION_KINDS /\ With({})
     \/ r.kind \in DOMAIN LENGTH_KINDS /\ With({"label", "required", "placeholder", "min", "max"} \cup Stored) /\ LengthValid(r)
     \/ r.kind \in CHOICE_KINDS /\ With({"label", "required", "options"}) /\ OptionsValid(r)
     \/ /\ r.kind = "input:choices" /\ With({"label", "required", "options", "min", "max"}) /\ OptionsValid(r)
        /\ r.min <= r.max /\ r.max <= Len(r.options)

(* request, fingerprinted: the request Team fingerprinted, in the shape of its kind.       *)
RequestValid(body) ==
  LET r == body.request
  IN /\ body.fingerprint = r
     /\ r.ordinal < MAX_REQUESTS_PER_ACTION
     /\ Reference(r.title) /\ Reference(r.description) /\ KindShape(r)

(* rendered_text: a text for every reference, and none for one that is null.               *)
RenderedText(text, ref, nullable) == IF nullable /\ ref = "null" THEN text = "null" ELSE text = "ok"

(* canonical_rendered, rendered_options: exactly the copy of the request.                  *)
RenderedValid(body) ==
  LET r == body.request
      shown == body.rendered
  IN /\ DOMAIN shown = DOMAIN r \cap (COPY \cup {"options"})
     /\ \A name \in DOMAIN shown \cap COPY : RenderedText(shown[name], r[name], name = "placeholder")
     /\ "options" \in DOMAIN shown =>
          /\ Len(shown.options) = Len(r.options)
          /\ \A n \in DOMAIN r.options :
               /\ RenderedText(shown.options[n].label, r.options[n].label, FALSE)
               /\ RenderedText(shown.options[n].description, r.options[n].description, TRUE)

(* canonical_input_projection: rows in order, and none left out while there is room.       *)
InputValid(input) ==
  /\ Len(input.fields) <= MAX_INPUT_FIELDS /\ (input.omitted # 0 => Len(input.fields) = MAX_INPUT_FIELDS)
  /\ \A n \in 1..Len(input.fields) - 1 : input.fields[n] < input.fields[n + 1]

(* presentation: help for a stored input and for nothing else; a file or an Action's input *)
(* only beside an authorization.                                                           *)
PresentationValid(body) ==
  LET shows == body.shows
  IN /\ "purpose" \in DOMAIN shows => shows.purpose = "ok"
     /\ IF body.request.kind = "input:password"
        THEN {"help", "help_url"} \subseteq DOMAIN shows /\ shows.help = "ok" /\ shows.help_url = "ok"
        ELSE {"help", "help_url"} \cap DOMAIN shows = {}
     /\ "file" \in DOMAIN shows => shows.file = "ok" /\ body.request.kind \in AUTHORIZATION_KINDS
     /\ "input" \in DOMAIN shows => InputValid(shows.input) /\ body.request.kind \in AUTHORIZATION_KINDS

(* challenge_identity: of this Team, and the paused turn's own.                            *)
Identity(body) == body.team = reply.team /\ body.challenge = body.turn

(* project: a human challenge in its exact public shape, or nothing.                       *)
HumanValid(body) ==
  /\ Identity(body) /\ body.expires \in 1..MAX_TTL_SECONDS /\ body.names = "ok"
  /\ RequestValid(body) /\ RenderedValid(body) /\ PresentationValid(body)

(* actions, requirement, integration_body: no Integration twice, and none without an       *)
(* Action of its own.                                                                      *)
IntegrationsValid(body) ==
  LET needs == body.requirements
  IN /\ Identity(body) /\ body.expires \in 1..900
     /\ Len(needs) \in 1..MAX_REQUIREMENTS
     /\ \A n \in DOMAIN needs : needs[n].names = "ok" /\ needs[n].actions # <<>> /\ IsInjective(needs[n].actions)
     /\ IsInjective([n \in DOMAIN needs |-> <<needs[n].assistant, needs[n].integration>>])

-----------------------------------------------------------------------------
(* Team's answer, projected.                                                               *)

DONE_FIELDS == {"team_id", "team_name", "reply", "clarification"}
CHAT_ERRORS == {"runtime-unavailable", "chat-response-invalid", "human-challenge-response-invalid",
                "integration-challenge-response-invalid", "chat-challenge-response-invalid", "brain-runtime-failed"}

Code(code) == [is |-> "code", code |-> code]
Public(body) == [is |-> "public", body |-> body]

(* admit_routine_fields: one of them at most, and none beside a clarification.             *)
RoutineFieldsValid(body) ==
  LET present == DOMAIN body \cap ROUTINE_FIELDS
  IN /\ Cardinality(present) <= 1 /\ (present # {} => body.clarification = "null")
     /\ \A name \in present : body[name] # "bad"

(* extras: a clarification is what its reply says.                                         *)
ExtrasValid(body) ==
  /\ body.clarification \in {"null", "ok", "key"} /\ RoutineFieldsValid(body)
  /\ \A name \in DOMAIN body \cap {"usage", "browser"} : body[name] # "bad"

(* turn_fields_valid: an empty reply only beside a Routine's card, question or refusal.    *)
TurnFieldsValid(body) ==
  /\ DOMAIN body \ OPTIONAL_DONE_FIELDS = DONE_FIELDS /\ body.team_id = reply.team
  /\ body.team_name # "bad" /\ body.reply # "bad"
  /\ body.reply = "empty" => DOMAIN body \cap ROUTINE_FIELDS # {}

(* A bug: what a Routine field says is not searched.                                       *)
ShownTextOfTurn(body) == {body[name] : name \in DOMAIN body \ ({"team_id"} \cup ROUTINE_FIELDS)}

(* shown_text, clarification_text: every part that is shown.                               *)
ShownText(body) == {body[name] : name \in DOMAIN body \ {"team_id"}}

(* project_turn.                                                                           *)
ProjectTurn(body) ==
  IF ExtrasValid(body) /\ TurnFieldsValid(body) /\ "key" \notin ShownText(body)
  THEN Public(body) ELSE Code("chat-response-invalid")

(* project_pending_challenge: a human request in the language it was asked for.            *)
ProjectPendingChallenge(body) ==
  CASE body.status = "integrations-required" ->
         IF IntegrationsValid(body) THEN Public(body) ELSE Code("integration-challenge-response-invalid")
    [] body.status = "human-required" ->
         IF HumanValid(body) /\ reply.locale \in {"any", body.locale} THEN Public(body)
         ELSE Code("human-challenge-response-invalid")
    [] OTHER -> Code("chat-challenge-response-invalid")

(* project_human_denial.                                                                   *)
ProjectHumanDenial(body) ==
  CASE body.team = reply.team /\ body.reason = "denied" -> Code("human-request-denied")
    [] body.team = reply.team /\ body.reason = "authentication-unavailable" -> Code("human-authentication-unavailable")
    [] OTHER -> Code("human-response-invalid")

(* submit, projected; pending for a read of what waits: an unreached Team is asked again.  *)
Projected ==
  LET body == reply.body
  IN CASE reply.status = "unreached" -> [is |-> "raw"]
       [] reply.status = "missing" -> Code("runtime-unavailable")
       [] reply.status = "challenge" -> ProjectPendingChallenge(body)
       [] reply.status = "denied" -> ProjectHumanDenial(body)
       [] reply.status = "refused" -> Code(body)
       [] reply.status = "turn" -> ProjectTurn(body)
       [] reply.status = "none" ->
            IF body.team = reply.team THEN Public(body) ELSE Code("human-challenge-response-invalid")

(* error_event: the words of a code of the closed table, or those of its status.           *)
ErrorEvent(code) == [type |-> "error", words |-> IF code \in CHAT_ERRORS THEN code ELSE "chat-request-failed"]

(* websocket_event: a challenge, an error, a completed turn, or nothing.                   *)
WebsocketEvent(answer) ==
  CASE answer.is = "raw" -> NoEvent
    [] answer.is = "code" -> ErrorEvent(answer.code)
    [] answer.is = "public" /\ reply.status = "challenge" -> [type |-> answer.body.status, body |-> answer.body]
    [] answer.is = "public" /\ reply.status # "challenge" ->
         IF DOMAIN answer.body \ OPTIONAL_DONE_FIELDS = DONE_FIELDS THEN [type |-> "done", body |-> answer.body]
         ELSE NoEvent

(* first_challenge, turn_terminal, pending_error: what the page is shown.                  *)
Show ==
  /\ event = NoEvent
  /\ event' = IF WebsocketEvent(Projected) # NoEvent THEN WebsocketEvent(Projected)
              ELSE [type |-> "error", words |-> "invalid"]
  /\ UNCHANGED <<reply, answers, passwords, clock, told, checked>>

-----------------------------------------------------------------------------
(* A page's answer to the request it is shown.                                             *)

(* human_value: what an answer's frame carries.                                            *)
HumanValue(v) ==
  \/ v.is = "true"
  \/ v.is = "text" /\ Length[v.text] <= MAX_HUMAN_TEXT_CHARS
  \/ /\ v.is = "list" /\ Len(v.items) <= MAX_HUMAN_CHOICES /\ IsInjective(v.items)
     /\ \A n \in DOMAIN v.items : Length[v.items[n]] <= MAX_HUMAN_CHOICE_CHARS

Allowed(r) == {r.options[n].value : n \in DOMAIN r.options}

(* browser_choices.                                                                        *)
BrowserChoices(r, v) ==
  /\ v.is = "list" /\ IsInjective(v.items) /\ Len(v.items) \in r.min..r.max
  /\ ToSet(v.items) \subseteq Allowed(r)

(* browser_value: whether a value answers exactly this request.                            *)
BrowserValue(r, v) ==
  CASE r.kind = "approval" -> v.is = "true"
    [] r.kind \in AUTH_KINDS -> v.is = "text" /\ Length[v.text] \in 1..MAX_AUTH_SECRET_CHARS
    [] r.kind \in CHOICE_KINDS -> v.is = "text" /\ (v.text \in Allowed(r) \/ (Length[v.text] = 0 /\ ~r.required))
    [] r.kind = "input:choices" -> BrowserChoices(r, v)
    [] OTHER -> /\ v.is = "text" /\ Length[v.text] \in r.min..r.max
                /\ r.required => Length[v.text] # 0

RequestShown == event.type = "human-required"
HumanRequest == event.body.request
Tell(decision, v, assured) == told' = told \cup {[decision |-> decision, value |-> v, assured |-> assured]}
TRUTH == [is |-> "true"]
Over(a) == answers' = [answers EXCEPT ![a] = [NoAnswer EXCEPT !.at = "over"]]

(* response_payload: a denial as it is; a value that answers the request, told to Team, or *)
(* a password to check first; anything else is refused.                                    *)
Respond(a) ==
  /\ RequestShown /\ answers[a].at = "page" /\ (a > 1 => answers[a - 1].at # "page")
  /\ \/ Tell("deny", NOTHING, NOTHING) /\ Over(a)
     \/ \E v \in Values :
          CASE ~(HumanValue(v) /\ BrowserValue(HumanRequest, v)) -> Over(a) /\ UNCHANGED told
            [] HumanValue(v) /\ BrowserValue(HumanRequest, v) /\ HumanRequest.kind \notin AUTH_KINDS ->
                 Tell("submit", v, NOTHING) /\ Over(a)
            [] HumanValue(v) /\ BrowserValue(HumanRequest, v) /\ HumanRequest.kind \in AUTH_KINDS ->
                 answers' = [answers EXCEPT ![a].at = "wait", ![a].value = v] /\ UNCHANGED told
  /\ UNCHANGED <<reply, event, passwords, clock, checked>>

(* A bug: the ceremony is not held while a password is checked.                            *)
AuthenticateUnheld(a) ==
  /\ answers[a].at = "wait"
  /\ IF passwords.until > clock THEN Over(a) /\ UNCHANGED passwords
     ELSE /\ passwords' = IF passwords.until # 0 THEN Unlocked ELSE passwords
          /\ answers' = [answers EXCEPT ![a].at = "check", ![a].failures = passwords'.failures]
  /\ UNCHANGED <<reply, event, clock, told, checked>>

(* authenticate: one check at a time; none while the ceremony is locked, and a lock that   *)
(* is over starts it anew.                                                                 *)
Authenticate(a) ==
  /\ answers[a].at = "wait" /\ passwords.holder = 0
  /\ IF passwords.until > clock THEN Over(a) /\ UNCHANGED passwords
     ELSE /\ passwords' = [IF passwords.until # 0 THEN Unlocked ELSE passwords EXCEPT !.holder = a]
          /\ answers' = [answers EXCEPT ![a].at = "check", ![a].failures = passwords'.failures]
  /\ UNCHANGED <<reply, event, clock, told, checked>>

(* What authenticate keeps of a wrong password: so many lock it.                           *)
Wrong(failures) ==
  [failures |-> failures + 1, holder |-> 0,
   until |-> IF failures + 1 >= MAX_PASSWORD_ATTEMPTS THEN clock + PASSWORD_LOCK ELSE 0]

(* verify and authenticated: told with its assurance, rejected, or, when the check could   *)
(* not run, denied.                                                                        *)
Authenticated(a) ==
  /\ answers[a].at = "check" /\ Over(a)
  /\ \/ /\ answers[a].value.text = PASSWORD
        /\ Tell("submit", TRUTH, answers[a].value) /\ passwords' = Unlocked /\ checked' = <<>>
     \/ /\ answers[a].value.text # PASSWORD
        /\ passwords' = Wrong(answers[a].failures) /\ checked' = Append(checked, clock) /\ UNCHANGED told
     \/ Tell("deny", NOTHING, NOTHING) /\ passwords' = [passwords EXCEPT !.holder = 0] /\ UNCHANGED checked
  /\ UNCHANGED <<reply, event, clock>>

(* Time passes while answers are made.                                                     *)
TimePasses ==
  /\ checked # <<>> /\ clock < MaxClock /\ clock' = clock + 1
  /\ UNCHANGED <<reply, event, answers, passwords, told, checked>>
-----------------------------------------------------------------------------
AnswersInit ==
  /\ reply \in Replies /\ event = NoEvent
  /\ answers = [a \in 1..reply.calls |-> NoAnswer]
  /\ passwords = Unlocked /\ clock = 0 /\ told = {} /\ checked = <<>>

AnswersNext ==
  \/ Show \/ TimePasses
  \/ \E a \in DOMAIN answers : Respond(a) \/ Authenticate(a) \/ Authenticated(a)

AnswersSpec == AnswersInit /\ [][AnswersNext]_answerVars

-----------------------------------------------------------------------------
(* What answers a request: a reference.                                                    *)
Fits(r, v) ==
  CASE r.kind = "approval" -> v = TRUTH
    [] r.kind \in AUTH_KINDS -> v.is = "text" /\ Length[v.text] \in 1..MAX_AUTH_SECRET_CHARS
    [] r.kind \in CHOICE_KINDS ->
         /\ v.is = "text"
         /\ (\E n \in DOMAIN r.options : r.options[n].value = v.text) \/ (~r.required /\ Length[v.text] = 0)
    [] r.kind = "input:choices" ->
         v.is = "list" /\ \E picked \in SUBSET DOMAIN r.options :
           /\ Cardinality(picked) \in r.min..r.max /\ Cardinality(picked) = Len(v.items)
           /\ ToSet(v.items) = {r.options[n].value : n \in picked}
    [] OTHER -> v.is = "text" /\ Length[v.text] \in r.min..r.max /\ ~(r.required /\ Length[v.text] = 0)

(* What is told and what is admitted.                                                      *)
ToldFits ==
  \A t \in told : t.decision = "submit" =>
    IF reply.body.fingerprint.kind \in AUTH_KINDS
    THEN t.value = TRUTH /\ t.assured = [is |-> "text", text |-> PASSWORD]
    ELSE t.assured = NOTHING /\ Fits(reply.body.fingerprint, t.value)
FittingAdmitted ==
  RequestShown =>
    /\ \A v \in Values : Fits(HumanRequest, v) => HumanValue(v) /\ BrowserValue(HumanRequest, v)
    /\ \/ \E v \in Values : Fits(HumanRequest, v)
       \/ HumanRequest.kind \in DOMAIN LENGTH_KINDS /\ HumanRequest.required /\ HumanRequest.max = 0

(* Team is told only what answers the request it fingerprinted, and of an Action password  *)
(* only that one that was right was given (chat/human.rs: "An answer is checked against    *)
(* the request it answers"); and whatever answers a request that is shown passes the       *)
(* bounds of the frame it comes in, which are set apart from the request's                 *)
(* (websocket/mod.rs).  Something does, but for a text that must be given and may have no  *)
(* length.                                                                                 *)
AnswersFit == ToldFits /\ FittingAdmitted

(* After so many wrong passwords in a row the next is checked only once the lock is over,  *)
(* whichever pages and Routine runs answer at once (chat/human.rs: "three attempts, then a *)
(* minute's lock").                                                                        *)
AttemptsBounded ==
  \A n \in 1..Len(checked) - 1 :
    n % MAX_PASSWORD_ATTEMPTS = 0 => checked[n + 1] >= checked[n] + PASSWORD_LOCK

(* What an answer of Team becomes.                                                         *)
EveryReplyShown ==
  event.type = "error" /\ event.words = "invalid" => reply.status \in {"unreached", "none"}
KeyNotShown == event.type = "done" => \A name \in DOMAIN event.body : event.body[name] # "key"

(* Every answer that reached Admin becomes an event of its own for the page, since what    *)
(* the projection admits the event admits too, and no part of a turn that is shown holds   *)
(* the Supervisor's key (turn.rs: "a reply that would show the key is refused").           *)
RepliesShown == EveryReplyShown /\ KeyNotShown

(* What a page is shown is fit to show, what Team is told fits what was shown, and the      *)
(* password behind it was tried within its bound.                                          *)
AnswersChecked == AnswersFit /\ RepliesShown /\ AttemptsBounded
=============================================================================
