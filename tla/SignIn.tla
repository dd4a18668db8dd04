------------------------------- MODULE SignIn -------------------------------
(***************************************************************************)
(* The Supervisor's sign-in: the record of the factors and its             *)
(* transactions (record/mod.rs, record/factors.rs, record/classify.rs,     *)
(* signin/totp, signin/recovery), the password limiter (signin/password),  *)
(* the one-use tickets and passkey challenges (signin/tickets,             *)
(* signin/passkeys), the journal (signin/audit) and the ceremonies that    *)
(* use them (signin/local/{mod,ceremony,passkey,operation}.rs,             *)
(* signin/routes.rs).                                                      *)
(*                                                                         *)
(* A ceremony is a request that runs beside the others.  Each transaction  *)
(* of the record is atomic under the store's lock; everything around it is *)
(* not: the ticket is taken before it, the sessions it ends, the tickets   *)
(* it makes void and the session it issues come after it, one step at a    *)
(* time.  The record survives a crash; tickets, challenges, sessions, the  *)
(* limiter and the requests do not.  Browser origins, the lifetime of a    *)
(* ticket and the eviction of sessions are left out.                       *)
(***************************************************************************)
EXTENDS Naturals, FiniteSets, Sequences

CONSTANTS Request,      \* requests served at the same time
          RecoveryCode, \* the codes of one recovery set
          MaxRequests,  \* bound: requests received in all
          MaxStep,      \* bound: TOTP periods that pass
          LoginLimit,   \* LOGIN_FAILURE_LIMIT
          TotpLimit,    \* totp::FAILURE_LIMIT
          MaxFailures,  \* MAX_SECOND_FACTOR_FAILURES
          MaxCrashes,   \* bound: restarts of the process
          None

(* The limits and bounds are numbers, a first wrong password does not go uncounted, and    *)
(* None is no request.                                                                     *)
ASSUME SignInAssumption ==
  {LoginLimit, TotpLimit, MaxFailures, MaxStep} \subseteq Nat /\ LoginLimit > 0 /\ None \notin Request

VARIABLES
  rec,        \* the record in the store's file
  audit,      \* the journal: whether it failed, and the acceptances it holds
  limiter,    \* LoginLimiter: the derivation in flight, the failures, the lock
  tickets,    \* Tickets::records
  challenges, \* Challenges::records
  sessions,   \* every session issued, in order
  tracked,    \* Sessions: the ones tracked, by their place in sessions
  setup,      \* the request that holds the setup lock
  req,        \* where each request is
  now,        \* the current TOTP period
  received,   \* bound: requests received; also numbers the tickets
  crashes,    \* bound
  seen        \* history: codes accepted, refusals answered, refusals not acknowledged yet

vars == <<rec, audit, limiter, tickets, challenges, sessions, tracked, setup, req, now,
          received, crashes, seen>>

(* Which variables a step of a request other than the request itself touches.              *)
memory == <<limiter, tickets, challenges, sessions, tracked>>
outside == <<now, received, crashes>>

(* A request: where it is, the ceremony it serves, its number, its ticket and that ticket's *)
(* generation, the secret it issues under, and what it read on the way.                    *)
Idle == [at |-> "idle", kind |-> "none", n |-> 0, ticket |-> 0, gen |-> 0, secret |-> 0, mark |-> 0]

-----------------------------------------------------------------------------
(* The record.                                                                             *)

NoTotp == [status |-> "none", seed |-> 0, failures |-> 0, locked |-> FALSE, expired |-> FALSE, last |-> 0]

(* totp::new_record.                                                                       *)
NewTotp(seed) == [NoTotp EXCEPT !.status = "pending", !.seed = seed]

(* A missing file: no password, no factor, no session secret.                              *)
Fresh == [password |-> FALSE, totp |-> NoTotp, codes |-> [set |-> 0, unused |-> {}], gen |-> 0,
          secret |-> 0, passkey |-> "none", since |-> 0, unack |-> 0]

(* recovery::new_set.                                                                      *)
NewSet(r) == [set |-> r.codes.set + 1, unused |-> RecoveryCode]

(* authentication_state: the state the factors put the Supervisor in.                      *)
AuthState(r) ==
  CASE ~r.password -> "uninitialized"
    [] r.password /\ r.codes.set = 0 -> "enrollment"
    [] r.codes.set > 0 /\ r.totp.status = "pending" -> "recovery"
    [] r.codes.set > 0 /\ r.totp.status = "active" -> "configured"

Capped(n) == IF n > MaxFailures THEN MaxFailures ELSE n

(* second_factor_refused.                                                                  *)
Refused(r) == [r EXCEPT !.since = Capped(@ + 1)]

(* The counter since the last sign-in is not cleared. *)
SignedInTwice(r) == [r EXCEPT !.unack = Capped(@ + r.since)]

(* signed_in: what was refused since the last sign-in is reported by this one.             *)
SignedIn(r) == [r EXCEPT !.unack = Capped(@ + r.since), !.since = 0]

(* new_secret.                                                                             *)
Rotated(r) == [r EXCEPT !.secret = @ + 1]

(* totp::record_failure, totp::lock_seconds.                                               *)
Failed(t) == [t EXCEPT !.failures = IF @ < TotpLimit THEN @ + 1 ELSE @,
                       !.locked = t.failures + 1 >= TotpLimit]

(* matched_step: a code of the period before, of this one or of the next.                  *)
Matches(code) == code \in {now - 1, now, now + 1} \ {0}

(* The outcome of a code that fits or not.                                                 *)
Tried(t, code, fits) ==
  LET expired == t.status = "pending" /\ t.expired
  IN CASE expired -> <<"expired", t>>
       [] ~expired /\ t.locked -> <<"locked", t>>
       [] ~expired /\ ~t.locked /\ ~fits -> <<IF Failed(t).locked THEN "locked" ELSE "invalid", Failed(t)>>
       [] ~expired /\ ~t.locked /\ fits -> <<"accepted", [t EXCEPT !.status = "active", !.failures = 0, !.last = code]>>

(* A code of an accepted period is accepted again. *)
VerifyReplays(t, code) == Tried(t, code, Matches(code) /\ code >= t.last)

(* totp::verify: an expired enrollment and a locked factor look at no code; a code that    *)
(* does not match, or of a period not after the last accepted one, is a failure.           *)
Verify(t, code) == Tried(t, code, Matches(code) /\ code > t.last)

(* Each transaction answers what it decided and the record it would write.                 *)

(* Store::begin_supervisor_setup.                                                          *)
BeginSetup(r) ==
  IF r.password THEN <<"refused", r>>
  ELSE <<"accepted", [Fresh EXCEPT !.password = TRUE, !.totp = NewTotp(1), !.gen = 1, !.secret = 1]>>

(* Store::resume_totp_enrollment, totp::resume.                                            *)
Resume(r) ==
  IF AuthState(r) # "enrollment" THEN <<"refused", r>>
  ELSE <<"accepted", [r EXCEPT !.totp.expired = FALSE]>>

(* Ceremony::requires and Ceremony::enrolls.                                               *)
Requires(ceremony) ==
  CASE ceremony = "setup_totp" -> "enrollment"
    [] ceremony = "recovery_totp" -> "recovery"
    [] ceremony \in {"login_totp", "operation"} -> "configured"
Enrolls(ceremony) == ceremony \in {"setup_totp", "recovery_totp"}

(* The code's outcome on the record; an enrollment replaces the recovery set, the          *)
(* generation and the session secret.                                                      *)
Attempt(r, code, ceremony) ==
  LET verified == Verify(r.totp, code)
      after == [r EXCEPT !.totp = verified[2]]
  IN CASE verified[1] \in {"invalid", "locked"} -> <<verified[1], Refused(after)>>
       [] verified[1] = "expired" -> <<"expired", r>>
       [] verified[1] = "accepted" /\ ceremony = "operation" -> <<"accepted", after>>
       [] verified[1] = "accepted" /\ ceremony = "login_totp" -> <<"accepted", SignedIn(after)>>
       [] verified[1] = "accepted" /\ Enrolls(ceremony) ->
            <<"accepted", Rotated([SignedIn(after) EXCEPT !.codes = NewSet(r), !.gen = @ + 1])>>

(* The generation of the ticket is not looked at in the transaction. *)
VerifyTotpUnbound(r, code, ceremony, gen) ==
  IF AuthState(r) # Requires(ceremony) THEN <<"refused", r>> ELSE Attempt(r, code, ceremony)

(* Store::verify_totp: the state and the generation first, then the code.                  *)
VerifyTotp(r, code, ceremony, gen) ==
  IF AuthState(r) # Requires(ceremony) THEN <<"refused", r>>
  ELSE IF r.gen # gen THEN <<"changed", r>>
  ELSE Attempt(r, code, ceremony)

(* Store::spend_recovery_code, recovery::spend: an unused code of the set it was derived   *)
(* for replaces the TOTP factor by a pending one and rotates the secret.                   *)
Spend(r, code, set, gen) ==
  IF AuthState(r) \notin {"configured", "recovery"} THEN <<"refused", r>>
  ELSE IF r.gen # gen \/ r.codes.set # set THEN <<"changed", r>>
  ELSE IF r.totp.locked THEN <<"locked", Refused(r)>>
  ELSE IF code \notin r.codes.unused
       THEN <<IF Failed(r.totp).locked THEN "locked" ELSE "invalid", [Refused(r) EXCEPT !.totp = Failed(@)]>>
  ELSE <<"accepted", Rotated([r EXCEPT !.codes.unused = @ \ {code}, !.totp = NewTotp(r.totp.seed + 1), !.gen = gen + 1])>>

(* Store::replace_recovery_codes.                                                          *)
ReplaceCodes(r) ==
  IF AuthState(r) # "configured" THEN <<"refused", r>>
  ELSE <<"accepted", [r EXCEPT !.codes = NewSet(r), !.gen = @ + 1]>>

(* Store::add_passkey, of a credential that is not stored as active; a suspended one is    *)
(* replaced.                                                                               *)
AddPasskey(r, gen) ==
  IF AuthState(r) # "configured" \/ r.gen # gen \/ r.passkey = "active" THEN <<"refused", r>>
  ELSE <<"accepted", Rotated([r EXCEPT !.passkey = "active", !.gen = gen + 1])>>

(* A suspended passkey leaves the sessions as they are. *)
CommitKeepsSecret(r, gen, regressed, signIn) ==
  IF AuthState(r) # "configured" \/ r.gen # gen \/ r.passkey # "active" THEN <<"refused", r>>
  ELSE IF regressed THEN <<"suspended", [r EXCEPT !.passkey = "suspended", !.gen = gen + 1]>>
  ELSE <<"accepted", IF signIn THEN SignedIn(r) ELSE r>>

(* commit_assertion, applied_assertion: a counter that did not advance or a changed backup *)
(* flag suspends the passkey, advances the generation and rotates the secret.              *)
Commit(r, gen, regressed, signIn) ==
  IF AuthState(r) # "configured" \/ r.gen # gen \/ r.passkey # "active" THEN <<"refused", r>>
  ELSE IF regressed THEN <<"suspended", Rotated([r EXCEPT !.passkey = "suspended", !.gen = gen + 1])>>
  ELSE <<"accepted", IF signIn THEN SignedIn(r) ELSE r>>

(* Store::acknowledge_second_factor_failures.                                              *)
Acknowledged(r, count) == [r EXCEPT !.unack = IF count > @ THEN 0 ELSE @ - count]

-----------------------------------------------------------------------------
(* The requests.                                                                           *)

(* A fresh install, or the start of a process that finds a configured record.              *)
Init ==
  /\ rec \in {Fresh, [password |-> TRUE, totp |-> [NewTotp(1) EXCEPT !.status = "active"],
                      codes |-> [set |-> 1, unused |-> RecoveryCode], gen |-> 3, secret |-> 3,
                      passkey |-> "active", since |-> 0, unack |-> 0]}
  /\ audit = [failed |-> FALSE, held |-> {}]
  /\ limiter = [busy |-> FALSE, failures |-> 0, lock |-> "open"]
  /\ tickets = {} /\ challenges = {} /\ sessions = <<>> /\ tracked = {}
  /\ setup = None /\ req = [q \in Request |-> Idle]
  /\ now = 1 /\ received = 0 /\ crashes = 0
  /\ seen = [accepted |-> {}, uses |-> 0, owed |-> 0, refused |-> 0]

(* setup_ceremony: the ceremonies that hold the one setup lock from start to end.          *)
Locked == {"setup", "setup_totp", "login_recovery", "recovery_totp"}

(* A request ends, and gives up the setup lock, or goes on.                                *)
Go(q, r) ==
  /\ req' = [req EXCEPT ![q] = r]
  /\ setup' = IF r.kind \in Locked THEN q ELSE IF setup = q THEN None ELSE setup

(* No request waits for the setup lock. *)
ReceiveUnlocked(q, kind) ==
  /\ req[q].at = "idle" /\ received < MaxRequests
  /\ received' = received + 1

(* A request comes in; one of a locked ceremony waits for the lock.                        *)
Receive(q, kind) ==
  /\ req[q].at = "idle" /\ received < MaxRequests
  /\ kind \in Locked => setup = None
  /\ received' = received + 1
Received(kind, at) == [Idle EXCEPT !.kind = kind, !.at = at, !.n = received + 1]

(* session_evidence: a session that is tracked and signed under the secret of now.         *)
Current(s) ==
  /\ AuthState(rec) = "configured" /\ s \in tracked /\ sessions[s].secret = rec.secret

(* A derivation begins whether or not another runs. *)
BeginAnyway(q, next) ==
  LET open == IF limiter.lock = "over" THEN [limiter EXCEPT !.failures = 0, !.lock = "open"] ELSE limiter
  IN /\ limiter' = [open EXCEPT !.busy = @ \/ open.lock = "open"]
     /\ Go(q, IF open.lock = "open" THEN next ELSE Idle)

(* LoginLimiter::begin: refused while locked or while another derivation runs; a lock that *)
(* is over is forgotten with its failures.                                                 *)
Begin(q, next) ==
  LET open == IF limiter.lock = "over" THEN [limiter EXCEPT !.failures = 0, !.lock = "open"] ELSE limiter
      admitted == open.lock = "open" /\ ~open.busy
  IN /\ limiter' = [open EXCEPT !.busy = @ \/ admitted]
     /\ Go(q, IF admitted THEN next ELSE Idle)

(* setup: a fresh record derives a verifier, a pending enrollment checks the password.     *)
Setup(q) ==
  /\ Receive(q, "setup") /\ AuthState(rec) \in {"uninitialized", "enrollment"}
  /\ IF AuthState(rec) = "uninitialized"
     THEN ~audit.failed /\ Go(q, Received("setup", "verifier")) /\ UNCHANGED limiter
     ELSE Begin(q, Received("setup", "deriving"))
  /\ UNCHANGED <<rec, audit, tickets, challenges, sessions, tracked, now, crashes, seen>>

(* login: the passkey is offered if the factors were complete at its start.                *)
Login(q) ==
  /\ Receive(q, "login") /\ AuthState(rec) \in {"configured", "recovery"}
  /\ Begin(q, [Received("login", "deriving") EXCEPT !.mark = IF AuthState(rec) = "configured" THEN 1 ELSE 0])
  /\ UNCHANGED <<rec, audit, tickets, challenges, sessions, tracked, now, crashes, seen>>

(* verify_operation_password: an operation's confirmation starts with the password too.    *)
Offer(q, s) ==
  /\ Receive(q, "offer") /\ Current(s)
  /\ Begin(q, [Received("offer", "deriving") EXCEPT !.mark = 1])
  /\ UNCHANGED <<rec, audit, tickets, challenges, sessions, tracked, now, crashes, seen>>

(* settle, LoginLimiter::finish: the outcome is counted where the derivation ends.         *)
Settle(q) ==
  /\ req[q].at = "deriving"
  /\ \E right \in BOOLEAN :
       LET failures == IF right THEN 0 ELSE limiter.failures + 1
       IN /\ limiter' = [busy |-> FALSE, failures |-> failures,
                         lock |-> IF failures >= LoginLimit THEN "locked" ELSE "open"]
          /\ Go(q, IF right THEN [req[q] EXCEPT !.at = "checked"] ELSE Idle)
  /\ UNCHANGED <<rec, audit, tickets, challenges, sessions, tracked, seen>> /\ UNCHANGED outside

(* first_setup, resume_totp_enrollment: the transaction that begins or resumes the first   *)
(* enrollment.                                                                             *)
Enroll(q) ==
  /\ req[q].kind = "setup" /\ req[q].at \in {"verifier", "checked"}
  /\ LET answer == IF req[q].at = "verifier" THEN BeginSetup(rec) ELSE Resume(rec)
     IN /\ rec' = answer[2]
        /\ Go(q, IF answer[1] = "accepted" THEN [req[q] EXCEPT !.at = "enrolled"] ELSE Idle)
  /\ UNCHANGED <<audit, seen>> /\ UNCHANGED memory /\ UNCHANGED outside

(* factor_generation, read before the ticket or the challenge is issued.                   *)
ReadGeneration(q) ==
  /\ req[q].at = "enrolled" \/ (req[q].at = "checked" /\ req[q].kind # "setup")
  /\ Go(q, [req[q] EXCEPT !.at = "generation", !.gen = rec.gen])
  /\ UNCHANGED <<rec, audit, seen>> /\ UNCHANGED memory /\ UNCHANGED outside

(* issue_ticket, login_options, operation_offer: the ticket, and the challenge of an       *)
(* active passkey bound to it; a registration's challenge is bound to its session.         *)
Issue(q) ==
  /\ req[q].at = "generation"
  /\ LET r == req[q]
         purpose == CASE r.kind = "setup" -> "setup_totp"
                      [] r.kind = "login" -> "login"
                      [] r.kind = "offer" -> "operation"
                      [] r.kind \in {"login_recovery", "recovery_totp"} -> "recovery_totp"
     IN IF r.kind = "register"
        THEN /\ challenges' = {c \in challenges : c.of # <<"session", r.mark>>} \cup {[of |-> <<"session", r.mark>>, gen |-> r.gen]}
             /\ UNCHANGED tickets
        ELSE /\ tickets' = tickets \cup {[id |-> r.n, purpose |-> purpose, gen |-> r.gen]}
             /\ challenges' = challenges \cup
                  {[of |-> <<"ticket", r.n>>, gen |-> r.gen] : x \in {y \in {1} : r.mark = 1 /\ rec.passkey = "active" /\ r.kind # "setup"}}
  /\ Go(q, Idle)
  /\ UNCHANGED <<rec, audit, limiter, sessions, tracked, seen>> /\ UNCHANGED outside

(* What a ticket must be for, for each ceremony that takes one.                            *)
Spends(kind) ==
  CASE kind = "setup_totp" -> "setup_totp"
    [] kind \in {"login_totp", "login_passkey", "login_recovery"} -> "login"
    [] kind = "recovery_totp" -> "recovery_totp"
    [] kind \in {"operation", "operation_passkey"} -> "operation"

(* Tickets::consume: the ticket is gone whatever it was for.                               *)
Consume(t) == tickets \ {t}

(* ticket, discard_challenge: the ticket and its challenge are taken; another purpose, an  *)
(* earlier generation or, for an assertion, a missing challenge refuses the ceremony.      *)
Present(q, kind) ==
  /\ Receive(q, kind)
  /\ \E t \in tickets :
       LET asserts == kind \in {"login_passkey", "operation_passkey"}
           admitted == /\ t.purpose = Spends(kind) /\ t.gen = rec.gen
                       /\ asserts => \E c \in challenges : c.of = <<"ticket", t.id>>
       IN /\ tickets' = Consume(t)
          /\ challenges' = {c \in challenges : c.of # <<"ticket", t.id>>}
          /\ \E s \in IF Spends(kind) = "operation" THEN tracked ELSE {0} :
               Go(q, IF admitted THEN [Received(kind, "presented") EXCEPT !.ticket = t.id, !.gen = t.gen, !.mark = s] ELSE Idle)
  /\ UNCHANGED <<rec, audit, limiter, sessions, tracked, now, crashes, seen>>

(* The ceremonies that begin with a ticket.                                                *)
ConfirmSetup(q) == Present(q, "setup_totp")
ConfirmLoginTotp(q) == Present(q, "login_totp")
ConfirmLoginPasskey(q) == Present(q, "login_passkey")
ConfirmLoginRecovery(q) == Present(q, "login_recovery")
ConfirmRecoveryEnrollment(q) == Present(q, "recovery_totp")
ConfirmOperation(q) == Present(q, "operation") \/ Present(q, "operation_passkey")

(* begin_passkey_registration and complete_passkey_registration, through the gate.         *)
BeginRegistration(q, s) ==
  /\ Receive(q, "register") /\ Current(s)
  /\ Go(q, [Received("register", "checked") EXCEPT !.mark = s])
  /\ UNCHANGED <<rec, audit, now, crashes, seen>> /\ UNCHANGED memory
CompleteRegistration(q, s) ==
  /\ Receive(q, "registered") /\ Current(s)
  /\ \E c \in challenges :
       /\ c.of = <<"session", s>> /\ challenges' = challenges \ {c}
       /\ Go(q, IF c.gen = rec.gen THEN [Received("registered", "presented") EXCEPT !.gen = c.gen] ELSE Idle)
  /\ UNCHANGED <<rec, audit, limiter, tickets, sessions, tracked, now, crashes, seen>>

(* recovery_candidate: the typed code is derived under the set of now.                     *)
Derive(q) ==
  /\ req[q].at = "presented" /\ req[q].kind = "login_recovery"
  /\ Go(q, IF AuthState(rec) \in {"configured", "recovery"} THEN [req[q] EXCEPT !.at = "derived", !.mark = rec.codes.set] ELSE Idle)
  /\ UNCHANGED <<rec, audit, seen>> /\ UNCHANGED memory /\ UNCHANGED outside

-----------------------------------------------------------------------------
(* The transactions of the requests.                                                       *)

(* How a request goes on once its transaction answered.                                    *)
Answered(r, answer) ==
  CASE answer[1] = "accepted" /\ r.kind = "login_totp" -> [r EXCEPT !.at = "accepted"]
    [] answer[1] = "accepted" /\ r.kind \in {"setup_totp", "recovery_totp", "login_recovery"} -> [r EXCEPT !.at = "rotated"]
    [] answer[1] = "accepted" /\ r.kind \in {"operation", "operation_passkey"} ->
         [r EXCEPT !.at = IF @ = "presented" THEN "confirmed" ELSE "ended"]
    [] answer[1] = "accepted" /\ r.kind = "registered" ->
         [r EXCEPT !.at = "rotated", !.secret = answer[2].secret, !.mark = answer[2].totp.seed]
    [] answer[1] = "accepted" /\ r.kind = "login_passkey" ->
         [r EXCEPT !.at = "secret", !.secret = answer[2].secret, !.mark = answer[2].totp.seed]
    [] answer[1] = "suspended" -> [r EXCEPT !.at = "rotated", !.kind = "suspended"]
    [] answer[1] = "invalid" /\ r.kind = "recovery_totp" -> [r EXCEPT !.at = "generation"]
    [] OTHER -> Idle

(* The journal and the record after an answer the journal refused or took.                 *)
Recorded(q, answer, code, refused, written) ==
  LET counted == written /\ answer[1] = "accepted"
      refusal == IF written /\ answer[1] \in {"invalid", "locked"} THEN 1 ELSE 0
  IN /\ rec' = IF written THEN answer[2] ELSE rec
     /\ audit' = [failed |-> audit.failed \/ refused,
                  held |-> IF answer[1] = "accepted" /\ ~refused THEN audit.held \cup {code} ELSE audit.held]
     /\ Go(q, IF written THEN Answered(req[q], answer) ELSE Idle)
     /\ seen' = [accepted |-> IF counted THEN seen.accepted \cup {code} ELSE seen.accepted,
                 uses |-> IF counted THEN seen.uses + 1 ELSE seen.uses,
                 owed |-> seen.owed + refusal, refused |-> seen.refused + refusal]

(* The record is written even when the journal refuses the event. *)
MutateUnjournaled(q, answer, code) ==
  \E fault \in {"none", "journal", "write"} :
    Recorded(q, answer, code, audit.failed \/ fault = "journal", fault # "write")

(* Store::mutate: the outcome is journaled, and then the record written; either may fail,  *)
(* and a journal that failed once refuses every change until the process starts again.     *)
Mutate(q, answer, code) ==
  \E fault \in {"none", "journal", "write"} :
    LET journals == answer[1] \in {"accepted", "suspended", "invalid", "locked"}
        refused == journals /\ (audit.failed \/ fault = "journal")
    IN Recorded(q, answer, code, refused, ~refused /\ fault # "write")

Unmoved == UNCHANGED memory /\ UNCHANGED outside

(* complete_totp: a code of some period, or one that matches none.                         *)
CompleteTotp(q) ==
  /\ req[q].at = "presented" /\ req[q].kind \in {"setup_totp", "recovery_totp", "login_totp", "operation"}
  /\ \E code \in 0..MaxStep :
       Mutate(q, VerifyTotp(rec, code, req[q].kind, req[q].gen), <<"totp", rec.totp.seed, code>>)
  /\ Unmoved

(* assertion: an assertion that verifies, its counter or backup flag as expected or not.   *)
Assertion(q) ==
  /\ req[q].at = "presented" /\ req[q].kind \in {"login_passkey", "operation_passkey"}
  /\ \E regressed \in BOOLEAN : Mutate(q, Commit(rec, req[q].gen, regressed, req[q].kind = "login_passkey"), <<"passkey", req[q].n>>)
  /\ Unmoved

SpendCode(q) ==
  /\ req[q].at = "derived"
  /\ \E code \in RecoveryCode \cup {None} :
       Mutate(q, Spend(rec, code, req[q].mark, req[q].gen), <<"recovery", req[q].mark, code>>)
  /\ Unmoved

RegisterPasskey(q) ==
  /\ req[q].at = "presented" /\ req[q].kind = "registered"
  /\ Mutate(q, AddPasskey(rec, req[q].gen), <<"registered", req[q].n>>)
  /\ Unmoved

(* confirmed: the session is looked at again after the factor; regenerate_recovery_codes.  *)
Confirm(q) ==
  /\ req[q].at = "confirmed"
  /\ Go(q, IF Current(req[q].mark) THEN [req[q] EXCEPT !.at = "replacing"] ELSE Idle)
  /\ UNCHANGED <<rec, audit, seen>> /\ Unmoved
Regenerate(q) ==
  /\ req[q].at = "replacing"
  /\ Mutate(q, ReplaceCodes(rec), <<"codes", req[q].n>>)
  /\ Unmoved

(* logout_now, revoke_sessions_for_logout: journaled, then the session is checked in the   *)
(* transaction.                                                                            *)
Logout(q, s) ==
  /\ Receive(q, "logout") /\ Current(s) /\ ~audit.failed
  /\ rec' = Rotated(rec)
  /\ Go(q, Received("logout", "rotated"))
  /\ UNCHANGED <<audit, now, crashes, seen>> /\ UNCHANGED memory

(* security_acknowledge: the count is the one the page showed earlier.                     *)
Acknowledge(count) ==
  /\ AuthState(rec) = "configured" /\ rec.unack > 0
  /\ rec' = Acknowledged(rec, count)
  /\ seen' = [seen EXCEPT !.owed = @ - (rec.unack - rec'.unack)]
  /\ UNCHANGED <<audit, setup, req>> /\ Unmoved

-----------------------------------------------------------------------------
(* What follows a transaction.                                                             *)

(* Sessions::end_all, once the store is unlocked.                                          *)
EndAll(q) ==
  /\ req[q].at = "rotated"
  /\ tracked' = {}
  /\ Go(q, IF req[q].kind = "logout" THEN Idle ELSE [req[q] EXCEPT !.at = "ended"])
  /\ UNCHANGED <<rec, audit, limiter, tickets, challenges, sessions, seen>> /\ UNCHANGED outside

(* factor_changed: every ticket and challenge is void.                                     *)
FactorChanged(q) ==
  /\ req[q].at = "ended"
  /\ tickets' = {} /\ challenges' = {}
  /\ Go(q, CASE req[q].kind = "login_recovery" -> [req[q] EXCEPT !.at = "checked"]
             [] req[q].kind \in {"setup_totp", "recovery_totp"} -> [req[q] EXCEPT !.at = "accepted"]
             [] req[q].kind = "registered" -> [req[q] EXCEPT !.at = "secret"]
             [] OTHER -> Idle)
  /\ UNCHANGED <<rec, audit, limiter, sessions, tracked, seen>> /\ UNCHANGED outside

(* session_secret, which the TOTP ceremonies read after their transaction.                 *)
ReadSecret(q) ==
  /\ req[q].at = "accepted"
  /\ Go(q, [req[q] EXCEPT !.at = "secret", !.secret = rec.secret])
  /\ UNCHANGED <<rec, audit, seen>> /\ UNCHANGED memory /\ UNCHANGED outside

(* set_session, token::issue.                                                              *)
SetSession(q) ==
  /\ req[q].at = "secret"
  /\ sessions' = Append(sessions, [secret |-> req[q].secret, ticket |-> req[q].ticket,
                                   seed |-> IF req[q].kind \in {"login_passkey", "registered"} THEN req[q].mark ELSE 0])
  /\ tracked' = tracked \cup {Len(sessions) + 1}
  /\ Go(q, Idle)
  /\ UNCHANGED <<rec, audit, limiter, tickets, challenges, seen>> /\ UNCHANGED outside

(* Time: a TOTP period passes, a lock lapses, the first enrollment expires.                *)
Tick ==
  /\ now < MaxStep /\ now' = now + 1
  /\ UNCHANGED <<rec, audit, setup, req, received, crashes, seen>> /\ UNCHANGED memory
Lapse ==
  /\ \/ /\ limiter.lock = "locked" /\ limiter' = [limiter EXCEPT !.lock = "over"] /\ UNCHANGED rec
     \/ /\ rec.totp.locked /\ rec' = [rec EXCEPT !.totp.locked = FALSE] /\ UNCHANGED limiter
     \/ /\ rec.totp.status = "pending" /\ ~rec.totp.expired
        /\ rec' = [rec EXCEPT !.totp.expired = TRUE] /\ UNCHANGED limiter
  /\ UNCHANGED <<audit, tickets, challenges, sessions, tracked, setup, req, seen>> /\ UNCHANGED outside

(* The process stops and starts again: only the record and the journal are left.           *)
Crash ==
  /\ crashes < MaxCrashes /\ crashes' = crashes + 1
  /\ audit' = [audit EXCEPT !.failed = FALSE]
  /\ limiter' = [busy |-> FALSE, failures |-> 0, lock |-> "open"]
  /\ tickets' = {} /\ challenges' = {} /\ tracked' = {}
  /\ setup' = None /\ req' = [q \in Request |-> Idle]
  /\ UNCHANGED <<rec, sessions, now, received, seen>>

Next ==
  \/ \E q \in Request :
       \/ Setup(q) \/ Login(q) \/ ConfirmSetup(q) \/ ConfirmLoginTotp(q) \/ ConfirmLoginPasskey(q)
       \/ ConfirmLoginRecovery(q) \/ ConfirmRecoveryEnrollment(q) \/ ConfirmOperation(q)
       \/ \E s \in tracked : Offer(q, s) \/ BeginRegistration(q, s) \/ CompleteRegistration(q, s) \/ Logout(q, s)
       \/ Settle(q) \/ Enroll(q) \/ ReadGeneration(q) \/ Issue(q) \/ Derive(q)
       \/ CompleteTotp(q) \/ Assertion(q) \/ SpendCode(q) \/ RegisterPasskey(q) \/ Confirm(q) \/ Regenerate(q)
       \/ EndAll(q) \/ FactorChanged(q) \/ ReadSecret(q) \/ SetSession(q)
  \/ \E count \in 1..2 : Acknowledge(count)
  \/ Tick \/ Lapse \/ Crash

Spec == Init /\ [][Next]_vars

-----------------------------------------------------------------------------
TypeOK ==
  /\ rec.gen \in Nat /\ rec.secret \in Nat /\ (rec.password <=> rec.secret > 0) /\ rec.since \in 0..MaxFailures /\ rec.unack \in 0..MaxFailures
  /\ AuthState(rec) \in {"uninitialized", "enrollment", "recovery", "configured"}
  /\ rec.passkey # "none" => rec.codes.set > 0
  /\ limiter.failures \in 0..LoginLimit /\ limiter.lock \in {"open", "locked", "over"}
  /\ setup \in Request \cup {None} /\ tracked \subseteq DOMAIN sessions
  /\ \A q \in Request : req[q].kind \in Locked => setup = q

(* One password derivation runs at a time and none while the limiter is locked, so that a  *)
(* lock is never passed by a derivation begun before it: no more than the limit of wrong   *)
(* passwords is looked at between two locks.                                               *)
OneDerivation ==
  /\ limiter.busy <=> \E q \in Request : req[q].at = "deriving"
  /\ Cardinality({q \in Request : req[q].at = "deriving"}) <= 1
  /\ limiter.busy => limiter.lock = "open" /\ limiter.failures < LoginLimit

(* No ticket issues two sessions and no code is accepted twice, neither a TOTP code of one *)
(* period nor a recovery code, whatever runs at the same time.                             *)
OneUse ==
  /\ \A s, t \in DOMAIN sessions : s # t /\ sessions[s].ticket # 0 => sessions[s].ticket # sessions[t].ticket
  /\ Cardinality(seen.accepted) = seen.uses

(* A ceremony completes only under the factors its ticket was issued for: a change of      *)
(* factors made while the request was under way refuses it, though the tickets are voided  *)
(* only later.                                                                             *)
FactorsOfTicket ==
  [][\A q \in Request :
       req[q].at \in {"presented", "derived"} /\ req'[q].at \in {"accepted", "rotated", "confirmed", "secret"} =>
         req[q].gen = rec.gen]_vars

(* A session a passkey completed is signed under the secret of its own transaction: it is  *)
(* good only while the TOTP factor of that moment and the passkey still stand.             *)
PasskeySessionEnds ==
  \A s \in DOMAIN sessions :
    sessions[s].seed # 0 /\ sessions[s].secret = rec.secret => sessions[s].seed = rec.totp.seed /\ rec.passkey = "active"

(* Every refused second factor is reported: what was counted since the last sign-in, or    *)
(* reported and not acknowledged yet, is exactly what was refused and not acknowledged.    *)
(* The counters stop at their limit, which only more refusals than that can reach; even    *)
(* then nothing is reported that was not refused.                                          *)
FailuresReported ==
  /\ rec.since + rec.unack <= seen.owed
  /\ seen.refused <= MaxFailures => seen.owed = rec.since + rec.unack

(* A factor that was accepted, and written, is in the journal.                             *)
Journaled == seen.accepted \subseteq audit.held

(* What a sign-in or a step-up used is used once, and goes with the session it was for.     *)
CeremoniesOnce == TypeOK /\ OneDerivation /\ OneUse /\ PasskeySessionEnds

(* Nothing the store did is missing from what is told of it.                               *)
NothingUnrecorded == FailuresReported /\ Journaled
=============================================================================
