---------------------------- MODULE Integrations ----------------------------
(***************************************************************************)
(* The Supervisor's OAuth authorization of an Integration a paused turn    *)
(* asks for (integrations/{handoff,authorization,assistants,routes}.rs):   *)
(* the one-use handoffs, the calls of a page that start, complete and      *)
(* cancel one, the start and callback routes of its browser, and sign-out. *)
(*                                                                         *)
(* A handoff is its number, which stands for its token and for the binding *)
(* Team and the browser's cookie hold.  A call is cut at its Team request; *)
(* the answer and what Admin does with it are one step.  Team and the      *)
(* provider are external.                                                  *)
(***************************************************************************)
EXTENDS Naturals, FiniteSets, Sequences, SequencesExt, FiniteSetsExt

CONSTANTS
  Sessions,         \* Admin sessions, each of its own browser
  Challenges,       \* the challenges that wait
  Starts            \* what pages may authorize: the sessions, challenges and callback modes,
                    \* "refused" for an Origin with none, HANDOFF_CAPACITY, and, a bound, how often in all

VARIABLES
  handoffs,  \* each handoff issued: its session, challenge and mode, where it is, whether it is authorized
  calls,     \* the calls that await Team: what they ask, of which handoff
  held,      \* Team: the authorization each challenge has: its binding, or 0, and whether a claim was made
  connected, \* Team: the bindings connected
  cookies,   \* each browser's OAuth cookie: a binding, or 0
  signedOut, \* the sessions signed out
  start      \* the start: the authorizations of pages

handoffVars == <<handoffs, calls, held, connected, cookies, signedOut, start>>

(* The capacity and the bound are numbers.                                                 *)
ASSUME IntegrationsAssumption == \A s \in Starts : s.capacity \in Nat /\ s.calls \in Nat

Handoff == 1..Len(handoffs)
Pending(h) == handoffs[h].at = "pending"
NoAuthorization == [binding |-> 0, claimed |-> FALSE]
Leave(h, how) == [handoffs EXCEPT ![h].at = how]

-----------------------------------------------------------------------------
(* A page's authorization.                                                                 *)

(* A bug: only the whole store is bounded.                                                 *)
IssuableAny(s, c) == Cardinality({h \in Handoff : Pending(h)}) < start.capacity

(* issue: within the capacity, and none pending for this session and challenge.            *)
Issuable(s, c) ==
  /\ Cardinality({h \in Handoff : Pending(h)}) < start.capacity
  /\ \A h \in Handoff : Pending(h) => ~(handoffs[h].session = s /\ handoffs[h].challenge = c)

(* callback_mode, issue, start_authorization: a handoff is reserved and Team asked; what   *)
(* the page is refused leaves nothing.                                                     *)
Authorize(s, c, mode) ==
  /\ <<s, c, mode>> \in start.pages /\ Len(handoffs) < start.calls
  /\ mode # "refused" /\ Issuable(s, c)
  /\ handoffs' = Append(handoffs, [session |-> s, challenge |-> c, mode |-> mode, at |-> "pending",
                                   authorized |-> FALSE, shown |-> FALSE])
  /\ calls' = calls \cup {[kind |-> "authorize", handoff |-> Len(handoffs) + 1, at |-> "asked"]}
  /\ UNCHANGED <<held, connected, cookies, signedOut, start>>

(* Team begins an authorization under the binding, in place of what the challenge had.     *)
TeamAuthorizes(call) ==
  /\ call.kind = "authorize" /\ call.at = "asked"
  /\ \/ /\ held' = [held EXCEPT ![handoffs[call.handoff].challenge] = [binding |-> call.handoff, claimed |-> FALSE]]
        /\ \E answer \in {"yes", "lost"} : calls' = (calls \ {call}) \cup {[call EXCEPT !.at = answer]}
     \/ calls' = (calls \ {call}) \cup {[call EXCEPT !.at = "lost"]} /\ UNCHANGED held
  /\ UNCHANGED <<handoffs, connected, cookies, signedOut, start>>

(* A bug: what Team refused is left to its time.                                           *)
DiscardNothing(h) == handoffs

(* discard: the reservation of an authorization that came to nothing.                      *)
Discard(h) == IF Pending(h) THEN Leave(h, "gone") ELSE handoffs

(* authorize: only a handoff that still waits is authorized, and its address shown.        *)
Publish(h) ==
  IF Pending(h) /\ ~handoffs[h].authorized
  THEN [handoffs EXCEPT ![h].authorized = TRUE, ![h].shown = TRUE] ELSE Discard(h)

(* authorization::authorize's end: with an address, or without.                            *)
Authorized(call) ==
  /\ call.kind = "authorize" /\ call.at \in {"yes", "lost"}
  /\ handoffs' = IF call.at = "yes" THEN Publish(call.handoff) ELSE Discard(call.handoff)
  /\ calls' = calls \ {call}
  /\ UNCHANGED <<held, connected, cookies, signedOut, start>>

-----------------------------------------------------------------------------
(* The browser's routes.                                                                   *)

(* A bug: an address can be used as often as it is opened.                                 *)
ConsumeKept(h, mode) == handoffs

(* consume: the handoff is gone, whether or not it could be used.                          *)
ConsumeHandoff(h, mode) == IF Pending(h) THEN Leave(h, "used") ELSE handoffs

(* A bug: a handoff that is over is used like another.                                     *)
UsableGone(h, mode) == handoffs[h].authorized /\ handoffs[h].mode = mode

Usable(h, mode) == Pending(h) /\ handoffs[h].authorized /\ handoffs[h].mode = mode

(* oauth_start, in the browser the page opened: its cookie carries the binding.  A host    *)
(* with no callback discards the handoff.                                                  *)
OauthStart(s, h, host) ==
  /\ handoffs[h].shown /\ handoffs[h].session = s
  /\ handoffs' = IF host = "none" THEN Discard(h) ELSE ConsumeHandoff(h, host)
  /\ cookies' = IF Usable(h, host) THEN [cookies EXCEPT ![s] = h] ELSE cookies
  /\ UNCHANGED <<calls, held, connected, signedOut, start>>

(* The person reaches the provider, through the start route or directly, and approves: its *)
(* callback carries a claim.                                                               *)
Approve(c) ==
  /\ held[c].binding # 0 /\ ~held[c].claimed
  /\ LET handoff == handoffs[held[c].binding]
     IN handoff.shown /\ (handoff.mode = "out-of-band" \/ handoff.at = "used")
  /\ held' = [held EXCEPT ![c].claimed = TRUE]
  /\ UNCHANGED <<handoffs, calls, connected, cookies, signedOut, start>>

(* Team completes an authorization for who holds its binding, once.                        *)
TeamConnects(binding) ==
  LET granted == {c \in Challenges : binding # 0 /\ held[c].binding = binding /\ held[c].claimed}
  IN /\ connected' = connected \cup {held[c].binding : c \in granted}
     /\ held' = [c \in Challenges |-> IF c \in granted THEN NoAuthorization ELSE held[c]]

(* oauth_callback: with the cookie's binding, which is given up either way.                *)
OauthCallback(s) ==
  /\ cookies[s] # 0 /\ TeamConnects(cookies[s])
  /\ cookies' = [cookies EXCEPT ![s] = 0]
  /\ UNCHANGED <<handoffs, calls, signedOut, start>>

-----------------------------------------------------------------------------
(* Completion, cancellation and sign-out.                                                  *)

(* complete: an out-of-band handoff of this session that was authorized, gone before Team  *)
(* is asked.                                                                               *)
Complete(s, c) ==
  /\ s \notin signedOut
  /\ \E h \in Handoff :
       /\ Usable(h, "out-of-band") /\ handoffs[h].session = s /\ handoffs[h].challenge = c
       /\ handoffs' = Leave(h, "used")
       /\ calls' = calls \cup {[kind |-> "complete", handoff |-> h, at |-> "asked"]}
  /\ UNCHANGED <<held, connected, cookies, signedOut, start>>

TeamCompletes(call) ==
  /\ call.kind = "complete"
  /\ TeamConnects(call.handoff)
  /\ calls' = calls \ {call}
  /\ UNCHANGED <<handoffs, cookies, signedOut, start>>

(* cancel: what waits for this session and challenge is gone, then Team is told; with      *)
(* nothing that waits it is not.                                                           *)
Cancel(s, c) ==
  /\ s \notin signedOut
  /\ \E h \in Handoff :
       /\ Pending(h) /\ handoffs[h].session = s /\ handoffs[h].challenge = c
       /\ handoffs' = Leave(h, "gone")
       /\ calls' = calls \cup {[kind |-> "cancel", handoff |-> h, at |-> "asked"]}
  /\ UNCHANGED <<held, connected, cookies, signedOut, start>>

TeamCancels(call) ==
  /\ call.kind = "cancel"
  /\ held' = [c \in Challenges |-> IF held[c].binding = call.handoff THEN NoAuthorization ELSE held[c]]
  /\ calls' = calls \ {call}
  /\ UNCHANGED <<handoffs, connected, cookies, signedOut, start>>

(* logout, cancel_session: every handoff of the session that signs out.                    *)
SignOut(s) ==
  /\ s \notin signedOut /\ signedOut' = signedOut \cup {s}
  /\ handoffs' = [h \in Handoff |->
       IF Pending(h) /\ handoffs[h].session = s THEN [handoffs[h] EXCEPT !.at = "gone"] ELSE handoffs[h]]
  /\ UNCHANGED <<calls, held, connected, cookies, start>>

(* expired: HANDOFF_TTL is over.                                                           *)
Expire(h) ==
  /\ Pending(h) /\ handoffs' = Leave(h, "gone")
  /\ UNCHANGED <<calls, held, connected, cookies, signedOut, start>>
-----------------------------------------------------------------------------
HandoffsInit ==
  /\ handoffs = <<>> /\ calls = {} /\ held = [c \in Challenges |-> NoAuthorization]
  /\ connected = {} /\ cookies = [s \in Sessions |-> 0] /\ signedOut = {} /\ start \in Starts

HandoffsNext ==
  \/ \E s \in Sessions :
       \/ \E c \in Challenges : (\E mode \in {"loopback", "local-domain", "out-of-band", "refused"} : Authorize(s, c, mode)) \/ Complete(s, c) \/ Cancel(s, c)
       \/ \E h \in Handoff, host \in {"loopback", "local-domain", "none"} : OauthStart(s, h, host)
       \/ OauthCallback(s) \/ SignOut(s)
  \/ \E call \in calls :
       TeamAuthorizes(call) \/ Authorized(call) \/ TeamCompletes(call) \/ TeamCancels(call)
  \/ \E c \in Challenges : Approve(c)
  \/ \E h \in Handoff : Expire(h)

HandoffsSpec == HandoffsInit /\ [][HandoffsNext]_handoffVars

-----------------------------------------------------------------------------
(* A session has one authorization under way for a challenge at most, and there are no     *)
(* more in all than the store holds (handoff.rs).                                          *)
OnePending ==
  /\ Cardinality({h \in Handoff : Pending(h)}) <= start.capacity
  /\ \A g, h \in Handoff :
       Pending(g) /\ Pending(h) /\ handoffs[g].session = handoffs[h].session
         /\ handoffs[g].challenge = handoffs[h].challenge => g = h

(* A reservation that waits is one Team is being asked about: an authorization that failed *)
(* does not keep the page from trying again (authorization.rs).                            *)
ReservedIsAsked ==
  \A h \in Handoff : Pending(h) /\ ~handoffs[h].authorized =>
    \E call \in calls : call.kind = "authorize" /\ call.handoff = h

(* An Integration is connected only through a handoff its session used: one that was       *)
(* cancelled, signed out, refused or expired first never connects, though Team may still   *)
(* hold its authorization (handoff.rs, authorization.rs).                                  *)
ConnectedWasUsed ==
  \A h \in (connected \cup {cookies[s] : s \in Sessions}) \ {0} :
    handoffs[h].shown /\ handoffs[h].at = "used"

(* A binding leaves the store as it is given, to one browser's cookie or to one completion *)
(* (handoff.rs: "consumes it exactly once").                                               *)
Given(h) ==
  \/ \E s \in Sessions : cookies'[s] = h /\ cookies[s] # h
  \/ \E call \in calls' \ calls : call.kind = "complete" /\ call.handoff = h
GivenOnce == [][\A h \in Handoff : Given(h) => Pending(h) /\ handoffs'[h].at = "used"]_handoffVars

(* An authorization under way is one, is asked of Team while it is reserved, and connects   *)
(* only what it was used for.                                                              *)
HandoffsHeld == OnePending /\ ReservedIsAsked /\ ConnectedWasUsed
=============================================================================
