------------------------------ MODULE Sockets ------------------------------
(***************************************************************************)
(* Supervisor sessions, the session sockets opened under them, the calls a *)
(* socket carries and the step-up tickets it keeps (signin/sessions.rs,    *)
(* signin/tickets, session/{registry,socket,calls,stepup}.rs).             *)
(*                                                                         *)
(* A session stops being tracked in one critical section and its sockets   *)
(* are closed in a later one, by a listener; a socket is checked in one    *)
(* step and registered in a later one; a socket's teardown runs beside the *)
(* jobs its calls left on the lanes.  Every such gap is a gap between two  *)
(* actions here.                                                           *)
(***************************************************************************)
EXTENDS Naturals, FiniteSets, Sequences, SequencesExt

CONSTANTS Session,      \* session tokens, numbered in the order they are issued
          Socket,       \* handshakes, numbered in the order they are made
          Call,         \* calls, numbered in the order they are sent
          Capacity,     \* MAX_TRACKED
          MaxSockets,   \* MAX_SOCKETS_PER_SESSION
          MaxInFlight,  \* MAX_IN_FLIGHT
          MaxRotations, \* bound: rotations of the session secret
          None          \* no socket, no session, no ticket, no close code

(* The codes a socket closes with.                                                         *)
Codes == {1000, 1013, 4401}

ASSUME SocketsAssumption ==
  /\ Session \subseteq Nat /\ Socket \subseteq Nat /\ Call \subseteq Nat
  /\ Capacity \in Nat \ {0} /\ MaxSockets \in Nat \ {0} /\ MaxInFlight \in Nat \ {0}
  /\ MaxRotations \in Nat
  /\ None \notin Session \cup Socket \cup Call \cup Codes

VARIABLES
  unissued,  \* sessions not issued yet
  signed,    \* sessions whose token verifies under the stored secret and is not expired
  tracked,   \* Sessions::tracked, the least recently active first
  idle,      \* how many of the first of them have idled out
  toTell,    \* ends of sessions whose listeners have not been called yet
  rotations, \* bound
  session,   \* the session of a socket
  stage,     \* how far a socket is
  closed,    \* Socket::closed, the first close's code
  registry,  \* the registered sockets
  slot,      \* Socket::ticket
  tickets,   \* Tickets::records, a ticket named by the call it was issued for
  call       \* the calls

sessionVars == <<unissued, signed, tracked, idle, toTell, rotations>>
socketVars == <<session, stage, closed, registry>>
ticketVars == <<slot, tickets>>
allVars == <<sessionVars, socketVars, ticketVars, call>>

(* The stages of a socket: its handshake, its service, and the steps of shut_down.          *)
Stages == {"none", "admitted", "registered", "serving", "removed", "revoked", "discarded", "gone"}
Kinds == {"operate", "begin", "complete"}
Places == {"new", "spawned", "queued", "checked", "issued", "kept", "taken", "consumed", "done"}
NewCall == [sock |-> None, kind |-> "operate", at |-> "new", ticket |-> None,
            orphan |-> FALSE, answered |-> FALSE]

SocketsInit ==
  /\ unissued = Session /\ signed = {} /\ tracked = <<>> /\ idle = 0
  /\ toTell = {} /\ rotations = 0
  /\ session = [k \in Socket |-> None] /\ stage = [k \in Socket |-> "none"]
  /\ closed = [k \in Socket |-> None] /\ registry = {}
  /\ slot = [k \in Socket |-> None] /\ tickets = {}
  /\ call = [c \in Call |-> NewCall]

-----------------------------------------------------------------------------
(* Sessions.                                                                               *)

(* Sessions::tracked without a session it tracks.                                          *)
Untracked(s) == RemoveAt(tracked, CHOOSE i \in DOMAIN tracked : tracked[i] = s)

IsIdle(s) == \E i \in 1..idle : tracked[i] = s

(* Any token that verifies and is not idle, tracked or not. *)
ActiveIfSigned(s) == s \in signed /\ ~IsIdle(s)

(* app.session_evidence: the token verifies, has not expired, and its session is tracked   *)
(* and not idle.                                                                           *)
Active(s) == s \in signed /\ s \in ToSet(tracked) /\ ~IsIdle(s)

(* Sessions::current without activity: a tracked session found idle is dropped and told.   *)
Found(s) ==
  IF s \in signed /\ IsIdle(s)
  THEN /\ tracked' = Untracked(s)
       /\ idle' = idle - 1
       /\ toTell' = toTell \cup {{s}}
  ELSE UNCHANGED <<tracked, idle, toTell>>

(* token::issue and Sessions::register: the idle sessions end, the least recently active   *)
(* ones are evicted beyond capacity, and the new one is tracked.                           *)
Register(s) ==
  LET kept == SubSeq(tracked, idle + 1, Len(tracked))
      room == IF Len(kept) >= Capacity THEN SubSeq(kept, Len(kept) - Capacity + 2, Len(kept)) ELSE kept
      ended == ToSet(tracked) \ ToSet(room)
  IN /\ s \in unissued /\ \A t \in unissued : s <= t
     /\ unissued' = unissued \ {s} /\ signed' = signed \cup {s}
     /\ tracked' = Append(room, s) /\ idle' = 0
     /\ toTell' = IF ended = {} THEN toTell ELSE toTell \cup {ended}
     /\ UNCHANGED <<rotations, socketVars, ticketVars, call>>

(* Time passes: the least recently active session that is not idle idles out.              *)
IdleOut ==
  /\ idle < Len(tracked) /\ idle' = idle + 1
  /\ UNCHANGED <<unissued, signed, tracked, toTell, rotations, socketVars, ticketVars, call>>

(* Time passes: a token reaches its absolute expiry; it stays tracked until it idles out.  *)
Expires(s) ==
  /\ s \in signed \cap ToSet(tracked) /\ signed' = signed \ {s}
  /\ UNCHANGED <<unissued, tracked, idle, toTell, rotations, socketVars, ticketVars, call>>

(* The session secret is replaced: no token verifies and none is tracked any more.  The    *)
(* gap between the record's write and end_all is SignIn's.                                 *)
EndAll ==
  /\ rotations < MaxRotations /\ rotations' = rotations + 1
  /\ signed' = {} /\ tracked' = <<>> /\ idle' = 0 /\ toTell' = toTell \cup {Session}
  /\ UNCHANGED <<unissued, socketVars, ticketVars, call>>

(* The listener of the ended sessions: every socket registered under them is closed as     *)
(* signed out; the first close wins.                                                       *)
TellEnded(ended) ==
  /\ ended \in toTell /\ toTell' = toTell \ {ended}
  /\ closed' = [k \in Socket |-> IF k \in registry /\ session[k] \in ended /\ closed[k] = None
                                 THEN 4401 ELSE closed[k]]
  /\ UNCHANGED <<unissued, signed, tracked, idle, rotations, session, stage, registry,
                 ticketVars, call>>

-----------------------------------------------------------------------------
(* A socket, from its handshake to its teardown.                                           *)

(* Socket::end.                                                                            *)
End(k, code) == closed' = [closed EXCEPT ![k] = IF @ = None THEN code ELSE @]

(* Socket::authorized: a socket whose session is not current closes now.                   *)
Authorized(k) == closed[k] = None /\ Active(session[k])
CheckSocket(k) ==
  IF closed[k] # None THEN UNCHANGED <<tracked, idle, toTell, closed>>
  ELSE /\ Found(session[k])
       /\ IF Active(session[k]) THEN UNCHANGED closed ELSE End(k, 4401)
sessionRest == <<unissued, signed, rotations>>

(* admit: the handshake's session is current; a handshake refused leaves nothing behind.   *)
Admit(k, s) ==
  /\ stage[k] = "none" /\ \A j \in Socket : j < k => stage[j] # "none"
  /\ s \notin unissued
  /\ Found(s)
  /\ IF Active(s)
     THEN /\ stage' = [stage EXCEPT ![k] = "admitted"] /\ session' = [session EXCEPT ![k] = s]
     ELSE UNCHANGED <<stage, session>>
  /\ UNCHANGED <<sessionRest, closed, registry, ticketVars, call>>

(* Registry::add: refused when the session holds as many sockets as it may.                *)
Add(k) ==
  /\ stage[k] = "admitted"
  /\ IF Cardinality({j \in registry : session[j] = session[k]}) >= MaxSockets
     THEN /\ stage' = [stage EXCEPT ![k] = "gone"] /\ UNCHANGED registry
     ELSE /\ stage' = [stage EXCEPT ![k] = "registered"] /\ registry' = registry \cup {k}
  /\ UNCHANGED <<sessionVars, session, closed, ticketVars, call>>

(* The upgrade completes and the socket is served, or fails and the socket is forgotten.   *)
Upgraded(k) ==
  /\ stage[k] = "registered"
  /\ stage' = [stage EXCEPT ![k] = "serving"]
  /\ UNCHANGED <<sessionVars, session, closed, registry, ticketVars, call>>
UpgradeFails(k) ==
  /\ stage[k] = "registered"
  /\ stage' = [stage EXCEPT ![k] = "gone"] /\ registry' = registry \ {k}
  /\ UNCHANGED <<sessionVars, session, closed, ticketVars, call>>

(* The client leaves (1000), or the socket closes as unavailable: a write that is not      *)
(* taken in time, a queue that overflows, a check the store cannot answer (1013).          *)
Closes(k) ==
  /\ stage[k] = "serving" /\ closed[k] = None
  /\ \E code \in {1000, 1013} : End(k, code)
  /\ UNCHANGED <<sessionVars, session, stage, registry, ticketVars, call>>

(* The timer only watches the deadlines of a tracked session. *)
ExpireTimerOfTracked(k) ==
  /\ stage[k] = "serving" /\ closed[k] = None /\ session[k] \in ToSet(tracked)
  /\ CheckSocket(k)
  /\ UNCHANGED <<sessionRest, session, stage, registry, ticketVars, call>>

(* expire: the timer of the session's deadlines, at most a minute, checks it again.        *)
ExpireTimer(k) ==
  /\ stage[k] = "serving" /\ closed[k] = None
  /\ CheckSocket(k)
  /\ UNCHANGED <<sessionRest, session, stage, registry, ticketVars, call>>

(* An activity frame of a current socket restarts its session's idle time.                *)
Renew(k) ==
  LET s == session[k]
  IN /\ stage[k] = "serving" /\ Authorized(k)
     /\ tracked' = Append(Untracked(s), s)
     /\ UNCHANGED <<sessionRest, idle, toTell, socketVars, ticketVars, call>>

(* shut_down: the socket leaves the registry, its tickets are revoked, the one it keeps is *)
(* discarded, its calls are aborted.                                                       *)
Unregister(k) ==
  /\ stage[k] = "serving" /\ closed[k] # None
  /\ stage' = [stage EXCEPT ![k] = "removed"] /\ registry' = registry \ {k}
  /\ UNCHANGED <<sessionVars, session, closed, ticketVars, call>>
Revoke(k) ==
  /\ stage[k] = "removed"
  /\ stage' = [stage EXCEPT ![k] = "revoked"]
  /\ tickets' = {t \in tickets : call[t].sock # k}
  /\ UNCHANGED <<sessionVars, session, closed, registry, slot, call>>
Discard(k) ==
  /\ stage[k] = "revoked"
  /\ stage' = [stage EXCEPT ![k] = "discarded"]
  /\ tickets' = tickets \ {slot[k]} /\ slot' = [slot EXCEPT ![k] = None]
  /\ UNCHANGED <<sessionVars, session, closed, registry, call>>

InFlight(k) == {c \in Call : call[c].sock = k /\ call[c].at \notin {"new", "done"} /\ ~call[c].orphan}
Move(c, where) == call' = [call EXCEPT ![c].at = where]

(* A call that ended: its socket and whether it was answered are all that is kept of it.   *)
Ended(c, answered) == [NewCall EXCEPT !.sock = call[c].sock, !.at = "done", !.answered = answered]
Drop(c) == call' = [call EXCEPT ![c] = Ended(c, FALSE)]

(* calls::run's end: the result is queued, unless the socket closed or the task was aborted. *)
Answer(c) == call' = [call EXCEPT ![c] = Ended(c, ~call[c].orphan /\ closed[call[c].sock] = None)]

(* A call's task is dropped where it waits; the job it left on a lane runs on alone.       *)
AbortCalls(k) ==
  /\ stage[k] = "discarded"
  /\ stage' = [stage EXCEPT ![k] = "gone"]
  /\ call' = [c \in Call |->
       IF call[c].sock # k \/ call[c].at \in {"new", "done"} THEN call[c]
       ELSE IF call[c].at = "spawned" THEN Ended(c, FALSE)
       ELSE [call[c] EXCEPT !.orphan = TRUE]]
  /\ UNCHANGED <<sessionVars, session, closed, registry, ticketVars>>

-----------------------------------------------------------------------------
(* A call, from its frame to its result.                                                   *)

(* Socket::call: the socket is checked, the call is refused over its budget or beyond the  *)
(* calls in flight, or its task is spawned.                                                *)
Receive(c, k, kind) ==
  /\ call[c].at = "new" /\ \A d \in Call : d < c => call[d].at # "new"
  /\ stage[k] = "serving" /\ closed[k] = None
  /\ CheckSocket(k)
  /\ \/ /\ Authorized(k) /\ Cardinality(InFlight(k)) < MaxInFlight
        /\ call' = [call EXCEPT ![c] = [NewCall EXCEPT !.sock = k, !.kind = kind, !.at = "spawned"]]
     \/ /\ Authorized(k)
        /\ call' = [call EXCEPT ![c] = [NewCall EXCEPT !.sock = k, !.at = "done", !.answered = TRUE]]
     \/ ~Authorized(k) /\ UNCHANGED call
  /\ UNCHANGED <<sessionRest, session, stage, registry, ticketVars>>

(* calls::run: checked again, the call's method starts and its job waits for a lane; a     *)
(* confirmation whose password is refused is answered at once.                             *)
StartCall(c) ==
  LET k == call[c].sock
  IN /\ call[c].at = "spawned"
     /\ CheckSocket(k)
     /\ \/ Authorized(k) /\ Move(c, "queued")
        \/ Authorized(k) /\ call[c].kind = "begin" /\ Answer(c)
        \/ ~Authorized(k) /\ Drop(c)
     /\ UNCHANGED <<sessionRest, session, stage, registry, ticketVars>>

(* A full lane answers at once.                                                            *)
LaneFull(c) ==
  /\ call[c].at = "queued" /\ ~call[c].orphan
  /\ Answer(c)
  /\ UNCHANGED <<sessionVars, socketVars, ticketVars>>

(* calls::current on the worker: the job runs only when the socket is still current.       *)
Turn(c) ==
  LET k == call[c].sock
  IN /\ call[c].at = "queued"
     /\ CheckSocket(k)
     /\ IF Authorized(k) THEN Move(c, "checked") ELSE Drop(c)
     /\ UNCHANGED <<sessionRest, session, stage, registry, ticketVars>>

(* The operation of an unconfirmed call runs to its end.                                   *)
Operate(c) ==
  /\ call[c].at = "checked" /\ call[c].kind = "operate"
  /\ Answer(c)
  /\ UNCHANGED <<sessionVars, socketVars, ticketVars>>

(* offer_operation: the ticket bound to the socket and its session is issued, or refused   *)
(* (capacity, a factor the record cannot offer) with nothing left.                         *)
Issue(c) ==
  /\ call[c].at = "checked" /\ call[c].kind = "begin"
  /\ \/ Move(c, "issued") /\ tickets' = tickets \cup {c}
     \/ Answer(c) /\ UNCHANGED tickets
  /\ UNCHANGED <<sessionVars, socketVars, slot>>

(* replace_ticket and the earlier ticket's discard.                                        *)
Keep(c) ==
  LET k == call[c].sock
  IN /\ call[c].at = "issued" /\ Move(c, "kept")
     /\ slot' = [slot EXCEPT ![k] = c] /\ tickets' = tickets \ {slot[k]}
     /\ UNCHANGED <<sessionVars, socketVars>>

(* The offer trusts the socket's own revocation. *)
OfferedUnchecked(c) ==
  /\ call[c].at = "kept" /\ Answer(c)
  /\ UNCHANGED <<sessionVars, socketVars, ticketVars>>

(* A ticket kept as the socket closed is revoked here.                                     *)
Offered(c) ==
  LET k == call[c].sock
  IN /\ call[c].at = "kept" /\ Answer(c)
     /\ tickets' = IF k \in registry THEN tickets ELSE {t \in tickets : t # c /\ call[t].sock # k}
     /\ UNCHANGED <<sessionVars, socketVars, slot>>

(* stepup::complete: the socket's ticket is taken,                                         *)
Take(c) ==
  LET k == call[c].sock
  IN /\ call[c].at = "checked" /\ call[c].kind = "complete"
     /\ call' = [call EXCEPT ![c].at = "taken", ![c].ticket = slot[k]]
     /\ slot' = [slot EXCEPT ![k] = None]
     /\ UNCHANGED <<sessionVars, socketVars, tickets>>

(* then consumed, and its second factor verified; an unknown ticket or a refused factor is *)
(* the answer,                                                                             *)
Consume(c) ==
  /\ call[c].at = "taken"
  /\ tickets' = tickets \ {call[c].ticket}
  /\ \/ Move(c, "consumed") /\ call[c].ticket \in tickets
     \/ Answer(c)
  /\ UNCHANGED <<sessionVars, socketVars, slot>>

(* then the session, the socket and its registration are checked again before the          *)
(* operation is dispatched.                                                                *)
Confirm(c) ==
  LET k == call[c].sock
  IN /\ call[c].at = "consumed"
     /\ CheckSocket(k)
     /\ IF Authorized(k) /\ k \in registry
        THEN call' = [call EXCEPT ![c].at = "checked", ![c].kind = "operate", ![c].ticket = None]
        ELSE Drop(c)
     /\ UNCHANGED <<sessionRest, session, stage, registry, ticketVars>>

(* A ticket reaches its time limit.                                                        *)
TicketExpires(t) ==
  /\ t \in tickets /\ tickets' = tickets \ {t}
  /\ UNCHANGED <<sessionVars, socketVars, slot, call>>

-----------------------------------------------------------------------------
Ending == \E ended \in toTell : TellEnded(ended)
Serving(k) == Add(k) \/ Upgraded(k) \/ UpgradeFails(k) \/ Unregister(k) \/ Revoke(k) \/ Discard(k) \/ AbortCalls(k)
Working(c) == StartCall(c) \/ LaneFull(c) \/ Turn(c) \/ Operate(c) \/ Issue(c) \/ Keep(c)
                \/ Offered(c) \/ Take(c) \/ Consume(c) \/ Confirm(c)

SocketsNext ==
  \/ \E s \in Session : Register(s) \/ Expires(s)
  \/ IdleOut \/ EndAll \/ Ending
  \/ \E k \in Socket :
       \/ \E s \in Session : Admit(k, s)
       \/ Serving(k) \/ Closes(k) \/ ExpireTimer(k) \/ Renew(k)
       \/ \E c \in Call, kind \in Kinds : Receive(c, k, kind)
  \/ \E c \in Call : Working(c) \/ TicketExpires(c)

(* Started code runs on: the listener of an end, a socket's serving task and its timer.    *)
(* Clients, time, rotations, calls and their jobs owe nothing.                             *)
SocketsSpec ==
  /\ SocketsInit /\ [][SocketsNext]_allVars
  /\ WF_allVars(Ending)
  /\ \A k \in Socket : WF_allVars(Serving(k)) /\ WF_allVars(ExpireTimer(k))

-----------------------------------------------------------------------------
SocketsTypeOK ==
  /\ unissued \subseteq Session /\ signed \subseteq Session
  /\ tracked \in Seq(Session) /\ IsInjective(tracked) /\ Len(tracked) <= Capacity
  /\ idle \in 0..Len(tracked)
  /\ rotations \in 0..MaxRotations
  /\ toTell \subseteq SUBSET Session
  /\ session \in [Socket -> Session \cup {None}] /\ stage \in [Socket -> Stages]
  /\ closed \in [Socket -> Codes \cup {None}] /\ registry \subseteq Socket
  /\ slot \in [Socket -> Call \cup {None}] /\ tickets \subseteq Call
  /\ call \in [Call -> [sock : Socket \cup {None}, kind : Kinds, at : Places,
                        ticket : Call \cup {None}, orphan : BOOLEAN, answered : BOOLEAN]]

(* Every outstanding step-up ticket can still be accounted for: its socket keeps it and is *)
(* not torn down past the ticket's discard, or a job is about to keep, check or consume    *)
(* it, or the socket's own revocation is still to come.  So no ticket outlives the socket  *)
(* it is bound to, whichever of the offer and the teardown comes first.                    *)
TicketsAccounted ==
  \A t \in tickets :
    LET k == call[t].sock
    IN \/ slot[k] = t /\ stage[k] \in {"serving", "removed", "revoked"}
       \/ call[t].at \in {"issued", "kept"}
       \/ \E c \in Call : call[c].at = "taken" /\ call[c].ticket = t

(* The session ended and its listener has been called. *)
Told(s) == s \notin unissued \cup ToSet(tracked) /\ \A ended \in toTell : s \notin ended

(* Once the sockets of an ended session have been closed by the listener, no waiting job   *)
(* of that session begins: not even one of a socket that was admitted before the end and   *)
(* registered after it.                                                                    *)
NoStartAfterTold ==
  [][\A c \in Call : call[c].at # "checked" /\ call'[c].at = "checked" => ~Told(session[call[c].sock])]_allVars

(* A socket whose session is no longer current leaves the registry, also when it was       *)
(* registered after its session's sockets had been closed.                                 *)
EndedSessionCloses ==
  \A k \in Socket : (k \in registry /\ session[k] \notin signed \cap ToSet(tracked)) ~> (k \notin registry)

(* A call that ended without its result queued belongs to a socket that had closed: every *)
(* other call of the socket is answered, whatever its lane, its password or its ticket did. *)
EveryCallAnswered ==
  \A c \in Call : call[c].at = "done" /\ ~call[c].answered => closed[call[c].sock] # None

(* The socket's books: each ticket has one place, and each call its answer.                *)
CallsAccounted == SocketsTypeOK /\ TicketsAccounted /\ EveryCallAnswered

(* Nothing starts for a session that was told it ended, and its sockets close.             *)
EndedSessionEnds == NoStartAfterTold /\ EndedSessionCloses
=============================================================================
