------------------------------ MODULE Topics -------------------------------
(***************************************************************************)
(* One invalidation topic, from the change of what it names to the page    *)
(* that shows it: the topic's revision and its listeners                   *)
(* (session/topics.rs), the subscription and the bounded queue of a        *)
(* session socket (session/socket.rs, session/outbound.rs), the revision a *)
(* read carries (session/calls.rs), and the synced value of a page         *)
(* (frontend/src/lib/session/{socket,synced}.js).                          *)
(*                                                                         *)
(* A change is three steps of the task that makes it: the state is         *)
(* written, the topic's revision is advanced, and each listener is called, *)
(* with no lock held from one to the next.  A read takes the revision      *)
(* first and the state later.                                              *)
(***************************************************************************)
EXTENDS Naturals, FiniteSets, Sequences, SequencesExt

CONSTANTS Changer,     \* tasks that change the topic's state
          Page,        \* pages, each with one session socket at a time
          MaxChanges,  \* bound: changes made in all
          MaxReopens,  \* bound: sockets a page opens after its first
          Limit        \* the frames a socket's queue holds before it overflows

VARIABLES
  state,      \* what the topic names, as the number of changes made to it
  revision,   \* Topics::revisions of the topic
  change,     \* how far each changer is: [at, rev, left]
  listening,  \* the pages whose socket listens to the topics
  subscribed, \* the pages whose socket subscribes to the topic
  closed,     \* the pages whose socket closed
  queue,      \* Outbound::items of each page's socket
  call,       \* the call of each page's socket that runs now: [at, rev]
  page,       \* the synced value each page shows
  reopens     \* bound

vars == <<state, revision, change, listening, subscribed, closed, queue, call, page, reopens>>

(* A synced value: the state it was read from, the revision it reflects, the newest one    *)
(* announced, what it asks for, and whether it is to be read again once answered.          *)
Shown == [value : 0..MaxChanges, has : BOOLEAN, reflects : 0..MaxChanges, known : 0..MaxChanges,
          wants : {"subscribe", "read", "answer", "nothing"}, again : BOOLEAN]
NewPage == [value |-> 0, has |-> FALSE, reflects |-> 0, known |-> 0,
            wants |-> "subscribe", again |-> FALSE]
NoCall == [at |-> "none", rev |-> 0]
NoChange == [at |-> "none", rev |-> 0, left |-> {}]

Init ==
  /\ state = 0 /\ revision = 0
  /\ change = [w \in Changer |-> NoChange]
  /\ listening = Page /\ subscribed = {} /\ closed = {}
  /\ queue = [p \in Page |-> <<>>] /\ call = [p \in Page |-> NoCall]
  /\ page = [p \in Page |-> NewPage] /\ reopens = [p \in Page |-> 0]

-----------------------------------------------------------------------------
(* Topics.                                                                                 *)

Write(w) ==
  /\ change[w].at = "none" /\ state < MaxChanges
  /\ state' = state + 1 /\ change' = [change EXCEPT ![w].at = "written"]
  /\ UNCHANGED <<revision, listening, subscribed, closed, queue, call, page, reopens>>

(* Topics::changed: the revision is advanced and the listeners of now are called,          *)
Changed(w) ==
  /\ change[w].at = "written"
  /\ revision' = revision + 1
  /\ change' = [change EXCEPT ![w] = [at |-> "telling", rev |-> revision + 1, left |-> listening]]
  /\ UNCHANGED <<state, listening, subscribed, closed, queue, call, page, reopens>>

Notice(r) == [type |-> "changed", rev |-> r]

(* Every notice is queued. *)
PutAppends(q, frame) == Append(q, frame)

(* Outbound::put: a notice takes the place of the one still queued for its topic; a queue  *)
(* over its limit closes the socket, the frame staying queued.                             *)
Put(q, frame) ==
  LET told == {i \in DOMAIN q : q[i].type = "changed"}
  IN IF frame.type = "changed" /\ told # {}
     THEN [q EXCEPT ![CHOOSE i \in told : TRUE] = frame]
     ELSE Append(q, frame)

(* Socket::send.                                                                           *)
Send(p, frame) ==
  /\ queue' = [queue EXCEPT ![p] = IF p \in closed THEN @ ELSE Put(@, frame)]
  /\ closed' = IF Len(queue'[p]) > Limit THEN closed \cup {p} ELSE closed

(* one listener after the other: a socket that subscribes queues the notice.               *)
Tell(w, p) ==
  /\ change[w].at = "telling" /\ p \in change[w].left
  /\ change' = [change EXCEPT ![w].left = @ \ {p}]
  /\ IF p \in subscribed /\ p \notin closed THEN Send(p, Notice(change[w].rev)) ELSE UNCHANGED <<queue, closed>>
  /\ UNCHANGED <<state, revision, listening, subscribed, call, page, reopens>>
Told(w) ==
  /\ change[w].at = "telling" /\ change[w].left = {}
  /\ change' = [change EXCEPT ![w] = NoChange]
  /\ UNCHANGED <<state, revision, listening, subscribed, closed, queue, call, page, reopens>>

-----------------------------------------------------------------------------
(* The calls of a socket.                                                                  *)

Free(p) == p \notin closed /\ call[p].at = "none"

(* The revisions answered are read before the subscription is in place. *)
SubscribeAfterRevision(p) ==
  /\ Free(p) /\ page[p].wants = "subscribe"
  /\ call' = [call EXCEPT ![p] = [at |-> "subscribing", rev |-> revision]]
  /\ page' = [page EXCEPT ![p].wants = "answer"]
  /\ UNCHANGED <<state, revision, change, listening, subscribed, closed, queue, reopens>>

(* Socket::subscribe: under the subscriptions' lock the topic is added and its revision    *)
(* read.                                                                                   *)
Subscribe(p) ==
  /\ Free(p) /\ page[p].wants = "subscribe"
  /\ subscribed' = subscribed \cup {p}
  /\ call' = [call EXCEPT ![p] = [at |-> "subscribing", rev |-> revision]]
  /\ page' = [page EXCEPT ![p].wants = "answer"]
  /\ UNCHANGED <<state, revision, change, listening, closed, queue, reopens>>

Subscribing(p) ==
  /\ call[p].at = "subscribing"
  /\ subscribed' = subscribed \cup {p}
  /\ Send(p, [type |-> "subscribed", rev |-> call[p].rev])
  /\ call' = [call EXCEPT ![p] = NoCall]
  /\ UNCHANGED <<state, revision, change, listening, page, reopens>>

(* calls::run of a read: the topic's revision is taken,                                    *)
Read(p) ==
  /\ Free(p) /\ page[p].wants = "read"
  /\ call' = [call EXCEPT ![p] = [at |-> "reading", rev |-> revision]]
  /\ page' = [page EXCEPT ![p].wants = "answer", ![p].again = FALSE]
  /\ UNCHANGED <<state, revision, change, listening, subscribed, closed, queue, reopens>>

(* The state is read first, and the revision taken as the result is sent. *)
ReadingRevisionLast(p) ==
  /\ call[p].at = "reading"
  /\ Send(p, [type |-> "result", rev |-> revision, value |-> call[p].rev])
  /\ call' = [call EXCEPT ![p] = NoCall]
  /\ UNCHANGED <<state, revision, change, listening, subscribed, page, reopens>>

(* then the state is read and the result, which names that revision, is queued.            *)
Reading(p) ==
  /\ call[p].at = "reading"
  /\ Send(p, [type |-> "result", rev |-> call[p].rev, value |-> state])
  /\ call' = [call EXCEPT ![p] = NoCall]
  /\ UNCHANGED <<state, revision, change, listening, subscribed, page, reopens>>

(* The socket closes for another reason, with what it still has queued.                    *)
Close(p) ==
  /\ p \notin closed /\ reopens[p] < MaxReopens
  /\ closed' = closed \cup {p}
  /\ UNCHANGED <<state, revision, change, listening, subscribed, queue, call, page, reopens>>

(* serve's end: the socket forgets its listener and aborts its calls; the page opens a     *)
(* socket again and asks for its topics.  Past the bound on reopens the page is gone.      *)
Reopen(p) ==
  /\ p \in closed /\ reopens[p] < MaxReopens
  /\ reopens' = [reopens EXCEPT ![p] = @ + 1]
  /\ closed' = closed \ {p} /\ subscribed' = subscribed \ {p}
  /\ queue' = [queue EXCEPT ![p] = <<>>] /\ call' = [call EXCEPT ![p] = NoCall]
  /\ page' = [page EXCEPT ![p].wants = "subscribe", ![p].again = FALSE]
  /\ change' = [w \in Changer |-> [change[w] EXCEPT !.left = @ \ {p}]]
  /\ UNCHANGED <<state, revision, listening>>

-----------------------------------------------------------------------------
(* The page.                                                                               *)

Stale(v) == ~v.has \/ v.reflects < v.known

(* refresh: read now, or again once the read under way ends.                               *)
Refresh(v) == IF v.wants = "answer" THEN [v EXCEPT !.again = TRUE] ELSE [v EXCEPT !.wants = "read"]

(* A notice at a revision already known changes nothing; a newer one always reads.         *)
HearChanged(v, rev) ==
  IF rev <= v.known THEN v ELSE Refresh([v EXCEPT !.known = rev])

(* The subscription is in place: the page reads unless it holds a value that may not be    *)
(* older.                                                                                  *)
HearSubscribed(v, rev) ==
  LET heard == [v EXCEPT !.known = IF rev > @ THEN rev ELSE @, !.wants = "nothing"]
  IN IF v.again \/ Stale(heard) THEN Refresh([heard EXCEPT !.again = FALSE]) ELSE heard

(* A result is the value shown; one older than what was announced meanwhile is read again. *)
HearResult(v, rev, value) ==
  LET heard == [v EXCEPT !.value = value, !.has = TRUE, !.reflects = rev, !.wants = "nothing"]
  IN IF v.again \/ Stale(heard) THEN Refresh([heard EXCEPT !.again = FALSE]) ELSE heard

(* The writer sends the first frame and the page receives it.                              *)
Deliver(p) ==
  /\ p \notin closed /\ queue[p] # <<>>
  /\ queue' = [queue EXCEPT ![p] = Tail(@)]
  /\ LET frame == Head(queue[p])
     IN page' = [page EXCEPT ![p] =
          CASE frame.type = "changed" -> HearChanged(@, frame.rev)
            [] frame.type = "subscribed" -> HearSubscribed(@, frame.rev)
            [] frame.type = "result" -> HearResult(@, frame.rev, frame.value)]
  /\ UNCHANGED <<state, revision, change, listening, subscribed, closed, call, reopens>>

-----------------------------------------------------------------------------
Changing(w) == Changed(w) \/ Told(w) \/ \E p \in Page : Tell(w, p)
Answering(p) == Subscribe(p) \/ Subscribing(p) \/ Read(p) \/ Reading(p)

Next ==
  \/ \E w \in Changer : Write(w) \/ Changing(w)
  \/ \E p \in Page : Answering(p) \/ Deliver(p) \/ Close(p) \/ Reopen(p)

(* A change that was begun is told, a call is answered, a queued frame is written, and a   *)
(* page opens a closed socket again.  Nothing has to change or close.                      *)
Fairness ==
  /\ \A w \in Changer : WF_vars(Changing(w))
  /\ \A p \in Page : WF_vars(Answering(p)) /\ WF_vars(Deliver(p)) /\ WF_vars(Reopen(p))

Spec == Init /\ [][Next]_vars /\ Fairness

-----------------------------------------------------------------------------
TypeOK ==
  /\ state \in 0..MaxChanges /\ revision \in 0..state
  /\ change \in [Changer -> [at : {"none", "written", "telling"}, rev : 0..MaxChanges, left : SUBSET Page]]
  /\ listening \subseteq Page /\ subscribed \subseteq Page /\ closed \subseteq Page
  /\ \A p \in Page : /\ Len(queue[p]) <= Limit + 1
                      /\ Cardinality({i \in DOMAIN queue[p] : queue[p][i].type = "changed"}) <= 1
  /\ page \in [Page -> Shown] /\ reopens \in [Page -> 0..MaxReopens]

(* The revision a value says it reflects is never newer than the value: every change the   *)
(* revision counts had been written when the value was read.                               *)
NeverAhead == \A p \in Page : page[p].has => page[p].reflects <= page[p].value

(* Once nothing changes any more, a page that is open shows the state as it is: no change  *)
(* is lost between a subscription, a read, a queued notice and a reopened socket.          *)
PagesCatchUp ==
  \A p \in Page : <>[](p \in closed \/ page[p].value = state)
=============================================================================
