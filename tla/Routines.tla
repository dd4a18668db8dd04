------------------------------ MODULE Routines ------------------------------
(***************************************************************************)
(* Routines (routine/*.rs): the scheduler that delivers Team's notices and *)
(* claims due runs onto two workers, the challenges of frozen runs that    *)
(* Admin keeps for a person's answer, and the calls by which a person      *)
(* manages Routines.                                                       *)
(*                                                                         *)
(* Team is external: it leases due runs, runs their segments, freezes them *)
(* on a challenge, holds them on a card and keeps a notice of each run     *)
(* until its exact version is acknowledged.  It keeps one challenge per    *)
(* Team, a new one cancels the last, and a challenge resumes its run once. *)
(* A run stands for its Routine, and its proposal for the card that        *)
(* creates it.  A request of Admin whose answer never comes has taken      *)
(* effect or never does.                                                   *)
(***************************************************************************)
EXTENDS History

CONSTANTS Runs, Long,        \* the runs, and those with more active time than a short one
          TeamOf,            \* the Team of each run
          Workers,           \* WORKERS
          MaxBatches,        \* MAX_BATCHES
          MaxAck,            \* routine_run::MAX_ACK_DELIVERIES
          MaxOpenChallenges, \* MAX_OPEN_CHALLENGES
          MaxTracked,        \* MAX_TRACKED_GENERATIONS
          MaxOpeningTeams,   \* MAX_OPENING_TEAMS
          NoRun,
          Starts,            \* how the runs may stand as Admin starts, and how many calls,
                             \* failures and notices of a run follow
          Calls              \* a person's calls, 1..n, made in this order

(* How a run may stand as Admin starts: a lease of an earlier process has ended by then.   *)
StartStatuses == {"waiting", "due", "proposed", "held", "frozen", "frozen-integration", "done"}

ASSUME RoutinesAssumption ==
  /\ IsFiniteSet(Runs) /\ Long \subseteq Runs /\ NoRun \notin Runs
  /\ Calls \subseteq Nat \ {0}
  /\ \A start \in Starts : start.status \in [Runs -> StartStatuses] /\ {start.calls, start.faults, start.version} \subseteq Nat
  /\ {Workers, MaxBatches, MaxAck, MaxOpenChallenges, MaxTracked, MaxOpeningTeams} \subseteq Nat \ {0}

Teams == {TeamOf[r] : r \in Runs}

VARIABLES
  team,    \* what Team holds of each run, and the challenge of each Team
  store,   \* the transcripts
  sch,     \* the scheduler: its task, its wake, its hint and the free slots
  workers, \* the segments under way: the run, whether the long slot is held and the run stands
  kept,    \* Kept: the open challenges and each Team's latest opening
  opening, \* openings: each Team's lock and how many hold or await it
  call,    \* the person's calls
  faults,
  bounds   \* what is left of this start's bounds is below these

vars == <<team, store, sch, workers, kept, opening, call, faults, bounds>>

-----------------------------------------------------------------------------
(* Team.                                                                                   *)

(* A run Team may lease: due, and its dispatch on.                                         *)
Claimable(r) == team.status[r] = "due" /\ team.dispatch[r] # "off"

(* How a segment leaves its run, with a new version of its notice.                         *)
Stands(t, r, status) ==
  [t EXCEPT !.status[r] = status, !.version[r] = @ + 1,
            !.outcome[r] = IF status = "frozen-integration" THEN "frozen" ELSE status]

Undelivered(t) == {r \in Runs : t.version[r] > t.acked[r]}

(* The notice of a run: how it stands, in its version.                                     *)
NoticeOf(t, r) ==
  [kind |-> "notice", outcome |-> t.outcome[r], version |-> t.version[r], routine |-> r, run |-> TRUE]

CardOf(r) == [kind |-> "card", proposal |-> r]

-----------------------------------------------------------------------------
(* The scheduler's wake, its hint and its slots.                                           *)

(* Scheduler::new: no permit of the wake, the first tick at once, every slot free.         *)
NewScheduler ==
  [at |-> "asleep", woken |-> FALSE, due |-> "now", slots |-> Workers, long |-> 1,
   batches |-> 0, batch |-> <<>>, more |-> FALSE, acks |-> <<>>, reserved |-> FALSE, answer |-> NoRun,
   hint |-> "none", slot |-> FALSE]

(* A bug: only a scheduler that sleeps hears the wake.                                     *)
WakeSleeping(s) == IF s.at = "asleep" THEN [s EXCEPT !.due = "now", !.woken = TRUE] ELSE [s EXCEPT !.due = "now"]

(* wake: the hint is now, and notify_one leaves a permit when nobody waits.                *)
Wake(s) == [s EXCEPT !.due = "now", !.woken = TRUE]

(* The task is between two ticks.                                                          *)
Rest(s) == [NewScheduler EXCEPT !.woken = s.woken, !.due = s.due, !.slots = s.slots, !.long = s.long]

(* The slots a tick holds go back as its frame ends.                                       *)
Dropped(s) ==
  [Rest(s) EXCEPT !.slots = @ + (IF s.slot THEN 1 ELSE 0), !.long = @ + (IF s.reserved THEN 1 ELSE 0)]

(* run: the wake or the delay ends the sleep; the delay is the interval, or sooner for a   *)
(* hint, and may end at any time of the model.                                             *)
Tick ==
  /\ sch.at = "asleep"
  /\ sch' = [sch EXCEPT !.at = "fetch", !.woken = FALSE, !.batches = 1]
  /\ UNCHANGED <<bounds, team, store, workers, kept, opening, call, faults>>

-----------------------------------------------------------------------------
(* Delivery: a batch is fetched, written and acknowledged.                                 *)

(* A failed step ends the delivery; start_runs follows all the same.                       *)
DeliveryFails(at) ==
  /\ sch.at = at /\ faults < bounds.faults
  /\ faults' = faults + 1
  /\ sch' = [sch EXCEPT !.at = "start", !.batch = <<>>, !.acks = <<>>]
  /\ UNCHANGED <<bounds, team, store, workers, kept, opening, call>>

(* notices: one bounded batch of the undelivered notices, and whether Team has more.       *)
Fetch ==
  /\ sch.at = "fetch"
  /\ \E rs \in SUBSET Undelivered(team) :
       /\ rs = {} => Undelivered(team) = {}
       /\ sch' = [sch EXCEPT !.at = "write", !.more = rs # Undelivered(team),
                             !.batch = [i \in 1..Cardinality(rs) |-> NoticeOf(team, SetToSeq(rs)[i])],
                             !.acks = <<>>]
  /\ UNCHANGED <<bounds, team, store, workers, kept, opening, call, faults>>

(* The delivery of one batch is over: the next one, up to MAX_BATCHES, or the claims.      *)
NextBatch(s) ==
  [s EXCEPT !.at = IF s.more /\ s.batches < MaxBatches THEN "fetch" ELSE "start",
            !.batches = @ + 1, !.batch = <<>>, !.acks = <<>>, !.more = FALSE]

(* acknowledgments: chunks of at most MaxAck deliveries; the bytes are left out.           *)
Chunks(ns) ==
  LET n == (Len(ns) + MaxAck - 1) \div MaxAck
  IN [i \in 1..n |-> SubSeq(ns, (i - 1) * MaxAck + 1, IF i * MaxAck < Len(ns) THEN i * MaxAck ELSE Len(ns))]

(* A bug: the batch is acknowledged as it is read.                                         *)
WriteAcknowledged ==
  /\ sch.at = "write"
  /\ team' = [team EXCEPT !.acked = [r \in Runs |-> IF \E i \in DOMAIN sch.batch : sch.batch[i].routine = r
                                                    THEN team.version[r] ELSE @[r]]]
  /\ sch' = NextBatch(sch)
  /\ UNCHANGED <<bounds, store, workers, kept, opening, call, faults>>

(* batch: the next notice to its transcript, one transaction each; a notice that conflicts *)
(* with its row ends the delivery; an empty batch acknowledges nothing.                    *)
Write ==
  /\ sch.at = "write"
  /\ IF sch.batch = <<>>
     THEN /\ store' = store
          /\ sch' = IF sch.acks = <<>> THEN NextBatch(sch)
                    ELSE [sch EXCEPT !.at = "ack", !.acks = Chunks(@)]
     ELSE LET n == Head(sch.batch)
              written == AppendNotice(store, TeamOf[n.routine], n.routine, n, 0)
          IN /\ store' = written[2]
             /\ sch' = IF written[1] = "conflict"
                       THEN [sch EXCEPT !.at = "start", !.batch = <<>>, !.acks = <<>>]
                       ELSE [sch EXCEPT !.batch = Tail(@), !.acks = Append(@, n)]
  /\ UNCHANGED <<bounds, team, workers, kept, opening, call, faults>>

(* acknowledge: one chunk; Team takes the exact versions it names.                         *)
Acked(t, chunk) ==
  [t EXCEPT !.acked = [r \in Runs |->
     IF \E i \in DOMAIN chunk : chunk[i].routine = r
     THEN LET v == (CHOOSE i \in DOMAIN chunk : chunk[i].routine = r) IN
          IF chunk[v].version > @[r] THEN chunk[v].version ELSE @[r]
     ELSE @[r]]]

Acknowledge ==
  /\ sch.at = "ack"
  /\ team' = Acked(team, Head(sch.acks))
  /\ sch' = IF Len(sch.acks) = 1 THEN NextBatch(sch) ELSE [sch EXCEPT !.acks = Tail(@)]
  /\ UNCHANGED <<bounds, store, workers, kept, opening, call, faults>>

(* The acknowledgment took effect and its answer is lost.                                  *)
AcknowledgeLost ==
  /\ sch.at = "ack" /\ faults < bounds.faults
  /\ faults' = faults + 1
  /\ team' = Acked(team, Head(sch.acks))
  /\ sch' = [sch EXCEPT !.at = "start", !.acks = <<>>]
  /\ UNCHANGED <<bounds, store, workers, kept, opening, call>>

-----------------------------------------------------------------------------
(* Claims.                                                                                 *)

(* start_runs: without a free slot the tick is over and the hint stays; the identity that  *)
(* could not be read or written gives the slot back.                                       *)
StartRuns ==
  /\ sch.at = "start"
  /\ sch' = IF sch.slots = 0 THEN Rest(sch)
            ELSE [sch EXCEPT !.at = "reserve", !.slots = @ - 1, !.slot = TRUE, !.due = "none"]
  /\ UNCHANGED <<bounds, team, store, workers, kept, opening, call, faults>>

IdentityFails ==
  /\ sch.at = "start" /\ sch.slots > 0 /\ faults < bounds.faults
  /\ faults' = faults + 1
  /\ sch' = Rest(sch)
  /\ UNCHANGED <<bounds, team, store, workers, kept, opening, call>>

(* next_due_at: Team hints at a run that waits for its time.                               *)
Hint == IF \E r \in Runs : team.status[r] = "waiting" THEN "later" ELSE "none"

(* claim: the long slot is reserved when it is free, and the request says so; Team leases  *)
(* a run that may start, a long one only when asked.                                       *)
Reserve ==
  /\ sch.at = "reserve"
  /\ LET free == sch.long = 1
         may == {r \in Runs : Claimable(r) /\ (r \in Long => free)}
     IN \E r \in may \cup {NoRun} :
          /\ r = NoRun => may = {}
          /\ sch' = [sch EXCEPT !.at = "claimed", !.reserved = free, !.long = 0, !.answer = r,
                                !.hint = IF r = NoRun THEN Hint ELSE "none"]
          /\ team' = IF r = NoRun THEN team
                     ELSE [team EXCEPT !.status[r] = "leased"]
  /\ UNCHANGED <<bounds, store, workers, kept, opening, call, faults>>

(* Team leased a long run that was not asked for.                                          *)
LongUnasked ==
  /\ sch.at = "reserve" /\ sch.long = 0 /\ faults < bounds.faults
  /\ faults' = faults + 1
  /\ \E r \in Long :
       /\ Claimable(r)
       /\ sch' = [sch EXCEPT !.at = "claimed", !.answer = r]
       /\ team' = [team EXCEPT !.status[r] = "leased"]
  /\ UNCHANGED <<bounds, store, workers, kept, opening, call>>

(* A bug: the reserved long slot is kept when nothing may start.                           *)
ClaimedKeepsLong ==
  /\ sch.at = "claimed"
  /\ IF sch.answer = NoRun
     THEN sch' = [Dropped([sch EXCEPT !.reserved = FALSE]) EXCEPT !.due = sch.hint] /\ UNCHANGED workers
     ELSE /\ workers' = Append(workers, [run |-> sch.answer, long |-> sch.answer \in Long, stood |-> FALSE])
          /\ sch' = Rest(sch)
  /\ UNCHANGED <<bounds, team, store, kept, opening, call, faults>>

(* The answer: nothing to start ends the tick with Team's hint; a long run keeps the slot  *)
(* reserved for it, and is left to its lease without one; a run starts on its worker and   *)
(* the next free slot is taken for another claim.                                          *)
Claimed ==
  /\ sch.at = "claimed"
  /\ IF sch.answer = NoRun
     THEN sch' = [Dropped(sch) EXCEPT !.due = sch.hint] /\ UNCHANGED workers
     ELSE IF sch.answer \in Long /\ ~sch.reserved
     THEN sch' = Dropped(sch) /\ UNCHANGED workers
     ELSE LET reserves == sch.answer \in Long
              back == [sch EXCEPT !.long = IF sch.reserved /\ ~reserves THEN 1 ELSE @, !.reserved = FALSE, !.answer = NoRun]
          IN /\ workers' = Append(workers, [run |-> sch.answer, long |-> reserves, stood |-> FALSE])
             /\ sch' = IF sch.slots = 0 THEN Rest(back)
                       ELSE [back EXCEPT !.at = "reserve", !.slots = @ - 1]
  /\ UNCHANGED <<bounds, team, store, kept, opening, call, faults>>

(* The claim's answer is lost or outside its form.                                         *)
ClaimFails ==
  /\ sch.at = "claimed" /\ faults < bounds.faults
  /\ faults' = faults + 1
  /\ sch' = Dropped(sch)
  /\ UNCHANGED <<bounds, team, store, workers, kept, opening, call>>

-----------------------------------------------------------------------------
(* Workers.                                                                                *)

(* Team runs the segment of a lease that stands; its answer is on its way.                 *)
Segment(i, status) ==
  /\ LET r == workers[i].run
     IN /\ ~workers[i].stood /\ team.version[r] < bounds.version
        /\ team' = Stands(team, r, status)
        /\ workers' = [workers EXCEPT ![i].stood = TRUE]
  /\ UNCHANGED <<bounds, store, sch, kept, opening, call, faults>>

(* run_claimed: the answer, or a failure after run_timeout; the slots go back and the      *)
(* scheduler is woken.                                                                     *)
RunClaimed(i) ==
  /\ faults' = IF workers[i].stood THEN faults ELSE faults + 1
  /\ faults' <= bounds.faults
  /\ workers' = RemoveAt(workers, i)
  /\ sch' = Wake([sch EXCEPT !.slots = @ + 1, !.long = IF workers[i].long THEN 1 ELSE @])
  /\ UNCHANGED <<bounds, team, store, kept, opening, call>>

(* A lease no worker of Admin holds runs out.                                              *)
LeaseEnds(r) ==
  /\ team.status[r] = "leased"
  /\ \A i \in DOMAIN workers : workers[i].run = r => workers[i].stood
  /\ ~(sch.at = "claimed" /\ sch.answer = r)
  /\ team' = [team EXCEPT !.status[r] = "due"]
  /\ UNCHANGED <<bounds, store, sch, workers, kept, opening, call, faults>>

(* The time of a run comes.                                                                *)
Comes(r) ==
  /\ team.status[r] = "waiting"
  /\ team' = [team EXCEPT !.status[r] = "due"]
  /\ UNCHANGED <<bounds, store, sch, workers, kept, opening, call, faults>>

-----------------------------------------------------------------------------
(* Challenges: what Admin keeps of the openings.                                           *)

NewKept == [open |-> <<>>, gens |-> <<>>, next |-> 0]

(* generation: of the Team's latest opening, 0 when none is tracked.                       *)
Generation(k, t) ==
  LET mine == Select(k.gens, LAMBDA g : g.team = t) IN IF mine = <<>> THEN 0 ELSE mine[1].gen

(* The last n members of a sequence.                                                       *)
Newest(s, n) == SubSeq(s, IF Len(s) > n THEN Len(s) - n + 1 ELSE 1, Len(s))

(* store: the expired ones and the Team's other one go, then the oldest over the limit.    *)
StoreOpen(k, o) ==
  [k EXCEPT !.open = Append(Newest(Select(@, LAMBDA x : x.live /\ TeamOf[x.run] # TeamOf[o.run]),
                                   MaxOpenChallenges - 1), o)]

(* remember: the Team's next generation, and its challenge.                                *)
Remember(k, o) ==
  LET tracked == Append(Select(k.gens, LAMBDA g : g.team # TeamOf[o.run]),
                        [team |-> TeamOf[o.run], gen |-> k.next + 1])
  IN StoreOpen([k EXCEPT !.next = @ + 1, !.gens = Newest(tracked, MaxTracked)], o)

(* A bug: the rejected answer's challenge is open again whatever was opened since.         *)
RestoreAlways(k, o, gen) == StoreOpen(k, o)

(* restore: unless the Team opened a newer one meanwhile.                                  *)
Restore(k, o, gen) == IF gen # 0 /\ Generation(k, TeamOf[o.run]) = gen THEN StoreOpen(k, o) ELSE k

(* The open challenge of a key, as a sequence of at most one.                              *)
OpenOf(k, r, id) == Select(k.open, LAMBDA x : x.run = r /\ x.id = id)

(* A bug: the challenge stays open while its answer is checked.                            *)
TakeLeaves(k, r, id) == k

(* take.                                                                                   *)
Take(k, r, id) == [k EXCEPT !.open = Select(@, LAMBDA x : ~(x.run = r /\ x.id = id))]

(* The lifetime of an open challenge passes.                                               *)
Expire ==
  /\ \E i \in DOMAIN kept.open : kept.open[i].live /\ kept' = [kept EXCEPT !.open[i].live = FALSE]
  /\ UNCHANGED <<bounds, team, store, sch, workers, opening, call, faults>>

-----------------------------------------------------------------------------
(* Openings.                                                                               *)

Idle == [op |-> "none", run |-> NoRun, at |-> "idle", id |-> 0, gen |-> 0, live |-> FALSE, reply |-> "none"]

Over == [Idle EXCEPT !.at = "over"]

(* A call begins once the ones before it have.                                             *)
Begins(c) == c <= bounds.calls /\ call[c].at = "idle" /\ \A d \in Calls : d < c => call[d].at # "idle"

(* A bug: an opening that ends takes the lock out of the table though others await it.     *)
OpenedForgets(t) == [opening EXCEPT ![t] = [holder |-> 0, count |-> 0]]

(* opened: the lock goes with its last opening.                                            *)
Opened(t) == [opening EXCEPT ![t].count = @ - 1]

(* open_challenge, opening: busy when too many Teams are opening, else a place at the lock *)
(* of the Team.                                                                            *)
OpenChallenge(c, r) ==
  /\ Begins(c)
  /\ LET t == TeamOf[r]
     IN IF opening[t].count = 0 /\ Cardinality({u \in Teams : opening[u].count > 0}) >= MaxOpeningTeams
        THEN /\ call' = [call EXCEPT ![c] = Over]
             /\ UNCHANGED opening
        ELSE /\ opening' = [opening EXCEPT ![t].count = @ + 1]
             /\ call' = [call EXCEPT ![c] = [Idle EXCEPT !.op = "open", !.run = r, !.at = "wait"]]
  /\ UNCHANGED <<bounds, team, store, sch, workers, kept, faults>>

(* A bug: the openings of a Team do not wait for each other.                               *)
OpenLockedAtOnce(c) ==
  /\ call[c].at = "wait"
  /\ call' = [call EXCEPT ![c].at = "open"]
  /\ UNCHANGED <<bounds, team, store, sch, workers, kept, opening, faults>>

(* The lock is free.                                                                       *)
OpenLocked(c) ==
  /\ call[c].at = "wait" /\ opening[TeamOf[call[c].run]].holder = 0
  /\ opening' = [opening EXCEPT ![TeamOf[call[c].run]].holder = c]
  /\ call' = [call EXCEPT ![c].at = "open"]
  /\ UNCHANGED <<bounds, team, store, sch, workers, kept, faults>>

(* OPENING_WAIT passed.                                                                    *)
OpenTimesOut(c) ==
  /\ call[c].at = "wait" /\ opening[TeamOf[call[c].run]].holder # 0
  /\ opening' = Opened(TeamOf[call[c].run])
  /\ call' = [call EXCEPT ![c] = Over]
  /\ UNCHANGED <<bounds, team, store, sch, workers, kept, faults>>

(* open: Team mints the challenge of a frozen run, which cancels the Team's last one, says *)
(* that the run waits for an Integration, or refuses.                                      *)
OpenAsks(c) ==
  /\ call[c].at = "open"
  /\ LET r == call[c].run IN
     \/ /\ team.status[r] = "frozen"
        /\ team' = [team EXCEPT !.challenge[TeamOf[r]] = [run |-> r, id |-> team.minted + 1], !.minted = @ + 1]
        /\ call' = [call EXCEPT ![c].at = "told", ![c].id = team.minted + 1]
     \/ /\ team.status[r] = "frozen-integration"
        /\ call' = [call EXCEPT ![c].at = "told", ![c].reply = "integrations-required"]
        /\ UNCHANGED team
     \/ /\ team.status[r] \notin {"frozen", "frozen-integration"}
        /\ call' = [call EXCEPT ![c].at = "told", ![c].reply = "refused"]
        /\ UNCHANGED team
  /\ UNCHANGED <<bounds, store, sch, workers, kept, opening, faults>>

(* The lock and the place go as the opening ends.                                          *)
Released(c) == [Opened(TeamOf[call[c].run]) EXCEPT ![TeamOf[call[c].run]].holder = IF @ = c THEN 0 ELSE @]

(* A challenge in its form is remembered before the page learns of it.                     *)
OpenTold(c) ==
  /\ call[c].at = "told"
  /\ opening' = Released(c)
  /\ kept' = IF call[c].id = 0 THEN kept ELSE Remember(kept, [run |-> call[c].run, id |-> call[c].id, live |-> TRUE])
  /\ call' = [call EXCEPT ![c] = Over]
  /\ UNCHANGED <<bounds, team, store, sch, workers, faults>>

(* Team's answer is lost or outside its form: nothing is remembered.                       *)
OpenLost(c) ==
  /\ call[c].at = "told" /\ call[c].id # 0 /\ faults < bounds.faults
  /\ faults' = faults + 1
  /\ opening' = Released(c)
  /\ call' = [call EXCEPT ![c] = Over]
  /\ UNCHANGED <<bounds, team, store, sch, workers, kept>>

-----------------------------------------------------------------------------
(* Answers to a frozen run, on the resume lane.                                            *)

(* routines_human, authenticated: the challenge the page answers, one Admin told of, is    *)
(* taken; it is no more open, or it is expired.                                            *)
Answer(c, r, id) ==
  /\ Begins(c) /\ id <= team.minted
  /\ LET there == OpenOf(kept, r, id)
     IN IF there = <<>> \/ ~there[1].live
        THEN /\ kept' = IF there = <<>> THEN kept ELSE Take(kept, r, id)
             /\ call' = [call EXCEPT ![c] = Over]
        ELSE /\ kept' = Take(kept, r, id)
             /\ call' = [call EXCEPT ![c] = [Idle EXCEPT !.op = "human", !.run = r, !.at = "check", !.id = id,
                                                         !.gen = Generation(kept, TeamOf[r]), !.live = TRUE]]
  /\ UNCHANGED <<bounds, team, store, sch, workers, opening, faults>>

(* response_payload awaits the password: a wrong one opens the challenge again until its   *)
(* own expiry, which may have come; a frame that does not fit the request is refused and   *)
(* the challenge is gone.                                                                  *)
Rejected(c, live) ==
  /\ call[c].at = "check"
  /\ kept' = Restore(kept, [run |-> call[c].run, id |-> call[c].id, live |-> live], call[c].gen)
  /\ call' = [call EXCEPT ![c] = Over]
  /\ UNCHANGED <<bounds, team, store, sch, workers, opening, faults>>

Refused(c) ==
  /\ call[c].at = "check"
  /\ call' = [call EXCEPT ![c] = Over]
  /\ UNCHANGED <<bounds, team, store, sch, workers, kept, opening, faults>>

(* The answer stands: the socket must still be current, and the page hears that the run    *)
(* goes on.  A password that could not be checked denies the run.                          *)
Authenticated(c, current, denied) ==
  /\ call[c].at = "check"
  /\ call' = [call EXCEPT ![c] = IF current THEN [@ EXCEPT !.at = "resume", !.reply = IF denied THEN "denied" ELSE "none"]
                                            ELSE Over]
  /\ UNCHANGED <<bounds, team, store, sch, workers, kept, opening, faults>>

(* resume: Team takes the answer of its current challenge and runs the segment.            *)
ResumeAsks(c, status) ==
  /\ call[c].at = "resume"
  /\ LET r == call[c].run
         fits == /\ call[c].op = "human" => team.challenge[TeamOf[r]] = [run |-> r, id |-> call[c].id]
                 /\ team.status[r] = IF call[c].op = "human" THEN "frozen" ELSE "frozen-integration"
     IN /\ fits => team.version[r] < bounds.version
        /\ team' = IF fits
                   THEN [Stands(team, r, IF call[c].reply = "denied" THEN "denied" ELSE status)
                           EXCEPT !.challenge[TeamOf[r]] = [run |-> NoRun, id |-> 0]]
                   ELSE team
        /\ call' = [call EXCEPT ![c] = Over]
  /\ UNCHANGED <<bounds, store, sch, workers, kept, opening, faults>>

(* routines_integrations.                                                                  *)
Integrations(c, r) ==
  /\ Begins(c)
  /\ call' = [call EXCEPT ![c] = [Idle EXCEPT !.op = "integrations", !.run = r, !.at = "resume"]]
  /\ UNCHANGED <<bounds, team, store, sch, workers, kept, opening, faults>>

-----------------------------------------------------------------------------
(* Management: Team makes the change, then its answer settles it.                          *)

(* set_paused: the dispatch of a Routine goes off, or back on.                             *)
Paused(t, r) == [t EXCEPT !.dispatch[r] = "off"]
Resumed(t, r) == [t EXCEPT !.dispatch[r] = "back-on"]

(* delete: a Routine that is there.                                                        *)
Deleted(t, r) == [t EXCEPT !.status[r] = IF @ = "proposed" THEN @ ELSE "deleted"]

(* answer_card: a held run is due again.                                                   *)
CardAnswered(t, r) == [t EXCEPT !.status[r] = IF @ = "held" THEN "due" ELSE @]

(* confirm_proposal and revoke_proposal: a card is confirmed or revoked once.              *)
Confirmed(t, r) == [t EXCEPT !.status[r] = IF @ = "proposed" THEN "due" ELSE @]
Revoked(t, r) == [t EXCEPT !.status[r] = IF @ = "proposed" THEN "revoked" ELSE @]

(* The call's turn on its lane comes and Team makes the change, or refuses one that would  *)
(* change nothing.                                                                         *)
Change(c, op, r, t, admitted) ==
  /\ Begins(c)
  /\ team' = t
  /\ call' = [call EXCEPT ![c] = IF admitted THEN [Idle EXCEPT !.op = op, !.run = r, !.at = "settle"] ELSE Over]
  /\ UNCHANGED <<bounds, store, sch, workers, kept, opening, faults>>

RoutinesPause(c, r) == Change(c, "pause", r, Paused(team, r), TRUE)
RoutinesResume(c, r) == Change(c, "resume", r, Resumed(team, r), TRUE)
RoutinesDelete(c, r) == Change(c, "delete", r, Deleted(team, r), Deleted(team, r) # team)
RoutinesCardAnswer(c, r) == Change(c, "card-answer", r, CardAnswered(team, r), team.status[r] = "held")
RoutinesProposalConfirm(c, r) == Change(c, "confirm", r, Confirmed(team, r), team.status[r] = "proposed")
RoutinesProposalRevoke(c, r) == Change(c, "revoke", r, Revoked(team, r), team.status[r] = "proposed")

(* Which changes wake the scheduler: the answered card and the confirmed proposal.         *)
Wakes(op) == op \in {"card-answer", "confirm"}

(* A bug: a change that makes a Routine due waits for the next interval.                   *)
SettledUnwoken(c) ==
  /\ call[c].at = "settle"
  /\ call' = [call EXCEPT ![c] = Over]
  /\ UNCHANGED <<bounds, team, store, sch, workers, kept, opening, faults>>

(* settled, and proposal's row: the answer of a card is kept in the transcript that shows  *)
(* it, whether or not that works; an answer of 200 that made a Routine due wakes.          *)
Settled(c) ==
  /\ call[c].at = "settle"
  /\ LET op == call[c].op   r == call[c].run
     IN /\ store' = IF op \in {"confirm", "revoke"}
                    THEN AppendAnswer(store, TeamOf[r], r, [kind |-> op], 0)[2] ELSE store
        /\ sch' = IF Wakes(op) THEN Wake(sch) ELSE sch
        /\ call' = [call EXCEPT ![c] = Over]
  /\ UNCHANGED <<bounds, team, workers, kept, opening, faults>>

(* The answer is lost or not in its closed view: an error, and nothing is settled.         *)
SettledInvalid(c) ==
  /\ call[c].at = "settle" /\ faults < bounds.faults
  /\ faults' = faults + 1
  /\ call' = [call EXCEPT ![c] = Over]
  /\ UNCHANGED <<bounds, team, store, sch, workers, kept, opening>>

-----------------------------------------------------------------------------
(* Admin stops and starts: what it holds in memory is gone.                                *)
Crash ==
  /\ faults < bounds.faults
  /\ faults' = faults + 1
  /\ sch' = NewScheduler /\ workers' = <<>> /\ kept' = NewKept
  /\ opening' = [t \in Teams |-> [holder |-> 0, count |-> 0]]
  /\ call' = [c \in Calls |-> IF call[c].at \in {"idle", "over"} THEN call[c] ELSE Over]
  /\ UNCHANGED <<bounds, team, store>>

Init ==
  /\ \E start \in Starts :
       LET told == {r \in Runs : start.status[r] \in {"frozen", "frozen-integration", "held"}}
           cards == SetToSeq({r \in Runs : start.status[r] = "proposed"})
       IN /\ bounds = [calls |-> start.calls, faults |-> start.faults, version |-> start.version]
          /\ team = [status |-> start.status, dispatch |-> [r \in Runs |-> "on"],
                     version |-> [r \in Runs |-> IF r \in told THEN 1 ELSE 0],
                     outcome |-> [r \in Runs |-> IF start.status[r] = "held" THEN "held" ELSE "frozen"],
                     acked |-> [r \in Runs |-> 0],
                     challenge |-> [t \in Teams |-> [run |-> NoRun, id |-> 0]], minted |-> 0]
          /\ store = [rows |-> [i \in DOMAIN cards |-> [Row(TeamOf[cards[i]], cards[i], "reply", CardOf(cards[i]), "plain", 0)
                                                       EXCEPT !.pos = i]],
                      last |-> Len(cards), bound |-> <<>>]
  /\ sch = NewScheduler /\ workers = <<>> /\ kept = NewKept
  /\ opening = [t \in Teams |-> [holder |-> 0, count |-> 0]]
  /\ call = [c \in Calls |-> Idle]
  /\ faults = 0

Scheduling ==
  \/ Tick \/ Fetch \/ Write \/ Acknowledge \/ StartRuns \/ Reserve \/ Claimed

Failing ==
  \/ \E at \in {"fetch", "write", "ack"} : DeliveryFails(at)
  \/ AcknowledgeLost \/ IdentityFails \/ LongUnasked \/ ClaimFails
  \/ \E c \in Calls : OpenLost(c) \/ SettledInvalid(c)
  \/ Crash

TeamActs ==
  \/ \E i \in DOMAIN workers, s \in {"done", "held", "frozen", "frozen-integration"} : Segment(i, s)
  \/ \E r \in Runs : LeaseEnds(r) \/ Comes(r)

Person(c) ==
  \/ \E r \in Runs : OpenChallenge(c, r) \/ Integrations(c, r)
  \/ \E r \in Runs, id \in 1..2 : Answer(c, r, id)
  \/ \E r \in Runs : RoutinesPause(c, r) \/ RoutinesResume(c, r) \/ RoutinesDelete(c, r)
  \/ \E r \in Runs : RoutinesCardAnswer(c, r) \/ RoutinesProposalConfirm(c, r) \/ RoutinesProposalRevoke(c, r)

CallGoesOn(c) ==
  \/ OpenLocked(c) \/ OpenTimesOut(c) \/ OpenAsks(c) \/ OpenTold(c)
  \/ \E live \in BOOLEAN : Rejected(c, live)
  \/ Refused(c)
  \/ \E current, denied \in BOOLEAN : Authenticated(c, current, denied)
  \/ \E s \in {"done", "held"} : ResumeAsks(c, s)
  \/ Settled(c)

Next ==
  \/ Scheduling \/ Failing \/ TeamActs \/ Expire
  \/ \E i \in DOMAIN workers : RunClaimed(i)
  \/ \E c \in Calls : Person(c) \/ CallGoesOn(c)

(* The scheduler's task goes on; a segment ends by its answer or its timeout; Team ends    *)
(* the leases nobody holds.                                                                *)
Fairness ==
  /\ WF_vars(Scheduling)
  /\ WF_vars(\E i \in DOMAIN workers, s \in {"done", "held", "frozen"} : Segment(i, s))
  /\ WF_vars(\E i \in DOMAIN workers : RunClaimed(i))
  /\ \A r \in Runs : WF_vars(LeaseEnds(r))

Spec == Init /\ [][Next]_vars /\ Fairness

-----------------------------------------------------------------------------
(* Properties.                                                                             *)

(* Every slot is free, held by the tick or held by one worker, the long one only for a run *)
(* that needs it; so at most one worker runs a long run (scheduler.rs claim, run_claimed:  *)
(* the permits go through a request, its failure, a spawned task and a crash).             *)
SlotsAccounted ==
  /\ sch.slots + Len(workers) + (IF sch.slot THEN 1 ELSE 0) = Workers
  /\ sch.long + Cardinality({i \in DOMAIN workers : workers[i].long}) + (IF sch.reserved THEN 1 ELSE 0) = 1
  /\ Cardinality({i \in DOMAIN workers : workers[i].run \in Long}) <= 1

(* A notice Team need not give again is in its Team's transcript, in that version or a     *)
(* later one (delivery.rs: written before its exact version is acknowledged, over chunks,  *)
(* lost answers and crashes).                                                              *)
AckedIsWritten ==
  \A r \in Runs : team.acked[r] > 0 =>
    \E i \in DOMAIN store.rows :
      /\ store.rows[i].team = TeamOf[r] /\ store.rows[i].turn = r /\ store.rows[i].suffix = "routine"
      /\ store.rows[i].body.version >= team.acked[r]

(* Without a failure, a scheduler that sleeps while a run may start has been told: a wake  *)
(* waits for it or a hint shortens its sleep (scheduler.rs wake and start_runs: the hint is *)
(* cleared before the claim and set by its answer, and a wake may come between).  A Routine *)
(* turned back on waits for the interval: routines_resume does not wake.                   *)
WokenForDue ==
  (sch.at = "asleep" /\ faults = 0 /\ \A c \in Calls : call[c].at # "settle") =>
    \A r \in Runs : (Claimable(r) /\ team.dispatch[r] = "on" /\ sch.slots > 0 /\ (r \in Long => sch.long = 1)) => sch.woken \/ sch.due # "none"

(* The challenge Admin keeps open for a Team is the one Team would take, unless Team's     *)
(* answer to a later opening is on its way or was lost, or the challenge was answered      *)
(* (answer.rs: the Team's opening lock orders the answers, and a rejected answer does not  *)
(* reopen a challenge that a newer one cancelled).                                         *)
OpenIsCurrent ==
  faults = 0 =>
    \A i \in DOMAIN kept.open :
      LET o == kept.open[i]
      IN \/ team.challenge[TeamOf[o.run]] \in {[run |-> o.run, id |-> o.id], [run |-> NoRun, id |-> 0]}
         \/ \E c \in Calls : call[c].at = "told" /\ TeamOf[call[c].run] = TeamOf[o.run]

(* Two answers are never checked or sent for one challenge, nor is it open meanwhile       *)
(* (answer.rs take: the challenge leaves before the password is awaited).                  *)
OneAnswer ==
  \A c \in Calls :
    (call[c].op = "human" /\ call[c].at \in {"check", "resume"}) =>
      /\ OpenOf(kept, call[c].run, call[c].id) = <<>>
      /\ \A d \in Calls \ {c} : call[d].op = "human" => call[d].id # call[c].id

(* A run that may start is started or stops being one that may, though claims fail, the    *)
(* process restarts and the long slot is taken (scheduler.rs: a failure waits for the next *)
(* tick).                                                                                  *)
DueRunStarts == \A r \in Runs : Claimable(r) ~> ~Claimable(r)

(* The scheduler's books: its slots, what it acknowledged, and when it wakes.               *)
RunsAccounted == SlotsAccounted /\ AckedIsWritten /\ WokenForDue

(* A challenge is open for the run that waits for it, and answered once.                   *)
AnswersOnce == OpenIsCurrent /\ OneAnswer
=============================================================================
