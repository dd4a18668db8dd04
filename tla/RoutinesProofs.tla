--------------------------- MODULE RoutinesProofs ---------------------------
(***************************************************************************)
(* Proofs about Routines, for any finite set of runs and any calls: every  *)
(* slot has one holder, what Team may forget is in the transcript, a       *)
(* scheduler that sleeps has been told of a run that may start, and a      *)
(* challenge is open or being answered once, and is the one Team takes.    *)
(***************************************************************************)
EXTENDS Routines, HistoryProofs, Integers, FiniteSetTheorems

(* How a run may stand at Team, and what its notice says.                  *)
Statuses == StartStatuses \cup {"leased", "denied", "deleted", "revoked"}
Outcomes == {"done", "held", "frozen", "denied"}
Challenges == [run : Runs \cup {NoRun}, id : Nat]
None == [run |-> NoRun, id |-> 0]

TeamRecs ==
  [status : [Runs -> Statuses], dispatch : [Runs -> {"on", "off", "back-on"}], version : [Runs -> Nat],
   outcome : [Runs -> Outcomes], acked : [Runs -> Nat], challenge : [Teams -> Challenges], minted : Nat]

Notices == [kind : {"notice"}, outcome : Outcomes, version : Nat, routine : Runs, run : {TRUE}]

(* The scheduler's task: it acknowledges notices in chunks.                *)
SchRecs ==
  [at : {"asleep", "fetch", "write", "ack", "start", "reserve", "claimed"}, woken : BOOLEAN,
   due : {"none", "now", "later"}, slots : Nat, long : Nat, batches : Nat, batch : Seq(Notices), more : BOOLEAN,
   acks : Seq(Notices) \cup Seq(Seq(Notices)), reserved : BOOLEAN, answer : Runs \cup {NoRun},
   hint : {"none", "later"}, slot : BOOLEAN]

Scheduler(s) ==
  /\ s \in SchRecs
  /\ s.at = "write" => s.acks \in Seq(Notices)
  /\ s.at = "ack" => s.acks \in Seq(Seq(Notices)) /\ s.acks # <<>>

Segments == [run : Runs, long : BOOLEAN, stood : BOOLEAN]

Ops == {"none", "open", "human", "integrations", "pause", "resume", "delete", "card-answer", "confirm", "revoke"}
CallRecs == [op : Ops, run : Runs \cup {NoRun}, at : {"idle", "over", "wait", "open", "told", "check", "resume", "settle"},
             id : Nat, gen : Nat, live : BOOLEAN, reply : {"none", "denied", "refused", "integrations-required"}]

(* What a call carries at each of its steps.                               *)
Carries(x) ==
  /\ x.at \notin {"idle", "over"} => x.run \in Runs
  /\ x.at \in {"wait", "open", "told"} => x.op = "open"
  /\ x.op = "human" => x.at \in {"check", "resume"} /\ x.id # 0
  /\ x.at = "check" => x.op = "human"
  /\ x.id # 0 => x.op = "human" \/ x.at = "told"
  /\ x.gen # 0 => x.op = "human"
Typed ==
  /\ team \in TeamRecs /\ Scheduler(sch) /\ workers \in Seq(Segments) /\ faults \in Nat
  /\ call \in [Calls -> CallRecs] /\ \A c \in Calls : Carries(call[c])

-----------------------------------------------------------------------------
(* The slots.                                                              *)

SlotsHeld ==
  /\ sch.slot <=> sch.at \in {"reserve", "claimed"}
  /\ sch.reserved => sch.at = "claimed"
  /\ sch.slots + Len(workers) + (IF sch.slot THEN 1 ELSE 0) = Workers
(* The long slot is free, reserved for the claim, or one worker's.         *)
LongHeld ==
  /\ sch.long \in {0, 1}
  /\ \A i \in DOMAIN workers : workers[i].long <=> workers[i].run \in Long
  /\ sch.long = 1 => ~sch.reserved /\ \A i \in DOMAIN workers : ~workers[i].long
  /\ sch.reserved => \A i \in DOMAIN workers : ~workers[i].long
  /\ \A i, k \in DOMAIN workers : workers[i].long /\ workers[k].long => i = k
  /\ sch.long = 0 => sch.reserved \/ \E i \in DOMAIN workers : workers[i].long

-----------------------------------------------------------------------------
(* The notices.                                                            *)

Bodies == Notices \cup {CardOf(r) : r \in Runs} \cup [kind : {"confirm", "revoke"}]
RowRecs == [team : Teams, turn : Runs, suffix : {"reply", "answer", "routine"}, body : Bodies,
            prov : {"plain"}, origin : {0}, pos : Nat]

(* A row of a notice shows one, and a run has one such row at most.        *)
OfNotice(row, r) == row.team = TeamOf[r] /\ row.turn = r /\ row.suffix = "routine"
StoreTyped ==
  /\ store \in [rows : Seq(RowRecs), last : Nat, bound : {<<>>}]
  /\ \A i \in DOMAIN store.rows : store.rows[i].suffix = "routine" => store.rows[i].body \in Notices
  /\ \A r \in Runs : \A i, k \in DOMAIN store.rows : OfNotice(store.rows[i], r) /\ OfNotice(store.rows[k], r) => i = k

(* The store has a notice of the run, in that version or a later one.      *)
Holds(h, r, v) == \E i \in DOMAIN h.rows : OfNotice(h.rows[i], r) /\ h.rows[i].body.version >= v
HeldAll(h, ns) == \A i \in DOMAIN ns : Holds(h, ns[i].routine, ns[i].version)

(* What the scheduler is about to acknowledge is written.                  *)
Noticed ==
  /\ \A r \in Runs : team.acked[r] > 0 => Holds(store, r, team.acked[r])
  /\ sch.at = "write" => HeldAll(store, sch.acks)
  /\ sch.at = "ack" => \A i \in DOMAIN sch.acks : HeldAll(store, sch.acks[i])

-----------------------------------------------------------------------------
(* The wakes.                                                              *)

(* A run that may start once its slot is free, or will when its time comes. *)
Ready(r) ==
  /\ team.dispatch[r] = "on"
  /\ \/ team.status[r] = "waiting"
     \/ team.status[r] = "due" /\ (r \in Long => sch.long = 1 \/ sch.reserved)

(* The scheduler was woken, sleeps with a hint or until a slot is free, has yet to claim, *)
(* or claims the next; or the change that made the run due has yet to wake it.            *)
Heard ==
  \/ sch.woken
  \/ sch.at = "asleep" /\ (sch.due # "none" \/ sch.slots = 0)
  \/ sch.at \in {"fetch", "write", "ack", "start", "reserve"}
  \/ sch.at = "claimed" /\ (sch.answer # NoRun \/ sch.hint # "none")
  \/ \E c \in Calls : call[c].at = "settle" /\ Wakes(call[c].op)

(* Without a failure, a lease is a worker's or the answer on its way.      *)
Leased(r) ==
  \/ sch.at = "claimed" /\ sch.answer = r
  \/ \E i \in DOMAIN workers : workers[i].run = r /\ ~workers[i].stood

Wakeful ==
  faults = 0 =>
    /\ \A r \in Runs : (Ready(r) => Heard) /\ (team.status[r] = "leased" => Leased(r))
    /\ sch.at = "claimed" /\ sch.answer \in Long => sch.reserved

-----------------------------------------------------------------------------
(* The challenges.                                                         *)

Open == [run : Runs, id : Nat \ {0}, live : BOOLEAN]
KeptTyped ==
  /\ kept \in [open : Seq(Open), gens : Seq([team : Teams, gen : Nat \ {0}]), next : Nat]
  /\ \A i \in DOMAIN kept.gens : kept.gens[i].gen <= kept.next
  /\ \A c \in Calls : call[c].gen <= kept.next

(* A challenge minted is in one place: on its way, open, or being answered. *)
OnePlace ==
  /\ \A i \in DOMAIN kept.open : kept.open[i].id <= team.minted
  /\ \A c \in Calls : call[c].id <= team.minted
  /\ \A i, k \in DOMAIN kept.open : kept.open[i].id = kept.open[k].id => i = k
  /\ \A c, d \in Calls : call[c].id = call[d].id /\ call[c].id # 0 => c = d
  /\ \A c \in Calls : \A i \in DOMAIN kept.open : kept.open[i].id # call[c].id

(* One opening of a Team asks at a time.                                   *)
OneOpens ==
  /\ opening \in [Teams -> [holder : Calls \cup {0}, count : Int]]
  /\ \A c \in Calls : call[c].at \in {"open", "told"} => opening[TeamOf[call[c].run]].holder = c

(* The challenges open, told of by Team, and being answered for the Team's *)
(* latest opening.                                                         *)
IsOpen(r, id) == \E i \in DOMAIN kept.open : kept.open[i].run = r /\ kept.open[i].id = id
IsTold(r, id) == \E c \in Calls : call[c].at = "told" /\ call[c].run = r /\ call[c].id = id /\ id # 0
Latest(t, gen) == \E i \in DOMAIN kept.gens : kept.gens[i].team = t /\ kept.gens[i].gen = gen
IsChecked(r, id) ==
  \E c \in Calls : call[c].at = "check" /\ call[c].run = r /\ call[c].id = id /\ Latest(TeamOf[r], call[c].gen)

(* Team would take it, unless a newer one is on its way.                   *)
Taken(r, id) == team.challenge[TeamOf[r]] \in {[run |-> r, id |-> id], None}
Newer(t) == \E q \in Runs, n \in Nat : TeamOf[q] = t /\ IsTold(q, n)
Stand(r, id) == Taken(r, id) \/ Newer(TeamOf[r])
Current(r, id) ==
  /\ IsOpen(r, id) \/ IsChecked(r, id) => Stand(r, id)
  /\ IsTold(r, id) => Taken(r, id)
Currents == faults = 0 => \A r \in Runs, id \in Nat : Current(r, id)

Books == SlotsHeld /\ LongHeld
Answering == KeptTyped /\ OnePlace /\ OneOpens /\ Currents
RoutinesInv == Typed /\ Books /\ StoreTyped /\ Noticed /\ Wakeful /\ Answering
-----------------------------------------------------------------------------
(* The types.                                                              *)

LEMMA SchKept ==
  ASSUME NEW s \in SchRecs
  PROVE  /\ Rest(s) \in SchRecs /\ NextBatch(s) \in SchRecs /\ Wake(s) \in SchRecs
         /\ Dropped(s) \in SchRecs /\ NewScheduler \in SchRecs
<1>1. Workers \in Nat /\ <<>> \in Seq(Notices)
  BY RoutinesAssumption
<1>2. NewScheduler \in SchRecs
  BY <1>1 DEF NewScheduler, SchRecs
<1>3. Rest(s) \in SchRecs
  BY <1>2 DEF Rest, SchRecs
<1>4. NextBatch(s) \in SchRecs
  <2>1. s.batches \in Nat /\ s.batches + 1 \in Nat
    BY DEF SchRecs
  <2> DEFINE a == IF s.more /\ s.batches < MaxBatches THEN "fetch" ELSE "start"
             n == s.batches + 1
  <2>2. a \in {"fetch", "start"} /\ n \in Nat
    BY <2>1
  <2> HIDE DEF a, n
  <2>3. [s EXCEPT !.at = a, !.batches = n, !.batch = <<>>, !.acks = <<>>, !.more = FALSE] \in SchRecs
    BY <1>1, <2>2 DEF SchRecs
  <2>4. NextBatch(s) = [s EXCEPT !.at = a, !.batches = n, !.batch = <<>>, !.acks = <<>>, !.more = FALSE]
    BY DEF NextBatch, a, n
  <2> QED BY <2>3, <2>4
<1>5. Wake(s) \in SchRecs
  BY DEF Wake, SchRecs
<1>6. Dropped(s) \in SchRecs
  <2> DEFINE r == Rest(s)
  <2>1. r \in SchRecs
    BY <1>3
  <2> HIDE DEF r
  <2> DEFINE a == r.slots + (IF s.slot THEN 1 ELSE 0)
             b == r.long + (IF s.reserved THEN 1 ELSE 0)
  <2>2. a \in Nat /\ b \in Nat
    BY <2>1 DEF SchRecs
  <2>3. Dropped(s) = [r EXCEPT !.slots = a, !.long = b]
    BY DEF Dropped, r
  <2> HIDE DEF a, b
  <2>4. [r EXCEPT !.slots = a, !.long = b] \in SchRecs
    BY <2>1, <2>2 DEF SchRecs
  <2> QED BY <2>3, <2>4
<1> QED BY <1>2, <1>3, <1>4, <1>5, <1>6

LEMMA Listed ==
  ASSUME NEW rs \in SUBSET Runs
  PROVE  /\ Cardinality(rs) \in Nat /\ SetToSeq(rs) \in Seq(rs)
         /\ \A i \in 1..Cardinality(rs) : SetToSeq(rs)[i] \in rs
<1>1. IsFiniteSet(rs)
  BY RoutinesAssumption, FS_Subset
<1>2. PICK n \in Nat : ExistsBijection(1..n, rs)
  BY <1>1, FS_NatBijection
<1>3. Cardinality(rs) = n
  BY <1>2, FS_CountingElements
<1>4. PICK f \in Bijection(1..n, rs) : TRUE
  BY <1>2 DEF ExistsBijection
<1>5. f \in [1..Cardinality(rs) -> rs] /\ IsInjective(f)
  BY <1>3, <1>4 DEF Bijection, Injection, IsInjective
<1>6. SetToSeq(rs) \in [1..Cardinality(rs) -> rs]
  BY <1>5 DEF SetToSeq
<1> QED BY <1>3, <1>6

LEMMA NoticeIs ==
  ASSUME Typed, NEW r \in Runs
  PROVE  NoticeOf(team, r) \in Notices
BY DEF Typed, TeamRecs, NoticeOf, Notices

LEMMA ChunksIs ==
  ASSUME NEW ns \in Seq(Notices)
  PROVE  /\ Chunks(ns) \in Seq(Seq(Notices))
         /\ \A i \in DOMAIN Chunks(ns) : \A k \in DOMAIN Chunks(ns)[i] : \E j \in DOMAIN ns : Chunks(ns)[i][k] = ns[j]
         /\ ns # <<>> => Chunks(ns) # <<>>
<1> DEFINE n == (Len(ns) + MaxAck - 1) \div MaxAck
           low(i) == (i - 1) * MaxAck + 1
           high(i) == IF i * MaxAck < Len(ns) THEN i * MaxAck ELSE Len(ns)
<1>1. MaxAck \in Nat /\ MaxAck >= 1 /\ Len(ns) \in Nat
  BY RoutinesAssumption
<1>2. n \in Nat /\ (Len(ns) >= 1 => n >= 1)
  BY <1>1
<1>3. ASSUME NEW i \in 1..n
      PROVE  low(i) \in Nat /\ low(i) >= 1 /\ high(i) \in Nat /\ high(i) <= Len(ns)
  <2>1. i - 1 \in Nat /\ i \in Nat
    BY <1>2, <1>3
  <2>2. (i - 1) * MaxAck \in Nat /\ i * MaxAck \in Nat
    BY <1>1, <2>1
  <2> QED BY <1>1, <2>2
<1> HIDE DEF n, low, high
<1>4. Chunks(ns) = [i \in 1..n |-> SubSeq(ns, low(i), high(i))]
  BY DEF Chunks, n, low, high
<1>5. ASSUME NEW i \in 1..n
      PROVE  /\ SubSeq(ns, low(i), high(i)) \in Seq(Notices)
             /\ \A k \in DOMAIN SubSeq(ns, low(i), high(i)) : \E j \in DOMAIN ns : SubSeq(ns, low(i), high(i))[k] = ns[j]
  <2>1. low(i) \in Nat /\ low(i) >= 1 /\ high(i) \in Nat /\ high(i) <= Len(ns)
    BY <1>3
  <2>2. \A j \in low(i)..high(i) : j \in 1..Len(ns) /\ ns[j] \in Notices
    BY <1>1, <2>1
  <2>3. SubSeq(ns, low(i), high(i)) = [k \in 1..(high(i) - low(i) + 1) |-> ns[low(i) + k - 1]]
    BY <2>1
  <2>4. \A k \in 1..(high(i) - low(i) + 1) : low(i) + k - 1 \in low(i)..high(i)
    BY <2>1
  <2>5. high(i) - low(i) + 1 \in Int
    BY <2>1
  <2>6. SubSeq(ns, low(i), high(i)) \in Seq(Notices)
    BY <2>2, <2>1, SubSeqProperties
  <2> QED BY <2>2, <2>3, <2>4, <2>6
<1>6. Chunks(ns) \in Seq(Seq(Notices)) /\ DOMAIN Chunks(ns) = 1..n /\ Len(Chunks(ns)) = n
  BY <1>2, <1>4, <1>5
<1>7. ns # <<>> => Len(ns) >= 1
  BY <1>1, EmptySeq
<1>8. \A i \in DOMAIN Chunks(ns) : \A k \in DOMAIN Chunks(ns)[i] : \E j \in DOMAIN ns : Chunks(ns)[i][k] = ns[j]
  <2>1. \A i \in 1..n : Chunks(ns)[i] = SubSeq(ns, low(i), high(i))
    BY <1>4
  <2> SUFFICES ASSUME NEW i \in 1..n, NEW k \in DOMAIN Chunks(ns)[i]
               PROVE  \E j \in DOMAIN ns : Chunks(ns)[i][k] = ns[j]
    BY <1>6
  <2>2. Chunks(ns)[i] = SubSeq(ns, low(i), high(i)) /\ k \in DOMAIN SubSeq(ns, low(i), high(i))
    BY <2>1
  <2>3. \E j \in DOMAIN ns : SubSeq(ns, low(i), high(i))[k] = ns[j]
    BY <1>5, <2>2
  <2> QED BY <2>2, <2>3, Zenon
<1>9. ns # <<>> => Chunks(ns) # <<>>
  BY <1>2, <1>6, <1>7, EmptySeq
<1> QED BY <1>6, <1>8, <1>9

(* The actions that leave the scheduler and its workers alone but for a    *)
(* wake, and those that leave the calls alone.                             *)
OfCall ==
  \/ \E c \in Calls : Person(c) \/ CallGoesOn(c) \/ OpenLost(c) \/ SettledInvalid(c)
  \/ Expire
OfScheduler ==
  \/ Scheduling \/ (\E at \in {"fetch", "write", "ack"} : DeliveryFails(at))
  \/ AcknowledgeLost \/ IdentityFails \/ LongUnasked \/ ClaimFails
OfTeam == TeamActs \/ \E i \in DOMAIN workers : RunClaimed(i)

LEMMA NextIs == Next => OfCall \/ OfScheduler \/ OfTeam \/ Crash
BY DEF Next, OfCall, OfScheduler, OfTeam, Failing

LEMMA SchedulerMoves ==
  ASSUME OfScheduler
  PROVE  UNCHANGED <<bounds, kept, opening, call>>
BY DEF OfScheduler, Scheduling, Tick, Fetch, Write, Acknowledge, StartRuns, Reserve, Claimed, DeliveryFails,
       AcknowledgeLost, IdentityFails, LongUnasked, ClaimFails

LEMMA TeamMoves ==
  ASSUME OfTeam
  PROVE  UNCHANGED <<bounds, store, kept, opening, call>>
BY DEF OfTeam, TeamActs, Segment, LeaseEnds, Comes, RunClaimed

LEMMA CallMoves ==
  ASSUME OfCall
  PROVE  /\ UNCHANGED <<bounds, workers>>
         /\ sch' = sch \/ sch' = Wake(sch)
<1>1. ASSUME NEW c \in Calls, Person(c)
      PROVE  UNCHANGED <<bounds, workers, sch>>
  BY <1>1 DEF Person, OpenChallenge, Integrations, Answer, RoutinesPause, RoutinesResume, RoutinesDelete,
              RoutinesCardAnswer, RoutinesProposalConfirm, RoutinesProposalRevoke, Change
<1>2. ASSUME NEW c \in Calls, CallGoesOn(c), ~Settled(c)
      PROVE  UNCHANGED <<bounds, workers, sch>>
  BY <1>2 DEF CallGoesOn, OpenLocked, OpenTimesOut, OpenAsks, OpenTold, Rejected, Refused, Authenticated, ResumeAsks
<1>3. ASSUME NEW c \in Calls, Settled(c)
      PROVE  UNCHANGED <<bounds, workers>> /\ (sch' = sch \/ sch' = Wake(sch))
  BY <1>3 DEF Settled
<1>4. ASSUME NEW c \in Calls, OpenLost(c) \/ SettledInvalid(c)
      PROVE  UNCHANGED <<bounds, workers, sch>>
  BY <1>4 DEF OpenLost, SettledInvalid
<1>5. Expire => UNCHANGED <<bounds, workers, sch>>
  BY DEF Expire
<1> QED BY <1>1, <1>2, <1>3, <1>4, <1>5 DEF OfCall

LEMMA FaultsTyped ==
  ASSUME Typed, Next
  PROVE  faults' \in Nat /\ (faults' = 0 => faults = 0)
<1>0. faults \in Nat
  BY DEF Typed
<1>1. ASSUME OfScheduler
      PROVE  faults' = faults \/ faults' = faults + 1
  BY <1>1 DEF OfScheduler, Scheduling, Tick, Fetch, Write, Acknowledge, StartRuns, Reserve, Claimed, DeliveryFails,
              AcknowledgeLost, IdentityFails, LongUnasked, ClaimFails
<1>2. ASSUME OfTeam
      PROVE  faults' = faults \/ faults' = faults + 1
  BY <1>2 DEF OfTeam, TeamActs, Segment, LeaseEnds, Comes, RunClaimed
<1>3. ASSUME OfCall
      PROVE  faults' = faults \/ faults' = faults + 1
  <2>1. ASSUME NEW c \in Calls, Person(c) PROVE faults' = faults
    BY <2>1 DEF Person, OpenChallenge, Integrations, Answer, RoutinesPause, RoutinesResume, RoutinesDelete,
                RoutinesCardAnswer, RoutinesProposalConfirm, RoutinesProposalRevoke, Change
  <2>2. ASSUME NEW c \in Calls, CallGoesOn(c) PROVE faults' = faults
    BY <2>2 DEF CallGoesOn, OpenLocked, OpenTimesOut, OpenAsks, OpenTold, Rejected, Refused, Authenticated, ResumeAsks, Settled
  <2>3. ASSUME NEW c \in Calls, OpenLost(c) \/ SettledInvalid(c) PROVE faults' = faults + 1
    BY <2>3 DEF OpenLost, SettledInvalid
  <2>4. Expire => faults' = faults
    BY DEF Expire
  <2> QED BY <1>3, <2>1, <2>2, <2>3, <2>4 DEF OfCall
<1>4. Crash => faults' = faults + 1
  BY DEF Crash
<1> QED BY <1>0, <1>1, <1>2, <1>3, <1>4, NextIs

(* The scheduler's task keeps its type where it does not read or write.    *)
LEMMA SchStays ==
  ASSUME NEW s, Scheduler(s)
  PROVE  Scheduler(Rest(s)) /\ Scheduler(Dropped(s)) /\ Scheduler(NextBatch(s)) /\ Scheduler(Wake(s)) /\ Scheduler(NewScheduler)
<1>0. s \in SchRecs
  BY DEF Scheduler
<1>1. NewScheduler.at = "asleep"
  BY DEF NewScheduler
<1>2. Rest(s).at = "asleep"
  BY DEF Rest, NewScheduler
<1>3. Dropped(s).at = "asleep"
  BY DEF Dropped, Rest, NewScheduler
<1>4. NextBatch(s).at \in {"fetch", "start"}
  BY <1>0 DEF NextBatch, SchRecs
<1>5. Wake(s).at = s.at /\ Wake(s).acks = s.acks
  BY <1>0 DEF Wake, SchRecs
<1> QED BY <1>0, <1>1, <1>2, <1>3, <1>4, <1>5, SchKept DEF Scheduler

LEMMA SchFields ==
  ASSUME Typed
  PROVE  /\ sch \in SchRecs /\ <<>> \in Seq(Notices) /\ sch.slots \in Nat /\ sch.long \in Nat /\ sch.batches \in Nat
         /\ sch.batch \in Seq(Notices) /\ sch.answer \in Runs \cup {NoRun} /\ Scheduler(sch)
         /\ sch.slot \in BOOLEAN /\ sch.reserved \in BOOLEAN /\ sch.woken \in BOOLEAN
BY DEF Typed, Scheduler, SchRecs

LEMMA SchTyped ==
  ASSUME Typed, OfScheduler
  PROVE  Scheduler(sch')
<1>0. sch \in SchRecs /\ <<>> \in Seq(Notices) /\ Scheduler(sch)
  BY SchFields
<1>1. ASSUME Tick PROVE Scheduler(sch')
  <2>1. sch' = [sch EXCEPT !.at = "fetch", !.woken = FALSE, !.batches = 1]
    BY <1>1 DEF Tick
  <2>2. sch' \in SchRecs /\ sch'.at = "fetch"
    BY <1>0, <2>1 DEF SchRecs
  <2> QED BY <2>2 DEF Scheduler
<1>2. ASSUME Fetch PROVE Scheduler(sch')
  <2>1. PICK rs \in SUBSET Undelivered(team) :
          sch' = [sch EXCEPT !.at = "write", !.more = rs # Undelivered(team),
                             !.batch = [i \in 1..Cardinality(rs) |-> NoticeOf(team, SetToSeq(rs)[i])], !.acks = <<>>]
    BY <1>2 DEF Fetch
  <2>2. rs \in SUBSET Runs
    BY DEF Undelivered
  <2> DEFINE b == [i \in 1..Cardinality(rs) |-> NoticeOf(team, SetToSeq(rs)[i])]
             m == rs # Undelivered(team)
  <2>3. \A i \in 1..Cardinality(rs) : NoticeOf(team, SetToSeq(rs)[i]) \in Notices
    BY <2>2, Listed, NoticeIs
  <2>4. b \in Seq(Notices) /\ m \in BOOLEAN
    BY <2>2, <2>3, Listed
  <2>5. sch' = [sch EXCEPT !.at = "write", !.more = m, !.batch = b, !.acks = <<>>]
    BY <2>1
  <2> HIDE DEF b, m
  <2>6. sch' \in SchRecs /\ sch'.at = "write" /\ sch'.acks = <<>>
    BY <1>0, <2>4, <2>5 DEF SchRecs
  <2> QED BY <1>0, <2>6 DEF Scheduler
<1>3. ASSUME Write PROVE Scheduler(sch')
  <2>0. sch.at = "write" /\ sch.acks \in Seq(Notices) /\ sch.batch \in Seq(Notices)
    BY <1>0, <1>3 DEF Write, Scheduler, SchRecs
  <2>1. CASE sch.batch = <<>> /\ sch.acks = <<>>
    <3>1. sch' = NextBatch(sch)
      BY <1>3, <2>1 DEF Write
    <3> QED BY <1>0, <3>1, SchStays
  <2>2. CASE sch.batch = <<>> /\ sch.acks # <<>>
    <3> DEFINE ch == Chunks(sch.acks)
    <3>1. sch' = [sch EXCEPT !.at = "ack", !.acks = ch]
      BY <1>3, <2>2 DEF Write
    <3>2. ch \in Seq(Seq(Notices)) /\ ch # <<>>
      BY <2>0, <2>2, ChunksIs
    <3> HIDE DEF ch
    <3>3. sch' \in SchRecs /\ sch'.at = "ack" /\ sch'.acks = ch
      BY <1>0, <3>1, <3>2 DEF SchRecs
    <3> QED BY <3>2, <3>3 DEF Scheduler
  <2>3. CASE sch.batch # <<>>
    <3>1. \/ sch' = [sch EXCEPT !.at = "start", !.batch = <<>>, !.acks = <<>>]
          \/ sch' = [sch EXCEPT !.batch = Tail(@), !.acks = Append(@, Head(sch.batch))]
      BY <1>3, <2>3 DEF Write
    <3>2. Tail(sch.batch) \in Seq(Notices) /\ Append(sch.acks, Head(sch.batch)) \in Seq(Notices)
      BY <2>0, <2>3
    <3>3. CASE sch' = [sch EXCEPT !.at = "start", !.batch = <<>>, !.acks = <<>>]
      <4>1. sch' \in SchRecs /\ sch'.at = "start"
        BY <1>0, <3>3 DEF SchRecs
      <4> QED BY <4>1 DEF Scheduler
    <3>4. CASE sch' = [sch EXCEPT !.batch = Tail(@), !.acks = Append(@, Head(sch.batch))]
      <4>1. sch' \in SchRecs /\ sch'.at = "write" /\ sch'.acks \in Seq(Notices)
        BY <1>0, <2>0, <3>2, <3>4 DEF SchRecs
      <4> QED BY <4>1 DEF Scheduler
    <3> QED BY <3>1, <3>3, <3>4
  <2> QED BY <2>1, <2>2, <2>3
<1>4. ASSUME Acknowledge PROVE Scheduler(sch')
  <2>0. sch.at = "ack" /\ sch.acks \in Seq(Seq(Notices)) /\ sch.acks # <<>>
    BY <1>0, <1>4 DEF Acknowledge, Scheduler
  <2>1. CASE Len(sch.acks) = 1
    <3>1. sch' = NextBatch(sch)
      BY <1>4, <2>1 DEF Acknowledge
    <3> QED BY <1>0, <3>1, SchStays
  <2>2. CASE Len(sch.acks) # 1
    <3>1. sch' = [sch EXCEPT !.acks = Tail(sch.acks)]
      BY <1>4, <2>2 DEF Acknowledge
    <3>2. Tail(sch.acks) \in Seq(Seq(Notices)) /\ Len(Tail(sch.acks)) = Len(sch.acks) - 1 /\ Len(sch.acks) \in Nat /\ Len(sch.acks) # 0
      BY <2>0
    <3>3. Tail(sch.acks) # <<>>
      <4>1. Len(Tail(sch.acks)) # 0 /\ Len(<<>>) = 0
        BY <2>2, <3>2
      <4> QED BY <4>1
    <3>4. sch' \in SchRecs /\ sch'.acks = Tail(sch.acks) /\ sch'.at = "ack"
      BY <1>0, <2>0, <3>1, <3>2 DEF SchRecs
    <3> QED BY <3>2, <3>3, <3>4 DEF Scheduler
  <2> QED BY <2>1, <2>2
<1>5. ASSUME \/ \E at \in {"fetch", "write", "ack"} : DeliveryFails(at)
             \/ AcknowledgeLost
      PROVE  Scheduler(sch')
  <2>1. sch' = [sch EXCEPT !.at = "start", !.batch = <<>>, !.acks = <<>>] \/ sch' = [sch EXCEPT !.at = "start", !.acks = <<>>]
    BY <1>5 DEF DeliveryFails, AcknowledgeLost
  <2>2. sch' \in SchRecs /\ sch'.at = "start"
    <3>1. CASE sch' = [sch EXCEPT !.at = "start", !.batch = <<>>, !.acks = <<>>]
      BY <1>0, <3>1 DEF SchRecs
    <3>2. CASE sch' = [sch EXCEPT !.at = "start", !.acks = <<>>]
      BY <1>0, <3>2 DEF SchRecs
    <3> QED BY <2>1, <3>1, <3>2
  <2> QED BY <2>2 DEF Scheduler
<1>6. ASSUME StartRuns PROVE Scheduler(sch')
  <2>1. CASE sch.slots = 0
    BY <1>0, <1>6, <2>1, SchStays DEF StartRuns
  <2>2. CASE sch.slots # 0
    <3>1. sch' = [sch EXCEPT !.at = "reserve", !.slots = @ - 1, !.slot = TRUE, !.due = "none"]
      BY <1>6, <2>2 DEF StartRuns
    <3>2. sch.slots - 1 \in Nat
      BY <2>2, SchFields
    <3>3. sch' \in SchRecs /\ sch'.at = "reserve"
      BY <1>0, <3>1, <3>2 DEF SchRecs
    <3> QED BY <3>3 DEF Scheduler
  <2> QED BY <2>1, <2>2
<1>7. (IdentityFails \/ ClaimFails) => Scheduler(sch')
  BY <1>0, SchStays DEF IdentityFails, ClaimFails
<1>8. ASSUME Reserve PROVE Scheduler(sch')
  <2>1. PICK r \in Runs \cup {NoRun}, h \in {"none", "later"}, f \in BOOLEAN :
          sch' = [sch EXCEPT !.at = "claimed", !.reserved = f, !.long = 0, !.answer = r, !.hint = h]
    BY <1>8 DEF Reserve, Hint
  <2>2. sch' \in SchRecs /\ sch'.at = "claimed"
    BY <1>0, <2>1 DEF SchRecs
  <2> QED BY <2>2 DEF Scheduler
<1>9. ASSUME LongUnasked PROVE Scheduler(sch')
  <2>1. PICK r \in Runs : sch' = [sch EXCEPT !.at = "claimed", !.answer = r]
    BY <1>9, RoutinesAssumption DEF LongUnasked
  <2>2. sch' \in SchRecs /\ sch'.at = "claimed"
    BY <1>0, <2>1 DEF SchRecs
  <2> QED BY <2>2 DEF Scheduler
<1>10. ASSUME Claimed PROVE Scheduler(sch')
  <2>1. CASE sch.answer = NoRun
    <3> DEFINE d == Dropped(sch)
    <3>1. sch' = [d EXCEPT !.due = sch.hint]
      BY <1>10, <2>1 DEF Claimed
    <3>2. d \in SchRecs /\ d.at = "asleep"
      BY <1>0, SchKept DEF Dropped, Rest, NewScheduler
    <3> HIDE DEF d
    <3>3. sch' \in SchRecs /\ sch'.at = "asleep"
      BY <1>0, <3>1, <3>2 DEF SchRecs
    <3> QED BY <3>3 DEF Scheduler
  <2>2. CASE sch.answer \in Long /\ ~sch.reserved /\ sch.answer # NoRun
    BY <1>0, <1>10, <2>2, SchStays DEF Claimed
  <2>3. CASE sch.answer # NoRun /\ ~(sch.answer \in Long /\ ~sch.reserved)
    <3> DEFINE back == [sch EXCEPT !.long = IF sch.reserved /\ ~(sch.answer \in Long) THEN 1 ELSE @,
                                   !.reserved = FALSE, !.answer = NoRun]
    <3>1. sch' = IF sch.slots = 0 THEN Rest(back) ELSE [back EXCEPT !.at = "reserve", !.slots = @ - 1]
      BY <1>10, <2>3 DEF Claimed
    <3>2. back \in SchRecs /\ back.at = sch.at /\ back.slots = sch.slots /\ back.acks = sch.acks
      BY <1>0 DEF SchRecs
    <3>3. sch.at = "claimed"
      BY <1>10 DEF Claimed
    <3> HIDE DEF back
    <3>4. Scheduler(back)
      BY <3>2, <3>3 DEF Scheduler
    <3>5. CASE sch.slots = 0
      BY <3>1, <3>4, <3>5, SchStays
    <3>6. CASE sch.slots # 0
      <4>1. sch.slots - 1 \in Nat
        BY <3>6, SchFields
      <4>2. sch' \in SchRecs /\ sch'.at = "reserve"
        BY <3>1, <3>2, <3>6, <4>1 DEF SchRecs
      <4> QED BY <4>2 DEF Scheduler
    <3> QED BY <3>5, <3>6
  <2> QED BY <2>1, <2>2, <2>3
<1> QED BY <1>1, <1>2, <1>3, <1>4, <1>5, <1>6, <1>7, <1>8, <1>9, <1>10 DEF OfScheduler, Scheduling

(* A worker that ends leaves the others in their order.                    *)
LEMMA Removed ==
  ASSUME NEW S, NEW w \in Seq(S), NEW k \in DOMAIN w
  PROVE  /\ RemoveAt(w, k) \in Seq(S) /\ Len(RemoveAt(w, k)) = Len(w) - 1
         /\ \A i \in DOMAIN RemoveAt(w, k) :
              /\ i < k => RemoveAt(w, k)[i] = w[i] /\ i \in DOMAIN w
              /\ i >= k => RemoveAt(w, k)[i] = w[i + 1] /\ i + 1 \in DOMAIN w
         /\ \A i \in DOMAIN w : i # k => \E j \in DOMAIN RemoveAt(w, k) : RemoveAt(w, k)[j] = w[i]
<1> DEFINE a == SubSeq(w, 1, k - 1)
           b == SubSeq(w, k + 1, Len(w))
           v == RemoveAt(w, k)
<1>1. Len(w) \in Nat /\ k \in 1..Len(w) /\ DOMAIN w = 1..Len(w)
  OBVIOUS
<1>2. a \in Seq(S) /\ Len(a) = k - 1 /\ \A i \in 1..k - 1 : a[i] = w[i]
  BY <1>1
<1>3. b \in Seq(S) /\ Len(b) = Len(w) - k /\ \A i \in 1..Len(w) - k : b[i] = w[k + i]
  BY <1>1
<1> HIDE DEF a, b
<1>4. v = a \o b
  BY DEF RemoveAt, a, b
<1> HIDE DEF v
<1>5. /\ v \in Seq(S) /\ Len(v) = Len(a) + Len(b)
      /\ \A i \in 1 .. Len(a) + Len(b) : v[i] = IF i <= Len(a) THEN a[i] ELSE b[i - Len(a)]
  BY ONLY <1>2, <1>3, <1>4, ConcatProperties
<1>6. Len(v) = Len(w) - 1 /\ DOMAIN v = 1..Len(w) - 1
  BY <1>1, <1>2, <1>3, <1>5
<1>7. ASSUME NEW i \in 1..Len(w) - 1
      PROVE  /\ i < k => v[i] = w[i] /\ i \in 1..Len(w)
             /\ i >= k => v[i] = w[i + 1] /\ i + 1 \in 1..Len(w)
  <2>1. CASE i < k
    <3>1. i \in 1..k - 1 /\ i \in 1 .. Len(a) + Len(b) /\ i <= Len(a) /\ i \in 1..Len(w)
      BY <1>1, <1>2, <1>3, <2>1
    <3>2. v[i] = a[i]
      BY <1>5, <3>1
    <3>3. a[i] = w[i]
      BY <1>2, <3>1
    <3> QED BY <2>1, <3>1, <3>2, <3>3
  <2>2. CASE i >= k
    <3>1. i - (k - 1) \in 1..Len(w) - k /\ k + (i - (k - 1)) = i + 1
      BY <1>1, <2>2
    <3>2. v[i] = b[i - (k - 1)]
      <4>1. i \in 1 .. Len(a) + Len(b) /\ ~ (i <= Len(a)) /\ i - Len(a) = i - (k - 1)
        BY <1>1, <1>2, <1>3, <2>2
      <4> QED BY <1>5, <4>1
    <3>3. b[i - (k - 1)] = w[i + 1]
      BY <1>3, <3>1
    <3> QED BY <1>1, <2>2, <3>2, <3>3
  <2> QED BY <1>1, <2>1, <2>2
<1>8. ASSUME NEW i \in 1..Len(w), i # k PROVE \E j \in 1..Len(w) - 1 : v[j] = w[i]
  <2>1. CASE i < k
    BY <1>1, <1>7, <2>1
  <2>2. CASE i > k
    <3>1. i - 1 \in 1..Len(w) - 1 /\ i - 1 >= k /\ (i - 1) + 1 = i
      BY <1>1, <2>2
    <3> QED BY <1>7, <3>1
  <2> QED BY <1>1, <1>8, <2>1, <2>2
<1> QED BY <1>1, <1>5, <1>6, <1>7, <1>8 DEF v

(* The newest members of a sequence are members.                           *)
LEMMA NewestIs ==
  ASSUME NEW S, NEW s \in Seq(S), NEW n \in Nat
  PROVE  /\ Newest(s, n) \in Seq(S)
         /\ \E low \in Nat : \A i \in DOMAIN Newest(s, n) : low + i \in DOMAIN s /\ Newest(s, n)[i] = s[low + i]
<1> DEFINE m == IF Len(s) > n THEN Len(s) - n + 1 ELSE 1
<1>1. Len(s) \in Nat /\ m \in Nat /\ m >= 1 /\ m <= Len(s) + 1
  OBVIOUS
<1> HIDE DEF m
<1>2. Newest(s, n) = SubSeq(s, m, Len(s))
  BY DEF Newest, m
<1>3. /\ SubSeq(s, m, Len(s)) \in Seq(S) /\ Len(SubSeq(s, m, Len(s))) = Len(s) - m + 1
      /\ \A i \in 1..Len(s) - m + 1 : SubSeq(s, m, Len(s))[i] = s[m + i - 1]
  BY <1>1, SubSeqProperties
<1>4. \A i \in 1..Len(s) - m + 1 : m + i - 1 = (m - 1) + i /\ (m - 1) + i \in 1..Len(s)
  BY <1>1
<1>5. m - 1 \in Nat /\ DOMAIN SubSeq(s, m, Len(s)) = 1..Len(s) - m + 1 /\ DOMAIN s = 1..Len(s)
  BY <1>1, <1>3
<1>6. \A i \in DOMAIN SubSeq(s, m, Len(s)) : (m - 1) + i \in DOMAIN s /\ SubSeq(s, m, Len(s))[i] = s[(m - 1) + i]
  BY <1>3, <1>4, <1>5
<1> HIDE <1>3, <1>4
<1> QED BY <1>2, <1>3, <1>5, <1>6

(* The generation told is the Team's latest, if it has one.                *)
LEMMA GenerationIs ==
  ASSUME KeptTyped, NEW t
  PROVE  Generation(kept, t) \in Nat /\ Generation(kept, t) <= kept.next
         /\ (Generation(kept, t) # 0 => Latest(t, Generation(kept, t)))
<1> DEFINE I == {i \in DOMAIN kept.gens : kept.gens[i].team = t}
           S == [team : Teams, gen : Nat \ {0}]
           p == Picked(kept.gens, I)
<1>1. kept.gens \in Seq(S) /\ kept.next \in Nat /\ \A i \in DOMAIN kept.gens : kept.gens[i].gen <= kept.next
  BY DEF KeptTyped
<1>2. Generation(kept, t) = IF p = <<>> THEN 0 ELSE p[1].gen
  BY DEF Generation, Select
<1> HIDE DEF p, S
<1>3. p \in Seq(S) /\ \A k \in DOMAIN p : \E i \in DOMAIN kept.gens : i \in I /\ p[k] = kept.gens[i]
  <2> HIDE DEF I
  <2>1. kept.gens \in Seq(S)
    BY <1>1
  <2>2. /\ Picked(kept.gens, I) \in Seq(S)
        /\ \A k \in DOMAIN Picked(kept.gens, I) : \E i \in DOMAIN kept.gens : i \in I /\ Picked(kept.gens, I)[k] = kept.gens[i]
    BY <2>1, PickedAre
  <2> QED BY <2>2 DEF p
<1>4. CASE p # <<>>
  <2>1. 1 \in DOMAIN p
    BY <1>3, <1>4
  <2>2. PICK i \in DOMAIN kept.gens : i \in I /\ p[1] = kept.gens[i]
    BY <1>3, <2>1
  <2>3. kept.gens[i].team = t /\ Generation(kept, t) = kept.gens[i].gen
    BY <1>2, <1>4, <2>2
  <2>4. kept.gens[i].gen \in Nat
    <3>1. kept.gens[i] \in S
      BY <1>1, <2>2
    <3> QED BY <3>1 DEF S
  <2> QED BY <1>1, <2>2, <2>3, <2>4 DEF Latest
<1> QED BY <1>1, <1>2, <1>4

LEMMA WorkersTyped ==
  ASSUME Typed, OfScheduler \/ OfTeam \/ OfCall
  PROVE  workers' \in Seq(Segments)
<1>0. workers \in Seq(Segments) /\ sch.answer \in Runs \cup {NoRun}
  BY SchFields DEF Typed
<1>1. ASSUME Claimed PROVE workers' \in Seq(Segments)
  <2>1. CASE workers' = workers
    BY <1>0, <2>1
  <2>2. CASE workers' # workers
    <3>1. sch.answer # NoRun /\ workers' = Append(workers, [run |-> sch.answer, long |-> sch.answer \in Long, stood |-> FALSE])
      BY <1>1, <2>2 DEF Claimed
    <3>2. [run |-> sch.answer, long |-> sch.answer \in Long, stood |-> FALSE] \in Segments
      BY <1>0, <3>1 DEF Segments
    <3> QED BY <1>0, <3>1, <3>2
  <2> QED BY <2>1, <2>2
<1>2. ASSUME NEW i \in DOMAIN workers, NEW s, Segment(i, s) PROVE workers' \in Seq(Segments)
  <2>1. workers' = [workers EXCEPT ![i] = [workers[i] EXCEPT !.stood = TRUE]]
    BY <1>2 DEF Segment
  <2>2. workers[i] \in Segments
    BY <1>0
  <2>3. [workers[i] EXCEPT !.stood = TRUE] \in Segments
    BY <2>2 DEF Segments
  <2> QED BY <1>0, <2>1, <2>3, ExceptSeq
<1>3. ASSUME NEW i \in DOMAIN workers, RunClaimed(i) PROVE workers' \in Seq(Segments)
  BY <1>0, <1>3, Removed DEF RunClaimed
<1>4. OfCall => workers' = workers
  BY CallMoves
<1>5. (OfScheduler /\ ~Claimed) => workers' = workers
  BY DEF OfScheduler, Scheduling, Tick, Fetch, Write, Acknowledge, StartRuns, Reserve, DeliveryFails,
         AcknowledgeLost, IdentityFails, LongUnasked, ClaimFails
<1>6. ASSUME NEW r \in Runs, LeaseEnds(r) \/ Comes(r) PROVE workers' = workers
  BY <1>6 DEF LeaseEnds, Comes
<1> QED BY <1>0, <1>1, <1>2, <1>3, <1>4, <1>5, <1>6 DEF OfTeam, TeamActs

(* Each field of what Team holds.                                          *)
LEMMA TeamFields ==
  ASSUME NEW t
  PROVE  t \in TeamRecs <=>
           /\ t = [status |-> t.status, dispatch |-> t.dispatch, version |-> t.version, outcome |-> t.outcome,
                   acked |-> t.acked, challenge |-> t.challenge, minted |-> t.minted]
           /\ t.status \in [Runs -> Statuses] /\ t.dispatch \in [Runs -> {"on", "off", "back-on"}]
           /\ t.version \in [Runs -> Nat] /\ t.outcome \in [Runs -> Outcomes] /\ t.acked \in [Runs -> Nat]
           /\ t.challenge \in [Teams -> Challenges] /\ t.minted \in Nat
BY DEF TeamRecs

LEMMA StatusTyped ==
  ASSUME NEW t \in TeamRecs, NEW r, NEW s \in Statuses
  PROVE  /\ [t EXCEPT !.status[r] = s] \in TeamRecs
         /\ \A q \in Runs : [t EXCEPT !.status[r] = s].status[q] = IF q = r THEN s ELSE t.status[q]
<1>1. t.status \in [Runs -> Statuses]
  BY DEF TeamRecs
<1> DEFINE f == [t.status EXCEPT ![r] = s]
<1>2. f \in [Runs -> Statuses] /\ \A q \in Runs : f[q] = IF q = r THEN s ELSE t.status[q]
  BY <1>1
<1>3. [t EXCEPT !.status[r] = s] = [t EXCEPT !.status = f]
  OBVIOUS
<1> HIDE DEF f
<1> DEFINE u == [t EXCEPT !.status = f]
<1>4. u \in TeamRecs /\ u.status = f
  BY <1>2 DEF TeamRecs
<1> HIDE DEF u
<1>5. [t EXCEPT !.status[r] = s] = u
  BY <1>3 DEF u
<1> QED BY <1>2, <1>4, <1>5, Zenon

(* How a segment leaves its run, and the rest of what Team holds as it was. *)
StoodAs(t, u, r, s) ==
  /\ u \in TeamRecs /\ \A q \in Runs : u.status[q] = IF q = r THEN s ELSE t.status[q]
  /\ u.dispatch = t.dispatch /\ u.acked = t.acked /\ u.challenge = t.challenge /\ u.minted = t.minted

LEMMA StandsIs ==
  ASSUME NEW t \in TeamRecs, NEW r \in Runs, NEW s \in {"done", "held", "frozen", "frozen-integration", "denied"}
  PROVE  StoodAs(t, Stands(t, r, s), r, s)
<1> DEFINE o == IF s = "frozen-integration" THEN "frozen" ELSE s
           ss == [t.status EXCEPT ![r] = s]
           vs == [t.version EXCEPT ![r] = t.version[r] + 1]
           os == [t.outcome EXCEPT ![r] = o]
           w == [t EXCEPT !.status = ss, !.version = vs, !.outcome = os]
<1>1. t.status \in [Runs -> Statuses] /\ t.version \in [Runs -> Nat] /\ t.outcome \in [Runs -> Outcomes]
  BY DEF TeamRecs
<1>2. s \in Statuses /\ o \in Outcomes
  BY DEF Statuses, StartStatuses, Outcomes
<1>3. ss \in [Runs -> Statuses] /\ os \in [Runs -> Outcomes] /\ \A q \in Runs : ss[q] = IF q = r THEN s ELSE t.status[q]
  BY <1>1, <1>2
<1>4. vs \in [Runs -> Nat]
  <2>1. t.version[r] + 1 \in Nat
    BY <1>1
  <2> QED BY <1>1, <2>1
<1>5. Stands(t, r, s) = w
  BY DEF Stands
<1> HIDE DEF ss, vs, os
<1>6. /\ w \in TeamRecs /\ w.status = ss /\ w.dispatch = t.dispatch /\ w.acked = t.acked
      /\ w.challenge = t.challenge /\ w.minted = t.minted
  BY <1>3, <1>4 DEF TeamRecs
<1> HIDE DEF w
<1>7. StoodAs(t, w, r, s)
  BY <1>3, <1>6 DEF StoodAs
<1> QED BY <1>5, <1>7

(* The versions a chunk names are Team's versions of its notices.          *)
LEMMA AckedIs ==
  ASSUME NEW t \in TeamRecs, NEW chunk \in Seq(Notices)
  PROVE  /\ Acked(t, chunk) \in TeamRecs
         /\ Acked(t, chunk).status = t.status /\ Acked(t, chunk).dispatch = t.dispatch
         /\ Acked(t, chunk).challenge = t.challenge /\ Acked(t, chunk).minted = t.minted
         /\ \A r \in Runs :
              \/ Acked(t, chunk).acked[r] = t.acked[r]
              \/ \E i \in DOMAIN chunk : chunk[i].routine = r /\ Acked(t, chunk).acked[r] = chunk[i].version
<1> DEFINE At1(r) == CHOOSE i \in DOMAIN chunk : chunk[i].routine = r
           new(r) == IF \E i \in DOMAIN chunk : chunk[i].routine = r
                     THEN IF chunk[At1(r)].version > t.acked[r] THEN chunk[At1(r)].version ELSE t.acked[r]
                     ELSE t.acked[r]
           a == [r \in Runs |-> new(r)]
<1>1. t.acked \in [Runs -> Nat]
  BY DEF TeamRecs
<1>2. Acked(t, chunk) = [t EXCEPT !.acked = a]
  BY DEF Acked
<1>3. ASSUME NEW r \in Runs, \E i \in DOMAIN chunk : chunk[i].routine = r
      PROVE  At1(r) \in DOMAIN chunk /\ chunk[At1(r)].routine = r
  BY <1>3
<1> HIDE DEF At1
<1>4. \A i \in DOMAIN chunk : chunk[i].version \in Nat
  <2>1. \A i \in DOMAIN chunk : chunk[i] \in Notices
    OBVIOUS
  <2> QED BY <2>1 DEF Notices
<1>5. ASSUME NEW r \in Runs
      PROVE  /\ new(r) \in Nat
             /\ new(r) = t.acked[r] \/ \E i \in DOMAIN chunk : chunk[i].routine = r /\ new(r) = chunk[i].version
  <2>1. CASE \E i \in DOMAIN chunk : chunk[i].routine = r
    <3>1. At1(r) \in DOMAIN chunk /\ chunk[At1(r)].routine = r /\ chunk[At1(r)].version \in Nat /\ t.acked[r] \in Nat
      BY <1>1, <1>3, <1>4, <2>1
    <3> QED BY <3>1
  <2>2. CASE ~\E i \in DOMAIN chunk : chunk[i].routine = r
    BY <1>1, <2>2
  <2> QED BY <2>1, <2>2
<1> HIDE DEF new
<1>6. a \in [Runs -> Nat] /\ \A r \in Runs : a[r] = new(r)
  BY <1>5
<1> HIDE DEF a
<1>7. /\ [t EXCEPT !.acked = a] \in TeamRecs /\ [t EXCEPT !.acked = a].acked = a
      /\ [t EXCEPT !.acked = a].status = t.status /\ [t EXCEPT !.acked = a].dispatch = t.dispatch
      /\ [t EXCEPT !.acked = a].challenge = t.challenge /\ [t EXCEPT !.acked = a].minted = t.minted
  BY <1>6 DEF TeamRecs
<1>8. ASSUME NEW r \in Runs
      PROVE  a[r] = t.acked[r] \/ \E i \in DOMAIN chunk : chunk[i].routine = r /\ a[r] = chunk[i].version
  <2>1. a[r] = new(r)
    BY <1>6
  <2>2. new(r) = t.acked[r] \/ \E i \in DOMAIN chunk : chunk[i].routine = r /\ new(r) = chunk[i].version
    BY <1>5
  <2> QED BY <2>1, <2>2
<1> DEFINE u == [t EXCEPT !.acked = a]
<1>9. Acked(t, chunk) = u /\ u \in TeamRecs /\ u.acked = a /\ u.status = t.status /\ u.dispatch = t.dispatch
      /\ u.challenge = t.challenge /\ u.minted = t.minted
  BY <1>2, <1>7
<1> HIDE DEF u
<1> QED BY <1>8, <1>9

LEMMA OpenAsksIs ==
  ASSUME Typed, NEW c \in Calls, OpenAsks(c)
  PROVE  /\ call[c].at = "open" /\ call[c].run \in Runs
         /\ \/ /\ team.status[call[c].run] = "frozen"
               /\ team' = [team EXCEPT !.challenge[TeamOf[call[c].run]] = [run |-> call[c].run, id |-> team.minted + 1],
                                       !.minted = @ + 1]
               /\ call' = [call EXCEPT ![c] = [call[c] EXCEPT !.at = "told", !.id = team.minted + 1]]
            \/ /\ team' = team
               /\ \/ call' = [call EXCEPT ![c] = [call[c] EXCEPT !.at = "told", !.reply = "integrations-required"]]
                  \/ call' = [call EXCEPT ![c] = [call[c] EXCEPT !.at = "told", !.reply = "refused"]]
<1>1. call[c].at = "open" /\ Carries(call[c])
  BY DEF Typed, OpenAsks
<1>2. call[c].run \in Runs
  BY <1>1 DEF Carries
<1>3. CASE team.status[call[c].run] = "frozen"
  BY <1>1, <1>2, <1>3 DEF OpenAsks
<1>4. CASE team.status[call[c].run] # "frozen"
  BY <1>1, <1>2, <1>4 DEF OpenAsks
<1> QED BY <1>3, <1>4

LEMMA MintedIs ==
  ASSUME NEW t \in TeamRecs, NEW r \in Runs
  PROVE  LET u == [t EXCEPT !.challenge[TeamOf[r]] = [run |-> r, id |-> t.minted + 1], !.minted = @ + 1]
         IN u \in TeamRecs /\ u.status = t.status /\ u.dispatch = t.dispatch /\ u.acked = t.acked
            /\ u.minted = t.minted + 1
            /\ \A x \in Teams : u.challenge[x] = IF x = TeamOf[r] THEN [run |-> r, id |-> t.minted + 1] ELSE t.challenge[x]
<1> DEFINE n == t.minted + 1
           o == [run |-> r, id |-> n]
           f == [t.challenge EXCEPT ![TeamOf[r]] = o]
           u == [t EXCEPT !.challenge = f, !.minted = n]
<1>1. t.minted \in Nat /\ t.challenge \in [Teams -> Challenges]
  BY DEF TeamRecs
<1>2. n \in Nat /\ o \in Challenges
  BY <1>1 DEF Challenges
<1> HIDE DEF o
<1>3. f \in [Teams -> Challenges] /\ \A x \in Teams : f[x] = IF x = TeamOf[r] THEN o ELSE t.challenge[x]
  BY <1>1, <1>2
<1> HIDE DEF n, f
<1>4. /\ u \in TeamRecs /\ u.status = t.status /\ u.dispatch = t.dispatch /\ u.acked = t.acked
      /\ u.minted = n /\ u.challenge = f
  BY <1>2, <1>3 DEF TeamRecs
<1>5. [t EXCEPT !.challenge[TeamOf[r]] = [run |-> r, id |-> t.minted + 1], !.minted = @ + 1] = u
  BY DEF f, n, o
<1> HIDE DEF u
<1> QED BY <1>3, <1>4, <1>5 DEF n, o

LEMMA ClearedIs ==
  ASSUME NEW t \in TeamRecs, NEW k
  PROVE  LET u == [t EXCEPT !.challenge[k] = [run |-> NoRun, id |-> 0]]
         IN u \in TeamRecs /\ u.status = t.status /\ u.dispatch = t.dispatch /\ u.acked = t.acked
            /\ u.minted = t.minted
            /\ \A x \in Teams : u.challenge[x] = IF x = k THEN None ELSE t.challenge[x]
<1> DEFINE f == [t.challenge EXCEPT ![k] = None]
           u == [t EXCEPT !.challenge = f]
<1>1. t.challenge \in [Teams -> Challenges] /\ None \in Challenges
  BY DEF TeamRecs, None, Challenges
<1>2. f \in [Teams -> Challenges] /\ \A x \in Teams : f[x] = IF x = k THEN None ELSE t.challenge[x]
  BY <1>1
<1> HIDE DEF f
<1>3. /\ u \in TeamRecs /\ u.status = t.status /\ u.dispatch = t.dispatch /\ u.acked = t.acked
      /\ u.minted = t.minted /\ u.challenge = f
  BY <1>2 DEF TeamRecs
<1>4. [t EXCEPT !.challenge[k] = [run |-> NoRun, id |-> 0]] = u
  BY DEF f, None
<1> HIDE DEF u
<1> QED BY <1>2, <1>3, <1>4

(* What a person's call that begins does to Team: it leaves the challenges *)
(* and the notices alone.                                                  *)
LEMMA ChangeIs ==
  ASSUME NEW t \in TeamRecs, NEW r \in Runs, NEW u \in {Paused(t, r), Resumed(t, r), Deleted(t, r), CardAnswered(t, r), Confirmed(t, r), Revoked(t, r)}
  PROVE  u \in TeamRecs /\ u.acked = t.acked /\ u.challenge = t.challenge /\ u.minted = t.minted
<1>0. t.status \in [Runs -> Statuses] /\ t.dispatch \in [Runs -> {"on", "off", "back-on"}]
  BY DEF TeamRecs
<1>1. ASSUME NEW d \in {"off", "back-on"}
      PROVE  LET v == [t EXCEPT !.dispatch[r] = d] IN v \in TeamRecs /\ v.acked = t.acked /\ v.challenge = t.challenge /\ v.minted = t.minted
  <2> DEFINE f == [t.dispatch EXCEPT ![r] = d]
  <2>1. f \in [Runs -> {"on", "off", "back-on"}]
    BY <1>0
  <2> HIDE DEF f
  <2>2. LET v == [t EXCEPT !.dispatch = f] IN v \in TeamRecs /\ v.acked = t.acked /\ v.challenge = t.challenge /\ v.minted = t.minted
    BY <2>1 DEF TeamRecs
  <2> QED BY <2>2 DEF f
<1>2. ASSUME NEW s \in Statuses
      PROVE  LET v == [t EXCEPT !.status[r] = s] IN v \in TeamRecs /\ v.acked = t.acked /\ v.challenge = t.challenge /\ v.minted = t.minted
  <2>1. [t EXCEPT !.status[r] = s] \in TeamRecs
    BY StatusTyped
  <2> QED BY <2>1
<1>3. {"deleted", "due", "revoked", t.status[r]} \subseteq Statuses
  BY <1>0 DEF Statuses, StartStatuses
<1>4. u \in {Paused(t, r), Resumed(t, r)} => \E d \in {"off", "back-on"} : u = [t EXCEPT !.dispatch[r] = d]
  BY DEF Paused, Resumed
<1>5. u \in {Deleted(t, r), CardAnswered(t, r), Confirmed(t, r), Revoked(t, r)}
        => \E s \in Statuses : u = [t EXCEPT !.status[r] = s]
  BY <1>3 DEF Deleted, CardAnswered, Confirmed, Revoked
<1> QED BY <1>1, <1>2, <1>4, <1>5

(* An answer sent: Team takes it and clears the challenge, or refuses it.  *)
LEMMA ResumeIs ==
  ASSUME Typed, NEW c \in Calls, NEW s \in {"done", "held"}, ResumeAsks(c, s)
  PROVE  /\ call[c].run \in Runs /\ call' = [call EXCEPT ![c] = Over]
         /\ \/ team' = team
            \/ \E z \in {"done", "held", "denied"} :
                 team' = [Stands(team, call[c].run, z) EXCEPT !.challenge[TeamOf[call[c].run]] = [run |-> NoRun, id |-> 0]]
<1>1. call[c].at = "resume" /\ Carries(call[c])
  BY DEF Typed, ResumeAsks
<1>2. call[c].run \in Runs
  BY <1>1 DEF Carries
<1> QED BY <1>2 DEF ResumeAsks

LEMMA TeamTyped ==
  ASSUME Typed, Next
  PROVE  team' \in TeamRecs
<1>0. team \in TeamRecs /\ Scheduler(sch) /\ "leased" \in Statuses /\ "due" \in Statuses
  BY DEF Typed, Statuses, StartStatuses
<1>1. ASSUME Acknowledge \/ AcknowledgeLost PROVE team' \in TeamRecs
  <2>1. sch.acks \in Seq(Seq(Notices)) /\ sch.acks # <<>> /\ team' = Acked(team, Head(sch.acks))
    BY <1>0, <1>1 DEF Acknowledge, AcknowledgeLost, Scheduler
  <2>2. Head(sch.acks) \in Seq(Notices)
    BY <2>1
  <2> QED BY <1>0, <2>1, <2>2, AckedIs
<1>2. ASSUME Reserve \/ LongUnasked PROVE team' \in TeamRecs
  <2>1. team' = team \/ \E r \in Runs : team' = [team EXCEPT !.status[r] = "leased"]
    BY <1>2, RoutinesAssumption DEF Reserve, LongUnasked
  <2> QED BY <1>0, <2>1, StatusTyped
<1>3. ASSUME NEW i \in DOMAIN workers, NEW s \in {"done", "held", "frozen", "frozen-integration"}, Segment(i, s)
      PROVE  team' \in TeamRecs
  <2>1. workers[i] \in Segments
    BY DEF Typed
  <2>2. workers[i].run \in Runs /\ team' = Stands(team, workers[i].run, s)
    BY <1>3, <2>1 DEF Segment, Segments
  <2>3. StoodAs(team, Stands(team, workers[i].run, s), workers[i].run, s)
    BY <1>0, <2>2, StandsIs
  <2> QED BY <2>2, <2>3 DEF StoodAs
<1>4. ASSUME NEW r \in Runs, LeaseEnds(r) \/ Comes(r) PROVE team' \in TeamRecs
  BY <1>0, <1>4, StatusTyped DEF LeaseEnds, Comes
<1>5. ASSUME NEW c \in Calls, OpenAsks(c) PROVE team' \in TeamRecs
  <2> DEFINE r == call[c].run
             u == [team EXCEPT !.challenge[TeamOf[r]] = [run |-> r, id |-> team.minted + 1], !.minted = @ + 1]
  <2>1. r \in Runs /\ (team' = team \/ team' = u)
    BY <1>5, OpenAsksIs
  <2>2. u \in TeamRecs
    <3> HIDE DEF r
    <3> QED BY <1>0, <2>1, MintedIs
  <2> HIDE DEF u
  <2> QED BY <1>0, <2>1, <2>2
<1>6. ASSUME NEW c \in Calls, NEW s \in {"done", "held"}, ResumeAsks(c, s) PROVE team' \in TeamRecs
  <2>1. CASE team' = team
    BY <1>0, <2>1
  <2>2. CASE team' # team
    <3>1. PICK z \in {"done", "held", "denied"} :
            team' = [Stands(team, call[c].run, z) EXCEPT !.challenge[TeamOf[call[c].run]] = [run |-> NoRun, id |-> 0]]
      BY <1>6, <2>2, ResumeIs
    <3> DEFINE u == Stands(team, call[c].run, z)
    <3>2. call[c].run \in Runs
      BY <1>6, ResumeIs
    <3>3. u \in TeamRecs
      <4>1. StoodAs(team, Stands(team, call[c].run, z), call[c].run, z)
        BY <1>0, <3>2, StandsIs
      <4> QED BY <4>1 DEF StoodAs
    <3> HIDE DEF u
    <3>4. [u EXCEPT !.challenge[TeamOf[call[c].run]] = [run |-> NoRun, id |-> 0]] \in TeamRecs
      BY <3>3, ClearedIs
    <3> QED BY <3>1, <3>4 DEF u
  <2> QED BY <2>1, <2>2
<1>7. ASSUME NEW c \in Calls, Person(c) PROVE team' \in TeamRecs
  <2>1. ASSUME NEW r \in Runs,
               \/ RoutinesPause(c, r) \/ RoutinesResume(c, r) \/ RoutinesDelete(c, r)
               \/ RoutinesCardAnswer(c, r) \/ RoutinesProposalConfirm(c, r) \/ RoutinesProposalRevoke(c, r)
        PROVE  team' \in TeamRecs
    <3>1. team' \in {Paused(team, r), Resumed(team, r), Deleted(team, r), CardAnswered(team, r), Confirmed(team, r), Revoked(team, r)}
      BY <2>1 DEF RoutinesPause, RoutinesResume, RoutinesDelete, RoutinesCardAnswer, RoutinesProposalConfirm, RoutinesProposalRevoke, Change
    <3> QED BY <1>0, <3>1, ChangeIs
  <2>2. ASSUME NEW r \in Runs, OpenChallenge(c, r) \/ Integrations(c, r) \/ \E id \in 1..2 : Answer(c, r, id)
        PROVE  team' \in TeamRecs
    BY <1>0, <2>2 DEF OpenChallenge, Integrations, Answer
  <2> QED BY <1>7, <2>1, <2>2 DEF Person
<1>8. ASSUME NEW c \in Calls,
             \/ OpenLocked(c) \/ OpenTimesOut(c) \/ OpenTold(c) \/ Refused(c) \/ Settled(c) \/ OpenLost(c) \/ SettledInvalid(c)
             \/ \E live \in BOOLEAN : Rejected(c, live)
             \/ \E current, denied \in BOOLEAN : Authenticated(c, current, denied)
      PROVE  team' \in TeamRecs
  BY <1>0, <1>8 DEF OpenLocked, OpenTimesOut, OpenTold, Refused, Settled, OpenLost, SettledInvalid, Rejected, Authenticated
<1>9. ASSUME \/ Tick \/ Fetch \/ Write \/ StartRuns \/ Claimed \/ IdentityFails \/ ClaimFails \/ Expire \/ Crash
             \/ (\E at \in {"fetch", "write", "ack"} : DeliveryFails(at)) \/ \E i \in DOMAIN workers : RunClaimed(i)
      PROVE  team' \in TeamRecs
  BY <1>0, <1>9 DEF Tick, Fetch, Write, StartRuns, Claimed, IdentityFails, ClaimFails, Expire, Crash, DeliveryFails, RunClaimed
<1> QED BY <1>1, <1>2, <1>3, <1>4, <1>5, <1>6, <1>7, <1>8, <1>9 DEF Next, Scheduling, Failing, TeamActs, CallGoesOn

(* A call that ends, or begins with what it asks.                          *)
LEMMA CallsBegin ==
  ASSUME NEW r \in Runs, NEW g \in Nat, NEW id \in 1..2
  PROVE  /\ Over \in CallRecs /\ Carries(Over) /\ Idle \in CallRecs /\ Carries(Idle)
         /\ LET x == [Idle EXCEPT !.op = "open", !.run = r, !.at = "wait"] IN x \in CallRecs /\ Carries(x)
         /\ LET x == [Idle EXCEPT !.op = "integrations", !.run = r, !.at = "resume"] IN x \in CallRecs /\ Carries(x)
         /\ LET x == [Idle EXCEPT !.op = "human", !.run = r, !.at = "check", !.id = id, !.gen = g, !.live = TRUE]
            IN x \in CallRecs /\ Carries(x)
         /\ \A op \in {"pause", "resume", "delete", "card-answer", "confirm", "revoke"} :
              LET x == [Idle EXCEPT !.op = op, !.run = r, !.at = "settle"] IN x \in CallRecs /\ Carries(x)
<1>1. id \in Nat /\ id # 0 /\ 0 \in Nat
  OBVIOUS
<1>2. Over \in CallRecs /\ Carries(Over) /\ Idle \in CallRecs /\ Carries(Idle)
  BY DEF Over, Idle, CallRecs, Carries, Ops
<1>3. LET x == [Idle EXCEPT !.op = "open", !.run = r, !.at = "wait"] IN x \in CallRecs /\ Carries(x)
  BY DEF Idle, CallRecs, Carries, Ops
<1>4. LET x == [Idle EXCEPT !.op = "integrations", !.run = r, !.at = "resume"] IN x \in CallRecs /\ Carries(x)
  BY DEF Idle, CallRecs, Carries, Ops
<1>5. LET x == [Idle EXCEPT !.op = "human", !.run = r, !.at = "check", !.id = id, !.gen = g, !.live = TRUE]
      IN x \in CallRecs /\ Carries(x)
  BY <1>1 DEF Idle, CallRecs, Carries, Ops
<1>6. ASSUME NEW op \in {"pause", "resume", "delete", "card-answer", "confirm", "revoke"}
      PROVE  LET x == [Idle EXCEPT !.op = op, !.run = r, !.at = "settle"] IN x \in CallRecs /\ Carries(x)
  BY DEF Idle, CallRecs, Carries, Ops
<1> QED BY <1>2, <1>3, <1>4, <1>5, <1>6

(* One call moves at a time.                                               *)
Moves(c, x) == x \in CallRecs /\ Carries(x) /\ call' = [call EXCEPT ![c] = x]

LEMMA PersonMoves ==
  ASSUME Typed, KeptTyped, NEW c \in Calls, Person(c)
  PROVE  \E x : Moves(c, x)
<1>9. 1 \in 1..2 /\ 0 \in Nat
  OBVIOUS
<1>0. \A r \in Runs : Generation(kept, TeamOf[r]) \in Nat
  BY GenerationIs
<1>1. ASSUME NEW r \in Runs, OpenChallenge(c, r) PROVE \E x : Moves(c, x)
  <2> DEFINE x == [Idle EXCEPT !.op = "open", !.run = r, !.at = "wait"]
  <2>1. call' = [call EXCEPT ![c] = Over] \/ call' = [call EXCEPT ![c] = x]
    BY <1>1 DEF OpenChallenge
  <2>2. Over \in CallRecs /\ Carries(Over) /\ x \in CallRecs /\ Carries(x)
    BY <1>9, CallsBegin
  <2> HIDE DEF x
  <2> QED BY <2>1, <2>2 DEF Moves
<1>2. ASSUME NEW r \in Runs, Integrations(c, r) PROVE \E x : Moves(c, x)
  <2> DEFINE x == [Idle EXCEPT !.op = "integrations", !.run = r, !.at = "resume"]
  <2>1. call' = [call EXCEPT ![c] = x]
    BY <1>2 DEF Integrations
  <2>2. x \in CallRecs /\ Carries(x)
    BY <1>9, CallsBegin
  <2> HIDE DEF x
  <2> QED BY <2>1, <2>2 DEF Moves
<1>3. ASSUME NEW r \in Runs, NEW id \in 1..2, Answer(c, r, id) PROVE \E x : Moves(c, x)
  <2> DEFINE g == Generation(kept, TeamOf[r])
             x == [Idle EXCEPT !.op = "human", !.run = r, !.at = "check", !.id = id, !.gen = g, !.live = TRUE]
  <2>1. call' = [call EXCEPT ![c] = Over] \/ call' = [call EXCEPT ![c] = x]
    BY <1>3 DEF Answer
  <2>2. g \in Nat
    BY <1>0
  <2> HIDE DEF g
  <2>3. Over \in CallRecs /\ Carries(Over) /\ x \in CallRecs /\ Carries(x)
    BY <2>2, CallsBegin
  <2> HIDE DEF x
  <2> QED BY <2>1, <2>3 DEF Moves
<1>4. ASSUME NEW r \in Runs,
             \/ RoutinesPause(c, r) \/ RoutinesResume(c, r) \/ RoutinesDelete(c, r)
             \/ RoutinesCardAnswer(c, r) \/ RoutinesProposalConfirm(c, r) \/ RoutinesProposalRevoke(c, r)
      PROVE  \E x : Moves(c, x)
  <2>1. PICK op \in {"pause", "resume", "delete", "card-answer", "confirm", "revoke"} :
          call' = [call EXCEPT ![c] = Over] \/ call' = [call EXCEPT ![c] = [Idle EXCEPT !.op = op, !.run = r, !.at = "settle"]]
    BY <1>4 DEF RoutinesPause, RoutinesResume, RoutinesDelete, RoutinesCardAnswer, RoutinesProposalConfirm, RoutinesProposalRevoke, Change
  <2> DEFINE x == [Idle EXCEPT !.op = op, !.run = r, !.at = "settle"]
  <2>2. Over \in CallRecs /\ Carries(Over) /\ x \in CallRecs /\ Carries(x)
    BY <1>9, CallsBegin
  <2>3. call' = [call EXCEPT ![c] = Over] \/ call' = [call EXCEPT ![c] = x]
    BY <2>1
  <2> HIDE DEF x
  <2> QED BY <2>2, <2>3 DEF Moves
<1> QED BY <1>1, <1>2, <1>3, <1>4 DEF Person

LEMMA GoesOnMoves ==
  ASSUME Typed, NEW c \in Calls, CallGoesOn(c) \/ OpenLost(c) \/ SettledInvalid(c)
  PROVE  \E x : Moves(c, x)
<1>0. /\ call \in [Calls -> CallRecs] /\ call[c] \in CallRecs /\ Carries(call[c]) /\ team.minted \in Nat
      /\ Over \in CallRecs /\ Carries(Over)
  <2>1. Over \in CallRecs /\ Carries(Over)
    BY DEF Over, Idle, CallRecs, Carries, Ops
  <2> QED BY <2>1 DEF Typed, TeamRecs
<1>1. ASSUME OpenLocked(c) PROVE \E x : Moves(c, x)
  <2> DEFINE x == [call[c] EXCEPT !.at = "open"]
  <2>1. call' = [call EXCEPT ![c] = x] /\ call[c].at = "wait"
    BY <1>1 DEF OpenLocked
  <2>2. x \in CallRecs /\ Carries(x)
    BY <1>0, <2>1 DEF CallRecs, Carries
  <2> HIDE DEF x
  <2> QED BY <2>1, <2>2 DEF Moves
<1>2. ASSUME OpenAsks(c) PROVE \E x : Moves(c, x)
  <2> DEFINE n == team.minted + 1
             x == [call[c] EXCEPT !.at = "told", !.id = n]
             y == [call[c] EXCEPT !.at = "told", !.reply = "integrations-required"]
             z == [call[c] EXCEPT !.at = "told", !.reply = "refused"]
  <2>1. call[c].at = "open" /\ \E u \in {x, y, z} : call' = [call EXCEPT ![c] = u]
    BY <1>2, OpenAsksIs
  <2>2. n \in Nat
    BY <1>0
  <2> HIDE DEF n
  <2>3. x \in CallRecs /\ Carries(x) /\ y \in CallRecs /\ Carries(y) /\ z \in CallRecs /\ Carries(z)
    BY <1>0, <2>1, <2>2 DEF CallRecs, Carries
  <2> HIDE DEF x, y, z
  <2> QED BY <2>1, <2>3 DEF Moves
<1>3. ASSUME NEW current \in BOOLEAN, NEW denied \in BOOLEAN, Authenticated(c, current, denied) PROVE \E x : Moves(c, x)
  <2> DEFINE x == [call[c] EXCEPT !.at = "resume", !.reply = IF denied THEN "denied" ELSE "none"]
  <2>1. call[c].at = "check" /\ \E u \in {x, Over} : call' = [call EXCEPT ![c] = u]
    BY <1>0, <1>3 DEF Authenticated
  <2>2. x \in CallRecs /\ Carries(x)
    BY <1>0, <2>1 DEF CallRecs, Carries
  <2> HIDE DEF x
  <2> QED BY <1>0, <2>1, <2>2 DEF Moves
<1>4. ASSUME NEW s \in {"done", "held"}, ResumeAsks(c, s) PROVE \E x : Moves(c, x)
  BY <1>0, <1>4, ResumeIs DEF Moves
<1>5. ASSUME \/ OpenTimesOut(c) \/ OpenTold(c) \/ OpenLost(c) \/ SettledInvalid(c) \/ Refused(c) \/ Settled(c)
             \/ \E live \in BOOLEAN : Rejected(c, live)
      PROVE  call' = [call EXCEPT ![c] = Over] /\ \E x : Moves(c, x)
  <2>1. call' = [call EXCEPT ![c] = Over]
    BY <1>5 DEF OpenTimesOut, OpenTold, OpenLost, SettledInvalid, Refused, Settled, Rejected
  <2> QED BY <1>0, <2>1 DEF Moves
<1> QED BY <1>1, <1>2, <1>3, <1>4, <1>5 DEF CallGoesOn

LEMMA CallTyped ==
  ASSUME Typed, KeptTyped, Next
  PROVE  call' \in [Calls -> CallRecs] /\ \A c \in Calls : Carries(call'[c])
<1>0. call \in [Calls -> CallRecs] /\ \A c \in Calls : Carries(call[c])
  BY DEF Typed
<1>1. ASSUME NEW c \in Calls, NEW x, Moves(c, x)
      PROVE  call' \in [Calls -> CallRecs] /\ \A d \in Calls : Carries(call'[d])
  <2>1. x \in CallRecs /\ Carries(x) /\ call' = [call EXCEPT ![c] = x]
    BY <1>1 DEF Moves
  <2>2. \A d \in Calls : call'[d] = IF d = c THEN x ELSE call[d]
    BY <1>0, <2>1
  <2> QED BY <1>0, <2>1, <2>2
<1>2. CASE Crash
  <2>1. call' = [c \in Calls |-> IF call[c].at \in {"idle", "over"} THEN call[c] ELSE Over]
    BY <1>2 DEF Crash
  <2>2. Over \in CallRecs /\ Carries(Over)
    BY DEF Over, Idle, CallRecs, Carries, Ops
  <2>3. \A c \in Calls : call'[c] \in CallRecs /\ Carries(call'[c])
    BY <1>0, <2>1, <2>2
  <2> QED BY <2>1, <2>3
<1>3. CASE UNCHANGED call
  BY <1>0, <1>3
<1>4. CASE OfCall
  <2>1. Expire => UNCHANGED call
    BY DEF Expire
  <2> QED BY <1>1, <1>3, <1>4, <2>1, PersonMoves, GoesOnMoves DEF OfCall
<1> QED BY <1>2, <1>3, <1>4, NextIs, SchedulerMoves, TeamMoves

LEMMA TypedKept ==
  ASSUME Typed, KeptTyped, Next
  PROVE  Typed'
<1>0. Scheduler(sch) /\ sch \in SchRecs
  BY SchFields
<1>1. Scheduler(sch')
  <2>1. OfScheduler => Scheduler(sch')
    BY SchTyped
  <2>2. OfCall => Scheduler(sch')
    BY <1>0, CallMoves, SchStays
  <2>3. Crash => Scheduler(sch')
    BY <1>0, SchStays DEF Crash
  <2>4. TeamActs => Scheduler(sch')
    BY <1>0 DEF TeamActs, Segment, LeaseEnds, Comes
  <2>5. ASSUME NEW i \in DOMAIN workers, RunClaimed(i) PROVE Scheduler(sch')
    <3> DEFINE n == sch.slots + 1
               l == IF workers[i].long THEN 1 ELSE sch.long
               s == [sch EXCEPT !.slots = n, !.long = l]
    <3>1. n \in Nat /\ l \in Nat
      BY SchFields
    <3>2. sch' = Wake(s)
      BY <2>5 DEF RunClaimed
    <3> HIDE DEF n, l
    <3>3. s \in SchRecs /\ s.at = sch.at /\ s.acks = sch.acks
      BY <1>0, <3>1 DEF SchRecs
    <3> HIDE DEF s
    <3>4. Scheduler(s)
      BY <1>0, <3>3 DEF Scheduler
    <3> QED BY <3>2, <3>4, SchStays
  <2> QED BY <2>1, <2>2, <2>3, <2>4, <2>5, NextIs DEF OfTeam
<1>2. workers' \in Seq(Segments)
  <2>1. CASE Crash
    BY <2>1 DEF Crash
  <2>2. CASE OfCall \/ OfScheduler \/ OfTeam
    BY <2>2, WorkersTyped
  <2> QED BY <2>1, <2>2, NextIs
<1> QED BY <1>1, <1>2, TeamTyped, CallTyped, FaultsTyped DEF Typed

-----------------------------------------------------------------------------
(* The slots.                                                              *)

(* A step that moves no slot.                                              *)
LEMMA BooksStay ==
  ASSUME Books, sch'.slots = sch.slots, sch'.long = sch.long, sch'.slot = sch.slot, sch'.reserved = sch.reserved,
         workers' = workers, sch'.at = sch.at \/ {sch.at, sch'.at} \cap {"reserve", "claimed"} = {}
  PROVE  Books'
<1>1. sch'.at \in {"reserve", "claimed"} <=> sch.at \in {"reserve", "claimed"}
  OBVIOUS
<1>2. sch'.at = "claimed" <=> sch.at = "claimed"
  OBVIOUS
<1>3. SlotsHeld'
  BY <1>1, <1>2 DEF Books, SlotsHeld
<1>4. LongHeld'
  BY DEF Books, LongHeld
<1> QED BY <1>3, <1>4 DEF Books

LEMMA RestIs ==
  ASSUME NEW s \in SchRecs
  PROVE  /\ Rest(s).at = "asleep" /\ Rest(s).slot = FALSE /\ Rest(s).reserved = FALSE
         /\ Rest(s).slots = s.slots /\ Rest(s).long = s.long /\ Rest(s).woken = s.woken /\ Rest(s).due = s.due
         /\ Rest(s).answer = NoRun
         /\ Dropped(s).at = "asleep" /\ Dropped(s).slot = FALSE /\ Dropped(s).reserved = FALSE
         /\ Dropped(s).slots = s.slots + (IF s.slot THEN 1 ELSE 0)
         /\ Dropped(s).long = s.long + (IF s.reserved THEN 1 ELSE 0)
         /\ Dropped(s).woken = s.woken /\ Dropped(s).due = s.due
<1>1. /\ Rest(s).at = "asleep" /\ Rest(s).slot = FALSE /\ Rest(s).reserved = FALSE
      /\ Rest(s).slots = s.slots /\ Rest(s).long = s.long /\ Rest(s).woken = s.woken /\ Rest(s).due = s.due
      /\ Rest(s).answer = NoRun
  BY DEF Rest, NewScheduler
<1> DEFINE r == Rest(s)
           a == r.slots + (IF s.slot THEN 1 ELSE 0)
           b == r.long + (IF s.reserved THEN 1 ELSE 0)
           d == [r EXCEPT !.slots = a, !.long = b]
<1>2. Dropped(s) = d
  BY DEF Dropped
<1>3. r \in SchRecs
  BY SchKept
<1> HIDE DEF r, a, b
<1>4. /\ d.at = r.at /\ d.slot = r.slot /\ d.reserved = r.reserved /\ d.slots = a /\ d.long = b
      /\ d.woken = r.woken /\ d.due = r.due
  BY <1>3 DEF SchRecs
<1> HIDE DEF d
<1> QED BY <1>1, <1>2, <1>4 DEF r, a, b

(* The task between two ticks holds no slot.                               *)
LEMMA BooksRest ==
  ASSUME Typed, Books, sch' = Rest(sch), workers' = workers, ~sch.slot
  PROVE  Books'
<1>1. /\ sch'.at = "asleep" /\ sch'.slot = FALSE /\ sch'.reserved = FALSE
      /\ sch'.slots = sch.slots /\ sch'.long = sch.long
  BY SchFields, RestIs
<1>2. ~sch.reserved /\ sch.slot = FALSE
  BY SchFields DEF Books, SlotsHeld
<1>3. SlotsHeld'
  BY <1>1, <1>2 DEF Books, SlotsHeld
<1>4. LongHeld'
  BY <1>1, <1>2 DEF Books, LongHeld
<1> QED BY <1>3, <1>4 DEF Books

(* A tick that ends gives back what it holds.                              *)
LEMMA BooksDropped ==
  ASSUME Typed, Books, sch.at = "claimed", workers' = workers,
         sch' = Dropped(sch) \/ \E h : sch' = [Dropped(sch) EXCEPT !.due = h]
  PROVE  Books'
<1>0. sch \in SchRecs /\ sch.slots \in Nat /\ sch.long \in Nat /\ Dropped(sch) \in SchRecs
  BY SchFields, SchKept
<1>1. /\ sch'.at = Dropped(sch).at /\ sch'.slot = Dropped(sch).slot /\ sch'.reserved = Dropped(sch).reserved
      /\ sch'.slots = Dropped(sch).slots /\ sch'.long = Dropped(sch).long
  <2> DEFINE d == Dropped(sch)
  <2>1. d \in SchRecs /\ (sch' = d \/ \E h : sch' = [d EXCEPT !.due = h])
    BY <1>0
  <2> HIDE DEF d
  <2>2. /\ sch'.at = d.at /\ sch'.slot = d.slot /\ sch'.reserved = d.reserved
        /\ sch'.slots = d.slots /\ sch'.long = d.long
    BY <2>1 DEF SchRecs
  <2> QED BY <2>2 DEF d
<1>2. sch.slot
  BY DEF Books, SlotsHeld
<1>3. /\ sch'.at = "asleep" /\ sch'.slot = FALSE /\ sch'.reserved = FALSE
      /\ sch'.slots = sch.slots + 1 /\ sch'.long = sch.long + (IF sch.reserved THEN 1 ELSE 0)
  <2>1. /\ Dropped(sch).at = "asleep" /\ Dropped(sch).slot = FALSE /\ Dropped(sch).reserved = FALSE
        /\ Dropped(sch).slots = sch.slots + (IF sch.slot THEN 1 ELSE 0)
        /\ Dropped(sch).long = sch.long + (IF sch.reserved THEN 1 ELSE 0)
    BY <1>0, RestIs
  <2> QED BY <1>1, <1>2, <2>1
<1>4. SlotsHeld'
  <2>1. Len(workers) \in Nat
    BY DEF Typed
  <2> QED BY <1>0, <1>2, <1>3, <2>1 DEF Books, SlotsHeld
<1>5. LongHeld'
  <2>1. CASE sch.reserved
    <3>1. sch'.long = sch.long + 1
      BY <1>3, <2>1
    <3>2. sch.long = 0
      BY <2>1 DEF Books, LongHeld
    <3> QED BY <1>3, <2>1, <3>1, <3>2 DEF Books, LongHeld
  <2>2. CASE ~sch.reserved
    <3>1. sch'.long = sch.long
      BY <1>0, <1>3, <2>2
    <3> QED BY <1>3, <2>2, <3>1 DEF Books, LongHeld
  <2> QED BY <2>1, <2>2
<1> QED BY <1>4, <1>5 DEF Books

(* The run claimed starts on a worker.                                     *)
LEMMA BooksStarted ==
  ASSUME Typed, Books, Claimed, sch.answer # NoRun, ~(sch.answer \in Long /\ ~sch.reserved)
  PROVE  Books'
<1> DEFINE l == IF sch.reserved /\ ~(sch.answer \in Long) THEN 1 ELSE sch.long
           back == [sch EXCEPT !.long = l, !.reserved = FALSE, !.answer = NoRun]
           w == [run |-> sch.answer, long |-> sch.answer \in Long, stood |-> FALSE]
<1>0. /\ sch \in SchRecs /\ sch.slots \in Nat /\ sch.long \in Nat /\ workers \in Seq(Segments)
      /\ sch.at = "claimed" /\ sch.answer \in Runs
  BY SchFields DEF Typed, Claimed
<1>1. workers' = Append(workers, w) /\ sch' = IF sch.slots = 0 THEN Rest(back) ELSE [back EXCEPT !.at = "reserve", !.slots = @ - 1]
  BY DEF Claimed
<1>2. l \in Nat /\ w \in Segments
  BY <1>0 DEF Segments
<1>3. sch.slot = TRUE /\ sch.long \in {0, 1} /\ (sch.reserved => sch.long = 0)
  BY <1>0, SchFields DEF Books, SlotsHeld, LongHeld
<1> HIDE DEF l
<1>4. back \in SchRecs /\ back.slots = sch.slots /\ back.long = l /\ back.reserved = FALSE /\ back.slot = TRUE
  BY <1>0, <1>2, <1>3 DEF SchRecs
<1> HIDE DEF back
<1>5. /\ Len(workers') = Len(workers) + 1 /\ Len(workers) \in Nat
      /\ DOMAIN workers' = 1..Len(workers) + 1 /\ DOMAIN workers = 1..Len(workers)
      /\ workers'[Len(workers) + 1] = w /\ \A i \in DOMAIN workers : workers'[i] = workers[i]
      /\ \A i \in DOMAIN workers' : i \in DOMAIN workers \/ i = Len(workers) + 1
  BY <1>0, <1>1, <1>2
<1>6. sch'.long = l /\ sch'.reserved = FALSE /\ IF sch.slots = 0 THEN sch'.at = "asleep" /\ sch'.slot = FALSE /\ sch'.slots = 0
      ELSE sch'.at = "reserve" /\ sch'.slot = TRUE /\ sch'.slots = sch.slots - 1
  <2>1. CASE sch.slots = 0
    BY <1>1, <1>4, <2>1, RestIs
  <2>2. CASE sch.slots # 0
    BY <1>1, <1>4, <2>2 DEF SchRecs
  <2> QED BY <2>1, <2>2
<1>7. SlotsHeld'
  BY <1>0, <1>3, <1>5, <1>6 DEF Books, SlotsHeld
<1>8. w.run = sch.answer /\ w.long = (sch.answer \in Long)
  OBVIOUS
<1> HIDE DEF w
<1>9. LongHeld'
  <2>1. \A i \in DOMAIN workers' : workers'[i].long <=> workers'[i].run \in Long
    BY <1>5, <1>8 DEF Books, LongHeld
  <2>2. CASE sch.reserved /\ sch.answer \in Long
    <3>1. l = 0 /\ \A i \in DOMAIN workers : ~workers[i].long
      BY <1>3, <2>2 DEF l, Books, LongHeld
    <3>2. \A i \in DOMAIN workers' : workers'[i].long <=> i = Len(workers) + 1
      BY <1>5, <1>8, <2>2, <3>1
    <3>3. Len(workers) + 1 \in DOMAIN workers'
      BY <1>5
    <3> QED BY <1>6, <2>1, <3>1, <3>2, <3>3 DEF LongHeld
  <2>3. CASE sch.reserved /\ sch.answer \notin Long
    <3>1. l = 1 /\ \A i \in DOMAIN workers : ~workers[i].long
      BY <2>3 DEF l, Books, LongHeld
    <3>2. \A i \in DOMAIN workers' : ~workers'[i].long
      BY <1>5, <1>8, <2>3, <3>1
    <3> QED BY <1>6, <2>1, <3>1, <3>2 DEF LongHeld
  <2>4. CASE ~sch.reserved /\ sch.answer \notin Long
    <3>1. l = sch.long
      BY <2>4 DEF l
    <3>2. \A i \in DOMAIN workers' : workers'[i].long => i \in DOMAIN workers /\ workers[i].long
      BY <1>5, <1>8, <2>4
    <3>3. \A i \in DOMAIN workers : workers[i].long => i \in DOMAIN workers' /\ workers'[i].long
      BY <1>5
    <3>4. sch'.long \in {0, 1} /\ (sch'.long = 1 => ~sch'.reserved /\ \A i \in DOMAIN workers' : ~workers'[i].long)
      BY <1>3, <1>6, <3>1, <3>2, <2>4 DEF Books, LongHeld
    <3>5. \A i, k \in DOMAIN workers' : workers'[i].long /\ workers'[k].long => i = k
      BY <3>2 DEF Books, LongHeld
    <3>6. sch'.long = 0 => \E i \in DOMAIN workers' : workers'[i].long
      BY <1>6, <3>1, <3>3, <2>4 DEF Books, LongHeld
    <3> QED BY <1>6, <2>1, <3>4, <3>5, <3>6 DEF LongHeld
  <2> QED BY <2>2, <2>3, <2>4
<1> QED BY <1>7, <1>9 DEF Books

(* A worker that ends gives its slots back.                                *)
LEMMA BooksEnded ==
  ASSUME Typed, Books, NEW i \in DOMAIN workers, RunClaimed(i)
  PROVE  Books'
<1> DEFINE v == RemoveAt(workers, i)
           l == IF workers[i].long THEN 1 ELSE sch.long
<1>0. sch \in SchRecs /\ sch.slots \in Nat /\ workers \in Seq(Segments) /\ Len(workers) \in Nat /\ i \in 1..Len(workers)
  BY SchFields DEF Typed
<1>1. /\ Len(v) = Len(workers) - 1
      /\ \A k \in DOMAIN v : /\ k < i => v[k] = workers[k] /\ k \in DOMAIN workers
                             /\ k >= i => v[k] = workers[k + 1] /\ k + 1 \in DOMAIN workers
      /\ \A k \in DOMAIN workers : k # i => \E j \in DOMAIN v : v[j] = workers[k]
  BY <1>0, Removed
<1>2. DOMAIN v \subseteq Nat /\ i \in Nat
  <2>1. v \in Seq(Segments)
    BY <1>0, Removed
  <2> HIDE DEF v
  <2> QED BY <1>0, <2>1
<1>3. workers' = v /\ sch' = Wake([sch EXCEPT !.slots = @ + 1, !.long = l])
  BY DEF RunClaimed
<1> HIDE DEF v, l
<1>4. sch'.at = sch.at /\ sch'.slot = sch.slot /\ sch'.reserved = sch.reserved /\ sch'.slots = sch.slots + 1 /\ sch'.long = l
  BY <1>0, <1>3 DEF Wake, SchRecs
<1>5. SlotsHeld'
  <2>1. sch.slots + Len(workers) + (IF sch.slot THEN 1 ELSE 0) = Workers /\ Len(workers') = Len(workers) - 1
    BY <1>1, <1>3 DEF Books, SlotsHeld
  <2>2. sch'.slots + Len(workers') + (IF sch'.slot THEN 1 ELSE 0) = Workers
    BY <1>0, <1>4, <2>1
  <2> QED BY <1>4, <2>2 DEF Books, SlotsHeld
<1>6. \A k \in DOMAIN v : \E j \in DOMAIN workers : j # i /\ v[k] = workers[j]
  <2>1. ASSUME NEW k \in DOMAIN v PROVE \E j \in DOMAIN workers : j # i /\ v[k] = workers[j]
    <3>1. CASE k < i
      BY <1>1, <1>2, <3>1
    <3>2. CASE k >= i
      <4>1. k + 1 # i
        BY <1>2, <3>2
      <4> QED BY <1>1, <3>2, <4>1
    <3> QED BY <1>2, <3>1, <3>2
  <2> QED BY <2>1
<1>7. \A k \in DOMAIN v : v[k].long <=> v[k].run \in Long
  BY <1>6 DEF Books, LongHeld
<1>8. LongHeld'
  <2>1. CASE workers[i].long
    <3>1. l = 1 /\ ~sch.reserved
      BY <2>1 DEF l, Books, LongHeld
    <3>2. \A k \in DOMAIN v : ~v[k].long
      BY <1>6, <2>1 DEF Books, LongHeld
    <3> QED BY <1>3, <1>4, <1>7, <3>1, <3>2 DEF LongHeld
  <2>2. CASE ~workers[i].long
    <3>1. l = sch.long
      BY <2>2 DEF l
    <3>2. sch'.long \in {0, 1} /\ (sch'.long = 1 => ~sch'.reserved /\ \A k \in DOMAIN v : ~v[k].long)
                /\ (sch'.reserved => \A k \in DOMAIN v : ~v[k].long)
      BY <1>4, <1>6, <3>1 DEF Books, LongHeld
    <3>3. ASSUME NEW k \in DOMAIN v, NEW m \in DOMAIN v, v[k].long, v[m].long PROVE k = m
      <4> DEFINE p(x) == IF x < i THEN x ELSE x + 1
      <4>1. p(k) \in DOMAIN workers /\ v[k] = workers[p(k)] /\ p(m) \in DOMAIN workers /\ v[m] = workers[p(m)]
        BY <1>1, <1>2
      <4>2. p(k) = p(m)
        <5> HIDE DEF p
        <5> QED BY <3>3, <4>1 DEF Books, LongHeld
      <4> QED BY <1>2, <4>2
    <3>4. sch'.long = 0 => sch'.reserved \/ \E k \in DOMAIN v : v[k].long
      BY <1>1, <1>4, <2>2, <3>1 DEF Books, LongHeld
    <3> QED BY <1>3, <1>7, <3>2, <3>3, <3>4 DEF LongHeld
  <2> QED BY <2>1, <2>2
<1> QED BY <1>5, <1>8 DEF Books

LEMMA BooksKept ==
  ASSUME Typed, Books, Next
  PROVE  Books'
<1>0. /\ sch \in SchRecs /\ sch.slots \in Nat /\ sch.long \in Nat /\ sch.batches \in Nat /\ workers \in Seq(Segments)
      /\ Len(workers) \in Nat /\ Workers \in Nat
  BY SchFields, RoutinesAssumption DEF Typed
<1>1. CASE OfCall
  <2>1. workers' = workers /\ (sch' = sch \/ sch' = Wake(sch))
    BY <1>1, CallMoves
  <2>2. /\ sch'.slots = sch.slots /\ sch'.long = sch.long /\ sch'.slot = sch.slot /\ sch'.reserved = sch.reserved
        /\ sch'.at = sch.at
    BY <1>0, <2>1 DEF Wake, SchRecs
  <2> QED BY <2>1, <2>2, BooksStay
<1>2. CASE Crash
  <2>1. sch' = NewScheduler /\ workers' = <<>>
    BY <1>2 DEF Crash
  <2>2. sch'.at = "asleep" /\ sch'.slot = FALSE /\ sch'.reserved = FALSE /\ sch'.slots = Workers /\ sch'.long = 1
    BY <2>1 DEF NewScheduler
  <2>3. Len(workers') = 0 /\ DOMAIN workers' = {}
    BY <2>1
  <2> QED BY <1>0, <2>2, <2>3 DEF Books, SlotsHeld, LongHeld
<1>3. ASSUME \/ Tick \/ Fetch \/ Write \/ Acknowledge \/ AcknowledgeLost
             \/ \E at \in {"fetch", "write", "ack"} : DeliveryFails(at)
      PROVE  Books'
  <2>1. workers' = workers /\ sch.at \in {"asleep", "fetch", "write", "ack"}
    BY <1>3 DEF Tick, Fetch, Write, Acknowledge, AcknowledgeLost, DeliveryFails
  <2>2. NextBatch(sch).slots = sch.slots /\ NextBatch(sch).long = sch.long /\ NextBatch(sch).slot = sch.slot
        /\ NextBatch(sch).reserved = sch.reserved /\ NextBatch(sch).at \in {"fetch", "start"}
    BY <1>0 DEF NextBatch, SchRecs
  <2>3. /\ sch'.slots = sch.slots /\ sch'.long = sch.long /\ sch'.slot = sch.slot /\ sch'.reserved = sch.reserved
        /\ sch'.at \notin {"reserve", "claimed"}
    <3>1. CASE Tick \/ AcknowledgeLost \/ \E at \in {"fetch", "write", "ack"} : DeliveryFails(at)
      BY <1>0, <3>1 DEF Tick, AcknowledgeLost, DeliveryFails, SchRecs
    <3>2. CASE Fetch
      BY <1>0, <3>2 DEF Fetch, SchRecs
    <3>3. CASE Write
      BY <1>0, <2>2, <3>3 DEF Write, SchRecs
    <3>4. CASE Acknowledge
      BY <1>0, <2>2, <3>4 DEF Acknowledge, SchRecs
    <3> QED BY <1>3, <3>1, <3>2, <3>3, <3>4
  <2> QED BY <2>1, <2>3, BooksStay
<1>4. ASSUME StartRuns PROVE Books'
  <2>0. workers' = workers /\ sch.at = "start" /\ ~sch.slot /\ ~sch.reserved
    BY <1>4 DEF StartRuns, Books, SlotsHeld
  <2>1. CASE sch.slots = 0
    <3>1. sch' = Rest(sch)
      BY <1>4, <2>1 DEF StartRuns
    <3> QED BY <2>0, <3>1, BooksRest
  <2>2. CASE sch.slots # 0
    <3>1. /\ sch'.at = "reserve" /\ sch'.slot = TRUE /\ sch'.slots = sch.slots - 1 /\ sch'.long = sch.long
          /\ sch'.reserved = sch.reserved
      BY <1>0, <1>4, <2>2 DEF StartRuns, SchRecs
    <3>2. SlotsHeld'
      BY <1>0, <2>0, <3>1 DEF Books, SlotsHeld
    <3>3. LongHeld'
      BY <2>0, <3>1 DEF Books, LongHeld
    <3> QED BY <3>2, <3>3 DEF Books
  <2> QED BY <2>1, <2>2
<1>5. ASSUME IdentityFails PROVE Books'
  <2>1. sch' = Rest(sch) /\ workers' = workers /\ ~sch.slot
    BY <1>5 DEF IdentityFails, Books, SlotsHeld
  <2> QED BY <2>1, BooksRest
<1>6. ASSUME Reserve PROVE Books'
  <2>1. /\ sch.at = "reserve" /\ workers' = workers /\ sch'.at = "claimed" /\ sch'.reserved = (sch.long = 1)
        /\ sch'.long = 0 /\ sch'.slot = sch.slot /\ sch'.slots = sch.slots
    BY <1>0, <1>6 DEF Reserve, SchRecs
  <2>2. ~sch.reserved
    BY <2>1 DEF Books, SlotsHeld
  <2>3. SlotsHeld'
    BY <2>1 DEF Books, SlotsHeld
  <2>4. LongHeld'
    BY <2>1, <2>2 DEF Books, LongHeld
  <2> QED BY <2>3, <2>4 DEF Books
<1>7. ASSUME LongUnasked PROVE Books'
  <2>1. /\ sch.at = "reserve" /\ workers' = workers /\ sch'.at = "claimed" /\ sch'.reserved = sch.reserved
        /\ sch'.long = sch.long /\ sch'.slot = sch.slot /\ sch'.slots = sch.slots
    BY <1>0, <1>7 DEF LongUnasked, SchRecs
  <2>3. SlotsHeld'
    BY <2>1 DEF Books, SlotsHeld
  <2>4. LongHeld'
    BY <2>1 DEF Books, LongHeld
  <2> QED BY <2>3, <2>4 DEF Books
<1>8. ASSUME Claimed PROVE Books'
  <2>1. CASE sch.answer = NoRun \/ (sch.answer \in Long /\ ~sch.reserved)
    <3>1. sch.at = "claimed" /\ workers' = workers /\ (sch' = Dropped(sch) \/ sch' = [Dropped(sch) EXCEPT !.due = sch.hint])
      BY <1>8, <2>1 DEF Claimed
    <3> QED BY <3>1, BooksDropped
  <2>2. CASE ~(sch.answer = NoRun \/ (sch.answer \in Long /\ ~sch.reserved))
    BY <1>8, <2>2, BooksStarted
  <2> QED BY <2>1, <2>2
<1>9. ASSUME ClaimFails PROVE Books'
  BY <1>9, BooksDropped DEF ClaimFails
<1>10. ASSUME NEW i \in DOMAIN workers, NEW s, Segment(i, s) PROVE Books'
  <2>1. sch' = sch /\ workers' = [workers EXCEPT ![i] = [workers[i] EXCEPT !.stood = TRUE]]
    BY <1>10 DEF Segment
  <2>2. workers[i] \in Segments
    BY <1>0
  <2>3. [workers[i] EXCEPT !.stood = TRUE].run = workers[i].run /\ [workers[i] EXCEPT !.stood = TRUE].long = workers[i].long
    BY <2>2 DEF Segments
  <2>4. /\ DOMAIN workers' = DOMAIN workers /\ Len(workers') = Len(workers)
        /\ \A k \in DOMAIN workers : workers'[k].run = workers[k].run /\ workers'[k].long = workers[k].long
    BY <1>0, <2>1, <2>3
  <2>5. SlotsHeld'
    BY <2>1, <2>4 DEF Books, SlotsHeld
  <2>6. LongHeld'
    BY <2>1, <2>4 DEF Books, LongHeld
  <2> QED BY <2>5, <2>6 DEF Books
<1>11. ASSUME NEW r \in Runs, LeaseEnds(r) \/ Comes(r) PROVE Books'
  <2>1. sch' = sch /\ workers' = workers
    BY <1>11 DEF LeaseEnds, Comes
  <2> QED BY <2>1, BooksStay
<1>12. ASSUME NEW i \in DOMAIN workers, RunClaimed(i) PROVE Books'
  BY <1>12, BooksEnded
<1> QED BY <1>1, <1>2, <1>3, <1>4, <1>5, <1>6, <1>7, <1>8, <1>9, <1>10, <1>11, <1>12, NextIs
        DEF OfScheduler, Scheduling, OfTeam, TeamActs

(* What the inductive books say of the property's counts.                  *)
LEMMA BooksCounted ==
  ASSUME Typed, Books
  PROVE  SlotsAccounted
<1> DEFINE L == {i \in DOMAIN workers : workers[i].long}
<1>1. L = {i \in DOMAIN workers : workers[i].run \in Long}
  BY DEF Books, LongHeld
<1>2. CASE L = {}
  <2>1. Cardinality(L) = 0
    BY <1>2, FS_EmptySet
  <2>2. (sch.long = 1 /\ ~sch.reserved) \/ (sch.long = 0 /\ sch.reserved)
    <3>1. ~\E i \in DOMAIN workers : workers[i].long
      BY <1>2
    <3> QED BY <3>1 DEF Books, LongHeld
  <2> HIDE DEF L
  <2>3. sch.long + Cardinality(L) + (IF sch.reserved THEN 1 ELSE 0) = 1
    BY <2>1, <2>2
  <2>7. Cardinality({k \in DOMAIN workers : workers[k].run \in Long}) <= 1
    <3>1. Cardinality(L) <= 1
      BY <2>1
    <3> QED BY <1>1, <3>1
  <2>8. sch.long + Cardinality({k \in DOMAIN workers : workers[k].long}) + (IF sch.reserved THEN 1 ELSE 0) = 1
    BY <2>3, Zenon DEF L
  <2>9. sch.slots + Len(workers) + (IF sch.slot THEN 1 ELSE 0) = Workers
    BY DEF Books, SlotsHeld
  <2> QED BY <2>7, <2>8, <2>9, Zenon DEF SlotsAccounted
<1>3. CASE L # {}
  <2>1. PICK i \in L : TRUE
    BY <1>3
  <2>2. L = {i}
    BY <2>1 DEF Books, LongHeld
  <2>3. Cardinality(L) = 1
    BY <2>2, FS_Singleton
  <2>4. sch.long = 0 /\ ~sch.reserved
    BY <2>1 DEF Books, LongHeld
  <2> HIDE DEF L
  <2>5. sch.long + Cardinality(L) + (IF sch.reserved THEN 1 ELSE 0) = 1
    BY <2>3, <2>4
  <2>7. Cardinality({k \in DOMAIN workers : workers[k].run \in Long}) <= 1
    <3>1. Cardinality(L) <= 1
      BY <2>3
    <3> QED BY <1>1, <3>1
  <2>8. sch.long + Cardinality({k \in DOMAIN workers : workers[k].long}) + (IF sch.reserved THEN 1 ELSE 0) = 1
    BY <2>5, Zenon DEF L
  <2>9. sch.slots + Len(workers) + (IF sch.slot THEN 1 ELSE 0) = Workers
    BY DEF Books, SlotsHeld
  <2> QED BY <2>7, <2>8, <2>9, Zenon DEF SlotsAccounted
<1> QED BY <1>2, <1>3

-----------------------------------------------------------------------------
(* The notices.                                                            *)

(* The row of a run's notice, as the store reads it.                       *)
LEMMA NoticeRow ==
  ASSUME StoreTyped, NEW r \in Runs
  PROVE  LET there == At(store, TeamOf[r], r, "routine")
         IN \/ there = <<>> /\ \A i \in DOMAIN store.rows : ~OfNotice(store.rows[i], r)
            \/ there # <<>> /\ \E i \in DOMAIN store.rows : OfNotice(store.rows[i], r) /\ there[1] = store.rows[i]
<1> DEFINE I == {i \in DOMAIN store.rows : OfNotice(store.rows[i], r)}
           p == Picked(store.rows, I)
<1>1. At(store, TeamOf[r], r, "routine") = p
  BY DEF At, Where, Select, OfNotice
<1>2. store.rows \in Seq(RowRecs)
  BY DEF StoreTyped
<1>3. /\ p \in Seq(RowRecs)
      /\ \A k \in DOMAIN p : \E i \in DOMAIN store.rows : i \in I /\ p[k] = store.rows[i]
      /\ p = <<>> <=> \A i \in DOMAIN store.rows : i \notin I
  <2> HIDE DEF I
  <2> QED BY <1>2, PickedAre
<1> HIDE DEF p
<1>4. CASE p = <<>>
  BY <1>1, <1>3, <1>4
<1>5. CASE p # <<>>
  <2>1. 1 \in DOMAIN p
    BY <1>3, <1>5
  <2> QED BY <1>1, <1>3, <1>5, <2>1
<1> QED BY <1>4, <1>5

(* A row written at the end.                                               *)
LEMMA Inserted ==
  ASSUME NEW h \in [rows : Seq(RowRecs), last : Nat, bound : {<<>>}], NEW r \in Runs, NEW suffix \in {"answer", "routine"},
         NEW body \in Bodies
  PROVE  LET row == [Row(TeamOf[r], r, suffix, body, "plain", 0) EXCEPT !.pos = h.last + 1]
             g == Insert(h, Row(TeamOf[r], r, suffix, body, "plain", 0))
         IN /\ g \in [rows : Seq(RowRecs), last : Nat, bound : {<<>>}] /\ g.rows = Append(h.rows, row)
            /\ row \in RowRecs /\ row.team = TeamOf[r] /\ row.turn = r /\ row.suffix = suffix /\ row.body = body
<1> DEFINE n == h.last + 1
           row == [Row(TeamOf[r], r, suffix, body, "plain", 0) EXCEPT !.pos = n]
<1>1. n \in Nat
  OBVIOUS
<1>2. TeamOf[r] \in Teams
  BY DEF Teams
<1> HIDE DEF n
<1>3. row \in RowRecs /\ row.team = TeamOf[r] /\ row.turn = r /\ row.suffix = suffix /\ row.body = body
  BY <1>1, <1>2 DEF Row, RowRecs
<1>4. Insert(h, Row(TeamOf[r], r, suffix, body, "plain", 0)) = [h EXCEPT !.rows = Append(h.rows, row), !.last = n]
  BY DEF Insert, n
<1> HIDE DEF row
<1>5. Append(h.rows, row) \in Seq(RowRecs)
  BY <1>3
<1>6. /\ [h EXCEPT !.rows = Append(h.rows, row), !.last = n] \in [rows : Seq(RowRecs), last : Nat, bound : {<<>>}]
      /\ [h EXCEPT !.rows = Append(h.rows, row), !.last = n].rows = Append(h.rows, row)
  BY <1>1, <1>5
<1> QED BY <1>3, <1>4, <1>6 DEF row, n

(* The store without a run's notice keeps the others, each once.           *)
LEMMA WithoutIs ==
  ASSUME StoreTyped, NEW r \in Runs
  PROVE  LET g == Without(store, TeamOf[r], r)
         IN /\ g \in [rows : Seq(RowRecs), last : Nat, bound : {<<>>}] /\ g.last = store.last
            /\ \A i \in DOMAIN g.rows : ~OfNotice(g.rows[i], r) /\ \E k \in DOMAIN store.rows : g.rows[i] = store.rows[k]
            /\ \A q \in Runs : \A i, k \in DOMAIN g.rows : OfNotice(g.rows[i], q) /\ OfNotice(g.rows[k], q) => i = k
            /\ \A i \in DOMAIN store.rows : ~OfNotice(store.rows[i], r) => \E k \in DOMAIN g.rows : g.rows[k] = store.rows[i]
<1> DEFINE I == {i \in DOMAIN store.rows : ~OfNotice(store.rows[i], r)}
           p == Picked(store.rows, I)
           g == [store EXCEPT !.rows = p]
<1>1. Without(store, TeamOf[r], r) = g
  BY DEF Without, Select, OfNotice
<1>2. store \in [rows : Seq(RowRecs), last : Nat, bound : {<<>>}] /\ store.rows \in Seq(RowRecs)
  BY DEF StoreTyped
<1>3. /\ p \in Seq(RowRecs)
      /\ \A k \in DOMAIN p : \E i \in DOMAIN store.rows : i \in I /\ p[k] = store.rows[i]
      /\ \A i \in DOMAIN store.rows : i \in I => \E k \in DOMAIN p : p[k] = store.rows[i]
  <2> HIDE DEF I
  <2> QED BY <1>2, PickedAre
<1>4. PICK at \in [1..Len(p) -> DOMAIN store.rows] :
        /\ \A k \in DOMAIN p : at[k] \in I /\ p[k] = store.rows[at[k]]
        /\ \A k, l \in DOMAIN p : k < l => at[k] < at[l]
        /\ \A i \in DOMAIN store.rows : i \in I => \E k \in DOMAIN p : at[k] = i
  <2> HIDE DEF I
  <2>1. /\ Picked(store.rows, I) \in Seq(RowRecs)
        /\ \E at \in [1..Len(Picked(store.rows, I)) -> DOMAIN store.rows] :
              /\ \A k \in DOMAIN Picked(store.rows, I) : at[k] \in I /\ Picked(store.rows, I)[k] = store.rows[at[k]]
              /\ \A k, l \in DOMAIN Picked(store.rows, I) : k < l => at[k] < at[l]
              /\ \A i \in DOMAIN store.rows : i \in I => \E k \in DOMAIN Picked(store.rows, I) : at[k] = i
    BY <1>2, PickedIs
  <2> QED BY <2>1, Zenon
<1> HIDE DEF p
<1>5. DOMAIN p = 1..Len(p) /\ Len(p) \in Nat /\ DOMAIN store.rows \subseteq Nat
  BY <1>2, <1>3
<1>6. \A k \in DOMAIN p : at[k] \in Nat
  BY <1>4, <1>5
<1>7. ASSUME NEW i \in DOMAIN p, NEW k \in DOMAIN p, at[i] = at[k] PROVE i = k
  <2>1. at[i] \in Nat /\ at[k] \in Nat /\ i \in Nat /\ k \in Nat
    BY <1>5, <1>6
  <2>2. ~(i < k) /\ ~(k < i)
    BY <1>4, <1>7, <2>1
  <2> QED BY <2>1, <2>2
<1>8. ASSUME NEW q \in Runs, NEW i \in DOMAIN p, NEW k \in DOMAIN p, OfNotice(p[i], q), OfNotice(p[k], q)
      PROVE  i = k
  <2>1. at[i] \in DOMAIN store.rows /\ at[k] \in DOMAIN store.rows /\ p[i] = store.rows[at[i]] /\ p[k] = store.rows[at[k]]
    BY <1>4, <1>5
  <2>2. at[i] = at[k]
    BY <1>8, <2>1 DEF StoreTyped
  <2> QED BY <1>7, <2>2
<1>9. g \in [rows : Seq(RowRecs), last : Nat, bound : {<<>>}] /\ g.last = store.last /\ g.rows = p
  BY <1>2, <1>3
<1> HIDE DEF g
<1> QED BY <1>1, <1>3, <1>8, <1>9

(* The store ends with a row, and still holds all a former one did.        *)
Appended(h, row) ==
  /\ StoreTyped'
  /\ \A i \in DOMAIN h.rows : \E k \in DOMAIN store'.rows : store'.rows[k] = h.rows[i]
  /\ \E k \in DOMAIN store'.rows : store'.rows[k] = row

(* A row at the end of a store where it is the run's only notice, or none. *)
LEMMA Ends ==
  ASSUME NEW h \in [rows : Seq(RowRecs), last : Nat, bound : {<<>>}], NEW r \in Runs, NEW row \in RowRecs,
         row.turn = r,
         row.suffix = "routine" => row.body \in Notices /\ \A i \in DOMAIN h.rows : ~OfNotice(h.rows[i], r),
         \A i \in DOMAIN h.rows : h.rows[i].suffix = "routine" => h.rows[i].body \in Notices,
         \A q \in Runs : \A i, k \in DOMAIN h.rows : OfNotice(h.rows[i], q) /\ OfNotice(h.rows[k], q) => i = k,
         store' \in [rows : Seq(RowRecs), last : Nat, bound : {<<>>}], store'.rows = Append(h.rows, row)
  PROVE  Appended(h, row)
<1> DEFINE n == Len(h.rows) + 1
<1>1. /\ DOMAIN h.rows = 1..Len(h.rows) /\ Len(h.rows) \in Nat /\ DOMAIN store'.rows = 1..n
      /\ store'.rows[n] = row /\ \A i \in DOMAIN h.rows : store'.rows[i] = h.rows[i]
  <2>1. h.rows \in Seq(RowRecs)
    OBVIOUS
  <2> QED BY <2>1
<1>2. n \in 1..n /\ (\A i \in 1..n : i = n \/ i \in DOMAIN h.rows) /\ \A i \in DOMAIN h.rows : i \in 1..n
  BY <1>1
<1> HIDE DEF n
<1>3. \A i \in DOMAIN store'.rows : store'.rows[i].suffix = "routine" => store'.rows[i].body \in Notices
  BY <1>1, <1>2
<1>4. \A q \in Runs : OfNotice(row, q) => q = r /\ \A i \in DOMAIN h.rows : ~OfNotice(h.rows[i], q)
  BY DEF OfNotice
<1>5. ASSUME NEW q \in Runs, NEW i \in DOMAIN store'.rows, NEW k \in DOMAIN store'.rows,
             OfNotice(store'.rows[i], q), OfNotice(store'.rows[k], q)
      PROVE  i = k
  <2>1. CASE i = n /\ k = n
    BY <2>1
  <2>2. CASE i = n /\ k \in DOMAIN h.rows
    BY <1>1, <1>4, <1>5, <2>2
  <2>3. CASE i \in DOMAIN h.rows /\ k = n
    BY <1>1, <1>4, <1>5, <2>3
  <2>4. CASE i \in DOMAIN h.rows /\ k \in DOMAIN h.rows
    BY <1>1, <1>5, <2>4
  <2> QED BY <1>1, <1>2, <2>1, <2>2, <2>3, <2>4
<1>6. StoreTyped'
  BY <1>3, <1>5 DEF StoreTyped
<1> QED BY <1>1, <1>2, <1>6 DEF Appended

(* A notice written: the transcript has it, and loses no newer one.        *)
LEMMA NoticeWritten ==
  ASSUME StoreTyped, NEW n \in Notices,
         store' = AppendNotice(store, TeamOf[n.routine], n.routine, n, 0)[2]
  PROVE  /\ StoreTyped'
         /\ \A q \in Runs, v \in Nat : Holds(store, q, v) => Holds(store', q, v)
         /\ \/ AppendNotice(store, TeamOf[n.routine], n.routine, n, 0)[1] = "conflict"
            \/ Holds(store', n.routine, n.version)
<1> DEFINE r == n.routine
           there == At(store, TeamOf[r], r, "routine")
           W == WriteNotice(store, TeamOf[r], r, n, 0)
<1>1. n.routine \in Runs /\ n.version \in Nat /\ n.outcome \in StoredOutcomes
  BY DEF Notices, Outcomes, StoredOutcomes
<1>2. AppendNotice(store, TeamOf[r], r, n, 0) = W
  BY <1>1 DEF AppendNotice
<1>3. CASE there # <<>> /\ there[1].body.version >= n.version
  <2>1. PICK i \in DOMAIN store.rows : OfNotice(store.rows[i], r) /\ there[1] = store.rows[i]
    BY <1>1, <1>3, NoticeRow
  <2>2. store.rows[i].body \in Notices
    BY <2>1 DEF StoreTyped, OfNotice
  <2>3. there[1].body.version \in Nat
    BY <2>1, <2>2 DEF Notices
  <2> HIDE DEF there
  <2>4. there[1].body.version > n.version \/ there[1].body.version = n.version
    BY <1>1, <1>3, <2>3
  <2>5. CASE there[1].body.version > n.version
    <3>1. ~(there[1].body.version = n.version) /\ ~(there[1].body.version < n.version)
      BY <1>1, <2>3, <2>5
    <3>2. W[2] = store
      BY <1>3, <2>5, <3>1 DEF WriteNotice, there, r
    <3> HIDE DEF W
    <3>3. Holds(store, r, n.version)
      BY <1>3, <2>1 DEF Holds
    <3> QED BY <1>2, <3>2, <3>3 DEF StoreTyped, r
  <2>6. CASE there[1].body.version = n.version
    <3>1. ~(there[1].body.version > n.version) /\ ~(there[1].body.version < n.version)
      BY <1>1, <2>3, <2>6
    <3>2. W[2] = store
      BY <1>3, <2>6, <3>1 DEF WriteNotice, there, r
    <3> HIDE DEF W
    <3>3. Holds(store, r, n.version)
      BY <1>3, <2>1 DEF Holds
    <3> QED BY <1>2, <3>2, <3>3 DEF StoreTyped, r
  <2> QED BY <2>4, <2>5, <2>6
<1>4. CASE ~(there # <<>> /\ there[1].body.version >= n.version)
  <2> DEFINE g == Without(store, TeamOf[r], r)
             row == [Row(TeamOf[r], r, "routine", n, "plain", 0) EXCEPT !.pos = g.last + 1]
  <2>1. there # <<>> => ~(there[1].body.version > n.version) /\ ~(there[1].body.version = n.version)
                        /\ there[1].body.version < n.version
    <3> SUFFICES ASSUME there # <<>> PROVE there[1].body.version \in Nat
      BY <1>1, <1>4
    <3>1. PICK i \in DOMAIN store.rows : OfNotice(store.rows[i], r) /\ there[1] = store.rows[i]
      BY <1>1, NoticeRow
    <3>2. store.rows[i].body \in Notices
      BY <3>1 DEF StoreTyped, OfNotice
    <3> QED BY <3>1, <3>2 DEF Notices
  <2>2. W[2] = Insert(g, Row(TeamOf[r], r, "routine", n, "plain", 0))
    <3> HIDE DEF g
    <3>1. W[2] = Insert(Without(store, TeamOf[r], r), Row(TeamOf[r], r, "routine", n, "plain", 0))
      <4>1. CASE there = <<>>
        BY <4>1 DEF WriteNotice
      <4>2. CASE there # <<>>
        BY <2>1, <4>2 DEF WriteNotice
      <4> QED BY <4>1, <4>2
    <3> QED BY <3>1 DEF g
  <2>3. /\ g \in [rows : Seq(RowRecs), last : Nat, bound : {<<>>}] /\ g.last = store.last
        /\ \A i \in DOMAIN g.rows : ~OfNotice(g.rows[i], r) /\ \E k \in DOMAIN store.rows : g.rows[i] = store.rows[k]
        /\ \A q \in Runs : \A i, k \in DOMAIN g.rows : OfNotice(g.rows[i], q) /\ OfNotice(g.rows[k], q) => i = k
        /\ \A i \in DOMAIN store.rows : ~OfNotice(store.rows[i], r) => \E k \in DOMAIN g.rows : g.rows[k] = store.rows[i]
    BY <1>1, WithoutIs
  <2> HIDE DEF g, W, there
  <2>4. n \in Bodies
    BY DEF Bodies
  <2>5. /\ store' \in [rows : Seq(RowRecs), last : Nat, bound : {<<>>}] /\ store'.rows = Append(g.rows, row)
        /\ row \in RowRecs /\ row.team = TeamOf[r] /\ row.turn = r /\ row.suffix = "routine" /\ row.body = n
    BY <1>1, <1>2, <2>2, <2>3, <2>4, Inserted, SMTT(20)
  <2> HIDE DEF row
  <2>6. \A i \in DOMAIN g.rows : g.rows[i].suffix = "routine" => g.rows[i].body \in Notices
    BY <2>3 DEF StoreTyped
  <2>7. /\ StoreTyped'
        /\ \A i \in DOMAIN g.rows : \E k \in DOMAIN store'.rows : store'.rows[k] = g.rows[i]
        /\ \E k \in DOMAIN store'.rows : store'.rows[k] = row
    <3> HIDE DEF r
    <3>1. row.turn = r /\ row.body \in Notices /\ r \in Runs /\ \A i \in DOMAIN g.rows : ~OfNotice(g.rows[i], r)
      BY <1>1, <2>3, <2>5 DEF r
    <3>2. \A q \in Runs : \A i, k \in DOMAIN g.rows : OfNotice(g.rows[i], q) /\ OfNotice(g.rows[k], q) => i = k
      BY <2>3
    <3>3. Appended(g, row)
      BY <2>3, <2>5, <2>6, <3>1, <3>2, Ends
    <3> QED BY <3>3 DEF Appended
  <2>8. Holds(store', r, n.version)
    <3>1. PICK k \in DOMAIN store'.rows : store'.rows[k] = row
      BY <2>7
    <3>2. OfNotice(row, r) /\ row.body.version >= n.version
      BY <1>1, <2>5 DEF OfNotice
    <3> HIDE DEF r
    <3> QED BY <3>1, <3>2 DEF Holds
  <2>9. ASSUME NEW q \in Runs, NEW v \in Nat, Holds(store, q, v) PROVE Holds(store', q, v)
    <3>1. PICK i \in DOMAIN store.rows : OfNotice(store.rows[i], q) /\ store.rows[i].body.version >= v
      BY <2>9 DEF Holds
    <3>2. CASE q # r
      <4>1. ~OfNotice(store.rows[i], r)
        BY <3>1, <3>2 DEF OfNotice
      <4>2. PICK k \in DOMAIN g.rows : g.rows[k] = store.rows[i]
        BY <2>3, <4>1
      <4> QED BY <2>7, <3>1, <4>2 DEF Holds
    <3>3. CASE q = r
      <4>1. there # <<>> /\ \E k \in DOMAIN store.rows : OfNotice(store.rows[k], r) /\ there[1] = store.rows[k]
        BY <1>1, <3>1, <3>3, NoticeRow DEF there
      <4>2. there[1] = store.rows[i]
        BY <1>1, <3>1, <3>3, <4>1 DEF StoreTyped
      <4>3. store.rows[i].body \in Notices
        BY <3>1 DEF StoreTyped, OfNotice
      <4>4. store.rows[i].body.version \in Nat
        BY <4>3 DEF Notices
      <4>5. n.version >= v
        BY <1>1, <2>1, <3>1, <4>1, <4>2, <4>4
      <4>6. PICK k \in DOMAIN store'.rows : store'.rows[k] = row
        BY <2>7
      <4>7. OfNotice(row, q) /\ row.body.version >= v
        BY <2>5, <3>3, <4>5 DEF OfNotice
      <4> HIDE DEF r
      <4> QED BY <4>6, <4>7 DEF Holds
    <3> QED BY <3>2, <3>3
  <2> QED BY <2>7, <2>8, <2>9
<1> QED BY <1>3, <1>4

(* The answer of a card leaves the notices alone.                          *)
LEMMA AnswerWritten ==
  ASSUME StoreTyped, NEW r \in Runs, NEW op \in {"confirm", "revoke"},
         store' = AppendAnswer(store, TeamOf[r], r, [kind |-> op], 0)[2]
  PROVE  StoreTyped' /\ \A q \in Runs, v \in Nat : Holds(store, q, v) => Holds(store', q, v)
<1> DEFINE row == [Row(TeamOf[r], r, "answer", [kind |-> op], "plain", 0) EXCEPT !.pos = store.last + 1]
<1>1. store' = store \/ store' = Insert(store, Row(TeamOf[r], r, "answer", [kind |-> op], "plain", 0))
  BY DEF AppendAnswer
<1>2. CASE store' = store
  BY <1>2 DEF StoreTyped
<1>3. CASE store' = Insert(store, Row(TeamOf[r], r, "answer", [kind |-> op], "plain", 0))
  <2>1. [kind |-> op] \in Bodies
    BY DEF Bodies
  <2>2. store \in [rows : Seq(RowRecs), last : Nat, bound : {<<>>}]
    BY DEF StoreTyped
  <2>3. /\ store' \in [rows : Seq(RowRecs), last : Nat, bound : {<<>>}] /\ store'.rows = Append(store.rows, row)
        /\ row \in RowRecs /\ row.team = TeamOf[r] /\ row.turn = r /\ row.suffix = "answer"
    <3> DEFINE body == [kind |-> op]
    <3> HIDE DEF body
    <3>1. body \in Bodies /\ store' = Insert(store, Row(TeamOf[r], r, "answer", body, "plain", 0))
      BY <1>3, <2>1 DEF body
    <3>2. /\ store' \in [rows : Seq(RowRecs), last : Nat, bound : {<<>>}]
          /\ store'.rows = Append(store.rows, [Row(TeamOf[r], r, "answer", body, "plain", 0) EXCEPT !.pos = store.last + 1])
          /\ [Row(TeamOf[r], r, "answer", body, "plain", 0) EXCEPT !.pos = store.last + 1] \in RowRecs
          /\ [Row(TeamOf[r], r, "answer", body, "plain", 0) EXCEPT !.pos = store.last + 1].team = TeamOf[r]
          /\ [Row(TeamOf[r], r, "answer", body, "plain", 0) EXCEPT !.pos = store.last + 1].turn = r
          /\ [Row(TeamOf[r], r, "answer", body, "plain", 0) EXCEPT !.pos = store.last + 1].suffix = "answer"
      BY <2>2, <3>1, Inserted
    <3> QED BY <3>2 DEF body
  <2> HIDE DEF row
  <2>4. /\ \A i \in DOMAIN store.rows : store.rows[i].suffix = "routine" => store.rows[i].body \in Notices
        /\ \A q \in Runs : \A i, k \in DOMAIN store.rows : OfNotice(store.rows[i], q) /\ OfNotice(store.rows[k], q) => i = k
    BY DEF StoreTyped
  <2>5. row.suffix # "routine"
    BY <2>3
  <2>6. Appended(store, row)
    BY <2>2, <2>3, <2>4, <2>5, Ends
  <2>7. StoreTyped' /\ \A i \in DOMAIN store.rows : \E k \in DOMAIN store'.rows : store'.rows[k] = store.rows[i]
    BY <2>6 DEF Appended
  <2> QED BY <2>7 DEF Holds
<1> QED BY <1>1, <1>2, <1>3

(* Only an acknowledgment moves what Team need not give again.             *)
LEMMA AckedStays ==
  ASSUME Typed, Next, ~Acknowledge, ~AcknowledgeLost
  PROVE  team'.acked = team.acked
<1>0. team \in TeamRecs
  BY DEF Typed
<1>1. ASSUME Reserve \/ LongUnasked PROVE team'.acked = team.acked
  <2>1. team' = team \/ \E r \in Runs : team' = [team EXCEPT !.status[r] = "leased"]
    BY <1>1, RoutinesAssumption DEF Reserve, LongUnasked
  <2> QED BY <1>0, <2>1 DEF TeamRecs
<1>2. ASSUME NEW i \in DOMAIN workers, NEW s \in {"done", "held", "frozen", "frozen-integration"}, Segment(i, s)
      PROVE  team'.acked = team.acked
  <2>1. workers[i] \in Segments
    BY DEF Typed
  <2>2. workers[i].run \in Runs /\ team' = Stands(team, workers[i].run, s)
    BY <1>2, <2>1 DEF Segment, Segments
  <2>3. StoodAs(team, Stands(team, workers[i].run, s), workers[i].run, s)
    BY <1>0, <2>2, StandsIs
  <2> QED BY <2>2, <2>3 DEF StoodAs
<1>3. ASSUME NEW r \in Runs, LeaseEnds(r) \/ Comes(r) PROVE team'.acked = team.acked
  <2>1. team' = [team EXCEPT !.status[r] = "due"]
    BY <1>3 DEF LeaseEnds, Comes
  <2> QED BY <1>0, <2>1 DEF TeamRecs
<1>4. ASSUME NEW c \in Calls, OpenAsks(c) PROVE team'.acked = team.acked
  <2> DEFINE r == call[c].run
             u == [team EXCEPT !.challenge[TeamOf[r]] = [run |-> r, id |-> team.minted + 1], !.minted = @ + 1]
  <2>1. r \in Runs /\ (team' = team \/ team' = u)
    BY <1>4, OpenAsksIs
  <2>2. u.acked = team.acked
    <3> HIDE DEF r
    <3> QED BY <1>0, <2>1, MintedIs
  <2> HIDE DEF u
  <2> QED BY <2>1, <2>2
<1>5. ASSUME NEW c \in Calls, NEW s \in {"done", "held"}, ResumeAsks(c, s) PROVE team'.acked = team.acked
  <2>1. CASE team' = team
    BY <2>1
  <2>2. CASE team' # team
    <3>1. PICK z \in {"done", "held", "denied"} :
            team' = [Stands(team, call[c].run, z) EXCEPT !.challenge[TeamOf[call[c].run]] = [run |-> NoRun, id |-> 0]]
      BY <1>5, <2>2, ResumeIs
    <3> DEFINE u == Stands(team, call[c].run, z)
    <3>2. call[c].run \in Runs
      BY <1>5, ResumeIs
    <3>3. u \in TeamRecs /\ u.acked = team.acked
      <4>1. StoodAs(team, Stands(team, call[c].run, z), call[c].run, z)
        BY <1>0, <3>2, StandsIs
      <4> QED BY <4>1 DEF StoodAs
    <3> HIDE DEF u
    <3>4. [u EXCEPT !.challenge[TeamOf[call[c].run]] = [run |-> NoRun, id |-> 0]].acked = u.acked
      BY <3>3, ClearedIs
    <3> QED BY <3>1, <3>3, <3>4 DEF u
  <2> QED BY <2>1, <2>2
<1>6. ASSUME NEW c \in Calls, Person(c) PROVE team'.acked = team.acked
  <2>1. ASSUME NEW r \in Runs,
               \/ RoutinesPause(c, r) \/ RoutinesResume(c, r) \/ RoutinesDelete(c, r)
               \/ RoutinesCardAnswer(c, r) \/ RoutinesProposalConfirm(c, r) \/ RoutinesProposalRevoke(c, r)
        PROVE  team'.acked = team.acked
    <3>1. team' \in {Paused(team, r), Resumed(team, r), Deleted(team, r), CardAnswered(team, r), Confirmed(team, r), Revoked(team, r)}
      BY <2>1 DEF RoutinesPause, RoutinesResume, RoutinesDelete, RoutinesCardAnswer, RoutinesProposalConfirm, RoutinesProposalRevoke, Change
    <3> QED BY <1>0, <3>1, ChangeIs
  <2>2. ASSUME NEW r \in Runs, OpenChallenge(c, r) \/ Integrations(c, r) \/ \E id \in 1..2 : Answer(c, r, id)
        PROVE  team'.acked = team.acked
    BY <2>2 DEF OpenChallenge, Integrations, Answer
  <2> QED BY <1>6, <2>1, <2>2 DEF Person
<1>7. ASSUME NEW c \in Calls,
             \/ OpenLocked(c) \/ OpenTimesOut(c) \/ OpenTold(c) \/ Refused(c) \/ Settled(c) \/ OpenLost(c) \/ SettledInvalid(c)
             \/ \E live \in BOOLEAN : Rejected(c, live)
             \/ \E current, denied \in BOOLEAN : Authenticated(c, current, denied)
      PROVE  team' = team
  BY <1>7 DEF OpenLocked, OpenTimesOut, OpenTold, Refused, Settled, OpenLost, SettledInvalid, Rejected, Authenticated
<1>8. ASSUME \/ Tick \/ Fetch \/ Write \/ StartRuns \/ Claimed \/ IdentityFails \/ ClaimFails \/ Expire \/ Crash
             \/ (\E at \in {"fetch", "write", "ack"} : DeliveryFails(at)) \/ \E i \in DOMAIN workers : RunClaimed(i)
      PROVE  team' = team
  BY <1>8 DEF Tick, Fetch, Write, StartRuns, Claimed, IdentityFails, ClaimFails, Expire, Crash, DeliveryFails, RunClaimed
<1> QED BY <1>1, <1>2, <1>3, <1>4, <1>5, <1>6, <1>7, <1>8 DEF Next, Scheduling, Failing, TeamActs, CallGoesOn

(* Only the scheduler's write and a card's answer change the transcripts.  *)
LEMMA StoreStays ==
  ASSUME Next, ~Write, \A c \in Calls : ~Settled(c)
  PROVE  store' = store
<1>1. ASSUME NEW c \in Calls, Person(c) PROVE store' = store
  BY <1>1 DEF Person, OpenChallenge, Integrations, Answer, RoutinesPause, RoutinesResume, RoutinesDelete,
              RoutinesCardAnswer, RoutinesProposalConfirm, RoutinesProposalRevoke, Change
<1>2. ASSUME NEW c \in Calls, CallGoesOn(c) \/ OpenLost(c) \/ SettledInvalid(c) PROVE store' = store
  BY <1>2 DEF CallGoesOn, OpenLocked, OpenTimesOut, OpenAsks, OpenTold, Rejected, Refused, Authenticated, ResumeAsks,
              OpenLost, SettledInvalid
<1>3. OfScheduler => store' = store
  BY DEF OfScheduler, Scheduling, Tick, Fetch, Acknowledge, StartRuns, Reserve, Claimed, DeliveryFails,
         AcknowledgeLost, IdentityFails, LongUnasked, ClaimFails
<1>4. OfTeam => store' = store
  BY TeamMoves
<1>5. Expire \/ Crash => store' = store
  BY DEF Expire, Crash
<1> QED BY <1>1, <1>2, <1>3, <1>4, <1>5, NextIs DEF OfCall

(* What the scheduler has in hand to acknowledge stays, or it has nothing. *)
LEMMA AcksStay ==
  ASSUME Typed, Next, ~Write, ~Acknowledge
  PROVE  \/ sch'.at = sch.at /\ sch'.acks = sch.acks
         \/ sch'.at = "write" /\ sch'.acks = <<>>
         \/ sch'.at \notin {"write", "ack"}
<1>0. sch \in SchRecs
  BY SchFields
<1>1. OfCall => sch'.at = sch.at /\ sch'.acks = sch.acks
  BY <1>0, CallMoves DEF Wake, SchRecs
<1>2. Crash => sch'.at = "asleep"
  BY DEF Crash, NewScheduler
<1>3. TeamActs => sch' = sch
  BY DEF TeamActs, Segment, LeaseEnds, Comes
<1>4. ASSUME NEW i \in DOMAIN workers, RunClaimed(i) PROVE sch'.at = sch.at /\ sch'.acks = sch.acks
  BY <1>0, <1>4 DEF RunClaimed, Wake, SchRecs
<1>5. Fetch => sch'.at = "write" /\ sch'.acks = <<>>
  BY <1>0 DEF Fetch, SchRecs
<1>6. (Tick \/ AcknowledgeLost \/ Reserve \/ LongUnasked \/ \E at \in {"fetch", "write", "ack"} : DeliveryFails(at))
        => sch'.at \notin {"write", "ack"}
  BY <1>0 DEF Tick, AcknowledgeLost, Reserve, LongUnasked, DeliveryFails, SchRecs
<1>7. (StartRuns \/ IdentityFails) => sch'.at \notin {"write", "ack"}
  BY <1>0, RestIs DEF StartRuns, IdentityFails, SchRecs
<1>8. ClaimFails => sch'.at \notin {"write", "ack"}
  BY <1>0, RestIs DEF ClaimFails
<1>9. ASSUME Claimed PROVE sch'.at \notin {"write", "ack"}
  <2>1. CASE sch.answer = NoRun
    <3> DEFINE d == Dropped(sch)
    <3>1. d \in SchRecs /\ d.at = "asleep" /\ sch' = [d EXCEPT !.due = sch.hint]
      BY <1>0, <1>9, <2>1, SchKept, RestIs DEF Claimed
    <3> HIDE DEF d
    <3>2. sch'.at = d.at
      BY <3>1 DEF SchRecs
    <3> QED BY <3>1, <3>2
  <2>2. CASE sch.answer \in Long /\ ~sch.reserved /\ sch.answer # NoRun
    BY <1>0, <1>9, <2>2, RestIs DEF Claimed
  <2>3. CASE sch.answer # NoRun /\ ~(sch.answer \in Long /\ ~sch.reserved)
    <3> DEFINE l == IF sch.reserved /\ ~(sch.answer \in Long) THEN 1 ELSE sch.long
               back == [sch EXCEPT !.long = l, !.reserved = FALSE, !.answer = NoRun]
    <3>1. sch' = IF sch.slots = 0 THEN Rest(back) ELSE [back EXCEPT !.at = "reserve", !.slots = @ - 1]
      BY <1>9, <2>3 DEF Claimed
    <3>2. l \in Nat
      BY SchFields
    <3> HIDE DEF l
    <3>3. back \in SchRecs
      BY <1>0, <3>2 DEF SchRecs
    <3> HIDE DEF back
    <3>4. Rest(back).at = "asleep" /\ [back EXCEPT !.at = "reserve", !.slots = @ - 1].at = "reserve"
      BY <3>3, RestIs DEF SchRecs
    <3> QED BY <3>1, <3>4
  <2> QED BY <2>1, <2>2, <2>3
<1> QED BY <1>1, <1>2, <1>3, <1>4, <1>5, <1>6, <1>7, <1>8, <1>9, NextIs DEF OfScheduler, Scheduling, OfTeam

LEMMA NoticedKept ==
  ASSUME Typed, StoreTyped, Noticed, Next
  PROVE  StoreTyped' /\ Noticed'
<1>0. sch \in SchRecs /\ Scheduler(sch) /\ team \in TeamRecs /\ team.acked \in [Runs -> Nat]
  BY SchFields DEF Typed, TeamRecs
<1>1. ASSUME Write PROVE StoreTyped' /\ Noticed'
  <2>0. /\ sch.at = "write" /\ sch.acks \in Seq(Notices) /\ sch.batch \in Seq(Notices) /\ team' = team
        /\ HeldAll(store, sch.acks) /\ \A i \in DOMAIN sch.acks : sch.acks[i] \in Notices
    BY <1>0, <1>1 DEF Write, Scheduler, SchRecs, Noticed
  <2>1. CASE sch.batch = <<>>
    <3>1. store' = store /\ sch' = IF sch.acks = <<>> THEN NextBatch(sch) ELSE [sch EXCEPT !.at = "ack", !.acks = Chunks(sch.acks)]
      BY <1>1, <2>1 DEF Write
    <3>2. StoreTyped'
      BY <3>1 DEF StoreTyped
    <3>3. CASE sch.acks = <<>>
      <4>1. sch'.at \notin {"write", "ack"}
        BY <1>0, <3>1, <3>3 DEF NextBatch, SchRecs
      <4> QED BY <2>0, <3>1, <3>2, <4>1 DEF Noticed
    <3>4. CASE sch.acks # <<>>
      <4> DEFINE ch == Chunks(sch.acks)
      <4>1. \A i \in DOMAIN ch : \A k \in DOMAIN ch[i] : \E j \in DOMAIN sch.acks : ch[i][k] = sch.acks[j]
        BY <2>0, ChunksIs
      <4>2. sch' = [sch EXCEPT !.at = "ack", !.acks = ch]
        BY <3>1, <3>4
      <4> HIDE DEF ch
      <4>3. sch'.at = "ack" /\ sch'.acks = ch
        BY <1>0, <4>2 DEF SchRecs
      <4>4. \A i \in DOMAIN ch : HeldAll(store, ch[i])
        BY <2>0, <4>1 DEF HeldAll
      <4> QED BY <2>0, <3>1, <3>2, <4>3, <4>4 DEF Noticed
    <3> QED BY <3>3, <3>4
  <2>2. CASE sch.batch # <<>>
    <3> DEFINE n == Head(sch.batch)
               w == AppendNotice(store, TeamOf[n.routine], n.routine, n, 0)
    <3>1. n \in Notices
      BY <2>0, <2>2
    <3>2. store' = w[2] /\ sch' = IF w[1] = "conflict" THEN [sch EXCEPT !.at = "start", !.batch = <<>>, !.acks = <<>>]
                                  ELSE [sch EXCEPT !.batch = Tail(@), !.acks = Append(@, n)]
      BY <1>1, <2>2 DEF Write
    <3> HIDE DEF n
    <3>3. /\ StoreTyped' /\ \A q \in Runs, v \in Nat : Holds(store, q, v) => Holds(store', q, v)
          /\ w[1] = "conflict" \/ Holds(store', n.routine, n.version)
      BY <3>1, <3>2, NoticeWritten
    <3> HIDE DEF w
    <3>4. \A r \in Runs : team'.acked[r] > 0 => Holds(store', r, team'.acked[r])
      BY <1>0, <2>0, <3>3 DEF Noticed
    <3>5. CASE w[1] = "conflict"
      <4>1. sch'.at = "start"
        BY <1>0, <3>2, <3>5 DEF SchRecs
      <4> QED BY <3>3, <3>4, <4>1 DEF Noticed
    <3>6. CASE w[1] # "conflict"
      <4>1. sch'.at = "write" /\ sch'.acks = Append(sch.acks, n)
        BY <1>0, <2>0, <3>2, <3>6 DEF SchRecs
      <4>2. ASSUME NEW i \in DOMAIN Append(sch.acks, n)
            PROVE  Holds(store', Append(sch.acks, n)[i].routine, Append(sch.acks, n)[i].version)
        <5>1. CASE i \in DOMAIN sch.acks
          <6>1. Append(sch.acks, n)[i] = sch.acks[i] /\ sch.acks[i] \in Notices
            BY <2>0, <5>1
          <6>2. sch.acks[i].routine \in Runs /\ sch.acks[i].version \in Nat
            BY <6>1 DEF Notices
          <6> QED BY <2>0, <3>3, <5>1, <6>1, <6>2 DEF HeldAll
        <5>2. CASE i \notin DOMAIN sch.acks
          <6>1. Append(sch.acks, n)[i] = n
            BY <2>0, <3>1, <4>2, <5>2
          <6> QED BY <3>3, <3>6, <6>1
        <5> QED BY <5>1, <5>2
      <4>3. HeldAll(store', sch'.acks)
        BY <4>1, <4>2 DEF HeldAll
      <4> QED BY <3>3, <3>4, <4>1, <4>3 DEF Noticed
    <3> QED BY <3>5, <3>6
  <2> QED BY <2>1, <2>2
<1>2. ASSUME Acknowledge \/ AcknowledgeLost PROVE StoreTyped' /\ Noticed'
  <2>1. /\ sch.at = "ack" /\ sch.acks \in Seq(Seq(Notices)) /\ sch.acks # <<>> /\ store' = store
        /\ team' = Acked(team, Head(sch.acks)) /\ \A i \in DOMAIN sch.acks : HeldAll(store, sch.acks[i])
    BY <1>0, <1>2 DEF Acknowledge, AcknowledgeLost, Scheduler, Noticed
  <2> DEFINE chunk == Head(sch.acks)
  <2>2. chunk \in Seq(Notices) /\ HeldAll(store, chunk)
    <3>1. 1 \in DOMAIN sch.acks /\ chunk = sch.acks[1]
      BY <2>1
    <3> QED BY <2>1, <3>1
  <2> HIDE DEF chunk
  <2>3. \A r \in Runs : \/ team'.acked[r] = team.acked[r]
                        \/ \E i \in DOMAIN chunk : chunk[i].routine = r /\ team'.acked[r] = chunk[i].version
    BY <1>0, <2>1, <2>2, AckedIs DEF chunk
  <2>4. \A r \in Runs : team'.acked[r] > 0 => Holds(store', r, team'.acked[r])
    BY <2>1, <2>2, <2>3 DEF Noticed, HeldAll
  <2>5. StoreTyped'
    BY <2>1 DEF StoreTyped
  <2>6. \/ sch'.at \notin {"write", "ack"}
        \/ sch'.at = "ack" /\ sch'.acks = Tail(sch.acks)
    BY <1>0, <1>2, <2>1 DEF Acknowledge, AcknowledgeLost, NextBatch, SchRecs
  <2>7. \A i \in DOMAIN Tail(sch.acks) : HeldAll(store, Tail(sch.acks)[i])
    <3>1. ASSUME NEW i \in DOMAIN Tail(sch.acks) PROVE \E k \in DOMAIN sch.acks : Tail(sch.acks)[i] = sch.acks[k]
      BY <2>1
    <3> QED BY <2>1, <3>1
  <2> QED BY <2>1, <2>4, <2>5, <2>6, <2>7 DEF Noticed
<1>3. ASSUME NEW c \in Calls, Settled(c) PROVE StoreTyped' /\ Noticed'
  <2>1. call[c].at = "settle" /\ Carries(call[c])
    BY <1>3 DEF Typed, Settled
  <2>2. call[c].run \in Runs
    BY <2>1 DEF Carries
  <2>3. \/ store' = store
        \/ \E op \in {"confirm", "revoke"} : store' = AppendAnswer(store, TeamOf[call[c].run], call[c].run, [kind |-> op], 0)[2]
    BY <1>3 DEF Settled
  <2>4. StoreTyped' /\ \A q \in Runs, v \in Nat : Holds(store, q, v) => Holds(store', q, v)
    <3>1. CASE store' = store
      BY <3>1 DEF StoreTyped
    <3>2. CASE store' # store
      BY <2>2, <2>3, <3>2, AnswerWritten
    <3> QED BY <3>1, <3>2
  <2>5. team' = team /\ sch'.at = sch.at /\ sch'.acks = sch.acks
    BY <1>0, <1>3 DEF Settled, Wake, SchRecs
  <2>6. \A r \in Runs : team'.acked[r] > 0 => Holds(store', r, team'.acked[r])
    BY <1>0, <2>4, <2>5 DEF Noticed
  <2>7. ASSUME NEW ns \in Seq(Notices), HeldAll(store, ns) PROVE HeldAll(store', ns)
    <3>1. \A i \in DOMAIN ns : ns[i] \in Notices
      OBVIOUS
    <3>2. \A i \in DOMAIN ns : ns[i].routine \in Runs /\ ns[i].version \in Nat
      BY <3>1 DEF Notices
    <3> QED BY <2>4, <2>7, <3>2 DEF HeldAll
  <2>8. sch.at = "write" => HeldAll(store', sch.acks)
    BY <1>0, <2>7 DEF Noticed, Scheduler
  <2>9. ASSUME sch.at = "ack", NEW i \in DOMAIN sch.acks PROVE HeldAll(store', sch.acks[i])
    <3>1. sch.acks[i] \in Seq(Notices) /\ HeldAll(store, sch.acks[i])
      BY <1>0, <2>9 DEF Noticed, Scheduler
    <3> QED BY <2>7, <3>1
  <2> QED BY <2>4, <2>5, <2>6, <2>8, <2>9 DEF Noticed
<1>4. ASSUME ~Write, ~Acknowledge, ~AcknowledgeLost, \A c \in Calls : ~Settled(c)
      PROVE  StoreTyped' /\ Noticed'
  <2>1. store' = store /\ team'.acked = team.acked
    BY <1>4, StoreStays, AckedStays
  <2>2. \/ sch'.at = sch.at /\ sch'.acks = sch.acks
        \/ sch'.at = "write" /\ sch'.acks = <<>>
        \/ sch'.at \notin {"write", "ack"}
    BY <1>4, AcksStay
  <2>3. HeldAll(store, <<>>)
    BY DEF HeldAll
  <2> QED BY <2>1, <2>2, <2>3 DEF Noticed, StoreTyped
<1> QED BY <1>1, <1>2, <1>3, <1>4

-----------------------------------------------------------------------------
(* The wakes.                                                              *)

(* How a run stands after a person's call.                                 *)
Turned(r) ==
  /\ team'.dispatch[r] = "on" => team.dispatch[r] = "on"
  /\ \/ team'.status[r] = team.status[r]
     \/ team'.status[r] \notin {"waiting", "due", "leased"}
     \/ team'.status[r] = "due" /\ \E c \in Calls : call'[c].at = "settle" /\ Wakes(call'[c].op)

LEMMA ChangeTurns ==
  ASSUME Typed, NEW c \in Calls, NEW r \in Runs,
         \/ RoutinesPause(c, r) \/ RoutinesResume(c, r) \/ RoutinesDelete(c, r)
         \/ RoutinesCardAnswer(c, r) \/ RoutinesProposalConfirm(c, r) \/ RoutinesProposalRevoke(c, r)
  PROVE  \A q \in Runs : Turned(q)
<1>0. /\ team \in TeamRecs /\ team.status \in [Runs -> Statuses] /\ team.dispatch \in [Runs -> {"on", "off", "back-on"}]
      /\ call \in [Calls -> CallRecs]
  BY DEF Typed, TeamRecs
<1>1. ASSUME RoutinesPause(c, r) \/ RoutinesResume(c, r) PROVE \A q \in Runs : Turned(q)
  <2>1. PICK d \in {"off", "back-on"} : team' = [team EXCEPT !.dispatch[r] = d]
    BY <1>1 DEF RoutinesPause, RoutinesResume, Change, Paused, Resumed
  <2>2. team'.status = team.status /\ team'.dispatch = [team.dispatch EXCEPT ![r] = d]
    BY <1>0, <2>1 DEF TeamRecs
  <2>3. \A q \in Runs : team'.dispatch[q] = "on" => team.dispatch[q] = "on"
    BY <1>0, <2>2
  <2> QED BY <2>2, <2>3 DEF Turned
<1>2. ASSUME NEW s \in Statuses, team' = [team EXCEPT !.status[r] = s],
             \/ s = team.status[r]
             \/ s \notin {"waiting", "due", "leased"}
             \/ s = "due" /\ \E e \in Calls : call'[e].at = "settle" /\ Wakes(call'[e].op)
      PROVE  \A q \in Runs : Turned(q)
  <2>1. \A q \in Runs : team'.status[q] = IF q = r THEN s ELSE team.status[q]
    BY <1>0, <1>2, StatusTyped
  <2>2. team'.dispatch = team.dispatch
    BY <1>0, <1>2 DEF TeamRecs
  <2> QED BY <1>2, <2>1, <2>2 DEF Turned
<1>3. ASSUME RoutinesDelete(c, r) PROVE \A q \in Runs : Turned(q)
  <2> DEFINE s == IF team.status[r] = "proposed" THEN team.status[r] ELSE "deleted"
  <2>1. team' = [team EXCEPT !.status[r] = s]
    BY <1>3 DEF RoutinesDelete, Change, Deleted
  <2>2. s \in Statuses /\ (s = team.status[r] \/ s \notin {"waiting", "due", "leased"})
    BY <1>0 DEF Statuses
  <2> HIDE DEF s
  <2> QED BY <1>2, <2>1, <2>2
<1>4. ASSUME RoutinesProposalRevoke(c, r) PROVE \A q \in Runs : Turned(q)
  <2> DEFINE s == IF team.status[r] = "proposed" THEN "revoked" ELSE team.status[r]
  <2>1. team' = [team EXCEPT !.status[r] = s]
    BY <1>4 DEF RoutinesProposalRevoke, Change, Revoked
  <2>2. s \in Statuses /\ (s = team.status[r] \/ s \notin {"waiting", "due", "leased"})
    BY <1>0 DEF Statuses
  <2> HIDE DEF s
  <2> QED BY <1>2, <2>1, <2>2
<1>5. ASSUME RoutinesCardAnswer(c, r) \/ RoutinesProposalConfirm(c, r) PROVE \A q \in Runs : Turned(q)
  <2>1. PICK s0 \in {"held", "proposed"}, op \in {"card-answer", "confirm"} :
          /\ team' = [team EXCEPT !.status[r] = IF team.status[r] = s0 THEN "due" ELSE team.status[r]]
          /\ call' = [call EXCEPT ![c] = IF team.status[r] = s0 THEN [Idle EXCEPT !.op = op, !.run = r, !.at = "settle"] ELSE Over]
    BY <1>5 DEF RoutinesCardAnswer, RoutinesProposalConfirm, Change, CardAnswered, Confirmed
  <2> DEFINE s == IF team.status[r] = s0 THEN "due" ELSE team.status[r]
  <2>2. CASE team.status[r] = s0
    <3>1. [Idle EXCEPT !.op = op, !.run = r, !.at = "settle"].at = "settle"
          /\ [Idle EXCEPT !.op = op, !.run = r, !.at = "settle"].op = op
      BY DEF Idle
    <3>2. call'[c].at = "settle" /\ call'[c].op = op
      BY <1>0, <2>1, <2>2, <3>1
    <3>3. \E e \in Calls : call'[e].at = "settle" /\ Wakes(call'[e].op)
      BY <3>2 DEF Wakes
    <3>4. s = "due" /\ s \in Statuses
      BY <2>2 DEF Statuses, StartStatuses
    <3>5. team' = [team EXCEPT !.status[r] = s]
      BY <2>1
    <3> HIDE DEF s
    <3> QED BY <1>2, <3>3, <3>4, <3>5
  <2>3. CASE team.status[r] # s0
    <3>1. s = team.status[r] /\ s \in Statuses /\ team' = [team EXCEPT !.status[r] = s]
      BY <1>0, <2>1, <2>3
    <3> HIDE DEF s
    <3> QED BY <1>2, <3>1
  <2> QED BY <2>2, <2>3
<1> QED BY <1>1, <1>3, <1>4, <1>5

LEMMA CallTurns ==
  ASSUME Typed, OfCall
  PROVE  \A r \in Runs : Turned(r)
<1>0. team \in TeamRecs /\ team.status \in [Runs -> Statuses]
  BY DEF Typed, TeamRecs
<1>1. ASSUME NEW c \in Calls, NEW r \in Runs,
             \/ RoutinesPause(c, r) \/ RoutinesResume(c, r) \/ RoutinesDelete(c, r)
             \/ RoutinesCardAnswer(c, r) \/ RoutinesProposalConfirm(c, r) \/ RoutinesProposalRevoke(c, r)
      PROVE  \A q \in Runs : Turned(q)
  BY <1>1, ChangeTurns
<1>2. ASSUME team'.status = team.status, team'.dispatch = team.dispatch PROVE \A q \in Runs : Turned(q)
  BY <1>2 DEF Turned
<1>3. ASSUME NEW c \in Calls,
             \/ OpenLocked(c) \/ OpenTimesOut(c) \/ OpenTold(c) \/ Refused(c) \/ Settled(c) \/ OpenLost(c) \/ SettledInvalid(c)
             \/ \E live \in BOOLEAN : Rejected(c, live)
             \/ \E current, denied \in BOOLEAN : Authenticated(c, current, denied)
             \/ \E r \in Runs : OpenChallenge(c, r) \/ Integrations(c, r)
             \/ \E r \in Runs, id \in 1..2 : Answer(c, r, id)
      PROVE  \A q \in Runs : Turned(q)
  BY <1>2, <1>3 DEF OpenLocked, OpenTimesOut, OpenTold, Refused, Settled, OpenLost, SettledInvalid, Rejected, Authenticated,
                    OpenChallenge, Integrations, Answer
<1>4. ASSUME NEW c \in Calls, OpenAsks(c) PROVE \A q \in Runs : Turned(q)
  <2> DEFINE r == call[c].run
             u == [team EXCEPT !.challenge[TeamOf[r]] = [run |-> r, id |-> team.minted + 1], !.minted = @ + 1]
  <2>1. r \in Runs /\ (team' = team \/ team' = u)
    BY <1>4, OpenAsksIs
  <2>2. u.status = team.status /\ u.dispatch = team.dispatch
    <3> HIDE DEF r
    <3> QED BY <1>0, <2>1, MintedIs
  <2> HIDE DEF u
  <2> QED BY <1>2, <2>1, <2>2
<1>5. ASSUME NEW c \in Calls, NEW s \in {"done", "held"}, ResumeAsks(c, s) PROVE \A q \in Runs : Turned(q)
  <2>1. CASE team' = team
    BY <1>2, <2>1
  <2>2. CASE team' # team
    <3>1. PICK z \in {"done", "held", "denied"} :
            team' = [Stands(team, call[c].run, z) EXCEPT !.challenge[TeamOf[call[c].run]] = [run |-> NoRun, id |-> 0]]
      BY <1>5, <2>2, ResumeIs
    <3> DEFINE u == Stands(team, call[c].run, z)
    <3>2. call[c].run \in Runs
      BY <1>5, ResumeIs
    <3>3. StoodAs(team, u, call[c].run, z)
      BY <1>0, <3>2, StandsIs
    <3> HIDE DEF u
    <3>4. u \in TeamRecs /\ u.dispatch = team.dispatch /\ \A q \in Runs : u.status[q] = IF q = call[c].run THEN z ELSE team.status[q]
      BY <3>3 DEF StoodAs
    <3>5. team' = [u EXCEPT !.challenge[TeamOf[call[c].run]] = [run |-> NoRun, id |-> 0]]
      BY <3>1 DEF u
    <3>6. team'.status = u.status /\ team'.dispatch = u.dispatch
      BY <3>4, <3>5, ClearedIs
    <3>7. \A q \in Runs : team'.dispatch[q] = team.dispatch[q] /\ (team'.status[q] = team.status[q] \/ team'.status[q] = z)
      BY <3>4, <3>6
    <3>8. z \notin {"waiting", "due", "leased"}
      OBVIOUS
    <3> QED BY <3>7, <3>8 DEF Turned
  <2> QED BY <2>1, <2>2
<1>6. Expire => \A q \in Runs : Turned(q)
  BY <1>2 DEF Expire
<1> QED BY <1>1, <1>3, <1>4, <1>5, <1>6 DEF OfCall, Person, CallGoesOn

(* A call that is to wake the scheduler does, unless its answer is lost.   *)
LEMMA CallWakes ==
  ASSUME Typed, OfCall, faults' = faults, NEW d \in Calls, call[d].at = "settle", Wakes(call[d].op)
  PROVE  call'[d] = call[d] \/ sch' = Wake(sch)
<1>0. call \in [Calls -> CallRecs] /\ faults \in Nat
  BY DEF Typed
<1>1. ASSUME NEW c \in Calls, Person(c) PROVE call[c].at = "idle" /\ \E x : call' = [call EXCEPT ![c] = x]
  BY <1>1 DEF Person, OpenChallenge, Integrations, Answer, RoutinesPause, RoutinesResume, RoutinesDelete,
              RoutinesCardAnswer, RoutinesProposalConfirm, RoutinesProposalRevoke, Change, Begins
<1>2. ASSUME NEW c \in Calls, CallGoesOn(c), ~Settled(c) PROVE call[c].at # "settle" /\ \E x : call' = [call EXCEPT ![c] = x]
  <2>1. CASE OpenAsks(c)
    BY <2>1, OpenAsksIs
  <2>2. CASE \E s \in {"done", "held"} : ResumeAsks(c, s)
    BY <2>2, ResumeIs DEF ResumeAsks
  <2>3. CASE ~OpenAsks(c) /\ ~\E s \in {"done", "held"} : ResumeAsks(c, s)
    BY <1>2, <2>3 DEF CallGoesOn, OpenLocked, OpenTimesOut, OpenTold, Rejected, Refused, Authenticated
  <2> QED BY <2>1, <2>2, <2>3
<1>3. ASSUME NEW c \in Calls, Settled(c) PROVE call'[d] = call[d] \/ sch' = Wake(sch)
  <2>1. CASE d = c
    BY <1>3, <2>1 DEF Settled
  <2>2. CASE d # c
    BY <1>0, <1>3, <2>2 DEF Settled
  <2> QED BY <2>1, <2>2
<1>4. ASSUME NEW c \in Calls PROVE ~OpenLost(c) /\ ~SettledInvalid(c)
  BY <1>0 DEF OpenLost, SettledInvalid
<1>5. Expire => call' = call
  BY DEF Expire
<1>6. ASSUME NEW c \in Calls, call[c].at # "settle", NEW x, call' = [call EXCEPT ![c] = x] PROVE call'[d] = call[d]
  BY <1>0, <1>6
<1> QED BY <1>1, <1>2, <1>3, <1>4, <1>5, <1>6 DEF OfCall

(* Without a failure, what Wakeful says.                                   *)
Awake ==
  /\ \A r \in Runs : (Ready(r) => Heard) /\ (team.status[r] = "leased" => Leased(r))
  /\ sch.at = "claimed" /\ sch.answer \in Long => sch.reserved

LEMMA AwakeOfCall ==
  ASSUME Typed, Awake, OfCall, faults' = faults
  PROVE  Awake'
<1>0. sch \in SchRecs
  BY SchFields
<1>1. workers' = workers /\ (sch' = sch \/ sch' = Wake(sch))
  BY CallMoves
<1>2. /\ sch'.at = sch.at /\ sch'.answer = sch.answer /\ sch'.reserved = sch.reserved /\ sch'.long = sch.long
      /\ sch'.slots = sch.slots /\ sch'.hint = sch.hint
      /\ sch' = Wake(sch) => sch'.woken = TRUE
  BY <1>0, <1>1 DEF Wake, SchRecs
<1>3. Heard => Heard'
  <2>1. CASE sch' = Wake(sch)
    BY <1>2, <2>1 DEF Heard
  <2>2. CASE sch' = sch /\ sch' # Wake(sch)
    <3>1. ASSUME NEW c \in Calls, call[c].at = "settle", Wakes(call[c].op) PROVE call'[c].at = "settle" /\ Wakes(call'[c].op)
      BY <2>2, <3>1, CallWakes
    <3> QED BY <2>2, <3>1 DEF Heard
  <2> QED BY <1>1, <2>1, <2>2
<1>4. ASSUME NEW r \in Runs PROVE (Ready(r)' => Heard') /\ (team'.status[r] = "leased" => Leased(r)')
  <2>1. Turned(r)
    BY CallTurns
  <2>2. team'.status[r] = "leased" => team.status[r] = "leased"
    BY <2>1 DEF Turned
  <2>3. Leased(r) => Leased(r)'
    BY <1>1, <1>2 DEF Leased
  <2>4. Ready(r)' => Heard' \/ Ready(r)
    BY <1>2, <2>1 DEF Turned, Ready, Heard
  <2> QED BY <1>3, <2>2, <2>3, <2>4 DEF Awake
<1> QED BY <1>2, <1>4 DEF Awake

LEMMA AwakeOfTeam ==
  ASSUME Typed, Awake, OfTeam, faults' = faults
  PROVE  Awake'
<1>0. /\ sch \in SchRecs /\ workers \in Seq(Segments) /\ team \in TeamRecs /\ team.status \in [Runs -> Statuses]
      /\ faults \in Nat /\ DOMAIN workers = 1..Len(workers) /\ Len(workers) \in Nat
  BY SchFields DEF Typed, TeamRecs
<1>1. ASSUME NEW i \in DOMAIN workers, NEW s \in {"done", "held", "frozen", "frozen-integration"}, Segment(i, s)
      PROVE  Awake'
  <2> DEFINE r == workers[i].run
  <2>1. workers[i] \in Segments
    BY <1>0
  <2>2. r \in Runs /\ ~workers[i].stood /\ team' = Stands(team, r, s) /\ sch' = sch /\ call' = call
        /\ workers' = [workers EXCEPT ![i] = [workers[i] EXCEPT !.stood = TRUE]]
    BY <1>1, <2>1 DEF Segment, Segments
  <2>3. StoodAs(team, Stands(team, r, s), r, s)
    <3> HIDE DEF r
    <3> QED BY <1>0, <2>2, StandsIs
  <2>4. team'.dispatch = team.dispatch /\ \A q \in Runs : team'.status[q] = IF q = r THEN s ELSE team.status[q]
    <3> HIDE DEF r
    <3> QED BY <2>2, <2>3 DEF StoodAs
  <2>5. DOMAIN workers' = DOMAIN workers /\ \A k \in DOMAIN workers : k # i => workers'[k] = workers[k]
    BY <1>0, <2>2
  <2>6. s \notin {"waiting", "due", "leased"}
    OBVIOUS
  <2>7. ASSUME NEW q \in Runs PROVE (Ready(q)' => Heard') /\ (team'.status[q] = "leased" => Leased(q)')
    <3>1. Ready(q)' => Ready(q)
      BY <2>2, <2>4, <2>6 DEF Ready
    <3>2. Heard => Heard'
      BY <2>2 DEF Heard
    <3>3. ASSUME team'.status[q] = "leased" PROVE Leased(q)'
      <4>1. q # r /\ team.status[q] = "leased"
        BY <2>4, <2>6, <3>3
      <4>2. Leased(q)
        BY <4>1 DEF Awake
      <4>3. CASE sch.at = "claimed" /\ sch.answer = q
        BY <2>2, <4>3 DEF Leased
      <4>4. ASSUME NEW k \in DOMAIN workers, workers[k].run = q, ~workers[k].stood PROVE Leased(q)'
        <5>1. k # i
          BY <4>1, <4>4
        <5> QED BY <2>5, <4>4, <5>1 DEF Leased
      <4> QED BY <4>2, <4>3, <4>4 DEF Leased
    <3> QED BY <3>1, <3>2, <3>3 DEF Awake
  <2> QED BY <2>2, <2>7 DEF Awake
<1>2. ASSUME NEW r \in Runs, LeaseEnds(r) PROVE FALSE
  <2>1. Leased(r)
    BY <1>2 DEF LeaseEnds, Awake
  <2> QED BY <1>2, <2>1 DEF LeaseEnds, Leased
<1>3. ASSUME NEW r \in Runs, Comes(r) PROVE Awake'
  <2>1. /\ team.status[r] = "waiting" /\ team' = [team EXCEPT !.status[r] = "due"] /\ sch' = sch /\ workers' = workers
        /\ call' = call
    BY <1>3 DEF Comes
  <2>2. "due" \in Statuses
    BY DEF Statuses, StartStatuses
  <2>3. \A q \in Runs : team'.status[q] = IF q = r THEN "due" ELSE team.status[q]
    BY <1>0, <2>1, <2>2, StatusTyped
  <2>4. team'.dispatch = team.dispatch
    BY <1>0, <2>1 DEF TeamRecs
  <2>5. ASSUME NEW q \in Runs PROVE (Ready(q)' => Ready(q)) /\ (team'.status[q] = "leased" => team.status[q] = "leased")
    BY <2>1, <2>3, <2>4 DEF Ready
  <2>6. (Heard => Heard') /\ \A q \in Runs : Leased(q) => Leased(q)'
    BY <2>1 DEF Heard, Leased
  <2> QED BY <2>1, <2>5, <2>6 DEF Awake
<1>4. ASSUME NEW i \in DOMAIN workers, RunClaimed(i) PROVE Awake'
  <2> DEFINE v == RemoveAt(workers, i)
             l == IF workers[i].long THEN 1 ELSE sch.long
  <2>1. workers[i].stood /\ team' = team /\ workers' = v /\ sch' = Wake([sch EXCEPT !.slots = @ + 1, !.long = l])
    BY <1>0, <1>4 DEF RunClaimed
  <2>2. \A k \in DOMAIN workers : k # i => \E j \in DOMAIN v : v[j] = workers[k]
    BY <1>0, Removed
  <2> HIDE DEF v, l
  <2>3. sch'.woken = TRUE /\ sch'.at = sch.at /\ sch'.answer = sch.answer /\ sch'.reserved = sch.reserved
    BY <1>0, <2>1 DEF Wake, SchRecs
  <2>4. Heard'
    BY <2>3 DEF Heard
  <2>5. ASSUME NEW q \in Runs, Leased(q) PROVE Leased(q)'
    <3>1. CASE sch.at = "claimed" /\ sch.answer = q
      BY <2>3, <3>1 DEF Leased
    <3>2. ASSUME NEW k \in DOMAIN workers, workers[k].run = q, ~workers[k].stood PROVE Leased(q)'
      <4>1. k # i
        BY <2>1, <3>2
      <4>2. PICK j \in DOMAIN v : v[j] = workers[k]
        BY <2>2, <4>1
      <4> QED BY <2>1, <3>2, <4>2 DEF Leased
    <3> QED BY <2>5, <3>1, <3>2 DEF Leased
  <2> QED BY <2>1, <2>3, <2>4, <2>5 DEF Awake
<1> QED BY <1>1, <1>2, <1>3, <1>4 DEF OfTeam, TeamActs

LEMMA AwakeOfClaim ==
  ASSUME Typed, Books, Awake, Reserve \/ Claimed
  PROVE  Awake'
<1>0. /\ sch \in SchRecs /\ workers \in Seq(Segments) /\ team \in TeamRecs /\ team.status \in [Runs -> Statuses]
      /\ sch.slots \in Nat /\ sch.long \in Nat /\ sch.answer \in Runs \cup {NoRun} /\ NoRun \notin Runs
      /\ Dropped(sch) \in SchRecs /\ sch.reserved \in BOOLEAN /\ Long \subseteq Runs
  BY SchFields, SchKept, RoutinesAssumption DEF Typed, TeamRecs
<1>1. ASSUME Reserve PROVE Awake'
  <2> DEFINE free == sch.long = 1
             may == {r \in Runs : Claimable(r) /\ (r \in Long => free)}
  <2>1. PICK r \in may \cup {NoRun} :
          /\ r = NoRun => may = {}
          /\ sch' = [sch EXCEPT !.at = "claimed", !.reserved = free, !.long = 0, !.answer = r,
                                !.hint = IF r = NoRun THEN Hint ELSE "none"]
          /\ team' = IF r = NoRun THEN team ELSE [team EXCEPT !.status[r] = "leased"]
    BY <1>1 DEF Reserve
  <2>2. sch.at = "reserve" /\ workers' = workers /\ call' = call
    BY <1>1 DEF Reserve
  <2>3. /\ sch'.at = "claimed" /\ sch'.reserved = free /\ sch'.long = 0 /\ sch'.answer = r
        /\ sch'.hint = IF r = NoRun THEN Hint ELSE "none"
    BY <1>0, <2>1 DEF SchRecs
  <2>4. sch'.answer \in Long => sch'.reserved
    BY <1>0, <2>1, <2>3
  <2>5. CASE r = NoRun
    <3>1. team' = team /\ may = {}
      BY <2>1, <2>5
    <3>2. ASSUME NEW q \in Runs, Ready(q)' PROVE Heard'
      <4>1. team.status[q] = "waiting"
        <5>0. sch'.reserved => free
          BY <2>3
        <5>3. team.dispatch[q] = "on" /\ (team.status[q] = "due" => (q \in Long => sch'.reserved))
          BY <2>3, <3>1, <3>2 DEF Ready
        <5>1. team.status[q] = "due" => Claimable(q) /\ (q \in Long => free)
          <6> HIDE DEF free
          <6> QED BY <5>0, <5>3 DEF Claimable
        <5>2. q \notin may
          BY <3>1
        <5> QED BY <3>1, <3>2, <5>1, <5>2 DEF Ready
      <4>2. sch'.hint # "none"
        BY <2>3, <2>5, <4>1 DEF Hint
      <4> QED BY <2>3, <4>2 DEF Heard
    <3>3. ASSUME NEW q \in Runs, team'.status[q] = "leased" PROVE Leased(q)'
      <4>1. Leased(q)
        BY <3>1, <3>3 DEF Awake
      <4> QED BY <2>2, <4>1 DEF Leased
    <3> QED BY <2>4, <3>2, <3>3 DEF Awake
  <2>6. CASE r # NoRun
    <3>1. r \in Runs /\ team' = [team EXCEPT !.status[r] = "leased"] /\ "leased" \in Statuses
      BY <2>1, <2>6 DEF Statuses
    <3>2. \A q \in Runs : team'.status[q] = IF q = r THEN "leased" ELSE team.status[q]
      BY <1>0, <3>1, StatusTyped
    <3>3. Heard'
      BY <2>3, <2>6 DEF Heard
    <3>4. ASSUME NEW q \in Runs, team'.status[q] = "leased" PROVE Leased(q)'
      <4>1. CASE q = r
        BY <2>3, <4>1 DEF Leased
      <4>2. CASE q # r
        <5>1. Leased(q)
          BY <3>2, <3>4, <4>2 DEF Awake
        <5> QED BY <2>2, <5>1 DEF Leased
      <4> QED BY <4>1, <4>2
    <3> QED BY <2>4, <3>3, <3>4 DEF Awake
  <2> QED BY <2>5, <2>6
<1>2. ASSUME Claimed, sch.answer = NoRun PROVE Awake'
  <2> DEFINE d == Dropped(sch)
  <2>1. sch.at = "claimed" /\ workers' = workers /\ team' = team /\ call' = call /\ sch' = [d EXCEPT !.due = sch.hint]
    BY <1>2 DEF Claimed
  <2>2. /\ d \in SchRecs /\ d.at = "asleep" /\ d.reserved = FALSE /\ d.woken = sch.woken
        /\ d.long = sch.long + (IF sch.reserved THEN 1 ELSE 0)
    BY <1>0, RestIs
  <2> HIDE DEF d
  <2>3. /\ sch'.at = "asleep" /\ sch'.reserved = FALSE /\ sch'.woken = sch.woken /\ sch'.due = sch.hint
        /\ sch'.long = sch.long + (IF sch.reserved THEN 1 ELSE 0)
    BY <2>1, <2>2 DEF SchRecs
  <2>4. \A q \in Runs : Ready(q)' => Ready(q)
    <3>1. sch'.long = 1 => sch.long = 1 \/ sch.reserved
      BY <1>0, <2>3
    <3> QED BY <2>1, <2>3, <3>1 DEF Ready
  <2>5. Heard => Heard'
    BY <1>2, <2>1, <2>3 DEF Heard
  <2>6. \A q \in Runs : Leased(q) => Leased(q)'
    BY <1>0, <1>2, <2>1 DEF Leased
  <2> QED BY <2>1, <2>3, <2>4, <2>5, <2>6 DEF Awake
<1>3. ASSUME Claimed, sch.answer # NoRun PROVE Awake'
  <2> DEFINE l == IF sch.reserved /\ ~(sch.answer \in Long) THEN 1 ELSE sch.long
             back == [sch EXCEPT !.long = l, !.reserved = FALSE, !.answer = NoRun]
             w == [run |-> sch.answer, long |-> sch.answer \in Long, stood |-> FALSE]
  <2>0. sch.at = "claimed" /\ ~(sch.answer \in Long /\ ~sch.reserved) /\ sch.answer \in Runs
    BY <1>0, <1>3 DEF Claimed, Awake
  <2>1. /\ workers' = Append(workers, w) /\ team' = team /\ call' = call
        /\ sch' = IF sch.slots = 0 THEN Rest(back) ELSE [back EXCEPT !.at = "reserve", !.slots = @ - 1]
    BY <1>3, <2>0 DEF Claimed
  <2>2. l \in Nat /\ w \in Segments /\ w.run = sch.answer /\ w.stood = FALSE
    BY <1>0, <2>0 DEF Segments
  <2> HIDE DEF l
  <2>3. back \in SchRecs /\ back.slots = sch.slots
    BY <1>0, <2>2 DEF SchRecs
  <2> HIDE DEF back, w
  <2>4. \/ sch.slots = 0 /\ sch'.at = "asleep" /\ sch'.slots = 0
        \/ sch'.at = "reserve"
    <3>1. CASE sch.slots = 0
      BY <2>1, <2>3, <3>1, RestIs
    <3>2. CASE sch.slots # 0
      BY <2>1, <2>3, <3>2 DEF SchRecs
    <3> QED BY <3>1, <3>2
  <2>5. Heard'
    BY <2>4 DEF Heard
  <2>6. /\ Len(workers) + 1 \in DOMAIN workers' /\ workers'[Len(workers) + 1] = w
        /\ \A i \in DOMAIN workers : i \in DOMAIN workers' /\ workers'[i] = workers[i]
    BY <1>0, <2>1, <2>2
  <2>7. ASSUME NEW q \in Runs, Leased(q) PROVE Leased(q)'
    <3>1. CASE sch.answer = q
      BY <2>2, <2>6, <3>1 DEF Leased
    <3>2. CASE sch.answer # q
      BY <2>6, <2>7, <3>2 DEF Leased
    <3> QED BY <3>1, <3>2
  <2> QED BY <2>1, <2>4, <2>5, <2>7 DEF Awake
<1> QED BY <1>1, <1>2, <1>3

LEMMA WakefulKept ==
  ASSUME Typed, Books, Wakeful, Next
  PROVE  Wakeful'
<1> SUFFICES ASSUME faults' = 0 PROVE Awake'
  BY DEF Wakeful, Awake
<1>0. /\ faults = 0 /\ Awake /\ sch \in SchRecs /\ sch.slots \in Nat
  BY FaultsTyped, SchFields DEF Wakeful, Awake
<1>1. CASE OfCall
  BY <1>0, <1>1, AwakeOfCall
<1>2. CASE OfTeam
  BY <1>0, <1>2, AwakeOfTeam
<1>3. CASE Reserve \/ Claimed
  BY <1>0, <1>3, AwakeOfClaim
<1>4. ASSUME Tick \/ Fetch \/ Write \/ Acknowledge \/ StartRuns PROVE Awake'
  <2>1. workers' = workers /\ call' = call /\ sch.at # "claimed"
    BY <1>4 DEF Tick, Fetch, Write, Acknowledge, StartRuns
  <2>2. team'.status = team.status /\ team'.dispatch = team.dispatch
    <3>1. CASE Acknowledge
      <4>1. sch.acks \in Seq(Seq(Notices)) /\ sch.acks # <<>> /\ team' = Acked(team, Head(sch.acks)) /\ team \in TeamRecs
        BY <3>1, SchFields DEF Acknowledge, Scheduler, Typed
      <4>2. Head(sch.acks) \in Seq(Notices)
        BY <4>1
      <4> QED BY <4>1, <4>2, AckedIs
    <3>2. CASE ~Acknowledge
      BY <1>4, <3>2 DEF Tick, Fetch, Write, StartRuns
    <3> QED BY <3>1, <3>2
  <2>3. NextBatch(sch).at \in {"fetch", "start"}
    BY <1>0 DEF NextBatch, SchRecs
  <2>4. \/ sch'.at \in {"fetch", "write", "ack", "start", "reserve"}
        \/ sch'.at = "asleep" /\ sch'.slots = 0
    <3>1. CASE StartRuns
      BY <1>0, <3>1, RestIs DEF StartRuns, SchRecs
    <3>2. CASE ~StartRuns
      BY <1>0, <1>4, <2>3, <3>2 DEF Tick, Fetch, Write, Acknowledge, SchRecs
    <3> QED BY <3>1, <3>2
  <2>5. Heard'
    BY <2>4 DEF Heard
  <2>6. \A q \in Runs : Leased(q) => Leased(q)'
    BY <2>1 DEF Leased
  <2> QED BY <1>0, <2>2, <2>4, <2>5, <2>6 DEF Awake
<1>5. ASSUME \/ AcknowledgeLost \/ IdentityFails \/ LongUnasked \/ ClaimFails \/ Crash
             \/ \E at \in {"fetch", "write", "ack"} : DeliveryFails(at)
      PROVE  FALSE
  <2>1. faults' = faults + 1
    BY <1>5 DEF AcknowledgeLost, IdentityFails, LongUnasked, ClaimFails, Crash, DeliveryFails
  <2> QED BY <1>0, <2>1
<1> QED BY <1>1, <1>2, <1>3, <1>4, <1>5, NextIs DEF OfScheduler, Scheduling

LEMMA WokenSaid ==
  ASSUME Typed, Books, Wakeful
  PROVE  WokenForDue
<1> SUFFICES ASSUME sch.at = "asleep", faults = 0, \A c \in Calls : call[c].at # "settle", NEW r \in Runs,
                    Claimable(r), team.dispatch[r] = "on", sch.slots > 0, r \in Long => sch.long = 1
             PROVE  sch.woken \/ sch.due # "none"
  BY DEF WokenForDue
<1>1. Ready(r)
  BY DEF Ready, Claimable
<1>2. Heard
  BY <1>1 DEF Wakeful
<1>3. sch.slots # 0
  BY SchFields
<1> QED BY <1>2, <1>3 DEF Heard

-----------------------------------------------------------------------------
(* The challenges.                                                         *)

(* The members of p are members of s, each at a place of its own.          *)
Among(p, s) ==
  \E at \in [DOMAIN p -> DOMAIN s] :
    /\ \A k \in DOMAIN p : p[k] = s[at[k]]
    /\ \A k, l \in DOMAIN p : at[k] = at[l] => k = l

LEMMA PickedAmong ==
  ASSUME NEW S, NEW s \in Seq(S), NEW I
  PROVE  Among(Picked(s, I), s)
<1> DEFINE p == Picked(s, I)
<1>1. /\ p \in Seq(S)
      /\ \E at \in [1..Len(p) -> DOMAIN s] :
           /\ \A k \in DOMAIN p : at[k] \in I /\ p[k] = s[at[k]]
           /\ \A k, l \in DOMAIN p : k < l => at[k] < at[l]
           /\ \A i \in DOMAIN s : i \in I => \E k \in DOMAIN p : at[k] = i
  BY PickedIs
<1> HIDE DEF p
<1>2. PICK at \in [1..Len(p) -> DOMAIN s] :
           /\ \A k \in DOMAIN p : at[k] \in I /\ p[k] = s[at[k]]
           /\ \A k, l \in DOMAIN p : k < l => at[k] < at[l]
  BY <1>1, Zenon
<1>3. DOMAIN p = 1..Len(p) /\ Len(p) \in Nat /\ DOMAIN s \subseteq Nat
  BY <1>1
<1>4. \A k \in DOMAIN p : at[k] \in Nat /\ k \in Nat
  BY <1>2, <1>3
<1>5. ASSUME NEW k \in DOMAIN p, NEW l \in DOMAIN p, at[k] = at[l] PROVE k = l
  <2>1. ~(k < l) /\ ~(l < k)
    BY <1>2, <1>4, <1>5
  <2> QED BY <1>4, <2>1
<1>6. at \in [DOMAIN p -> DOMAIN s]
  BY <1>2, <1>3
<1>7. \A k \in DOMAIN p : p[k] = s[at[k]]
  BY <1>2
<1>8. Among(p, s)
  BY <1>5, <1>6, <1>7 DEF Among
<1> QED BY <1>8 DEF p

LEMMA NewestAmong ==
  ASSUME NEW S, NEW s \in Seq(S), NEW n \in Nat
  PROVE  Among(Newest(s, n), s)
<1> DEFINE p == Newest(s, n)
<1>1. p \in Seq(S) /\ \E low \in Nat : \A i \in DOMAIN p : low + i \in DOMAIN s /\ p[i] = s[low + i]
  BY NewestIs
<1> HIDE DEF p
<1>2. PICK low \in Nat : \A i \in DOMAIN p : low + i \in DOMAIN s /\ p[i] = s[low + i]
  BY <1>1
<1> DEFINE at == [k \in DOMAIN p |-> low + k]
<1>3. at \in [DOMAIN p -> DOMAIN s] /\ \A k \in DOMAIN p : at[k] = low + k /\ p[k] = s[at[k]]
  BY <1>2
<1>4. DOMAIN p \subseteq Nat
  BY <1>1
<1> HIDE DEF at
<1>5. ASSUME NEW k \in DOMAIN p, NEW l \in DOMAIN p, at[k] = at[l] PROVE k = l
  <2>1. low + k = low + l /\ k \in Nat /\ l \in Nat
    BY <1>3, <1>4, <1>5
  <2> QED BY <2>1
<1>6. Among(p, s)
  BY <1>3, <1>5, Zenon DEF Among
<1> QED BY <1>6 DEF p

LEMMA AmongThrough ==
  ASSUME NEW p, NEW q, NEW s, Among(p, q), Among(q, s)
  PROVE  Among(p, s)
<1>1. PICK a \in [DOMAIN p -> DOMAIN q] :
        (\A k \in DOMAIN p : p[k] = q[a[k]]) /\ \A k, l \in DOMAIN p : a[k] = a[l] => k = l
  BY DEF Among
<1>2. PICK b \in [DOMAIN q -> DOMAIN s] :
        (\A k \in DOMAIN q : q[k] = s[b[k]]) /\ \A k, l \in DOMAIN q : b[k] = b[l] => k = l
  BY DEF Among
<1> DEFINE at == [k \in DOMAIN p |-> b[a[k]]]
<1>3. \A k \in DOMAIN p : a[k] \in DOMAIN q /\ at[k] = b[a[k]] /\ at[k] \in DOMAIN s
  BY <1>1, <1>2
<1>4. at \in [DOMAIN p -> DOMAIN s]
  BY <1>3
<1> HIDE DEF at
<1>5. \A k \in DOMAIN p : p[k] = s[at[k]]
  BY <1>1, <1>2, <1>3
<1>6. \A k, l \in DOMAIN p : at[k] = at[l] => k = l
  BY <1>1, <1>2, <1>3
<1> QED BY <1>4, <1>5, <1>6 DEF Among

(* The open challenges after one is opened: the others of other Teams, and it. *)
KeptRecs == [open : Seq(Open), gens : Seq([team : Teams, gen : Nat \ {0}]), next : Nat]

OpensOne(k, g, o) ==
  \E p \in Seq(Open) : /\ g.open = Append(p, o) /\ Among(p, k.open)
                       /\ \A i \in DOMAIN p : TeamOf[p[i].run] # TeamOf[o.run]

OpensOnly(k, g, o) == g \in KeptRecs /\ g.gens = k.gens /\ g.next = k.next /\ OpensOne(k, g, o)

LEMMA StoreOpenIs ==
  ASSUME NEW k \in KeptRecs, NEW o \in Open
  PROVE  OpensOnly(k, StoreOpen(k, o), o)
<1> DEFINE I == {i \in DOMAIN k.open : k.open[i].live /\ TeamOf[k.open[i].run] # TeamOf[o.run]}
           m == MaxOpenChallenges - 1
           q == Picked(k.open, I)
           p == Newest(q, m)
           G == Seq([team : Teams, gen : Nat \ {0}])
<1>1. k.open \in Seq(Open) /\ m \in Nat /\ k.gens \in G /\ k.next \in Nat
  BY RoutinesAssumption DEF KeptRecs
<1>2. StoreOpen(k, o) = [k EXCEPT !.open = Append(p, o)]
  BY DEF StoreOpen, Select
<1> HIDE DEF m, G
<1>3. /\ q \in Seq(Open) /\ Among(q, k.open)
      /\ \A i \in DOMAIN q : \E j \in DOMAIN k.open : j \in I /\ q[i] = k.open[j]
  <2> HIDE DEF I
  <2> QED BY <1>1, PickedAre, PickedAmong
<1> HIDE DEF q
<1>4. \A i \in DOMAIN q : TeamOf[q[i].run] # TeamOf[o.run]
  BY <1>3
<1>5. p \in Seq(Open) /\ Among(p, q)
  BY <1>1, <1>3, NewestIs, NewestAmong
<1> HIDE DEF p
<1>6. \A i \in DOMAIN p : \E j \in DOMAIN q : p[i] = q[j]
  BY <1>5 DEF Among
<1>7. \A i \in DOMAIN p : TeamOf[p[i].run] # TeamOf[o.run]
  BY <1>4, <1>6
<1>8. Among(p, k.open)
  BY <1>3, <1>5, AmongThrough
<1>9. Append(p, o) \in Seq(Open)
  BY <1>5
<1> DEFINE g == [k EXCEPT !.open = Append(p, o)]
<1>10. g \in KeptRecs /\ g.gens = k.gens /\ g.next = k.next /\ g.open = Append(p, o)
  BY <1>1, <1>9 DEF G, KeptRecs
<1> HIDE DEF g
<1>11. StoreOpen(k, o) = g
  BY <1>2 DEF g
<1>12. OpensOnly(k, g, o)
  BY <1>5, <1>7, <1>8, <1>10 DEF OpensOnly, OpensOne
<1> QED BY <1>11, <1>12

(* What is kept after an opening: its generation is the Team's only one.   *)
Remembers(g, o) ==
  /\ g \in KeptRecs /\ g.next = kept.next + 1 /\ OpensOne(kept, g, o)
  /\ \A i \in DOMAIN g.gens :
       \/ g.gens[i].team = TeamOf[o.run] /\ g.gens[i].gen = kept.next + 1
       \/ \E j \in DOMAIN kept.gens : g.gens[i] = kept.gens[j] /\ kept.gens[j].team # TeamOf[o.run]

LEMMA RememberIs ==
  ASSUME KeptTyped, NEW o \in Open
  PROVE  Remembers(Remember(kept, o), o)
<1> DEFINE I == {i \in DOMAIN kept.gens : kept.gens[i].team # TeamOf[o.run]}
           S == [team : Teams, gen : Nat \ {0}]
           q == Picked(kept.gens, I)
           n == kept.next + 1
           new == [team |-> TeamOf[o.run], gen |-> n]
           gs == Newest(Append(q, new), MaxTracked)
           k == [kept EXCEPT !.next = n, !.gens = gs]
<1>1. /\ kept \in [open : Seq(Open), gens : Seq(S), next : Nat] /\ kept.gens \in Seq(S) /\ kept.next \in Nat
      /\ MaxTracked \in Nat /\ o.run \in Runs
  BY RoutinesAssumption DEF KeptTyped, Open
<1>2. Remember(kept, o) = StoreOpen(k, o)
  BY DEF Remember, Select
<1>3. n \in Nat \ {0} /\ TeamOf[o.run] \in Teams
  BY <1>1 DEF Teams
<1>4. new \in S /\ new.team = TeamOf[o.run] /\ new.gen = n
  BY <1>3
<1> HIDE DEF new, n, S
<1>5. q \in Seq(S) /\ \A i \in DOMAIN q : \E j \in DOMAIN kept.gens : j \in I /\ q[i] = kept.gens[j]
  <2> HIDE DEF I
  <2> QED BY <1>1, PickedAre
<1> HIDE DEF q
<1> DEFINE all == Append(q, new)
<1>6. all \in Seq(S) /\ \A i \in DOMAIN all : all[i] = new \/ \E j \in DOMAIN kept.gens : j \in I /\ all[i] = kept.gens[j]
  <2>1. all \in Seq(S) /\ \A i \in DOMAIN all : all[i] = new \/ (i \in DOMAIN q /\ all[i] = q[i])
    BY <1>4, <1>5
  <2> HIDE DEF all, I
  <2> QED BY <1>5, <2>1
<1> HIDE DEF all
<1>7. gs \in Seq(S) /\ Among(gs, all)
  BY <1>1, <1>6, NewestIs, NewestAmong DEF all
<1> HIDE DEF gs
<1>8. \A i \in DOMAIN gs : \E l \in DOMAIN all : gs[i] = all[l]
  BY <1>7 DEF Among
<1>9. \A i \in DOMAIN gs :
        \/ gs[i].team = TeamOf[o.run] /\ gs[i].gen = n
        \/ \E j \in DOMAIN kept.gens : gs[i] = kept.gens[j] /\ kept.gens[j].team # TeamOf[o.run]
  BY <1>4, <1>6, <1>8
<1>10. k \in [open : Seq(Open), gens : Seq(S), next : Nat] /\ k.open = kept.open /\ k.gens = gs /\ k.next = n
  BY <1>1, <1>3, <1>7
<1> HIDE DEF k
<1> DEFINE g == StoreOpen(k, o)
<1>11. OpensOnly(k, g, o)
  <2>1. k \in KeptRecs
    BY <1>10 DEF S, KeptRecs
  <2> QED BY <2>1, StoreOpenIs
<1> HIDE DEF g
<1>12. Remember(kept, o) = g
  BY <1>2 DEF g
<1>13. Remembers(g, o)
  BY <1>9, <1>10, <1>11 DEF n, S, Remembers, OpensOnly, OpensOne
<1> QED BY <1>12, <1>13

LEMMA TakeIs ==
  ASSUME KeptTyped, NEW r, NEW id
  PROVE  LET g == Take(kept, r, id)
         IN /\ g \in KeptRecs /\ g.gens = kept.gens /\ g.next = kept.next /\ Among(g.open, kept.open)
            /\ \A i \in DOMAIN g.open : ~(g.open[i].run = r /\ g.open[i].id = id)
<1> DEFINE I == {i \in DOMAIN kept.open : ~(kept.open[i].run = r /\ kept.open[i].id = id)}
           p == Picked(kept.open, I)
           g == [kept EXCEPT !.open = p]
<1>1. kept \in KeptRecs /\ kept.open \in Seq(Open)
  BY DEF KeptTyped, KeptRecs
<1>2. Take(kept, r, id) = g
  BY DEF Take, Select
<1>3. /\ p \in Seq(Open) /\ Among(p, kept.open)
      /\ \A i \in DOMAIN p : \E j \in DOMAIN kept.open : j \in I /\ p[i] = kept.open[j]
  <2> HIDE DEF I
  <2> QED BY <1>1, PickedAre, PickedAmong
<1> HIDE DEF p
<1>4. \A i \in DOMAIN p : ~(p[i].run = r /\ p[i].id = id)
  BY <1>3
<1>5. g \in KeptRecs /\ g.open = p /\ g.gens = kept.gens /\ g.next = kept.next
  BY <1>1, <1>3 DEF KeptRecs
<1> HIDE DEF g
<1> QED BY <1>2, <1>3, <1>4, <1>5

LEMMA OpenOfIs ==
  ASSUME KeptTyped, NEW r, NEW id
  PROVE  LET there == OpenOf(kept, r, id)
         IN /\ there = <<>> <=> \A i \in DOMAIN kept.open : ~(kept.open[i].run = r /\ kept.open[i].id = id)
            /\ there # <<>> => \E i \in DOMAIN kept.open : kept.open[i].run = r /\ kept.open[i].id = id
<1> DEFINE I == {i \in DOMAIN kept.open : kept.open[i].run = r /\ kept.open[i].id = id}
           p == Picked(kept.open, I)
<1>1. kept.open \in Seq(Open)
  BY DEF KeptTyped
<1>2. OpenOf(kept, r, id) = p
  BY DEF OpenOf, Select
<1>3. p = <<>> <=> \A i \in DOMAIN kept.open : i \notin I
  <2> HIDE DEF I
  <2> QED BY <1>1, PickedAre
<1> HIDE DEF p
<1> QED BY <1>2, <1>3

LEMMA RestoreIs ==
  ASSUME KeptTyped, NEW o \in Open, NEW gen
  PROVE  \/ Restore(kept, o, gen) = kept
         \/ Latest(TeamOf[o.run], gen) /\ OpensOnly(kept, Restore(kept, o, gen), o)
<1>1. CASE gen # 0 /\ Generation(kept, TeamOf[o.run]) = gen
  <2>1. Latest(TeamOf[o.run], gen)
    BY <1>1, GenerationIs
  <2>2. Restore(kept, o, gen) = StoreOpen(kept, o)
    BY <1>1 DEF Restore
  <2>3. kept \in KeptRecs
    BY DEF KeptTyped, KeptRecs
  <2>4. OpensOnly(kept, StoreOpen(kept, o), o)
    BY <2>3, StoreOpenIs
  <2> QED BY <2>1, <2>2, <2>4
<1>2. CASE ~(gen # 0 /\ Generation(kept, TeamOf[o.run]) = gen)
  BY <1>2 DEF Restore
<1> QED BY <1>1, <1>2

(* The open challenges are ones that were, each at a place of its own.     *)
Fewer(g) ==
  \E at \in [DOMAIN g.open -> DOMAIN kept.open] :
    /\ \A k \in DOMAIN g.open : g.open[k].run = kept.open[at[k]].run /\ g.open[k].id = kept.open[at[k]].id
    /\ \A k, l \in DOMAIN g.open : at[k] = at[l] => k = l

LEMMA AmongFewer ==
  ASSUME NEW g, Among(g.open, kept.open)
  PROVE  Fewer(g)
BY DEF Among, Fewer

(* The challenges stay current while none is opened.                       *)
CurrentsStay ==
  \A r \in Runs, id \in Nat :
    /\ IsOpen(r, id)' \/ IsChecked(r, id)' => IsOpen(r, id) \/ IsChecked(r, id)
    /\ IsTold(r, id)' <=> IsTold(r, id)
    /\ Taken(r, id) => Taken(r, id)'

LEMMA CurrentsKept ==
  ASSUME Currents, faults' = 0 => faults = 0 /\ CurrentsStay
  PROVE  Currents'
<1> SUFFICES ASSUME faults' = 0, NEW r \in Runs, NEW id \in Nat
             PROVE  Current(r, id)'
  BY DEF Currents
<1>1. faults = 0 /\ CurrentsStay
  OBVIOUS
<1>2. Current(r, id)
  BY <1>1 DEF Currents
<1>3. Newer(TeamOf[r]) => Newer(TeamOf[r])'
  BY <1>1 DEF CurrentsStay, Newer
<1>4. Stand(r, id) => Stand(r, id)'
  BY <1>1, <1>3 DEF CurrentsStay, Stand
<1> QED BY <1>1, <1>2, <1>4 DEF CurrentsStay, Current

(* A call that opens, takes and tells nothing.                             *)
Calm(d) ==
  \/ call'[d] = call[d]
  \/ /\ call'[d].at \notin {"told", "check"} /\ call'[d].id \in {0, call[d].id}
     /\ faults' = 0 => ~(call[d].at = "told" /\ call[d].id # 0)

LEMMA OpenIs ==
  ASSUME KeptTyped, NEW i \in DOMAIN kept.open
  PROVE  kept.open[i].run \in Runs /\ kept.open[i].id \in Nat /\ kept.open[i].id # 0
<1>1. kept.open \in Seq(Open)
  BY DEF KeptTyped
<1>2. kept.open[i] \in Open
  BY <1>1
<1> QED BY <1>2 DEF Open

LEMMA AnsweringQuiet ==
  ASSUME Typed, Answering, KeptTyped', OneOpens', Fewer(kept'), \A t, g : Latest(t, g)' => Latest(t, g),
         team'.minted = team.minted, \A t \in Teams : team'.challenge[t] \in {team.challenge[t], None},
         \A d \in Calls : Calm(d), faults' = 0 => faults = 0
  PROVE  Answering'
<1>0. KeptTyped /\ OnePlace /\ Currents /\ team.minted \in Nat
  BY DEF Answering, Typed, TeamRecs
<1>1. \A d \in Calls : call'[d].id \in {0, call[d].id}
  BY DEF Calm
<1>2. PICK at \in [DOMAIN kept'.open -> DOMAIN kept.open] :
        /\ \A k \in DOMAIN kept'.open : kept'.open[k].run = kept.open[at[k]].run /\ kept'.open[k].id = kept.open[at[k]].id
        /\ \A k, l \in DOMAIN kept'.open : at[k] = at[l] => k = l
  BY DEF Fewer
<1>3. \A k \in DOMAIN kept'.open : at[k] \in DOMAIN kept.open
  BY <1>2
<1>4. OnePlace'
  <2>1. \A i \in DOMAIN kept'.open : kept'.open[i].id <= team'.minted
    BY <1>0, <1>2, <1>3 DEF OnePlace
  <2>2. \A d \in Calls : call'[d].id <= team'.minted
    BY <1>0, <1>1 DEF OnePlace
  <2>3. \A i, k \in DOMAIN kept'.open : kept'.open[i].id = kept'.open[k].id => i = k
    BY <1>0, <1>2, <1>3 DEF OnePlace
  <2>4. \A c, d \in Calls : call'[c].id = call'[d].id /\ call'[c].id # 0 => c = d
    BY <1>0, <1>1 DEF OnePlace
  <2>5. ASSUME NEW c \in Calls, NEW i \in DOMAIN kept'.open PROVE kept'.open[i].id # call'[c].id
    <3>1. kept'.open[i].id = kept.open[at[i]].id /\ at[i] \in DOMAIN kept.open
      BY <1>2, <1>3
    <3>2. kept.open[at[i]].id # 0
      BY <1>0, <3>1, OpenIs
    <3> QED BY <1>0, <1>1, <3>1, <3>2 DEF OnePlace
  <2> QED BY <2>1, <2>2, <2>3, <2>4, <2>5 DEF OnePlace
<1>5. ASSUME faults' = 0 PROVE CurrentsStay
  <2> SUFFICES ASSUME NEW r \in Runs, NEW id \in Nat
               PROVE  /\ IsOpen(r, id)' \/ IsChecked(r, id)' => IsOpen(r, id) \/ IsChecked(r, id)
                      /\ IsTold(r, id)' <=> IsTold(r, id)
                      /\ Taken(r, id) => Taken(r, id)'
    BY DEF CurrentsStay
  <2>1. IsOpen(r, id)' => IsOpen(r, id)
    BY <1>2, <1>3 DEF IsOpen
  <2>2. IsChecked(r, id)' => IsChecked(r, id)
    BY DEF IsChecked, Calm
  <2>3. IsTold(r, id)' => IsTold(r, id)
    BY DEF IsTold, Calm
  <2>4. IsTold(r, id) => IsTold(r, id)'
    BY <1>5 DEF IsTold, Calm
  <2>5. TeamOf[r] \in Teams
    BY DEF Teams
  <2>6. Taken(r, id) => Taken(r, id)'
    BY <2>5 DEF Taken
  <2> QED BY <2>1, <2>2, <2>3, <2>4, <2>6
<1>6. Currents'
  BY <1>0, <1>5, CurrentsKept
<1> QED BY <1>4, <1>6 DEF Answering

LEMMA FewerStill ==
  ASSUME KeptTyped, kept' = kept
  PROVE  Fewer(kept')
<1> DEFINE at == [k \in DOMAIN kept.open |-> k]
<1>1. at \in [DOMAIN kept.open -> DOMAIN kept.open] /\ \A k \in DOMAIN kept.open : at[k] = k
  OBVIOUS
<1> HIDE DEF at
<1> QED BY <1>1 DEF Fewer

(* The answer of an open challenge takes it out.                           *)
LEMMA AnsweringTaken ==
  ASSUME Typed, Answering, NEW c \in Calls, NEW r \in Runs, NEW id \in Nat, NEW x \in CallRecs,
         call[c].at = "idle", x.at = "check", x.run = r, x.id = id, x.gen = Generation(kept, TeamOf[r]),
         OpenOf(kept, r, id) # <<>>, kept' = Take(kept, r, id), call' = [call EXCEPT ![c] = x],
         team' = team, opening' = opening, faults' = faults
  PROVE  Answering'
<1>0. /\ KeptTyped /\ OnePlace /\ OneOpens /\ Currents
      /\ \A d \in Calls : call'[d] = IF d = c THEN x ELSE call[d]
  BY DEF Answering, Typed
<1>1. /\ kept' \in KeptRecs /\ kept'.gens = kept.gens /\ kept'.next = kept.next /\ Among(kept'.open, kept.open)
      /\ \A i \in DOMAIN kept'.open : ~(kept'.open[i].run = r /\ kept'.open[i].id = id)
  BY <1>0, TakeIs
<1>2. PICK i0 \in DOMAIN kept.open : kept.open[i0].run = r /\ kept.open[i0].id = id
  BY <1>0, OpenOfIs
<1>3. PICK at \in [DOMAIN kept'.open -> DOMAIN kept.open] :
        /\ \A k \in DOMAIN kept'.open : kept'.open[k] = kept.open[at[k]]
        /\ \A k, l \in DOMAIN kept'.open : at[k] = at[l] => k = l
  BY <1>1 DEF Among
<1>4. \A k \in DOMAIN kept'.open : at[k] \in DOMAIN kept.open
  BY <1>3
<1>5. KeptTyped'
  <2>1. x.gen <= kept.next
    BY <1>0, GenerationIs
  <2>2. \A d \in Calls : call'[d].gen <= kept'.next
    BY <1>0, <1>1, <2>1 DEF KeptTyped
  <2>3. \A i \in DOMAIN kept'.gens : kept'.gens[i].gen <= kept'.next
    BY <1>0, <1>1 DEF KeptTyped
  <2> QED BY <1>1, <2>2, <2>3 DEF KeptTyped, KeptRecs
<1>6. OnePlace'
  <2>1. id <= team.minted /\ \A d \in Calls : call[d].id # id
    BY <1>0, <1>2 DEF OnePlace
  <2>2. \A i \in DOMAIN kept'.open : kept'.open[i].id <= team'.minted
    BY <1>0, <1>3, <1>4 DEF OnePlace
  <2>3. \A d \in Calls : call'[d].id <= team'.minted
    BY <1>0, <2>1 DEF OnePlace
  <2>4. \A i, k \in DOMAIN kept'.open : kept'.open[i].id = kept'.open[k].id => i = k
    BY <1>0, <1>3, <1>4 DEF OnePlace
  <2>5. \A d, e \in Calls : call'[d].id = call'[e].id /\ call'[d].id # 0 => d = e
    BY <1>0, <2>1 DEF OnePlace
  <2>6. ASSUME NEW d \in Calls, NEW i \in DOMAIN kept'.open, kept'.open[i].id = call'[d].id PROVE FALSE
    <3>1. kept'.open[i] = kept.open[at[i]] /\ at[i] \in DOMAIN kept.open
      BY <1>3, <1>4
    <3>2. d = c /\ kept.open[at[i]].id = id
      BY <1>0, <2>6, <3>1 DEF OnePlace
    <3>3. at[i] = i0
      BY <1>0, <1>2, <3>1, <3>2 DEF OnePlace
    <3> QED BY <1>1, <1>2, <3>1, <3>3
  <2> QED BY <2>2, <2>3, <2>4, <2>5, <2>6 DEF OnePlace
<1>7. OneOpens'
  BY <1>0 DEF OneOpens
<1>8. CurrentsStay
  <2> SUFFICES ASSUME NEW q \in Runs, NEW n \in Nat
               PROVE  /\ IsOpen(q, n)' \/ IsChecked(q, n)' => IsOpen(q, n) \/ IsChecked(q, n)
                      /\ IsTold(q, n)' <=> IsTold(q, n)
                      /\ Taken(q, n) => Taken(q, n)'
    BY DEF CurrentsStay
  <2>1. IsOpen(q, n)' => IsOpen(q, n)
    BY <1>3, <1>4 DEF IsOpen
  <2>2. IsChecked(q, n)' => IsOpen(q, n) \/ IsChecked(q, n)
    BY <1>0, <1>1, <1>2 DEF IsChecked, IsOpen, Latest
  <2>3. IsTold(q, n)' <=> IsTold(q, n)
    BY <1>0 DEF IsTold
  <2>4. Taken(q, n) => Taken(q, n)'
    BY DEF Taken
  <2> QED BY <2>1, <2>2, <2>3, <2>4
<1>9. Currents'
  BY <1>0, <1>8, CurrentsKept
<1> QED BY <1>5, <1>6, <1>7, <1>9 DEF Answering

(* A challenge a call held becomes the open one of its Team.               *)
LEMMA OnePlaceOpens ==
  ASSUME Typed, KeptTyped, OnePlace, NEW c \in Calls, NEW o \in Open, o.id = call[c].id,
         OpensOne(kept, kept', o), call' = [call EXCEPT ![c] = Over], team'.minted = team.minted
  PROVE  /\ OnePlace'
         /\ \A r, id : IsOpen(r, id)' => (r = o.run /\ id = o.id) \/ (IsOpen(r, id) /\ TeamOf[r] # TeamOf[o.run])
<1>0. /\ \A d \in Calls : call'[d] = IF d = c THEN Over ELSE call[d]
      /\ Over.id = 0 /\ o.id # 0
  BY DEF Typed, Over, Idle, Open
<1>1. PICK p \in Seq(Open) : /\ kept'.open = Append(p, o) /\ Among(p, kept.open)
                             /\ \A i \in DOMAIN p : TeamOf[p[i].run] # TeamOf[o.run]
  BY DEF OpensOne
<1>2. PICK at \in [DOMAIN p -> DOMAIN kept.open] :
        /\ \A k \in DOMAIN p : p[k] = kept.open[at[k]]
        /\ \A k, l \in DOMAIN p : at[k] = at[l] => k = l
  BY <1>1 DEF Among
<1>3. \A k \in DOMAIN p : at[k] \in DOMAIN kept.open /\ p[k] = kept.open[at[k]] /\ TeamOf[p[k].run] # TeamOf[o.run]
  BY <1>1, <1>2
<1>4. /\ DOMAIN kept'.open = DOMAIN p \cup {Len(p) + 1} /\ kept'.open[Len(p) + 1] = o
      /\ \A k \in DOMAIN p : kept'.open[k] = p[k]
  BY <1>1
<1>5. \A k \in DOMAIN p : p[k].id # call[c].id /\ p[k].id # 0 /\ p[k].id <= team.minted
  <2> SUFFICES ASSUME NEW k \in DOMAIN p PROVE p[k].id # call[c].id /\ p[k].id # 0 /\ p[k].id <= team.minted
    OBVIOUS
  <2>1. at[k] \in DOMAIN kept.open /\ p[k] = kept.open[at[k]]
    BY <1>3
  <2>2. kept.open[at[k]].id # 0
    BY <2>1, OpenIs
  <2> QED BY <2>1, <2>2 DEF OnePlace
<1>6. OnePlace'
  <2>1. o.id <= team.minted /\ team.minted \in Nat
    BY DEF OnePlace, Typed, TeamRecs
  <2>2. \A i \in DOMAIN kept'.open : kept'.open[i].id <= team'.minted
    BY <1>4, <1>5, <2>1
  <2>3. \A d \in Calls : call'[d].id <= team'.minted
    BY <1>0, <2>1 DEF OnePlace
  <2>4. \A i, k \in DOMAIN p : p[i].id = p[k].id => i = k
    BY <1>2, <1>3 DEF OnePlace
  <2>5. \A i, k \in DOMAIN kept'.open : kept'.open[i].id = kept'.open[k].id => i = k
    BY <1>4, <1>5, <2>4
  <2>6. \A d, e \in Calls : call'[d].id = call'[e].id /\ call'[d].id # 0 => d = e
    BY <1>0 DEF OnePlace
  <2>7. ASSUME NEW d \in Calls, NEW i \in DOMAIN kept'.open PROVE kept'.open[i].id # call'[d].id
    <3>1. CASE d = c
      BY <1>0, <1>4, <1>5, <3>1
    <3>2. CASE d # c
      <4>1. call'[d] = call[d]
        BY <1>0, <3>2
      <4>2. o.id # call[d].id
        BY <1>0, <3>2 DEF OnePlace
      <4>3. \A k \in DOMAIN p : p[k].id # call[d].id
        BY <1>3 DEF OnePlace
      <4> QED BY <1>4, <4>1, <4>2, <4>3
    <3> QED BY <3>1, <3>2
  <2> QED BY <2>2, <2>3, <2>5, <2>6, <2>7 DEF OnePlace
<1>7. ASSUME NEW r, NEW id, IsOpen(r, id)'
      PROVE  (r = o.run /\ id = o.id) \/ (IsOpen(r, id) /\ TeamOf[r] # TeamOf[o.run])
  <2>1. PICK i \in DOMAIN kept'.open : kept'.open[i].run = r /\ kept'.open[i].id = id
    BY <1>7 DEF IsOpen
  <2> QED BY <1>3, <1>4, <2>1 DEF IsOpen
<1> QED BY <1>6, <1>7

(* A rejected answer whose challenge is open again.                        *)
LEMMA AnsweringRestored ==
  ASSUME Typed, Answering, NEW c \in Calls, NEW o \in Open, call[c].at = "check", o.run = call[c].run, o.id = call[c].id,
         Latest(TeamOf[o.run], call[c].gen), OpensOnly(kept, kept', o), call' = [call EXCEPT ![c] = Over],
         team' = team, opening' = opening, faults' = faults
  PROVE  Answering'
<1>0. /\ KeptTyped /\ OnePlace /\ OneOpens /\ Currents
      /\ \A d \in Calls : call'[d] = IF d = c THEN Over ELSE call[d]
      /\ Over.id = 0 /\ Over.gen = 0 /\ Over.at = "over"
  BY DEF Answering, Typed, Over, Idle
<1>1. kept' \in KeptRecs /\ kept'.gens = kept.gens /\ kept'.next = kept.next /\ OpensOne(kept, kept', o)
  BY DEF OpensOnly
<1>2. /\ OnePlace'
      /\ \A r, id : IsOpen(r, id)' => (r = o.run /\ id = o.id) \/ (IsOpen(r, id) /\ TeamOf[r] # TeamOf[o.run])
  BY <1>0, <1>1, OnePlaceOpens
<1>3. KeptTyped'
  <2>1. kept.next \in Nat
    BY <1>0 DEF KeptTyped
  <2>2. \A d \in Calls : call'[d].gen <= kept'.next
    BY <1>0, <1>1, <2>1 DEF KeptTyped
  <2>3. \A i \in DOMAIN kept'.gens : kept'.gens[i].gen <= kept'.next
    BY <1>0, <1>1 DEF KeptTyped
  <2> QED BY <1>1, <2>2, <2>3 DEF KeptTyped, KeptRecs
<1>4. OneOpens'
  BY <1>0 DEF OneOpens
<1>5. CurrentsStay
  <2> SUFFICES ASSUME NEW q \in Runs, NEW n \in Nat
               PROVE  /\ IsOpen(q, n)' \/ IsChecked(q, n)' => IsOpen(q, n) \/ IsChecked(q, n)
                      /\ IsTold(q, n)' <=> IsTold(q, n)
                      /\ Taken(q, n) => Taken(q, n)'
    BY DEF CurrentsStay
  <2>1. IsOpen(q, n)' => IsOpen(q, n) \/ IsChecked(q, n)
    BY <1>2 DEF IsChecked
  <2>2. IsChecked(q, n)' => IsChecked(q, n)
    BY <1>0, <1>1 DEF IsChecked, Latest
  <2>3. IsTold(q, n)' <=> IsTold(q, n)
    BY <1>0 DEF IsTold
  <2>4. Taken(q, n) => Taken(q, n)'
    BY DEF Taken
  <2> QED BY <2>1, <2>2, <2>3, <2>4
<1>6. Currents'
  BY <1>0, <1>5, CurrentsKept
<1> QED BY <1>2, <1>3, <1>4, <1>6 DEF Answering

Locks == [holder : Calls \cup {0}, count : Int]

LEMMA OpenedIs ==
  ASSUME OneOpens, NEW t \in Teams
  PROVE  Opened(t) \in [Teams -> Locks] /\ \A u \in Teams : Opened(t)[u].holder = opening[u].holder
<1> DEFINE a == [opening[t] EXCEPT !.count = opening[t].count - 1]
<1>1. opening \in [Teams -> Locks] /\ opening[t] \in Locks
  BY DEF OneOpens, Locks
<1>2. a \in Locks /\ a.holder = opening[t].holder
  BY <1>1 DEF Locks
<1>3. Opened(t) = [opening EXCEPT ![t] = a]
  BY <1>1 DEF Opened
<1> HIDE DEF a
<1> QED BY <1>1, <1>2, <1>3

(* The lock of an opening that ends is free again, and no other's.         *)
LEMMA ReleasedIs ==
  ASSUME OneOpens, NEW c \in Calls, call[c].run \in Runs, opening' = Released(c)
  PROVE  /\ opening' \in [Teams -> Locks]
         /\ \A t \in Teams : opening'[t].holder = IF t = TeamOf[call[c].run] /\ opening[t].holder = c THEN 0 ELSE opening[t].holder
<1> DEFINE t == TeamOf[call[c].run]
           f == Opened(t)
           n == IF f[t].holder = c THEN 0 ELSE f[t].holder
           b == [f[t] EXCEPT !.holder = n]
<1>1. t \in Teams
  BY DEF Teams
<1>2. opening' = [f EXCEPT ![t] = b]
  BY DEF Released
<1> HIDE DEF t
<1>3. f \in [Teams -> Locks] /\ \A u \in Teams : f[u].holder = opening[u].holder
  BY <1>1, OpenedIs
<1> HIDE DEF f
<1>4. f[t] \in Locks /\ n \in Calls \cup {0} /\ n = IF opening[t].holder = c THEN 0 ELSE opening[t].holder
  BY <1>1, <1>3 DEF Locks
<1> HIDE DEF n
<1>5. b \in Locks /\ b.holder = n
  BY <1>4 DEF Locks
<1> HIDE DEF b
<1>6. opening' \in [Teams -> Locks] /\ \A u \in Teams : opening'[u] = IF u = t THEN b ELSE f[u]
  BY <1>1, <1>2, <1>3, <1>5
<1> QED BY <1>3, <1>4, <1>5, <1>6 DEF t

(* Team's answer to an opening is remembered.                              *)
LEMMA AnsweringTold ==
  ASSUME Typed, Answering, NEW c \in Calls, call[c].id # 0, OpenTold(c)
  PROVE  Answering'
<1> DEFINE o == [run |-> call[c].run, id |-> call[c].id, live |-> TRUE]
           t == TeamOf[o.run]
<1>0. /\ KeptTyped /\ OnePlace /\ OneOpens /\ Currents
      /\ call[c].at = "told" /\ kept' = Remember(kept, o) /\ call' = [call EXCEPT ![c] = Over] /\ opening' = Released(c)
      /\ team' = team /\ faults' = faults
      /\ \A d \in Calls : call'[d] = IF d = c THEN Over ELSE call[d]
      /\ Over.id = 0 /\ Over.gen = 0 /\ Over.at = "over"
  BY DEF Answering, Typed, Over, Idle, OpenTold
<1>1. call[c] \in CallRecs /\ Carries(call[c])
  BY DEF Typed
<1>2. o \in Open /\ o.run = call[c].run /\ o.id = call[c].id /\ call[c].run \in Runs
  BY <1>0, <1>1 DEF CallRecs, Carries, Open
<1> HIDE DEF o
<1>3. Remembers(kept', o)
  BY <1>0, <1>2, RememberIs
<1>4. /\ kept' \in KeptRecs /\ kept'.next = kept.next + 1 /\ OpensOne(kept, kept', o)
      /\ \A i \in DOMAIN kept'.gens :
           \/ kept'.gens[i].team = t /\ kept'.gens[i].gen = kept.next + 1
           \/ \E j \in DOMAIN kept.gens : kept'.gens[i] = kept.gens[j] /\ kept.gens[j].team # t
  BY <1>3 DEF Remembers
<1>5. /\ OnePlace'
      /\ \A r, id : IsOpen(r, id)' => (r = o.run /\ id = o.id) \/ (IsOpen(r, id) /\ TeamOf[r] # t)
  BY <1>0, <1>2, <1>4, OnePlaceOpens
<1>6. kept.next \in Nat /\ \A d \in Calls : call[d].gen <= kept.next /\ call[d].gen \in Nat
  BY <1>0 DEF KeptTyped, Typed, CallRecs
<1> HIDE DEF t
<1>7. KeptTyped'
  <2>1. \A d \in Calls : call'[d].gen <= kept'.next
    BY <1>0, <1>4, <1>6
  <2>2. \A j \in DOMAIN kept.gens : kept.gens[j].gen \in Nat /\ kept.gens[j].gen <= kept.next
    <3> DEFINE gs == kept.gens
               S == [team : Teams, gen : Nat \ {0}]
    <3>1. gs \in Seq(S) /\ \A j \in DOMAIN gs : gs[j].gen <= kept.next
      BY <1>0 DEF KeptTyped
    <3>2. \A s \in S : s.gen \in Nat
      OBVIOUS
    <3> HIDE DEF gs, S
    <3>3. \A j \in DOMAIN gs : gs[j] \in S
      BY <3>1
    <3> QED BY <3>1, <3>2, <3>3 DEF gs
  <2>3. \A i \in DOMAIN kept'.gens : kept'.gens[i].gen <= kept'.next
    BY <1>4, <1>6, <2>2
  <2> QED BY <1>4, <2>1, <2>3 DEF KeptTyped, KeptRecs
<1>8. OneOpens'
  <2>1. /\ opening' \in [Teams -> Locks]
        /\ \A u \in Teams : opening'[u].holder = IF u = TeamOf[call[c].run] /\ opening[u].holder = c THEN 0 ELSE opening[u].holder
    BY <1>0, <1>2, ReleasedIs
  <2>2. ASSUME NEW d \in Calls, call'[d].at \in {"open", "told"} PROVE opening'[TeamOf[call'[d].run]].holder = d
    <3>1. d # c /\ call'[d] = call[d]
      BY <1>0, <2>2
    <3>2. TeamOf[call[d].run] \in Teams /\ opening[TeamOf[call[d].run]].holder = d
      BY <1>0, <2>2, <3>1 DEF Typed, Carries, Teams, OneOpens
    <3> QED BY <2>1, <3>1, <3>2
  <2> QED BY <2>1, <2>2 DEF OneOpens, Locks
<1>9. ASSUME NEW u, NEW g, g <= kept.next, g \in Nat, Latest(u, g)'
      PROVE  Latest(u, g) /\ u # t
  <2>1. PICK i \in DOMAIN kept'.gens : kept'.gens[i].team = u /\ kept'.gens[i].gen = g
    BY <1>9 DEF Latest
  <2>2. g # kept.next + 1
    BY <1>6, <1>9
  <2> QED BY <1>4, <2>1, <2>2 DEF Latest
<1>10. ASSUME faults' = 0, NEW r \in Runs, NEW id \in Nat PROVE Current(r, id)'
  <2>1. \A q \in Runs, n \in Nat : Current(q, n)
    BY <1>0, <1>10 DEF Currents
  <2>2. Taken(r, id) => Taken(r, id)'
    BY <1>0 DEF Taken
  <2>3. ASSUME TeamOf[r] # t, Newer(TeamOf[r]) PROVE Newer(TeamOf[r])'
    <3>1. PICK q \in Runs, n \in Nat : TeamOf[q] = TeamOf[r] /\ IsTold(q, n)
      BY <2>3 DEF Newer
    <3>2. IsTold(q, n)'
      BY <1>0, <1>2, <2>3, <3>1 DEF IsTold, t
    <3> QED BY <3>1, <3>2 DEF Newer
  <2>4. TeamOf[r] # t /\ Stand(r, id) => Stand(r, id)'
    BY <2>2, <2>3 DEF Stand
  <2>5. IsTold(r, id)' => IsTold(r, id)
    BY <1>0 DEF IsTold
  <2>6. IsTold(r, id)' => Taken(r, id)'
    BY <2>1, <2>2, <2>5 DEF Current
  <2>7. IsChecked(r, id)' => IsChecked(r, id) /\ TeamOf[r] # t
    <3> SUFFICES ASSUME IsChecked(r, id)' PROVE IsChecked(r, id) /\ TeamOf[r] # t
      OBVIOUS
    <3>0. PICK d \in Calls : /\ call'[d].at = "check" /\ call'[d].run = r /\ call'[d].id = id
                            /\ \E g : g = call'[d].gen /\ Latest(TeamOf[r], g)'
      BY DEF IsChecked, Latest
    <3>1. PICK g : g = call'[d].gen /\ Latest(TeamOf[r], g)'
      BY <3>0
    <3>2. call'[d] = call[d]
      BY <1>0, <3>0
    <3>3. g \in Nat /\ g <= kept.next
      BY <1>6, <3>1, <3>2
    <3>4. Latest(TeamOf[r], g) /\ TeamOf[r] # t
      BY <1>9, <3>1, <3>3
    <3> QED BY <3>0, <3>1, <3>2, <3>4 DEF IsChecked
  <2>8. ASSUME r = o.run, id = o.id PROVE Stand(r, id)'
    <3>1. IsTold(r, id)
      BY <1>0, <1>2, <2>8 DEF IsTold
    <3> QED BY <2>1, <2>2, <3>1 DEF Current, Stand
  <2>9. IsOpen(r, id)' \/ IsChecked(r, id)' => Stand(r, id)'
    BY <1>5, <2>1, <2>4, <2>7, <2>8 DEF Current
  <2> QED BY <2>6, <2>9 DEF Current
<1>11. Currents'
  BY <1>10 DEF Currents
<1> QED BY <1>5, <1>7, <1>8, <1>11 DEF Answering

(* Team mints a challenge for an opening, or refuses.                      *)
LEMMA AnsweringAsked ==
  ASSUME Typed, Answering, NEW c \in Calls, OpenAsks(c)
  PROVE  Answering'
<1> DEFINE r0 == call[c].run
           n0 == team.minted + 1
           x == call'[c]
<1>0. /\ KeptTyped /\ OnePlace /\ OneOpens /\ Currents /\ Carries(call[c]) /\ call[c] \in CallRecs /\ call \in [Calls -> CallRecs]
      /\ team \in TeamRecs /\ team.minted \in Nat
      /\ kept' = kept /\ opening' = opening /\ faults' = faults
  BY DEF Answering, Typed, OpenAsks, TeamRecs
<1>1. call[c].at = "open" /\ r0 \in Runs /\ call[c].id = 0
  BY <1>0, OpenAsksIs DEF Carries
<1>2. /\ x.at = "told" /\ x.run = r0 /\ x.gen = call[c].gen
      /\ \A d \in Calls : d # c => call'[d] = call[d]
      /\ \/ x.id = n0 /\ team' = [team EXCEPT !.challenge[TeamOf[r0]] = [run |-> r0, id |-> n0], !.minted = @ + 1]
         \/ x.id = 0 /\ team' = team
  <2>1. PICK y \in {[call[c] EXCEPT !.at = "told", !.id = n0], [call[c] EXCEPT !.at = "told", !.reply = "integrations-required"],
                    [call[c] EXCEPT !.at = "told", !.reply = "refused"]} :
          /\ call' = [call EXCEPT ![c] = y]
          /\ \/ y = [call[c] EXCEPT !.at = "told", !.id = n0]
                /\ team' = [team EXCEPT !.challenge[TeamOf[r0]] = [run |-> r0, id |-> n0], !.minted = @ + 1]
             \/ y # [call[c] EXCEPT !.at = "told", !.id = n0] /\ team' = team
             \/ y.id = 0 /\ team' = team
    <3>1. [call[c] EXCEPT !.at = "told", !.reply = "integrations-required"].id = 0 /\ [call[c] EXCEPT !.at = "told", !.reply = "refused"].id = 0
      BY <1>0, <1>1 DEF CallRecs
    <3> QED BY <3>1, OpenAsksIs
  <2>2. y.at = "told" /\ y.run = r0 /\ y.gen = call[c].gen
    BY <1>0, <2>1 DEF CallRecs
  <2>3. \/ y.id = n0 /\ team' = [team EXCEPT !.challenge[TeamOf[r0]] = [run |-> r0, id |-> n0], !.minted = @ + 1]
        \/ y.id = 0 /\ team' = team
    BY <1>0, <1>1, <2>1 DEF CallRecs
  <2>4. call'[c] = y /\ \A d \in Calls : d # c => call'[d] = call[d]
    BY <1>0, <2>1
  <2> HIDE DEF n0, r0
  <2> QED BY <2>2, <2>3, <2>4
<1>3. \/ x.id = 0 /\ team'.minted = team.minted /\ \A u \in Teams : team'.challenge[u] = team.challenge[u]
      \/ /\ x.id = n0 /\ team'.minted = n0
         /\ \A u \in Teams : team'.challenge[u] = IF u = TeamOf[r0] THEN [run |-> r0, id |-> n0] ELSE team.challenge[u]
  <2>1. CASE x.id = 0 /\ team' = team
    BY <2>1
  <2>2. CASE x.id = n0 /\ team' = [team EXCEPT !.challenge[TeamOf[r0]] = [run |-> r0, id |-> n0], !.minted = @ + 1]
    <3> DEFINE w == [team EXCEPT !.challenge[TeamOf[r0]] = [run |-> r0, id |-> team.minted + 1], !.minted = @ + 1]
    <3>1. w.minted = n0 /\ \A u \in Teams : w.challenge[u] = IF u = TeamOf[r0] THEN [run |-> r0, id |-> n0] ELSE team.challenge[u]
      <4> HIDE DEF r0
      <4> QED BY <1>0, <1>1, MintedIs
    <3>2. team' = w
      BY <2>2
    <3> HIDE DEF w, n0, r0, x
    <3> QED BY <2>2, <3>1, <3>2
  <2> QED BY <1>2, <2>1, <2>2
<1> HIDE DEF x
<1>4. KeptTyped'
  <2>1. \A d \in Calls : call'[d].gen <= kept.next
    BY <1>0, <1>2 DEF KeptTyped, x
  <2> QED BY <1>0, <2>1 DEF KeptTyped
<1>5. OneOpens'
  <2>1. \A d \in Calls : call'[d].at \in {"open", "told"} => call[d].at \in {"open", "told"} /\ call'[d].run = call[d].run
    BY <1>1, <1>2 DEF x
  <2> QED BY <1>0, <2>1 DEF OneOpens
<1>6. OnePlace'
  <2>1. x.id \in {0, n0} /\ team'.minted \in Nat /\ team.minted <= team'.minted /\ x.id <= team'.minted
    BY <1>0, <1>3
  <2>2. \A d \in Calls : call[d].id \in Nat /\ call[d].id <= team.minted /\ call[d].id # n0
    BY <1>0 DEF OnePlace, CallRecs
  <2>3. \A i \in DOMAIN kept.open : kept.open[i].id \in Nat /\ kept.open[i].id # 0 /\ kept.open[i].id <= team.minted /\ kept.open[i].id # n0
    BY <1>0, OpenIs DEF OnePlace
  <2>4. \A i \in DOMAIN kept'.open : kept'.open[i].id <= team'.minted
    BY <1>0, <2>1, <2>3
  <2>5. \A d \in Calls : call'[d].id <= team'.minted
    BY <1>0, <1>2, <2>1, <2>2 DEF x
  <2> HIDE DEF n0
  <2>6. \A d, e \in Calls : call'[d].id = call'[e].id /\ call'[d].id # 0 => d = e
    BY <1>0, <1>2, <2>1, <2>2 DEF OnePlace, x
  <2>7. \A d \in Calls : \A i \in DOMAIN kept'.open : kept'.open[i].id # call'[d].id
    BY <1>0, <1>2, <2>1, <2>3 DEF OnePlace, x
  <2> QED BY <1>0, <2>4, <2>5, <2>6, <2>7 DEF OnePlace
<1>7. ASSUME NEW r \in Runs, NEW id \in Nat
      PROVE  /\ IsOpen(r, id)' => IsOpen(r, id)
             /\ IsChecked(r, id)' => IsChecked(r, id)
             /\ IsTold(r, id) => IsTold(r, id)'
  <2>1. IsOpen(r, id)' => IsOpen(r, id)
    BY <1>0 DEF IsOpen
  <2>2. IsChecked(r, id)' => IsChecked(r, id)
    BY <1>0, <1>2 DEF IsChecked, Latest, x
  <2>3. IsTold(r, id) => IsTold(r, id)'
    BY <1>1, <1>2 DEF IsTold
  <2> QED BY <2>1, <2>2, <2>3
<1>8. CASE x.id = 0 /\ \A u \in Teams : team'.challenge[u] = team.challenge[u]
  <2>1. CurrentsStay
    <3> SUFFICES ASSUME NEW r \in Runs, NEW id \in Nat
                 PROVE  (IsTold(r, id)' => IsTold(r, id)) /\ (Taken(r, id) => Taken(r, id)')
      BY <1>7 DEF CurrentsStay
    <3>1. IsTold(r, id)' => IsTold(r, id)
      BY <1>2, <1>8 DEF IsTold, x
    <3>2. TeamOf[r] \in Teams
      BY DEF Teams
    <3>3. Taken(r, id) => Taken(r, id)'
      BY <1>8, <3>2 DEF Taken
    <3> QED BY <3>1, <3>3
  <2>2. Currents'
    BY <1>0, <2>1, CurrentsKept
  <2> QED BY <1>4, <1>5, <1>6, <2>2 DEF Answering
<1>9. CASE /\ x.id = n0
           /\ \A u \in Teams : team'.challenge[u] = IF u = TeamOf[r0] THEN [run |-> r0, id |-> n0] ELSE team.challenge[u]
  <2>1. ASSUME faults' = 0, NEW r \in Runs, NEW id \in Nat PROVE Current(r, id)'
    <3>1. Current(r, id) /\ TeamOf[r] \in Teams /\ TeamOf[r0] \in Teams
      BY <1>0, <1>1, <2>1 DEF Currents, Teams
    <3>2. n0 \in Nat /\ n0 # 0
      BY <1>0
    <3>3. TeamOf[r] # TeamOf[r0] /\ Taken(r, id) => Taken(r, id)'
      BY <1>9, <3>1 DEF Taken
    <3> HIDE DEF n0
    <3>4. TeamOf[r] = TeamOf[r0] => Newer(TeamOf[r])'
      <4>1. PICK q \in Runs, n \in Nat : q = r0 /\ n = n0 /\ n # 0
        BY <1>1, <3>2
      <4>2. IsTold(q, n)'
        BY <1>1, <1>2, <1>9, <4>1 DEF IsTold, x
      <4> QED BY <4>1, <4>2 DEF Newer
    <3>5. Newer(TeamOf[r]) => Newer(TeamOf[r])'
      BY <1>7 DEF Newer
    <3>6. Stand(r, id) => Stand(r, id)'
      BY <3>3, <3>4, <3>5 DEF Stand
    <3>7. ASSUME IsTold(r, id)' PROVE Taken(r, id)'
      <4>1. PICK d \in Calls : call'[d].at = "told" /\ call'[d].run = r /\ call'[d].id = id /\ id # 0
        BY <3>7 DEF IsTold
      <4>2. CASE d = c
        <5>1. r = r0 /\ id = n0
          BY <1>2, <1>9, <4>1, <4>2 DEF x
        <5> QED BY <1>9, <3>1, <5>1 DEF Taken
      <4>3. CASE d # c
        <5>1. call'[d] = call[d]
          BY <1>2, <4>3
        <5>2. IsTold(r, id)
          BY <4>1, <5>1 DEF IsTold
        <5>3. TeamOf[r] # TeamOf[r0]
          BY <1>0, <1>1, <4>1, <4>3, <5>1 DEF OneOpens
        <5> QED BY <3>1, <3>3, <5>2, <5>3 DEF Current
      <4> QED BY <4>2, <4>3
    <3> QED BY <1>7, <3>1, <3>6, <3>7 DEF Current
  <2>2. Currents'
    BY <2>1 DEF Currents
  <2> QED BY <1>4, <1>5, <1>6, <2>2 DEF Answering
<1> QED BY <1>3, <1>8, <1>9

(* Only an opening mints a challenge; an answer Team takes clears one.     *)
ChallengesStill == team'.minted = team.minted /\ \A t \in Teams : team'.challenge[t] \in {team.challenge[t], None}

LEMMA ChallengesStay ==
  ASSUME Typed, Next, \A c \in Calls : ~OpenAsks(c)
  PROVE  ChallengesStill
<1>0. team \in TeamRecs
  BY DEF Typed
<1>9. team'.challenge = team.challenge /\ team'.minted = team.minted => ChallengesStill
  BY DEF ChallengesStill
<1>1. ASSUME Reserve \/ LongUnasked PROVE ChallengesStill
  <2>1. team' = team \/ \E r \in Runs : team' = [team EXCEPT !.status[r] = "leased"]
    BY <1>1, RoutinesAssumption DEF Reserve, LongUnasked
  <2> QED BY <1>0, <1>9, <2>1 DEF TeamRecs
<1>2. ASSUME NEW i \in DOMAIN workers, NEW s \in {"done", "held", "frozen", "frozen-integration"}, Segment(i, s)
      PROVE  ChallengesStill
  <2>1. workers[i] \in Segments
    BY DEF Typed
  <2>2. workers[i].run \in Runs /\ team' = Stands(team, workers[i].run, s)
    BY <1>2, <2>1 DEF Segment, Segments
  <2>3. StoodAs(team, Stands(team, workers[i].run, s), workers[i].run, s)
    BY <1>0, <2>2, StandsIs
  <2> QED BY <1>9, <2>2, <2>3 DEF StoodAs
<1>3. ASSUME NEW r \in Runs, LeaseEnds(r) \/ Comes(r) PROVE ChallengesStill
  <2>1. team' = [team EXCEPT !.status[r] = "due"]
    BY <1>3 DEF LeaseEnds, Comes
  <2> QED BY <1>0, <1>9, <2>1 DEF TeamRecs
<1>4. ASSUME Acknowledge \/ AcknowledgeLost PROVE ChallengesStill
  <2>1. sch.acks \in Seq(Seq(Notices)) /\ sch.acks # <<>> /\ team' = Acked(team, Head(sch.acks))
    BY <1>4 DEF Acknowledge, AcknowledgeLost, Scheduler, Typed
  <2>2. Head(sch.acks) \in Seq(Notices)
    BY <2>1
  <2>3. Acked(team, Head(sch.acks)).challenge = team.challenge /\ Acked(team, Head(sch.acks)).minted = team.minted
    BY <1>0, <2>2, AckedIs
  <2> QED BY <1>9, <2>1, <2>3
<1>5. ASSUME NEW c \in Calls, NEW s \in {"done", "held"}, ResumeAsks(c, s) PROVE ChallengesStill
  <2>1. CASE team' = team
    BY <1>9, <2>1
  <2>2. CASE team' # team
    <3>1. PICK z \in {"done", "held", "denied"} :
            team' = [Stands(team, call[c].run, z) EXCEPT !.challenge[TeamOf[call[c].run]] = [run |-> NoRun, id |-> 0]]
      BY <1>5, <2>2, ResumeIs
    <3> DEFINE u == Stands(team, call[c].run, z)
    <3>2. call[c].run \in Runs
      BY <1>5, ResumeIs
    <3>3. u \in TeamRecs /\ u.challenge = team.challenge /\ u.minted = team.minted
      <4>1. StoodAs(team, Stands(team, call[c].run, z), call[c].run, z)
        BY <1>0, <3>2, StandsIs
      <4> QED BY <4>1 DEF StoodAs
    <3> HIDE DEF u
    <3> DEFINE w == [u EXCEPT !.challenge[TeamOf[call[c].run]] = [run |-> NoRun, id |-> 0]]
    <3>4. w.minted = u.minted /\ \A t \in Teams : w.challenge[t] = IF t = TeamOf[call[c].run] THEN None ELSE u.challenge[t]
      BY <3>3, ClearedIs
    <3>5. team' = w
      BY <3>1 DEF u
    <3> HIDE DEF w
    <3> QED BY <3>3, <3>4, <3>5 DEF ChallengesStill
  <2> QED BY <2>1, <2>2
<1>6. ASSUME NEW c \in Calls, Person(c) PROVE ChallengesStill
  <2>1. ASSUME NEW r \in Runs,
               \/ RoutinesPause(c, r) \/ RoutinesResume(c, r) \/ RoutinesDelete(c, r)
               \/ RoutinesCardAnswer(c, r) \/ RoutinesProposalConfirm(c, r) \/ RoutinesProposalRevoke(c, r)
        PROVE  ChallengesStill
    <3>1. team' \in {Paused(team, r), Resumed(team, r), Deleted(team, r), CardAnswered(team, r), Confirmed(team, r), Revoked(team, r)}
      BY <2>1 DEF RoutinesPause, RoutinesResume, RoutinesDelete, RoutinesCardAnswer, RoutinesProposalConfirm, RoutinesProposalRevoke, Change
    <3> QED BY <1>0, <1>9, <3>1, ChangeIs
  <2>2. ASSUME NEW r \in Runs, OpenChallenge(c, r) \/ Integrations(c, r) \/ \E id \in 1..2 : Answer(c, r, id)
        PROVE  ChallengesStill
    BY <1>9, <2>2 DEF OpenChallenge, Integrations, Answer
  <2> QED BY <1>6, <2>1, <2>2 DEF Person
<1>7. ASSUME NEW c \in Calls,
             \/ OpenLocked(c) \/ OpenTimesOut(c) \/ OpenTold(c) \/ Refused(c) \/ Settled(c) \/ OpenLost(c) \/ SettledInvalid(c)
             \/ \E live \in BOOLEAN : Rejected(c, live)
             \/ \E current, denied \in BOOLEAN : Authenticated(c, current, denied)
      PROVE  ChallengesStill
  BY <1>7, <1>9 DEF OpenLocked, OpenTimesOut, OpenTold, Refused, Settled, OpenLost, SettledInvalid, Rejected, Authenticated
<1>8. ASSUME \/ Tick \/ Fetch \/ Write \/ StartRuns \/ Claimed \/ IdentityFails \/ ClaimFails \/ Expire \/ Crash
             \/ (\E at \in {"fetch", "write", "ack"} : DeliveryFails(at)) \/ \E i \in DOMAIN workers : RunClaimed(i)
      PROVE  ChallengesStill
  BY <1>8, <1>9 DEF Tick, Fetch, Write, StartRuns, Claimed, IdentityFails, ClaimFails, Expire, Crash, DeliveryFails, RunClaimed
<1> QED BY <1>1, <1>2, <1>3, <1>4, <1>5, <1>6, <1>7, <1>8 DEF Next, Scheduling, Failing, TeamActs, CallGoesOn


(* A call that begins or ends, and opens, takes or tells nothing.          *)
LEMMA AnsweringPlain ==
  ASSUME Typed, Answering, ChallengesStill, NEW c \in Calls, NEW x \in CallRecs, call' = [call EXCEPT ![c] = x],
         kept' \in KeptRecs, kept'.gens = kept.gens, kept'.next = kept.next, Fewer(kept'),
         x.at \notin {"told", "check"}, x.id \in {0, call[c].id}, x.gen \in {0, call[c].gen},
         faults' = 0 => ~(call[c].at = "told" /\ call[c].id # 0), faults' = 0 => faults = 0,
         opening' \in [Teams -> Locks],
         x.at = "open" => opening'[TeamOf[x.run]].holder = c,
         \A d \in Calls \ {c} : call[d].at \in {"open", "told"} => opening'[TeamOf[call[d].run]].holder = d
  PROVE  Answering'
<1>1. KeptTyped /\ \A d \in Calls : call'[d] = IF d = c THEN x ELSE call[d]
  BY DEF Typed, Answering
<1>2. KeptTyped'
  <2>1. kept.next \in Nat
    BY <1>1 DEF KeptTyped
  <2>2. \A d \in Calls : call'[d].gen <= kept'.next
    BY <1>1, <2>1 DEF KeptTyped
  <2>3. \A i \in DOMAIN kept'.gens : kept'.gens[i].gen <= kept'.next
    BY <1>1 DEF KeptTyped
  <2> QED BY <2>2, <2>3 DEF KeptTyped, KeptRecs
<1>3. OneOpens'
  BY <1>1 DEF OneOpens, Locks
<1>4. \A t, g : Latest(t, g)' => Latest(t, g)
  BY DEF Latest
<1>5. \A d \in Calls : Calm(d)
  BY <1>1 DEF Calm
<1> QED BY <1>2, <1>3, <1>4, <1>5, AnsweringQuiet DEF ChallengesStill

LEMMA AskedTells ==
  ASSUME Typed, NEW c \in Calls, OpenAsks(c)
  PROVE  call[c].at = "open" /\ call'[c].at = "told"
<1>1. call \in [Calls -> CallRecs] /\ call[c] \in CallRecs
  BY DEF Typed
<1>2. PICK y \in {[call[c] EXCEPT !.at = "told", !.id = team.minted + 1], [call[c] EXCEPT !.at = "told", !.reply = "integrations-required"],
                  [call[c] EXCEPT !.at = "told", !.reply = "refused"]} : call' = [call EXCEPT ![c] = y]
  BY OpenAsksIs
<1>3. y.at = "told"
  BY <1>1, <1>2 DEF CallRecs
<1>4. call'[c] = y
  BY <1>1, <1>2
<1> QED BY <1>3, <1>4, OpenAsksIs

LEMMA AnsweringBegun ==
  ASSUME Typed, Answering, Next, NEW c \in Calls, Person(c)
  PROVE  Answering'
<1>0. /\ KeptTyped /\ OneOpens /\ kept \in KeptRecs /\ opening \in [Teams -> Locks]
      /\ \A r \in Runs : TeamOf[r] \in Teams
      /\ \A d \in Calls : call[d].at \in {"open", "told"} => call[d].run \in Runs /\ opening[TeamOf[call[d].run]].holder = d
  BY DEF Typed, Carries, Answering, KeptTyped, KeptRecs, OneOpens, Locks, Teams
<1>1. faults' = 0 => faults = 0
  BY FaultsTyped
<1>2. Over \in CallRecs /\ Over.id = 0 /\ Over.gen = 0 /\ Over.at = "over"
  BY DEF Over, Idle, CallRecs, Ops
<1>3. ASSUME NEW x \in CallRecs, call' = [call EXCEPT ![c] = x], call[c].at = "idle", x.at \notin {"open", "told", "check"},
             x.id = 0, x.gen = 0, kept' = kept, ChallengesStill, opening' \in [Teams -> Locks],
             \A t \in Teams : opening'[t].holder = opening[t].holder
      PROVE  Answering'
  <2>1. Fewer(kept')
    BY <1>0, <1>3, FewerStill
  <2>2. \A d \in Calls \ {c} : call[d].at \in {"open", "told"} => opening'[TeamOf[call[d].run]].holder = d
    BY <1>0, <1>3
  <2> QED BY <1>0, <1>1, <1>3, <2>1, <2>2, AnsweringPlain
<1>4. ASSUME NEW r \in Runs, OpenChallenge(c, r) PROVE Answering'
  <2> DEFINE x == [Idle EXCEPT !.op = "open", !.run = r, !.at = "wait"]
             t == TeamOf[r]
             a == [opening[t] EXCEPT !.count = opening[t].count + 1]
  <2>1. /\ call[c].at = "idle" /\ kept' = kept /\ team' = team
        /\ \/ call' = [call EXCEPT ![c] = Over] /\ opening' = opening
           \/ call' = [call EXCEPT ![c] = x] /\ opening' = [opening EXCEPT ![t] = a]
    BY <1>4 DEF OpenChallenge, Begins
  <2>2. x \in CallRecs /\ x.id = 0 /\ x.gen = 0 /\ x.at = "wait"
    BY DEF Idle, CallRecs, Ops
  <2>3. t \in Teams /\ a \in Locks /\ a.holder = opening[t].holder
    BY <1>0 DEF Locks
  <2> HIDE DEF x, t, a
  <2>4. opening' \in [Teams -> Locks] /\ \A u \in Teams : opening'[u].holder = opening[u].holder
    BY <1>0, <2>1, <2>3
  <2>5. ChallengesStill
    BY <2>1 DEF ChallengesStill
  <2> QED BY <1>2, <1>3, <2>1, <2>2, <2>4, <2>5
<1>5. ASSUME NEW r \in Runs, Integrations(c, r) PROVE Answering'
  <2> DEFINE x == [Idle EXCEPT !.op = "integrations", !.run = r, !.at = "resume"]
  <2>1. call[c].at = "idle" /\ kept' = kept /\ team' = team /\ opening' = opening /\ call' = [call EXCEPT ![c] = x]
    BY <1>5 DEF Integrations, Begins
  <2>2. x \in CallRecs /\ x.id = 0 /\ x.gen = 0 /\ x.at = "resume"
    BY DEF Idle, CallRecs, Ops
  <2> HIDE DEF x
  <2>3. ChallengesStill
    BY <2>1 DEF ChallengesStill
  <2> QED BY <1>0, <1>3, <2>1, <2>2, <2>3
<1>6. ASSUME NEW r \in Runs,
             \/ RoutinesPause(c, r) \/ RoutinesResume(c, r) \/ RoutinesDelete(c, r)
             \/ RoutinesCardAnswer(c, r) \/ RoutinesProposalConfirm(c, r) \/ RoutinesProposalRevoke(c, r)
      PROVE  Answering'
  <2>1. PICK op \in {"pause", "resume", "delete", "card-answer", "confirm", "revoke"} :
          /\ call[c].at = "idle" /\ kept' = kept /\ opening' = opening
          /\ call' = [call EXCEPT ![c] = Over] \/ call' = [call EXCEPT ![c] = [Idle EXCEPT !.op = op, !.run = r, !.at = "settle"]]
    BY <1>6 DEF RoutinesPause, RoutinesResume, RoutinesDelete, RoutinesCardAnswer, RoutinesProposalConfirm, RoutinesProposalRevoke, Change, Begins
  <2> DEFINE x == [Idle EXCEPT !.op = op, !.run = r, !.at = "settle"]
  <2>2. x \in CallRecs /\ x.id = 0 /\ x.gen = 0 /\ x.at = "settle"
    BY DEF Idle, CallRecs, Ops
  <2>3. call' = [call EXCEPT ![c] = Over] \/ call' = [call EXCEPT ![c] = x]
    BY <2>1
  <2> HIDE DEF x
  <2>4. \A d \in Calls : ~OpenAsks(d)
    <3>1. \A d \in Calls : OpenAsks(d) => call[d].at = "open" /\ call'[d].at = "told"
      BY AskedTells
    <3> QED BY <1>2, <2>1, <2>2, <2>3, <3>1 DEF Typed
  <2>5. ChallengesStill
    BY <2>4, ChallengesStay
  <2> QED BY <1>0, <1>2, <1>3, <2>1, <2>2, <2>3, <2>5
<1>7. ASSUME NEW r \in Runs, NEW id \in 1..2, Answer(c, r, id) PROVE Answering'
  <2> DEFINE g == Generation(kept, TeamOf[r])
             x == [Idle EXCEPT !.op = "human", !.run = r, !.at = "check", !.id = id, !.gen = g, !.live = TRUE]
             there == OpenOf(kept, r, id)
  <2>1. /\ call[c].at = "idle" /\ team' = team /\ opening' = opening /\ faults' = faults
        /\ \/ call' = [call EXCEPT ![c] = Over] /\ (kept' = kept \/ kept' = Take(kept, r, id))
           \/ there # <<>> /\ kept' = Take(kept, r, id) /\ call' = [call EXCEPT ![c] = x]
    BY <1>7 DEF Answer, Begins
  <2>2. g \in Nat /\ id \in Nat
    BY <1>0, GenerationIs
  <2> HIDE DEF g, there
  <2>3. x \in CallRecs /\ x.at = "check" /\ x.run = r /\ x.id = id /\ x.gen = g
    BY <2>2 DEF Idle, CallRecs, Ops
  <2> HIDE DEF x
  <2>4. ChallengesStill
    BY <2>1 DEF ChallengesStill
  <2>5. CASE call' = [call EXCEPT ![c] = Over] /\ (kept' = kept \/ kept' = Take(kept, r, id))
    <3>1. kept' \in KeptRecs /\ kept'.gens = kept.gens /\ kept'.next = kept.next /\ Fewer(kept')
      BY <1>0, <2>5, FewerStill, TakeIs, AmongFewer
    <3>2. \A d \in Calls \ {c} : call[d].at \in {"open", "told"} => opening'[TeamOf[call[d].run]].holder = d
      BY <1>0, <2>1
    <3> QED BY <1>0, <1>1, <1>2, <2>1, <2>4, <2>5, <3>1, <3>2, AnsweringPlain
  <2>6. CASE there # <<>> /\ kept' = Take(kept, r, id) /\ call' = [call EXCEPT ![c] = x]
    BY <2>1, <2>2, <2>3, <2>6, AnsweringTaken DEF there, g
  <2> QED BY <2>1, <2>5, <2>6
<1> QED BY <1>4, <1>5, <1>6, <1>7 DEF Person

LEMMA AnsweringGoesOn ==
  ASSUME Typed, Answering, Next, NEW c \in Calls, CallGoesOn(c) \/ OpenLost(c) \/ SettledInvalid(c)
  PROVE  Answering'
<1>0. /\ KeptTyped /\ OneOpens /\ kept \in KeptRecs /\ opening \in [Teams -> Locks]
      /\ \A r \in Runs : TeamOf[r] \in Teams
      /\ \A d \in Calls : call[d].at \in {"open", "told"} => call[d].run \in Runs /\ opening[TeamOf[call[d].run]].holder = d
      /\ \A d \in Calls : call[d].at \in {"wait", "open", "told", "check", "resume"} => call[d].run \in Runs
      /\ \A d \in Calls : call[d] \in CallRecs /\ Carries(call[d])
  BY DEF Typed, Carries, Answering, KeptTyped, KeptRecs, OneOpens, Locks, Teams
<1>1. (faults' = 0 => faults = 0) /\ faults \in Nat
  BY FaultsTyped DEF Typed
<1>2. Over \in CallRecs /\ Over.id = 0 /\ Over.gen = 0 /\ Over.at = "over"
  BY DEF Over, Idle, CallRecs, Ops
<1>3. ASSUME NEW x \in CallRecs, call' = [call EXCEPT ![c] = x], x.at \notin {"told", "check"},
             x.id \in {0, call[c].id}, x.gen \in {0, call[c].gen}, kept' = kept, ChallengesStill,
             faults' = 0 => ~(call[c].at = "told" /\ call[c].id # 0), opening' \in [Teams -> Locks],
             x.at = "open" => opening'[TeamOf[x.run]].holder = c,
             \A d \in Calls \ {c} : call[d].at \in {"open", "told"} => opening'[TeamOf[call[d].run]].holder = d
      PROVE  Answering'
  <2>1. Fewer(kept')
    BY <1>0, <1>3, FewerStill
  <2> QED BY <1>0, <1>1, <1>3, <2>1, AnsweringPlain
<1>4. ASSUME OpenLocked(c) PROVE Answering'
  <2> DEFINE x == [call[c] EXCEPT !.at = "open"]
             t == TeamOf[call[c].run]
             a == [opening[t] EXCEPT !.holder = c]
  <2>1. /\ call[c].at = "wait" /\ opening[t].holder = 0 /\ kept' = kept /\ team' = team
        /\ call' = [call EXCEPT ![c] = x] /\ opening' = [opening EXCEPT ![t] = a]
    BY <1>4 DEF OpenLocked
  <2>2. x \in CallRecs /\ x.id = call[c].id /\ x.gen = call[c].gen /\ x.at = "open" /\ x.run = call[c].run
    BY <1>0 DEF CallRecs
  <2>3. t \in Teams /\ a \in Locks /\ a.holder = c
    BY <1>0, <2>1 DEF Locks
  <2>4. \A d \in Calls : d # 0
    BY RoutinesAssumption
  <2> HIDE DEF x, a
  <2>5. \A d \in Calls \ {c} : call[d].at \in {"open", "told"} => opening'[TeamOf[call[d].run]].holder = d
    BY <1>0, <2>1, <2>3, <2>4
  <2>6. opening' \in [Teams -> Locks] /\ opening'[TeamOf[x.run]].holder = c
    BY <1>0, <2>1, <2>2, <2>3
  <2>7. ChallengesStill
    BY <2>1 DEF ChallengesStill
  <2> QED BY <1>3, <2>1, <2>2, <2>5, <2>6, <2>7
<1>5. ASSUME OpenTimesOut(c) PROVE Answering'
  <2> DEFINE t == TeamOf[call[c].run]
  <2>1. /\ call[c].at = "wait" /\ kept' = kept /\ team' = team /\ call' = [call EXCEPT ![c] = Over] /\ opening' = Opened(t)
    BY <1>5 DEF OpenTimesOut
  <2>2. t \in Teams
    BY <1>0, <2>1
  <2>3. opening' \in [Teams -> Locks] /\ \A u \in Teams : opening'[u].holder = opening[u].holder
    BY <1>0, <2>1, <2>2, OpenedIs
  <2>4. \A d \in Calls \ {c} : call[d].at \in {"open", "told"} => opening'[TeamOf[call[d].run]].holder = d
    BY <1>0, <2>3
  <2>5. ChallengesStill
    BY <2>1 DEF ChallengesStill
  <2> QED BY <1>2, <1>3, <2>1, <2>3, <2>4, <2>5
<1>6. ASSUME OpenAsks(c) PROVE Answering'
  BY <1>6, AnsweringAsked
<1>7. ASSUME OpenTold(c) \/ OpenLost(c) PROVE Answering'
  <2>1. CASE OpenTold(c) /\ call[c].id # 0
    BY <2>1, AnsweringTold
  <2>2. CASE ~(OpenTold(c) /\ call[c].id # 0)
    <3>1. /\ call[c].at = "told" /\ kept' = kept /\ team' = team /\ call' = [call EXCEPT ![c] = Over] /\ opening' = Released(c)
          /\ faults' = 0 => ~(call[c].at = "told" /\ call[c].id # 0)
      BY <1>1, <1>7, <2>2 DEF OpenTold, OpenLost
    <3>2. /\ opening' \in [Teams -> Locks]
          /\ \A t \in Teams : opening'[t].holder = IF t = TeamOf[call[c].run] /\ opening[t].holder = c THEN 0 ELSE opening[t].holder
      BY <1>0, <3>1, ReleasedIs
    <3>3. \A d \in Calls \ {c} : call[d].at \in {"open", "told"} => opening'[TeamOf[call[d].run]].holder = d
      BY <1>0, <3>2
    <3>4. ChallengesStill
      BY <3>1 DEF ChallengesStill
    <3> QED BY <1>2, <1>3, <3>1, <3>2, <3>3, <3>4
  <2> QED BY <2>1, <2>2
<1>8. ASSUME NEW live \in BOOLEAN, Rejected(c, live) PROVE Answering'
  <2> DEFINE o == [run |-> call[c].run, id |-> call[c].id, live |-> live]
  <2>1. /\ call[c].at = "check" /\ team' = team /\ opening' = opening /\ faults' = faults /\ call' = [call EXCEPT ![c] = Over]
        /\ kept' = Restore(kept, o, call[c].gen)
    BY <1>8 DEF Rejected
  <2>2. o \in Open /\ o.run = call[c].run /\ o.id = call[c].id
    BY <1>0, <2>1 DEF Open, Carries, CallRecs
  <2> HIDE DEF o
  <2>3. kept' = kept \/ (Latest(TeamOf[o.run], call[c].gen) /\ OpensOnly(kept, kept', o))
    BY <1>0, <2>1, <2>2, RestoreIs
  <2>4. ChallengesStill
    BY <2>1 DEF ChallengesStill
  <2>5. CASE kept' = kept
    BY <1>0, <1>2, <1>3, <2>1, <2>4, <2>5
  <2>6. CASE Latest(TeamOf[o.run], call[c].gen) /\ OpensOnly(kept, kept', o)
    BY <2>1, <2>2, <2>6, AnsweringRestored
  <2> QED BY <2>3, <2>5, <2>6
<1>9. ASSUME NEW current \in BOOLEAN, NEW denied \in BOOLEAN, Authenticated(c, current, denied) PROVE Answering'
  <2> DEFINE word == IF denied THEN "denied" ELSE "none"
             x == [call[c] EXCEPT !.at = "resume", !.reply = word]
  <2>1. /\ call[c].at = "check" /\ team' = team /\ opening' = opening /\ kept' = kept
        /\ \E u \in {x, Over} : call' = [call EXCEPT ![c] = u]
    BY <1>9 DEF Authenticated
  <2>2. x \in CallRecs /\ x.id = call[c].id /\ x.gen = call[c].gen /\ x.at = "resume"
    <3>1. word \in {"denied", "none"} /\ call[c] \in CallRecs
      BY <1>0
    <3> HIDE DEF word
    <3>2. x.id = call[c].id /\ x.gen = call[c].gen /\ x.at = "resume"
      BY <3>1 DEF CallRecs
    <3>3. x \in CallRecs
      BY <3>1 DEF CallRecs
    <3> QED BY <3>2, <3>3
  <2> HIDE DEF x
  <2>3. ChallengesStill
    BY <2>1 DEF ChallengesStill
  <2> QED BY <1>0, <1>2, <1>3, <2>1, <2>2, <2>3
<1>10. ASSUME Refused(c) \/ Settled(c) \/ SettledInvalid(c) \/ \E s \in {"done", "held"} : ResumeAsks(c, s) PROVE Answering'
  <2>1. /\ call[c].at \in {"check", "settle", "resume"} /\ opening' = opening /\ kept' = kept /\ call' = [call EXCEPT ![c] = Over]
    BY <1>10 DEF Refused, Settled, SettledInvalid, ResumeAsks
  <2>2. \A d \in Calls : ~OpenAsks(d)
    <3>1. \A d \in Calls : OpenAsks(d) => call[d].at = "open" /\ call'[d].at = "told"
      BY AskedTells
    <3> QED BY <1>2, <2>1, <3>1 DEF Typed
  <2>3. ChallengesStill
    BY <2>2, ChallengesStay
  <2> QED BY <1>0, <1>2, <1>3, <2>1, <2>3
<1> QED BY <1>4, <1>5, <1>6, <1>7, <1>8, <1>9, <1>10 DEF CallGoesOn

LEMMA AnsweringKept ==
  ASSUME Typed, Answering, Next
  PROVE  Answering'
<1>0. KeptTyped /\ OneOpens /\ faults \in Nat /\ (faults' = 0 => faults = 0) /\ \A d \in Calls : call[d] \in CallRecs /\ Carries(call[d])
  BY FaultsTyped DEF Typed, Answering
<1>1. ASSUME UNCHANGED <<call, opening>>, KeptTyped', Fewer(kept'), \A t, g : Latest(t, g)' => Latest(t, g) PROVE Answering'
  <2>1. \A d \in Calls : ~OpenAsks(d)
    <3>1. \A d \in Calls : OpenAsks(d) => call[d].at = "open" /\ call'[d].at = "told"
      BY AskedTells
    <3> QED BY <1>1, <3>1
  <2>2. ChallengesStill
    BY <2>1, ChallengesStay
  <2>3. OneOpens'
    BY <1>0, <1>1 DEF OneOpens
  <2>4. \A d \in Calls : Calm(d)
    BY <1>1 DEF Calm
  <2> QED BY <1>0, <1>1, <2>2, <2>3, <2>4, AnsweringQuiet DEF ChallengesStill
<1>2. ASSUME OfScheduler \/ OfTeam PROVE Answering'
  <2>1. UNCHANGED <<kept, opening, call>>
    BY <1>2, SchedulerMoves, TeamMoves
  <2>2. KeptTyped' /\ Fewer(kept') /\ \A t, g : Latest(t, g)' => Latest(t, g)
    BY <1>0, <2>1, FewerStill DEF KeptTyped, Latest
  <2> QED BY <1>1, <2>1, <2>2
<1>3. ASSUME Expire PROVE Answering'
  <2>1. /\ UNCHANGED <<call, opening>>
        /\ \E i \in DOMAIN kept.open : kept' = [kept EXCEPT !.open[i].live = FALSE]
    BY <1>3 DEF Expire
  <2>2. PICK i \in DOMAIN kept.open : kept' = [kept EXCEPT !.open[i].live = FALSE]
    BY <2>1
  <2> DEFINE o == [kept.open[i] EXCEPT !.live = FALSE]
             s == [kept.open EXCEPT ![i] = o]
  <2>3. kept' = [kept EXCEPT !.open = s]
    BY <2>2
  <2>4. kept.open \in Seq(Open) /\ kept.open[i] \in Open
    BY <1>0 DEF KeptTyped
  <2>5. o \in Open /\ o.run = kept.open[i].run /\ o.id = kept.open[i].id
    BY <2>4 DEF Open
  <2> HIDE DEF o
  <2>6. s \in Seq(Open) /\ DOMAIN s = DOMAIN kept.open /\ \A k \in DOMAIN s : s[k] = IF k = i THEN o ELSE kept.open[k]
    BY <2>4, <2>5
  <2> HIDE DEF s
  <2>7. kept' \in [open : Seq(Open), gens : Seq([team : Teams, gen : Nat \ {0}]), next : Nat] /\ kept'.open = s /\ kept'.gens = kept.gens /\ kept'.next = kept.next
    BY <1>0, <2>3, <2>6 DEF KeptTyped
  <2>8. KeptTyped' /\ \A t, g : Latest(t, g)' => Latest(t, g)
    BY <1>0, <2>1, <2>7 DEF KeptTyped, Latest
  <2>9. Fewer(kept')
    <3> DEFINE at == [k \in DOMAIN s |-> k]
    <3>1. at \in [DOMAIN s -> DOMAIN kept.open] /\ \A k \in DOMAIN s : at[k] = k
      BY <2>6
    <3> HIDE DEF at
    <3>2. \A k \in DOMAIN s : s[k].run = kept.open[at[k]].run /\ s[k].id = kept.open[at[k]].id
      BY <2>5, <2>6, <3>1
    <3> DEFINE g == kept'
    <3>3. g.open = s
      BY <2>7
    <3> HIDE DEF g
    <3>4. Fewer(g)
      BY <3>1, <3>2, <3>3 DEF Fewer
    <3> QED BY <3>4 DEF g
  <2> QED BY <1>1, <2>1, <2>8, <2>9
<1>4. ASSUME Crash PROVE Answering'
  <2>1. /\ team' = team /\ faults' = faults + 1 /\ kept' = NewKept
        /\ opening' = [t \in Teams |-> [holder |-> 0, count |-> 0]]
        /\ call' = [c \in Calls |-> IF call[c].at \in {"idle", "over"} THEN call[c] ELSE Over]
    BY <1>4 DEF Crash
  <2>2. kept'.open = <<>> /\ kept'.gens = <<>> /\ kept'.next = 0 /\ kept' \in KeptRecs
    BY <2>1 DEF NewKept, KeptRecs
  <2>3. \A d \in Calls : call'[d].at \in {"idle", "over"} /\ call'[d].gen = 0 /\ call'[d].id \in {0, call[d].id}
    BY <1>0, <2>1 DEF Over, Idle, Carries, CallRecs
  <2>4. KeptTyped'
    BY <2>2, <2>3 DEF KeptTyped, KeptRecs
  <2>5. OneOpens'
    BY <2>1, <2>3 DEF OneOpens
  <2>6. Fewer(kept')
    <3> DEFINE at == [k \in DOMAIN kept'.open |-> 1]
    <3>1. DOMAIN kept'.open = {}
      BY <2>2
    <3>2. at \in [DOMAIN kept'.open -> DOMAIN kept.open]
      BY <3>1
    <3> HIDE DEF at
    <3> QED BY <3>1, <3>2 DEF Fewer
  <2>7. \A t, g : Latest(t, g)' => Latest(t, g)
    BY <2>2 DEF Latest
  <2>8. \A d \in Calls : Calm(d)
    BY <1>0, <2>1, <2>3 DEF Calm
  <2> QED BY <1>0, <2>1, <2>4, <2>5, <2>6, <2>7, <2>8, AnsweringQuiet
<1>5. ASSUME NEW c \in Calls, Person(c) \/ CallGoesOn(c) \/ OpenLost(c) \/ SettledInvalid(c) PROVE Answering'
  BY <1>5, AnsweringBegun, AnsweringGoesOn
<1> QED BY <1>2, <1>3, <1>4, <1>5, NextIs DEF OfCall

-----------------------------------------------------------------------------
(* The invariant.                                                          *)

LEMMA AnswersCurrent ==
  ASSUME Typed, Answering
  PROVE  AnswersOnce
<1>0. KeptTyped /\ OnePlace /\ Currents /\ \A c \in Calls : call[c] \in CallRecs /\ Carries(call[c])
  BY DEF Typed, Answering
<1>1. OpenIsCurrent
  <2> SUFFICES ASSUME faults = 0, NEW i \in DOMAIN kept.open
               PROVE  \/ team.challenge[TeamOf[kept.open[i].run]] \in {[run |-> kept.open[i].run, id |-> kept.open[i].id], [run |-> NoRun, id |-> 0]}
                      \/ \E c \in Calls : call[c].at = "told" /\ TeamOf[call[c].run] = TeamOf[kept.open[i].run]
    BY DEF OpenIsCurrent
  <2> DEFINE r == kept.open[i].run
             id == kept.open[i].id
  <2>1. r \in Runs /\ id \in Nat
    BY <1>0, OpenIs
  <2>2. IsOpen(r, id)
    BY DEF IsOpen
  <2> HIDE DEF r, id
  <2>3. Taken(r, id) \/ Newer(TeamOf[r])
    BY <1>0, <2>1, <2>2 DEF Currents, Current, Stand
  <2>4. Newer(TeamOf[r]) => \E c \in Calls : call[c].at = "told" /\ TeamOf[call[c].run] = TeamOf[r]
    BY DEF Newer, IsTold
  <2> QED BY <2>3, <2>4 DEF Taken, None, r, id
<1>2. OneAnswer
  <2> SUFFICES ASSUME NEW c \in Calls, call[c].op = "human", call[c].at \in {"check", "resume"}
               PROVE  /\ OpenOf(kept, call[c].run, call[c].id) = <<>>
                      /\ \A d \in Calls \ {c} : call[d].op = "human" => call[d].id # call[c].id
    BY DEF OneAnswer
  <2>1. call[c].id # 0
    BY <1>0 DEF Carries
  <2>2. \A i \in DOMAIN kept.open : kept.open[i].id # call[c].id
    BY <1>0 DEF OnePlace
  <2>3. OpenOf(kept, call[c].run, call[c].id) = <<>>
    BY <1>0, <2>2, OpenOfIs
  <2>4. \A d \in Calls \ {c} : call[d].id # call[c].id
    BY <1>0, <2>1 DEF OnePlace
  <2> QED BY <2>3, <2>4
<1> QED BY <1>1, <1>2 DEF AnswersOnce

LEMMA AccountsKept ==
  ASSUME RoutinesInv
  PROVE  RunsAccounted
<1>1. SlotsAccounted
  BY BooksCounted DEF RoutinesInv
<1>2. AckedIsWritten
  BY DEF RoutinesInv, Noticed, Holds, OfNotice, AckedIsWritten
<1>3. WokenForDue
  BY WokenSaid DEF RoutinesInv
<1> QED BY <1>1, <1>2, <1>3 DEF RunsAccounted

LEMMA RoutinesKept ==
  ASSUME RoutinesInv, [Next]_vars
  PROVE  RoutinesInv'
<1>1. CASE Next
  <2>1. Typed /\ Books /\ StoreTyped /\ Noticed /\ Wakeful /\ Answering /\ KeptTyped
    BY DEF RoutinesInv, Answering
  <2> QED BY <1>1, <2>1, TypedKept, BooksKept, NoticedKept, WakefulKept, AnsweringKept DEF RoutinesInv
<1>2. CASE UNCHANGED vars
  <2>0. /\ Typed /\ Books /\ StoreTyped /\ Noticed /\ Wakeful /\ Answering
        /\ team' = team /\ store' = store /\ sch' = sch /\ workers' = workers /\ kept' = kept /\ opening' = opening
        /\ call' = call /\ faults' = faults
    BY <1>2 DEF RoutinesInv, vars
  <2>1. Typed'
    BY <2>0 DEF Typed
  <2>2. Books'
    BY <2>0 DEF Books, SlotsHeld, LongHeld
  <2>3. StoreTyped'
    BY <2>0 DEF StoreTyped
  <2>4. Noticed'
    BY <2>0 DEF Noticed
  <2>5. Wakeful'
    BY <2>0 DEF Wakeful, Ready, Heard, Leased
  <2>6. Answering'
    BY <2>0 DEF Answering, KeptTyped, OnePlace, OneOpens, Currents, Current, IsOpen, IsTold, IsChecked, Latest, Taken, Newer, Stand
  <2> QED BY <2>1, <2>2, <2>3, <2>4, <2>5, <2>6 DEF RoutinesInv
<1> QED BY <1>1, <1>2

(* What Admin holds as it starts.                                          *)
LEMMA Started == Init => RoutinesInv
<1> SUFFICES ASSUME Init PROVE RoutinesInv
  OBVIOUS
<1>1. PICK start \in Starts :
       LET told == {r \in Runs : start.status[r] \in {"frozen", "frozen-integration", "held"}}
           cards == SetToSeq({r \in Runs : start.status[r] = "proposed"})
       IN /\ bounds = [calls |-> start.calls, faults |-> start.faults, version |-> start.version]
          /\ team = [status |-> start.status, dispatch |-> [r \in Runs |-> "on"],
                     version |-> [r \in Runs |-> IF r \in told THEN 1 ELSE 0],
                     outcome |-> [r \in Runs |-> IF start.status[r] = "held" THEN "held" ELSE "frozen"],
                     acked |-> [r \in Runs |-> 0],
                     challenge |-> [t \in Teams |-> [run |-> NoRun, id |-> 0]], minted |-> 0]
          /\ store = [rows |-> [i \in DOMAIN cards |-> [Row(TeamOf[cards[i]], cards[i], "reply", CardOf(cards[i]), "plain", 0)
                                                       EXCEPT !.pos = i]],
                      last |-> Len(cards), bound |-> <<>>]
  BY DEF Init
<1>2. /\ sch = NewScheduler /\ workers = <<>> /\ kept = NewKept /\ faults = 0
      /\ opening = [t \in Teams |-> [holder |-> 0, count |-> 0]]
      /\ call = [c \in Calls |-> Idle]
  BY DEF Init
<1>3. start.status \in [Runs -> StartStatuses]
  BY RoutinesAssumption
<1>4. team.status = start.status /\ team.acked = [r \in Runs |-> 0] /\ team \in TeamRecs
  <2> DEFINE vs == [r \in Runs |-> IF r \in {q \in Runs : start.status[q] \in {"frozen", "frozen-integration", "held"}} THEN 1 ELSE 0]
             os == [r \in Runs |-> IF start.status[r] = "held" THEN "held" ELSE "frozen"]
             cs == [t \in Teams |-> [run |-> NoRun, id |-> 0]]
             ds == [r \in Runs |-> "on"]
             as == [r \in Runs |-> 0]
  <2>1. team = [status |-> start.status, dispatch |-> ds, version |-> vs, outcome |-> os, acked |-> as, challenge |-> cs, minted |-> 0]
    BY <1>1
  <2>2. start.status \in [Runs -> Statuses]
    BY <1>3 DEF Statuses
  <2>3. vs \in [Runs -> Nat] /\ as \in [Runs -> Nat] /\ ds \in [Runs -> {"on", "off", "back-on"}]
    OBVIOUS
  <2>4. os \in [Runs -> Outcomes]
    BY DEF Outcomes
  <2>5. cs \in [Teams -> Challenges]
    BY DEF Challenges
  <2> HIDE DEF vs, os, cs, ds, as
  <2>6. team.status = start.status /\ team.acked = as /\ team \in TeamRecs
    BY <2>1, <2>2, <2>3, <2>4, <2>5 DEF TeamRecs
  <2> QED BY <2>6 DEF as
<1>5. Typed
  <2>1. Scheduler(sch)
    <3>1. NewScheduler \in SchRecs
      BY RoutinesAssumption DEF NewScheduler, SchRecs
    <3> QED BY <1>2, <3>1 DEF Scheduler, NewScheduler
  <2>2. Idle \in CallRecs /\ Carries(Idle)
    BY DEF Idle, CallRecs, Carries, Ops
  <2>3. call \in [Calls -> CallRecs] /\ \A c \in Calls : Carries(call[c])
    BY <1>2, <2>2
  <2> QED BY <1>2, <1>4, <2>1, <2>3 DEF Typed
<1>6. Books
  <2>1. Workers \in Nat
    BY RoutinesAssumption
  <2> QED BY <1>2, <2>1 DEF Books, SlotsHeld, LongHeld, NewScheduler
<1>7. StoreTyped
  <2>0. \A rs \in SUBSET Runs : SetToSeq(rs) \in Seq(rs)
    BY Listed
  <2> DEFINE rs == {r \in Runs : start.status[r] = "proposed"}
             cards == SetToSeq(rs)
             row(i) == [Row(TeamOf[cards[i]], cards[i], "reply", CardOf(cards[i]), "plain", 0) EXCEPT !.pos = i]
  <2>1. store = [rows |-> [i \in DOMAIN cards |-> row(i)], last |-> Len(cards), bound |-> <<>>]
    BY <1>1
  <2>2. cards \in Seq(Runs)
    <3>1. cards \in Seq(rs) /\ rs \in SUBSET Runs
      BY <2>0
    <3> HIDE DEF rs
    <3> QED BY <3>1
  <2> HIDE DEF cards
  <2>3. ASSUME NEW i \in DOMAIN cards PROVE row(i) \in RowRecs /\ row(i).suffix = "reply"
    <3>1. i \in Nat /\ cards[i] \in Runs /\ TeamOf[cards[i]] \in Teams
      BY <2>2 DEF Teams
    <3>2. CardOf(cards[i]) \in Bodies
      BY <3>1 DEF Bodies
    <3> QED BY <3>1, <3>2 DEF Row, RowRecs
  <2> HIDE DEF row
  <2> DEFINE rows == [i \in DOMAIN cards |-> row(i)]
  <2>4. rows \in Seq(RowRecs) /\ DOMAIN rows = DOMAIN cards /\ \A i \in DOMAIN rows : rows[i].suffix = "reply"
    BY <2>2, <2>3
  <2> HIDE DEF rows
  <2>5. store = [rows |-> rows, last |-> Len(cards), bound |-> <<>>] /\ Len(cards) \in Nat
    BY <2>1, <2>2 DEF rows
  <2>6. store \in [rows : Seq(RowRecs), last : Nat, bound : {<<>>}] /\ store.rows = rows
    BY <2>4, <2>5
  <2> QED BY <2>4, <2>6 DEF StoreTyped, OfNotice
<1>8. Noticed
  BY <1>2, <1>4 DEF Noticed, NewScheduler
<1>9. Wakeful
  <2>1. Heard /\ sch.at = "asleep"
    BY <1>2 DEF Heard, NewScheduler
  <2>2. \A r \in Runs : team.status[r] # "leased"
    BY <1>3, <1>4 DEF StartStatuses
  <2> QED BY <2>1, <2>2 DEF Wakeful
<1>10. Answering
  <2>0. kept.open = <<>> /\ kept.gens = <<>> /\ kept.next = 0 /\ kept \in KeptRecs
    BY <1>2 DEF NewKept, KeptRecs
  <2>1. \A c \in Calls : call[c].id = 0 /\ call[c].gen = 0 /\ call[c].at = "idle"
    BY <1>2 DEF Idle
  <2>2. KeptTyped
    BY <2>0, <2>1 DEF KeptTyped, KeptRecs
  <2>3. OnePlace
    BY <1>4, <2>0, <2>1 DEF OnePlace, TeamRecs
  <2>4. OneOpens
    BY <1>2, <2>1 DEF OneOpens
  <2>5. Currents
    BY <2>0, <2>1 DEF Currents, Current, IsOpen, IsChecked, IsTold
  <2> QED BY <2>2, <2>3, <2>4, <2>5 DEF Answering
<1> QED BY <1>5, <1>6, <1>7, <1>8, <1>9, <1>10 DEF RoutinesInv

(* Every slot of the scheduler is free, the tick's or one worker's, and the long one's    *)
(* likewise; a notice Team need not give again is in its Team's transcript; and without a *)
(* failure a scheduler that sleeps while a run may start was told so (scheduler.rs,       *)
(* delivery.rs): for every number of workers, runs, calls and failures.                   *)
THEOREM RunsAlwaysAccounted == Spec => []RunsAccounted
<1>1. Init => RoutinesInv
  BY Started
<1>2. RoutinesInv /\ [Next]_vars => RoutinesInv'
  BY RoutinesKept
<1>3. RoutinesInv => RunsAccounted
  BY AccountsKept
<1> QED BY <1>1, <1>2, <1>3, PTL DEF Spec

(* A challenge Admin keeps open is the one Team would take, or a newer is on its way, and *)
(* no challenge is checked, sent or open twice at a time (answer.rs: the Team's opening   *)
(* lock, the generation of a rejected answer, and take before the password is awaited).   *)
THEOREM AnswersAlwaysOnce == Spec => []AnswersOnce
<1>1. Init => RoutinesInv
  BY Started
<1>2. RoutinesInv /\ [Next]_vars => RoutinesInv'
  BY RoutinesKept
<1>3. RoutinesInv => AnswersOnce
  BY AnswersCurrent DEF RoutinesInv
<1> QED BY <1>1, <1>2, <1>3, PTL DEF Spec

=============================================================================
