------------------------------ MODULE History ------------------------------
(***************************************************************************)
(* The transcript store (history/store/{mod,rows,routine,page}.rs): its    *)
(* transactions and its reads, as operators on the store's contents.  Each *)
(* call of the store is one transaction under the store's lock, so an      *)
(* operator is one step of whoever calls it.                               *)
(*                                                                         *)
(* A row is identified by its Team and its event key, a turn (or a notice) *)
(* and a suffix; what it shows is its body, a record.  `origin` is no      *)
(* column: it records which life of the Team the row was written for.      *)
(***************************************************************************)
EXTENDS Selections, SequencesExt, FiniteSets

CONSTANTS PageRows,   \* PAGE_ROWS
          PageBytes,  \* MAX_PAGE_BYTES
          NoTurn

ASSUME HistoryAssumption == {PageRows, PageBytes} \subseteq Nat \ {0}

(* The empty store: SCHEMA with no row; AUTOINCREMENT never uses a position twice.         *)
Empty == [rows |-> <<>>, last |-> 0, bound |-> <<>>]

(* The rows that satisfy Test, in the order of their positions.                            *)
Where(h, Test(_)) == Select(h.rows, Test)

(* text_row, payload_at: a Team's row under an event key, as a sequence of at most one.    *)
At(h, team, turn, suffix) ==
  LET Is(r) == r.team = team /\ r.turn = turn /\ r.suffix = suffix IN Where(h, Is)

Admitted(h, team, turn) == At(h, team, turn, "user") # <<>>

(* INSERT: the row at the next position.                                                   *)
Insert(h, row) == [h EXCEPT !.rows = Append(@, [row EXCEPT !.pos = h.last + 1]), !.last = @ + 1]

(* resumable_turn: one row per Team.                                                       *)
BoundTo(h, team) ==
  LET mine == Select(h.bound, LAMBDA b : b[1] = team) IN IF mine = <<>> THEN NoTurn ELSE mine[1][2]

(* finish_resumable_turn, and the DELETE of append.                                        *)
Finish(h, turn) == [h EXCEPT !.bound = Select(@, LAMBDA b : b[2] # turn)]

(* A row as the writers build it, before it has a position.                                *)
Row(team, turn, suffix, body, prov, origin) ==
  [team |-> team, turn |-> turn, suffix |-> suffix, body |-> body, prov |-> prov, origin |-> origin, pos |-> 0]

(* INSERT OR IGNORE, then what the key holds decides whether the row is committed; a row   *)
(* that is ends the turn's resumable state when it is the turn's ending.                   *)
Written(h, row, finish) ==
  LET there == At(h, row.team, row.turn, row.suffix)
      after == IF there = <<>> THEN Insert(h, row) ELSE h
      committed == there = <<>> \/ there[1].body = row.body
  IN <<committed, IF committed /\ finish THEN Finish(after, row.turn) ELSE after>>

(* append_user.                                                                            *)
AppendUser(h, team, turn, body, attached, origin) ==
  Written(h, Row(team, turn, "user", body, IF attached THEN "attached" ELSE "plain", origin), FALSE)

(* A bug: a later row is written whether or not its turn's message is still there.         *)
AppendUnanchored(h, team, turn, suffix, body, finish, origin) ==
  Written(h, Row(team, turn, suffix, body, "plain", origin), finish)

(* append with an anchor: nothing is written unless the turn's message is there, in the    *)
(* same transaction; the row takes the message's provenance.                               *)
AppendAnchored(h, team, turn, suffix, body, finish, origin) ==
  IF ~Admitted(h, team, turn) THEN <<FALSE, h>>
  ELSE Written(h, Row(team, turn, suffix, body, At(h, team, turn, "user")[1].prov, origin), finish)

(* append_reply, append_guidance and append_uninstall end the turn's resumable state;      *)
(* append_install does unless the turn goes on with what it installed (its continuation is *)
(* dispatch); append_status when its caller says so.                                       *)
AppendReply(h, team, turn, body, o) == AppendAnchored(h, team, turn, "reply", body, TRUE, o)
AppendGuidance(h, team, turn, body, o) == AppendAnchored(h, team, turn, "guidance", body, TRUE, o)
AppendUninstall(h, team, turn, body, o) == AppendAnchored(h, team, turn, "uninstall", body, TRUE, o)
AppendStatus(h, team, turn, body, finish, o) == AppendAnchored(h, team, turn, "status", body, finish, o)
AppendInstall(h, team, turn, body, o) ==
  AppendAnchored(h, team, turn, "install", body, body.kind # "dispatch", o)

(* A bug: any turn id is bound.                                                            *)
BindAny(h, team, turn) ==
  <<BoundTo(h, team) \in {NoTurn, turn},
    IF BoundTo(h, team) = NoTurn THEN [h EXCEPT !.bound = Append(@, <<team, turn>>)] ELSE h>>

(* bind_resumable_turn: an admitted turn, unless the Team has another one; turn_id is      *)
(* UNIQUE, so a turn bound to another Team is ignored too.                                 *)
Bind(h, team, turn) ==
  IF ~Admitted(h, team, turn) THEN <<FALSE, h>>
  ELSE LET free == BoundTo(h, team) = NoTurn /\ \A i \in DOMAIN h.bound : h.bound[i][2] # turn
           after == IF free THEN [h EXCEPT !.bound = Append(@, <<team, turn>>)] ELSE h
       IN <<BoundTo(after, team) = turn, after>>

(* ended: the turn has its reply or its status.                                            *)
Ended(h, team, turn) == \E s \in {"reply", "status"} : At(h, team, turn, s) # <<>>

(* A bug: the Team's resumable turn stays.                                                 *)
ClearRowsOnly(h, team) == [h EXCEPT !.rows = Select(@, LAMBDA r : r.team # team)]

(* clear_team.                                                                             *)
ClearTeam(h, team) ==
  [h EXCEPT !.rows = Select(@, LAMBDA r : r.team # team),
            !.bound = Select(@, LAMBDA b : b[1] # team)]

(* clear_all.                                                                              *)
ClearAll(h) == [h EXCEPT !.rows = <<>>, !.bound = <<>>]

-----------------------------------------------------------------------------
(* Routine rows.  A notice's body holds its Routine, its outcome, its run and its version. *)

StoredOutcomes == {"done", "recovered", "held", "paused", "user-skipped", "skipped", "healthy", "frozen",
                   "failed", "denied", "stopped", "created", "streak-paused"}

(* The store without a notice's row.                                                       *)
Without(h, team, notice) ==
  [h EXCEPT !.rows = Select(@, LAMBDA r : ~(r.team = team /\ r.turn = notice /\ r.suffix = "routine"))]

(* write_notice: a newer version replaces the run's row and moves it to the end; an older  *)
(* one changes nothing; the same version is delivered when it is the same notice.          *)
WriteNotice(h, team, notice, body, origin) ==
  LET there == At(h, team, notice, "routine")
  IN CASE there # <<>> /\ there[1].body.version > body.version -> <<"delivered", h>>
       [] there # <<>> /\ there[1].body.version = body.version ->
            <<IF there[1].body = body THEN "delivered" ELSE "conflict", h>>
       [] there = <<>> \/ there[1].body.version < body.version ->
            <<"written", Insert(Without(h, team, notice), Row(team, notice, "routine", body, "plain", origin))>>

(* append_routine_notice: a notice no view shows is acknowledged and stored nowhere.       *)
AppendNotice(h, team, notice, body, origin) ==
  IF body.outcome \notin StoredOutcomes THEN <<"delivered", h>> ELSE WriteNotice(h, team, notice, body, origin)

(* CARD_BY_PROPOSAL: the reply that carried the card.                                      *)
Card(h, team, proposal) ==
  Where(h, LAMBDA r : r.team = team /\ r.suffix = "reply" /\ r.body.kind = "card" /\ r.body.proposal = proposal)

(* append_proposal_answer: once, and only while the transcript holds the card.             *)
AppendAnswer(h, team, proposal, status, origin) ==
  IF Card(h, team, proposal) = <<>> THEN <<FALSE, h>>
  ELSE <<TRUE, IF At(h, team, proposal, "answer") = <<>>
               THEN Insert(h, Row(team, proposal, "answer", status, "plain", origin)) ELSE h>>

-----------------------------------------------------------------------------
(* Reads.                                                                                  *)

(* PAGE_VIEW: the chat shows everything but a Routine's notices after its creation; a      *)
(* Routine's own history shows its runs and the notices about them.                        *)
InView(row, routine) ==
  IF routine = NoTurn THEN row.suffix # "routine" \/ row.body.outcome = "created"
  ELSE /\ row.suffix = "routine" /\ row.body.routine = routine
       /\ row.body.run \/ row.body.outcome \in {"healthy", "skipped", "streak-paused"}

View(h, team, routine) == Where(h, LAMBDA r : r.team = team /\ InView(r, routine))

(* The bytes of a row: a long one is as large as a page.                                   *)
Size(row) == IF row.body.kind = "long" THEN PageBytes ELSE 1

(* The bytes of rows.                                                                      *)
Bytes(rows) ==
  LET sum[n \in 0..Len(rows)] == IF n = 0 THEN 0 ELSE sum[n - 1] + Size(rows[n]) IN sum[Len(rows)]

(* A bug: the row that no longer fits is the first of the next page's lookahead, and lost. *)
CollectSkipping(older) ==
  LET n == IF Len(older) <= PageRows THEN Len(older) ELSE PageRows
  IN [shown |-> SubSeq(older, Len(older) - n + 1, Len(older)),
      before |-> IF n < Len(older) THEN older[Len(older) - n].pos ELSE 0]

(* collect, page: the newest of the rows, at most PageRows of them and within PageBytes    *)
(* but for the first; the cursor is the oldest row shown when an older one is left.        *)
Collect(older) ==
  LET Newest(n) == SubSeq(older, Len(older) - n + 1, Len(older))
      Fits(n) == /\ n <= PageRows /\ n <= Len(older)
                 /\ n = 1 \/ Bytes(Newest(n)) <= PageBytes
      n == CHOOSE m \in 0..Len(older) : Fits(m) /\ \A k \in 0..Len(older) : Fits(k) => k <= m
  IN [shown |-> Newest(n), before |-> IF n < Len(older) THEN older[Len(older) - n + 1].pos ELSE 0]

(* page: the rows of the view before the cursor (0: none), collected.                      *)
Page(h, team, routine, before) ==
  Collect(Select(View(h, team, routine), LAMBDA r : before = 0 \/ r.pos < before))
=============================================================================
