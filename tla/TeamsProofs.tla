----------------------------- MODULE TeamsProofs ----------------------------
(***************************************************************************)
(* Proofs about Teams, for any set of requests, Teams and messages: a Team *)
(* has its own positions and transcript, pages and listings return what is *)
(* there, and a host capability deletes a Space once.  And about a chat's  *)
(* Assistants, whatever they are: a plan covers what the message needs,    *)
(* and what it installed runs or was deferred.                             *)
(***************************************************************************)
EXTENDS Teams, Assistants, HistoryProofs, FiniteSetTheorems

(* The shapes of the state, of which n Teams have been made.               *)
Bodies == [kind : Message \cup {"text", "failed", "dispatch", "installed", "uninstalled"}]
RowKinds == {"user", "reply", "guidance", "uninstall", "status", "install"}
Entries(n) == [id : Id, name : Name, life : 1..n]
Positions(n) == [id : Id, life : 1..n]
Turns(n) == [id : Id, life : 1..n, open : BOOLEAN]
Rows(n) == [team : Id, turn : Nat, suffix : RowKinds, body : Bodies, prov : {"plain", "attached"}, origin : 1..n, pos : Nat \ {0}]
Stores(n) == [rows : Seq(Rows(n)), last : Nat, bound : Seq(Id \X Nat)]

(* Where a request of each kind may be.                                    *)
Deleting == {"order", "lifecycle", "call", "wipe", "forget", "end"}
Ats == [none |-> {"idle"}, create |-> {"order", "release", "make", "clear"}, delete |-> Deleting, reorder |-> {"order", "save"},
        reset |-> Deleting, host |-> {"consume"} \cup Deleting, admit |-> {"lifecycle", "check", "append"}]

Once(s) == \A i, k \in DOMAIN s : s[i] = s[k] => i = k
OnceById(s) == \A i, k \in DOMAIN s : s[i].id = s[k].id => i = k

Requested(q) ==
  /\ q \in [at : UNION {Ats[kind] : kind \in DOMAIN Ats}, kind : DOMAIN Ats, id : Id \cup Seq(Id) \cup {None},
            name : Name \cup {None}, n : 1..MaxSuffix, life : Nat]
  /\ q.at \in Ats[q.kind]
  /\ q.kind \in {"delete", "admit"} \/ q.at = "clear" => q.id \in Id
  /\ q.kind = "reorder" => q.id \in Seq(Id) /\ Once(q.id)
  /\ q.kind \in {"create", "delete"} => q.name \in Name

RequestsShaped == req = [r \in Request |-> req[r]] /\ \A r \in Request : Requested(req[r])

Shaped ==
  /\ lives \in Nat /\ wiped \in Nat /\ mishaps \in Nat /\ capability \in {"projected", "consumed"}
  /\ team \in Seq(Entries(lives)) /\ OnceById(team)
  /\ saved \in Seq(Positions(lives)) /\ OnceById(saved)
  /\ turns \in Seq(Turns(lives))
  /\ RequestsShaped

(* Rows stand in the order of their positions, and a row is of the Team    *)
(* its turn was admitted for; a turn bound has its message.                *)
StoreShaped ==
  /\ h \in Stores(lives)
  /\ \A i \in DOMAIN h.rows : h.rows[i].pos <= h.last
  /\ \A i, k \in DOMAIN h.rows : i < k => h.rows[i].pos < h.rows[k].pos
  /\ \A i \in DOMAIN h.rows : /\ h.rows[i].turn \in DOMAIN turns
                              /\ h.rows[i].team = turns[h.rows[i].turn].id
                              /\ h.rows[i].origin = turns[h.rows[i].turn].life
  /\ BoundIsAdmitted

(* Who holds each lock.                                                    *)
Orders(q) == q.at \in {"save", "release", "make"} \/ (q.kind # "admit" /\ q.at \in {"lifecycle", "call", "wipe", "forget"})
Lives(q) == q.at \in {"call", "wipe", "check", "append"}
Locked ==
  /\ order \in Request \cup {None} /\ lifecycle \in Request \cup {None}
  /\ \A r \in Request : (order = r <=> Orders(req[r])) /\ (lifecycle = r <=> Lives(req[r]))

(* A position names the Team that has its id, and no free id that a Team   *)
(* is about to be made under.                                              *)
Candidate(q) == CandidateIds(q.name)[q.n]
Positioned ==
  /\ PositionOfItsTeam
  /\ \A r \in Request : req[r].at = "make" => Candidate(req[r]) \in Ids(team) \/ Candidate(req[r]) \notin Ids(saved)

(* Rows of no Team there is are about to be cleared, or, once something    *)
(* went wrong, under an id no Team has.                                    *)
There(id, life) == \E j \in DOMAIN team : team[j].id = id /\ team[j].life = life
Wiping(id) == \E r \in Request : req[r].at = "wipe" /\ (req[r].kind = "delete" => req[r].id = id)
Clearing(id) == \E r \in Request : req[r].at = "clear" /\ req[r].id = id
Covered(row) ==
  /\ mishaps = 0 => Wiping(row.team) /\ row.team \notin Ids(team)
  /\ mishaps = 1 => row.team \notin Ids(team) \/ Clearing(row.team)
Strays == \A i \in DOMAIN h.rows : There(h.rows[i].team, h.rows[i].origin) \/ Covered(h.rows[i])
Admitting == \A r \in Request : req[r].at = "append" => There(req[r].id, req[r].life)

(* One request of the host at a time deletes, with a capability consumed.  *)
Capable ==
  /\ \A r, q \in Request : req[r].kind = "host" /\ req[q].kind = "host" => r = q
  /\ \A r \in Request : req[r].kind = "host" /\ req[r].at \in {"order", "lifecycle", "call"} => capability = "consumed" /\ wiped = 0
  /\ capability = "projected" => wiped = 0
  /\ CapabilityOnce

TeamsInv == Shaped /\ StoreShaped /\ Locked /\ Positioned /\ Strays /\ Admitting /\ Capable

-----------------------------------------------------------------------------
(* Pages.                                                                  *)

(* The view of a Team: rows of the transcript, by their positions.         *)
LEMMA ViewIs ==
  ASSUME StoreShaped, NEW id
  PROVE  LET v == View(h, id, NoTurn)
         IN /\ v \in Seq(Rows(lives)) /\ Len(v) <= Len(h.rows)
            /\ \A i \in 1..Len(v) : v[i].pos \in Nat \ {0}
            /\ \A i, k \in 1..Len(v) : i < k => v[i].pos < v[k].pos
<1> DEFINE I == {i \in DOMAIN h.rows : h.rows[i].team = id /\ InView(h.rows[i], NoTurn)}
           v == Picked(h.rows, I)
           S == Rows(lives)
<1>1. View(h, id, NoTurn) = v
  BY DEF View, Where, Select
<1>2. h.rows \in Seq(S)
  BY DEF StoreShaped, Stores
<1> HIDE DEF I, S
<1>3. PICK at \in [1..Len(v) -> DOMAIN h.rows] :
        /\ \A k \in DOMAIN v : at[k] \in I /\ v[k] = h.rows[at[k]]
        /\ \A k, l \in DOMAIN v : k < l => at[k] < at[l]
  BY <1>2, PickedIs, Zenon
<1>4. v \in Seq(S) /\ Len(v) <= Len(h.rows)
  BY <1>2, PickedIs, PickedLen
<1> HIDE DEF v
<1>5. DOMAIN v = 1..Len(v) /\ \A k \in 1..Len(v) : v[k] \in S
  BY <1>4
<1>6. \A k \in 1..Len(v) : v[k].pos \in Nat \ {0}
  BY <1>5 DEF S, Rows
<1>7. \A k, l \in 1..Len(v) : k < l => v[k].pos < v[l].pos
  BY <1>3, <1>5 DEF StoreShaped
<1> QED BY <1>1, <1>4, <1>6, <1>7 DEF S

(* The walk from the newest row, page after page.                          *)
Started == [rows |-> <<>>, before |-> 0, over |-> FALSE]
Turned(w, id) ==
  LET p == Page(h, id, NoTurn, w.before) IN [rows |-> p.shown \o w.rows, before |-> p.before, over |-> p.before = 0]
WalkTo(w, id, n) == w[0] = Started /\ \A k \in 1..n : w[k] = IF w[k - 1].over THEN w[k - 1] ELSE Turned(w[k - 1], id)

LEMMA WalkExists ==
  ASSUME NEW id, NEW m \in Nat
  PROVE  \E w : w = [k \in 0..m |-> w[k]] /\ WalkTo(w, id, m)
<1> DEFINE T == {n \in Nat : \E w : w = [k \in 0..n |-> w[k]] /\ WalkTo(w, id, n)}
<1>1. 0 \in T
  <2> DEFINE w == [k \in 0..0 |-> Started]
  <2>1. w = [k \in 0..0 |-> w[k]] /\ w[0] = Started
    OBVIOUS
  <2> HIDE DEF w
  <2>2. WalkTo(w, id, 0)
    BY <2>1 DEF WalkTo
  <2> QED BY <2>1, <2>2
<1>2. ASSUME NEW n \in Nat, n \in T PROVE n + 1 \in T
  <2>1. PICK w : w = [k \in 0..n |-> w[k]] /\ WalkTo(w, id, n)
    BY <1>2
  <2> DEFINE last == IF w[n].over THEN w[n] ELSE Turned(w[n], id)
             g == [k \in 0..(n + 1) |-> IF k = n + 1 THEN last ELSE w[k]]
  <2> HIDE DEF last
  <2>2. g[0] = Started
    BY <2>1 DEF WalkTo
  <2>3. ASSUME NEW k \in 1..(n + 1) PROVE g[k] = IF g[k - 1].over THEN g[k - 1] ELSE Turned(g[k - 1], id)
    <3>1. CASE k = n + 1
      <4>1. g[k] = last /\ g[k - 1] = w[n]
        BY <3>1
      <4> HIDE DEF g
      <4> QED BY <4>1 DEF last
    <3>2. CASE k # n + 1
      <4>1. k \in 1..n /\ g[k] = w[k] /\ g[k - 1] = w[k - 1]
        BY <3>2
      <4> HIDE DEF g
      <4> QED BY <4>1, <2>1, Zenon DEF WalkTo
    <3> QED BY <3>1, <3>2
  <2>4. g = [k \in 0..(n + 1) |-> g[k]]
    OBVIOUS
  <2> HIDE DEF g
  <2>5. WalkTo(g, id, n + 1)
    BY <2>2, <2>3 DEF WalkTo
  <2> QED BY <2>4, <2>5
<1> HIDE DEF T
<1>3. m \in T
  BY <1>1, <1>2, Inductive
<1> QED BY <1>3 DEF T

LEMMA WalkedTo ==
  ASSUME NEW id, Len(h.rows) \in Nat
  PROVE  \E w : WalkTo(w, id, Len(h.rows) + 1) /\ Walked(id) = w[Len(h.rows) + 1]
<1> DEFINE m == Len(h.rows) + 1
           F(w) == [n \in 0..m |->
                      IF n = 0 THEN [rows |-> <<>>, before |-> 0, over |-> FALSE]
                      ELSE IF w[n - 1].over THEN w[n - 1]
                      ELSE LET p == Page(h, id, NoTurn, w[n - 1].before)
                           IN [rows |-> p.shown \o w[n - 1].rows, before |-> p.before, over |-> p.before = 0]]
           c == CHOOSE w : w = F(w)
<1>1. Walked(id) = c[m]
  BY Zenon DEF Walked
<1>2. m \in Nat
  OBVIOUS
<1> HIDE DEF m
<1>3. \A w : F(w) = [n \in 0..m |-> IF n = 0 THEN Started ELSE IF w[n - 1].over THEN w[n - 1] ELSE Turned(w[n - 1], id)]
  BY Zenon DEF Started, Turned
<1> HIDE DEF F
<1>4. PICK w : w = [k \in 0..m |-> w[k]] /\ WalkTo(w, id, m)
  BY <1>2, WalkExists
<1>5. w = F(w)
  <2>1. ASSUME NEW n \in 0..m PROVE w[n] = IF n = 0 THEN Started ELSE IF w[n - 1].over THEN w[n - 1] ELSE Turned(w[n - 1], id)
    <3>1. CASE n = 0
      BY <1>4, <3>1 DEF WalkTo
    <3>2. CASE n \in 1..m
      <4>1. n # 0
        BY <3>2
      <4> QED BY <1>4, <3>2, <4>1, Zenon DEF WalkTo
    <3> QED BY <1>2, <3>1, <3>2
  <2>2. [n \in 0..m |-> w[n]] = [n \in 0..m |-> IF n = 0 THEN Started ELSE IF w[n - 1].over THEN w[n - 1] ELSE Turned(w[n - 1], id)]
    BY <2>1, Zenon
  <2> QED BY <1>3, <1>4, <2>2, Zenon
<1>6. c = F(c)
  BY <1>5, Zenon
<1> HIDE DEF c
<1>7. \A n \in 0..m : c[n] = IF n = 0 THEN Started ELSE IF c[n - 1].over THEN c[n - 1] ELSE Turned(c[n - 1], id)
  BY <1>3, <1>6
<1>8. WalkTo(c, id, m)
  BY <1>2, <1>7 DEF WalkTo
<1> QED BY <1>1, <1>8 DEF m

(* The rows a walk has shown after n pages: the view's last ones.          *)
Seen(w, v, n) ==
  \E k \in 0..Len(v) :
    /\ w.rows = SubSeq(v, k + 1, Len(v))
    /\ w.over \in BOOLEAN
    /\ w.over => k = 0
    /\ ~w.over => /\ k + n <= Len(v)
                  /\ w.before = IF k = Len(v) THEN 0 ELSE v[k + 1].pos

LEMMA PageSeen ==
  ASSUME StoreShaped, NEW id, NEW w, NEW n \in Nat, Seen(w, View(h, id, NoTurn), n), ~w.over
  PROVE  Seen(Turned(w, id), View(h, id, NoTurn), n + 1)
<1> DEFINE v == View(h, id, NoTurn)
           older == Select(v, LAMBDA r : w.before = 0 \/ r.pos < w.before)
<1>1. /\ v \in Seq(Rows(lives))
      /\ \A i \in 1..Len(v) : v[i].pos \in Nat \ {0}
      /\ \A i, k \in 1..Len(v) : i < k => v[i].pos < v[k].pos
  BY ViewIs
<1>2. /\ Turned(w, id).rows = Collect(older).shown \o w.rows
      /\ Turned(w, id).before = Collect(older).before
      /\ Turned(w, id).over = (Turned(w, id).before = 0)
  BY DEF Turned, Page
<1> HIDE DEF v
<1>3. PICK k \in 0..Len(v) :
        /\ w.rows = SubSeq(v, k + 1, Len(v))
        /\ k + n <= Len(v)
        /\ w.before = IF k = Len(v) THEN 0 ELSE v[k + 1].pos
  BY DEF Seen, v
<1>4. Len(v) \in Nat /\ k \in Nat /\ k <= Len(v) /\ DOMAIN v = 1..Len(v)
  BY <1>1
<1> DEFINE z == Len(v)
<1> HIDE DEF z
<1>length. z \in Nat /\ k <= z /\ k + n <= z /\ z = Len(v)
  BY <1>3, <1>4 DEF z
<1>5. older = SubSeq(v, 1, k)
  <2> DEFINE I == {i \in DOMAIN v : w.before = 0 \/ v[i].pos < w.before}
  <2>1. older = Picked(v, I)
    BY DEF Select
  <2> HIDE DEF older
  <2>2. ASSUME NEW i \in 1..Len(v) PROVE i \in I <=> i <= k
    <3>1. CASE k = Len(v)
      BY <1>3, <1>4, <3>1
    <3>2. CASE k # Len(v)
      <4>1. k + 1 \in 1..Len(v) /\ w.before = v[k + 1].pos /\ w.before # 0
        <5>1. k + 1 \in 1..Len(v)
          <6>1. k # z 
            BY <3>2, <1>length
          <6>2. k + 1 <= z
            BY <6>1, <1>length, <1>4
          <6>3. k + 1 >= 1
            BY <1>4
          <6>4. k + 1 \in 1..z
            BY <6>2, <6>3, <1>4
          <6> QED BY <6>4 DEF z
        <5>2. w.before = v[k + 1].pos
          BY <1>3, <3>2
        <5> QED BY <1>1, <5>1, <5>2
      <4>2. i <= k => v[i].pos < v[k + 1].pos
        BY <1>1, <1>4, <4>1
      <4>3. i > k => ~(v[i].pos < v[k + 1].pos)
        <5>1. i > k => i = k + 1 \/ k + 1 < i
          BY <1>4
        <5> QED BY <1>1, <4>1, <5>1
      <4> QED BY <1>4, <4>1, <4>2, <4>3
    <3> QED BY <3>1, <3>2
  <2> HIDE DEF I
  <2> QED BY <1>1, <2>1, <2>2, PrefixPicked
<1> HIDE DEF older
<1>6. older \in Seq(Rows(lives)) /\ Len(older) = k
  BY <1>1, <1>5, PageGrows
<1>7. PICK m \in 0..Len(older) :
           /\ older # <<>> => m >= 1
           /\ Collect(older) = [shown |-> SubSeq(older, Len(older) - m + 1, Len(older)),
                                before |-> IF m < Len(older) THEN older[Len(older) - m + 1].pos ELSE 0]
  BY <1>6, CollectIs
<1>8. m \in 0..k /\ (k # 0 => m >= 1)
  <2>1. k # 0 => older # <<>>
    BY <1>6
  <2> QED BY <1>6, <1>7, <2>1
<1>9. /\ SubSeq(older, k - m + 1, k) \o SubSeq(v, k + 1, Len(v)) = SubSeq(v, k - m + 1, Len(v))
      /\ m >= 1 => older[k - m + 1] = v[k - m + 1]
  <2>1. /\ SubSeq(SubSeq(v, 1, k), k - m + 1, k) \o SubSeq(v, k + 1, Len(v)) = SubSeq(v, k - m + 1, Len(v))
        /\ m >= 1 => SubSeq(v, 1, k)[k - m + 1] = v[k - m + 1]
    BY <1>1, <1>8, PageGrows
  <2> QED BY <1>5, <2>1
<1> DEFINE t == Turned(w, id)
           l == k - m
<1>10. l \in 0..Len(v) /\ l + 1 = k - m + 1
  BY <1>4, <1>8
<1>11. t.rows = SubSeq(v, l + 1, Len(v))
  <2>1. t.rows = Collect(older).shown \o w.rows
    BY <1>2
  <2>2. Collect(older).shown = SubSeq(older, k - m + 1, k)
    BY <1>6, <1>7
  <2> HIDE DEF t
  <2> QED BY <1>3, <1>9, <1>10, <2>1, <2>2
<1>12. t.before = (IF m < k THEN v[l + 1].pos ELSE 0) /\ t.over = (t.before = 0)
  <2>1. m < k => m >= 1
    BY <1>4, <1>8
  <2>2. t.before = Collect(older).before /\ t.over = (t.before = 0)
    BY <1>2
  <2>3. Collect(older).before = IF m < k THEN older[k - m + 1].pos ELSE 0
    BY <1>6, <1>7
  <2> HIDE DEF t
  <2> QED BY <1>9, <1>10, <2>1, <2>2, <2>3
<1> HIDE DEF t
<1>13. CASE m = k
  <2>1. t.over /\ t.over \in BOOLEAN /\ l = 0
    <3>1. l = 0 /\ ~(m < k)
      BY <1>4, <1>13
    <3> QED BY <1>12, <3>1
  <2> HIDE DEF l
  <2> QED BY <1>10, <1>11, <2>1 DEF Seen, t, v
<1>14. CASE m # k
  <2>1. m < k /\ l + 1 \in 1..Len(v) /\ l # Len(v) /\ l + (n + 1) <= Len(v)
    <3>1. m \in Nat /\ m < k /\ m >= 1
      BY <1>4, <1>8, <1>14
    <3>2. l + 1 \in 1..z /\ l # z /\ l + (n + 1) <= z
      BY <1>length, <1>4, <3>1
    <3> QED BY <3>1, <3>2 DEF z
  <2> HIDE DEF l
  <2>2. t.before = v[l + 1].pos /\ t.over = FALSE
    BY <1>1, <1>12, <2>1
  <2> QED BY <1>10, <1>11, <2>1, <2>2 DEF Seen, t, v
<1> QED BY <1>13, <1>14

(* Paging back reaches the view's first row, and has shown all of it.      *)
LEMMA PagesCover ==
  ASSUME StoreShaped
  PROVE  PagesCoverView
<1> SUFFICES ASSUME NEW id \in Id PROVE Walked(id).rows = View(h, id, NoTurn)
  BY DEF PagesCoverView
<1> DEFINE v == View(h, id, NoTurn)
           m == Len(h.rows) + 1
<1>1. v \in Seq(Rows(lives)) /\ Len(v) <= Len(h.rows)
  BY ViewIs
<1>2. Len(h.rows) \in Nat
  BY DEF StoreShaped, Stores
<1>3. PICK w : WalkTo(w, id, m) /\ Walked(id) = w[m]
  BY <1>2, WalkedTo
<1> HIDE DEF v
<1> DEFINE T == {n \in Nat : n <= m => Seen(w[n], v, n)}
<1>4. 0 \in T
  <2>1. w[0] = Started
    BY <1>3 DEF WalkTo
  <2>2. Len(v) \in 0..Len(v) /\ SubSeq(v, Len(v) + 1, Len(v)) = <<>>
    BY <1>1
  <2>3. Seen(Started, v, 0)
    BY <2>2 DEF Seen, Started
  <2> QED BY <2>1, <2>3
<1>5. ASSUME NEW n \in Nat, n \in T PROVE n + 1 \in T
  <2> SUFFICES ASSUME n + 1 <= m PROVE Seen(w[n + 1], v, n + 1)
    OBVIOUS
  <2>1. n <= m /\ n + 1 \in 1..m /\ (n + 1) - 1 = n
    BY <1>2
  <2>2. Seen(w[n], v, n)
    BY <1>5, <2>1
  <2>3. w[n + 1] = IF w[n].over THEN w[n] ELSE Turned(w[n], id)
    <3> HIDE DEF m
    <3>1. w[n + 1] = IF w[(n + 1) - 1].over THEN w[(n + 1) - 1] ELSE Turned(w[(n + 1) - 1], id)
      BY <1>3, <2>1, Zenon DEF WalkTo
    <3> QED BY <2>1, <3>1
  <2>4. CASE w[n].over
    <3>1. Seen(w[n], v, n + 1)
      BY <2>2, <2>4 DEF Seen
    <3> QED BY <2>3, <2>4, <3>1
  <2>5. CASE ~w[n].over
    <3>1. Seen(Turned(w[n], id), v, n + 1)
      BY <2>2, <2>5, PageSeen DEF v
    <3> QED BY <2>3, <2>5, <3>1
  <2> QED BY <2>4, <2>5
<1>6. Seen(w[m], v, m)
  <2>1. m \in Nat /\ m <= m
    BY <1>2
  <2> HIDE DEF T, m
  <2>2. m \in T
    BY <1>4, <1>5, <2>1, Inductive
  <2> QED BY <2>1, <2>2 DEF T
<1>7. w[m].rows = SubSeq(v, 1, Len(v))
  <2>1. PICK k \in 0..Len(v) :
          /\ w[m].rows = SubSeq(v, k + 1, Len(v))
          /\ w[m].over => k = 0
          /\ ~w[m].over => k + m <= Len(v)
    BY <1>6 DEF Seen
  <2>2. k = 0
    BY <1>1, <1>2, <2>1
  <2> QED BY <2>1, <2>2
<1>8. SubSeq(v, 1, Len(v)) = v
  BY <1>1
<1> QED BY <1>3, <1>7, <1>8 DEF v

-----------------------------------------------------------------------------
(* Lists of Teams and of positions.                                        *)

LEMMA Counted ==
  ASSUME NEW S, NEW s \in Seq(S), OnceById(s)
  PROVE  IsFiniteSet(Ids(s)) /\ Cardinality(Ids(s)) = Len(s)
<1> DEFINE f == [i \in 1..Len(s) |-> s[i].id]
<1>1. Len(s) \in Nat /\ DOMAIN s = 1..Len(s)
  OBVIOUS
<1>2. f \in Bijection(1..Len(s), Ids(s))
  <2>1. f \in [1..Len(s) -> Ids(s)]
    BY <1>1 DEF Ids
  <2>2. IsInjective(f)
    BY <1>1 DEF IsInjective, OnceById
  <2>3. \A t \in Ids(s) : \E i \in 1..Len(s) : f[i] = t
    BY <1>1 DEF Ids
  <2> HIDE DEF f
  <2> QED BY <2>1, <2>2, <2>3 DEF Bijection, Injection, Surjection
<1> HIDE DEF f
<1>3. ExistsBijection(1..Len(s), Ids(s))
  BY <1>2 DEF ExistsBijection
<1>4. IsFiniteSet(1..Len(s)) /\ Cardinality(1..Len(s)) = Len(s)
  <2>1. Cardinality(1..Len(s)) = IF 1 > Len(s) THEN 0 ELSE Len(s) - 1 + 1
    BY <1>1, FS_Interval
  <2> QED BY <1>1, <2>1, FS_Interval
<1> QED BY <1>3, <1>4, FS_Bijection

(* The entry of an id.                                                     *)
LEMMA OfIs ==
  ASSUME NEW S, NEW s \in Seq(S), OnceById(s), NEW id
  PROVE  /\ Of(s, id) = <<>> <=> id \notin Ids(s)
         /\ \A i \in DOMAIN s : s[i].id = id => Of(s, id)[1] = s[i]
         /\ Of(s, id) # <<>> => \E i \in DOMAIN s : s[i].id = id /\ Of(s, id)[1] = s[i]
<1> DEFINE I == {i \in DOMAIN s : s[i].id = id}
           p == Picked(s, I)
<1>1. Of(s, id) = p
  BY DEF Of, Select
<1>2. /\ p \in Seq(S)
      /\ \A k \in DOMAIN p : \E i \in DOMAIN s : i \in I /\ p[k] = s[i]
      /\ p = <<>> <=> \A i \in DOMAIN s : i \notin I
  <2> HIDE DEF I
  <2> QED BY PickedAre
<1> HIDE DEF p
<1>3. p # <<>> => \E i \in DOMAIN s : i \in I /\ p[1] = s[i]
  <2>1. p # <<>> => 1 \in DOMAIN p
    BY <1>2
  <2> QED BY <1>2, <2>1
<1>4. p = <<>> <=> id \notin Ids(s)
  BY <1>2 DEF Ids
<1>5. ASSUME NEW i \in DOMAIN s, s[i].id = id PROVE p[1] = s[i]
  <2>1. p # <<>>
    BY <1>2, <1>5
  <2>2. PICK k \in DOMAIN s : k \in I /\ p[1] = s[k]
    BY <1>3, <2>1
  <2>3. s[k].id = s[i].id
    BY <1>5, <2>2
  <2>4. k = i
    BY <2>3 DEF OnceById
  <2> QED BY <2>2, <2>4
<1> QED BY <1>1, <1>3, <1>4, <1>5

(* The list, by its two parts: the Teams without a position, and those the *)
(* saved ids find.                                                         *)
Parts(list, a, b) ==
  /\ list \in Seq(Entries(lives)) /\ a \in Nat /\ b \in Nat /\ Len(list) = a + b
  /\ \E at \in [1..a -> DOMAIN team], from \in [1..b -> DOMAIN saved] :
       /\ \A k \in 1..a : list[k] = team[at[k]] /\ team[at[k]].id \notin Ids(saved)
       /\ \A k, l \in 1..a : k < l => at[k] < at[l]
       /\ \A i \in DOMAIN team : team[i].id \notin Ids(saved) => \E k \in 1..a : at[k] = i
       /\ \A k \in 1..b : /\ list[a + k].id = saved[from[k]].id
                          /\ \E i \in DOMAIN team : list[a + k] = team[i]
       /\ \A k, l \in 1..b : k < l => from[k] < from[l]
       /\ \A i \in DOMAIN saved : saved[i].id \in Ids(team) => \E k \in 1..b : from[k] = i

LEMMA ArrangedParts ==
  ASSUME Shaped
  PROVE  \E a, b : Parts(Arrange(team, saved), a, b)
<1> DEFINE I == {i \in DOMAIN team : team[i].id \notin Ids(saved)}
           J == {i \in DOMAIN saved : saved[i].id \in Ids(team)}
           p == Picked(team, I)
           q == Picked(saved, J)
           r == [k \in DOMAIN q |-> Of(team, q[k].id)[1]]
           list == Arrange(team, saved)
           S == Entries(lives)
           R == Positions(lives)
<1>1. list = p \o r
  BY Zenon DEF Arrange, Select
<1>2. team \in Seq(S) /\ saved \in Seq(R) /\ OnceById(team) /\ OnceById(saved)
  BY DEF Shaped
<1> HIDE DEF list, p, q, r, S, R
<1>2a. \E to \in [1..Len(Picked(team, I)) -> DOMAIN team] :
        /\ \A k \in DOMAIN Picked(team, I) : to[k] \in I /\ Picked(team, I)[k] = team[to[k]]
        /\ \A k, l \in DOMAIN Picked(team, I) : k < l => to[k] < to[l]
        /\ \A i \in DOMAIN team : i \in I => \E k \in DOMAIN Picked(team, I) : to[k] = i
  <2> HIDE DEF I
  <2>1. team \in Seq(S)
    BY <1>2
  <2> QED BY <2>1, PickedIs
<1>2b. \E to \in [1..Len(Picked(saved, J)) -> DOMAIN saved] :
        /\ \A k \in DOMAIN Picked(saved, J) : to[k] \in J /\ Picked(saved, J)[k] = saved[to[k]]
        /\ \A k, l \in DOMAIN Picked(saved, J) : k < l => to[k] < to[l]
        /\ \A i \in DOMAIN saved : i \in J => \E k \in DOMAIN Picked(saved, J) : to[k] = i
  <2> HIDE DEF J
  <2>1. saved \in Seq(R)
    BY <1>2
  <2> QED BY <2>1, PickedIs
<1>3. PICK at \in [1..Len(p) -> DOMAIN team] :
        /\ \A k \in DOMAIN p : at[k] \in I /\ p[k] = team[at[k]]
        /\ \A k, l \in DOMAIN p : k < l => at[k] < at[l]
        /\ \A i \in DOMAIN team : i \in I => \E k \in DOMAIN p : at[k] = i
  <2> HIDE DEF I
  <2> QED BY <1>2a, Zenon DEF p
<1>4. PICK from \in [1..Len(q) -> DOMAIN saved] :
        /\ \A k \in DOMAIN q : from[k] \in J /\ q[k] = saved[from[k]]
        /\ \A k, l \in DOMAIN q : k < l => from[k] < from[l]
        /\ \A i \in DOMAIN saved : i \in J => \E k \in DOMAIN q : from[k] = i
  <2> HIDE DEF J
  <2> QED BY <1>2b, Zenon DEF q
<1>5. p \in Seq(S) /\ q \in Seq(R)
  <2> HIDE DEF I, J
  <2> QED BY <1>2, PickedIs DEF p, q
<1>6. /\ Len(p) \in Nat /\ DOMAIN p = 1..Len(p)
      /\ Len(q) \in Nat /\ DOMAIN q = 1..Len(q)
  BY <1>5
<1>7. ASSUME NEW k \in 1..Len(q) PROVE r[k].id = saved[from[k]].id /\ \E i \in DOMAIN team : r[k] = team[i]
  <2>1. q[k].id = saved[from[k]].id /\ q[k].id \in Ids(team)
    BY <1>4, <1>6
  <2>2. PICK i \in DOMAIN team : team[i].id = q[k].id
    BY <2>1 DEF Ids
  <2>3. r[k] = Of(team, q[k].id)[1]
    BY <1>6 DEF r
  <2>4. Of(team, q[k].id)[1] = team[i]
    BY <1>2, <2>2, OfIs
  <2> QED BY <2>1, <2>2, <2>3, <2>4
<1>8. r \in Seq(S) /\ Len(r) = Len(q)
  <2>1. \A k \in 1..Len(q) : r[k] \in S
    BY <1>2, <1>7
  <2>2. r = [k \in 1..Len(q) |-> Of(team, q[k].id)[1]]
    BY <1>6 DEF r
  <2>3. r \in [1..Len(q) -> S]
    BY <2>1, <2>2
  <2>4. r \in Seq(S)
    BY <1>6, <2>3
  <2> QED BY <1>6, <2>2, <2>4
<1> DEFINE a == Len(p)
           b == Len(q)
<1>9. /\ list \in Seq(S) /\ Len(list) = a + b
      /\ \A k \in 1..a + b : list[k] = IF k <= a THEN p[k] ELSE r[k - a]
  <2>1. /\ p \o r \in Seq(S) /\ Len(p \o r) = Len(p) + Len(r)
        /\ \A k \in 1..Len(p) + Len(r) : (p \o r)[k] = IF k <= Len(p) THEN p[k] ELSE r[k - Len(p)]
    BY <1>5, <1>8, ConcatProperties
  <2> QED BY <1>1, <1>8, <2>1
<1> HIDE DEF a, b
<1>10. a \in Nat /\ b \in Nat /\ DOMAIN p = 1..a /\ DOMAIN q = 1..b
  BY <1>6 DEF a, b
<1>11. at \in [1..a -> DOMAIN team] /\ from \in [1..b -> DOMAIN saved]
  BY <1>3, <1>4 DEF a, b
<1>12. \A k \in 1..a : list[k] = team[at[k]] /\ team[at[k]].id \notin Ids(saved)
  <2>1. \A k \in 1..a : k \in 1..a + b /\ k <= a
    BY <1>10
  <2> QED BY <1>3, <1>9, <1>10, <2>1
<1>13. \A k \in 1..b : list[a + k] = r[k]
  <2>1. \A k \in 1..b : a + k \in 1..a + b /\ ~(a + k <= a) /\ (a + k) - a = k
    BY <1>10
  <2> QED BY <1>9, <2>1
<1>14. \A k \in 1..b : r[k].id = saved[from[k]].id /\ \E i \in DOMAIN team : r[k] = team[i]
  BY <1>7 DEF b
<1>15. \A k \in 1..b : list[a + k].id = saved[from[k]].id /\ \E i \in DOMAIN team : list[a + k] = team[i]
  BY <1>13, <1>14
<1>16. /\ \A k, l \in 1..a : k < l => at[k] < at[l]
       /\ \A i \in DOMAIN team : team[i].id \notin Ids(saved) => \E k \in 1..a : at[k] = i
  BY <1>3, <1>10
<1>17. /\ \A k, l \in 1..b : k < l => from[k] < from[l]
       /\ \A i \in DOMAIN saved : saved[i].id \in Ids(team) => \E k \in 1..b : from[k] = i
  BY <1>4, <1>10
<1> HIDE <1>3, <1>4
<1>18. Parts(list, a, b)
  <2> HIDE DEF I, J
  <2> QED BY <1>9, <1>10, <1>11, <1>12, <1>15, <1>16, <1>17, Zenon DEF Parts, S
<1> QED BY <1>18 DEF list

(* The place of an id in the list.                                         *)
PlaceIn(list, id) == CHOOSE i \in DOMAIN list : list[i].id = id

LEMMA PlaceIs ==
  ASSUME NEW list, OnceById(list), NEW k \in DOMAIN list
  PROVE  PlaceIn(list, list[k].id) = k
BY DEF PlaceIn, OnceById

LEMMA ListedExactly ==
  ASSUME Shaped
  PROVE  ListingExact
<1> DEFINE list == Arrange(team, saved)
<1> HIDE DEF list
<1>1. PICK a, b : Parts(list, a, b)
  BY ArrangedParts DEF list
<1>2. PICK at \in [1..a -> DOMAIN team], from \in [1..b -> DOMAIN saved] :
       /\ \A k \in 1..a : list[k] = team[at[k]] /\ team[at[k]].id \notin Ids(saved)
       /\ \A k, l \in 1..a : k < l => at[k] < at[l]
       /\ \A i \in DOMAIN team : team[i].id \notin Ids(saved) => \E k \in 1..a : at[k] = i
       /\ \A k \in 1..b : /\ list[a + k].id = saved[from[k]].id
                          /\ \E i \in DOMAIN team : list[a + k] = team[i]
       /\ \A k, l \in 1..b : k < l => from[k] < from[l]
       /\ \A i \in DOMAIN saved : saved[i].id \in Ids(team) => \E k \in 1..b : from[k] = i
  BY <1>1 DEF Parts
<1>3. /\ list \in Seq(Entries(lives)) /\ a \in Nat /\ b \in Nat /\ Len(list) = a + b
      /\ team \in Seq(Entries(lives)) /\ saved \in Seq(Positions(lives)) /\ OnceById(team) /\ OnceById(saved)
  BY <1>1 DEF Parts, Shaped
<1>4. DOMAIN list = 1..a + b /\ DOMAIN team \subseteq Nat /\ DOMAIN saved \subseteq Nat
  BY <1>3
<1>5. \A k \in DOMAIN list : k \in 1..a \/ (k - a \in 1..b /\ k = a + (k - a))
  BY <1>3, <1>4
<1>6. (\A k \in 1..a : k \in DOMAIN list) /\ \A k \in 1..b : a + k \in DOMAIN list
  BY <1>3, <1>4
<1>7. \A k \in 1..b : list[a + k].id \in Ids(saved)
  BY <1>2 DEF Ids
<1>8. \A k, l \in 1..a : list[k].id = list[l].id => k = l
  <2> SUFFICES ASSUME NEW k \in 1..a, NEW l \in 1..a, list[k].id = list[l].id PROVE k = l
    OBVIOUS
  <2>1. at[k] = at[l]
    <3>1. at[k] \in DOMAIN team /\ at[l] \in DOMAIN team /\ list[k] = team[at[k]] /\ list[l] = team[at[l]]
      BY <1>2
    <3> QED BY <1>3, <3>1 DEF OnceById
  <2>2. at[k] \in Nat /\ at[l] \in Nat
    BY <1>2, <1>4
  <2>3. ~(k < l) /\ ~(l < k)
    BY <1>2, <2>1, <2>2
  <2> QED BY <1>3, <2>3
<1>9. \A k, l \in 1..b : list[a + k].id = list[a + l].id => k = l
  <2> SUFFICES ASSUME NEW k \in 1..b, NEW l \in 1..b, list[a + k].id = list[a + l].id PROVE k = l
    OBVIOUS
  <2>1. from[k] = from[l]
    <3>1. /\ from[k] \in DOMAIN saved /\ from[l] \in DOMAIN saved
          /\ list[a + k].id = saved[from[k]].id /\ list[a + l].id = saved[from[l]].id
      BY <1>2
    <3> QED BY <1>3, <3>1 DEF OnceById
  <2>2. from[k] \in Nat /\ from[l] \in Nat
    BY <1>2, <1>4
  <2>3. ~(k < l) /\ ~(l < k)
    BY <1>2, <2>1, <2>2
  <2> QED BY <1>3, <2>3
<1>10. OnceById(list)
  <2> SUFFICES ASSUME NEW k \in DOMAIN list, NEW l \in DOMAIN list, list[k].id = list[l].id PROVE k = l
    BY DEF OnceById
  <2>1. CASE k \in 1..a /\ l \in 1..a
    BY <1>8, <2>1
  <2>2. CASE k \in 1..a /\ l - a \in 1..b /\ l = a + (l - a)
    <3>1. list[k].id \notin Ids(saved) /\ list[l].id \in Ids(saved)
      BY <1>2, <1>7, <2>2
    <3> QED BY <3>1
  <2>3. CASE l \in 1..a /\ k - a \in 1..b /\ k = a + (k - a)
    <3>1. list[l].id \notin Ids(saved) /\ list[k].id \in Ids(saved)
      BY <1>2, <1>7, <2>3
    <3> QED BY <3>1
  <2>4. CASE k - a \in 1..b /\ k = a + (k - a) /\ l - a \in 1..b /\ l = a + (l - a)
    <3>1. k - a = l - a
      BY <1>9, <2>4
    <3> QED BY <2>4, <3>1
  <2> QED BY <1>5, <2>1, <2>2, <2>3, <2>4
<1>11. Ids(list) = Ids(team)
  <2>1. ASSUME NEW k \in DOMAIN list PROVE list[k].id \in Ids(team)
    <3>1. CASE k \in 1..a
      BY <1>2, <3>1 DEF Ids
    <3>2. CASE k - a \in 1..b /\ k = a + (k - a)
      BY <1>2, <3>2 DEF Ids
    <3> QED BY <1>5, <3>1, <3>2
  <2>2. ASSUME NEW i \in DOMAIN team PROVE \E k \in DOMAIN list : list[k].id = team[i].id
    <3>1. CASE team[i].id \notin Ids(saved)
      BY <1>2, <1>6, <3>1
    <3>2. CASE team[i].id \in Ids(saved)
      <4>1. PICK j \in DOMAIN saved : saved[j].id = team[i].id
        BY <3>2 DEF Ids
      <4>2. saved[j].id \in Ids(team)
        BY <4>1 DEF Ids
      <4>3. PICK k \in 1..b : from[k] = j
        BY <1>2, <4>2
      <4> QED BY <1>2, <1>6, <4>1, <4>3
    <3> QED BY <3>1, <3>2
  <2> QED BY <2>1, <2>2 DEF Ids
<1>12. Len(list) = Len(team)
  <2>1. Cardinality(Ids(list)) = Len(list)
    BY <1>3, <1>10, Counted
  <2>2. Cardinality(Ids(team)) = Len(team)
    BY <1>3, Counted
  <2> QED BY <1>11, <2>1, <2>2
<1>13. ASSUME NEW i \in DOMAIN team, NEW j \in DOMAIN team, i < j, team[i].id \notin Ids(saved), team[j].id \notin Ids(saved)
       PROVE  PlaceIn(list, team[i].id) < PlaceIn(list, team[j].id)
  <2>1. PICK k \in 1..a : at[k] = i
    BY <1>2, <1>13
  <2>2. PICK l \in 1..a : at[l] = j
    BY <1>2, <1>13
  <2>3. PlaceIn(list, team[i].id) = k /\ PlaceIn(list, team[j].id) = l
    BY <1>2, <1>6, <1>10, <2>1, <2>2, PlaceIs
  <2>4. k \in Nat /\ l \in Nat /\ i \in Nat /\ j \in Nat
    BY <1>3, <1>4
  <2>5. k # l /\ ~(l < k)
    BY <1>2, <1>13, <2>1, <2>2, <2>4
  <2> QED BY <2>3, <2>4, <2>5
<1>14. ASSUME NEW i \in DOMAIN saved, NEW j \in DOMAIN saved, i < j, saved[i].id \in Ids(team), saved[j].id \in Ids(team)
       PROVE  PlaceIn(list, saved[i].id) < PlaceIn(list, saved[j].id)
  <2>1. PICK k \in 1..b : from[k] = i
    BY <1>2, <1>14
  <2>2. PICK l \in 1..b : from[l] = j
    BY <1>2, <1>14
  <2>3. PlaceIn(list, saved[i].id) = a + k /\ PlaceIn(list, saved[j].id) = a + l
    <3>1. a + k \in DOMAIN list /\ a + l \in DOMAIN list /\ list[a + k].id = saved[i].id /\ list[a + l].id = saved[j].id
      BY <1>2, <1>6, <2>1, <2>2
    <3> QED BY <1>10, <3>1, PlaceIs
  <2>4. k \in Nat /\ l \in Nat /\ i \in Nat /\ j \in Nat
    BY <1>3, <1>4
  <2>5. k # l /\ ~(l < k)
    BY <1>2, <1>14, <2>1, <2>2, <2>4
  <2> QED BY <1>3, <2>3, <2>4, <2>5
<1>15. /\ \A i, j \in DOMAIN team :
            i < j /\ team[j].id \notin Ids(saved) => PlaceIn(list, team[i].id) < PlaceIn(list, team[j].id) \/ team[i].id \in Ids(saved)
       /\ \A i, j \in DOMAIN saved :
            i < j /\ {saved[i].id, saved[j].id} \subseteq Ids(team) => PlaceIn(list, saved[i].id) < PlaceIn(list, saved[j].id)
  BY <1>13, <1>14
<1> QED BY <1>11, <1>12, <1>15, Zenon DEF ListingExact, PlaceIn, list

-----------------------------------------------------------------------------
(* What a step does to the requests.                                       *)

(* The kinds of the requests at a step of theirs.                          *)
LEMMA KindIs ==
  ASSUME NEW q, Requested(q)
  PROVE  /\ q.at = "idle" <=> q.kind = "none"
         /\ q.at \in {"release", "make", "clear"} => q.kind = "create"
         /\ q.at = "save" => q.kind = "reorder"
         /\ q.at \in {"call", "wipe", "forget", "end"} => q.kind \in {"delete", "reset", "host"}
         /\ q.at = "consume" => q.kind = "host"
         /\ q.at \in {"check", "append"} => q.kind = "admit"
         /\ q.at = "lifecycle" => q.kind \in {"delete", "reset", "host", "admit"}
         /\ q.at = "order" => q.kind \in {"create", "delete", "reorder", "reset", "host"}
<1>1. q.at \in Ats[q.kind] /\ q.kind \in DOMAIN Ats
  BY DEF Requested
<1>2. DOMAIN Ats = {"none", "create", "delete", "reorder", "reset", "host", "admit"}
  BY DEF Ats
<1>3. CASE q.kind = "none"
  BY <1>1, <1>3 DEF Ats
<1>4. CASE q.kind = "create"
  BY <1>1, <1>4 DEF Ats
<1>5. CASE q.kind = "delete"
  BY <1>1, <1>5 DEF Ats, Deleting
<1>6. CASE q.kind = "reorder"
  BY <1>1, <1>6 DEF Ats
<1>7. CASE q.kind = "reset"
  BY <1>1, <1>7 DEF Ats, Deleting
<1>8. CASE q.kind = "host"
  BY <1>1, <1>8 DEF Ats, Deleting
<1>9. CASE q.kind = "admit"
  BY <1>1, <1>9 DEF Ats
<1> QED BY <1>1, <1>2, <1>3, <1>4, <1>5, <1>6, <1>7, <1>8, <1>9

LEMMA IdleRequested == Requested(Idle)
<1>1. 1 \in 1..MaxSuffix
  BY TeamsAssumption
<1>2. Idle.at = "idle" /\ Idle.kind = "none" /\ Idle.id = None /\ Idle.name = None /\ Idle.n = 1 /\ Idle.life = 0
  BY DEF Idle
<1>3. "none" \in DOMAIN Ats /\ Ats["none"] = {"idle"}
  BY DEF Ats
<1>4. "idle" \in UNION {Ats[kind] : kind \in DOMAIN Ats}
  BY <1>3
<1>5. Idle \in [at : UNION {Ats[kind] : kind \in DOMAIN Ats}, kind : DOMAIN Ats, id : Id \cup Seq(Id) \cup {None},
                name : Name \cup {None}, n : 1..MaxSuffix, life : Nat]
  BY <1>1, <1>3, <1>4 DEF Idle
<1> QED BY <1>2, <1>3, <1>5 DEF Requested

(* A request that goes on.                                                 *)
LEMMA GoesOn ==
  ASSUME NEW q, Requested(q), NEW to \in Ats[q.kind], to # "clear"
  PROVE  Requested([q EXCEPT !.at = to]) /\ [q EXCEPT !.at = to].at = to /\ [q EXCEPT !.at = to].kind = q.kind
         /\ [q EXCEPT !.at = to].id = q.id /\ [q EXCEPT !.at = to].name = q.name /\ [q EXCEPT !.at = to].n = q.n
         /\ [q EXCEPT !.at = to].life = q.life
<1> DEFINE p == [q EXCEPT !.at = to]
           A == UNION {Ats[kind] : kind \in DOMAIN Ats}
           Q == [at : A, kind : DOMAIN Ats, id : Id \cup Seq(Id) \cup {None},
                 name : Name \cup {None}, n : 1..MaxSuffix, life : Nat]
<1>1. q \in Q /\ q.kind \in DOMAIN Ats
  BY DEF Requested
<1>2. to \in A
  BY <1>1
<1> HIDE DEF A
<1>3. p \in Q /\ p.at = to /\ p.kind = q.kind /\ p.id = q.id /\ p.name = q.name /\ p.n = q.n /\ p.life = q.life
  BY <1>1, <1>2
<1> HIDE DEF p
<1>4. /\ q.kind \in {"delete", "admit"} => q.id \in Id
      /\ q.kind = "reorder" => q.id \in Seq(Id) /\ Once(q.id)
      /\ q.kind \in {"create", "delete"} => q.name \in Name
  BY DEF Requested
<1>5. Requested(p)
  BY <1>3, <1>4 DEF Requested, A
<1> QED BY <1>3, <1>5 DEF p

(* One request changes.                                                    *)
LEMMA OneChanges ==
  ASSUME RequestsShaped, NEW r \in Request, NEW q, Requested(q), req' = [req EXCEPT ![r] = q]
  PROVE  RequestsShaped' /\ req'[r] = q /\ \A s \in Request : s # r => req'[s] = req[s]
<1>1. req'[r] = q /\ (\A s \in Request : s # r => req'[s] = req[s]) /\ req' = [s \in Request |-> req'[s]]
  BY DEF RequestsShaped
<1>2. \A s \in Request : Requested(req'[s])
  BY <1>1 DEF RequestsShaped
<1> QED BY <1>1, <1>2 DEF RequestsShaped

LEMMA Gone ==
  ASSUME RequestsShaped, NEW r \in Request, Done(r)
  PROVE  RequestsShaped' /\ req'[r] = Idle /\ \A s \in Request : s # r => req'[s] = req[s]
BY IdleRequested, OneChanges DEF Done

LEMMA Went ==
  ASSUME RequestsShaped, NEW r \in Request, NEW to \in Ats[req[r].kind], to # "clear", Go(r, to)
  PROVE  /\ RequestsShaped' /\ \A s \in Request : s # r => req'[s] = req[s]
         /\ req'[r].at = to /\ req'[r].kind = req[r].kind /\ req'[r].id = req[r].id
         /\ req'[r].name = req[r].name /\ req'[r].n = req[r].n /\ req'[r].life = req[r].life
<1> DEFINE q == [req[r] EXCEPT !.at = to]
<1>1. Requested(req[r])
  BY DEF RequestsShaped
<1>2. Requested(q) /\ q.at = to /\ q.kind = req[r].kind /\ q.id = req[r].id /\ q.name = req[r].name /\ q.n = req[r].n
      /\ q.life = req[r].life
  BY <1>1, GoesOn
<1>3. req' = [req EXCEPT ![r] = q]
  BY DEF Go
<1> HIDE DEF q
<1>4. RequestsShaped' /\ req'[r] = q /\ \A s \in Request : s # r => req'[s] = req[s]
  BY <1>2, <1>3, OneChanges
<1> QED BY <1>2, <1>4

-----------------------------------------------------------------------------
(* What a step does to the inventory and to the saved positions.           *)

(* The ids of a list, each with its Team's life.                           *)
Pairs(s) == {<<s[i].id, s[i].life>> : i \in DOMAIN s}

LEMMA ThereIs == \A id, life : There(id, life) <=> <<id, life>> \in Pairs(team)
BY DEF There, Pairs

LEMMA IdsOfPairs == \A s, id : id \in Ids(s) <=> \E life : <<id, life>> \in Pairs(s)
BY DEF Ids, Pairs

LEMMA PairsIn ==
  ASSUME NEW s, NEW t, \A k, life : <<k, life>> \in Pairs(s) => <<k, life>> \in Pairs(t)
  PROVE  Pairs(s) \subseteq Pairs(t)
<1> SUFFICES ASSUME NEW x \in Pairs(s) PROVE x \in Pairs(t)
  OBVIOUS
<1>1. PICK i \in DOMAIN s : x = <<s[i].id, s[i].life>>
  BY DEF Pairs
<1> QED BY <1>1

(* A list without an id is the rest of it.                                 *)
LEMMA DroppedIs ==
  ASSUME NEW S, NEW s \in Seq(S), OnceById(s), NEW id
  PROVE  /\ Dropped(s, id) \in Seq(S) /\ OnceById(Dropped(s, id))
         /\ Ids(Dropped(s, id)) = Ids(s) \ {id}
         /\ \A k, life : <<k, life>> \in Pairs(Dropped(s, id)) <=> <<k, life>> \in Pairs(s) /\ k # id
<1> DEFINE I == {i \in DOMAIN s : s[i].id # id}
           p == Picked(s, I)
<1>1. Dropped(s, id) = p
  BY DEF Dropped, Select
<1>2. \E at \in [1..Len(Picked(s, I)) -> DOMAIN s] :
        /\ \A k \in DOMAIN Picked(s, I) : at[k] \in I /\ Picked(s, I)[k] = s[at[k]]
        /\ \A k, l \in DOMAIN Picked(s, I) : k < l => at[k] < at[l]
        /\ \A i \in DOMAIN s : i \in I => \E k \in DOMAIN Picked(s, I) : at[k] = i
  <2> HIDE DEF I
  <2> QED BY PickedIs
<1>3. p \in Seq(S)
  <2> HIDE DEF I
  <2> QED BY PickedIs
<1>4. PICK at \in [1..Len(p) -> DOMAIN s] :
        /\ \A k \in DOMAIN p : at[k] \in I /\ p[k] = s[at[k]]
        /\ \A k, l \in DOMAIN p : k < l => at[k] < at[l]
        /\ \A i \in DOMAIN s : i \in I => \E k \in DOMAIN p : at[k] = i
  <2> HIDE DEF I
  <2> QED BY <1>2, Zenon
<1> HIDE DEF p
<1>5. DOMAIN p = 1..Len(p) /\ Len(p) \in Nat /\ DOMAIN s \subseteq Nat
  BY <1>3
<1>6. \A k \in DOMAIN p : at[k] \in DOMAIN s /\ at[k] \in Nat /\ k \in Nat
  BY <1>4, <1>5
<1>7. OnceById(p)
  <2> SUFFICES ASSUME NEW k \in DOMAIN p, NEW l \in DOMAIN p, p[k].id = p[l].id PROVE k = l
    BY DEF OnceById
  <2>1. at[k] = at[l]
    BY <1>4, <1>6 DEF OnceById
  <2>2. ~(k < l) /\ ~(l < k)
    BY <1>4, <1>6, <2>1
  <2> QED BY <1>6, <2>2
<1>8. \A k, life : <<k, life>> \in Pairs(p) <=> <<k, life>> \in Pairs(s) /\ k # id
  <2>1. ASSUME NEW k \in DOMAIN p PROVE <<p[k].id, p[k].life>> \in Pairs(s) /\ p[k].id # id
    BY <1>4, <1>6 DEF Pairs
  <2>2. ASSUME NEW i \in DOMAIN s, s[i].id # id PROVE <<s[i].id, s[i].life>> \in Pairs(p)
    BY <1>4, <2>2 DEF Pairs
  <2> QED BY <2>1, <2>2 DEF Pairs
<1>9. Ids(p) = Ids(s) \ {id}
  BY <1>8, IdsOfPairs
<1> QED BY <1>1, <1>3, <1>7, <1>8, <1>9

(* A list with a new member in front.                                      *)
LEMMA FrontIs ==
  ASSUME NEW S, NEW s \in Seq(S), OnceById(s), NEW x \in S, x.id \notin Ids(s)
  PROVE  /\ <<x>> \o s \in Seq(S) /\ OnceById(<<x>> \o s)
         /\ Ids(<<x>> \o s) = Ids(s) \cup {x.id}
         /\ \A k, life : <<k, life>> \in Pairs(<<x>> \o s) <=> <<k, life>> \in Pairs(s) \/ (k = x.id /\ life = x.life)
<1> DEFINE p == <<x>> \o s
           n == Len(s)
<1>1. n \in Nat /\ DOMAIN s = 1..n
  OBVIOUS
<1>2. p \in Seq(S) /\ Len(p) = n + 1 /\ p[1] = x /\ \A i \in 1..n : p[i + 1] = s[i]
  <2>1. <<x>> \in Seq(S) /\ Len(<<x>>) = 1 /\ <<x>>[1] = x
    OBVIOUS
  <2>2. /\ p \in Seq(S) /\ Len(p) = 1 + n
        /\ \A i \in 1..1 + n : p[i] = IF i <= 1 THEN <<x>>[i] ELSE s[i - 1]
    BY <2>1, ConcatProperties
  <2> HIDE DEF p, n
  <2>3. 1 \in 1..1 + n /\ \A i \in 1..n : i + 1 \in 1..1 + n /\ ~(i + 1 <= 1) /\ (i + 1) - 1 = i
    BY <1>1
  <2>4. p[1] = x
    BY <2>1, <2>2, <2>3
  <2>5. \A i \in 1..n : p[i + 1] = s[i]
    BY <2>2, <2>3
  <2> QED BY <1>1, <2>2, <2>4, <2>5
<1> HIDE DEF p, n
<1>3. DOMAIN p = 1..n + 1 /\ 1 \in 1..n + 1 /\ (\A i \in 1..n : i + 1 \in 1..n + 1)
      /\ \A k \in 1..n + 1 : k = 1 \/ (k - 1 \in 1..n /\ k = (k - 1) + 1)
  BY <1>1, <1>2
<1>4. \A k \in DOMAIN p : (k = 1 /\ p[k] = x) \/ (k - 1 \in DOMAIN s /\ p[k] = s[k - 1] /\ k = (k - 1) + 1)
  BY <1>1, <1>2, <1>3
<1>5. \A i \in DOMAIN s : s[i].id # x.id
  BY DEF Ids
<1>6. OnceById(p)
  <2> SUFFICES ASSUME NEW k \in DOMAIN p, NEW l \in DOMAIN p, p[k].id = p[l].id PROVE k = l
    BY DEF OnceById
  <2>1. CASE k = 1 /\ l = 1
    BY <2>1
  <2>2. CASE k # 1 /\ l # 1
    <3>1. k - 1 = l - 1
      BY <1>4, <2>2 DEF OnceById
    <3> QED BY <1>4, <2>2, <3>1
  <2>3. CASE (k = 1 /\ l # 1) \/ (k # 1 /\ l = 1)
    BY <1>4, <1>5, <2>3
  <2> QED BY <2>1, <2>2, <2>3
<1>7. \A k, life : <<k, life>> \in Pairs(p) <=> <<k, life>> \in Pairs(s) \/ (k = x.id /\ life = x.life)
  <2>1. ASSUME NEW k \in DOMAIN p PROVE <<p[k].id, p[k].life>> \in Pairs(s) \/ (p[k].id = x.id /\ p[k].life = x.life)
    BY <1>4 DEF Pairs
  <2>2. ASSUME NEW i \in DOMAIN s PROVE <<s[i].id, s[i].life>> \in Pairs(p)
    <3>1. i + 1 \in DOMAIN p /\ p[i + 1] = s[i]
      BY <1>1, <1>2, <1>3
    <3> QED BY <3>1 DEF Pairs
  <2>3. <<x.id, x.life>> \in Pairs(p)
    BY <1>2, <1>3 DEF Pairs
  <2> QED BY <2>1, <2>2, <2>3 DEF Pairs
<1>8. Ids(p) = Ids(s) \cup {x.id}
  BY <1>7, IdsOfPairs
<1> QED BY <1>2, <1>6, <1>7, <1>8 DEF p

Inventory ==
  /\ lives \in Nat
  /\ team \in Seq(Entries(lives)) /\ OnceById(team)
  /\ saved \in Seq(Positions(lives)) /\ OnceById(saved)

LEMMA RenameTeams ==
  ASSUME Inventory, Rename
  PROVE  Inventory' /\ Ids(team') = Ids(team) /\ Pairs(team') = Pairs(team) /\ saved' = saved /\ lives' = lives
<1>1. PICK i \in DOMAIN team, name \in Name : team' = [team EXCEPT ![i].name = name]
  BY DEF Rename
<1>2. lives' = lives /\ saved' = saved
  BY DEF Rename, space
<1> DEFINE S == Entries(lives)
           e == [team[i] EXCEPT !.name = name]
<1>3. team \in Seq(S) /\ OnceById(team) /\ lives \in Nat /\ saved \in Seq(Positions(lives)) /\ OnceById(saved)
  BY DEF Inventory
<1>4. team[i] \in S
  BY <1>3
<1>5. e \in S /\ e.id = team[i].id /\ e.life = team[i].life
  BY <1>4 DEF Entries
<1> HIDE DEF e, S
<1>6. team' = [team EXCEPT ![i] = e]
  BY <1>1 DEF e
<1>7. team' \in Seq(S) /\ DOMAIN team' = DOMAIN team /\ \A k \in DOMAIN team : team'[k] = IF k = i THEN e ELSE team[k]
  BY <1>3, <1>5, <1>6
<1>8. \A k \in DOMAIN team : team'[k].id = team[k].id /\ team'[k].life = team[k].life
  BY <1>5, <1>7
<1>9. OnceById(team')
  BY <1>3, <1>7, <1>8 DEF OnceById
<1>10. Ids(team') = Ids(team)
  BY <1>7, <1>8 DEF Ids
<1>11. Pairs(team') = Pairs(team)
  BY <1>7, <1>8 DEF Pairs
<1>12. S = Entries(lives')
  BY <1>2 DEF S
<1>13. Inventory'
  BY <1>2, <1>3, <1>7, <1>9, <1>12 DEF Inventory
<1> QED BY <1>2, <1>10, <1>11, <1>13

(* A reorder saves a position for each Team of now, or nothing.            *)
LEMMA ReorderSaves ==
  ASSUME Inventory, RequestsShaped, NEW r \in Request, Reorder(r)
  PROVE  Inventory' /\ team' = team /\ lives' = lives /\ (saved' = saved \/ Pairs(saved') \subseteq Pairs(team))
<1> DEFINE ids == req[r].id
           new == [i \in DOMAIN ids |-> [id |-> ids[i], life |-> Entry(ids[i])[1].life]]
<1>1. req[r].kind = "reorder" /\ ids \in Seq(Id) /\ Once(ids)
  <2>1. Requested(req[r]) /\ req[r].at = "save"
    BY DEF RequestsShaped, Reorder
  <2>2. req[r].kind = "reorder"
    BY <2>1, KindIs
  <2> QED BY <2>1, <2>2 DEF Requested
<1>2. team' = team /\ lives' = lives
  BY DEF Reorder
<1>3. saved' = saved \/ (saved' = new /\ {ids[i] : i \in DOMAIN ids} = Ids(team))
  BY DEF Reorder
<1>4. lives \in Nat /\ team \in Seq(Entries(lives)) /\ OnceById(team)
  BY DEF Inventory
<1>5. CASE saved' = saved
  BY <1>2, <1>5 DEF Inventory
<1>6. CASE saved' = new /\ {ids[i] : i \in DOMAIN ids} = Ids(team)
  <2>1. ASSUME NEW i \in DOMAIN ids
        PROVE  new[i] \in Positions(lives) /\ new[i].id = ids[i] /\ <<new[i].id, new[i].life>> \in Pairs(team)
    <3>1. ids[i] \in Ids(team)
      BY <1>6
    <3>2. PICK j \in DOMAIN team : team[j].id = ids[i]
      BY <3>1 DEF Ids
    <3>3. Entry(ids[i])[1] = team[j]
      BY <1>4, <3>2, OfIs DEF Entry
    <3>4. new[i] = [id |-> ids[i], life |-> team[j].life]
      BY <3>3
    <3>5. team[j].id \in Id /\ team[j].life \in 1..lives
      <4>1. team[j] \in Entries(lives)
        BY <1>4, <3>2
      <4> QED BY <4>1 DEF Entries
    <3> HIDE DEF new, ids
    <3> QED BY <3>2, <3>4, <3>5 DEF Positions, Pairs
  <2>2. DOMAIN ids = 1..Len(ids) /\ Len(ids) \in Nat
    BY <1>1
  <2> HIDE DEF ids
  <2>3. new \in Seq(Positions(lives))
    <3> DEFINE x(i) == [id |-> ids[i], life |-> Entry(ids[i])[1].life]
    <3>1. \A i \in 1..Len(ids) : x(i) \in Positions(lives)
      BY <2>1, <2>2
    <3>2. new = [i \in 1..Len(ids) |-> x(i)]
      BY <2>2
    <3> HIDE DEF x, new
    <3>3. new \in [1..Len(ids) -> Positions(lives)]
      BY <3>1, <3>2
    <3> QED BY <2>2, <3>3
  <2>4. DOMAIN new = DOMAIN ids
    OBVIOUS
  <2> HIDE DEF new
  <2>5. OnceById(new)
    BY <1>1, <2>1, <2>4 DEF OnceById, Once, ids
  <2>6. Pairs(new) \subseteq Pairs(team)
    BY <2>1, <2>4 DEF Pairs
  <2>7. saved' = new
    BY <1>6 DEF new, ids
  <2> QED BY <1>2, <1>4, <2>3, <2>5, <2>6, <2>7 DEF Inventory
<1> QED BY <1>3, <1>5, <1>6

(* A creation makes sure that its id keeps no position of a Team gone.     *)
LEMMA ReleaseSaves ==
  ASSUME Inventory, RequestsShaped, NEW r \in Request, Release(r)
  PROVE  /\ Inventory' /\ team' = team /\ lives' = lives /\ Pairs(saved') \subseteq Pairs(saved)
         /\ \/ Done(r) /\ order' = None
            \/ Go(r, "make") /\ order' = order /\ (Candidate(req[r]) \in Ids(team) \/ Candidate(req[r]) \notin Ids(saved'))
<1> DEFINE id == Candidate(req[r])
<1>1. team' = team /\ lives' = lives
  BY DEF Release
<1>2. \/ saved' = (IF Entry(id) = <<>> THEN Dropped(saved, id) ELSE saved) /\ Go(r, "make") /\ order' = order
      \/ Done(r) /\ order' = None /\ saved' = saved
  BY DEF Release, Candidate
<1>3. saved \in Seq(Positions(lives)) /\ OnceById(saved) /\ team \in Seq(Entries(lives)) /\ OnceById(team) /\ lives \in Nat
  BY DEF Inventory
<1> HIDE DEF id
<1>4. Entry(id) = <<>> <=> id \notin Ids(team)
  BY <1>3, OfIs DEF Entry
<1>5. CASE saved' = saved
  <2>1. Inventory'
    BY <1>1, <1>5 DEF Inventory
  <2> QED BY <1>1, <1>2, <1>4, <1>5, <2>1, DroppedIs, <1>3 DEF id
<1>6. CASE saved' = Dropped(saved, id) /\ Entry(id) = <<>> /\ Go(r, "make") /\ order' = order
  <2>1. /\ saved' \in Seq(Positions(lives)) /\ OnceById(saved') /\ Ids(saved') = Ids(saved) \ {id}
        /\ \A k, life : <<k, life>> \in Pairs(saved') => <<k, life>> \in Pairs(saved)
    BY <1>3, <1>6, DroppedIs
  <2>2. Pairs(saved') \subseteq Pairs(saved)
    BY <2>1, PairsIn
  <2>3. Inventory'
    BY <1>1, <1>3, <2>1 DEF Inventory
  <2> QED BY <1>1, <1>6, <2>1, <2>2, <2>3 DEF id
<1> QED BY <1>2, <1>5, <1>6

(* A Team made is in front, of a new life; nothing else is.                *)
LEMMA MakeTeam ==
  ASSUME Inventory, RequestsShaped, NEW r \in Request, Make(r)
  PROVE  LET id == Candidate(req[r])
         IN /\ Inventory' /\ saved' = saved
            /\ \/ /\ team' = team /\ lives' = lives
                  /\ Done(r) \/ req' = [req EXCEPT ![r].at = "release", ![r].n = req[r].n + 1]
                  /\ mishaps' = mishaps
                  /\ req[r].n < MaxSuffix \/ Done(r)
               \/ /\ id \notin Ids(team) /\ Ids(team') = Ids(team) \cup {id} /\ lives' = lives + 1
                  /\ \A k, life : <<k, life>> \in Pairs(team') <=> <<k, life>> \in Pairs(team) \/ (k = id /\ life = lives + 1)
                  /\ id \in Id
                  /\ \/ req' = [req EXCEPT ![r].at = "clear", ![r].id = id] /\ mishaps' = mishaps
                     \/ Mishap /\ Done(r)
<1> DEFINE id == Candidate(req[r])
           new == [id |-> id, name |-> req[r].name, life |-> lives + 1]
<1>1. saved \in Seq(Positions(lives)) /\ OnceById(saved) /\ team \in Seq(Entries(lives)) /\ OnceById(team) /\ lives \in Nat
  BY DEF Inventory
<1>2. saved' = saved
  BY DEF Make
<1>3. Entry(id) = <<>> <=> id \notin Ids(team)
  BY <1>1, OfIs DEF Entry
<1>4. \/ /\ Entry(id) = <<>> /\ team' = <<new>> \o team /\ lives' = lives + 1
         /\ \/ req' = [req EXCEPT ![r].at = "clear", ![r].id = id] /\ mishaps' = mishaps
            \/ Mishap /\ Done(r)
      \/ /\ team' = team /\ lives' = lives
         /\ Done(r) \/ req' = [req EXCEPT ![r].at = "release", ![r].n = req[r].n + 1]
         /\ mishaps' = mishaps
         /\ req[r].n < MaxSuffix \/ Done(r)
  BY DEF Make, Candidate
<1>5. id \in Id /\ req[r].name \in Name
  <2>1. Requested(req[r]) /\ req[r].at = "make"
    BY DEF RequestsShaped, Make
  <2>2. req[r].kind = "create"
    BY <2>1, KindIs
  <2>3. req[r].name \in Name /\ req[r].n \in 1..MaxSuffix
    BY <2>1, <2>2 DEF Requested
  <2> QED BY <2>3 DEF Id, Candidate
<1>6. Entries(lives) \subseteq Entries(lives + 1) /\ Positions(lives) \subseteq Positions(lives + 1)
  <2>1. 1..lives \subseteq 1..lives + 1
    BY <1>1
  <2> QED BY <2>1 DEF Entries, Positions
<1>7. new \in Entries(lives + 1) /\ new.id = id /\ new.life = lives + 1
  <2>1. lives + 1 \in 1..lives + 1
    BY <1>1
  <2> HIDE DEF id
  <2> QED BY <1>5, <2>1 DEF Entries
<1>8. CASE team' = team /\ lives' = lives
  <2>1. Inventory'
    BY <1>1, <1>2, <1>8 DEF Inventory
  <2>2. ~(team' = <<new>> \o team /\ lives' = lives + 1)
    BY <1>1, <1>8
  <2> HIDE DEF id, new
  <2>3. /\ Done(r) \/ req' = [req EXCEPT ![r].at = "release", ![r].n = req[r].n + 1]
        /\ mishaps' = mishaps
        /\ req[r].n < MaxSuffix \/ Done(r)
    BY <1>4, <2>2
  <2> QED BY <1>2, <1>8, <2>1, <2>3
<1>9. CASE Entry(id) = <<>> /\ team' = <<new>> \o team /\ lives' = lives + 1
  <2> HIDE DEF id, new
  <2>1. team \in Seq(Entries(lives + 1)) /\ saved \in Seq(Positions(lives + 1))
    BY <1>1, <1>6, SeqMonotonic
  <2>2. id \notin Ids(team)
    BY <1>3, <1>9
  <2>3. /\ team' \in Seq(Entries(lives + 1)) /\ OnceById(team') /\ Ids(team') = Ids(team) \cup {id}
        /\ \A k, life : <<k, life>> \in Pairs(team') <=> <<k, life>> \in Pairs(team) \/ (k = id /\ life = lives + 1)
    BY <1>1, <1>7, <1>9, <2>1, <2>2, FrontIs
  <2>4. Inventory'
    BY <1>1, <1>2, <1>9, <2>1, <2>3 DEF Inventory
  <2>5. team' # team \/ lives' # lives
    BY <1>1, <1>9
  <2>6. \/ req' = [req EXCEPT ![r].at = "clear", ![r].id = id] /\ mishaps' = mishaps
        \/ Mishap /\ Done(r)
    BY <1>4, <2>5
  <2> QED BY <1>2, <1>5, <1>9, <2>2, <2>3, <2>4, <2>6 DEF id
<1> HIDE DEF id, new
<1> QED BY <1>4, <1>8, <1>9

(* A call to Team takes the Team named, or all of them, or none.           *)
LEMMA CallTakes ==
  ASSUME Inventory, RequestsShaped, NEW r \in Request, CallTeam(r)
  PROVE  /\ Inventory' /\ saved' = saved /\ lives' = lives
         /\ \A k, life : <<k, life>> \in Pairs(team') => <<k, life>> \in Pairs(team)
         /\ \A k, life : <<k, life>> \in Pairs(team) /\ <<k, life>> \notin Pairs(team')
                           => (req[r].kind = "delete" => req[r].id = k) /\ k \notin Ids(team')
         /\ \/ /\ Done(r) /\ order' = None /\ lifecycle' = None
               /\ team' = team \/ Mishap
               /\ mishaps' = mishaps \/ Mishap
            \/ Go(r, "wipe") /\ order' = order /\ lifecycle' = lifecycle /\ mishaps' = mishaps
<1>1. saved \in Seq(Positions(lives)) /\ OnceById(saved) /\ team \in Seq(Entries(lives)) /\ OnceById(team) /\ lives \in Nat
  BY DEF Inventory
<1>2. saved' = saved /\ lives' = lives
  BY DEF CallTeam
<1> DEFINE q == req[r]
<1>3. /\ team' \in {team, Remaining(q)}
      /\ \/ /\ Done(r) /\ order' = None /\ lifecycle' = None
            /\ team' = team \/ Mishap
            /\ mishaps' = mishaps \/ Mishap
         \/ Go(r, "wipe") /\ order' = order /\ lifecycle' = lifecycle /\ mishaps' = mishaps
  <2>1. q.kind = "delete" /\ Entry(q.id) # <<>> /\ ~Deletes(q) => Remaining(q) = team
    BY DEF Remaining
  <2> QED BY <2>1 DEF CallTeam, locks
<1>4. Remaining(q) \in {team, <<>>} \/ (q.kind = "delete" /\ Remaining(q) = Dropped(team, q.id))
  BY DEF Remaining
<1>5. q.kind = "delete" => Remaining(q) # <<>> \/ Remaining(q) \in {team, Dropped(team, q.id)}
  BY DEF Remaining
<1> HIDE DEF q
<1>6. CASE team' = team
  <2>1. Inventory'
    BY <1>1, <1>2, <1>6 DEF Inventory
  <2> QED BY <1>2, <1>3, <1>6, <2>1
<1>7. CASE team' = <<>> /\ q.kind # "delete"
  <2>1. <<>> \in Seq(Entries(lives)) /\ OnceById(<<>>) /\ Pairs(<<>>) = {} /\ Ids(<<>>) = {}
    BY DEF OnceById, Pairs, Ids
  <2>2. Inventory'
    BY <1>1, <1>2, <1>7, <2>1 DEF Inventory
  <2> QED BY <1>2, <1>3, <1>7, <2>1, <2>2 DEF q
<1>8. CASE team' = Dropped(team, q.id) /\ q.kind = "delete"
  <2>1. /\ team' \in Seq(Entries(lives)) /\ OnceById(team') /\ Ids(team') = Ids(team) \ {q.id}
        /\ \A k, life : <<k, life>> \in Pairs(team') <=> <<k, life>> \in Pairs(team) /\ k # q.id
    BY <1>1, <1>8, DroppedIs
  <2>2. Inventory'
    BY <1>1, <1>2, <1>8, <2>1 DEF Inventory
  <2> QED BY <1>2, <1>3, <1>8, <2>1, <2>2 DEF q
<1> QED BY <1>3, <1>4, <1>5, <1>6, <1>7, <1>8

LEMMA ForgetSaves ==
  ASSUME Inventory, NEW r \in Request, Forget(r)
  PROVE  Inventory' /\ team' = team /\ lives' = lives /\ Pairs(saved') \subseteq Pairs(saved)
<1>1. saved \in Seq(Positions(lives)) /\ OnceById(saved) /\ team \in Seq(Entries(lives)) /\ OnceById(team) /\ lives \in Nat
  BY DEF Inventory
<1>2. team' = team /\ lives' = lives /\ saved' \in {saved, <<>>, Dropped(saved, req[r].id)}
  BY DEF Forget
<1>3. CASE saved' = saved
  BY <1>1, <1>2, <1>3 DEF Inventory
<1>4. CASE saved' = <<>>
  <2>1. <<>> \in Seq(Positions(lives)) /\ OnceById(<<>>) /\ Pairs(<<>>) = {}
    BY DEF OnceById, Pairs
  <2> QED BY <1>1, <1>2, <1>4, <2>1 DEF Inventory
<1>5. CASE saved' = Dropped(saved, req[r].id)
  <2>1. /\ saved' \in Seq(Positions(lives)) /\ OnceById(saved')
        /\ \A k, life : <<k, life>> \in Pairs(saved') => <<k, life>> \in Pairs(saved)
    BY <1>1, <1>5, DroppedIs
  <2>2. Pairs(saved') \subseteq Pairs(saved)
    BY <2>1, PairsIn
  <2> QED BY <1>1, <1>2, <2>1, <2>2 DEF Inventory
<1> QED BY <1>2, <1>3, <1>4, <1>5

-----------------------------------------------------------------------------
(* The shapes.                                                             *)

Receives(r) == TeamsCreate(r) \/ TeamsDelete(r) \/ TeamsReorder(r) \/ Authenticated(r) \/ HostReset(r) \/ Admit(r)
TurnMoves(t) ==
  \/ TurnReplies(t) \/ TurnGuides(t) \/ TurnFails(t) \/ TurnInstalls(t) \/ TurnUninstalls(t) \/ TurnPauses(t)
  \/ TurnAbandoned(t)

LEMMA NextIs ==
  ASSUME Next
  PROVE  \/ \E r \in Request : Receives(r)
         \/ Rename \/ Crash
         \/ \E r \in Request : Step(r)
         \/ \E t \in DOMAIN turns : TurnMoves(t)
BY DEF Next, Receives, TurnMoves

LEMMA FreshRequest ==
  ASSUME NEW q, NEW at, NEW kind, NEW id, NEW name,
         q \in [at : UNION {Ats[k] : k \in DOMAIN Ats}, kind : DOMAIN Ats, id : Id \cup Seq(Id) \cup {None},
                name : Name \cup {None}, n : 1..MaxSuffix, life : Nat],
         q.at = at, q.kind = kind, q.id = id, q.name = name, at \in Ats[kind], at # "clear",
         kind \in {"delete", "admit"} => id \in Id,
         kind = "reorder" => id \in Seq(Id) /\ Once(id),
         kind \in {"create", "delete"} => name \in Name
  PROVE  Requested(q)
BY DEF Requested

(* What is received: an operation on Teams that waits for the order, a     *)
(* reset by the host when no other runs, or a message.                     *)
Fresh(q) ==
  \/ q.at = "order" /\ q.kind \in {"create", "delete", "reorder", "reset"}
  \/ q.at = "consume" /\ q.kind = "host" /\ \A s \in Request : req[s].kind # "host"
  \/ q.at = "lifecycle" /\ q.kind = "admit"

LEMMA ReceivedIs ==
  ASSUME Shaped, NEW r \in Request, Receives(r)
  PROVE  \E q : Received(r, q) /\ Requested(q) /\ Fresh(q)
<1> DEFINE A == UNION {Ats[k] : k \in DOMAIN Ats}
           Q == [at : A, kind : DOMAIN Ats, id : Id \cup Seq(Id) \cup {None}, name : Name \cup {None}, n : 1..MaxSuffix, life : Nat]
           Is(q, at, kind, id, name) == q \in Q /\ q.at = at /\ q.kind = kind /\ q.id = id /\ q.name = name
<1>1. /\ \A kind \in {"create", "delete", "reorder", "reset"} : kind \in DOMAIN Ats /\ "order" \in Ats[kind] /\ "order" \in A
      /\ "host" \in DOMAIN Ats /\ "consume" \in Ats["host"] /\ "consume" \in A
      /\ "admit" \in DOMAIN Ats /\ "lifecycle" \in Ats["admit"] /\ "lifecycle" \in A
  <2>1. /\ \A kind \in {"create", "delete", "reorder", "reset"} : kind \in DOMAIN Ats /\ "order" \in Ats[kind]
        /\ "host" \in DOMAIN Ats /\ "consume" \in Ats["host"]
        /\ "admit" \in DOMAIN Ats /\ "lifecycle" \in Ats["admit"]
    BY DEF Ats, Deleting
  <2> QED BY <2>1
<1>2. Idle \in Q
  BY IdleRequested DEF Requested
<1>3. Idle.id = None /\ Idle.name = None
  BY DEF Idle
<1>4. \A i \in DOMAIN team : team[i].id \in Id
  <2>1. \A i \in DOMAIN team : team[i] \in Entries(lives)
    BY DEF Shaped
  <2> QED BY <2>1 DEF Entries
<1>5. CASE TeamsCreate(r)
  <2>1. PICK name \in Name : Received(r, [Idle EXCEPT !.at = "order", !.kind = "create", !.name = name])
    BY <1>5 DEF TeamsCreate
  <2> DEFINE q == [Idle EXCEPT !.at = "order", !.kind = "create", !.name = name]
  <2>3. Is(q, "order", "create", None, name)
    <3> HIDE DEF A
    <3> QED BY <1>1, <1>2, <1>3
  <2> HIDE DEF q
  <2>4. Requested(q)
    BY <1>1, <2>3, FreshRequest
  <2> QED BY <2>1, <2>3, <2>4 DEF Fresh, q
<1>6. CASE TeamsDelete(r)
  <2>1. PICK id \in Ids(team), name \in Name : Received(r, [Idle EXCEPT !.at = "order", !.kind = "delete", !.id = id, !.name = name])
    BY <1>6 DEF TeamsDelete
  <2>2. id \in Id
    BY <1>4 DEF Ids
  <2> DEFINE q == [Idle EXCEPT !.at = "order", !.kind = "delete", !.id = id, !.name = name]
  <2>3. Is(q, "order", "delete", id, name)
    <3> HIDE DEF A
    <3> QED BY <1>1, <1>2, <1>3, <2>2
  <2> HIDE DEF q
  <2>4. Requested(q)
    BY <1>1, <2>2, <2>3, FreshRequest
  <2> QED BY <2>1, <2>3, <2>4 DEF Fresh, q
<1>8. CASE Authenticated(r)
  <2>1. Received(r, [Idle EXCEPT !.at = "order", !.kind = "reset"])
    BY <1>8 DEF Authenticated
  <2> DEFINE q == [Idle EXCEPT !.at = "order", !.kind = "reset"]
  <2>3. Is(q, "order", "reset", None, None)
    <3> HIDE DEF A
    <3> QED BY <1>1, <1>2, <1>3
  <2> HIDE DEF q
  <2>4. Requested(q)
    BY <1>1, <2>3, FreshRequest
  <2> QED BY <2>1, <2>3, <2>4 DEF Fresh, q
<1>9. CASE HostReset(r)
  <2>1. Received(r, [Idle EXCEPT !.at = "consume", !.kind = "host"]) /\ \A s \in Request : req[s].kind # "host"
    BY <1>9 DEF HostReset
  <2> DEFINE q == [Idle EXCEPT !.at = "consume", !.kind = "host"]
  <2>3. Is(q, "consume", "host", None, None)
    <3> HIDE DEF A
    <3> QED BY <1>1, <1>2, <1>3
  <2> HIDE DEF q
  <2>4. Requested(q)
    BY <1>1, <2>3, FreshRequest
  <2> QED BY <2>1, <2>3, <2>4 DEF Fresh, q
<1>10. CASE Admit(r)
  <2>1. PICK id \in Ids(team) : Received(r, [Idle EXCEPT !.at = "lifecycle", !.kind = "admit", !.id = id])
    BY <1>10 DEF Admit
  <2>2. id \in Id
    BY <1>4 DEF Ids
  <2> DEFINE q == [Idle EXCEPT !.at = "lifecycle", !.kind = "admit", !.id = id]
  <2>3. Is(q, "lifecycle", "admit", id, None)
    <3> HIDE DEF A
    <3> QED BY <1>1, <1>2, <1>3, <2>2
  <2> HIDE DEF q
  <2>4. Requested(q)
    BY <1>1, <2>2, <2>3, FreshRequest
  <2> QED BY <2>1, <2>3, <2>4 DEF Fresh, q
<1>7. CASE TeamsReorder(r)
  <2> DEFINE ids == [i \in DOMAIN team |-> team[Len(team) + 1 - i].id]
             q == [Idle EXCEPT !.at = "order", !.kind = "reorder", !.id = ids]
  <2>1. Received(r, q)
    BY <1>7 DEF TeamsReorder
  <2>2. Len(team) \in Nat /\ DOMAIN team = 1..Len(team) /\ OnceById(team)
    BY DEF Shaped
  <2>3. \A i \in 1..Len(team) : Len(team) + 1 - i \in 1..Len(team)
    BY <2>2
  <2>4. ids \in [1..Len(team) -> Id]
    BY <1>4, <2>2, <2>3
  <2>5. ids \in Seq(Id)
    <3> HIDE DEF ids
    <3> QED BY <2>2, <2>4
  <2>6. Once(ids)
    <3> SUFFICES ASSUME NEW i \in 1..Len(team), NEW k \in 1..Len(team), ids[i] = ids[k] PROVE i = k
      BY <2>2 DEF Once
    <3>1. Len(team) + 1 - i = Len(team) + 1 - k
      BY <2>2, <2>3 DEF OnceById
    <3> QED BY <2>2, <3>1
  <2> HIDE DEF ids
  <2>7. Is(q, "order", "reorder", ids, None)
    <3> HIDE DEF A
    <3> QED BY <1>1, <1>2, <1>3, <2>5
  <2> HIDE DEF q
  <2>8. Requested(q)
    BY <1>1, <2>5, <2>6, <2>7, FreshRequest
  <2> QED BY <2>1, <2>7, <2>8 DEF Fresh
<1> QED BY <1>5, <1>6, <1>7, <1>8, <1>9, <1>10 DEF Receives

-----------------------------------------------------------------------------
(* What each action does to the requests, and to the locks with them.      *)

Others(r) == RequestsShaped' /\ \A s \in Request : s # r => req'[s] = req[s]
Ends(r) == Others(r) /\ req'[r] = Idle
Goes(r, to) ==
  /\ Others(r)
  /\ req'[r].at = to /\ req'[r].kind = req[r].kind /\ req'[r].id = req[r].id
  /\ req'[r].name = req[r].name /\ req'[r].n = req[r].n /\ req'[r].life = req[r].life

LEMMA Ending == ASSUME RequestsShaped, NEW r \in Request, Done(r) PROVE Ends(r)
BY Gone DEF Ends, Others

LEMMA Going ==
  ASSUME RequestsShaped, NEW r \in Request, NEW to \in Ats[req[r].kind], to # "clear", Go(r, to)
  PROVE  Goes(r, to)
BY Went DEF Goes, Others

LEMMA DeletingAts == \A kind \in {"delete", "reset", "host"} : Deleting \subseteq Ats[kind]
BY DEF Ats

LEMMA IdleIs == Idle.at = "idle" /\ Idle.kind = "none"
BY DEF Idle

LEMMA ConsumeMoves ==
  ASSUME RequestsShaped, NEW r \in Request, Consume(r)
  PROVE  /\ req[r].at = "consume" /\ req[r].kind = "host" /\ capability' = "consumed"
         /\ (Goes(r, "order") /\ capability = "projected") \/ Ends(r)
<1>1. req[r].at = "consume" /\ Requested(req[r])
  BY DEF Consume, RequestsShaped
<1>2. req[r].kind = "host"
  BY <1>1, KindIs
<1>3. "order" \in Ats[req[r].kind]
  BY <1>2, DeletingAts DEF Deleting
<1>4. (Go(r, "order") /\ capability = "projected") \/ Done(r)
  BY DEF Consume
<1>5. capability' = "consumed"
  BY DEF Consume
<1> QED BY <1>1, <1>2, <1>3, <1>4, <1>5, Ending, Going

LEMMA LockOrderMoves ==
  ASSUME RequestsShaped, NEW r \in Request, LockOrder(r)
  PROVE  /\ req[r].at = "order" /\ order = None /\ order' = r /\ lifecycle' = lifecycle
         /\ \/ Goes(r, "release") /\ req[r].kind = "create"
            \/ Goes(r, "save") /\ req[r].kind = "reorder"
            \/ Goes(r, "lifecycle") /\ req[r].kind \in {"delete", "reset", "host"}
<1>1. req[r].at = "order" /\ Requested(req[r]) /\ order = None /\ order' = r /\ lifecycle' = lifecycle
  BY DEF LockOrder, RequestsShaped
<1>2. req[r].kind \in {"create", "delete", "reorder", "reset", "host"}
  BY <1>1, KindIs
<1>3. Go(r, AfterOrder[req[r].kind])
  BY DEF LockOrder
<1>4. CASE req[r].kind = "create"
  <2>1. "release" \in Ats[req[r].kind] /\ AfterOrder[req[r].kind] = "release"
    BY <1>4 DEF Ats, AfterOrder
  <2> QED BY <1>1, <1>3, <1>4, <2>1, Going
<1>5. CASE req[r].kind = "reorder"
  <2>1. "save" \in Ats[req[r].kind] /\ AfterOrder[req[r].kind] = "save"
    BY <1>5 DEF Ats, AfterOrder
  <2> QED BY <1>1, <1>3, <1>5, <2>1, Going
<1>6. CASE req[r].kind \in {"delete", "reset", "host"}
  <2>1. "lifecycle" \in Ats[req[r].kind]
    BY <1>6, DeletingAts DEF Deleting
  <2>2. AfterOrder[req[r].kind] = "lifecycle"
    BY <1>6 DEF AfterOrder
  <2> QED BY <1>1, <1>3, <1>6, <2>1, <2>2, Going
<1> QED BY <1>2, <1>4, <1>5, <1>6

LEMMA LockLifecycleMoves ==
  ASSUME RequestsShaped, NEW r \in Request, LockLifecycle(r)
  PROVE  /\ req[r].at = "lifecycle" /\ lifecycle = None /\ lifecycle' = r /\ order' = order
         /\ \/ Goes(r, "check") /\ req[r].kind = "admit"
            \/ Goes(r, "call") /\ req[r].kind \in {"delete", "reset", "host"}
<1>1. req[r].at = "lifecycle" /\ Requested(req[r]) /\ lifecycle = None /\ lifecycle' = r /\ order' = order
  BY DEF LockLifecycle, RequestsShaped
<1>2. req[r].kind \in {"delete", "reset", "host", "admit"}
  BY <1>1, KindIs
<1>3. Go(r, IF req[r].kind = "admit" THEN "check" ELSE "call")
  BY DEF LockLifecycle
<1>4. CASE req[r].kind = "admit"
  <2>1. "check" \in Ats[req[r].kind]
    BY <1>4 DEF Ats
  <2> QED BY <1>1, <1>3, <1>4, <2>1, Going
<1>5. CASE req[r].kind # "admit"
  <2>1. "call" \in Ats[req[r].kind]
    BY <1>2, <1>5, DeletingAts DEF Deleting
  <2> QED BY <1>1, <1>2, <1>3, <1>5, <2>1, Going
<1> QED BY <1>4, <1>5

LEMMA ReorderMoves ==
  ASSUME RequestsShaped, NEW r \in Request, Reorder(r)
  PROVE  req[r].at = "save" /\ Ends(r) /\ order' = None /\ lifecycle' = lifecycle
<1>1. Done(r) /\ req[r].at = "save" /\ order' = None /\ lifecycle' = lifecycle
  BY DEF Reorder
<1> QED BY <1>1, Ending

LEMMA ReleaseMoves ==
  ASSUME RequestsShaped, NEW r \in Request, Release(r)
  PROVE  /\ req[r].at = "release" /\ req[r].kind = "create" /\ lifecycle' = lifecycle
         /\ (Goes(r, "make") /\ order' = order) \/ (Ends(r) /\ order' = None)
<1>1. req[r].at = "release" /\ Requested(req[r]) /\ lifecycle' = lifecycle
  BY DEF Release, RequestsShaped
<1>2. req[r].kind = "create"
  BY <1>1, KindIs
<1>3. "make" \in Ats[req[r].kind]
  BY <1>2 DEF Ats
<1>4. (Go(r, "make") /\ order' = order) \/ (Done(r) /\ order' = None)
  BY DEF Release
<1> QED BY <1>1, <1>2, <1>3, <1>4, Ending, Going

(* A creation tries its next id, or clears what it made.                   *)
Tries(r) == Others(r) /\ req'[r].at = "release" /\ req'[r].kind = "create"
Clears(r) == Others(r) /\ req'[r].at = "clear" /\ req'[r].kind = "create" /\ req'[r].id = Candidate(req[r])

LEMMA Trying ==
  ASSUME RequestsShaped, NEW r \in Request, req[r].kind = "create", req[r].n < MaxSuffix,
         req' = [req EXCEPT ![r].at = "release", ![r].n = req[r].n + 1]
  PROVE  Tries(r)
<1> DEFINE q == [req[r] EXCEPT !.at = "release", !.n = req[r].n + 1]
           A == UNION {Ats[kind] : kind \in DOMAIN Ats}
           Q == [at : A, kind : DOMAIN Ats, id : Id \cup Seq(Id) \cup {None},
                 name : Name \cup {None}, n : 1..MaxSuffix, life : Nat]
<1>1. req[r] \in Q /\ req[r].name \in Name /\ req[r].n \in 1..MaxSuffix
  BY DEF RequestsShaped, Requested
<1>2. req[r].n + 1 \in 1..MaxSuffix
  BY <1>1, TeamsAssumption
<1>3. "create" \in DOMAIN Ats /\ "release" \in Ats["create"]
  BY DEF Ats
<1>4. "release" \in A
  BY <1>3
<1> HIDE DEF A
<1>5. q \in Q /\ q.at = "release" /\ q.kind = "create" /\ q.name = req[r].name
  BY <1>1, <1>2, <1>4
<1>6. req' = [req EXCEPT ![r] = q]
  OBVIOUS
<1> HIDE DEF q
<1>7. Requested(q)
  BY <1>1, <1>3, <1>5 DEF Requested, A
<1>8. RequestsShaped' /\ req'[r] = q /\ \A s \in Request : s # r => req'[s] = req[s]
  BY <1>6, <1>7, OneChanges
<1> QED BY <1>5, <1>8 DEF Tries, Others

LEMMA Clear ==
  ASSUME RequestsShaped, NEW r \in Request, req[r].kind = "create", Candidate(req[r]) \in Id,
         req' = [req EXCEPT ![r].at = "clear", ![r].id = Candidate(req[r])]
  PROVE  Clears(r)
<1> DEFINE id == Candidate(req[r])
           A == UNION {Ats[kind] : kind \in DOMAIN Ats}
           Q == [at : A, kind : DOMAIN Ats, id : Id \cup Seq(Id) \cup {None},
                 name : Name \cup {None}, n : 1..MaxSuffix, life : Nat]
<1> HIDE DEF id
<1> DEFINE q == [req[r] EXCEPT !.at = "clear", !.id = id]
<1>1. req[r] \in Q /\ req[r].name \in Name
  BY DEF RequestsShaped, Requested
<1>2. id \in Id /\ req' = [req EXCEPT ![r].at = "clear", ![r].id = id]
  BY DEF id
<1>3. "create" \in DOMAIN Ats /\ "clear" \in Ats["create"]
  BY DEF Ats
<1>4. "clear" \in A
  BY <1>3
<1> HIDE DEF A
<1>5. q \in Q /\ q.at = "clear" /\ q.kind = "create" /\ q.name = req[r].name /\ q.id = id
  BY <1>1, <1>2, <1>4
<1>6. req' = [req EXCEPT ![r] = q]
  BY <1>2
<1> HIDE DEF q
<1>7. Requested(q)
  BY <1>1, <1>2, <1>3, <1>5 DEF Requested, A
<1>8. RequestsShaped' /\ req'[r] = q /\ \A s \in Request : s # r => req'[s] = req[s]
  BY <1>6, <1>7, OneChanges
<1> QED BY <1>5, <1>8 DEF Clears, Others, id

(* What a creation does to the inventory and to its request.               *)
LEMMA MakeMoves ==
  ASSUME Inventory, RequestsShaped, NEW r \in Request, Make(r)
  PROVE  LET id == Candidate(req[r])
         IN /\ req[r].at = "make" /\ req[r].kind = "create" /\ saved' = saved /\ Inventory' /\ lifecycle' = lifecycle
            /\ \/ /\ team' = team /\ lives' = lives /\ mishaps' = mishaps
                  /\ (Ends(r) /\ order' = None) \/ (Tries(r) /\ order' = order)
               \/ /\ id \notin Ids(team) /\ Ids(team') = Ids(team) \cup {id} /\ lives' = lives + 1
                  /\ \A k, life : <<k, life>> \in Pairs(team') <=> <<k, life>> \in Pairs(team) \/ (k = id /\ life = lives + 1)
                  /\ id \in Id /\ order' = None
                  /\ (Clears(r) /\ mishaps' = mishaps) \/ (Mishap /\ Ends(r))
<1> DEFINE id == Candidate(req[r])
<1>1. req[r].at = "make" /\ Requested(req[r]) /\ lifecycle' = lifecycle
  BY DEF Make, RequestsShaped
<1>2. req[r].kind = "create"
  BY <1>1, KindIs
<1>3. /\ Inventory' /\ saved' = saved
      /\ \/ /\ team' = team /\ lives' = lives
            /\ Done(r) \/ req' = [req EXCEPT ![r].at = "release", ![r].n = req[r].n + 1]
            /\ mishaps' = mishaps
            /\ req[r].n < MaxSuffix \/ Done(r)
         \/ /\ id \notin Ids(team) /\ Ids(team') = Ids(team) \cup {id} /\ lives' = lives + 1
            /\ \A k, life : <<k, life>> \in Pairs(team') <=> <<k, life>> \in Pairs(team) \/ (k = id /\ life = lives + 1)
            /\ id \in Id
            /\ \/ req' = [req EXCEPT ![r].at = "clear", ![r].id = id] /\ mishaps' = mishaps
               \/ Mishap /\ Done(r)
  BY MakeTeam
<1>4. \/ order' = None
      \/ order' = order /\ team' = team /\ req' = [req EXCEPT ![r].at = "release", ![r].n = req[r].n + 1] /\ req[r].n < MaxSuffix
  BY DEF Make
<1>5. \/ order' = None /\ (Done(r) \/ lives' = lives + 1)
      \/ order' = order /\ req' = [req EXCEPT ![r].at = "release", ![r].n = req[r].n + 1] /\ req[r].n < MaxSuffix
  BY DEF Make
<1> HIDE DEF id
<1>6. lives \in Nat
  BY DEF Inventory
<1>7. CASE team' = team /\ lives' = lives /\ mishaps' = mishaps
  <2>1. lives' # lives + 1
    BY <1>6, <1>7
  <2>2. CASE order' = None /\ Done(r)
    BY <1>1, <1>2, <1>3, <1>7, <2>2, Ending
  <2>3. CASE order' = order /\ req' = [req EXCEPT ![r].at = "release", ![r].n = req[r].n + 1] /\ req[r].n < MaxSuffix
    BY <1>1, <1>2, <1>3, <1>7, <2>3, Trying
  <2> QED BY <1>5, <2>1, <2>2, <2>3
<1>8. CASE id \notin Ids(team) /\ Ids(team') = Ids(team) \cup {id} /\ lives' = lives + 1
  <2>1. lives' # lives /\ team' # team
    BY <1>6, <1>8
  <2>2. order' = None
    BY <1>4, <2>1
  <2>3. \/ req' = [req EXCEPT ![r].at = "clear", ![r].id = id] /\ mishaps' = mishaps
        \/ Mishap /\ Done(r)
    BY <1>3, <2>1
  <2>4. /\ id \in Id
        /\ \A k, life : <<k, life>> \in Pairs(team') <=> <<k, life>> \in Pairs(team) \/ (k = id /\ life = lives + 1)
    BY <1>3, <2>1
  <2>5. (Clears(r) /\ mishaps' = mishaps) \/ (Mishap /\ Ends(r))
    BY <1>2, <2>3, <2>4, Clear, Ending DEF id
  <2> QED BY <1>1, <1>2, <1>3, <1>8, <2>2, <2>4, <2>5 DEF id
<1> QED BY <1>3, <1>7, <1>8

LEMMA ClearCreatedMoves ==
  ASSUME RequestsShaped, NEW r \in Request, ClearCreated(r)
  PROVE  /\ req[r].at = "clear" /\ req[r].id \in Id /\ Ends(r)
         /\ (h' = ClearTeam(h, req[r].id) /\ mishaps' = mishaps) \/ (h' = h /\ Mishap)
<1>1. Done(r) /\ req[r].at = "clear" /\ Requested(req[r])
  BY DEF ClearCreated, RequestsShaped
<1>2. (h' = ClearTeam(h, req[r].id) /\ mishaps' = mishaps) \/ (h' = h /\ Mishap)
  BY DEF ClearCreated
<1> QED BY <1>1, <1>2, Ending DEF Requested

LEMMA CallTeamMoves ==
  ASSUME Inventory, RequestsShaped, NEW r \in Request, CallTeam(r)
  PROVE  /\ req[r].at = "call" /\ req[r].kind \in {"delete", "reset", "host"}
         /\ wiped' = IF req[r].kind = "host" THEN wiped + 1 ELSE wiped
         /\ \/ /\ Ends(r) /\ order' = None /\ lifecycle' = None
               /\ team' = team \/ Mishap
               /\ mishaps' = mishaps \/ Mishap
            \/ Goes(r, "wipe") /\ order' = order /\ lifecycle' = lifecycle /\ mishaps' = mishaps
<1>1. req[r].at = "call" /\ Requested(req[r])
  BY DEF CallTeam, RequestsShaped
<1>2. req[r].kind \in {"delete", "reset", "host"}
  BY <1>1, KindIs
<1>3. "wipe" \in Ats[req[r].kind]
  BY <1>2, DeletingAts DEF Deleting
<1>4. wiped' = IF req[r].kind = "host" THEN wiped + 1 ELSE wiped
  BY DEF CallTeam
<1>5. \/ /\ Done(r) /\ order' = None /\ lifecycle' = None
         /\ team' = team \/ Mishap
         /\ mishaps' = mishaps \/ Mishap
      \/ Go(r, "wipe") /\ order' = order /\ lifecycle' = lifecycle /\ mishaps' = mishaps
  BY CallTakes
<1> QED BY <1>1, <1>2, <1>3, <1>4, <1>5, Ending, Going

LEMMA WipeMoves ==
  ASSUME RequestsShaped, NEW r \in Request, Wipe(r)
  PROVE  /\ req[r].at = "wipe" /\ req[r].kind \in {"delete", "reset", "host"} /\ lifecycle' = None
         /\ \/ /\ Goes(r, "forget") /\ order' = order /\ mishaps' = mishaps
               /\ h' = IF req[r].kind = "delete" THEN ClearTeam(h, req[r].id) ELSE ClearAll(h)
            \/ Ends(r) /\ order' = None /\ h' = h /\ Mishap
<1>1. req[r].at = "wipe" /\ Requested(req[r]) /\ lifecycle' = None
  BY DEF Wipe, RequestsShaped
<1>2. req[r].kind \in {"delete", "reset", "host"}
  BY <1>1, KindIs
<1>3. "forget" \in Ats[req[r].kind]
  BY <1>2, DeletingAts DEF Deleting
<1>4. \/ /\ Go(r, "forget") /\ order' = order /\ mishaps' = mishaps
         /\ h' = IF req[r].kind = "delete" THEN ClearTeam(h, req[r].id) ELSE ClearAll(h)
      \/ Done(r) /\ order' = None /\ h' = h /\ Mishap
  BY DEF Wipe
<1> QED BY <1>1, <1>2, <1>3, <1>4, Ending, Going

LEMMA ForgetMoves ==
  ASSUME RequestsShaped, NEW r \in Request, Forget(r)
  PROVE  /\ req[r].at = "forget" /\ req[r].kind \in {"delete", "reset", "host"} /\ order' = None /\ lifecycle' = lifecycle
         /\ Goes(r, "end") \/ Ends(r)
<1>1. req[r].at = "forget" /\ Requested(req[r]) /\ order' = None /\ lifecycle' = lifecycle
  BY DEF Forget, RequestsShaped
<1>2. req[r].kind \in {"delete", "reset", "host"}
  BY <1>1, KindIs
<1>3. "end" \in Ats[req[r].kind]
  BY <1>2, DeletingAts DEF Deleting
<1>4. Go(r, "end") \/ Done(r)
  BY DEF Forget
<1> QED BY <1>1, <1>2, <1>3, <1>4, Ending, Going

LEMMA EndRunsMoves ==
  ASSUME RequestsShaped, NEW r \in Request, EndRuns(r)
  PROVE  req[r].at = "end" /\ req[r].kind \in {"delete", "reset", "host"} /\ Ends(r)
<1>1. req[r].at = "end" /\ Requested(req[r]) /\ Done(r)
  BY DEF EndRuns, RequestsShaped
<1> QED BY <1>1, KindIs, Ending

(* A message checked knows the Team it is for.                             *)
Checks(r) == Others(r) /\ req'[r].at = "append" /\ req'[r].kind = "admit" /\ req'[r].id = req[r].id

LEMMA AdmitCheckMoves ==
  ASSUME Inventory, RequestsShaped, NEW r \in Request, AdmitCheck(r)
  PROVE  /\ req[r].at = "check" /\ req[r].kind = "admit" /\ order' = order
         /\ \/ Ends(r) /\ lifecycle' = None
            \/ Checks(r) /\ lifecycle' = lifecycle /\ There(req[r].id, req'[r].life)
<1>1. req[r].at = "check" /\ Requested(req[r]) /\ order' = order
  BY DEF AdmitCheck, RequestsShaped, locks
<1>2. req[r].kind = "admit"
  BY <1>1, KindIs
<1> DEFINE id == req[r].id
           life == Entry(id)[1].life
<1>3. \/ Done(r) /\ lifecycle' = None
      \/ Entry(id) # <<>> /\ req' = [req EXCEPT ![r].at = "append", ![r].life = life] /\ lifecycle' = lifecycle
  BY DEF AdmitCheck
<1>4. CASE Done(r) /\ lifecycle' = None
  BY <1>1, <1>2, <1>4, Ending
<1>5. CASE Entry(id) # <<>> /\ req' = [req EXCEPT ![r].at = "append", ![r].life = life] /\ lifecycle' = lifecycle
  <2>1. lives \in Nat /\ team \in Seq(Entries(lives)) /\ OnceById(team)
    BY DEF Inventory
  <2>2. id \in Ids(team)
    BY <1>5, <2>1, OfIs DEF Entry
  <2>3. PICK j \in DOMAIN team : team[j].id = id
    BY <2>2 DEF Ids
  <2>4. Entry(id)[1] = team[j] /\ team[j] \in Entries(lives)
    BY <2>1, <2>3, OfIs DEF Entry
  <2>5. life = team[j].life /\ life \in Nat
    BY <2>1, <2>4 DEF Entries
  <2>6. There(id, life)
    BY <2>3, <2>5 DEF There
  <2> HIDE DEF life, id
  <2> DEFINE q == [req[r] EXCEPT !.at = "append", !.life = life]
             A == UNION {Ats[kind] : kind \in DOMAIN Ats}
             Q == [at : A, kind : DOMAIN Ats, id : Id \cup Seq(Id) \cup {None},
                   name : Name \cup {None}, n : 1..MaxSuffix, life : Nat]
  <2>7. req[r] \in Q /\ req[r].id \in Id
    BY <1>1, <1>2 DEF RequestsShaped, Requested
  <2>8. "admit" \in DOMAIN Ats /\ "append" \in Ats["admit"]
    BY DEF Ats
  <2>9. "append" \in A
    BY <2>8
  <2> HIDE DEF A
  <2>10. q \in Q /\ q.at = "append" /\ q.kind = "admit" /\ q.id = req[r].id /\ q.life = life
    BY <1>2, <2>5, <2>7, <2>9
  <2>11. req' = [req EXCEPT ![r] = q]
    BY <1>5
  <2> HIDE DEF q
  <2>12. Requested(q)
    BY <2>7, <2>8, <2>10 DEF Requested, A
  <2>13. RequestsShaped' /\ req'[r] = q /\ \A s \in Request : s # r => req'[s] = req[s]
    BY <2>11, <2>12, OneChanges
  <2>14. Checks(r) /\ There(req[r].id, req'[r].life)
    BY <2>6, <2>10, <2>13 DEF Checks, Others, id
  <2> QED BY <1>1, <1>2, <1>5, <2>14
<1> QED BY <1>3, <1>4, <1>5

LEMMA AdmitAppendMoves ==
  ASSUME RequestsShaped, NEW r \in Request, AdmitAppend(r)
  PROVE  /\ req[r].at = "append" /\ req[r].kind = "admit" /\ req[r].id \in Id /\ Ends(r) /\ order' = order
         /\ lifecycle' = IF lifecycle = r THEN None ELSE lifecycle
         /\ \/ \E kind \in Message :
                  /\ h' = AppendUser(h, req[r].id, Len(turns) + 1, [kind |-> kind], FALSE, req[r].life)[2]
                  /\ turns' = Append(turns, [id |-> req[r].id, life |-> req[r].life, open |-> TRUE])
                  /\ mishaps' = mishaps
            \/ h' = h /\ turns' = turns /\ Mishap
<1>1. req[r].at = "append" /\ Requested(req[r]) /\ Done(r) /\ order' = order
  BY DEF AdmitAppend, RequestsShaped
<1>2. req[r].kind = "admit"
  BY <1>1, KindIs
<1>3. req[r].id \in Id
  BY <1>1, <1>2 DEF Requested
<1>4. /\ lifecycle' = IF lifecycle = r THEN None ELSE lifecycle
      /\ \/ \E kind \in Message :
               /\ h' = AppendUser(h, req[r].id, Len(turns) + 1, [kind |-> kind], FALSE, req[r].life)[2]
               /\ turns' = Append(turns, [id |-> req[r].id, life |-> req[r].life, open |-> TRUE])
               /\ mishaps' = mishaps
         \/ h' = h /\ turns' = turns /\ Mishap
  BY DEF AdmitAppend
<1> QED BY <1>1, <1>2, <1>3, <1>4, Ending

LEMMA ReceiveMoves ==
  ASSUME Shaped, NEW r \in Request, Receives(r)
  PROVE  /\ UNCHANGED <<space, locks, chat, mishaps>>
         /\ req[r] = Idle /\ Others(r) /\ Fresh(req'[r])
<1>1. PICK q : Received(r, q) /\ Requested(q) /\ Fresh(q)
  BY ReceivedIs
<1>2. req[r] = Idle /\ UNCHANGED <<space, locks, chat, mishaps>> /\ req' = [req EXCEPT ![r] = q]
  BY <1>1 DEF Received
<1>3. RequestsShaped' /\ req'[r] = q /\ \A s \in Request : s # r => req'[s] = req[s]
  BY <1>1, <1>2, OneChanges DEF Shaped
<1> QED BY <1>1, <1>2, <1>3 DEF Others

LEMMA CrashMoves ==
  ASSUME Crash
  PROVE  /\ RequestsShaped' /\ (\A s \in Request : req'[s] = Idle)
         /\ UNCHANGED <<space, capability, wiped>> /\ Mishap /\ order' = None /\ lifecycle' = None
<1>1. /\ req' = [s \in Request |-> Idle]
      /\ UNCHANGED <<space, capability, wiped>> /\ Mishap /\ order' = None /\ lifecycle' = None
  BY DEF Crash
<1>2. \A s \in Request : req'[s] = Idle
  BY <1>1
<1>3. req' = [s \in Request |-> req'[s]]
  BY <1>1
<1> QED BY <1>1, <1>2, <1>3, IdleRequested DEF RequestsShaped

-----------------------------------------------------------------------------
(* The locks, the admissions and the capability.                           *)

LEMMA LockedKept ==
  ASSUME Shaped, Locked, Next
  PROVE  Locked'
<1>1. Inventory /\ RequestsShaped
  BY DEF Shaped, Inventory
<1>2. None \notin Request
  BY TeamsAssumption
<1>3. ASSUME NEW r \in Request, Receives(r) PROVE Locked'
  <2>1. order' = order /\ lifecycle' = lifecycle /\ req[r] = Idle /\ Others(r) /\ Fresh(req'[r])
    BY <1>3, ReceiveMoves DEF locks
  <2>2. ~Orders(req[r]) /\ ~Lives(req[r]) /\ ~Orders(req'[r]) /\ ~Lives(req'[r])
    BY <2>1, IdleIs DEF Orders, Lives, Fresh
  <2>3. \A s \in Request : (Orders(req'[s]) <=> Orders(req[s])) /\ (Lives(req'[s]) <=> Lives(req[s]))
    BY <2>1, <2>2 DEF Others
  <2> QED BY <2>1, <2>3 DEF Locked
<1>4. CASE Rename
  BY <1>4 DEF Rename, locks, Locked
<1>5. CASE Crash
  <2>1. order' = None /\ lifecycle' = None /\ \A s \in Request : req'[s] = Idle
    BY <1>5, CrashMoves
  <2>2. ~Orders(Idle) /\ ~Lives(Idle)
    BY IdleIs DEF Orders, Lives
  <2> QED BY <1>2, <2>1, <2>2 DEF Locked
<1>6. ASSUME NEW t \in DOMAIN turns, TurnMoves(t) PROVE Locked'
  <2>1. UNCHANGED <<locks, req>>
    BY <1>6 DEF TurnMoves, TurnReplies, TurnGuides, TurnFails, TurnInstalls, TurnUninstalls, TurnPauses, TurnAbandoned, Writes
  <2> QED BY <2>1 DEF locks, Locked
<1>7. ASSUME NEW r \in Request, Step(r) PROVE Locked'
  (* A request that held a lock is alone in doing so. *)
  <2>1. ASSUME Others(r),
               \/ order' = order /\ (Orders(req'[r]) <=> Orders(req[r]))
               \/ order' = None /\ Orders(req[r]) /\ ~Orders(req'[r])
               \/ order = None /\ order' = r /\ Orders(req'[r]),
               \/ lifecycle' = lifecycle /\ (Lives(req'[r]) <=> Lives(req[r]))
               \/ lifecycle' = None /\ Lives(req[r]) /\ ~Lives(req'[r])
               \/ lifecycle = None /\ lifecycle' = r /\ Lives(req'[r])
        PROVE  Locked'
    <3>1. \A s \in Request : s # r => req'[s] = req[s]
      BY <2>1 DEF Others
    <3>2. order' \in Request \cup {None} /\ lifecycle' \in Request \cup {None}
      BY <2>1 DEF Locked
    <3>3. \A s \in Request : order' = s <=> Orders(req'[s])
      BY <1>2, <2>1, <3>1 DEF Locked
    <3>4. \A s \in Request : lifecycle' = s <=> Lives(req'[s])
      BY <1>2, <2>1, <3>1 DEF Locked
    <3> QED BY <3>2, <3>3, <3>4 DEF Locked
  <2>2. ~Orders(Idle) /\ ~Lives(Idle)
    BY IdleIs DEF Orders, Lives
  <2>3. CASE Consume(r)
    <3>1. order' = order /\ lifecycle' = lifecycle
      BY <2>3 DEF Consume, locks
    <3>2. req[r].at = "consume" /\ (Goes(r, "order") \/ Ends(r))
      BY <1>1, <2>3, ConsumeMoves
    <3> QED BY <2>1, <2>2, <3>1, <3>2 DEF Goes, Ends, Orders, Lives
  <2>4. CASE LockOrder(r)
    <3>1. /\ req[r].at = "order" /\ order = None /\ order' = r /\ lifecycle' = lifecycle
          /\ \/ Goes(r, "release") /\ req[r].kind = "create"
             \/ Goes(r, "save") /\ req[r].kind = "reorder"
             \/ Goes(r, "lifecycle") /\ req[r].kind \in {"delete", "reset", "host"}
      BY <1>1, <2>4, LockOrderMoves
    <3> QED BY <2>1, <3>1 DEF Goes, Orders, Lives
  <2>5. CASE LockLifecycle(r)
    <3>1. /\ req[r].at = "lifecycle" /\ lifecycle = None /\ lifecycle' = r /\ order' = order
          /\ \/ Goes(r, "check") /\ req[r].kind = "admit"
             \/ Goes(r, "call") /\ req[r].kind \in {"delete", "reset", "host"}
      BY <1>1, <2>5, LockLifecycleMoves
    <3> QED BY <2>1, <3>1 DEF Goes, Orders, Lives
  <2>6. CASE Reorder(r)
    <3>1. req[r].at = "save" /\ Ends(r) /\ order' = None /\ lifecycle' = lifecycle
      BY <1>1, <2>6, ReorderMoves
    <3> QED BY <2>1, <2>2, <3>1 DEF Ends, Orders, Lives
  <2>7. CASE Release(r)
    <3>1. /\ req[r].at = "release" /\ req[r].kind = "create" /\ lifecycle' = lifecycle
          /\ (Goes(r, "make") /\ order' = order) \/ (Ends(r) /\ order' = None)
      BY <1>1, <2>7, ReleaseMoves
    <3> QED BY <2>1, <2>2, <3>1 DEF Goes, Ends, Orders, Lives
  <2>8. CASE Make(r)
    <3>1. /\ req[r].at = "make" /\ lifecycle' = lifecycle
          /\ (order' = None /\ (Ends(r) \/ Clears(r))) \/ (order' = order /\ Tries(r))
      BY <1>1, <2>8, MakeMoves
    <3> QED BY <2>1, <2>2, <3>1 DEF Ends, Clears, Tries, Orders, Lives
  <2>9. CASE ClearCreated(r)
    <3>1. req[r].at = "clear" /\ Ends(r)
      BY <1>1, <2>9, ClearCreatedMoves
    <3>2. order' = order /\ lifecycle' = lifecycle
      BY <2>9 DEF ClearCreated, locks
    <3> QED BY <2>1, <2>2, <3>1, <3>2 DEF Ends, Orders, Lives
  <2>10. CASE CallTeam(r)
    <3>1. /\ req[r].at = "call" /\ req[r].kind \in {"delete", "reset", "host"}
          /\ \/ Ends(r) /\ order' = None /\ lifecycle' = None
             \/ Goes(r, "wipe") /\ order' = order /\ lifecycle' = lifecycle
      BY <1>1, <2>10, CallTeamMoves
    <3> QED BY <2>1, <2>2, <3>1 DEF Goes, Ends, Orders, Lives
  <2>11. CASE Wipe(r)
    <3>1. /\ req[r].at = "wipe" /\ req[r].kind \in {"delete", "reset", "host"} /\ lifecycle' = None
          /\ (Goes(r, "forget") /\ order' = order) \/ (Ends(r) /\ order' = None)
      BY <1>1, <2>11, WipeMoves
    <3> QED BY <2>1, <2>2, <3>1 DEF Goes, Ends, Orders, Lives
  <2>12. CASE Forget(r)
    <3>1. /\ req[r].at = "forget" /\ req[r].kind \in {"delete", "reset", "host"} /\ order' = None /\ lifecycle' = lifecycle
          /\ Goes(r, "end") \/ Ends(r)
      BY <1>1, <2>12, ForgetMoves
    <3> QED BY <2>1, <2>2, <3>1 DEF Goes, Ends, Orders, Lives
  <2>13. CASE EndRuns(r)
    <3>1. req[r].at = "end" /\ Ends(r)
      BY <1>1, <2>13, EndRunsMoves
    <3>2. order' = order /\ lifecycle' = lifecycle
      BY <2>13 DEF EndRuns, locks
    <3> QED BY <2>1, <2>2, <3>1, <3>2 DEF Ends, Orders, Lives
  <2>14. CASE AdmitCheck(r)
    <3>1. /\ req[r].at = "check" /\ req[r].kind = "admit" /\ order' = order
          /\ (Ends(r) /\ lifecycle' = None) \/ (Checks(r) /\ lifecycle' = lifecycle)
      BY <1>1, <2>14, AdmitCheckMoves
    <3> QED BY <2>1, <2>2, <3>1 DEF Checks, Ends, Orders, Lives
  <2>15. CASE AdmitAppend(r)
    <3>1. req[r].at = "append" /\ Ends(r) /\ order' = order /\ lifecycle' = IF lifecycle = r THEN None ELSE lifecycle
      BY <1>1, <2>15, AdmitAppendMoves
    <3>2. lifecycle = r
      BY <3>1 DEF Locked, Lives
    <3> QED BY <2>1, <2>2, <3>1, <3>2 DEF Ends, Orders, Lives
  <2> QED BY <1>7, <2>3, <2>4, <2>5, <2>6, <2>7, <2>8, <2>9, <2>10, <2>11, <2>12, <2>13, <2>14, <2>15 DEF Step
<1> QED BY NextIs, <1>3, <1>4, <1>5, <1>6, <1>7

(* A message checked is for a Team that is there: what deletes one waits   *)
(* for the lifecycle lock.                                                 *)
LEMMA AdmittingKept ==
  ASSUME Shaped, Locked, Admitting, Next
  PROVE  Admitting'
<1>1. Inventory /\ RequestsShaped
  BY DEF Shaped, Inventory
<1> DEFINE Stay == \A k, life : <<k, life>> \in Pairs(team) => <<k, life>> \in Pairs(team')
<1>2. ASSUME Stay, \A s \in Request : req'[s] = req[s] \/ req'[s].at # "append" PROVE Admitting'
  <2> SUFFICES ASSUME NEW s \in Request, req'[s].at = "append" PROVE <<req'[s].id, req'[s].life>> \in Pairs(team')
    BY DEF Admitting, There, Pairs
  <2>1. req'[s] = req[s]
    BY <1>2
  <2>2. There(req[s].id, req[s].life)
    BY <2>1 DEF Admitting
  <2>3. <<req[s].id, req[s].life>> \in Pairs(team')
    BY <1>2, <2>2, ThereIs
  <2> QED BY <2>1, <2>3
<1>3. ASSUME NEW r \in Request, Receives(r) PROVE Admitting'
  <2>1. team' = team /\ Others(r) /\ Fresh(req'[r])
    BY <1>3, ReceiveMoves DEF space, Shaped
  <2> QED BY <1>2, <2>1 DEF Others, Fresh
<1>4. CASE Rename
  <2>1. Pairs(team') = Pairs(team)
    BY <1>1, <1>4, RenameTeams
  <2>2. req' = req
    BY <1>4 DEF Rename
  <2> QED BY <1>2, <2>1, <2>2
<1>5. CASE Crash
  <2>1. \A s \in Request : req'[s] = Idle
    BY <1>5, CrashMoves
  <2> QED BY <2>1, IdleIs DEF Admitting
<1>6. ASSUME NEW t \in DOMAIN turns, TurnMoves(t) PROVE Admitting'
  <2>1. team' = team /\ req' = req
    BY <1>6 DEF TurnMoves, TurnReplies, TurnGuides, TurnFails, TurnInstalls, TurnUninstalls, TurnPauses, TurnAbandoned, Writes
  <2> QED BY <1>2, <2>1
<1>7. ASSUME NEW r \in Request, Step(r) PROVE Admitting'
  <2>1. ASSUME Stay, Others(r), req'[r].at # "append" PROVE Admitting'
    BY <1>2, <2>1 DEF Others
  <2>2. CASE Consume(r)
    <3>1. team' = team
      BY <2>2 DEF Consume, space
    <3> QED BY <1>1, <2>1, <2>2, <3>1, ConsumeMoves, IdleIs DEF Goes, Ends
  <2>3. CASE LockOrder(r)
    <3>1. team' = team
      BY <2>3 DEF LockOrder, space
    <3> QED BY <1>1, <2>1, <2>3, <3>1, LockOrderMoves DEF Goes
  <2>4. CASE LockLifecycle(r)
    <3>1. team' = team
      BY <2>4 DEF LockLifecycle, space
    <3> QED BY <1>1, <2>1, <2>4, <3>1, LockLifecycleMoves DEF Goes
  <2>5. CASE Reorder(r)
    <3>1. team' = team
      BY <2>5 DEF Reorder
    <3> QED BY <1>1, <2>1, <2>5, <3>1, ReorderMoves, IdleIs DEF Ends
  <2>6. CASE Release(r)
    <3>1. team' = team
      BY <2>6 DEF Release
    <3> QED BY <1>1, <2>1, <2>6, <3>1, ReleaseMoves, IdleIs DEF Goes, Ends
  <2>7. CASE Make(r)
    <3>1. Stay /\ (Ends(r) \/ Tries(r) \/ Clears(r))
      BY <1>1, <2>7, MakeMoves
    <3> QED BY <2>1, <3>1, IdleIs DEF Ends, Tries, Clears
  <2>8. CASE ClearCreated(r)
    <3>1. team' = team
      BY <2>8 DEF ClearCreated
    <3> QED BY <1>1, <2>1, <2>8, <3>1, ClearCreatedMoves, IdleIs DEF Ends
  <2>9. CASE CallTeam(r)
    <3>1. req[r].at = "call" /\ (Ends(r) \/ Goes(r, "wipe"))
      BY <1>1, <2>9, CallTeamMoves
    <3>2. \A s \in Request : s # r => req'[s].at # "append"
      BY <3>1 DEF Locked, Lives, Ends, Goes, Others
    <3>3. req'[r].at # "append"
      BY <3>1, IdleIs DEF Ends, Goes
    <3> QED BY <3>2, <3>3 DEF Admitting
  <2>10. CASE Wipe(r)
    <3>1. team' = team
      BY <2>10 DEF Wipe
    <3> QED BY <1>1, <2>1, <2>10, <3>1, WipeMoves, IdleIs DEF Goes, Ends
  <2>11. CASE Forget(r)
    <3>1. team' = team
      BY <2>11 DEF Forget
    <3> QED BY <1>1, <2>1, <2>11, <3>1, ForgetMoves, IdleIs DEF Goes, Ends
  <2>12. CASE EndRuns(r)
    <3>1. team' = team
      BY <2>12 DEF EndRuns, space
    <3> QED BY <1>1, <2>1, <2>12, <3>1, EndRunsMoves, IdleIs DEF Ends
  <2>13. CASE AdmitCheck(r)
    <3>1. team' = team
      BY <2>13 DEF AdmitCheck, space
    <3>2. Ends(r) \/ (Checks(r) /\ There(req[r].id, req'[r].life))
      BY <1>1, <2>13, AdmitCheckMoves
    <3>3. CASE Ends(r)
      BY <2>1, <3>1, <3>3, IdleIs DEF Ends
    <3>4. CASE Checks(r) /\ There(req[r].id, req'[r].life)
      <4>1. <<req'[r].id, req'[r].life>> \in Pairs(team')
        BY <3>1, <3>4, ThereIs DEF Checks
      <4>2. \A s \in Request : s # r => req'[s] = req[s]
        BY <3>4 DEF Checks, Others
      <4>3. ASSUME NEW s \in Request, s # r, req'[s].at = "append" PROVE <<req'[s].id, req'[s].life>> \in Pairs(team')
        BY <3>1, <4>2, <4>3, ThereIs DEF Admitting
      <4> QED BY <4>1, <4>3 DEF Admitting, There, Pairs
    <3> QED BY <3>2, <3>3, <3>4
  <2>14. CASE AdmitAppend(r)
    <3>1. team' = team
      BY <2>14 DEF AdmitAppend
    <3> QED BY <1>1, <2>1, <2>14, <3>1, AdmitAppendMoves, IdleIs DEF Ends
  <2> QED BY <1>7, <2>2, <2>3, <2>4, <2>5, <2>6, <2>7, <2>8, <2>9, <2>10, <2>11, <2>12, <2>13, <2>14 DEF Step
<1> QED BY NextIs, <1>3, <1>4, <1>5, <1>6, <1>7

(* The host's request consumes the capability before it deletes anything.  *)
LEMMA CapableKept ==
  ASSUME Shaped, Capable, Next
  PROVE  Capable'
<1>1. Inventory /\ RequestsShaped
  BY DEF Shaped, Inventory
<1>2. wiped \in Nat
  BY DEF Shaped
<1> DEFINE Quick == {"order", "lifecycle", "call"}
<1>3. ASSUME capability' = capability, wiped' = wiped,
             \A s \in Request : \/ req'[s].kind # "host"
                                \/ req[s].kind = "host" /\ (req'[s].at \in Quick => req[s].at \in Quick)
      PROVE  Capable'
  <2>1. \A s, q \in Request : req'[s].kind = "host" /\ req'[q].kind = "host" => s = q
    BY <1>3 DEF Capable
  <2>2. \A s \in Request : req'[s].kind = "host" /\ req'[s].at \in Quick => capability' = "consumed" /\ wiped' = 0
    BY <1>3 DEF Capable
  <2>3. (capability = "projected" => wiped = 0) /\ wiped <= 1
    BY DEF Capable, CapabilityOnce
  <2> QED BY <1>3, <2>1, <2>2, <2>3 DEF Capable, CapabilityOnce
<1>4. ASSUME NEW r \in Request, Receives(r) PROVE Capable'
  <2>1. UNCHANGED <<capability, wiped>> /\ req[r] = Idle /\ Others(r) /\ Fresh(req'[r])
    BY <1>4, ReceiveMoves DEF chat
  <2>2. CASE req'[r].kind # "host"
    BY <1>3, <2>1, <2>2 DEF Others
  <2>3. CASE req'[r].kind = "host"
    <3>1. req'[r].at = "consume" /\ \A s \in Request : req[s].kind # "host"
      BY <2>1, <2>3 DEF Fresh
    <3>2. \A s \in Request : s # r => req'[s].kind # "host"
      BY <2>1, <3>1 DEF Others
    <3>3. (capability = "projected" => wiped = 0) /\ wiped <= 1
      BY DEF Capable, CapabilityOnce
    <3> QED BY <2>1, <3>1, <3>2, <3>3 DEF Capable, CapabilityOnce
  <2> QED BY <2>2, <2>3
<1>5. CASE Rename
  BY <1>3, <1>5 DEF Rename, chat
<1>6. CASE Crash
  BY <1>3, <1>6, CrashMoves, IdleIs
<1>7. ASSUME NEW t \in DOMAIN turns, TurnMoves(t) PROVE Capable'
  <2>1. UNCHANGED <<capability, wiped, req>>
    BY <1>7 DEF TurnMoves, TurnReplies, TurnGuides, TurnFails, TurnInstalls, TurnUninstalls, TurnPauses, TurnAbandoned, Writes
  <2> QED BY <1>3, <2>1
<1>8. ASSUME NEW r \in Request, Step(r) PROVE Capable'
  <2>1. ASSUME Others(r), capability' = capability, wiped' = wiped,
               \/ req'[r].kind # "host"
               \/ req[r].kind = "host" /\ (req'[r].at \in Quick => req[r].at \in Quick)
        PROVE  Capable'
    BY <1>3, <2>1 DEF Others
  <2>2. CASE Consume(r)
    <3>1. /\ req[r].at = "consume" /\ req[r].kind = "host" /\ capability' = "consumed"
          /\ (Goes(r, "order") /\ capability = "projected") \/ Ends(r)
      BY <1>1, <2>2, ConsumeMoves
    <3>2. wiped' = wiped
      BY <2>2 DEF Consume
    <3>3. /\ \A s, q \in Request : req[s].kind = "host" /\ req[q].kind = "host" => s = q
          /\ \A s \in Request : req[s].kind = "host" /\ req[s].at \in Quick => capability = "consumed" /\ wiped = 0
          /\ (capability = "projected" => wiped = 0) /\ wiped <= 1
      BY DEF Capable, CapabilityOnce
    <3>4. \A s \in Request : s # r => req'[s] = req[s] /\ req'[s].kind # "host"
      BY <3>1, <3>3 DEF Goes, Ends, Others
    <3>5. req'[r].kind = "host" => wiped = 0
      BY <3>1, <3>3, IdleIs DEF Ends
    <3> QED BY <3>1, <3>2, <3>3, <3>4, <3>5 DEF Capable, CapabilityOnce
  <2>3. CASE LockOrder(r)
    <3>1. capability' = capability /\ wiped' = wiped
      BY <2>3 DEF LockOrder, chat
    <3> QED BY <1>1, <2>1, <2>3, <3>1, LockOrderMoves DEF Goes
  <2>4. CASE LockLifecycle(r)
    <3>1. capability' = capability /\ wiped' = wiped
      BY <2>4 DEF LockLifecycle, chat
    <3> QED BY <1>1, <2>1, <2>4, <3>1, LockLifecycleMoves DEF Goes
  <2>5. CASE Reorder(r)
    <3>1. capability' = capability /\ wiped' = wiped
      BY <2>5 DEF Reorder, chat
    <3> QED BY <1>1, <2>1, <2>5, <3>1, ReorderMoves, IdleIs DEF Ends
  <2>6. CASE Release(r)
    <3>1. capability' = capability /\ wiped' = wiped
      BY <2>6 DEF Release, chat
    <3> QED BY <1>1, <2>1, <2>6, <3>1, ReleaseMoves, IdleIs DEF Goes, Ends
  <2>7. CASE Make(r)
    <3>1. capability' = capability /\ wiped' = wiped
      BY <2>7 DEF Make, chat
    <3>2. Ends(r) \/ Tries(r) \/ Clears(r)
      BY <1>1, <2>7, MakeMoves
    <3> QED BY <2>1, <3>1, <3>2, IdleIs DEF Ends, Tries, Clears
  <2>8. CASE ClearCreated(r)
    <3>1. capability' = capability /\ wiped' = wiped
      BY <2>8 DEF ClearCreated, chat
    <3> QED BY <1>1, <2>1, <2>8, <3>1, ClearCreatedMoves, IdleIs DEF Ends
  <2>9. CASE CallTeam(r)
    <3>1. /\ req[r].at = "call" /\ (Ends(r) \/ Goes(r, "wipe"))
          /\ wiped' = IF req[r].kind = "host" THEN wiped + 1 ELSE wiped
      BY <1>1, <2>9, CallTeamMoves
    <3>2. capability' = capability
      BY <2>9 DEF CallTeam
    <3>3. CASE req[r].kind # "host"
      BY <2>1, <3>1, <3>2, <3>3, IdleIs DEF Ends, Goes
    <3>4. CASE req[r].kind = "host"
      <4>1. capability = "consumed" /\ wiped = 0
        BY <3>1, <3>4 DEF Capable
      <4>2. \A s \in Request : s # r => req'[s].kind # "host"
        BY <3>1, <3>4 DEF Capable, Ends, Goes, Others
      <4>3. req'[r].at \notin Quick
        BY <3>1, IdleIs DEF Ends, Goes
      <4>4. wiped' = 1
        BY <3>1, <3>4, <4>1
      <4> QED BY <3>2, <4>1, <4>2, <4>3, <4>4 DEF Capable, CapabilityOnce
    <3> QED BY <3>3, <3>4
  <2>10. CASE Wipe(r)
    <3>1. capability' = capability /\ wiped' = wiped
      BY <2>10 DEF Wipe, chat
    <3> QED BY <1>1, <2>1, <2>10, <3>1, WipeMoves, IdleIs DEF Goes, Ends
  <2>11. CASE Forget(r)
    <3>1. capability' = capability /\ wiped' = wiped
      BY <2>11 DEF Forget, chat
    <3> QED BY <1>1, <2>1, <2>11, <3>1, ForgetMoves, IdleIs DEF Goes, Ends
  <2>12. CASE EndRuns(r)
    <3>1. capability' = capability /\ wiped' = wiped
      BY <2>12 DEF EndRuns
    <3> QED BY <1>1, <2>1, <2>12, <3>1, EndRunsMoves, IdleIs DEF Ends
  <2>13. CASE AdmitCheck(r)
    <3>1. capability' = capability /\ wiped' = wiped
      BY <2>13 DEF AdmitCheck, chat
    <3>2. Ends(r) \/ Checks(r)
      BY <1>1, <2>13, AdmitCheckMoves
    <3> QED BY <2>1, <3>1, <3>2, IdleIs DEF Ends, Checks
  <2>14. CASE AdmitAppend(r)
    <3>1. capability' = capability /\ wiped' = wiped
      BY <2>14 DEF AdmitAppend
    <3> QED BY <1>1, <2>1, <2>14, <3>1, AdmitAppendMoves, IdleIs DEF Ends
  <2> QED BY <1>8, <2>2, <2>3, <2>4, <2>5, <2>6, <2>7, <2>8, <2>9, <2>10, <2>11, <2>12, <2>13, <2>14 DEF Step
<1> QED BY NextIs, <1>3, <1>4, <1>5, <1>6, <1>7, <1>8

-----------------------------------------------------------------------------
(* The positions.                                                          *)

LEMMA SameIds == ASSUME NEW s, NEW t, Pairs(s) = Pairs(t) PROVE Ids(s) = Ids(t)
<1>1. \A id : id \in Ids(s) <=> id \in Ids(t)
  BY IdsOfPairs
<1> QED BY <1>1

LEMMA PositionsAre ==
  PositionOfItsTeam <=> \A k, l, m : <<k, l>> \in Pairs(saved) /\ <<k, m>> \in Pairs(team) => l = m
<1>1. ASSUME PositionOfItsTeam, NEW k, NEW l, NEW m, <<k, l>> \in Pairs(saved), <<k, m>> \in Pairs(team) PROVE l = m
  <2>1. PICK i \in DOMAIN saved : k = saved[i].id /\ l = saved[i].life
    BY <1>1 DEF Pairs
  <2>2. PICK j \in DOMAIN team : k = team[j].id /\ m = team[j].life
    BY <1>1 DEF Pairs
  <2> QED BY <1>1, <2>1, <2>2 DEF PositionOfItsTeam
<1>2. ASSUME \A k, l, m : <<k, l>> \in Pairs(saved) /\ <<k, m>> \in Pairs(team) => l = m PROVE PositionOfItsTeam
  BY <1>2 DEF PositionOfItsTeam, Pairs
<1> QED BY <1>1, <1>2

LEMMA PositionedKept ==
  ASSUME Shaped, Locked, Positioned, Next
  PROVE  Positioned'
<1>1. Inventory /\ RequestsShaped
  BY DEF Shaped, Inventory
<1> DEFINE Agree(s, t) == \A k, l, m : <<k, l>> \in Pairs(s) /\ <<k, m>> \in Pairs(t) => l = m
           Ready(q, s, t) == Candidate(q) \in Ids(t) \/ Candidate(q) \notin Ids(s)
<1>2. Agree(saved, team)
  BY PositionsAre DEF Positioned
<1>3. ASSUME Agree(saved', team'), \A s \in Request : req'[s].at = "make" => Ready(req'[s], saved', team') PROVE Positioned'
  <2>1. \A i \in DOMAIN saved', j \in DOMAIN team' : saved'[i].id = team'[j].id => saved'[i].life = team'[j].life
    <3> SUFFICES ASSUME NEW i \in DOMAIN saved', NEW j \in DOMAIN team', saved'[i].id = team'[j].id
                 PROVE  saved'[i].life = team'[j].life
      OBVIOUS
    <3>1. <<saved'[i].id, saved'[i].life>> \in Pairs(saved') /\ <<saved'[i].id, team'[j].life>> \in Pairs(team')
      BY DEF Pairs
    <3> QED BY <1>3, <3>1
  <2> QED BY <1>3, <2>1 DEF Positioned, PositionOfItsTeam
(* Nothing is saved that is not saved or there already, nothing new is there. *)
<1>4. ASSUME NEW r \in Request, Orders(req[r]), Others(r), Agree(saved', team'),
             req'[r].at = "make" => Ready(req'[r], saved', team')
      PROVE  Positioned'
  <2>1. \A s \in Request : s # r => req'[s].at # "make"
    BY <1>4 DEF Locked, Others, Orders
  <2> QED BY <1>3, <1>4, <2>1
<1>5. ASSUME Pairs(saved') = Pairs(saved), Pairs(team') = Pairs(team),
             \A s \in Request : req'[s] = req[s] \/ req'[s].at # "make"
      PROVE  Positioned'
  <2>1. Ids(saved') = Ids(saved) /\ Ids(team') = Ids(team)
    BY <1>5, SameIds
  <2>2. \A s \in Request : req'[s].at = "make" => Ready(req'[s], saved', team')
    BY <1>5, <2>1 DEF Positioned
  <2>3. Agree(saved', team')
    BY <1>2, <1>5
  <2> HIDE DEF Ready, Agree
  <2> QED BY <1>3, <2>2, <2>3
<1>6. ASSUME NEW r \in Request, Receives(r) PROVE Positioned'
  <2>1. team' = team /\ saved' = saved /\ Others(r) /\ Fresh(req'[r])
    BY <1>6, ReceiveMoves DEF space
  <2> QED BY <1>5, <2>1 DEF Others, Fresh
<1>7. CASE Rename
  <2>1. req' = req /\ saved' = saved /\ Pairs(team') = Pairs(team)
    BY <1>1, <1>7, RenameTeams DEF Rename
  <2> QED BY <1>5, <2>1
<1>8. CASE Crash
  BY <1>5, <1>8, CrashMoves, IdleIs DEF space
<1>9. ASSUME NEW t \in DOMAIN turns, TurnMoves(t) PROVE Positioned'
  <2>1. UNCHANGED <<team, saved, req>>
    BY <1>9 DEF TurnMoves, TurnReplies, TurnGuides, TurnFails, TurnInstalls, TurnUninstalls, TurnPauses, TurnAbandoned, Writes
  <2> QED BY <1>5, <2>1
<1>10. ASSUME NEW r \in Request, Step(r) PROVE Positioned'
  <2>1. ASSUME team' = team, saved' = saved, Others(r), req'[r].at # "make" PROVE Positioned'
    BY <1>5, <2>1 DEF Others
  <2>2. CASE Consume(r)
    <3>1. team' = team /\ saved' = saved
      BY <2>2 DEF Consume, space
    <3> QED BY <1>1, <2>1, <2>2, <3>1, ConsumeMoves, IdleIs DEF Goes, Ends
  <2>3. CASE LockOrder(r)
    <3>1. team' = team /\ saved' = saved
      BY <2>3 DEF LockOrder, space
    <3> QED BY <1>1, <2>1, <2>3, <3>1, LockOrderMoves DEF Goes
  <2>4. CASE LockLifecycle(r)
    <3>1. team' = team /\ saved' = saved
      BY <2>4 DEF LockLifecycle, space
    <3> QED BY <1>1, <2>1, <2>4, <3>1, LockLifecycleMoves DEF Goes
  <2>5. CASE Reorder(r)
    <3>1. team' = team /\ (saved' = saved \/ Pairs(saved') \subseteq Pairs(team))
      BY <1>1, <2>5, ReorderSaves
    <3>2. req[r].at = "save" /\ Ends(r)
      BY <1>1, <2>5, ReorderMoves
    <3>3. Agree(team, team)
      <4>1. OnceById(team)
        BY <1>1 DEF Inventory
      <4> SUFFICES ASSUME NEW k, NEW l, NEW m, <<k, l>> \in Pairs(team), <<k, m>> \in Pairs(team) PROVE l = m
        OBVIOUS
      <4>2. PICK i \in DOMAIN team : k = team[i].id /\ l = team[i].life
        BY DEF Pairs
      <4>3. PICK j \in DOMAIN team : k = team[j].id /\ m = team[j].life
        BY DEF Pairs
      <4> QED BY <4>1, <4>2, <4>3 DEF OnceById
    <3>4. Agree(saved', team')
      BY <1>2, <3>1, <3>3
    <3> HIDE DEF Agree
    <3> QED BY <1>4, <3>2, <3>4, IdleIs DEF Ends, Orders
  <2>6. CASE Release(r)
    <3>1. /\ team' = team /\ Pairs(saved') \subseteq Pairs(saved)
          /\ \/ Done(r) /\ order' = None
             \/ Go(r, "make") /\ order' = order /\ (Candidate(req[r]) \in Ids(team) \/ Candidate(req[r]) \notin Ids(saved'))
      BY <1>1, <2>6, ReleaseSaves
    <3>2. req[r].at = "release" /\ (Goes(r, "make") \/ Ends(r))
      BY <1>1, <2>6, ReleaseMoves
    <3>3. Agree(saved', team')
      BY <1>2, <3>1
    <3>4. CASE Done(r)
      <4>1. Ends(r)
        BY <1>1, <3>4, Ending
      <4> HIDE DEF Agree, Ready
      <4> QED BY <1>4, <3>2, <3>3, <4>1, IdleIs DEF Ends, Orders
    <3>5. CASE Candidate(req[r]) \in Ids(team) \/ Candidate(req[r]) \notin Ids(saved')
      <4>1. req'[r].at = "make" => Ready(req'[r], saved', team')
        BY <3>1, <3>2, <3>5, IdleIs DEF Goes, Ends, Candidate
      <4>2. Others(r)
        BY <3>2 DEF Goes, Ends
      <4> HIDE DEF Agree, Ready
      <4> QED BY <1>4, <3>2, <3>3, <4>1, <4>2 DEF Orders
    <3> QED BY <3>1, <3>4, <3>5
  <2>7. CASE Make(r)
    <3> DEFINE id == Candidate(req[r])
    <3>1. /\ req[r].at = "make" /\ saved' = saved
          /\ \/ team' = team
             \/ /\ id \notin Ids(team)
                /\ \A k, life : <<k, life>> \in Pairs(team') <=> <<k, life>> \in Pairs(team) \/ (k = id /\ life = lives + 1)
          /\ Ends(r) \/ Tries(r) \/ Clears(r)
      BY <1>1, <2>7, MakeMoves
    <3>2. id \notin Ids(team) => id \notin Ids(saved)
      BY <3>1 DEF Positioned
    <3>3. id \notin Ids(team) => \A l : <<id, l>> \notin Pairs(saved)
      BY <3>2, IdsOfPairs
    <3> HIDE DEF id
    <3>4. Agree(saved', team')
      BY <1>2, <3>1, <3>3
    <3>5. Others(r) /\ req'[r].at # "make"
      BY <3>1, IdleIs DEF Ends, Tries, Clears
    <3> HIDE DEF Agree, Ready
    <3> QED BY <1>4, <3>1, <3>4, <3>5 DEF Orders
  <2>8. CASE ClearCreated(r)
    <3>1. team' = team /\ saved' = saved
      BY <2>8 DEF ClearCreated
    <3> QED BY <1>1, <2>1, <2>8, <3>1, ClearCreatedMoves, IdleIs DEF Ends
  <2>9. CASE CallTeam(r)
    <3>1. saved' = saved /\ \A k, life : <<k, life>> \in Pairs(team') => <<k, life>> \in Pairs(team)
      BY <1>1, <2>9, CallTakes
    <3>2. req[r].at = "call" /\ req[r].kind \in {"delete", "reset", "host"} /\ (Ends(r) \/ Goes(r, "wipe"))
      BY <1>1, <2>9, CallTeamMoves
    <3>3. Agree(saved', team')
      BY <1>2, <3>1
    <3>4. Others(r) /\ req'[r].at # "make"
      BY <3>2, IdleIs DEF Ends, Goes
    <3> HIDE DEF Agree, Ready
    <3> QED BY <1>4, <3>2, <3>3, <3>4 DEF Orders
  <2>10. CASE Wipe(r)
    <3>1. team' = team /\ saved' = saved
      BY <2>10 DEF Wipe
    <3> QED BY <1>1, <2>1, <2>10, <3>1, WipeMoves, IdleIs DEF Goes, Ends
  <2>11. CASE Forget(r)
    <3>1. team' = team /\ Pairs(saved') \subseteq Pairs(saved)
      BY <1>1, <2>11, ForgetSaves
    <3>2. req[r].at = "forget" /\ req[r].kind \in {"delete", "reset", "host"} /\ (Ends(r) \/ Goes(r, "end"))
      BY <1>1, <2>11, ForgetMoves
    <3>3. Agree(saved', team')
      BY <1>2, <3>1
    <3>4. Others(r) /\ req'[r].at # "make"
      BY <3>2, IdleIs DEF Ends, Goes
    <3> HIDE DEF Agree, Ready
    <3> QED BY <1>4, <3>2, <3>3, <3>4 DEF Orders
  <2>12. CASE EndRuns(r)
    <3>1. team' = team /\ saved' = saved
      BY <2>12 DEF EndRuns, space
    <3> QED BY <1>1, <2>1, <2>12, <3>1, EndRunsMoves, IdleIs DEF Ends
  <2>13. CASE AdmitCheck(r)
    <3>1. team' = team /\ saved' = saved
      BY <2>13 DEF AdmitCheck, space
    <3>2. Ends(r) \/ Checks(r)
      BY <1>1, <2>13, AdmitCheckMoves
    <3> QED BY <2>1, <3>1, <3>2, IdleIs DEF Ends, Checks
  <2>14. CASE AdmitAppend(r)
    <3>1. team' = team /\ saved' = saved
      BY <2>14 DEF AdmitAppend
    <3> QED BY <1>1, <2>1, <2>14, <3>1, AdmitAppendMoves, IdleIs DEF Ends
  <2> QED BY <1>10, <2>2, <2>3, <2>4, <2>5, <2>6, <2>7, <2>8, <2>9, <2>10, <2>11, <2>12, <2>13, <2>14 DEF Step
<1> QED BY NextIs, <1>6, <1>7, <1>8, <1>9, <1>10

-----------------------------------------------------------------------------
(* The turns.                                                              *)

(* What a step may do to the turns there are.                              *)
TurnsStay ==
  DOMAIN turns \subseteq DOMAIN turns' /\ \A i \in DOMAIN turns : turns'[i].id = turns[i].id /\ turns'[i].life = turns[i].life

LEMMA EachIn ==
  ASSUME NEW S, NEW s \in Seq(S), NEW t, t = [i \in DOMAIN s |-> t[i]], \A i \in DOMAIN s : t[i] \in S
  PROVE  t \in Seq(S) /\ DOMAIN t = DOMAIN s
<1>1. DOMAIN s = 1..Len(s) /\ Len(s) \in Nat
  OBVIOUS
<1>2. t \in [1..Len(s) -> S]
  BY <1>1
<1> QED BY <1>1, <1>2

LEMMA Opens ==
  ASSUME NEW n, NEW tn \in Turns(n), NEW b \in BOOLEAN
  PROVE  [tn EXCEPT !.open = b] \in Turns(n) /\ [tn EXCEPT !.open = b].id = tn.id
         /\ [tn EXCEPT !.open = b].life = tn.life
BY DEF Turns

LEMMA EndRunsTurns ==
  ASSUME turns \in Seq(Turns(lives)), NEW r \in Request, EndRuns(r)
  PROVE  turns' \in Seq(Turns(lives)) /\ TurnsStay
<1> DEFINE b(i) == turns[i].open /\ req[r].kind = "delete" /\ turns[i].id # req[r].id
<1>1. turns' = [i \in DOMAIN turns |-> [turns[i] EXCEPT !.open = b(i)]]
  BY DEF EndRuns
<1>2. \A i \in DOMAIN turns : b(i) \in BOOLEAN
  OBVIOUS
<1> HIDE DEF b
<1>3. \A i \in DOMAIN turns : turns'[i] \in Turns(lives) /\ turns'[i].id = turns[i].id /\ turns'[i].life = turns[i].life
  <2> SUFFICES ASSUME NEW i \in DOMAIN turns
               PROVE  turns'[i] \in Turns(lives) /\ turns'[i].id = turns[i].id /\ turns'[i].life = turns[i].life
    OBVIOUS
  <2>1. turns[i] \in Turns(lives) /\ b(i) \in BOOLEAN
    BY <1>2
  <2>2. turns'[i] = [turns[i] EXCEPT !.open = b(i)]
    BY <1>1
  <2> DEFINE c == b(i)
  <2> HIDE DEF c
  <2>3. c \in BOOLEAN /\ turns'[i] = [turns[i] EXCEPT !.open = c]
    BY <2>1, <2>2 DEF c
  <2> QED BY <2>1, <2>3, Opens
<1>4. turns' = [i \in DOMAIN turns |-> turns'[i]]
  BY <1>1
<1>5. turns' \in Seq(Turns(lives)) /\ DOMAIN turns' = DOMAIN turns
  BY <1>3, <1>4, EachIn
<1> QED BY <1>3, <1>5 DEF TurnsStay

LEMMA CrashTurns ==
  ASSUME turns \in Seq(Turns(lives)), Crash
  PROVE  turns' \in Seq(Turns(lives)) /\ TurnsStay
<1> DEFINE b(i) == BoundTo(h, turns[i].id) = i
<1>1. turns' = [i \in DOMAIN turns |-> [turns[i] EXCEPT !.open = b(i)]]
  BY DEF Crash
<1>2. \A i \in DOMAIN turns : b(i) \in BOOLEAN
  OBVIOUS
<1> HIDE DEF b
<1>3. \A i \in DOMAIN turns : turns'[i] \in Turns(lives) /\ turns'[i].id = turns[i].id /\ turns'[i].life = turns[i].life
  <2> SUFFICES ASSUME NEW i \in DOMAIN turns
               PROVE  turns'[i] \in Turns(lives) /\ turns'[i].id = turns[i].id /\ turns'[i].life = turns[i].life
    OBVIOUS
  <2>1. turns[i] \in Turns(lives) /\ b(i) \in BOOLEAN
    BY <1>2
  <2>2. turns'[i] = [turns[i] EXCEPT !.open = b(i)]
    BY <1>1
  <2> DEFINE c == b(i)
  <2> HIDE DEF c
  <2>3. c \in BOOLEAN /\ turns'[i] = [turns[i] EXCEPT !.open = c]
    BY <2>1, <2>2 DEF c
  <2> QED BY <2>1, <2>3, Opens
<1>4. turns' = [i \in DOMAIN turns |-> turns'[i]]
  BY <1>1
<1>5. turns' \in Seq(Turns(lives)) /\ DOMAIN turns' = DOMAIN turns
  BY <1>3, <1>4, EachIn
<1> QED BY <1>3, <1>5 DEF TurnsStay

LEMMA MovesTurns ==
  ASSUME turns \in Seq(Turns(lives)), NEW t \in DOMAIN turns, TurnMoves(t)
  PROVE  turns' \in Seq(Turns(lives)) /\ TurnsStay
<1>1. turns' = turns \/ turns' = [turns EXCEPT ![t].open = FALSE]
  BY DEF TurnMoves, TurnReplies, TurnGuides, TurnFails, TurnInstalls, TurnUninstalls, TurnPauses, TurnAbandoned, Writes
<1>2. CASE turns' = turns
  BY <1>2 DEF TurnsStay
<1>3. CASE turns' = [turns EXCEPT ![t].open = FALSE]
  <2> DEFINE e == [turns[t] EXCEPT !.open = FALSE]
  <2>1. turns[t] \in Turns(lives)
    OBVIOUS
  <2>2. e \in Turns(lives) /\ e.id = turns[t].id /\ e.life = turns[t].life
    BY <2>1, Opens
  <2>3. turns' = [turns EXCEPT ![t] = e]
    BY <1>3
  <2> HIDE DEF e
  <2>4. turns' \in Seq(Turns(lives)) /\ DOMAIN turns' = DOMAIN turns /\ \A i \in DOMAIN turns : turns'[i] = IF i = t THEN e ELSE turns[i]
    BY <2>2, <2>3
  <2> QED BY <2>2, <2>4 DEF TurnsStay
<1> QED BY <1>1, <1>2, <1>3

LEMMA AppendTurns ==
  ASSUME turns \in Seq(Turns(lives)), NEW tn \in Turns(lives), turns' = Append(turns, tn)
  PROVE  /\ turns' \in Seq(Turns(lives)) /\ TurnsStay
         /\ Len(turns) + 1 \in DOMAIN turns' /\ turns'[Len(turns) + 1] = tn
<1>1. /\ turns' \in Seq(Turns(lives)) /\ Len(turns') = Len(turns) + 1
      /\ (\A i \in 1..Len(turns) : turns'[i] = turns[i]) /\ turns'[Len(turns) + 1] = tn
  BY AppendProperties
<1>2. DOMAIN turns = 1..Len(turns) /\ DOMAIN turns' = 1..Len(turns') /\ Len(turns) \in Nat
  BY <1>1
<1> QED BY <1>1, <1>2 DEF TurnsStay

(* The Team a message is admitted for.                                     *)
LEMMA LifeOf ==
  ASSUME Inventory, NEW id, NEW life, There(id, life)
  PROVE  id \in Id /\ life \in 1..lives
<1>1. PICK j \in DOMAIN team : team[j].id = id /\ team[j].life = life
  BY DEF There
<1>2. team[j] \in Entries(lives)
  BY DEF Inventory
<1> QED BY <1>1, <1>2 DEF Entries

LEMMA AdmitAppendTurns ==
  ASSUME Inventory, RequestsShaped, Admitting, turns \in Seq(Turns(lives)), NEW r \in Request, AdmitAppend(r)
  PROVE  /\ turns' \in Seq(Turns(lives)) /\ TurnsStay
         /\ req[r].life \in 1..lives /\ req[r].id \in Id /\ There(req[r].id, req[r].life)
         /\ \/ h' = h /\ turns' = turns
            \/ /\ Len(turns) + 1 \in DOMAIN turns' /\ turns'[Len(turns) + 1].id = req[r].id
               /\ turns'[Len(turns) + 1].life = req[r].life /\ mishaps' = mishaps
               /\ \E kind \in Message : h' = AppendUser(h, req[r].id, Len(turns) + 1, [kind |-> kind], FALSE, req[r].life)[2]
<1> DEFINE tn == [id |-> req[r].id, life |-> req[r].life, open |-> TRUE]
<1>1. /\ req[r].at = "append"
      /\ \/ /\ turns' = Append(turns, tn) /\ mishaps' = mishaps
            /\ \E kind \in Message : h' = AppendUser(h, req[r].id, Len(turns) + 1, [kind |-> kind], FALSE, req[r].life)[2]
         \/ h' = h /\ turns' = turns
  BY AdmitAppendMoves
<1>2. There(req[r].id, req[r].life)
  BY <1>1 DEF Admitting
<1>3. req[r].id \in Id /\ req[r].life \in 1..lives
  BY <1>2, LifeOf
<1>4. tn \in Turns(lives) /\ tn.id = req[r].id /\ tn.life = req[r].life
  BY <1>3 DEF Turns
<1>5. TurnsStay \/ turns' # turns
  BY DEF TurnsStay
<1> HIDE DEF tn
<1>6. CASE h' = h /\ turns' = turns
  BY <1>2, <1>3, <1>5, <1>6
<1>7. CASE /\ turns' = Append(turns, tn) /\ mishaps' = mishaps
           /\ \E kind \in Message : h' = AppendUser(h, req[r].id, Len(turns) + 1, [kind |-> kind], FALSE, req[r].life)[2]
  <2>1. /\ turns' \in Seq(Turns(lives)) /\ TurnsStay
        /\ Len(turns) + 1 \in DOMAIN turns' /\ turns'[Len(turns) + 1] = tn
    BY <1>4, <1>7, AppendTurns
  <2> QED BY <1>2, <1>3, <1>4, <1>7, <2>1
<1> QED BY <1>1, <1>6, <1>7

-----------------------------------------------------------------------------
(* The shapes of the state are kept.                                       *)

LEMMA ShapedKept ==
  ASSUME Shaped, Admitting, Next
  PROVE  Shaped' /\ TurnsStay
<1>1. Inventory /\ RequestsShaped /\ turns \in Seq(Turns(lives))
      /\ wiped \in Nat /\ mishaps \in Nat /\ capability \in {"projected", "consumed"}
  BY DEF Shaped, Inventory
<1>2. ASSUME Inventory', RequestsShaped', turns' \in Seq(Turns(lives')), wiped' \in Nat, mishaps' \in Nat,
             capability' \in {"projected", "consumed"}, TurnsStay
      PROVE  Shaped' /\ TurnsStay
  BY <1>2 DEF Shaped, Inventory
<1>3. ASSUME UNCHANGED <<team, lives, saved>> PROVE Inventory'
  BY <1>1, <1>3 DEF Inventory
<1>4. Mishap => mishaps' \in Nat
  BY <1>1 DEF Mishap
<1>5. ASSUME turns' = turns, lives' = lives PROVE turns' \in Seq(Turns(lives')) /\ TurnsStay
  BY <1>1, <1>5 DEF TurnsStay
<1>6. ASSUME NEW r \in Request, Receives(r) PROVE Shaped' /\ TurnsStay
  <2>1. UNCHANGED <<space, locks, chat, mishaps>> /\ RequestsShaped'
    BY <1>6, ReceiveMoves DEF Others
  <2> QED BY <1>1, <1>2, <1>3, <1>5, <2>1 DEF space, chat
<1>7. CASE Rename
  <2>1. UNCHANGED <<chat, mishaps, req>>
    BY <1>7 DEF Rename
  <2>2. Inventory' /\ lives' = lives
    BY <1>1, <1>7, RenameTeams
  <2>3. RequestsShaped'
    BY <1>1, <2>1 DEF RequestsShaped
  <2> QED BY <1>1, <1>2, <1>5, <2>1, <2>2, <2>3 DEF chat
<1>8. CASE Crash
  <2>1. RequestsShaped' /\ UNCHANGED <<space, capability, wiped>> /\ Mishap
    BY <1>8, CrashMoves
  <2>2. turns' \in Seq(Turns(lives)) /\ TurnsStay
    BY <1>1, <1>8, CrashTurns
  <2> QED BY <1>1, <1>2, <1>3, <1>4, <2>1, <2>2 DEF space
<1>9. ASSUME NEW t \in DOMAIN turns, TurnMoves(t) PROVE Shaped' /\ TurnsStay
  <2>1. UNCHANGED <<team, lives, saved, req, mishaps, wiped, capability>>
    BY <1>9 DEF TurnMoves, TurnReplies, TurnGuides, TurnFails, TurnInstalls, TurnUninstalls, TurnPauses, TurnAbandoned, Writes
  <2>2. turns' \in Seq(Turns(lives)) /\ TurnsStay
    BY <1>1, <1>9, MovesTurns
  <2>3. RequestsShaped'
    BY <1>1, <2>1 DEF RequestsShaped
  <2> QED BY <1>1, <1>2, <1>3, <2>1, <2>2, <2>3
<1>10. ASSUME NEW r \in Request, Step(r) PROVE Shaped' /\ TurnsStay
  <2>1. CASE Consume(r)
    <3>1. UNCHANGED <<team, lives, saved, turns, wiped>> /\ (mishaps' = mishaps \/ Mishap)
      BY <2>1 DEF Consume, space
    <3>2. RequestsShaped' /\ capability' = "consumed"
      BY <1>1, <2>1, ConsumeMoves DEF Goes, Ends, Others
    <3> QED BY <1>1, <1>2, <1>3, <1>4, <1>5, <3>1, <3>2
  <2>2. CASE LockOrder(r)
    <3>1. UNCHANGED <<team, lives, saved, turns, wiped, capability, mishaps>>
      BY <2>2 DEF LockOrder, space, chat
    <3>2. RequestsShaped'
      BY <1>1, <2>2, LockOrderMoves DEF Goes, Others
    <3> QED BY <1>1, <1>2, <1>3, <1>5, <3>1, <3>2
  <2>3. CASE LockLifecycle(r)
    <3>1. UNCHANGED <<team, lives, saved, turns, wiped, capability, mishaps>>
      BY <2>3 DEF LockLifecycle, space, chat
    <3>2. RequestsShaped'
      BY <1>1, <2>3, LockLifecycleMoves DEF Goes, Others
    <3> QED BY <1>1, <1>2, <1>3, <1>5, <3>1, <3>2
  <2>4. CASE Reorder(r)
    <3>1. UNCHANGED <<turns, wiped, capability>> /\ (mishaps' = mishaps \/ Mishap)
      BY <2>4 DEF Reorder, chat
    <3>2. Inventory' /\ lives' = lives
      BY <1>1, <2>4, ReorderSaves
    <3>3. RequestsShaped'
      BY <1>1, <2>4, ReorderMoves DEF Ends, Others
    <3> QED BY <1>1, <1>2, <1>4, <1>5, <3>1, <3>2, <3>3
  <2>5. CASE Release(r)
    <3>1. UNCHANGED <<turns, wiped, capability>> /\ (mishaps' = mishaps \/ Mishap)
      BY <2>5 DEF Release, chat
    <3>2. Inventory' /\ lives' = lives
      BY <1>1, <2>5, ReleaseSaves
    <3>3. RequestsShaped'
      BY <1>1, <2>5, ReleaseMoves DEF Goes, Ends, Others
    <3> QED BY <1>1, <1>2, <1>4, <1>5, <3>1, <3>2, <3>3
  <2>6. CASE Make(r)
    <3>1. UNCHANGED <<turns, wiped, capability>>
      BY <2>6 DEF Make, chat
    <3>2. Inventory' /\ (lives' = lives \/ lives' = lives + 1) /\ (mishaps' = mishaps \/ Mishap) /\ (Ends(r) \/ Tries(r) \/ Clears(r))
      BY <1>1, <2>6, MakeMoves
    <3>3. RequestsShaped'
      BY <3>2 DEF Ends, Tries, Clears, Others
    <3>4. Turns(lives) \subseteq Turns(lives')
      <4>1. 1..lives \subseteq 1..lives'
        BY <1>1, <3>2 DEF Inventory
      <4> QED BY <4>1 DEF Turns
    <3>5. turns' \in Seq(Turns(lives'))
      BY <1>1, <3>1, <3>4, SeqMonotonic
    <3>6. TurnsStay
      BY <3>1 DEF TurnsStay
    <3> QED BY <1>1, <1>2, <1>4, <3>1, <3>2, <3>3, <3>5, <3>6
  <2>7. CASE ClearCreated(r)
    <3>1. UNCHANGED <<team, lives, saved, turns, wiped, capability>>
      BY <2>7 DEF ClearCreated, chat
    <3>2. RequestsShaped' /\ (mishaps' = mishaps \/ Mishap)
      BY <1>1, <2>7, ClearCreatedMoves DEF Ends, Others
    <3> QED BY <1>1, <1>2, <1>3, <1>4, <1>5, <3>1, <3>2
  <2>8. CASE CallTeam(r)
    <3>1. UNCHANGED <<turns, capability>>
      BY <2>8 DEF CallTeam
    <3>2. Inventory' /\ lives' = lives /\ (mishaps' = mishaps \/ Mishap)
      BY <1>1, <2>8, CallTakes
    <3>3. RequestsShaped' /\ wiped' = IF req[r].kind = "host" THEN wiped + 1 ELSE wiped
      BY <1>1, <2>8, CallTeamMoves DEF Goes, Ends, Others
    <3>4. wiped' \in Nat
      BY <1>1, <3>3
    <3> QED BY <1>1, <1>2, <1>4, <1>5, <3>1, <3>2, <3>3, <3>4
  <2>9. CASE Wipe(r)
    <3>1. UNCHANGED <<team, lives, saved, turns, wiped, capability>>
      BY <2>9 DEF Wipe, chat
    <3>2. RequestsShaped' /\ (mishaps' = mishaps \/ Mishap)
      BY <1>1, <2>9, WipeMoves DEF Goes, Ends, Others
    <3> QED BY <1>1, <1>2, <1>3, <1>4, <1>5, <3>1, <3>2
  <2>10. CASE Forget(r)
    <3>1. UNCHANGED <<turns, wiped, capability>> /\ (mishaps' = mishaps \/ Mishap)
      BY <2>10 DEF Forget, chat
    <3>2. Inventory' /\ lives' = lives
      BY <1>1, <2>10, ForgetSaves
    <3>3. RequestsShaped'
      BY <1>1, <2>10, ForgetMoves DEF Goes, Ends, Others
    <3> QED BY <1>1, <1>2, <1>4, <1>5, <3>1, <3>2, <3>3
  <2>11. CASE EndRuns(r)
    <3>1. UNCHANGED <<team, lives, saved, wiped, capability, mishaps>>
      BY <2>11 DEF EndRuns, space
    <3>2. RequestsShaped'
      BY <1>1, <2>11, EndRunsMoves DEF Ends, Others
    <3>3. turns' \in Seq(Turns(lives)) /\ TurnsStay
      BY <1>1, <2>11, EndRunsTurns
    <3> QED BY <1>1, <1>2, <1>3, <3>1, <3>2, <3>3
  <2>12. CASE AdmitCheck(r)
    <3>1. UNCHANGED <<team, lives, saved, turns, wiped, capability, mishaps>>
      BY <2>12 DEF AdmitCheck, space, chat
    <3>2. RequestsShaped'
      BY <1>1, <2>12, AdmitCheckMoves DEF Ends, Checks, Others
    <3> QED BY <1>1, <1>2, <1>3, <1>5, <3>1, <3>2
  <2>13. CASE AdmitAppend(r)
    <3>1. UNCHANGED <<team, lives, saved, wiped, capability>>
      BY <2>13 DEF AdmitAppend
    <3>2. RequestsShaped' /\ (mishaps' = mishaps \/ Mishap)
      BY <1>1, <2>13, AdmitAppendMoves DEF Ends, Others
    <3>3. turns' \in Seq(Turns(lives)) /\ TurnsStay
      BY <1>1, <2>13, AdmitAppendTurns
    <3> QED BY <1>1, <1>2, <1>3, <1>4, <3>1, <3>2, <3>3
  <2> QED BY <1>10, <2>1, <2>2, <2>3, <2>4, <2>5, <2>6, <2>7, <2>8, <2>9, <2>10, <2>11, <2>12, <2>13 DEF Step
<1> QED BY NextIs, <1>6, <1>7, <1>8, <1>9, <1>10

-----------------------------------------------------------------------------
(* The transcript.                                                         *)

(* A store whose rows are in order, each of the Team and the life of its   *)
(* turn; and one whose bound turns have their messages.                    *)
Sound(g, ts, n) ==
  /\ g \in Stores(n)
  /\ \A i \in DOMAIN g.rows : g.rows[i].pos <= g.last
  /\ \A i, k \in DOMAIN g.rows : i < k => g.rows[i].pos < g.rows[k].pos
  /\ \A i \in DOMAIN g.rows : /\ g.rows[i].turn \in DOMAIN ts
                              /\ g.rows[i].team = ts[g.rows[i].turn].id
                              /\ g.rows[i].origin = ts[g.rows[i].turn].life
Anchored(g) == \A i \in DOMAIN g.bound : Admitted(g, g.bound[i][1], g.bound[i][2])

LEMMA StoreIs == StoreShaped <=> Sound(h, turns, lives) /\ Anchored(h)
BY DEF StoreShaped, Sound, Anchored, BoundIsAdmitted

(* A Team's row under an event key.                                        *)
LEMMA AtIs ==
  ASSUME NEW n, NEW g \in Stores(n), NEW id, NEW tn, NEW suffix
  PROVE  /\ At(g, id, tn, suffix) # <<>> <=>
              \E i \in DOMAIN g.rows : g.rows[i].team = id /\ g.rows[i].turn = tn /\ g.rows[i].suffix = suffix
         /\ At(g, id, tn, suffix) # <<>> =>
              \E i \in DOMAIN g.rows : /\ g.rows[i].team = id /\ g.rows[i].turn = tn /\ g.rows[i].suffix = suffix
                                       /\ At(g, id, tn, suffix)[1] = g.rows[i]
<1> DEFINE I == {i \in DOMAIN g.rows : g.rows[i].team = id /\ g.rows[i].turn = tn /\ g.rows[i].suffix = suffix}
           p == Picked(g.rows, I)
<1>1. At(g, id, tn, suffix) = p
  BY DEF At, Where, Select
<1>2. g.rows \in Seq(Rows(n))
  BY DEF Stores
<1>3. /\ p \in Seq(Rows(n))
      /\ \A k \in DOMAIN p : \E i \in DOMAIN g.rows : i \in I /\ p[k] = g.rows[i]
      /\ p = <<>> <=> \A i \in DOMAIN g.rows : i \notin I
  <2> HIDE DEF I
  <2> QED BY <1>2, PickedAre
<1> HIDE DEF p
<1>4. p # <<>> => 1 \in DOMAIN p
  BY <1>3
<1> QED BY <1>1, <1>3, <1>4

LEMMA AdmittedIs ==
  ASSUME NEW n, NEW g \in Stores(n), NEW id, NEW tn
  PROVE  Admitted(g, id, tn) <=>
           \E i \in DOMAIN g.rows : g.rows[i].team = id /\ g.rows[i].turn = tn /\ g.rows[i].suffix = "user"
BY AtIs DEF Admitted

(* What a write does: at most one more row, at the end and of a turn t;    *)
(* what is bound was bound, or is admitted.                                *)
Grew(g, k, t, ts, n) ==
  /\ k \in Stores(n)
  /\ \/ k.rows = g.rows /\ k.last = g.last
     \/ \E row \in Rows(n) : /\ k.rows = Append(g.rows, row) /\ k.last = g.last + 1 /\ row.pos = k.last
                             /\ row.turn = t /\ t \in DOMAIN ts /\ row.team = ts[t].id /\ row.origin = ts[t].life
  /\ \A b \in DOMAIN k.bound :
       (\E a \in DOMAIN g.bound : k.bound[b] = g.bound[a]) \/ Admitted(g, k.bound[b][1], k.bound[b][2])

LEMMA GrewSound ==
  ASSUME NEW g, NEW k, NEW t, NEW ts, NEW n, Sound(g, ts, n), Anchored(g), Grew(g, k, t, ts, n)
  PROVE  Sound(k, ts, n) /\ Anchored(k) /\ DOMAIN g.rows \subseteq DOMAIN k.rows
         /\ (\A i \in DOMAIN g.rows : k.rows[i] = g.rows[i])
         /\ \A i \in DOMAIN k.rows : i \in DOMAIN g.rows
              \/ (k.rows[i].turn = t /\ k.rows[i].team = ts[t].id /\ k.rows[i].origin = ts[t].life)
<1>1. /\ g \in Stores(n) /\ g.rows \in Seq(Rows(n)) /\ g.last \in Nat /\ Len(g.rows) \in Nat /\ DOMAIN g.rows = 1..Len(g.rows)
      /\ \A i \in DOMAIN g.rows : g.rows[i].pos \in Nat
  <2>1. g \in Stores(n) /\ g.rows \in Seq(Rows(n)) /\ g.last \in Nat
    BY DEF Sound, Stores
  <2>2. Len(g.rows) \in Nat /\ DOMAIN g.rows = 1..Len(g.rows) /\ \A i \in DOMAIN g.rows : g.rows[i] \in Rows(n)
    BY <2>1
  <2> QED BY <2>1, <2>2 DEF Rows
<1>2. k \in Stores(n)
  BY DEF Grew
<1>3. ASSUME k.rows = g.rows, k.last = g.last
      PROVE  /\ Sound(k, ts, n) /\ DOMAIN g.rows \subseteq DOMAIN k.rows
             /\ \A i \in DOMAIN g.rows : k.rows[i] = g.rows[i]
             /\ \A i \in DOMAIN k.rows : i \in DOMAIN g.rows
                  \/ (k.rows[i].turn = t /\ k.rows[i].team = ts[t].id /\ k.rows[i].origin = ts[t].life)
  BY <1>2, <1>3 DEF Sound
<1>4. ASSUME NEW row \in Rows(n), k.rows = Append(g.rows, row), k.last = g.last + 1, row.pos = k.last,
             row.turn = t, t \in DOMAIN ts, row.team = ts[t].id, row.origin = ts[t].life
      PROVE  /\ Sound(k, ts, n) /\ DOMAIN g.rows \subseteq DOMAIN k.rows
             /\ \A i \in DOMAIN g.rows : k.rows[i] = g.rows[i]
             /\ \A i \in DOMAIN k.rows : i \in DOMAIN g.rows
                  \/ (k.rows[i].turn = t /\ k.rows[i].team = ts[t].id /\ k.rows[i].origin = ts[t].life)
  <2> DEFINE m == Len(g.rows)
  <2>1. /\ DOMAIN k.rows = 1..m + 1 /\ (\A i \in 1..m : k.rows[i] = g.rows[i]) /\ k.rows[m + 1] = row
    BY <1>1, <1>4, AppendProperties
  <2>2. m \in Nat /\ DOMAIN g.rows = 1..m
    BY <1>1
  <2> HIDE DEF m
  <2>3. \A i \in DOMAIN k.rows : i \in DOMAIN g.rows \/ i = m + 1
    BY <2>1, <2>2
  <2>4. \A i \in DOMAIN g.rows : g.rows[i].pos <= g.last
    BY DEF Sound
  <2>5. \A i \in DOMAIN k.rows : k.rows[i].pos <= k.last
    BY <1>1, <1>4, <2>1, <2>2, <2>3, <2>4
  <2>6. \A i, l \in DOMAIN k.rows : i < l => k.rows[i].pos < k.rows[l].pos
    <3> SUFFICES ASSUME NEW i \in DOMAIN k.rows, NEW l \in DOMAIN k.rows, i < l PROVE k.rows[i].pos < k.rows[l].pos
      OBVIOUS
    <3>1. i \in DOMAIN g.rows
      BY <2>1, <2>2
    <3>2. CASE l \in DOMAIN g.rows
      BY <2>1, <2>2, <3>1, <3>2 DEF Sound
    <3>3. CASE l = m + 1
      BY <1>1, <1>4, <2>1, <2>2, <2>4, <3>1, <3>3
    <3> QED BY <2>3, <3>2, <3>3
  <2>7. \A i \in DOMAIN k.rows : /\ k.rows[i].turn \in DOMAIN ts /\ k.rows[i].team = ts[k.rows[i].turn].id
                                 /\ k.rows[i].origin = ts[k.rows[i].turn].life
    BY <1>4, <2>1, <2>2, <2>3 DEF Sound
  <2>8. Sound(k, ts, n)
    BY <1>2, <2>5, <2>6, <2>7 DEF Sound
  <2> QED BY <1>4, <2>1, <2>2, <2>3, <2>8
<1>5. /\ Sound(k, ts, n) /\ DOMAIN g.rows \subseteq DOMAIN k.rows
      /\ \A i \in DOMAIN g.rows : k.rows[i] = g.rows[i]
      /\ \A i \in DOMAIN k.rows : i \in DOMAIN g.rows
           \/ (k.rows[i].turn = t /\ k.rows[i].team = ts[t].id /\ k.rows[i].origin = ts[t].life)
  BY <1>3, <1>4 DEF Grew
<1>6. \A id, tn : Admitted(g, id, tn) => Admitted(k, id, tn)
  <2> TAKE id, tn
  <2>1. Admitted(g, id, tn) <=>
          \E i \in DOMAIN g.rows : g.rows[i].team = id /\ g.rows[i].turn = tn /\ g.rows[i].suffix = "user"
    BY <1>1, AdmittedIs
  <2>2. Admitted(k, id, tn) <=>
          \E i \in DOMAIN k.rows : k.rows[i].team = id /\ k.rows[i].turn = tn /\ k.rows[i].suffix = "user"
    BY <1>2, AdmittedIs
  <2> QED BY <1>5, <2>1, <2>2
<1>7. Anchored(k)
  BY <1>6 DEF Grew, Anchored
<1> QED BY <1>5, <1>7

(* The turns of a store that are still bound are bound turns.              *)
LEMMA FinishIs ==
  ASSUME NEW n, NEW g \in Stores(n), NEW tn
  PROVE  /\ Finish(g, tn) \in Stores(n) /\ Finish(g, tn).rows = g.rows /\ Finish(g, tn).last = g.last
         /\ \A b \in DOMAIN Finish(g, tn).bound : \E a \in DOMAIN g.bound : Finish(g, tn).bound[b] = g.bound[a]
<1> DEFINE I == {i \in DOMAIN g.bound : g.bound[i][2] # tn}
           p == Picked(g.bound, I)
<1>1. Finish(g, tn) = [g EXCEPT !.bound = p]
  BY DEF Finish, Select
<1>2. g.bound \in Seq(Id \X Nat)
  BY DEF Stores
<1>3. p \in Seq(Id \X Nat) /\ \A k \in DOMAIN p : \E i \in DOMAIN g.bound : p[k] = g.bound[i]
  <2> HIDE DEF I
  <2> QED BY <1>2, PickedAre
<1> HIDE DEF p
<1>4. [g EXCEPT !.bound = p] \in Stores(n) /\ [g EXCEPT !.bound = p].rows = g.rows /\ [g EXCEPT !.bound = p].last = g.last
      /\ [g EXCEPT !.bound = p].bound = p
  BY <1>3 DEF Stores
<1> QED BY <1>1, <1>3, <1>4

(* A row inserted is the last.                                             *)
Inserts(g, k, id, tn, origin, n) ==
  /\ k.last = g.last + 1
  /\ \E row \in Rows(n) : /\ k.rows = Append(g.rows, row) /\ row.pos = k.last
                          /\ row.turn = tn /\ row.team = id /\ row.origin = origin

LEMMA InsertIs ==
  ASSUME NEW n, NEW g \in Stores(n), NEW id \in Id, NEW tn \in Nat, NEW suffix \in RowKinds, NEW body \in Bodies,
         NEW prov \in {"plain", "attached"}, NEW origin \in 1..n
  PROVE  LET k == Insert(g, Row(id, tn, suffix, body, prov, origin))
         IN k \in Stores(n) /\ k.bound = g.bound /\ Inserts(g, k, id, tn, origin, n)
<1> DEFINE row == [Row(id, tn, suffix, body, prov, origin) EXCEPT !.pos = g.last + 1]
           k == [g EXCEPT !.rows = Append(g.rows, row), !.last = g.last + 1]
<1>1. Insert(g, Row(id, tn, suffix, body, prov, origin)) = k
  BY DEF Insert
<1>2. g.rows \in Seq(Rows(n)) /\ g.last \in Nat /\ g.bound \in Seq(Id \X Nat)
  BY DEF Stores
<1>3. g.last + 1 \in Nat \ {0} /\ g.last + 1 \in Nat
  BY <1>2
<1>4. row \in Rows(n) /\ row.pos = g.last + 1 /\ row.turn = tn /\ row.team = id /\ row.origin = origin
  BY <1>3 DEF Rows, Row
<1> HIDE DEF row
<1>5. Append(g.rows, row) \in Seq(Rows(n))
  BY <1>2, <1>4
<1>6. k \in Stores(n) /\ k.rows = Append(g.rows, row) /\ k.last = g.last + 1 /\ k.bound = g.bound
  BY <1>3, <1>5 DEF Stores
<1> HIDE DEF k
<1>7. Inserts(g, k, id, tn, origin, n)
  BY <1>4, <1>6 DEF Inserts
<1> QED BY <1>1, <1>6, <1>7

LEMMA WrittenGrows ==
  ASSUME NEW n, NEW g, NEW ts, Sound(g, ts, n), NEW t \in DOMAIN ts, t \in Nat, ts[t].id \in Id, ts[t].life \in 1..n,
         NEW suffix \in RowKinds, NEW body \in Bodies, NEW prov \in {"plain", "attached"}, NEW finish
  PROVE  Grew(g, Written(g, Row(ts[t].id, t, suffix, body, prov, ts[t].life), finish)[2], t, ts, n)
<1> DEFINE id == ts[t].id
           life == ts[t].life
<1>0. id \in Id /\ life \in 1..n
  OBVIOUS
<1> HIDE DEF id, life
<1> DEFINE new == Row(id, t, suffix, body, prov, life)
           k == Insert(g, new)
           w == Written(g, new, finish)[2]
<1>1. g \in Stores(n)
  BY DEF Sound
<1>2. k \in Stores(n) /\ k.bound = g.bound /\ Inserts(g, k, id, t, life, n)
  BY <1>0, <1>1, InsertIs
<1>3. \E f \in {g, k} : w = f \/ w = Finish(f, t)
  <2>1. new.turn = t
    BY DEF Row
  <2> HIDE DEF new, k
  <2> QED BY <2>1 DEF Written, k
<1> HIDE DEF k, w
<1>4. PICK f \in {g, k} : w = f \/ w = Finish(f, t)
  BY <1>3
<1>5. f \in Stores(n)
  BY <1>1, <1>2
<1>6. /\ w \in Stores(n) /\ w.rows = f.rows /\ w.last = f.last
      /\ \A b \in DOMAIN w.bound : \E a \in DOMAIN f.bound : w.bound[b] = f.bound[a]
  BY <1>4, <1>5, FinishIs
<1>7. f.bound = g.bound
  BY <1>2
<1>8. ASSUME f = g PROVE Grew(g, w, t, ts, n)
  BY <1>6, <1>8 DEF Grew
<1>9. ASSUME f = k PROVE Grew(g, w, t, ts, n)
  <2>1. \E row \in Rows(n) : /\ w.rows = Append(g.rows, row) /\ w.last = g.last + 1 /\ row.pos = w.last
                             /\ row.turn = t /\ t \in DOMAIN ts /\ row.team = ts[t].id /\ row.origin = ts[t].life
    BY <1>2, <1>6, <1>9 DEF id, life, Inserts
  <2> QED BY <1>6, <1>7, <2>1 DEF Grew
<1>10. Grew(g, w, t, ts, n)
  BY <1>4, <1>8, <1>9
<1> QED BY <1>10 DEF w, id, life

LEMMA SameGrew ==
  ASSUME NEW n, NEW g, NEW ts, Sound(g, ts, n), NEW t
  PROVE  Grew(g, g, t, ts, n)
BY DEF Grew, Sound

(* A row with an anchor, for a turn whose message is there: nothing else   *)
(* is written.                                                             *)
Answers(g, k, t, ts, n) ==
  Grew(g, k, t, ts, n) /\ (k.rows = g.rows \/ \E j \in DOMAIN g.rows : g.rows[j].turn = t)

LEMMA AnchoredGrows ==
  ASSUME NEW n, NEW g, NEW ts, Sound(g, ts, n), NEW t \in DOMAIN ts, t \in Nat, ts[t].id \in Id, ts[t].life \in 1..n,
         NEW suffix \in RowKinds, NEW body \in Bodies, NEW finish
  PROVE  Answers(g, AppendAnchored(g, ts[t].id, t, suffix, body, finish, ts[t].life)[2], t, ts, n)
<1> DEFINE prov == At(g, ts[t].id, t, "user")[1].prov
           w == Written(g, Row(ts[t].id, t, suffix, body, prov, ts[t].life), finish)
           k == AppendAnchored(g, ts[t].id, t, suffix, body, finish, ts[t].life)[2]
<1>1. g \in Stores(n) /\ g.rows \in Seq(Rows(n))
  BY DEF Sound, Stores
<1>2. CASE ~Admitted(g, ts[t].id, t)
  <2>1. k = g
    BY <1>2 DEF AppendAnchored
  <2> QED BY <2>1, SameGrew DEF Answers
<1>3. CASE Admitted(g, ts[t].id, t)
  <2>1. PICK i \in DOMAIN g.rows : g.rows[i].turn = t /\ At(g, ts[t].id, t, "user")[1] = g.rows[i]
    BY <1>1, <1>3, AtIs DEF Admitted
  <2>2. g.rows[i] \in Rows(n)
    BY <1>1
  <2>3. prov \in {"plain", "attached"}
    BY <2>1, <2>2 DEF Rows
  <2>4. k = w[2]
    BY <1>3 DEF AppendAnchored
  <2> HIDE DEF prov, k
  <2>5. Grew(g, w[2], t, ts, n)
    BY <2>3, WrittenGrows
  <2> QED BY <2>1, <2>4, <2>5 DEF Answers, k
<1> QED BY <1>2, <1>3

LEMMA BindGrows ==
  ASSUME NEW n, NEW g, NEW ts, Sound(g, ts, n), NEW t \in DOMAIN ts, t \in Nat, ts[t].id \in Id
  PROVE  Answers(g, Bind(g, ts[t].id, t)[2], t, ts, n)
<1> DEFINE k == [g EXCEPT !.bound = Append(g.bound, <<ts[t].id, t>>)]
           w == Bind(g, ts[t].id, t)[2]
<1>1. w = g \/ (Admitted(g, ts[t].id, t) /\ w = k)
  BY DEF Bind
<1>2. CASE w = g
  BY <1>2, SameGrew DEF Answers
<1>3. CASE Admitted(g, ts[t].id, t) /\ w = k
  <2> DEFINE x == <<ts[t].id, t>>
  <2>1. x \in Id \X Nat /\ x[1] = ts[t].id /\ x[2] = t
    OBVIOUS
  <2> HIDE DEF x
  <2>2. g \in Stores(n) /\ g.bound \in Seq(Id \X Nat)
    BY DEF Sound, Stores
  <2> DEFINE p == Append(g.bound, x)
  <2>3. /\ p \in Seq(Id \X Nat) /\ Len(p) = Len(g.bound) + 1 /\ p[Len(g.bound) + 1] = x
        /\ \A i \in 1..Len(g.bound) : p[i] = g.bound[i]
    BY <2>1, <2>2, AppendProperties
  <2>4. Len(g.bound) \in Nat /\ DOMAIN g.bound = 1..Len(g.bound) /\ DOMAIN p = 1..Len(p)
    BY <2>2, <2>3
  <2> HIDE DEF p
  <2> DEFINE m == Len(g.bound)
  <2>9. m \in Nat /\ DOMAIN g.bound = 1..m /\ DOMAIN p = 1..m + 1 /\ p[m + 1] = x /\ \A i \in 1..m : p[i] = g.bound[i]
    BY <2>3, <2>4
  <2> HIDE DEF m
  <2>5. \A b \in DOMAIN p : (b \in DOMAIN g.bound /\ p[b] = g.bound[b]) \/ p[b] = x
    BY <2>9
  <2>6. k = [g EXCEPT !.bound = p]
    BY DEF p, x
  <2>7. [g EXCEPT !.bound = p] \in Stores(n) /\ [g EXCEPT !.bound = p].rows = g.rows /\ [g EXCEPT !.bound = p].last = g.last
        /\ [g EXCEPT !.bound = p].bound = p
    BY <2>2, <2>3 DEF Stores
  <2> HIDE DEF k
  <2>8. \A b \in DOMAIN k.bound :
          (\E a \in DOMAIN g.bound : k.bound[b] = g.bound[a]) \/ Admitted(g, k.bound[b][1], k.bound[b][2])
    BY <1>3, <2>1, <2>5, <2>6, <2>7
  <2> QED BY <1>3, <2>6, <2>7, <2>8 DEF Answers, Grew
<1> QED BY <1>1, <1>2, <1>3

LEMMA FinishGrows ==
  ASSUME NEW n, NEW g, NEW ts, Sound(g, ts, n), NEW t
  PROVE  Answers(g, Finish(g, t), t, ts, n)
<1>1. g \in Stores(n)
  BY DEF Sound
<1> QED BY <1>1, FinishIs DEF Answers, Grew

(* What is left of a store when rows are taken out of it: those at I, and  *)
(* of what is bound, that at B, each with its message.                     *)
Leaves(g, k, I, B, n) ==
  /\ k \in Stores(n) /\ k.rows = Picked(g.rows, I) /\ k.bound = Picked(g.bound, B) /\ k.last = g.last
  /\ \A i \in DOMAIN g.bound : i \in B /\ Admitted(g, g.bound[i][1], g.bound[i][2]) =>
       \E l \in DOMAIN g.rows : l \in I /\ g.rows[l].team = g.bound[i][1] /\ g.rows[l].turn = g.bound[i][2] /\ g.rows[l].suffix = "user"

LEMMA LeftSound ==
  ASSUME NEW n, NEW g, NEW k, NEW ts, NEW I, NEW B, Sound(g, ts, n), Anchored(g), Leaves(g, k, I, B, n)
  PROVE  /\ Sound(k, ts, n) /\ Anchored(k)
         /\ \A i \in DOMAIN k.rows : \E j \in DOMAIN g.rows : j \in I /\ k.rows[i] = g.rows[j]
<1> DEFINE p == Picked(g.rows, I)
           b == Picked(g.bound, B)
<1>0. g.rows \in Seq(Rows(n))
  BY DEF Sound, Stores
<1>1. g \in Stores(n) /\ g.rows \in Seq(Rows(n)) /\ g.bound \in Seq(Id \X Nat) /\ g.last \in Nat
  BY DEF Sound, Stores
<1>2. /\ p \in Seq(Rows(n))
      /\ \A i \in DOMAIN g.rows : i \in I => \E l \in DOMAIN p : p[l] = g.rows[i]
  BY <1>1, PickedAre
<1>3. b \in Seq(Id \X Nat) /\ \A l \in DOMAIN b : \E i \in DOMAIN g.bound : i \in B /\ b[l] = g.bound[i]
  BY <1>1, PickedAre
<1>4. \E at \in [1..Len(p) -> DOMAIN g.rows] :
        /\ \A l \in DOMAIN p : at[l] \in I /\ p[l] = g.rows[at[l]]
        /\ \A l, m \in DOMAIN p : l < m => at[l] < at[m]
  BY <1>0, PickedIs, Zenon
<1> HIDE DEF p, b
<1>5. PICK at \in [1..Len(p) -> DOMAIN g.rows] :
        /\ \A l \in DOMAIN p : at[l] \in I /\ p[l] = g.rows[at[l]]
        /\ \A l, m \in DOMAIN p : l < m => at[l] < at[m]
  BY <1>4
<1>6. DOMAIN p = 1..Len(p)
  BY <1>2
<1>7. k \in Stores(n) /\ k.rows = p /\ k.bound = b /\ k.last = g.last
  BY DEF Leaves, p, b
<1>8. \A l \in DOMAIN p : at[l] \in DOMAIN g.rows /\ at[l] \in I /\ p[l] = g.rows[at[l]]
  BY <1>5, <1>6
<1>9. Sound(k, ts, n)
  <2>1. \A i \in DOMAIN k.rows : k.rows[i].pos <= k.last
    BY <1>7, <1>8 DEF Sound
  <2>2. \A i, l \in DOMAIN k.rows : i < l => k.rows[i].pos < k.rows[l].pos
    BY <1>5, <1>7, <1>8 DEF Sound
  <2>3. \A i \in DOMAIN k.rows : /\ k.rows[i].turn \in DOMAIN ts /\ k.rows[i].team = ts[k.rows[i].turn].id
                                 /\ k.rows[i].origin = ts[k.rows[i].turn].life
    BY <1>7, <1>8 DEF Sound
  <2> QED BY <1>7, <2>1, <2>2, <2>3 DEF Sound
<1>10. Anchored(k)
  <2> SUFFICES ASSUME NEW l \in DOMAIN b PROVE Admitted(k, b[l][1], b[l][2])
    BY <1>7 DEF Anchored
  <2>1. PICK i \in DOMAIN g.bound : i \in B /\ b[l] = g.bound[i]
    BY <1>3
  <2>2. Admitted(g, g.bound[i][1], g.bound[i][2])
    BY DEF Anchored
  <2>3. PICK j \in DOMAIN g.rows : j \in I /\ g.rows[j].team = g.bound[i][1] /\ g.rows[j].turn = g.bound[i][2] /\ g.rows[j].suffix = "user"
    BY <2>1, <2>2 DEF Leaves
  <2>4. PICK m \in DOMAIN p : p[m] = g.rows[j]
    BY <1>2, <2>3
  <2>5. p[m].team = b[l][1] /\ p[m].turn = b[l][2] /\ p[m].suffix = "user"
    BY <2>1, <2>3, <2>4
  <2>6. \E j1 \in DOMAIN k.rows : k.rows[j1].team = b[l][1] /\ k.rows[j1].turn = b[l][2] /\ k.rows[j1].suffix = "user"
    BY <1>7, <2>5
  <2> QED BY <1>7, <2>6, AdmittedIs
<1>11. \A i \in DOMAIN k.rows : \E j \in DOMAIN g.rows : j \in I /\ k.rows[i] = g.rows[j]
  BY <1>7, <1>8
<1> QED BY <1>9, <1>10, <1>11

LEMMA ClearTeamLeaves ==
  ASSUME NEW n, NEW g, NEW ts, Sound(g, ts, n), Anchored(g), NEW id
  PROVE  /\ Sound(ClearTeam(g, id), ts, n) /\ Anchored(ClearTeam(g, id))
         /\ \A i \in DOMAIN ClearTeam(g, id).rows : \E j \in DOMAIN g.rows : g.rows[j].team # id /\ ClearTeam(g, id).rows[i] = g.rows[j]
<1> DEFINE I == {i \in DOMAIN g.rows : g.rows[i].team # id}
           B == {i \in DOMAIN g.bound : g.bound[i][1] # id}
           k == [g EXCEPT !.rows = Picked(g.rows, I), !.bound = Picked(g.bound, B)]
<1>1. ClearTeam(g, id) = k
  BY DEF ClearTeam, Select
<1>2. g \in Stores(n)
  BY DEF Sound
<1>3. \A i \in DOMAIN g.bound : i \in B /\ Admitted(g, g.bound[i][1], g.bound[i][2]) =>
        \E l \in DOMAIN g.rows : l \in I /\ g.rows[l].team = g.bound[i][1] /\ g.rows[l].turn = g.bound[i][2] /\ g.rows[l].suffix = "user"
  BY <1>2, AdmittedIs
<1>4. \A l : l \in I => g.rows[l].team # id
  OBVIOUS
<1> HIDE DEF I, B
<1>6. k \in Stores(n) /\ k.rows = Picked(g.rows, I) /\ k.bound = Picked(g.bound, B) /\ k.last = g.last
  <2> DEFINE p == Picked(g.rows, I)
             b == Picked(g.bound, B)
  <2>1. g \in Stores(n) /\ g.rows \in Seq(Rows(n)) /\ g.bound \in Seq(Id \X Nat)
    BY <1>2 DEF Stores
  <2>2. p \in Seq(Rows(n)) /\ b \in Seq(Id \X Nat)
    BY <2>1, PickedAre
  <2> HIDE DEF p, b
  <2>3. [g EXCEPT !.rows = p, !.bound = b] \in Stores(n)
        /\ [g EXCEPT !.rows = p, !.bound = b].rows = p
        /\ [g EXCEPT !.rows = p, !.bound = b].bound = b
        /\ [g EXCEPT !.rows = p, !.bound = b].last = g.last
    BY <2>1, <2>2 DEF Stores
  <2> QED BY <2>3 DEF p, b
<1> HIDE DEF k
<1>5. /\ Sound(k, ts, n) /\ Anchored(k)
      /\ \A i \in DOMAIN k.rows : \E j \in DOMAIN g.rows : j \in I /\ k.rows[i] = g.rows[j]
  <2>1. Leaves(g, k, I, B, n)
    BY <1>3, <1>6 DEF Leaves
  <2> QED BY <2>1, LeftSound
<1> QED BY <1>1, <1>4, <1>5

LEMMA ClearAllLeaves ==
  ASSUME NEW n, NEW g, NEW ts, Sound(g, ts, n)
  PROVE  Sound(ClearAll(g), ts, n) /\ Anchored(ClearAll(g)) /\ ClearAll(g).rows = <<>>
<1>1. g \in Stores(n)
  BY DEF Sound
<1>2. <<>> \in Seq(Rows(n)) /\ <<>> \in Seq(Id \X Nat)
  OBVIOUS
<1>3. ClearAll(g) \in Stores(n) /\ ClearAll(g).rows = <<>> /\ ClearAll(g).bound = <<>>
  BY <1>1, <1>2 DEF ClearAll, Stores
<1> QED BY <1>3 DEF Sound, Anchored

LEMMA SoundStays ==
  ASSUME NEW g, NEW ts, NEW us, NEW n \in Nat, NEW m \in Nat, n <= m, Sound(g, ts, n), DOMAIN ts \subseteq DOMAIN us,
         \A i \in DOMAIN ts : us[i].id = ts[i].id /\ us[i].life = ts[i].life
  PROVE  Sound(g, us, m)
<1>1. 1..n \subseteq 1..m
  OBVIOUS
<1>2. Rows(n) \subseteq Rows(m)
  BY <1>1 DEF Rows
<1>3. Seq(Rows(n)) \subseteq Seq(Rows(m))
  BY <1>2, SeqMonotonic
<1>4. g \in Stores(n)
  BY DEF Sound
<1>5. g \in Stores(m)
  BY <1>3, <1>4 DEF Stores
<1>6. \A i \in DOMAIN g.rows : /\ g.rows[i].turn \in DOMAIN us
                               /\ g.rows[i].team = us[g.rows[i].turn].id
                               /\ g.rows[i].origin = us[g.rows[i].turn].life
  BY DEF Sound
<1> QED BY <1>5, <1>6 DEF Sound

(* What is written, or bound, for a turn.                                  *)
LEMMA MovesStore ==
  ASSUME turns \in Seq(Turns(lives)), Sound(h, turns, lives), NEW t \in DOMAIN turns, TurnMoves(t)
  PROVE  Answers(h, h', t, turns, lives)
<1>1. turns[t].id \in Id /\ turns[t].life \in 1..lives /\ t \in Nat
  <2>1. turns[t] \in Turns(lives)
    OBVIOUS
  <2> QED BY <2>1 DEF Turns
<1>2. \A suffix \in RowKinds, body \in Bodies, finish \in BOOLEAN :
        h' = AppendAnchored(h, turns[t].id, t, suffix, body, finish, turns[t].life)[2] => Answers(h, h', t, turns, lives)
  <2> SUFFICES ASSUME NEW suffix \in RowKinds, NEW body \in Bodies, NEW finish \in BOOLEAN,
                      h' = AppendAnchored(h, turns[t].id, t, suffix, body, finish, turns[t].life)[2]
               PROVE  Answers(h, h', t, turns, lives)
    OBVIOUS
  <2>1. Answers(h, AppendAnchored(h, turns[t].id, t, suffix, body, finish, turns[t].life)[2], t, turns, lives)
    BY <1>1, AnchoredGrows
  <2> QED BY <2>1
<1>3. /\ {"reply", "guidance", "status", "install", "uninstall"} \subseteq RowKinds
      /\ \A k \in {"text", "failed", "dispatch", "installed", "uninstalled"} : [kind |-> k] \in Bodies
  BY DEF RowKinds, Bodies
<1>4. CASE TurnReplies(t)
  <2>1. h' = AppendAnchored(h, turns[t].id, t, "reply", [kind |-> "text"], TRUE, turns[t].life)[2]
    BY <1>4 DEF TurnReplies, Writes, AppendReply
  <2> QED BY <1>2, <1>3, <2>1
<1>5. CASE TurnGuides(t)
  <2>1. h' = AppendAnchored(h, turns[t].id, t, "guidance", [kind |-> "text"], TRUE, turns[t].life)[2]
    BY <1>5 DEF TurnGuides, Writes, AppendGuidance
  <2> QED BY <1>2, <1>3, <2>1
<1>6. CASE TurnFails(t)
  <2>1. h' = AppendAnchored(h, turns[t].id, t, "status", [kind |-> "failed"], TRUE, turns[t].life)[2]
    BY <1>6 DEF TurnFails, Writes, AppendStatus
  <2> QED BY <1>2, <1>3, <2>1
<1>7. CASE TurnInstalls(t)
  <2>1. PICK k \in {"dispatch", "installed"} : Writes(t, AppendInstall(h, turns[t].id, t, [kind |-> k], turns[t].life), k # "dispatch")
    BY <1>7 DEF TurnInstalls
  <2>2. h' = AppendAnchored(h, turns[t].id, t, "install", [kind |-> k], [kind |-> k].kind # "dispatch", turns[t].life)[2]
    BY <2>1 DEF Writes, AppendInstall
  <2> DEFINE finish == [kind |-> k].kind # "dispatch"
             body == [kind |-> k]
  <2>3. finish \in BOOLEAN /\ body \in Bodies /\ "install" \in RowKinds
    BY <1>3
  <2>4. h' = AppendAnchored(h, turns[t].id, t, "install", body, finish, turns[t].life)[2]
    BY <2>2
  <2> HIDE DEF finish, body
  <2> QED BY <1>2, <2>3, <2>4
<1>8. CASE TurnUninstalls(t)
  <2>1. h' = AppendAnchored(h, turns[t].id, t, "uninstall", [kind |-> "uninstalled"], TRUE, turns[t].life)[2]
    BY <1>8 DEF TurnUninstalls, Writes, AppendUninstall
  <2> QED BY <1>2, <1>3, <2>1
<1>9. CASE TurnPauses(t)
  <2>1. h' = Bind(h, turns[t].id, t)[2]
    BY <1>9 DEF TurnPauses, Writes
  <2>2. Answers(h, Bind(h, turns[t].id, t)[2], t, turns, lives)
    BY <1>1, BindGrows
  <2> QED BY <2>1, <2>2
<1>10. CASE TurnAbandoned(t)
  <2>1. h' = Finish(h, t)
    BY <1>10 DEF TurnAbandoned, Writes
  <2>2. Answers(h, Finish(h, t), t, turns, lives)
    BY FinishGrows
  <2> QED BY <2>1, <2>2
<1> QED BY <1>4, <1>5, <1>6, <1>7, <1>8, <1>9, <1>10 DEF TurnMoves

(* A message admitted: its row, of the new turn.                           *)
LEMMA AdmitAppendStore ==
  ASSUME Shaped, StoreShaped, Admitting, NEW r \in Request, AdmitAppend(r)
  PROVE  \/ h' = h /\ turns' = turns
         \/ /\ Sound(h, turns', lives) /\ Grew(h, h', Len(turns) + 1, turns', lives)
            /\ There(turns'[Len(turns) + 1].id, turns'[Len(turns) + 1].life)
<1> DEFINE t == Len(turns) + 1
<1>1. Inventory /\ RequestsShaped /\ turns \in Seq(Turns(lives)) /\ lives \in Nat
  BY DEF Shaped, Inventory
<1>2. /\ turns' \in Seq(Turns(lives)) /\ TurnsStay
      /\ req[r].life \in 1..lives /\ req[r].id \in Id /\ There(req[r].id, req[r].life)
      /\ \/ h' = h /\ turns' = turns
         \/ /\ t \in DOMAIN turns' /\ turns'[t].id = req[r].id /\ turns'[t].life = req[r].life
            /\ \E kind \in Message : h' = AppendUser(h, req[r].id, t, [kind |-> kind], FALSE, req[r].life)[2]
  BY <1>1, AdmitAppendTurns
<1>3. CASE /\ t \in DOMAIN turns' /\ turns'[t].id = req[r].id /\ turns'[t].life = req[r].life
           /\ \E kind \in Message : h' = AppendUser(h, req[r].id, t, [kind |-> kind], FALSE, req[r].life)[2]
  <2>1. PICK kind \in Message : h' = AppendUser(h, req[r].id, t, [kind |-> kind], FALSE, req[r].life)[2]
    BY <1>3
  <2> DEFINE body == [kind |-> kind]
  <2>2. body \in Bodies /\ "user" \in RowKinds /\ "plain" \in {"plain", "attached"} /\ t \in Nat
    BY <1>1 DEF Bodies, RowKinds
  <2>3. h' = AppendUser(h, turns'[t].id, t, body, FALSE, turns'[t].life)[2]
    BY <1>3, <2>1
  <2> HIDE DEF body, t
  <2>4. h' = Written(h, Row(turns'[t].id, t, "user", body, "plain", turns'[t].life), FALSE)[2]
    BY <2>3 DEF AppendUser
  <2>5. Sound(h, turns, lives)
    BY StoreIs
  <2>6. Sound(h, turns', lives)
    BY <1>1, <1>2, <2>5, SoundStays DEF TurnsStay
  <2>7. turns'[t].id \in Id /\ turns'[t].life \in 1..lives
    BY <1>2, <1>3
  <2>8. Grew(h, Written(h, Row(turns'[t].id, t, "user", body, "plain", turns'[t].life), FALSE)[2], t, turns', lives)
    BY <1>3, <2>2, <2>6, <2>7, WrittenGrows
  <2>9. There(turns'[t].id, turns'[t].life)
    BY <1>2, <1>3
  <2> QED BY <2>4, <2>6, <2>8, <2>9 DEF t
<1> QED BY <1>2, <1>3

(* Which steps change the transcript, and which make a Team.               *)
LEMMA Quiet ==
  ASSUME Next
  PROVE  /\ lives' = lives \/ \E r \in Request : Make(r)
         /\ \/ h' = h
            \/ \E r \in Request : ClearCreated(r) \/ Wipe(r) \/ AdmitAppend(r)
            \/ \E t \in DOMAIN turns : TurnMoves(t)
<1>1. ASSUME NEW r \in Request, Receives(r) PROVE lives' = lives /\ h' = h
  BY <1>1 DEF Receives, TeamsCreate, TeamsDelete, TeamsReorder, Authenticated, HostReset, Admit, Received, space
<1>2. CASE Rename
  BY <1>2 DEF Rename
<1>3. CASE Crash
  BY <1>3 DEF Crash, space
<1>4. ASSUME NEW t \in DOMAIN turns, TurnMoves(t) PROVE lives' = lives
  BY <1>4 DEF TurnMoves, TurnReplies, TurnGuides, TurnFails, TurnInstalls, TurnUninstalls, TurnPauses, TurnAbandoned, Writes
<1>5. ASSUME NEW r \in Request, Step(r)
      PROVE  (lives' = lives \/ Make(r)) /\ (h' = h \/ ClearCreated(r) \/ Wipe(r) \/ AdmitAppend(r))
  <2>1. CASE Consume(r)
    BY <2>1 DEF Consume, space
  <2>2. CASE LockOrder(r) \/ LockLifecycle(r)
    BY <2>2 DEF LockOrder, LockLifecycle, space
  <2>3. CASE Reorder(r)
    BY <2>3 DEF Reorder
  <2>4. CASE Release(r)
    BY <2>4 DEF Release
  <2>5. CASE Make(r)
    BY <2>5 DEF Make
  <2>6. CASE ClearCreated(r)
    BY <2>6 DEF ClearCreated
  <2>7. CASE CallTeam(r)
    BY <2>7 DEF CallTeam
  <2>8. CASE Wipe(r)
    BY <2>8 DEF Wipe
  <2>9. CASE Forget(r)
    BY <2>9 DEF Forget
  <2>10. CASE EndRuns(r) \/ AdmitCheck(r)
    BY <2>10 DEF EndRuns, AdmitCheck, space
  <2>11. CASE AdmitAppend(r)
    BY <2>11 DEF AdmitAppend
  <2> QED BY <1>5, <2>1, <2>2, <2>3, <2>4, <2>5, <2>6, <2>7, <2>8, <2>9, <2>10, <2>11 DEF Step
<1> QED BY NextIs, <1>1, <1>2, <1>3, <1>4, <1>5

LEMMA StoreKept ==
  ASSUME Shaped, StoreShaped, Admitting, Next
  PROVE  StoreShaped'
<1>1. Inventory /\ RequestsShaped /\ turns \in Seq(Turns(lives)) /\ lives \in Nat
  BY DEF Shaped, Inventory
<1>2. TurnsStay
  BY ShapedKept
<1>3. lives' \in Nat /\ lives <= lives'
  <2>1. lives' = lives \/ \E r \in Request : Make(r)
    BY Quiet
  <2>2. ASSUME NEW r \in Request, Make(r) PROVE lives' = lives \/ lives' = lives + 1
    BY <1>1, <2>2, MakeMoves
  <2> QED BY <1>1, <2>1, <2>2
<1>4. Sound(h, turns, lives) /\ Anchored(h)
  BY StoreIs
<1>5. ASSUME Sound(h', turns', lives'), Anchored(h') PROVE StoreShaped'
  BY <1>5 DEF StoreShaped, Sound, Anchored, BoundIsAdmitted
<1>6. ASSUME Sound(h', turns, lives), Anchored(h') PROVE StoreShaped'
  <2>1. Sound(h', turns', lives')
    BY <1>1, <1>2, <1>3, <1>6, SoundStays DEF TurnsStay
  <2> QED BY <1>5, <1>6, <2>1
<1>7. CASE h' = h
  BY <1>4, <1>6, <1>7
<1>8. ASSUME NEW t \in DOMAIN turns, TurnMoves(t) PROVE StoreShaped'
  <2>1. Grew(h, h', t, turns, lives)
    BY <1>1, <1>4, <1>8, MovesStore DEF Answers
  <2>2. Sound(h', turns, lives) /\ Anchored(h')
    BY <1>4, <2>1, GrewSound
  <2> QED BY <1>6, <2>2
<1>9. ASSUME NEW r \in Request, ClearCreated(r) PROVE StoreShaped'
  <2>1. h' = h \/ h' = ClearTeam(h, req[r].id)
    BY <1>1, <1>9, ClearCreatedMoves
  <2> QED BY <1>4, <1>6, <1>7, <2>1, ClearTeamLeaves
<1>10. ASSUME NEW r \in Request, Wipe(r) PROVE StoreShaped'
  <2>1. h' \in {h, ClearTeam(h, req[r].id), ClearAll(h)}
    BY <1>1, <1>10, WipeMoves
  <2> QED BY <1>4, <1>6, <1>7, <2>1, ClearTeamLeaves, ClearAllLeaves
<1>11. ASSUME NEW r \in Request, AdmitAppend(r) PROVE StoreShaped'
  <2>1. CASE h' = h
    BY <1>7, <2>1
  <2>2. CASE Sound(h, turns', lives) /\ Grew(h, h', Len(turns) + 1, turns', lives)
    <3>1. lives' = lives
      BY <1>11 DEF AdmitAppend
    <3>2. Sound(h', turns', lives) /\ Anchored(h')
      BY <1>4, <2>2, GrewSound
    <3> QED BY <1>5, <3>1, <3>2
  <2> QED BY <1>11, <2>1, <2>2, AdmitAppendStore
<1> QED BY Quiet, <1>7, <1>8, <1>9, <1>10, <1>11

-----------------------------------------------------------------------------
(* The rows of no Team there is.                                           *)

(* Strays, of a row's Team and origin.                                     *)
Fine(tm, rq, m, k, o) ==
  \/ <<k, o>> \in Pairs(tm)
  \/ /\ m = 0 => (\E r \in Request : rq[r].at = "wipe" /\ (rq[r].kind = "delete" => rq[r].id = k)) /\ k \notin Ids(tm)
     /\ m = 1 => k \notin Ids(tm) \/ \E r \in Request : rq[r].at = "clear" /\ rq[r].id = k

LEMMA StraysAre == Strays <=> \A i \in DOMAIN h.rows : Fine(team, req, mishaps, h.rows[i].team, h.rows[i].origin)
BY ThereIs DEF Strays, Covered, Wiping, Clearing, Fine

(* Once something went wrong, a row of no Team is tolerated.               *)
LEMMA FineMishap ==
  ASSUME NEW tm, NEW tn, NEW rq, NEW rn, NEW m \in Nat, NEW k, NEW o, Fine(tm, rq, m, k, o),
         <<k, o>> \in Pairs(tm) /\ <<k, o>> \notin Pairs(tn) => k \notin Ids(tn), k \notin Ids(tm) => k \notin Ids(tn)
  PROVE  Fine(tn, rn, m + 1, k, o)
BY DEF Fine

LEMMA FineStep ==
  ASSUME Shaped, NEW r \in Request, Others(r), req[r].at \notin {"wipe", "clear"},
         Pairs(team') = Pairs(team), mishaps' = mishaps \/ Mishap, NEW k, NEW o, Fine(team, req, mishaps, k, o)
  PROVE  Fine(team', req', mishaps', k, o)
<1>1. Ids(team') = Ids(team)
  BY SameIds
<1>2. mishaps \in Nat
  BY DEF Shaped
<1>3. CASE mishaps' = mishaps
  BY <1>1, <1>3 DEF Fine, Others
<1>4. CASE Mishap
  <2>1. mishaps' = mishaps + 1
    BY <1>4 DEF Mishap
  <2>2. Fine(team', req', mishaps + 1, k, o)
    BY <1>1, <1>2, FineMishap
  <2> QED BY <2>1, <2>2
<1> QED BY <1>3, <1>4

LEMMA StraysKept ==
  ASSUME Shaped, StoreShaped, Locked, Admitting, Strays, Next
  PROVE  Strays'
<1>1. Inventory /\ RequestsShaped /\ turns \in Seq(Turns(lives)) /\ lives \in Nat /\ mishaps \in Nat
  BY DEF Shaped, Inventory
<1>2. \A i \in DOMAIN h.rows : Fine(team, req, mishaps, h.rows[i].team, h.rows[i].origin)
  BY StraysAre
<1>3. ASSUME \A i \in DOMAIN h'.rows : Fine(team', req', mishaps', h'.rows[i].team, h'.rows[i].origin)
      PROVE  Strays'
  BY <1>3 DEF Strays, Covered, Wiping, Clearing, There, Fine, Pairs
<1>4. ASSUME h' = h, \A k, o : Fine(team, req, mishaps, k, o) => Fine(team', req', mishaps', k, o) PROVE Strays'
  BY <1>2, <1>3, <1>4
<1>5. ASSUME NEW r \in Request, h' = h, Others(r), req[r].at \notin {"wipe", "clear"}, Pairs(team') = Pairs(team),
             mishaps' = mishaps \/ Mishap
      PROVE  Strays'
  BY <1>4, <1>5, FineStep
<1>6. ASSUME NEW r \in Request, Receives(r) PROVE Strays'
  <2>1. h' = h /\ team' = team /\ Others(r) /\ mishaps' = mishaps /\ req[r].at = "idle"
    BY <1>6, ReceiveMoves, IdleIs DEF space
  <2> QED BY <1>5, <2>1
<1>7. CASE Rename
  <2>1. h' = h /\ req' = req /\ mishaps' = mishaps
    BY <1>7 DEF Rename
  <2>2. Pairs(team') = Pairs(team) /\ Ids(team') = Ids(team)
    BY <1>1, <1>7, RenameTeams
  <2> QED BY <1>4, <2>1, <2>2 DEF Fine
<1>8. CASE Crash
  <2>1. h' = h /\ team' = team /\ mishaps' = mishaps + 1
    BY <1>8, CrashMoves DEF space, Mishap
  <2> QED BY <1>1, <1>4, <2>1, FineMishap
<1>9. ASSUME NEW t \in DOMAIN turns, TurnMoves(t) PROVE Strays'
  <2>1. UNCHANGED <<team, req, mishaps>>
    BY <1>9 DEF TurnMoves, TurnReplies, TurnGuides, TurnFails, TurnInstalls, TurnUninstalls, TurnPauses, TurnAbandoned, Writes
  <2>2. Sound(h, turns, lives) /\ Anchored(h)
    BY StoreIs
  <2>3. Answers(h, h', t, turns, lives)
    BY <1>1, <1>9, <2>2, MovesStore
  <2>4. /\ \A i \in DOMAIN h.rows : h'.rows[i] = h.rows[i]
        /\ \A i \in DOMAIN h'.rows : i \in DOMAIN h.rows
             \/ (h'.rows[i].turn = t /\ h'.rows[i].team = turns[t].id /\ h'.rows[i].origin = turns[t].life)
    BY <2>2, <2>3, GrewSound DEF Answers
  <2>5. CASE h'.rows = h.rows
    BY <1>2, <1>3, <2>1, <2>5
  <2>6. CASE \E j \in DOMAIN h.rows : h.rows[j].turn = t
    <3>1. PICK j \in DOMAIN h.rows : h.rows[j].turn = t
      BY <2>6
    <3>2. h.rows[j].team = turns[t].id /\ h.rows[j].origin = turns[t].life
      BY <2>2, <3>1 DEF Sound
    <3>3. Fine(team, req, mishaps, turns[t].id, turns[t].life)
      BY <1>2, <3>2
    <3>4. \A i \in DOMAIN h'.rows : Fine(team, req, mishaps, h'.rows[i].team, h'.rows[i].origin)
      BY <1>2, <2>4, <3>3
    <3> QED BY <1>3, <2>1, <3>4
  <2> QED BY <2>3, <2>5, <2>6 DEF Answers
<1>10. ASSUME NEW r \in Request, Step(r) PROVE Strays'
  (* A request at a wipe is alone in holding the locks. *)
  <2>1. ASSUME Orders(req[r]), NEW s \in Request, req[s].at = "wipe" PROVE s = r
    <3>1. Requested(req[s])
      BY <1>1 DEF RequestsShaped
    <3>2. Orders(req[s])
      BY <2>1, <3>1, KindIs DEF Orders
    <3> QED BY <2>1, <3>2 DEF Locked
  <2>2. CASE Consume(r)
    <3>1. UNCHANGED <<team, h>> /\ (mishaps' = mishaps \/ Mishap)
      BY <2>2 DEF Consume, space
    <3> QED BY <1>1, <1>5, <2>2, <3>1, ConsumeMoves DEF Goes, Ends
  <2>3. CASE LockOrder(r)
    <3>1. UNCHANGED <<team, h, mishaps>>
      BY <2>3 DEF LockOrder, space
    <3> QED BY <1>1, <1>5, <2>3, <3>1, LockOrderMoves DEF Goes
  <2>4. CASE LockLifecycle(r)
    <3>1. UNCHANGED <<team, h, mishaps>>
      BY <2>4 DEF LockLifecycle, space
    <3> QED BY <1>1, <1>5, <2>4, <3>1, LockLifecycleMoves DEF Goes
  <2>5. CASE Reorder(r)
    <3>1. UNCHANGED <<team, h>> /\ (mishaps' = mishaps \/ Mishap)
      BY <2>5 DEF Reorder
    <3> QED BY <1>1, <1>5, <2>5, <3>1, ReorderMoves DEF Ends
  <2>6. CASE Release(r)
    <3>1. UNCHANGED <<team, h>> /\ (mishaps' = mishaps \/ Mishap)
      BY <2>6 DEF Release
    <3> QED BY <1>1, <1>5, <2>6, <3>1, ReleaseMoves DEF Goes, Ends
  <2>7. CASE Make(r)
    <3> DEFINE id == Candidate(req[r])
    <3>1. /\ req[r].at = "make"
          /\ \/ /\ team' = team /\ mishaps' = mishaps /\ (Ends(r) \/ Tries(r))
             \/ /\ id \notin Ids(team) /\ Ids(team') = Ids(team) \cup {id}
                /\ \A k, life : <<k, life>> \in Pairs(team') <=> <<k, life>> \in Pairs(team) \/ (k = id /\ life = lives + 1)
                /\ (Clears(r) /\ mishaps' = mishaps) \/ (Mishap /\ Ends(r))
      BY <1>1, <2>7, MakeMoves
    <3>2. h' = h
      BY <2>7 DEF Make
    <3>3. CASE team' = team /\ mishaps' = mishaps /\ (Ends(r) \/ Tries(r))
      BY <1>5, <3>1, <3>2, <3>3 DEF Ends, Tries
    <3>4. CASE /\ id \notin Ids(team) /\ Ids(team') = Ids(team) \cup {id}
               /\ \A k, life : <<k, life>> \in Pairs(team') <=> <<k, life>> \in Pairs(team) \/ (k = id /\ life = lives + 1)
               /\ (Clears(r) /\ mishaps' = mishaps) \/ (Mishap /\ Ends(r))
      <4>1. \A s \in Request : req[s].at # "wipe"
        BY <2>1, <3>1 DEF Orders
      <4> SUFFICES ASSUME NEW k, NEW o, Fine(team, req, mishaps, k, o) PROVE Fine(team', req', mishaps', k, o)
        BY <1>4, <3>2
      <4>2. CASE <<k, o>> \in Pairs(team)
        BY <3>4, <4>2 DEF Fine
      <4>3. CASE <<k, o>> \notin Pairs(team)
        <5>1. mishaps # 0
          BY <4>1, <4>3 DEF Fine
        <5>2. CASE Mishap
          BY <1>1, <5>1, <5>2 DEF Fine, Mishap
        <5>3. CASE Clears(r) /\ mishaps' = mishaps
          <6>1. mishaps = 1 => k \notin Ids(team') \/ \E s \in Request : req'[s].at = "clear" /\ req'[s].id = k
            <7>1. CASE k = id
              BY <5>3, <7>1 DEF Clears
            <7>2. CASE k # id
              <8> HIDE DEF id
              <8>1. mishaps = 1 => k \notin Ids(team) \/ \E s \in Request : req[s].at = "clear" /\ req[s].id = k
                BY <4>3 DEF Fine
              <8>2. \A s \in Request : req[s].at = "clear" => req'[s] = req[s]
                BY <3>1, <5>3 DEF Clears, Others
              <8> QED BY <3>4, <7>2, <8>1, <8>2
            <7> QED BY <7>1, <7>2
          <6> QED BY <5>1, <5>3, <6>1 DEF Fine
        <5> QED BY <3>4, <5>2, <5>3
      <4> QED BY <4>2, <4>3
    <3> QED BY <3>1, <3>3, <3>4
  <2>8. CASE ClearCreated(r)
    <3>1. /\ req[r].at = "clear" /\ Ends(r)
          /\ (h' = ClearTeam(h, req[r].id) /\ mishaps' = mishaps) \/ (h' = h /\ Mishap)
      BY <1>1, <2>8, ClearCreatedMoves
    <3>2. team' = team
      BY <2>8 DEF ClearCreated
    <3>3. CASE h' = h /\ Mishap
      <4>1. mishaps' = mishaps + 1
        BY <3>3 DEF Mishap
      <4> QED BY <1>1, <1>4, <3>2, <3>3, <4>1, FineMishap
    <3>4. CASE h' = ClearTeam(h, req[r].id) /\ mishaps' = mishaps
      <4>1. Sound(h, turns, lives) /\ Anchored(h)
        BY StoreIs
      <4>2. \A i \in DOMAIN h'.rows : \E j \in DOMAIN h.rows : h.rows[j].team # req[r].id /\ h'.rows[i] = h.rows[j]
        BY <3>4, <4>1, ClearTeamLeaves
      <4>3. ASSUME NEW k, NEW o, k # req[r].id, Fine(team, req, mishaps, k, o) PROVE Fine(team', req', mishaps', k, o)
        <5>1. \A s \in Request : req[s].at \in {"wipe", "clear"} => req'[s] = req[s] \/ (req[s].at = "clear" /\ req[s].id # k)
          BY <3>1, <4>3 DEF Ends, Others
        <5> QED BY <3>2, <3>4, <4>3, <5>1 DEF Fine
      <4> QED BY <1>2, <1>3, <4>2, <4>3
    <3> QED BY <3>1, <3>3, <3>4
  <2>9. CASE CallTeam(r)
    <3>1. /\ \A k, life : <<k, life>> \in Pairs(team') => <<k, life>> \in Pairs(team)
          /\ \A k, life : <<k, life>> \in Pairs(team) /\ <<k, life>> \notin Pairs(team')
                            => (req[r].kind = "delete" => req[r].id = k) /\ k \notin Ids(team')
      BY <1>1, <2>9, CallTakes
    <3>2. /\ req[r].at = "call" /\ req[r].kind \in {"delete", "reset", "host"}
          /\ \/ Ends(r) /\ (team' = team \/ Mishap) /\ (mishaps' = mishaps \/ Mishap)
             \/ Goes(r, "wipe") /\ mishaps' = mishaps
      BY <1>1, <2>9, CallTeamMoves
    <3>3. h' = h
      BY <2>9 DEF CallTeam
    <3>4. \A k : k \notin Ids(team) => k \notin Ids(team')
      BY <3>1, IdsOfPairs
    <3>5. CASE team' = team /\ Ends(r)
      BY <1>5, <3>2, <3>3, <3>5 DEF Ends, Goes
    <3>6. CASE Mishap
      <4>1. mishaps' = mishaps + 1
        BY <3>6 DEF Mishap
      <4> QED BY <1>1, <1>4, <3>1, <3>3, <3>4, <4>1, FineMishap
    <3>7. CASE Goes(r, "wipe") /\ mishaps' = mishaps
      <4>1. \A s \in Request : req[s].at # "wipe"
        BY <2>1, <3>2 DEF Orders
      <4> SUFFICES ASSUME NEW k, NEW o, Fine(team, req, mishaps, k, o) PROVE Fine(team', req', mishaps', k, o)
        BY <1>4, <3>3
      <4>2. CASE <<k, o>> \in Pairs(team')
        BY <4>2 DEF Fine
      <4>3. CASE <<k, o>> \in Pairs(team) /\ <<k, o>> \notin Pairs(team')
        <5>1. (req[r].kind = "delete" => req[r].id = k) /\ k \notin Ids(team')
          BY <3>1, <4>3
        <5>2. req'[r].at = "wipe" /\ (req'[r].kind = "delete" => req'[r].id = k)
          BY <3>7, <5>1 DEF Goes
        <5> QED BY <5>1, <5>2 DEF Fine
      <4>4. CASE <<k, o>> \notin Pairs(team)
        <5>1. mishaps # 0
          BY <4>1, <4>4 DEF Fine
        <5>2. \A s \in Request : req[s].at = "clear" => req'[s] = req[s]
          BY <3>2, <3>7 DEF Goes, Others
        <5>3. mishaps = 1 => k \notin Ids(team') \/ \E s \in Request : req'[s].at = "clear" /\ req'[s].id = k
          BY <3>4, <4>4, <5>2 DEF Fine
        <5> QED BY <3>7, <5>1, <5>3 DEF Fine
      <4> QED BY <4>2, <4>3, <4>4
    <3> QED BY <3>2, <3>5, <3>6, <3>7
  <2>10. CASE Wipe(r)
    <3>1. /\ req[r].at = "wipe" /\ req[r].kind \in {"delete", "reset", "host"}
          /\ \/ /\ Goes(r, "forget") /\ mishaps' = mishaps
                /\ h' = IF req[r].kind = "delete" THEN ClearTeam(h, req[r].id) ELSE ClearAll(h)
             \/ Ends(r) /\ h' = h /\ Mishap
      BY <1>1, <2>10, WipeMoves
    <3>2. team' = team
      BY <2>10 DEF Wipe
    <3>3. CASE h' = h /\ Mishap
      <4>1. mishaps' = mishaps + 1
        BY <3>3 DEF Mishap
      <4> QED BY <1>1, <1>4, <3>2, <3>3, <4>1, FineMishap
    <3>4. Sound(h, turns, lives) /\ Anchored(h)
      BY StoreIs
    <3>5. CASE req[r].kind # "delete" /\ h' = ClearAll(h)
      <4>1. h'.rows = <<>>
        BY <3>4, <3>5, ClearAllLeaves
      <4> QED BY <1>3, <4>1
    <3>6. CASE req[r].kind = "delete" /\ Goes(r, "forget") /\ mishaps' = mishaps /\ h' = ClearTeam(h, req[r].id)
      <4>1. \A i \in DOMAIN h'.rows : \E j \in DOMAIN h.rows : h.rows[j].team # req[r].id /\ h'.rows[i] = h.rows[j]
        BY <3>4, <3>6, ClearTeamLeaves
      <4>2. ASSUME NEW k, NEW o, k # req[r].id, Fine(team, req, mishaps, k, o) PROVE Fine(team', req', mishaps', k, o)
        <5>1. Orders(req[r])
          BY <3>1 DEF Orders
        <5>2. \A s \in Request : req[s].at = "wipe" => s = r
          BY <2>1, <5>1
        <5>3. \A s \in Request : req[s].at = "clear" => req'[s] = req[s]
          BY <3>1, <3>6 DEF Goes, Others
        <5> QED BY <3>2, <3>6, <4>2, <5>2, <5>3 DEF Fine
      <4> QED BY <1>2, <1>3, <4>1, <4>2
    <3> QED BY <3>1, <3>3, <3>5, <3>6
  <2>11. CASE Forget(r)
    <3>1. UNCHANGED <<team, h>> /\ (mishaps' = mishaps \/ Mishap)
      BY <2>11 DEF Forget
    <3> QED BY <1>1, <1>5, <2>11, <3>1, ForgetMoves DEF Goes, Ends
  <2>12. CASE EndRuns(r)
    <3>1. UNCHANGED <<team, h, mishaps>>
      BY <2>12 DEF EndRuns, space
    <3> QED BY <1>1, <1>5, <2>12, <3>1, EndRunsMoves DEF Ends
  <2>13. CASE AdmitCheck(r)
    <3>1. UNCHANGED <<team, h, mishaps>>
      BY <2>13 DEF AdmitCheck, space
    <3> QED BY <1>1, <1>5, <2>13, <3>1, AdmitCheckMoves DEF Ends, Checks
  <2>14. CASE AdmitAppend(r)
    <3>1. req[r].at = "append" /\ Ends(r) /\ (mishaps' = mishaps \/ Mishap)
      BY <1>1, <2>14, AdmitAppendMoves
    <3>2. team' = team
      BY <2>14 DEF AdmitAppend
    <3>3. CASE h' = h
      BY <1>5, <3>1, <3>2, <3>3 DEF Ends
    <3>4. CASE /\ Sound(h, turns', lives) /\ Grew(h, h', Len(turns) + 1, turns', lives)
               /\ There(turns'[Len(turns) + 1].id, turns'[Len(turns) + 1].life)
      <4> DEFINE t == Len(turns) + 1
      <4>1. Anchored(h)
        BY StoreIs
      <4> HIDE DEF t
      <4>2. Sound(h, turns', lives) /\ Grew(h, h', t, turns', lives) /\ There(turns'[t].id, turns'[t].life)
        BY <3>4 DEF t
      <4>3. /\ \A i \in DOMAIN h.rows : h'.rows[i] = h.rows[i]
            /\ \A i \in DOMAIN h'.rows : i \in DOMAIN h.rows
                 \/ (h'.rows[i].turn = t /\ h'.rows[i].team = turns'[t].id /\ h'.rows[i].origin = turns'[t].life)
        BY <4>1, <4>2, GrewSound
      <4>4. <<turns'[t].id, turns'[t].life>> \in Pairs(team')
        BY <3>2, <4>2, ThereIs
      <4>5. ASSUME NEW i \in DOMAIN h'.rows PROVE Fine(team', req', mishaps', h'.rows[i].team, h'.rows[i].origin)
        <5>1. CASE i \in DOMAIN h.rows
          <6>1. Fine(team, req, mishaps, h.rows[i].team, h.rows[i].origin)
            BY <1>2, <5>1
          <6>2. \A k, o : Fine(team, req, mishaps, k, o) => Fine(team', req', mishaps', k, o)
            BY <3>1, <3>2, FineStep DEF Ends
          <6> QED BY <4>3, <5>1, <6>1, <6>2
        <5>2. CASE h'.rows[i].team = turns'[t].id /\ h'.rows[i].origin = turns'[t].life
          BY <4>4, <5>2 DEF Fine
        <5> QED BY <4>3, <5>1, <5>2
      <4> QED BY <1>3, <4>5
    <3> QED BY <2>14, <3>3, <3>4, AdmitAppendStore
  <2> QED BY <1>10, <2>2, <2>3, <2>4, <2>5, <2>6, <2>7, <2>8, <2>9, <2>10, <2>11, <2>12, <2>13, <2>14 DEF Step
<1> QED BY NextIs, <1>6, <1>7, <1>8, <1>9, <1>10

-----------------------------------------------------------------------------
(* The invariant.                                                          *)

LEMMA Begun == Init => TeamsInv
<1> SUFFICES ASSUME Init PROVE TeamsInv
  OBVIOUS
<1>1. /\ team = <<>> /\ lives = 0 /\ saved = <<>> /\ h = Empty /\ order = None /\ lifecycle = None
      /\ req = [r \in Request |-> Idle] /\ turns = <<>> /\ capability = "projected" /\ wiped = 0 /\ mishaps = 0
  BY DEF Init
<1>2. \A r \in Request : req[r] = Idle
  BY <1>1
<1>3. RequestsShaped
  <2>1. req = [r \in Request |-> req[r]]
    BY <1>1
  <2> QED BY <1>2, <2>1, IdleRequested DEF RequestsShaped
<1>4. Shaped
  <2>1. <<>> \in Seq(Entries(0)) /\ <<>> \in Seq(Positions(0)) /\ <<>> \in Seq(Turns(0)) /\ OnceById(<<>>)
    BY DEF OnceById
  <2> QED BY <1>1, <1>3, <2>1 DEF Shaped
<1>5. h.rows = <<>> /\ h.bound = <<>> /\ h.last = 0
  BY <1>1 DEF Empty
<1>6. StoreShaped
  <2>1. <<>> \in Seq(Rows(lives)) /\ <<>> \in Seq(Id \X Nat)
    OBVIOUS
  <2>2. h \in Stores(lives)
    BY <1>1, <2>1 DEF Empty, Stores
  <2> QED BY <1>5, <2>2 DEF StoreShaped, BoundIsAdmitted
<1>7. Locked
  <2>1. \A r \in Request : order # r /\ lifecycle # r
    BY <1>1, TeamsAssumption
  <2> QED BY <1>1, <1>2, <2>1, IdleIs DEF Locked, Orders, Lives
<1>8. Positioned
  BY <1>1, <1>2, IdleIs DEF Positioned, PositionOfItsTeam
<1>9. Strays /\ Admitting
  BY <1>2, <1>5, IdleIs DEF Strays, Admitting
<1>10. Capable
  BY <1>1, <1>2, IdleIs DEF Capable, CapabilityOnce
<1> QED BY <1>4, <1>6, <1>7, <1>8, <1>9, <1>10 DEF TeamsInv

LEMMA Stuttered == ASSUME TeamsInv, UNCHANGED vars PROVE TeamsInv'
<1>1. UNCHANGED <<team, lives, saved, h, order, lifecycle, req, turns, capability, wiped, mishaps>>
  BY DEF vars
<1>2. Shaped'
  BY <1>1 DEF TeamsInv, Shaped, RequestsShaped
<1>3. StoreShaped'
  BY <1>1 DEF TeamsInv, StoreShaped, BoundIsAdmitted
<1>4. Locked'
  BY <1>1 DEF TeamsInv, Locked
<1>5. Positioned'
  BY <1>1 DEF TeamsInv, Positioned, PositionOfItsTeam
<1>6. Strays'
  BY <1>1 DEF TeamsInv, Strays, There, Covered, Wiping, Clearing
<1>7. Admitting'
  BY <1>1 DEF TeamsInv, Admitting, There
<1>8. Capable'
  BY <1>1 DEF TeamsInv, Capable, CapabilityOnce
<1> QED BY <1>2, <1>3, <1>4, <1>5, <1>6, <1>7, <1>8 DEF TeamsInv

LEMMA TeamsInvKept == TeamsInv /\ [Next]_vars => TeamsInv'
<1> SUFFICES ASSUME TeamsInv, [Next]_vars PROVE TeamsInv'
  OBVIOUS
<1>1. Shaped /\ StoreShaped /\ Locked /\ Positioned /\ Strays /\ Admitting /\ Capable
  BY DEF TeamsInv
<1>2. CASE Next
  BY <1>1, <1>2, ShapedKept, StoreKept, LockedKept, PositionedKept, StraysKept, AdmittingKept, CapableKept DEF TeamsInv
<1>3. CASE UNCHANGED vars
  BY <1>3, Stuttered
<1> QED BY <1>2, <1>3

(* The invariant holds in every state that the Space's requests, the turns *)
(* of its chats and its crashes reach.                                     *)
THEOREM TeamsInvariant == Spec => []TeamsInv
BY Begun, TeamsInvKept, PTL DEF Spec

LEMMA Typed == ASSUME TeamsInv PROVE TypeOK
<1>1. Shaped /\ Locked
  BY DEF TeamsInv
<1>2. team \in Seq(Entries(lives)) /\ OnceById(team) /\ saved \in Seq(Positions(lives)) /\ OnceById(saved)
      /\ capability \in {"projected", "consumed"}
  BY <1>1 DEF Shaped
<1>3. \A i \in DOMAIN team : team[i] \in [id : Id, name : Name, life : 1..lives]
  <2>1. \A i \in DOMAIN team : team[i] \in Entries(lives)
    BY <1>2
  <2> QED BY <2>1 DEF Entries
<1>4. Cardinality(Ids(team)) = Len(team)
  BY <1>2, Counted
<1>5. Cardinality(Ids(saved)) = Len(saved)
  BY <1>2, Counted
<1>6. Ids(saved) \subseteq Id
  <2>1. \A i \in DOMAIN saved : saved[i] \in Positions(lives)
    BY <1>2
  <2> QED BY <2>1 DEF Positions, Ids
<1>7. \A lock \in {order, lifecycle} : lock # None => lock \in Request /\ req[lock].at # "idle"
  BY <1>1 DEF Locked, Orders, Lives
<1> QED BY <1>2, <1>3, <1>4, <1>5, <1>6, <1>7 DEF TypeOK

LEMMA OwnRows == ASSUME TeamsInv PROVE OwnTranscript
<1> SUFFICES ASSUME mishaps <= 1, NEW j \in DOMAIN team, NEW i \in DOMAIN h.rows, h.rows[i].team = team[j].id
             PROVE  h.rows[i].origin = team[j].life \/ \E r \in Request : req[r].at = "clear" /\ req[r].id = team[j].id
  BY DEF OwnTranscript
<1>1. mishaps \in Nat /\ OnceById(team)
  BY DEF TeamsInv, Shaped
<1>2. mishaps = 0 \/ mishaps = 1
  BY <1>1
<1>3. There(h.rows[i].team, h.rows[i].origin) \/ Covered(h.rows[i])
  BY DEF TeamsInv, Strays
<1>4. CASE There(h.rows[i].team, h.rows[i].origin)
  BY <1>1, <1>4 DEF There, OnceById
<1>5. CASE Covered(h.rows[i])
  <2>1. h.rows[i].team \in Ids(team)
    BY DEF Ids
  <2> QED BY <1>2, <1>5, <2>1 DEF Covered, Clearing
<1> QED BY <1>3, <1>4, <1>5

(* order.rs:9-10 and store/mod.rs:3-5: whatever answers are lost and       *)
(* wherever a deletion, a reset or the process stops, the position a Team  *)
(* is listed at was saved for it, the rows it shows were written for it,   *)
(* and the turn it resumes still has its message.                          *)
THEOREM HistoryAlwaysOfItsTeam == Spec => []HistoryOfItsTeam
<1>1. TeamsInv => HistoryOfItsTeam
  BY Typed, OwnRows DEF HistoryOfItsTeam, TeamsInv, Positioned, StoreShaped
<1> QED BY <1>1, TeamsInvariant, PTL

(* page.rs, order.rs and space/host_reset.rs: paging back shows every row  *)
(* of a transcript once, a listing every Team once and in its place, and a *)
(* host capability deletes a Space at most once.                           *)
THEOREM ReadsAlwaysExact == Spec => []ReadsExact
<1>1. TeamsInv => ReadsExact
  BY PagesCover, ListedExactly DEF ReadsExact, TeamsInv, Capable
<1> QED BY <1>1, TeamsInvariant, PTL

-----------------------------------------------------------------------------
(* A directory in its order.                                                               *)
Scored(S, score) == S \subseteq Nat /\ IsFiniteSet(S) /\ \A a \in S : score[a] \in Nat
Ahead(S, score, a) == {b \in S : Before(score, b, a)}
PlaceOf(S, score, a) == Cardinality(Ahead(S, score, a))

LEMMA BeforeOrders ==
  ASSUME NEW S, NEW score, Scored(S, score), NEW a \in S, NEW b \in S, NEW c \in S
  PROVE  /\ ~Before(score, a, a) /\ ~(Before(score, a, b) /\ Before(score, b, a))
         /\ Before(score, a, b) /\ Before(score, b, c) => Before(score, a, c)
         /\ a # b => Before(score, a, b) \/ Before(score, b, a)
<1>1. a \in Nat /\ b \in Nat /\ c \in Nat /\ score[a] \in Nat /\ score[b] \in Nat /\ score[c] \in Nat
  BY DEF Scored
<1> QED BY <1>1 DEF Before

LEMMA PlaceLess ==
  ASSUME NEW S, NEW score, Scored(S, score), NEW a \in S, NEW b \in S, Before(score, a, b)
  PROVE  /\ PlaceOf(S, score, a) \in Nat /\ PlaceOf(S, score, b) \in Nat
         /\ PlaceOf(S, score, a) < PlaceOf(S, score, b)
<1>1. Ahead(S, score, a) \subseteq Ahead(S, score, b) /\ a \in Ahead(S, score, b) /\ a \notin Ahead(S, score, a)
  BY BeforeOrders DEF Ahead
<1>2. Ahead(S, score, b) \subseteq S /\ IsFiniteSet(S)
  BY DEF Ahead, Scored
<1> DEFINE A == Ahead(S, score, a)  B == Ahead(S, score, b)
<1>3. A \subseteq B /\ A # B /\ B \subseteq S
  BY <1>1, <1>2
<1> HIDE DEF A, B
<1>4. IsFiniteSet(B)
  BY <1>2, <1>3, FS_Subset
<1>5. IsFiniteSet(A) /\ Cardinality(A) <= Cardinality(B) /\ Cardinality(A) # Cardinality(B)
  BY <1>3, <1>4, FS_Subset
<1>6. Cardinality(A) \in Nat /\ Cardinality(B) \in Nat
  BY <1>4, <1>5, FS_CardinalityType
<1> QED BY <1>5, <1>6 DEF PlaceOf, A, B

LEMMA PlacesFill ==
  ASSUME NEW S, NEW score, Scored(S, score)
  PROVE  /\ Cardinality(S) \in Nat
         /\ \A a \in S : PlaceOf(S, score, a) \in 0..Cardinality(S) - 1
         /\ \A a, b \in S : PlaceOf(S, score, a) = PlaceOf(S, score, b) => a = b
         /\ \A n \in 1..Cardinality(S) : \E a \in S : PlaceOf(S, score, a) = n - 1
<1> DEFINE N == Cardinality(S)  P == [a \in S |-> PlaceOf(S, score, a)]
<1>1. IsFiniteSet(S) /\ N \in Nat
  BY FS_CardinalityType DEF Scored
<1>2. ASSUME NEW a \in S PROVE PlaceOf(S, score, a) \in 0..N - 1
  <2> DEFINE A == Ahead(S, score, a)
  <2>1. A \subseteq S /\ a \notin A
    BY BeforeOrders DEF Ahead
  <2> HIDE DEF A
  <2>2. IsFiniteSet(A) /\ Cardinality(A) <= N /\ Cardinality(A) # N
    BY <1>1, <2>1, FS_Subset
  <2>3. Cardinality(A) \in Nat
    BY <2>2, FS_CardinalityType
  <2>4. Cardinality(A) \in 0..N - 1
    <3> HIDE DEF N
    <3> QED BY <1>1, <2>2, <2>3
  <2> QED BY <2>4 DEF PlaceOf, A
<1>3. ASSUME NEW a \in S, NEW b \in S, PlaceOf(S, score, a) = PlaceOf(S, score, b) PROVE a = b
  <2> SUFFICES ASSUME a # b PROVE FALSE
    OBVIOUS
  <2>1. Before(score, a, b) \/ Before(score, b, a)
    BY BeforeOrders
  <2>2. ASSUME Before(score, a, b) PROVE FALSE
    BY <2>2, <1>3, PlaceLess
  <2>3. ASSUME Before(score, b, a) PROVE FALSE
    BY <2>3, <1>3, PlaceLess
  <2> QED BY <2>1, <2>2, <2>3
<1>4. P \in [S -> 0..N - 1]
  BY <1>2
<1>5. P \in Injection(S, 0..N - 1)
  <2>1. \A a, b \in S : P[a] = P[b] => a = b
    BY <1>3
  <2> HIDE DEF P, N
  <2> QED BY <1>4, <2>1 DEF Injection, IsInjective
<1>6. IsFiniteSet(0..N - 1) /\ Cardinality(0..N - 1) = N
  <2> DEFINE m == N - 1
  <2>1. m \in Int /\ 0 \in Int /\ (0 > m => N = 0) /\ m - 0 + 1 = N
    <3> HIDE DEF N
    <3> QED BY <1>1
  <2> HIDE DEF m, N
  <2>2. IsFiniteSet(0..m) /\ Cardinality(0..m) = N
    BY <2>1, FS_Interval
  <2> QED BY <2>2 DEF m
<1>7. P \in Surjection(S, 0..N - 1)
  <2> DEFINE T == 0..N - 1
  <2>1. P \in Injection(S, T) /\ IsFiniteSet(T) /\ Cardinality(T) = Cardinality(S)
    BY <1>5, <1>6
  <2> HIDE DEF P, T
  <2>2. P \in Surjection(S, T)
    BY <2>1, FS_Injection
  <2> QED BY <2>2 DEF T
<1>8. ASSUME NEW n \in 1..N PROVE \E a \in S : PlaceOf(S, score, a) = n - 1
  <2>1. n - 1 \in 0..N - 1
    <3> HIDE DEF N
    <3> QED BY <1>1
  <2>2. \A k \in 0..N - 1 : \E a \in S : P[a] = k
    <3> HIDE DEF P, N
    <3> QED BY <1>7 DEF Surjection
  <2> QED BY <2>1, <2>2
<1> QED BY <1>1, <1>2, <1>3, <1>8

(* The whole directory, each once, whoever is before the next.                             *)
LEMMA RankedIs ==
  ASSUME NEW S, NEW score, Scored(S, score)
  PROVE  LET r == Ranked(S, score)
         IN /\ Cardinality(S) \in Nat /\ Len(r) = Cardinality(S) /\ r \in Seq(S)
            /\ \A i \in 1..Cardinality(S) : r[i] \in S
            /\ \A i, j \in 1..Cardinality(S) : i < j => Before(score, r[i], r[j])
            /\ \A a \in S : \E i \in 1..Cardinality(S) : r[i] = a
<1> DEFINE N == Cardinality(S)  r == Ranked(S, score)
<1>1. /\ N \in Nat
      /\ \A a \in S : PlaceOf(S, score, a) \in 0..N - 1
      /\ \A a, b \in S : PlaceOf(S, score, a) = PlaceOf(S, score, b) => a = b
      /\ \A n \in 1..N : \E a \in S : PlaceOf(S, score, a) = n - 1
  BY PlacesFill
<1>2. ASSUME NEW i \in 1..N PROVE r[i] \in S /\ PlaceOf(S, score, r[i]) = i - 1
  <2>1. r[i] = CHOOSE a \in S : PlaceOf(S, score, a) = i - 1
    BY DEF Ranked, PlaceOf, Ahead
  <2> HIDE DEF r, N
  <2> QED BY <1>1, <2>1
<1>3. Len(r) = N /\ r \in Seq(S)
  <2> DEFINE Choice(i) == CHOOSE a \in S : PlaceOf(S, score, a) = i - 1
  <2>0. r = [i \in 1..N |-> Choice(i)]
    BY DEF Ranked, PlaceOf, Ahead
  <2> HIDE DEF Choice
  <2>1. DOMAIN r = 1..N /\ r = [i \in 1..N |-> r[i]]
    <3> HIDE DEF r, N
    <3> QED BY <2>0
  <2> HIDE DEF r, N
  <2>2. r \in [1..N -> S]
    BY <1>2, <2>1
  <2>3. r \in Seq(S)
    BY <1>1, <2>2
  <2>4. Len(r) \in Nat /\ DOMAIN r = 1..Len(r)
    BY <2>3, LenProperties
  <2> QED BY <1>1, <2>1, <2>3, <2>4
<1>4. ASSUME NEW i \in 1..N, NEW j \in 1..N, i < j PROVE Before(score, r[i], r[j])
  <2> DEFINE a == r[i]  b == r[j]
  <2>1. a \in S /\ b \in S /\ PlaceOf(S, score, a) = i - 1 /\ PlaceOf(S, score, b) = j - 1 /\ i \in Nat /\ j \in Nat
    <3>1. i \in Nat /\ j \in Nat
      BY <1>1
    <3> QED BY <1>2, <3>1
  <2> HIDE DEF a, b, r, N
  <2>2. a # b
    BY <1>4, <2>1
  <2>3. ASSUME Before(score, b, a) PROVE FALSE
    <3>1. PlaceOf(S, score, b) < PlaceOf(S, score, a)
      BY <2>1, <2>3, PlaceLess
    <3> QED BY <1>4, <2>1, <3>1
  <2>4. Before(score, a, b)
    BY <2>1, <2>2, <2>3, BeforeOrders
  <2> QED BY <2>4 DEF a, b
<1>5. ASSUME NEW a \in S PROVE \E i \in 1..N : r[i] = a
  <2> DEFINE i == PlaceOf(S, score, a) + 1
  <2>1. i \in 1..N /\ i - 1 = PlaceOf(S, score, a)
    <3>1. PlaceOf(S, score, a) \in 0..N - 1
      BY <1>1
    <3> HIDE DEF N
    <3> QED BY <1>1, <3>1
  <2> HIDE DEF i, r, N
  <2>2. r[i] \in S /\ PlaceOf(S, score, r[i]) = PlaceOf(S, score, a)
    BY <1>2, <2>1
  <2> QED BY <1>1, <2>1, <2>2
<1> QED BY <1>1, <1>2, <1>3, <1>4, <1>5

(* Whoever a pool leaves out scores less than all that are in.                             *)
FairPool(S, score, pool) == pool \subseteq S /\ \A a \in pool, b \in S \ pool : score[b] < score[a]

LEMMA PoolFair ==
  ASSUME MaxCandidates \in Nat \ {0}, NEW S, NEW score, Scored(S, score)
  PROVE  FairPool(S, score, BoundedPool(S, score))
<1> DEFINE r == Ranked(S, score)  N == Cardinality(S)  M == MaxCandidates  most == Min({N, M})
<1>1. /\ N \in Nat /\ Len(r) = N /\ r \in Seq(S)
      /\ \A i \in 1..N : r[i] \in S
      /\ \A i, j \in 1..N : i < j => Before(score, r[i], r[j])
      /\ \A a \in S : \E i \in 1..N : r[i] = a
  BY RankedIs
<1>2. BoundedPool(S, score) = IF N > M /\ score[r[M]] = score[r[M + 1]] THEN {} ELSE Range(SubSeq(r, 1, most))
  BY <1>1 DEF BoundedPool
<1> HIDE DEF r, N
<1>3. most = IF N <= M THEN N ELSE M
  <2> DEFINE least == IF N <= M THEN N ELSE M
  <2>1. least \in {N, M} /\ \A y \in {N, M} : least <= y
    BY <1>1
  <2>2. \A x \in {N, M} : (\A y \in {N, M} : x <= y) => x = least
    BY <1>1
  <2> HIDE DEF least
  <2>3. most = least
    BY <2>1, <2>2 DEF Min
  <2> QED BY <2>3 DEF least
<1> HIDE DEF most
<1>4. Range(SubSeq(r, 1, most)) = {r[i] : i \in 1..most}
  <2>1. most \in 0..N
    BY <1>1, <1>3
  <2>2. \A i \in 1..most : r[i] \in S
    BY <1>1, <2>1
  <2> DEFINE t == SubSeq(r, 1, most)
  <2>3. t \in Seq(S) /\ Len(t) = most /\ \A i \in 1..most : t[i] = r[i]
    BY <1>1, <2>1, <2>2, SubSeqProperties
  <2> HIDE DEF t
  <2>4. DOMAIN t = 1..most
    BY <2>3
  <2> QED BY <2>3, <2>4 DEF Range, t
<1>5. CASE N > M /\ score[r[M]] = score[r[M + 1]]
  BY <1>2, <1>5 DEF FairPool
<1>6. CASE ~(N > M /\ score[r[M]] = score[r[M + 1]])
  <2> DEFINE pool == {r[i] : i \in 1..most}
  <2>1. BoundedPool(S, score) = pool
    BY <1>2, <1>4, <1>6
  <2>2. pool \subseteq S
    BY <1>1, <1>3
  <2>3. ASSUME NEW a \in pool, NEW b \in S \ pool PROVE score[b] < score[a]
    <3>1. PICK i \in 1..most : r[i] = a
      OBVIOUS
    <3>2. PICK j \in 1..N : r[j] = b
      BY <1>1
    <3>3. j \notin 1..most
      BY <2>3, <3>2
    <3>4. N > M /\ most = M /\ i \in 1..M /\ j \in M + 1..N
      BY <1>1, <1>3, <3>1, <3>2, <3>3
    <3>5. M \in 1..N /\ M + 1 \in 1..N /\ M < M + 1
      BY <1>1, <3>4
    <3> DEFINE s == [k \in 1..N |-> score[r[k]]]
    <3>6. \A k \in 1..N : s[k] \in Nat
      BY <1>1 DEF Scored
    <3>7. \A k, l \in 1..N : k < l => s[k] >= s[l]
      <4> SUFFICES ASSUME NEW k \in 1..N, NEW l \in 1..N, k < l PROVE s[k] >= s[l]
        OBVIOUS
      <4>1. Before(score, r[k], r[l])
        BY <1>1
      <4>2. s[k] > s[l] \/ s[k] = s[l]
        BY <4>1 DEF Before
      <4> HIDE DEF s
      <4> QED BY <3>6, <4>2
    <3>8. s[M] # s[M + 1] /\ s[i] = score[a] /\ s[j] = score[b]
      <4>1. \A k \in 1..N : s[k] = score[r[k]]
        OBVIOUS
      <4>2. score[r[M]] # score[r[M + 1]]
        BY <1>6, <3>4
      <4>3. i \in 1..N
        BY <1>1, <3>4
      <4> HIDE DEF s
      <4> QED BY <3>1, <3>2, <3>5, <4>1, <4>2, <4>3
    <3> HIDE DEF s, pool
    <3>9. i \in 1..N /\ (i < M \/ i = M) /\ (M + 1 < j \/ M + 1 = j)
      BY <1>1, <3>4
    <3>10. s[i] >= s[M] /\ s[M] >= s[M + 1] /\ s[M + 1] >= s[j]
      BY <3>5, <3>6, <3>7, <3>9
    <3>11. s[i] \in Nat /\ s[j] \in Nat /\ s[M] \in Nat /\ s[M + 1] \in Nat
      BY <3>5, <3>6, <3>9
    <3>12. s[j] < s[i]
      BY <3>8, <3>10, <3>11
    <3> QED BY <3>8, <3>12
  <2> HIDE DEF pool
  <2> QED BY <2>1, <2>2, <2>3 DEF FairPool
<1> QED BY <1>5, <1>6

(* A set, read in its order, is itself.                                                    *)
LEMMA InOrderHolds ==
  ASSUME NEW S, S \subseteq Nat, IsFiniteSet(S)
  PROVE  /\ InOrder(S) \in Seq(S) /\ {InOrder(S)[i] : i \in 1..Len(InOrder(S))} = S
<1> DEFINE score == [a \in S |-> 0]
<1>1. Scored(S, score)
  BY DEF Scored
<1> HIDE DEF score
<1>2. LET r == Ranked(S, score)
      IN /\ Cardinality(S) \in Nat /\ Len(r) = Cardinality(S) /\ r \in Seq(S)
         /\ \A i \in 1..Cardinality(S) : r[i] \in S
         /\ \A a \in S : \E i \in 1..Cardinality(S) : r[i] = a
  BY <1>1, RankedIs
<1>3. InOrder(S) = Ranked(S, score)
  BY DEF InOrder, score
<1> QED BY <1>2, <1>3

-----------------------------------------------------------------------------
(* What a text scores.                                                                     *)
LEMMA GreatestOf ==
  ASSUME NEW m \in Nat, NEW S, S \subseteq 0..m, S # {}
  PROVE  Max(S) \in S
<1> DEFINE T == {m - x : x \in S}
<1>1. T \subseteq Nat /\ T # {}
  <2>1. \A x \in S : x \in 0..m
    OBVIOUS
  <2>2. \A x \in 0..m : m - x \in Nat
    OBVIOUS
  <2>3. PICK x : x \in S
    OBVIOUS
  <2>4. m - x \in T
    BY <2>3
  <2> QED BY <2>1, <2>2, <2>4
<1>2. PICK t \in T : \A y \in T : t <= y
  BY <1>1, Least
<1>3. PICK x \in S : t = m - x
  OBVIOUS
<1>4. \A y \in S : x >= y
  <2> SUFFICES ASSUME NEW y \in S PROVE x >= y
    OBVIOUS
  <2>1. m - x <= m - y
    BY <1>2, <1>3
  <2> QED BY <2>1
<1> QED BY <1>3, <1>4 DEF Max

LEMMA TokensFinite ==
  ASSUME NEW text, IsText(text)
  PROVE  IsFiniteSet(Tokens({text}))
<1> DEFINE folded == [i \in DOMAIN text |-> FoldOf[text[i]]]
           W == {FoldOf[text[i]] : i \in DOMAIN text}
           s == SearchText(text)
<1>1. folded \in Seq(W)
  <2>1. DOMAIN text = 1..Len(text) /\ Len(text) \in Nat
    BY DEF IsText
  <2> QED BY <2>1
<1>2. s \in Seq(W)
  <2> DEFINE I == {i \in DOMAIN folded : folded[i] # Nothing}
  <2>1. s = Picked(folded, I)
    BY DEF SearchText, Select
  <2> HIDE DEF folded, W, s, I
  <2> QED BY <1>1, <2>1, PickedAre
<1> HIDE DEF folded, W, s
<1>3. Len(s) \in Nat /\ DOMAIN s = 1..Len(s)
  BY <1>2
<1>4. IsFiniteSet(1..Len(s))
  <2> DEFINE n == Len(s)
  <2>1. n \in Int
    BY <1>3
  <2> HIDE DEF n
  <2>2. IsFiniteSet(1..n)
    BY <2>1, FS_Interval
  <2> QED BY <2>2 DEF n
<1>5. [k \in 1..Len(s) |-> s[k]] \in Surjection(1..Len(s), Range(s))
  BY <1>3 DEF Surjection, Range
<1>6. IsFiniteSet(Range(s))
  BY <1>4, <1>5, FS_Surjection
<1>7. Tokens({text}) \subseteq Range(s)
  BY DEF Tokens, s
<1> QED BY <1>6, <1>7, FS_Subset

LEMMA OverlapIs ==
  ASSUME NEW text, IsText(text), NEW T
  PROVE  Cardinality(Tokens({text}) \cap T) \in Nat
<1>1. IsFiniteSet(Tokens({text}) \cap T)
  BY TokensFinite, FS_Intersection
<1> QED BY <1>1, FS_CardinalityType

LEMMA ScoreIs ==
  ASSUME NEW text, IsText(text), NEW a
  PROVE  Score(text, a) \in Nat
<1> DEFINE search == SearchText(text)
           Names(texts) == \E t \in texts : ContainsPhrase(search, t)
           overlap == Cardinality(Tokens({text}) \cap Tokens(Fields(a)))
           S == {0} \cup (IF Names({About[a].id, About[a].name}) THEN {100} ELSE {})
             \cup (IF Names(About[a].integrations) THEN {90} ELSE {})
             \cup (IF Names(About[a].actions) THEN {70} ELSE {})
             \cup (IF overlap >= 2 THEN {overlap * 20} ELSE {})
           m == 100 + overlap * 20
<1>1. overlap \in Nat
  BY OverlapIs
<1>2. Score(text, a) = Max(S)
  BY DEF Score
<1> HIDE DEF Names, overlap
<1>3. m \in Nat /\ S \subseteq 0..m /\ S # {} /\ S \subseteq Nat
  BY <1>1
<1> HIDE DEF S, m
<1>4. Max(S) \in S
  BY <1>3, GreatestOf
<1> QED BY <1>2, <1>3, <1>4

LEMMA IdentityIs ==
  ASSUME NEW text, IsText(text), NEW id, NEW name
  PROVE  IdentityScore(text, id, name) \in Nat
<1> DEFINE overlap == Cardinality(Tokens({text}) \cap Tokens({id, name}))
           S == {overlap, 4}
<1>1. overlap \in Nat
  BY OverlapIs
<1>2. IdentityScore(text, id, name) \in {100, 0, 60 + Min(S) * 5}
  BY DEF IdentityScore
<1> HIDE DEF overlap
<1>3. S \subseteq Nat /\ S # {}
  BY <1>1
<1> HIDE DEF S
<1>4. PICK x \in S : \A y \in S : x <= y
  BY <1>3, Least
<1>5. Min(S) \in Nat
  BY <1>3, <1>4 DEF Min
<1> QED BY <1>2, <1>5

LEMMA StrongerIs ==
  ASSUME NEW a \in Nat, NEW b \in Nat
  PROVE  Max({a, b}) \in Nat
<1>1. {a, b} \subseteq 0..a + b /\ {a, b} # {} /\ a + b \in Nat
  OBVIOUS
<1> DEFINE S == {a, b}  m == a + b
<1>2. S \subseteq 0..m /\ S # {} /\ m \in Nat
  BY <1>1
<1> HIDE DEF S, m
<1>3. Max(S) \in S
  BY <1>2, GreatestOf
<1> QED BY <1>2, <1>3 DEF S

-----------------------------------------------------------------------------
(* What every state of a run's Assistants satisfies.                                       *)
OffersHere == PlanningCatalog(Staged, Published)
TextScores(text) == [a \in Assistant |-> Score(text, a)]
InstallScores(query) == [a \in Assistant |-> Max({IdentityScore(query, About[a].id, About[a].name), Score(query, a)})]
UninstallScores(query, refused) ==
  [a \in Assistant |-> IdentityScore(query, About[a].id, IF a \in refused THEN About[a].id ELSE About[a].name)]

(* The shapes the steps leave alone.                                                       *)
TurnWhole == DOMAIN turn = DOMAIN NewTurn /\ IsText(turn.text) /\ IsText(turn.query)
SpecWhole == DOMAIN spec = DOMAIN NewSpec
ConnWhole ==
  /\ DOMAIN conn = DOMAIN NewConn /\ DOMAIN conn.proposal = DOMAIN NoProposal
  /\ DOMAIN used = {"messages", "others", "faults"} /\ used.messages \in Nat
  /\ turn.no \in Nat /\ conn.hid \in Nat /\ conn.opOf.no \in Nat

(* A speculation is of the message that is classified, or waits for it.                    *)
SpecOfTurn ==
  /\ spec # NewSpec => turn.at \in {"classify", "wait"}
  /\ spec.at = "none" => spec = NewSpec

(* The directories are fair to the text they were drawn up for.                            *)
Fairly ==
  /\ spec.at = "planning" /\ spec.gap = "some" =>
       FairPool(OffersHere \ InstalledIn(spec.inv), TextScores(turn.text), spec.shortlist)
  /\ turn.at = "select" => FairPool(OffersHere, InstallScores(turn.query), turn.dir)
  /\ turn.at = "selectOne" =>
       FairPool(InstalledIn(turn.inv), UninstallScores(turn.query, RefusedIn(turn.inv, turn.reg)), turn.dir)

(* A plan installs what its scope has beyond the message's, but for what ran.              *)
PlanInstalls(plan, scope, since) ==
  /\ plan.ids \in Seq(Assistant)
  /\ plan.scope \ scope \subseteq since \cup {plan.ids[i] : i \in 1..Len(plan.ids)}

Planned ==
  /\ spec.prep.kind \in {"none", "error", "plan", "fault"}
  /\ spec.prep.kind = "plan" => PlanInstalls(spec.prep.plan, turn.scope, {})
  /\ turn.prep.kind \in {"none", "error", "already", "plan"} /\ (~Active => turn.prep.kind = "none")
  /\ turn.prep.kind = "plan" => PlanInstalls(turn.prep.plan, turn.scope, ran)
  /\ turn.prep.kind = "already" =>
       turn.prep.plan.named \subseteq ran /\ turn.prep.plan.scope \ turn.scope \subseteq ran

RanSince ==
  /\ Active => RunningIn(inv) \subseteq ran
  /\ turn.at = "select" => RunningIn(turn.inv) \subseteq ran

(* What was installed so far, and proved to run.                                           *)
Installing == {"planning", "between", "install", "prove"}
Outcomes == {"commit", "finish", "continue", "chat"}
InstalledSoFar ==
  /\ turn.done \in Nat
  /\ turn.at \notin Installing \cup Outcomes => turn.done = 0 /\ turn.out = {}
  /\ turn.at \in Installing =>
       /\ turn.prep.kind = "plan" /\ turn.done <= Len(turn.prep.plan.ids)
       /\ turn.out = {turn.prep.plan.ids[i] : i \in 1..turn.done} /\ turn.out \subseteq ran
  /\ turn.at \in {"install", "prove"} => turn.done < Len(turn.prep.plan.ids)
  /\ turn.at \in {"commit", "finish"} /\ turn.end = "installed" => turn.out \subseteq ran
  /\ turn.at = "commit" =>
       /\ turn.end \in {"installed", "failed", "halted"}
       /\ turn.end = "installed" => turn.prep.plan.scope \ turn.scope \subseteq ran
  /\ turn.at \in {"continue", "chat"} => turn.out \ turn.scope \subseteq ran

(* A number has one ending: its turn's, or that of the proposal the turn made.             *)
NotEnded(no) == \A s \in shown : s[1] = no => s[2].kind \notin Endings
Numbered ==
  /\ \A s \in shown : s[1] \in 0..used.messages
  /\ Active => /\ turn.no <= used.messages /\ NotEnded(turn.no)
               /\ conn.proposal = NoProposal /\ conn.op = "none"
  /\ turn.sent \/ turn.stopping => turn.stop
  /\ conn.proposal # NoProposal =>
       /\ conn.op = "none" /\ conn.hid <= used.messages /\ NotEnded(conn.hid)
       /\ <<conn.hid, Event("proposed", {conn.proposal.id})>> \in shown
  /\ conn.op # "none" => conn.opOf.no <= used.messages /\ NotEnded(conn.opOf.no)
  /\ conn.op = "deliver" => conn.result \in {"uninstalled", "failed"}

(* What a message ends with is kept before it is shown.                                    *)
EndsKept ==
  /\ turn.at = "finish" => turn.end \in {"error", "guidance", "stopped", "done", "installed", "failed", "halted"}
  /\ turn.at = "finish" /\ turn.end \in {"guidance", "installed", "failed", "halted"} =>
       <<turn.no, Event(turn.end, turn.out)>> \in rows

AssistantsInv ==
  /\ TurnWhole /\ SpecWhole /\ ConnWhole /\ SpecOfTurn /\ Fairly /\ Planned /\ RanSince
  /\ InstalledSoFar /\ Numbered /\ EndsKept /\ ShownIsKept /\ ProposalEndsOnce

-----------------------------------------------------------------------------
(* What a step leaves of the turn.                                                         *)
TurnFields == {"at", "no", "text", "scope", "files", "resume", "stop", "sent", "inv", "reg", "offers", "dir",
               "query", "follows", "pick", "version", "prep", "op", "done", "halt", "stopping", "end", "out"}
Alters(t, fields) == DOMAIN t = TurnFields /\ \A f \in TurnFields \ fields : t[f] = turn[f]
ReadFields == {"text", "files", "resume", "inv", "reg", "offers", "dir", "query", "follows"}

LEMMA NewTurnFields == DOMAIN NewTurn = TurnFields
BY DEF NewTurn, TurnFields

LEMMA TurnAtIs ==
  ASSUME TurnWhole, NEW place
  PROVE  Alters(TurnAt(place), {"at"}) /\ TurnAt(place).at = place
<1>1. DOMAIN turn = TurnFields
  BY NewTurnFields DEF TurnWhole
<1>2. "at" \in TurnFields
  BY DEF TurnFields
<1> QED BY <1>1, <1>2 DEF TurnAt, Alters

LEMMA NoText == IsText(<<>>)
BY DEF IsText

LEMMA RouteOverIs ==
  ASSUME TurnWhole, NEW place
  PROVE  /\ Alters(RouteOver(place), {"at"} \cup ReadFields)
         /\ RouteOver(place).at = place /\ IsText(RouteOver(place).text) /\ IsText(RouteOver(place).query)
<1>1. DOMAIN turn = TurnFields
  BY NewTurnFields DEF TurnWhole
<1> DEFINE t == RouteOver(place)
<1>2. DOMAIN t = TurnFields /\ t.at = place /\ t.text = <<>> /\ t.query = <<>>
  BY <1>1 DEF RouteOver, TurnFields
<1>3. \A f \in TurnFields \ ({"at"} \cup ReadFields) : t[f] = turn[f]
  BY <1>1 DEF RouteOver, ReadFields
<1> QED BY <1>2, <1>3, NoText DEF Alters

LEMMA EndsAsIs ==
  ASSUME TurnWhole, NEW end, EndsAs(end)
  PROVE  Alters(turn', {"at", "end"}) /\ turn'.at = "finish" /\ turn'.end = end
<1> DEFINE t == TurnAt("finish")
<1>1. Alters(t, {"at"}) /\ t.at = "finish"
  BY TurnAtIs
<1>2. turn' = [t EXCEPT !.end = end]
  BY DEF EndsAs, TurnIs
<1> HIDE DEF t
<1> QED BY <1>1, <1>2 DEF Alters, TurnFields

LEMMA ReleaseIs ==
  ASSUME ReleaseTurn
  PROVE  /\ DOMAIN turn' = TurnFields /\ turn'.at = "gone" /\ IsText(turn'.text) /\ IsText(turn'.query)
         /\ turn'.no = 0 /\ ~turn'.stop /\ ~turn'.sent /\ ~turn'.stopping /\ turn'.scope = {}
         /\ turn'.prep = Prepared("none") /\ turn'.done = 0 /\ turn'.out = {}
         /\ TurnWhole'
<1>1. turn' = [NewTurn EXCEPT !.at = "gone"]
  BY DEF ReleaseTurn, TurnIs
<1>2. /\ DOMAIN turn' = TurnFields /\ turn'.at = "gone" /\ turn'.text = <<>> /\ turn'.query = <<>>
      /\ turn'.no = 0 /\ ~turn'.stop /\ ~turn'.sent /\ ~turn'.stopping /\ turn'.scope = {}
      /\ turn'.prep = Prepared("none") /\ turn'.done = 0 /\ turn'.out = {}
  BY <1>1 DEF NewTurn, TurnFields
<1> QED BY <1>2, NewTurnFields, NoText DEF TurnWhole

(* The ghost grows with a turn and begins with it.                                         *)
LEMMA RanGrows ==
  ASSUME Ran
  PROVE  /\ Active /\ Active' => ran \subseteq ran' /\ RunningIn(inv') \subseteq ran'
         /\ ~Active /\ Active' => ran' = RunningIn(inv)
BY DEF Ran

SameUsed == DOMAIN used' = {"messages", "others", "faults"} /\ used'.messages = used.messages
SameConn ==
  /\ DOMAIN conn' = DOMAIN NewConn /\ conn'.proposal = conn.proposal /\ conn'.op = conn.op
  /\ conn'.opOf = conn.opOf /\ conn'.result = conn.result /\ conn'.hid = conn.hid

LEMMA FaultIs ==
  ASSUME ConnWhole, Fault \/ UNCHANGED used
  PROVE  SameUsed
BY DEF ConnWhole, Fault, SameUsed

LEMMA ReferenceIs ==
  ASSUME ConnWhole, NEW r, conn' = [conn EXCEPT !.reference = r] \/ UNCHANGED conn
  PROVE  SameConn
BY DEF ConnWhole, NewConn, SameConn

(* A step that shows nothing, and leaves the turn its number or ends it.                   *)
LEMMA NumbersStay ==
  ASSUME AssistantsInv, SameUsed, SameConn, UNCHANGED shown, rows \subseteq rows', turn'.no \in Nat,
         Active' => Active /\ turn'.no = turn.no, turn'.sent \/ turn'.stopping => turn'.stop
  PROVE  ConnWhole' /\ Numbered' /\ ShownIsKept' /\ ProposalEndsOnce'
<1>1. ConnWhole'
  BY DEF AssistantsInv, ConnWhole, SameUsed, SameConn
<1>2. Numbered'
  BY DEF AssistantsInv, Numbered, NotEnded, SameUsed, SameConn, Event
<1>3. ShownIsKept'
  BY DEF AssistantsInv, ShownIsKept
<1>4. ProposalEndsOnce'
  BY DEF AssistantsInv, ProposalEndsOnce, Event
<1> QED BY <1>1, <1>2, <1>3, <1>4

(* No speculation.                                                                         *)
LEMMA NoSpec ==
  ASSUME spec' = NewSpec, turn'.at \notin {"select", "selectOne"}
  PROVE  SpecWhole' /\ SpecOfTurn' /\ Fairly' /\ spec'.prep.kind = "none"
BY DEF NewSpec, SpecWhole, SpecOfTurn, Fairly, Prepared

LEMMA PlansStay ==
  ASSUME Planned, Ran, spec'.prep.kind = "none" \/ (spec'.prep = spec.prep /\ turn'.scope = turn.scope),
         turn'.prep.kind = "none" \/ (turn'.prep.kind = "error" /\ Active')
         \/ (turn'.prep = turn.prep /\ turn'.scope = turn.scope /\ Active /\ Active')
  PROVE  Planned'
<1>1. spec'.prep.kind \in {"none", "error", "plan", "fault"} /\ (spec'.prep.kind = "plan" => PlanInstalls(spec'.prep.plan, turn'.scope, {}))
  BY DEF Planned
<1>2. CASE turn'.prep.kind = "none" \/ (turn'.prep.kind = "error" /\ Active')
  BY <1>1, <1>2 DEF Planned
<1>3. CASE turn'.prep = turn.prep /\ turn'.scope = turn.scope /\ Active /\ Active'
  <2>1. ran \subseteq ran'
    BY <1>3, RanGrows
  <2> QED BY <1>1, <1>3, <2>1 DEF Planned, PlanInstalls
<1> QED BY <1>2, <1>3

LEMMA RanStays ==
  ASSUME RanSince, Ran, Active \/ ~Active' \/ UNCHANGED inv,
         turn'.at = "select" => turn.at = "select" /\ turn'.inv = turn.inv
  PROVE  RanSince'
<1>1. turn'.at = "select" => Active /\ Active'
  BY DEF Active
<1>2. Active' => RunningIn(inv') \subseteq ran'
  BY RanGrows
<1>3. turn'.at = "select" => RunningIn(turn'.inv) \subseteq ran'
  BY <1>1, RanGrows DEF RanSince
<1> QED BY <1>2, <1>3 DEF RanSince

(* A step of the turn's delivery: it shows nothing yet.                                    *)
Moving == {"at", "end", "out", "done", "op", "halt", "stop"} \cup ReadFields
LEMMA Delivers ==
  ASSUME AssistantsInv, Ran, Active, turn.at \notin {"classify", "wait"}, UNCHANGED spec,
         turn'.at \notin {"select", "selectOne"},
         Alters(turn', Moving), IsText(turn'.text), IsText(turn'.query),
         SameUsed, SameConn, UNCHANGED shown, rows \subseteq rows', turn'.stop \/ turn'.stop = turn.stop
  PROVE  /\ TurnWhole' /\ SpecWhole' /\ ConnWhole' /\ SpecOfTurn' /\ Fairly' /\ (Active' => Planned') /\ RanSince'
         /\ Numbered' /\ ShownIsKept' /\ ProposalEndsOnce'
<1>1. TurnWhole'
  BY NewTurnFields DEF Alters, TurnWhole
<1>2. /\ turn'.no = turn.no /\ turn'.scope = turn.scope /\ turn'.prep = turn.prep
      /\ turn'.sent = turn.sent /\ turn'.stopping = turn.stopping
  BY DEF Alters, Moving, ReadFields, TurnFields
<1>3. spec = NewSpec
  BY DEF AssistantsInv, SpecOfTurn
<1>4. SpecWhole' /\ SpecOfTurn' /\ Fairly' /\ spec'.prep.kind = "none"
  BY <1>3, NoSpec
<1>5. Active' => Planned'
  BY <1>2, <1>4, PlansStay DEF AssistantsInv
<1>6. RanSince'
  BY RanStays DEF AssistantsInv
<1>7. turn'.sent \/ turn'.stopping => turn'.stop
  BY <1>2 DEF AssistantsInv, Numbered
<1>8. turn'.no \in Nat
  BY <1>2 DEF AssistantsInv, ConnWhole
<1>9. ConnWhole' /\ Numbered' /\ ShownIsKept' /\ ProposalEndsOnce'
  BY <1>2, <1>7, <1>8, NumbersStay
<1> QED BY <1>1, <1>4, <1>5, <1>6, <1>9

(* The turn is over.                                                                       *)
LEMMA Releases ==
  ASSUME AssistantsInv, Ran, ReleaseTurn, spec' = NewSpec
  PROVE  /\ TurnWhole' /\ SpecWhole' /\ SpecOfTurn' /\ Fairly' /\ Planned' /\ RanSince'
         /\ InstalledSoFar' /\ EndsKept' /\ ~Active'
<1>1. turn'.at = "gone" /\ turn'.prep.kind = "none" /\ turn'.done = 0 /\ turn'.out = {} /\ TurnWhole'
  BY ReleaseIs DEF Prepared
<1>2. SpecWhole' /\ SpecOfTurn' /\ Fairly' /\ spec'.prep.kind = "none"
  BY <1>1, NoSpec
<1>3. ~Active'
  BY <1>1 DEF Active
<1>4. Planned'
  BY <1>1, <1>2, PlansStay DEF AssistantsInv
<1>5. RanSince'
  BY <1>1, <1>3, RanStays DEF AssistantsInv
<1>6. InstalledSoFar' /\ EndsKept'
  BY <1>1 DEF InstalledSoFar, EndsKept, Installing, Outcomes
<1> QED BY <1>1, <1>2, <1>3, <1>4, <1>5, <1>6

(* An event is shown under a number that has no ending.                                    *)
Noted == Endings \cup {"installed", "halted", "guidance"}
LEMMA Shows ==
  ASSUME ShownIsKept, ProposalEndsOnce, NEW no, NEW e, NotEnded(no), rows \subseteq rows',
         shown' \in {shown, shown \cup {<<no, e>>}},
         e.kind \in Noted => <<no, e>> \in rows',
         e.kind \in {"expired", "cancelled"} => <<no, Event("proposed", e.ids)>> \in shown
  PROVE  /\ ShownIsKept' /\ ProposalEndsOnce' /\ shown \subseteq shown'
         /\ \A m : m # no /\ NotEnded(m) => NotEnded(m)'
         /\ e.kind \notin Endings => NotEnded(no)'
         /\ \A s \in shown' : s \in shown \/ s[1] = no
<1>1. \A s \in shown' : s \in shown \/ (s = <<no, e>> /\ s[1] = no /\ s[2] = e)
  OBVIOUS
<1>2. shown \subseteq shown'
  OBVIOUS
<1>3. ShownIsKept'
  BY <1>1 DEF ShownIsKept, Noted
<1>4. ProposalEndsOnce'
  <2> SUFFICES ASSUME NEW s \in shown', NEW t \in shown'
               PROVE  /\ s[2].kind \in Endings /\ s[2].ids # {} /\ s[1] = t[1] /\ t[2].kind \in Endings => s = t
                      /\ s[2].kind \in {"expired", "cancelled"} => <<s[1], Event("proposed", s[2].ids)>> \in shown'
    BY DEF ProposalEndsOnce, Event
  <2>1. s[2].kind \in {"expired", "cancelled"} => <<s[1], Event("proposed", s[2].ids)>> \in shown'
    BY <1>1, <1>2 DEF ProposalEndsOnce
  <2>2. ASSUME s[2].kind \in Endings, s[2].ids # {}, s[1] = t[1], t[2].kind \in Endings PROVE s = t
    <3>1. CASE s \in shown /\ t \in shown
      BY <2>2, <3>1 DEF ProposalEndsOnce
    <3>2. CASE s \notin shown \/ t \notin shown
      <4>1. s[1] = no /\ t[1] = no
        BY <1>1, <2>2, <3>2
      <4>2. s \notin shown /\ t \notin shown
        BY <2>2, <4>1 DEF NotEnded
      <4> QED BY <1>1, <4>2
    <3> QED BY <3>1, <3>2
  <2> QED BY <2>1, <2>2
<1>5. \A m : m # no /\ NotEnded(m) => NotEnded(m)'
  BY <1>1 DEF NotEnded
<1>6. e.kind \notin Endings => NotEnded(no)'
  BY <1>1 DEF NotEnded
<1> QED BY <1>1, <1>2, <1>3, <1>4, <1>5, <1>6

-----------------------------------------------------------------------------
(* The steps of its delivery.                                                              *)
LEMMA FinishHolds ==
  ASSUME AssistantsInv, Ran, FinishTurn
  PROVE  AssistantsInv'
<1>1. /\ turn.at = "finish" /\ Active /\ ReleaseTurn /\ UNCHANGED <<inv, spec, conn, rows, used>>
      /\ spec = NewSpec
  BY DEF FinishTurn, AssistantsInv, SpecOfTurn, Active
<1>2. /\ TurnWhole' /\ SpecWhole' /\ SpecOfTurn' /\ Fairly' /\ Planned' /\ RanSince'
      /\ InstalledSoFar' /\ EndsKept' /\ ~Active'
  BY <1>1, Releases
<1> DEFINE e == Event(turn.end, turn.out)
<1>3. e.kind = turn.end /\ shown' \in {shown, shown \cup {<<turn.no, e>>}}
  BY DEF FinishTurn, Terminal, ShowEvent, Event
<1>4. e.kind \in Noted => <<turn.no, e>> \in rows'
  BY <1>1, <1>3 DEF AssistantsInv, EndsKept, Noted, Endings
<1>5. e.kind \notin {"expired", "cancelled"}
  BY <1>1, <1>3 DEF AssistantsInv, EndsKept
<1> HIDE DEF e
<1>6. NotEnded(turn.no) /\ turn.no \in 0..used.messages
  BY <1>1 DEF AssistantsInv, Numbered, ConnWhole
<1>7. ShownIsKept' /\ ProposalEndsOnce' /\ \A s \in shown' : s \in shown \/ s[1] = turn.no
  BY <1>1, <1>3, <1>4, <1>5, <1>6, Shows DEF AssistantsInv
<1>8. conn'.proposal = NoProposal /\ conn'.op = "none" /\ ~turn'.stop /\ ~turn'.sent /\ ~turn'.stopping /\ turn'.no = 0
  BY <1>1, ReleaseIs DEF AssistantsInv, Numbered
<1>9. Numbered' /\ ConnWhole'
  BY <1>1, <1>2, <1>6, <1>7, <1>8 DEF AssistantsInv, Numbered, ConnWhole
<1> QED BY <1>2, <1>7, <1>9 DEF AssistantsInv

LEMMA GuidanceHolds ==
  ASSUME AssistantsInv, Ran, DeliverGuidance
  PROVE  AssistantsInv'
<1>1. turn.at = "guide" /\ Active /\ UNCHANGED <<inv, spec, shown>> /\ rows \subseteq rows'
  BY DEF DeliverGuidance, Active, KeepRow
<1>2. SameUsed /\ SameConn
  BY FaultIs, ReferenceIs DEF AssistantsInv, DeliverGuidance
<1>3. PICK end \in {"stopped", "guidance", "error"} :
        EndsAs(end) /\ (end = "guidance" => <<turn.no, Event("guidance", {})>> \in rows')
  BY DEF DeliverGuidance, KeepRow
<1>4. Alters(turn', {"at", "end"}) /\ turn'.at = "finish" /\ turn'.end = end
  BY <1>3, EndsAsIs DEF AssistantsInv
<1>5. /\ Alters(turn', Moving) /\ IsText(turn'.text) /\ IsText(turn'.query) /\ turn'.stop = turn.stop
      /\ turn'.no = turn.no /\ turn'.out = {} /\ turn'.done = 0
  BY <1>1, <1>4 DEF Alters, Moving, TurnFields, AssistantsInv, TurnWhole, InstalledSoFar, Installing, Outcomes
<1>6. /\ TurnWhole' /\ SpecWhole' /\ ConnWhole' /\ SpecOfTurn' /\ Fairly' /\ (Active' => Planned') /\ RanSince'
      /\ Numbered' /\ ShownIsKept' /\ ProposalEndsOnce'
  BY <1>1, <1>2, <1>4, <1>5, Delivers
<1>7. InstalledSoFar' /\ EndsKept'
  BY <1>3, <1>4, <1>5 DEF InstalledSoFar, EndsKept, Installing, Outcomes
<1> QED BY <1>4, <1>6, <1>7 DEF AssistantsInv, Active

LEMMA ProposeHolds ==
  ASSUME AssistantsInv, Ran, Propose
  PROVE  AssistantsInv'
<1>1. turn.at = "propose" /\ Active /\ UNCHANGED <<inv, spec, rows, used>> /\ spec = NewSpec
  BY DEF Propose, Active, AssistantsInv, SpecOfTurn
<1>2. CASE conn.closed \/ turn.stop
  <2>1. EndsAs("stopped") /\ UNCHANGED <<conn, shown>>
    BY <1>2 DEF Propose
  <2>2. SameUsed /\ SameConn
    BY <1>1, <2>1, FaultIs, ReferenceIs DEF AssistantsInv
  <2>3. Alters(turn', {"at", "end"}) /\ turn'.at = "finish" /\ turn'.end = "stopped"
    BY <2>1, EndsAsIs DEF AssistantsInv
  <2>4. Alters(turn', Moving) /\ IsText(turn'.text) /\ IsText(turn'.query) /\ turn'.stop = turn.stop /\ turn'.done = turn.done
    BY <2>3 DEF Alters, Moving, TurnFields, AssistantsInv, TurnWhole
  <2>5. /\ TurnWhole' /\ SpecWhole' /\ ConnWhole' /\ SpecOfTurn' /\ Fairly' /\ (Active' => Planned') /\ RanSince'
        /\ Numbered' /\ ShownIsKept' /\ ProposalEndsOnce'
    BY <1>1, <2>1, <2>2, <2>3, <2>4, Delivers
  <2>6. InstalledSoFar' /\ EndsKept'
    BY <2>3, <2>4 DEF AssistantsInv, InstalledSoFar, EndsKept, Installing, Outcomes
  <2> QED BY <2>3, <2>5, <2>6 DEF AssistantsInv, Active
<1>3. CASE ~(conn.closed \/ turn.stop)
  <2> DEFINE p == [no |-> turn.no, id |-> turn.pick, version |-> turn.version, live |-> TRUE]
             e == Event("proposed", {turn.pick})
  <2>1. ReleaseTurn /\ conn' = [conn EXCEPT !.proposal = p, !.hid = turn.no] /\ Terminal(e)
    BY <1>3 DEF Propose
  <2>2. /\ TurnWhole' /\ SpecWhole' /\ SpecOfTurn' /\ Fairly' /\ Planned' /\ RanSince'
        /\ InstalledSoFar' /\ EndsKept' /\ ~Active'
    BY <1>1, <2>1, Releases
  <2>3. ~turn.sent /\ NotEnded(turn.no) /\ turn.no \in 0..used.messages /\ conn.op = "none"
    BY <1>1, <1>3 DEF AssistantsInv, Numbered, ConnWhole
  <2>4. shown' = shown \cup {<<turn.no, e>>} /\ e.kind = "proposed"
    BY <1>3, <2>1, <2>3 DEF Terminal, ShowEvent, Event
  <2>5. /\ ShownIsKept' /\ ProposalEndsOnce' /\ \A s \in shown' : s[1] = turn.no => s[2].kind \notin Endings
        /\ \A s \in shown' : s \in shown \/ s[1] = turn.no
    <3> HIDE DEF e
    <3>1. e.kind \notin Noted \cup Endings \cup {"expired", "cancelled"}
      BY <2>4 DEF Noted, Endings
    <3>2. ShownIsKept' /\ ProposalEndsOnce' /\ \A s \in shown' : s \in shown \/ s[1] = turn.no
      BY <1>1, <2>3, <2>4, <3>1, Shows DEF AssistantsInv
    <3>3. \A s \in shown' : s[1] = turn.no => s[2].kind \notin Endings
      BY <2>3, <2>4, <3>1 DEF NotEnded
    <3> QED BY <3>2, <3>3
  <2>6. /\ DOMAIN conn' = DOMAIN NewConn /\ conn'.proposal = p /\ conn'.hid = turn.no /\ conn'.op = conn.op
        /\ conn'.opOf = conn.opOf /\ conn'.result = conn.result /\ DOMAIN p = DOMAIN NoProposal
    <3>1. DOMAIN conn = DOMAIN NewConn
      BY DEF AssistantsInv, ConnWhole
    <3> QED BY <2>1, <3>1 DEF NewConn, NoProposal
  <2>7. turn'.no = 0 /\ ~turn'.stop /\ ~turn'.sent /\ ~turn'.stopping
    BY <2>1, ReleaseIs
  <2>8. ConnWhole'
    BY <1>1, <2>3, <2>6, <2>7 DEF AssistantsInv, ConnWhole
  <2>9. (\A s \in shown' : s[1] = conn'.hid => s[2].kind \notin Endings) /\ <<conn'.hid, Event("proposed", {conn'.proposal.id})>> \in shown'
    <3>1. conn'.hid = turn.no /\ conn'.proposal.id = turn.pick
      BY <2>6
    <3> HIDE DEF p
    <3> QED BY <2>4, <2>5, <3>1
  <2>10. \A s \in shown' : s[1] \in 0..used'.messages
    BY <1>1, <2>3, <2>5 DEF AssistantsInv, Numbered
  <2>11. Numbered'
    BY <1>1, <2>2, <2>3, <2>6, <2>7, <2>9, <2>10 DEF Numbered, NotEnded
  <2> QED BY <2>2, <2>5, <2>8, <2>11 DEF AssistantsInv
<1> QED BY <1>2, <1>3

LEMMA PreparedHolds ==
  ASSUME AssistantsInv, Ran, DeliverPrepared
  PROVE  AssistantsInv'
<1>1. /\ turn.at = "prepared" /\ Active /\ UNCHANGED <<inv, spec, rows, shown, used>> /\ spec = NewSpec
      /\ turn.done = 0 /\ turn.out = {}
  BY DEF DeliverPrepared, Active, AssistantsInv, SpecOfTurn, InstalledSoFar, Installing, Outcomes
<1>2. CASE conn.closed
  <2>1. ReleaseTurn /\ UNCHANGED conn
    BY <1>2 DEF DeliverPrepared
  <2>2. /\ TurnWhole' /\ SpecWhole' /\ SpecOfTurn' /\ Fairly' /\ Planned' /\ RanSince'
        /\ InstalledSoFar' /\ EndsKept' /\ ~Active'
    BY <1>1, <2>1, Releases
  <2>3. turn'.no = 0 /\ ~turn'.stop /\ ~turn'.sent /\ ~turn'.stopping
    BY <2>1, ReleaseIs
  <2>4. SameUsed /\ SameConn
    BY <1>1, <2>1, FaultIs, ReferenceIs DEF AssistantsInv
  <2>5. ConnWhole' /\ Numbered' /\ ShownIsKept' /\ ProposalEndsOnce'
    BY <1>1, <2>2, <2>3, <2>4, NumbersStay
  <2> QED BY <2>2, <2>5 DEF AssistantsInv
<1>3. CASE ~conn.closed
  <2> DEFINE prep == turn.prep
             place == TurnAt("x")
  <2>1. \/ EndsAs("stopped") \/ EndsAs("error")
        \/ prep.kind = "none" /\ TurnIs([TurnAt("continue") EXCEPT !.out = turn.scope])
        \/ prep.kind = "already" /\ TurnIs([TurnAt("commit") EXCEPT !.end = "installed", !.out = prep.plan.named])
        \/ prep.kind = "plan" /\ TurnIs(TurnAt("planning"))
    BY <1>3 DEF DeliverPrepared, AssistantsInv, Planned
  <2>2. SameConn
    BY <1>3, ReferenceIs DEF DeliverPrepared, AssistantsInv
  <2>3. SameUsed
    BY <1>1, FaultIs DEF AssistantsInv
  <2>4. /\ Alters(turn', {"at", "end", "out"})
        /\ \/ turn'.at = "finish" /\ turn'.end \in {"stopped", "error"}
           \/ turn'.at = "continue" /\ turn'.out = turn.scope
           \/ turn'.at = "commit" /\ turn'.end = "installed" /\ prep.kind = "already" /\ turn'.out = prep.plan.named
           \/ turn'.at = "planning" /\ prep.kind = "plan" /\ turn'.out = turn.out
    <3>1. CASE EndsAs("stopped") \/ EndsAs("error")
      <4>1. PICK end \in {"stopped", "error"} : EndsAs(end)
        BY <3>1
      <4>2. Alters(turn', {"at", "end"}) /\ turn'.at = "finish" /\ turn'.end = end
        BY <4>1, EndsAsIs DEF AssistantsInv
      <4> QED BY <4>2 DEF Alters
    <3>2. \A x \in {"continue", "commit", "planning"} : Alters(TurnAt(x), {"at"}) /\ TurnAt(x).at = x
      BY TurnAtIs DEF AssistantsInv
    <3>3. CASE prep.kind = "none" /\ TurnIs([TurnAt("continue") EXCEPT !.out = turn.scope])
      <4> DEFINE t == TurnAt("continue")
      <4>1. turn' = [t EXCEPT !.out = turn.scope] /\ Alters(t, {"at"}) /\ t.at = "continue"
        BY <3>2, <3>3 DEF TurnIs
      <4> HIDE DEF t
      <4> QED BY <4>1 DEF Alters, TurnFields
    <3>4. CASE prep.kind = "already" /\ TurnIs([TurnAt("commit") EXCEPT !.end = "installed", !.out = prep.plan.named])
      <4> DEFINE t == TurnAt("commit")
      <4>1. turn' = [t EXCEPT !.end = "installed", !.out = prep.plan.named] /\ Alters(t, {"at"}) /\ t.at = "commit"
        BY <3>2, <3>4 DEF TurnIs
      <4> HIDE DEF t
      <4> QED BY <3>4, <4>1 DEF Alters, TurnFields
    <3>5. CASE prep.kind = "plan" /\ TurnIs(TurnAt("planning"))
      <4> DEFINE t == TurnAt("planning")
      <4>1. turn' = t /\ Alters(t, {"at"}) /\ t.at = "planning"
        BY <3>2, <3>5 DEF TurnIs
      <4> HIDE DEF t
      <4> QED BY <3>5, <4>1 DEF Alters, TurnFields
    <3> QED BY <2>1, <3>1, <3>3, <3>4, <3>5
  <2>5. /\ Alters(turn', Moving) /\ IsText(turn'.text) /\ IsText(turn'.query) /\ turn'.stop = turn.stop
        /\ turn'.done = 0 /\ turn'.prep = turn.prep /\ turn'.scope = turn.scope
    BY <1>1, <2>4 DEF Alters, Moving, TurnFields, AssistantsInv, TurnWhole
  <2>6. turn'.at \notin {"select", "selectOne"} /\ Active'
    BY <2>4 DEF Active
  <2>7. /\ TurnWhole' /\ SpecWhole' /\ ConnWhole' /\ SpecOfTurn' /\ Fairly' /\ (Active' => Planned') /\ RanSince'
        /\ Numbered' /\ ShownIsKept' /\ ProposalEndsOnce'
    BY <1>1, <2>2, <2>3, <2>5, <2>6, Delivers
  <2>8. ran \subseteq ran'
    BY <1>1, <2>6, RanGrows
  <2>9. InstalledSoFar'
    <3>1. CASE turn'.at = "planning" /\ prep.kind = "plan" /\ turn'.out = turn.out
      <4>1. prep.plan.ids \in Seq(Assistant)
        BY <3>1 DEF AssistantsInv, Planned, PlanInstalls
      <4>2. Len(prep.plan.ids) \in Nat
        BY <4>1
      <4> QED BY <1>1, <2>5, <3>1, <4>2 DEF InstalledSoFar, Installing, Outcomes
    <3>2. CASE turn'.at # "planning"
      BY <1>1, <2>4, <2>5, <2>8, <3>2 DEF AssistantsInv, Planned, InstalledSoFar, Installing, Outcomes
    <3> QED BY <2>4, <3>1, <3>2
  <2>10. EndsKept'
    BY <2>4 DEF EndsKept
  <2> QED BY <2>6, <2>7, <2>9, <2>10 DEF AssistantsInv
<1> QED BY <1>2, <1>3

Working == {"at", "end", "out", "done", "op", "halt"}
LEMMA WorkingIs ==
  ASSUME AssistantsInv, Alters(turn', Working)
  PROVE  /\ Alters(turn', Moving) /\ IsText(turn'.text) /\ IsText(turn'.query) /\ turn'.stop = turn.stop
         /\ turn'.prep = turn.prep /\ turn'.scope = turn.scope /\ turn'.no = turn.no
BY DEF Alters, Moving, Working, TurnFields, AssistantsInv, TurnWhole

LEMMA WorkHolds ==
  ASSUME AssistantsInv, Ran, Active, turn.at \notin {"classify", "wait"}, UNCHANGED spec,
         turn'.at \notin {"select", "selectOne", "none", "gone"}, Alters(turn', Working),
         SameUsed, SameConn, UNCHANGED shown, rows \subseteq rows', InstalledSoFar', EndsKept'
  PROVE  AssistantsInv'
<1>1. /\ Alters(turn', Moving) /\ IsText(turn'.text) /\ IsText(turn'.query) /\ turn'.stop = turn.stop
  BY WorkingIs
<1>2. /\ TurnWhole' /\ SpecWhole' /\ ConnWhole' /\ SpecOfTurn' /\ Fairly' /\ (Active' => Planned') /\ RanSince'
      /\ Numbered' /\ ShownIsKept' /\ ProposalEndsOnce'
  BY <1>1, Delivers
<1> QED BY <1>2 DEF AssistantsInv, Active

LEMMA EndingIs ==
  ASSUME TurnWhole, NEW place, NEW end, TurnIs([TurnAt(place) EXCEPT !.end = end])
  PROVE  Alters(turn', {"at", "end"}) /\ Alters(turn', Working) /\ turn'.at = place /\ turn'.end = end
<1> DEFINE t == TurnAt(place)
<1>1. Alters(t, {"at"}) /\ t.at = place
  BY TurnAtIs
<1>2. turn' = [t EXCEPT !.end = end]
  BY DEF TurnIs
<1> HIDE DEF t
<1> QED BY <1>1, <1>2 DEF Alters, TurnFields, Working

LEMMA GoesTo ==
  ASSUME TurnWhole, NEW place, TurnIs(TurnAt(place))
  PROVE  Alters(turn', {"at"}) /\ Alters(turn', Working) /\ turn'.at = place
BY TurnAtIs DEF TurnIs, Alters, Working

(* A plan that failed or was halted tells what it installed.                               *)
LEMMA FailsHolds ==
  ASSUME AssistantsInv, Ran, turn.at \in Installing, NEW end \in {"failed", "halted"}, UNCHANGED spec,
         TurnIs([TurnAt("commit") EXCEPT !.end = end]), SameUsed, SameConn, UNCHANGED shown, rows \subseteq rows'
  PROVE  AssistantsInv'
<1>1. Alters(turn', {"at", "end"}) /\ Alters(turn', Working) /\ turn'.at = "commit" /\ turn'.end = end
  BY EndingIs DEF AssistantsInv
<1>2. turn'.out = turn.out /\ turn'.done = turn.done /\ turn'.prep = turn.prep
  BY <1>1 DEF Alters, TurnFields
<1>3. Active /\ turn.at \notin {"classify", "wait"}
  BY DEF Active, Installing
<1>4. InstalledSoFar' /\ EndsKept'
  BY <1>1, <1>2 DEF AssistantsInv, InstalledSoFar, EndsKept, Installing, Outcomes
<1> QED BY <1>1, <1>3, <1>4, WorkHolds

LEMMA RunJobHolds ==
  ASSUME AssistantsInv, Ran, RunJob
  PROVE  AssistantsInv'
<1>1. turn.at = "planning" /\ Active /\ UNCHANGED <<inv, spec, conn, rows, shown>>
  BY DEF RunJob, Active, ShowEvent, Event
<1>2. SameUsed /\ SameConn
  BY <1>1, FaultIs, ReferenceIs DEF AssistantsInv, RunJob
<1>3. CASE TurnIs([TurnAt("commit") EXCEPT !.end = "failed"])
  BY <1>1, <1>2, <1>3, FailsHolds DEF Installing
<1>4. CASE TurnIs([TurnAt("between") EXCEPT !.op = "plan", !.halt = FALSE])
  <2> DEFINE t == TurnAt("between")
  <2>1. turn' = [t EXCEPT !.op = "plan", !.halt = FALSE] /\ Alters(t, {"at"}) /\ t.at = "between"
    BY <1>4, TurnAtIs DEF TurnIs, AssistantsInv
  <2> HIDE DEF t
  <2>2. /\ Alters(turn', Working) /\ turn'.at = "between" /\ turn'.done = turn.done /\ turn'.out = turn.out
        /\ turn'.prep = turn.prep
    BY <2>1 DEF Alters, TurnFields, Working
  <2>3. ran \subseteq ran'
    BY <1>1, <2>2, RanGrows DEF Active
  <2>4. InstalledSoFar' /\ EndsKept'
    BY <1>1, <2>2, <2>3 DEF AssistantsInv, InstalledSoFar, EndsKept, Installing, Outcomes
  <2> QED BY <1>1, <1>2, <2>2, <2>4, WorkHolds
<1> QED BY <1>3, <1>4 DEF RunJob

LEMMA ExecuteHolds ==
  ASSUME AssistantsInv, Ran, Execute
  PROVE  AssistantsInv'
<1>1. /\ turn.at = "between" /\ Active /\ UNCHANGED <<inv, spec, conn, rows, shown, used>>
      /\ turn.at \in Installing
  BY DEF Execute, Active, Installing
<1> DEFINE n == Len(turn.prep.plan.ids)
<1>2. SameUsed /\ SameConn
  BY <1>1, FaultIs, ReferenceIs DEF AssistantsInv
<1>3. /\ turn.prep.kind = "plan" /\ turn.done \in Nat /\ turn.done <= n
      /\ turn.out = {turn.prep.plan.ids[i] : i \in 1..turn.done} /\ turn.out \subseteq ran
      /\ PlanInstalls(turn.prep.plan, turn.scope, ran)
  BY <1>1 DEF AssistantsInv, InstalledSoFar, Planned
<1>4. n \in Nat
  BY <1>3 DEF PlanInstalls
<1>5. CASE turn.halt /\ turn.done < n
  <2>1. TurnIs([TurnAt("commit") EXCEPT !.end = "halted"])
    BY <1>5 DEF Execute
  <2> QED BY <1>1, <1>2, <2>1, FailsHolds
<1>6. CASE ~turn.halt /\ turn.done < n
  <2>1. TurnIs(TurnAt("install"))
    BY <1>6 DEF Execute
  <2>2. Alters(turn', {"at"}) /\ Alters(turn', Working) /\ turn'.at = "install"
    BY <2>1, GoesTo DEF AssistantsInv
  <2>3. turn'.done = turn.done /\ turn'.out = turn.out /\ turn'.prep = turn.prep
    BY <2>2 DEF Alters, TurnFields
  <2>4. ran \subseteq ran'
    BY <1>1, <2>2, RanGrows DEF Active
  <2>5. InstalledSoFar' /\ EndsKept'
    BY <1>3, <1>6, <2>2, <2>3, <2>4 DEF InstalledSoFar, EndsKept, Installing, Outcomes
  <2> QED BY <1>1, <1>2, <2>2, <2>5, WorkHolds
<1>7. CASE ~(turn.done < n)
  <2>1. TurnIs([TurnAt("commit") EXCEPT !.end = "installed"])
    BY <1>7 DEF Execute
  <2>2. Alters(turn', {"at", "end"}) /\ Alters(turn', Working) /\ turn'.at = "commit" /\ turn'.end = "installed"
    BY <2>1, EndingIs DEF AssistantsInv
  <2>3. turn'.done = turn.done /\ turn'.out = turn.out /\ turn'.prep = turn.prep /\ turn'.scope = turn.scope
    BY <2>2 DEF Alters, TurnFields
  <2>4. ran \subseteq ran'
    BY <1>1, <2>2, RanGrows DEF Active
  <2>5. turn.done = n
    BY <1>3, <1>4, <1>7
  <2>6. turn'.prep.plan.scope \ turn'.scope \subseteq ran'
    BY <1>3, <2>3, <2>4, <2>5 DEF PlanInstalls
  <2>7. InstalledSoFar' /\ EndsKept'
    BY <1>3, <2>2, <2>3, <2>4, <2>6 DEF InstalledSoFar, EndsKept, Installing, Outcomes
  <2> QED BY <1>1, <1>2, <2>2, <2>7, WorkHolds
<1> QED BY <1>5, <1>6, <1>7

LEMMA InstallHolds ==
  ASSUME AssistantsInv, Ran, Install
  PROVE  AssistantsInv'
<1>1. turn.at = "install" /\ Active /\ UNCHANGED <<spec, conn, rows, shown>> /\ turn.at \in Installing
  BY DEF Install, Active, Installing
<1>2. SameUsed /\ SameConn
  BY <1>1, FaultIs, ReferenceIs DEF AssistantsInv, Install
<1>3. CASE TurnIs([TurnAt("commit") EXCEPT !.end = "failed"])
  BY <1>1, <1>2, <1>3, FailsHolds
<1>4. CASE TurnIs(TurnAt("prove"))
  <2>1. Alters(turn', {"at"}) /\ Alters(turn', Working) /\ turn'.at = "prove"
    BY <1>4, GoesTo DEF AssistantsInv
  <2>2. turn'.done = turn.done /\ turn'.out = turn.out /\ turn'.prep = turn.prep
    BY <2>1 DEF Alters, TurnFields
  <2>3. ran \subseteq ran'
    BY <1>1, <2>1, RanGrows DEF Active
  <2>4. InstalledSoFar' /\ EndsKept'
    BY <1>1, <2>1, <2>2, <2>3 DEF AssistantsInv, InstalledSoFar, EndsKept, Installing, Outcomes
  <2> QED BY <1>1, <1>2, <2>1, <2>4, WorkHolds
<1> QED BY <1>3, <1>4 DEF Install

LEMMA ProveHolds ==
  ASSUME AssistantsInv, Ran, Prove
  PROVE  AssistantsInv'
<1>1. /\ turn.at = "prove" /\ Active /\ UNCHANGED <<inv, spec, conn, rows, shown, used>>
      /\ turn.at \in Installing
  BY DEF Prove, Active, Installing
<1>2. SameUsed /\ SameConn
  BY <1>1, FaultIs, ReferenceIs DEF AssistantsInv
<1>3. CASE TurnIs([TurnAt("commit") EXCEPT !.end = "failed"])
  BY <1>1, <1>2, <1>3, FailsHolds
<1>4. CASE Item \in RunningIn(inv) /\ TurnIs([TurnAt("between") EXCEPT !.done = @ + 1, !.out = @ \cup {Item}])
  <2> DEFINE t == TurnAt("between")  ids == turn.prep.plan.ids  n == turn.done
  <2>1. turn' = [t EXCEPT !.done = @ + 1, !.out = @ \cup {Item}] /\ Alters(t, {"at"}) /\ t.at = "between"
    BY <1>4, TurnAtIs DEF TurnIs, AssistantsInv
  <2> HIDE DEF t
  <2>2. /\ Alters(turn', Working) /\ turn'.at = "between" /\ turn'.done = n + 1
        /\ turn'.out = turn.out \cup {ids[n + 1]} /\ turn'.prep = turn.prep
    BY <2>1 DEF Alters, TurnFields, Working, Item
  <2>3. ran \subseteq ran' /\ RunningIn(inv) \subseteq ran'
    BY <1>1, <2>2, RanGrows DEF Active
  <2>4. /\ turn.prep.kind = "plan" /\ n \in Nat /\ n < Len(ids) /\ turn.out = {ids[i] : i \in 1..n}
        /\ turn.out \subseteq ran /\ ids \in Seq(Assistant)
    BY <1>1 DEF AssistantsInv, InstalledSoFar, Planned, PlanInstalls
  <2>5. turn'.out = {ids[i] : i \in 1..n + 1} /\ n + 1 \in Nat /\ n + 1 <= Len(ids)
    <3> DEFINE L == Len(ids)
    <3>1. L \in Nat /\ n < L /\ n \in Nat
      BY <2>4
    <3>2. 1..n + 1 = 1..n \cup {n + 1} /\ n + 1 \in Nat /\ n + 1 <= L
      <4> HIDE DEF L, n
      <4> QED BY <3>1
    <3>3. {ids[i] : i \in 1..n \cup {n + 1}} = {ids[i] : i \in 1..n} \cup {ids[n + 1]}
      OBVIOUS
    <3> QED BY <2>2, <2>4, <3>2, <3>3
  <2>6. turn'.out \subseteq ran'
    BY <1>4, <2>2, <2>3, <2>4 DEF Item
  <2>7. InstalledSoFar'
    <3> HIDE DEF ids, n
    <3>1. turn'.prep.plan.ids = ids /\ turn'.prep.kind = "plan"
      BY <2>2, <2>4 DEF ids
    <3> QED BY <2>2, <2>5, <2>6, <3>1 DEF InstalledSoFar, Installing, Outcomes
  <2>8. EndsKept'
    BY <2>2 DEF EndsKept
  <2> QED BY <1>1, <1>2, <2>2, <2>7, <2>8, WorkHolds
<1> QED BY <1>3, <1>4 DEF Prove

LEMMA PanickedHolds ==
  ASSUME AssistantsInv, Ran, Panicked
  PROVE  AssistantsInv'
<1>1. turn.at \in {"install", "prove"} /\ Active /\ UNCHANGED <<inv, spec, conn, rows, shown>> /\ Fault
  BY DEF Panicked, Active
<1>2. SameUsed /\ SameConn
  BY <1>1, FaultIs, ReferenceIs DEF AssistantsInv
<1> DEFINE t == TurnAt("commit")
<1>3. turn' = [t EXCEPT !.end = "failed", !.out = {}] /\ Alters(t, {"at"}) /\ t.at = "commit"
  BY TurnAtIs DEF Panicked, TurnIs, AssistantsInv
<1> HIDE DEF t
<1>4. /\ Alters(turn', Working) /\ turn'.at = "commit" /\ turn'.end = "failed" /\ turn'.out = {}
      /\ turn'.done = turn.done
  BY <1>3 DEF Alters, TurnFields, Working
<1>5. InstalledSoFar' /\ EndsKept'
  BY <1>4 DEF AssistantsInv, InstalledSoFar, EndsKept, Installing, Outcomes
<1> QED BY <1>1, <1>2, <1>4, <1>5, WorkHolds

LEMMA CommitHolds ==
  ASSUME AssistantsInv, Ran, CommitPlan
  PROVE  AssistantsInv'
<1>1. /\ turn.at = "commit" /\ Active /\ UNCHANGED <<inv, spec>> /\ spec = NewSpec
  BY DEF CommitPlan, Active, AssistantsInv, SpecOfTurn
<1> DEFINE e == Event(turn.end, turn.out)  plan == turn.prep.plan
<1>2. CASE conn.closed
  <2>1. ReleaseTurn /\ UNCHANGED <<conn, rows, shown, used>>
    BY <1>2 DEF CommitPlan
  <2>2. /\ TurnWhole' /\ SpecWhole' /\ SpecOfTurn' /\ Fairly' /\ Planned' /\ RanSince'
        /\ InstalledSoFar' /\ EndsKept' /\ ~Active'
    BY <1>1, <2>1, Releases
  <2>3. turn'.no = 0 /\ ~turn'.stop /\ ~turn'.sent /\ ~turn'.stopping
    BY <2>1, ReleaseIs
  <2>4. SameUsed /\ SameConn
    BY <2>1, FaultIs, ReferenceIs DEF AssistantsInv
  <2>5. ConnWhole' /\ Numbered' /\ ShownIsKept' /\ ProposalEndsOnce'
    BY <2>1, <2>2, <2>3, <2>4, NumbersStay
  <2> QED BY <2>2, <2>5 DEF AssistantsInv
<1>3. CASE ~conn.closed
  <2>1. \/ /\ KeepRow(turn.no, e) /\ UNCHANGED used
           /\ \/ TurnIs(TurnAt("finish")) /\ UNCHANGED shown
              \/ /\ TurnIs([TurnAt("continue") EXCEPT !.out = plan.scope]) /\ ShowEvent(turn.no, e)
                 /\ turn.end = "installed"
        \/ Fault /\ EndsAs("error") /\ UNCHANGED <<rows, shown>>
    BY <1>3 DEF CommitPlan
  <2>2. \E r : conn' = [conn EXCEPT !.reference = r]
    BY <1>3 DEF CommitPlan
  <2>3. SameConn
    BY <2>2, ReferenceIs DEF AssistantsInv
  <2>4. SameUsed
    BY <2>1, FaultIs DEF AssistantsInv
  <2>5. CASE KeepRow(turn.no, e) /\ TurnIs(TurnAt("finish")) /\ UNCHANGED shown
    <3>1. Alters(turn', {"at"}) /\ Alters(turn', Working) /\ turn'.at = "finish"
      BY <2>5, GoesTo DEF AssistantsInv
    <3>2. turn'.no = turn.no /\ turn'.end = turn.end /\ turn'.out = turn.out /\ turn'.done = turn.done
      BY <3>1 DEF Alters, TurnFields
    <3>3. ran \subseteq ran'
      BY <1>1, <3>1, RanGrows DEF Active
    <3>4. <<turn'.no, Event(turn'.end, turn'.out)>> \in rows' /\ rows \subseteq rows'
      BY <2>5, <3>2 DEF KeepRow
    <3>5. InstalledSoFar' /\ EndsKept'
      BY <1>1, <3>1, <3>2, <3>3, <3>4 DEF AssistantsInv, InstalledSoFar, EndsKept, Installing, Outcomes
    <3> QED BY <1>1, <2>3, <2>4, <2>5, <3>1, <3>4, <3>5, WorkHolds
  <2>6. CASE Fault /\ EndsAs("error") /\ UNCHANGED <<rows, shown>>
    <3>1. Alters(turn', {"at", "end"}) /\ turn'.at = "finish" /\ turn'.end = "error"
      BY <2>6, EndsAsIs DEF AssistantsInv
    <3>2. Alters(turn', Working) /\ turn'.done = turn.done
      BY <3>1 DEF Alters, TurnFields, Working
    <3>3. InstalledSoFar' /\ EndsKept'
      BY <1>1, <3>1, <3>2 DEF AssistantsInv, InstalledSoFar, EndsKept, Installing, Outcomes
    <3> QED BY <1>1, <2>3, <2>4, <2>6, <3>1, <3>2, <3>3, WorkHolds
  <2>7. CASE /\ KeepRow(turn.no, e) /\ TurnIs([TurnAt("continue") EXCEPT !.out = plan.scope]) /\ ShowEvent(turn.no, e)
             /\ turn.end = "installed"
    <3> DEFINE t == TurnAt("continue")
    <3>1. turn' = [t EXCEPT !.out = plan.scope] /\ Alters(t, {"at"}) /\ t.at = "continue"
      BY <2>7, TurnAtIs DEF TurnIs, AssistantsInv
    <3> HIDE DEF t
    <3>2. /\ Alters(turn', Working) /\ turn'.at = "continue" /\ turn'.out = plan.scope /\ turn'.done = turn.done
          /\ turn'.sent = turn.sent /\ turn'.stopping = turn.stopping
      BY <3>1 DEF Alters, TurnFields, Working
    <3>3. /\ turn'.stop = turn.stop /\ turn'.prep = turn.prep /\ turn'.scope = turn.scope /\ turn'.no = turn.no
          /\ IsText(turn'.text) /\ IsText(turn'.query)
      BY <3>2, WorkingIs
    <3>4. ran \subseteq ran' /\ Active'
      BY <1>1, <3>2, RanGrows DEF Active
    <3>5. InstalledSoFar' /\ EndsKept'
      BY <1>1, <2>7, <3>2, <3>3, <3>4 DEF AssistantsInv, InstalledSoFar, EndsKept, Installing, Outcomes
    <3>6. e.kind = "installed" /\ shown' \in {shown, shown \cup {<<turn.no, e>>}} /\ <<turn.no, e>> \in rows' /\ rows \subseteq rows'
      BY <2>7 DEF ShowEvent, KeepRow, Event
    <3>7. NotEnded(turn.no) /\ turn.no \in 0..used.messages
      BY <1>1 DEF AssistantsInv, Numbered, ConnWhole
    <3> HIDE DEF e
    <3>8. e.kind \notin Endings
      BY <3>6 DEF Endings
    <3>9. ShownIsKept' /\ ProposalEndsOnce' /\ \A s \in shown' : s \in shown \/ s[1] = turn.no
      BY <3>6, <3>7, <3>8, Shows DEF AssistantsInv, Endings
    <3>10. \A s \in shown' : s[1] = turn.no => s[2].kind \notin Endings
      BY <3>6, <3>7, <3>8 DEF NotEnded
    <3>11. conn'.proposal = NoProposal /\ conn'.op = "none" /\ (turn'.sent \/ turn'.stopping => turn'.stop)
      BY <1>1, <2>3, <3>2, <3>3 DEF AssistantsInv, Numbered, SameConn
    <3>12. Numbered' /\ ConnWhole'
      <4>1. Numbered'
        BY <2>4, <3>3, <3>7, <3>9, <3>10, <3>11 DEF AssistantsInv, Numbered, NotEnded, SameUsed
      <4>2. ConnWhole'
        BY <2>3, <2>4, <3>3 DEF AssistantsInv, ConnWhole, SameUsed, SameConn
      <4> QED BY <4>1, <4>2
    <3>13. SpecWhole' /\ SpecOfTurn' /\ Fairly' /\ spec'.prep.kind = "none"
      BY <1>1, <3>2, NoSpec
    <3>14. Planned' /\ RanSince' /\ TurnWhole'
      <4>1. Planned'
        BY <1>1, <3>3, <3>4, <3>13, PlansStay DEF AssistantsInv
      <4>2. RanSince'
        BY <1>1, <3>2, RanStays DEF AssistantsInv
      <4>3. TurnWhole'
        BY <3>2, <3>3, NewTurnFields DEF TurnWhole, Alters
      <4> QED BY <4>1, <4>2, <4>3
    <3> QED BY <3>5, <3>9, <3>12, <3>13, <3>14 DEF AssistantsInv
  <2> QED BY <2>1, <2>5, <2>6, <2>7
<1> QED BY <1>2, <1>3

LEMMA ContinueHolds ==
  ASSUME AssistantsInv, Ran, Continue \/ TeamTurnEnds
  PROVE  AssistantsInv'
<1>1. /\ turn.at \in {"continue", "chat"} /\ Active /\ UNCHANGED <<inv, spec, conn, rows, shown, used>>
  BY DEF Continue, TeamTurnEnds, Active
<1>2. SameUsed /\ SameConn
  BY <1>1, FaultIs, ReferenceIs DEF AssistantsInv
<1>3. EndsAs("stopped") \/ EndsAs("done") \/ (TurnIs(TurnAt("chat")) /\ turn.at = "continue")
  BY DEF Continue, TeamTurnEnds
<1>4. CASE EndsAs("stopped") \/ EndsAs("done")
  <2>1. PICK end \in {"stopped", "done"} : EndsAs(end)
    BY <1>4
  <2>2. Alters(turn', {"at", "end"}) /\ turn'.at = "finish" /\ turn'.end = end
    BY <2>1, EndsAsIs DEF AssistantsInv
  <2>3. Alters(turn', Working) /\ turn'.done = turn.done
    BY <2>2 DEF Alters, TurnFields, Working
  <2>4. InstalledSoFar' /\ EndsKept'
    BY <1>1, <2>2, <2>3 DEF AssistantsInv, InstalledSoFar, EndsKept, Installing, Outcomes
  <2> QED BY <1>1, <1>2, <2>2, <2>3, <2>4, WorkHolds
<1>5. CASE TurnIs(TurnAt("chat")) /\ turn.at = "continue"
  <2>1. Alters(turn', {"at"}) /\ Alters(turn', Working) /\ turn'.at = "chat"
    BY <1>5, GoesTo DEF AssistantsInv
  <2>2. turn'.done = turn.done /\ turn'.out = turn.out /\ turn'.scope = turn.scope
    BY <2>1 DEF Alters, TurnFields
  <2>3. ran \subseteq ran'
    BY <1>1, <2>1, RanGrows DEF Active
  <2>4. InstalledSoFar' /\ EndsKept'
    BY <1>5, <2>1, <2>2, <2>3 DEF AssistantsInv, InstalledSoFar, EndsKept, Installing, Outcomes
  <2> QED BY <1>1, <1>2, <2>1, <2>4, WorkHolds
<1> QED BY <1>3, <1>4, <1>5

-----------------------------------------------------------------------------
(* The turn stays where it is.                                                             *)
Flags == {"stop", "halt", "stopping", "sent"}
LEMMA TurnStays ==
  ASSUME AssistantsInv, Ran, UNCHANGED spec, Alters(turn', Flags), rows \subseteq rows'
  PROVE  /\ TurnWhole' /\ SpecWhole' /\ SpecOfTurn' /\ Fairly' /\ Planned' /\ RanSince'
         /\ InstalledSoFar' /\ EndsKept' /\ (Active' <=> Active) /\ turn'.no = turn.no
<1>1. /\ turn'.at = turn.at /\ turn'.no = turn.no /\ turn'.text = turn.text /\ turn'.query = turn.query
      /\ turn'.scope = turn.scope /\ turn'.inv = turn.inv /\ turn'.reg = turn.reg /\ turn'.dir = turn.dir
      /\ turn'.prep = turn.prep /\ turn'.done = turn.done /\ turn'.out = turn.out /\ turn'.end = turn.end
  BY DEF Alters, Flags, TurnFields
<1>2. TurnWhole' /\ SpecWhole' /\ SpecOfTurn'
  BY <1>1, NewTurnFields DEF AssistantsInv, TurnWhole, SpecWhole, SpecOfTurn, Alters
<1>3. Fairly'
  BY <1>1 DEF AssistantsInv, Fairly
<1>4. Active' <=> Active
  BY <1>1 DEF Active
<1>5. Planned'
  <2>1. CASE Active
    BY <1>1, <1>4, <2>1, PlansStay DEF AssistantsInv
  <2>2. CASE ~Active
    <3>1. turn.prep.kind = "none"
      BY <2>2 DEF AssistantsInv, Planned
    <3> QED BY <1>1, <3>1, PlansStay DEF AssistantsInv
  <2> QED BY <2>1, <2>2
<1>6. RanSince'
  BY <1>1, <1>4, RanStays DEF AssistantsInv
<1>7. Active => ran \subseteq ran'
  BY <1>4, RanGrows
<1>8. turn.at \in Installing \cup Outcomes => Active
  BY DEF Active, Installing, Outcomes
<1>9. InstalledSoFar'
  BY <1>1, <1>7, <1>8 DEF AssistantsInv, InstalledSoFar, Installing, Outcomes
<1>10. EndsKept'
  BY <1>1 DEF AssistantsInv, EndsKept
<1> QED BY <1>1, <1>2, <1>3, <1>4, <1>5, <1>6, <1>9, <1>10

LEMMA SameTurn ==
  ASSUME AssistantsInv, UNCHANGED turn
  PROVE  Alters(turn', Flags) /\ turn'.no \in Nat /\ (turn'.sent \/ turn'.stopping => turn'.stop)
BY NewTurnFields DEF AssistantsInv, TurnWhole, ConnWhole, Numbered, Alters

LEMMA OtherHolds ==
  ASSUME AssistantsInv, Ran, Other
  PROVE  AssistantsInv'
<1>1. UNCHANGED <<turn, spec, conn, rows, shown>>
  BY DEF Other
<1>2. SameUsed /\ SameConn
  <2>1. SameUsed
    BY DEF Other, SameUsed, AssistantsInv, ConnWhole
  <2> QED BY <1>1, <2>1, ReferenceIs DEF AssistantsInv
<1>3. Alters(turn', Flags) /\ turn'.no \in Nat /\ (turn'.sent \/ turn'.stopping => turn'.stop)
  BY <1>1, SameTurn
<1>4. Active' <=> Active
  BY <1>1 DEF Active
<1>5. ConnWhole' /\ Numbered' /\ ShownIsKept' /\ ProposalEndsOnce'
  BY <1>1, <1>2, <1>3, <1>4, NumbersStay
<1> QED BY <1>1, <1>3, <1>5, TurnStays DEF AssistantsInv

LEMMA StopHolds ==
  ASSUME AssistantsInv, Ran, Stop
  PROVE  AssistantsInv'
<1> DEFINE halted == [turn EXCEPT !.stop = TRUE, !.halt = TRUE]
<1>1. /\ Active /\ UNCHANGED <<inv, spec, conn, rows, shown, used>>
      /\ turn' = IF turn.at = "queued" THEN [halted EXCEPT !.at = "aborted", !.stopping = TRUE]
                 ELSE IF turn.at = "chat" THEN [halted EXCEPT !.at = "finish", !.end = "stopped"]
                 ELSE [halted EXCEPT !.stopping = (turn.op = "route")]
  BY DEF Stop, TurnIs
<1>2. SameUsed /\ SameConn
  BY <1>1, FaultIs, ReferenceIs DEF AssistantsInv
<1>3. DOMAIN turn = TurnFields
  BY NewTurnFields DEF AssistantsInv, TurnWhole
<1>4. Alters(halted, {"stop", "halt"}) /\ halted.stop
  BY <1>3 DEF Alters, TurnFields
<1> HIDE DEF halted
<1>5. CASE turn.at \notin {"queued", "chat"}
  <2>1. Alters(turn', Flags) /\ turn'.stop
    BY <1>1, <1>4, <1>5 DEF Alters, Flags, TurnFields
  <2>2. /\ TurnWhole' /\ SpecWhole' /\ SpecOfTurn' /\ Fairly' /\ Planned' /\ RanSince'
         /\ InstalledSoFar' /\ EndsKept' /\ (Active' <=> Active) /\ turn'.no = turn.no
    BY <1>1, <2>1, TurnStays
  <2>3. ConnWhole' /\ Numbered' /\ ShownIsKept' /\ ProposalEndsOnce'
    <3>1. turn'.no \in Nat
      BY <2>2 DEF AssistantsInv, ConnWhole
    <3> QED BY <1>1, <1>2, <2>1, <2>2, <3>1, NumbersStay
  <2> QED BY <2>2, <2>3 DEF AssistantsInv
<1>6. CASE turn.at \in {"queued", "chat"}
  <2>1. /\ Alters(turn', {"stop", "halt", "stopping", "at", "end"}) /\ turn'.stop
        /\ \/ turn.at = "queued" /\ turn'.at = "aborted"
           \/ turn.at = "chat" /\ turn'.at = "finish" /\ turn'.end = "stopped"
    <3>1. CASE turn.at = "queued"
      BY <1>1, <1>4, <3>1 DEF Alters, TurnFields
    <3>2. CASE turn.at = "chat"
      <4>1. turn' = [halted EXCEPT !.at = "finish", !.end = "stopped"]
        BY <1>1, <3>2
      <4> QED BY <1>4, <3>2, <4>1 DEF Alters, TurnFields
    <3> QED BY <1>6, <3>1, <3>2
  <2>2. /\ turn'.no = turn.no /\ turn'.scope = turn.scope /\ turn'.prep = turn.prep /\ turn'.done = turn.done
        /\ turn'.out = turn.out /\ turn'.text = turn.text /\ turn'.query = turn.query
    BY <2>1 DEF Alters, TurnFields
  <2>3. TurnWhole'
    BY <2>1, <2>2, NewTurnFields DEF AssistantsInv, TurnWhole, Alters
  <2>4. Active' /\ spec = NewSpec
    BY <1>6, <2>1 DEF Active, AssistantsInv, SpecOfTurn
  <2>5. SpecWhole' /\ SpecOfTurn' /\ Fairly' /\ spec'.prep.kind = "none"
    BY <1>1, <2>1, <2>4, NoSpec
  <2>6. Planned'
    BY <1>1, <2>2, <2>4, <2>5, PlansStay DEF AssistantsInv
  <2>7. RanSince'
    BY <1>1, <2>1, RanStays DEF AssistantsInv
  <2>8. InstalledSoFar' /\ EndsKept'
    BY <1>6, <2>1, <2>2 DEF AssistantsInv, InstalledSoFar, EndsKept, Installing, Outcomes
  <2>9. ConnWhole' /\ Numbered' /\ ShownIsKept' /\ ProposalEndsOnce'
    <3>1. turn'.no \in Nat
      BY <2>2 DEF AssistantsInv, ConnWhole
    <3> QED BY <1>1, <1>2, <2>1, <2>2, <3>1, NumbersStay
  <2> QED BY <2>3, <2>5, <2>6, <2>7, <2>8, <2>9 DEF AssistantsInv
<1> QED BY <1>5, <1>6

LEMMA StopEndsHolds ==
  ASSUME AssistantsInv, Ran, StopEnds
  PROVE  AssistantsInv'
<1>1. UNCHANGED <<inv, spec, conn, rows, used, shown>> /\ turn.stopping
  BY DEF StopEnds, Terminal, ShowEvent, Event
<1>2. SameUsed /\ SameConn /\ turn.stop
  BY <1>1, FaultIs, ReferenceIs DEF AssistantsInv, Numbered
<1>3. CASE turn.at = "aborted"
  <2>1. ReleaseTurn /\ spec = NewSpec
    BY <1>3 DEF StopEnds, AssistantsInv, SpecOfTurn
  <2>2. /\ TurnWhole' /\ SpecWhole' /\ SpecOfTurn' /\ Fairly' /\ Planned' /\ RanSince'
        /\ InstalledSoFar' /\ EndsKept' /\ ~Active'
    BY <1>1, <2>1, Releases
  <2>3. turn'.no = 0 /\ ~turn'.stop /\ ~turn'.sent /\ ~turn'.stopping
    BY <2>1, ReleaseIs
  <2>4. ConnWhole' /\ Numbered' /\ ShownIsKept' /\ ProposalEndsOnce'
    BY <1>1, <1>2, <2>2, <2>3, NumbersStay
  <2> QED BY <2>2, <2>4 DEF AssistantsInv
<1>4. CASE turn.at # "aborted"
  <2>1. turn' = [turn EXCEPT !.stopping = FALSE, !.sent = TRUE]
    BY <1>4 DEF StopEnds, TurnIs
  <2>2. Alters(turn', Flags) /\ turn'.stop = turn.stop
    <3>1. DOMAIN turn = TurnFields
      BY NewTurnFields DEF AssistantsInv, TurnWhole
    <3> QED BY <2>1, <3>1 DEF Alters, Flags, TurnFields
  <2>3. /\ TurnWhole' /\ SpecWhole' /\ SpecOfTurn' /\ Fairly' /\ Planned' /\ RanSince'
         /\ InstalledSoFar' /\ EndsKept' /\ (Active' <=> Active) /\ turn'.no = turn.no
    BY <1>1, <2>2, TurnStays
  <2>4. ConnWhole' /\ Numbered' /\ ShownIsKept' /\ ProposalEndsOnce'
    <3>1. turn'.no \in Nat
      BY <2>3 DEF AssistantsInv, ConnWhole
    <3> QED BY <1>1, <1>2, <2>2, <2>3, <3>1, NumbersStay
  <2> QED BY <2>3, <2>4 DEF AssistantsInv
<1> QED BY <1>3, <1>4

LEMMA CloseHolds ==
  ASSUME AssistantsInv, Ran, Close
  PROVE  AssistantsInv'
<1>1. /\ UNCHANGED <<inv, spec, rows, shown, used>>
      /\ conn' = [conn EXCEPT !.closed = TRUE, !.proposal = NoProposal]
  BY DEF Close
<1>2. /\ DOMAIN conn' = DOMAIN NewConn /\ conn'.proposal = NoProposal /\ conn'.op = conn.op
      /\ conn'.opOf = conn.opOf /\ conn'.result = conn.result /\ conn'.hid = conn.hid
  BY <1>1 DEF AssistantsInv, ConnWhole, NewConn
<1>3. (ReleaseTurn /\ spec = NewSpec) \/ UNCHANGED turn
  BY DEF Close, ReleaseTurn, TurnIs, AssistantsInv, SpecOfTurn
<1>4. /\ TurnWhole' /\ SpecWhole' /\ SpecOfTurn' /\ Fairly' /\ Planned' /\ RanSince'
      /\ InstalledSoFar' /\ EndsKept' /\ (Active' => Active /\ turn'.no = turn.no)
      /\ turn'.no \in Nat /\ (turn'.sent \/ turn'.stopping => turn'.stop)
  <2>1. CASE ReleaseTurn /\ spec = NewSpec
    BY <1>1, <2>1, Releases, ReleaseIs
  <2>2. CASE UNCHANGED turn
    BY <1>1, <2>2, SameTurn, TurnStays
  <2> QED BY <1>3, <2>1, <2>2
<1>5. ConnWhole'
  BY <1>1, <1>2, <1>4 DEF AssistantsInv, ConnWhole
<1>6. Numbered'
  BY <1>1, <1>2, <1>4 DEF AssistantsInv, Numbered, NotEnded
<1>7. ShownIsKept' /\ ProposalEndsOnce'
  BY <1>1 DEF AssistantsInv, ShownIsKept, ProposalEndsOnce, Event
<1> QED BY <1>4, <1>5, <1>6, <1>7 DEF AssistantsInv

LEMMA ExpiresHolds ==
  ASSUME AssistantsInv, Ran, ProposalExpires
  PROVE  AssistantsInv'
<1>1. /\ UNCHANGED <<inv, turn, spec, rows, shown, used>>
      /\ conn' = [conn EXCEPT !.proposal.live = FALSE] /\ conn.proposal.live
  BY DEF ProposalExpires
<1>2. /\ DOMAIN conn' = DOMAIN NewConn /\ conn'.op = conn.op
      /\ conn'.opOf = conn.opOf /\ conn'.result = conn.result /\ conn'.hid = conn.hid
      /\ DOMAIN conn'.proposal = DOMAIN NoProposal /\ conn'.proposal.id = conn.proposal.id
      /\ conn.proposal # NoProposal
  BY <1>1 DEF AssistantsInv, ConnWhole, NewConn, NoProposal
<1>3. /\ TurnWhole' /\ SpecWhole' /\ SpecOfTurn' /\ Fairly' /\ Planned' /\ RanSince'
      /\ InstalledSoFar' /\ EndsKept' /\ (Active' <=> Active)
  BY <1>1, SameTurn, TurnStays
<1>4. ~Active
  BY <1>2 DEF AssistantsInv, Numbered
<1>5. ConnWhole'
  BY <1>1, <1>2 DEF AssistantsInv, ConnWhole
<1>6. Numbered'
  <2>1. /\ \A s \in shown : s[1] \in 0..used.messages
        /\ turn.sent \/ turn.stopping => turn.stop
        /\ conn.op = "none" /\ conn.hid <= used.messages /\ \A s \in shown : s[1] = conn.hid => s[2].kind \notin Endings
        /\ <<conn.hid, Event("proposed", {conn.proposal.id})>> \in shown
    BY <1>2 DEF AssistantsInv, Numbered, NotEnded
  <2>2. <<conn'.hid, Event("proposed", {conn'.proposal.id})>> \in shown
    BY <1>2, <2>1
  <2> QED BY <1>1, <1>2, <1>3, <1>4, <2>1, <2>2 DEF Numbered, NotEnded, Event
<1>7. ShownIsKept' /\ ProposalEndsOnce'
  BY <1>1 DEF AssistantsInv, ShownIsKept, ProposalEndsOnce, Event
<1> QED BY <1>3, <1>5, <1>6, <1>7 DEF AssistantsInv

-----------------------------------------------------------------------------
(* The confirmed uninstall.                                                                *)
LEMMA UninstallHolds ==
  ASSUME AssistantsInv, Ran, Uninstall
  PROVE  AssistantsInv'
<1>1. UNCHANGED <<turn, spec>> /\ conn.op # "none"
  BY DEF Uninstall, UninstallReads, UninstallCalls, UninstallDelivers
<1>2. /\ ~Active /\ conn.proposal = NoProposal /\ DOMAIN conn = DOMAIN NewConn
      /\ conn.opOf.no \in 0..used.messages /\ NotEnded(conn.opOf.no)
  BY <1>1 DEF AssistantsInv, Numbered, ConnWhole
<1>3. SameUsed
  <2>1. Fault \/ UNCHANGED used
    BY DEF Uninstall, UninstallReads, UninstallCalls, UninstallDelivers
  <2> QED BY <2>1, FaultIs DEF AssistantsInv
<1>4. rows \subseteq rows'
  BY DEF Uninstall, UninstallReads, UninstallCalls, UninstallDelivers, KeepRow
<1>5. /\ TurnWhole' /\ SpecWhole' /\ SpecOfTurn' /\ Fairly' /\ Planned' /\ RanSince'
      /\ InstalledSoFar' /\ EndsKept' /\ ~Active'
      /\ turn'.no \in Nat /\ (turn'.sent \/ turn'.stopping => turn'.stop)
  BY <1>1, <1>2, <1>4, SameTurn, TurnStays
<1>6. CASE UninstallReads \/ UninstallCalls
  <2>1. /\ UNCHANGED <<rows, shown>>
        /\ \/ \E r \in {"uninstalled", "failed"} : conn' = [conn EXCEPT !.op = "deliver", !.result = r]
           \/ conn' = [conn EXCEPT !.op = "call"]
    BY <1>6 DEF UninstallReads, UninstallCalls
  <2>2. /\ DOMAIN conn' = DOMAIN NewConn /\ conn'.proposal = NoProposal /\ conn'.opOf = conn.opOf /\ conn'.hid = conn.hid
        /\ (conn'.op = "deliver" => conn'.result \in {"uninstalled", "failed"})
    BY <1>2, <2>1 DEF NewConn
  <2>3. ConnWhole'
    BY <1>2, <1>3, <1>5, <2>2 DEF AssistantsInv, ConnWhole, SameUsed
  <2>4. Numbered'
    BY <1>2, <1>3, <1>5, <2>1, <2>2 DEF AssistantsInv, Numbered, NotEnded, SameUsed
  <2>5. ShownIsKept' /\ ProposalEndsOnce'
    BY <2>1 DEF AssistantsInv, ShownIsKept, ProposalEndsOnce, Event
  <2> QED BY <1>5, <2>3, <2>4, <2>5 DEF AssistantsInv
<1>7. CASE UninstallDelivers
  <2> DEFINE no == conn.opOf.no  e == Event(conn.result, {conn.opOf.id})  x == Event("error", {})
  <2>1. \/ UNCHANGED shown
        \/ KeepRow(no, e) /\ ShowEvent(no, e)
    BY <1>7 DEF UninstallDelivers, ShowEvent, Event
  <2>2. \E r : conn' = [conn EXCEPT !.op = "none", !.opOf = NoProposal, !.result = "", !.reference = r]
    <3> DEFINE over == [conn EXCEPT !.op = "none", !.opOf = NoProposal, !.result = "", !.reference = 0]
    <3>1. conn' = over \/ \E r : conn' = [over EXCEPT !.reference = r]
      BY <1>7 DEF UninstallDelivers
    <3>2. \A r : [over EXCEPT !.reference = r] = [conn EXCEPT !.op = "none", !.opOf = NoProposal, !.result = "", !.reference = r]
      BY <1>2 DEF NewConn
    <3> QED BY <3>1, <3>2
  <2>3. /\ DOMAIN conn' = DOMAIN NewConn /\ conn'.proposal = NoProposal /\ conn'.op = "none" /\ conn'.hid = conn.hid
        /\ conn'.opOf = NoProposal
    BY <1>2, <2>2 DEF NewConn
  <2>4. conn.result \in {"uninstalled", "failed"}
    BY <1>7 DEF UninstallDelivers, AssistantsInv, Numbered
  <2>5. /\ ShownIsKept' /\ ProposalEndsOnce' /\ \A s \in shown' : s \in shown \/ s[1] = no
    <3>1. CASE UNCHANGED shown
      BY <1>4, <3>1 DEF AssistantsInv, ShownIsKept, ProposalEndsOnce, Event
    <3>2. CASE KeepRow(no, e) /\ ShowEvent(no, e)
      <4>1. shown' \in {shown, shown \cup {<<no, e>>}} /\ <<no, e>> \in rows' /\ e.kind = conn.result
        BY <3>2 DEF KeepRow, ShowEvent, Event
      <4> HIDE DEF e, no
      <4>2. e.kind \notin {"expired", "cancelled"} /\ NotEnded(no)
        BY <1>2, <2>4, <4>1 DEF no
      <4> QED BY <1>4, <4>1, <4>2, Shows DEF AssistantsInv
    <3> QED BY <2>1, <3>1, <3>2
  <2>6. ConnWhole'
    BY <1>2, <1>3, <1>5, <2>3 DEF AssistantsInv, ConnWhole, SameUsed, NoProposal
  <2>7. Numbered'
    BY <1>2, <1>3, <1>5, <2>3, <2>5 DEF AssistantsInv, Numbered, SameUsed
  <2> QED BY <1>5, <2>5, <2>6, <2>7 DEF AssistantsInv
<1> QED BY <1>6, <1>7 DEF Uninstall

-----------------------------------------------------------------------------
(* A message is sent.                                                                      *)
LEMMA ResolvedIs ==
  ASSUME ConnWhole, NEW decision
  PROVE  LET c == Resolved(decision)
         IN /\ DOMAIN c = DOMAIN NewConn /\ c.proposal = NoProposal /\ c.op = conn.op /\ c.opOf = conn.opOf
            /\ c.result = conn.result /\ c.hid = IF decision = "ambiguous" THEN conn.hid ELSE 0
BY DEF ConnWhole, NewConn, Resolved

LEMMA DecideHolds ==
  ASSUME AssistantsInv, Ran, ~Active, NEW m, Decide(m)
  PROVE  AssistantsInv'
<1> DEFINE d == DecisionOf(m.text, m.files)  p == conn.proposal  hid == conn.hid
<1>1. UNCHANGED <<inv, turn, spec>> /\ p # NoProposal /\ d # "ambiguous"
  BY DEF Decide, ReusesHistory
<1> HIDE DEF d
<1>2. /\ conn.op = "none" /\ hid \in 0..used.messages /\ NotEnded(hid)
      /\ <<hid, Event("proposed", {p.id})>> \in shown
  BY <1>1 DEF AssistantsInv, Numbered, ConnWhole
<1> DEFINE c == Resolved(d)
<1>3. /\ DOMAIN c = DOMAIN NewConn /\ c.proposal = NoProposal /\ c.op = "none" /\ c.opOf = conn.opOf /\ c.hid = 0
  BY <1>1, <1>2, ResolvedIs DEF AssistantsInv
<1>4. \/ \E kind \in {"expired", "failed", "cancelled"} :
           /\ EndedProposal(kind, p, hid)
           /\ conn' = c \/ conn' = [c EXCEPT !.reference = 0]
      \/ /\ conn' = [c EXCEPT !.op = "read", !.opOf = [p EXCEPT !.no = hid]]
         /\ UNCHANGED <<rows, shown, used>>
  BY DEF Decide, DispatchUninstall, d
<1> HIDE DEF c
<1>5. rows \subseteq rows' /\ (Fault \/ UNCHANGED used)
  BY <1>4 DEF EndedProposal, KeepRow
<1>6. SameUsed
  BY <1>5, FaultIs DEF AssistantsInv
<1>7. /\ TurnWhole' /\ SpecWhole' /\ SpecOfTurn' /\ Fairly' /\ Planned' /\ RanSince'
      /\ InstalledSoFar' /\ EndsKept' /\ ~Active'
      /\ turn'.no \in Nat /\ (turn'.sent \/ turn'.stopping => turn'.stop)
  BY <1>1, <1>5, SameTurn, TurnStays
<1>8. CASE /\ conn' = [c EXCEPT !.op = "read", !.opOf = [p EXCEPT !.no = hid]]
           /\ UNCHANGED <<rows, shown, used>>
  <2>1. /\ DOMAIN conn' = DOMAIN NewConn /\ conn'.proposal = NoProposal /\ conn'.op = "read"
        /\ conn'.opOf.no = hid /\ conn'.hid = 0
    <3>1. DOMAIN p = DOMAIN NoProposal
      BY DEF AssistantsInv, ConnWhole
    <3> HIDE DEF p, hid
    <3> QED BY <1>3, <1>8, <3>1 DEF NewConn, NoProposal
  <2>2. ConnWhole'
    BY <1>2, <1>7, <1>8, <2>1 DEF AssistantsInv, ConnWhole
  <2>3. Numbered'
    <3>1. \A s \in shown : s[1] \in 0..used.messages
      BY DEF AssistantsInv, Numbered
    <3>2. \A s \in shown' : s[1] = conn'.opOf.no => s[2].kind \notin Endings
      BY <1>2, <1>8, <2>1 DEF NotEnded
    <3> QED BY <1>2, <1>7, <1>8, <2>1, <3>1, <3>2 DEF Numbered, NotEnded
  <2>4. ShownIsKept' /\ ProposalEndsOnce'
    BY <1>8 DEF AssistantsInv, ShownIsKept, ProposalEndsOnce, Event
  <2> QED BY <1>7, <2>2, <2>3, <2>4 DEF AssistantsInv
<1>9. CASE \E kind \in {"expired", "failed", "cancelled"} :
             /\ EndedProposal(kind, p, hid)
             /\ conn' = c \/ conn' = [c EXCEPT !.reference = 0]
  <2>1. /\ DOMAIN conn' = DOMAIN NewConn /\ conn'.proposal = NoProposal /\ conn'.op = "none" /\ conn'.opOf = conn.opOf
        /\ conn'.hid = 0
    BY <1>3, <1>9 DEF NewConn
  <2>2. PICK kind \in {"expired", "failed", "cancelled"} : EndedProposal(kind, p, hid)
    BY <1>9
  <2> DEFINE e == Event(kind, {p.id})
  <2>3. UNCHANGED shown \/ (KeepRow(hid, e) /\ ShowEvent(hid, e))
    BY <2>2 DEF EndedProposal, ShowEvent, Event
  <2>4. ShownIsKept' /\ ProposalEndsOnce' /\ \A s \in shown' : s \in shown \/ s[1] = hid
    <3>1. CASE UNCHANGED shown
      BY <1>5, <3>1 DEF AssistantsInv, ShownIsKept, ProposalEndsOnce, Event
    <3>2. CASE KeepRow(hid, e) /\ ShowEvent(hid, e)
      <4>1. shown' \in {shown, shown \cup {<<hid, e>>}} /\ <<hid, e>> \in rows' /\ e.kind = kind /\ e.ids = {p.id}
        BY <3>2 DEF KeepRow, ShowEvent, Event
      <4> HIDE DEF e
      <4>2. <<hid, Event("proposed", e.ids)>> \in shown
        BY <1>2, <4>1
      <4> HIDE DEF hid, p
      <4> QED BY <1>2, <1>5, <4>1, <4>2, Shows DEF AssistantsInv
    <3> QED BY <2>3, <3>1, <3>2
  <2>5. ConnWhole'
    BY <1>6, <1>7, <2>1 DEF AssistantsInv, ConnWhole, SameUsed
  <2>6. Numbered'
    <3>1. \A s \in shown' : s[1] \in 0..used.messages
      BY <1>2, <2>4 DEF AssistantsInv, Numbered
    <3> QED BY <1>6, <1>7, <2>1, <3>1 DEF Numbered, SameUsed
  <2> QED BY <1>7, <2>4, <2>5, <2>6 DEF AssistantsInv
<1> QED BY <1>4, <1>8, <1>9

LEMMA SendMessageHolds ==
  ASSUME AssistantsShaped, AssistantsInv, Ran, ~Active, conn.op = "none", NEW m \in Messages, SendMessage(m)
  PROVE  AssistantsInv'
<1>1. /\ UNCHANGED <<inv, rows, shown>> /\ spec' = NewSpec /\ used' = [used EXCEPT !.messages = @ + 1]
      /\ turn' = [NewTurn EXCEPT !.at = "queued", !.no = Sent, !.text = m.text, !.scope = m.scope,
                        !.files = m.files, !.resume = m.resume]
      /\ conn' = [(IF conn.proposal = NoProposal THEN conn ELSE Resolved("ambiguous")) EXCEPT !.hid = 0]
  BY DEF SendMessage, BeginTurn, TurnIs
<1>2. /\ DOMAIN turn' = TurnFields /\ turn'.at = "queued" /\ turn'.no = Sent /\ turn'.text = m.text /\ turn'.query = <<>>
      /\ turn'.prep = Prepared("none") /\ turn'.done = 0 /\ turn'.out = {} /\ ~turn'.sent /\ ~turn'.stopping
  BY <1>1 DEF NewTurn, TurnFields
<1>3. IsText(m.text)
  BY DEF AssistantsShaped
<1>4. TurnWhole'
  BY <1>2, <1>3, NoText, NewTurnFields DEF TurnWhole
<1>5. SpecWhole' /\ SpecOfTurn' /\ Fairly' /\ spec'.prep.kind = "none"
  BY <1>1, <1>2, NoSpec
<1>6. Active'
  BY <1>2 DEF Active
<1>7. Planned'
  BY <1>2, <1>5, PlansStay DEF AssistantsInv, Prepared
<1>8. RanSince'
  BY <1>1, <1>2, RanStays DEF AssistantsInv
<1>9. InstalledSoFar' /\ EndsKept'
  BY <1>2 DEF InstalledSoFar, EndsKept, Installing, Outcomes
<1>10. /\ DOMAIN conn' = DOMAIN NewConn /\ conn'.proposal = NoProposal /\ conn'.op = "none" /\ conn'.opOf = conn.opOf
       /\ conn'.hid = 0
  <2> DEFINE c == IF conn.proposal = NoProposal THEN conn ELSE Resolved("ambiguous")
  <2>1. DOMAIN c = DOMAIN NewConn /\ c.proposal = NoProposal /\ c.op = "none" /\ c.opOf = conn.opOf
    BY ResolvedIs DEF AssistantsInv, ConnWhole
  <2>2. conn' = [c EXCEPT !.hid = 0]
    BY <1>1
  <2> HIDE DEF c
  <2> QED BY <2>1, <2>2 DEF NewConn
<1>11. used.messages \in Nat /\ DOMAIN used' = {"messages", "others", "faults"} /\ used'.messages = used.messages + 1
       /\ Sent = used.messages + 1
  BY <1>1 DEF AssistantsInv, ConnWhole, Sent
<1>12. ConnWhole'
  BY <1>2, <1>10, <1>11 DEF AssistantsInv, ConnWhole
<1>13. Numbered'
  <2>1. \A s \in shown' : s[1] \in 0..used.messages
    BY <1>1 DEF AssistantsInv, Numbered
  <2>2. \A s \in shown' : s[1] \in 0..used'.messages /\ s[1] # turn'.no
    BY <1>2, <1>11, <2>1
  <2> QED BY <1>2, <1>10, <1>11, <2>2 DEF Numbered, NotEnded
<1>14. ShownIsKept' /\ ProposalEndsOnce'
  BY <1>1 DEF AssistantsInv, ShownIsKept, ProposalEndsOnce, Event
<1> QED BY <1>4, <1>5, <1>7, <1>8, <1>9, <1>12, <1>13, <1>14 DEF AssistantsInv

LEMMA BeginsSound ==
  ASSUME AssistantsInit
  PROVE  AssistantsInv
<1>1. /\ turn = NewTurn /\ spec = NewSpec /\ conn = NewConn /\ rows = {} /\ shown = {}
      /\ used = [messages |-> 0, others |-> 0, faults |-> 0]
  BY DEF AssistantsInit
<1>2. TurnWhole /\ SpecWhole
  BY <1>1, NoText DEF TurnWhole, SpecWhole, NewTurn
<1>3. ConnWhole
  BY <1>1 DEF ConnWhole, NewConn, NoProposal, NewTurn
<1>4. SpecOfTurn /\ Fairly /\ Planned /\ RanSince
  BY <1>1 DEF SpecOfTurn, Fairly, Planned, RanSince, Active, NewTurn, NewSpec, Prepared
<1>5. InstalledSoFar /\ EndsKept
  BY <1>1 DEF InstalledSoFar, EndsKept, Installing, Outcomes, NewTurn
<1>6. Numbered
  BY <1>1 DEF Numbered, Active, NewTurn, NewConn
<1>7. ShownIsKept /\ ProposalEndsOnce
  BY <1>1 DEF ShownIsKept, ProposalEndsOnce
<1> QED BY <1>2, <1>3, <1>4, <1>5, <1>6, <1>7 DEF AssistantsInv

-----------------------------------------------------------------------------
(* The directories and the plans drawn up from them.                                       *)
LEMMA EmptyFair ==
  ASSUME NEW S, NEW score
  PROVE  FairPool(S, score, {})
BY DEF FairPool

LEMMA OffersAre ==
  ASSUME AssistantsShaped, NEW S, S \subseteq Assistant
  PROVE  S \subseteq Nat /\ IsFiniteSet(S) /\ OffersHere \subseteq Assistant /\ MaxCandidates \in Nat \ {0}
<1>1. Assistant \subseteq Nat /\ IsFiniteSet(Assistant)
  BY DEF AssistantsShaped, CandidatesNumbered
<1> QED BY <1>1, FS_Subset DEF AssistantsShaped, CandidatesNumbered, OffersHere

LEMMA TextPoolFair ==
  ASSUME AssistantsShaped, NEW text, IsText(text), NEW installed, NEW enabled
  PROVE  FairPool(OffersHere \ installed, TextScores(text), CapabilityCandidates(text, OffersHere, installed, enabled).shortlist)
<1> DEFINE S == OffersHere \ installed  score == TextScores(text)
<1>1. S \subseteq Assistant
  BY OffersAre
<1>2. \A a \in Assistant : score[a] \in Nat
  BY ScoreIs DEF TextScores
<1>3. Scored(S, score)
  <2> HIDE DEF S, score
  <2> QED BY <1>1, <1>2, OffersAre DEF Scored
<1>4. CapabilityCandidates(text, OffersHere, installed, enabled).shortlist \in {{}, BoundedPool(S, score)}
  BY DEF CapabilityCandidates, TextScores
<1> HIDE DEF S, score
<1>5. FairPool(S, score, BoundedPool(S, score)) /\ FairPool(S, score, {})
  BY <1>1, <1>3, OffersAre, PoolFair, EmptyFair
<1> QED BY <1>4, <1>5 DEF S, score

LEMMA InstallPoolFair ==
  ASSUME AssistantsShaped, NEW query, IsText(query)
  PROVE  FairPool(OffersHere, InstallScores(query), InstallShortlist(query, OffersHere))
<1> DEFINE S == OffersHere  score == InstallScores(query)
<1>1. S \subseteq Assistant
  BY OffersAre
<1>2. \A a \in Assistant : score[a] \in Nat
  BY ScoreIs, IdentityIs, StrongerIs DEF InstallScores
<1>3. Scored(S, score)
  <2> HIDE DEF S, score
  <2> QED BY <1>1, <1>2, OffersAre DEF Scored
<1>4. InstallShortlist(query, OffersHere) \in {{}, BoundedPool(S, score)}
  BY DEF InstallShortlist, InstallScores
<1> HIDE DEF S, score
<1>5. FairPool(S, score, BoundedPool(S, score)) /\ FairPool(S, score, {})
  BY <1>1, <1>3, OffersAre, PoolFair, EmptyFair
<1> QED BY <1>4, <1>5 DEF S, score

LEMMA UninstallPoolFair ==
  ASSUME AssistantsShaped, NEW query, IsText(query), NEW S, S \subseteq Assistant, NEW refused
  PROVE  FairPool(S, UninstallScores(query, refused), UninstallShortlist(query, S, refused))
<1> DEFINE score == UninstallScores(query, refused)
<1>1. \A a \in Assistant : score[a] \in Nat
  BY IdentityIs DEF UninstallScores
<1>2. Scored(S, score)
  <2> HIDE DEF score
  <2> QED BY <1>1, OffersAre DEF Scored
<1>3. UninstallShortlist(query, S, refused) \in {{}, BoundedPool(S, score)}
  BY DEF UninstallShortlist, UninstallScores
<1> HIDE DEF score
<1>4. FairPool(S, score, BoundedPool(S, score)) /\ FairPool(S, score, {})
  BY <1>2, OffersAre, PoolFair, EmptyFair
<1> QED BY <1>3, <1>4 DEF score

LEMMA GapIs ==
  ASSUME AssistantsShaped, IsText(turn.text), NEW job, DOMAIN job = DOMAIN NewSpec
  PROVE  LET g == [Gap(job) EXCEPT !.at = "planning"]
         IN /\ DOMAIN g = DOMAIN NewSpec /\ g.at = "planning" /\ g.prep = job.prep
            /\ g.gap = "some" => FairPool(OffersHere \ InstalledIn(g.inv), TextScores(turn.text), g.shortlist)
<1> DEFINE c == CapabilityCandidates(turn.text, OffersHere, InstalledIn(inv), turn.scope)
           yes == [job EXCEPT !.gap = "some", !.inv = inv, !.enabled = c.enabled, !.shortlist = c.shortlist]
           no == [job EXCEPT !.gap = "none"]
<1>1. Gap(job) \in {yes, no}
  BY DEF Gap, OffersHere
<1>2. FairPool(OffersHere \ InstalledIn(inv), TextScores(turn.text), c.shortlist)
  BY TextPoolFair
<1> HIDE DEF c
<1>3. CASE Gap(job) = yes
  BY <1>2, <1>3 DEF NewSpec
<1>4. CASE Gap(job) = no
  BY <1>4 DEF NewSpec
<1> QED BY <1>1, <1>3, <1>4

Members(ids) == {ids[i] : i \in 1..Len(ids)}

PreparedSound(p, selected, scope) ==
  /\ p.kind \in {"none", "error", "plan"}
  /\ p.kind = "plan" => p.plan.ids \in Seq(Assistant) /\ p.plan.scope = scope /\ Members(p.plan.ids) = selected

LEMMA PreparedIs ==
  ASSUME AssistantsShaped, NEW enabled, NEW selected, selected \subseteq Assistant, NEW terminal, NEW dispatched, NEW named
  PROVE  PreparedSound(PreparedPlan(enabled, selected, terminal, dispatched, named), selected, enabled \cup dispatched)
<1> DEFINE ids == InOrder(selected)
           q == [Prepared("plan") EXCEPT !.plan = [ids |-> ids, scope |-> enabled \cup dispatched,
                                                   terminal |-> terminal, named |-> named]]
           p == PreparedPlan(enabled, selected, terminal, dispatched, named)
<1>1. ids \in Seq(selected) /\ {ids[i] : i \in 1..Len(ids)} = selected
  BY OffersAre, InOrderHolds
<1>2. ids \in Seq(Assistant)
  <2> HIDE DEF ids
  <2> QED BY <1>1
<1>3. p \in {Prepared("none"), Prepared("error"), q}
  BY DEF PreparedPlan
<1> HIDE DEF ids
<1>4. q.kind = "plan" /\ q.plan.ids = ids /\ q.plan.scope = enabled \cup dispatched
  BY DEF Prepared
<1>5. Prepared("none").kind = "none" /\ Prepared("error").kind = "error"
  BY DEF Prepared
<1> HIDE DEF p, q
<1>6. p.kind \in {"none", "error", "plan"} /\ (p.kind = "plan" => p = q)
  BY <1>3, <1>4, <1>5
<1>7. /\ p.kind \in {"none", "error", "plan"}
      /\ p.kind = "plan" => /\ p.plan.ids \in Seq(Assistant) /\ p.plan.scope = enabled \cup dispatched
                            /\ Members(p.plan.ids) = selected
  BY <1>1, <1>2, <1>4, <1>6 DEF Members
<1> QED BY <1>7 DEF p, PreparedSound

SpecSound(prep) ==
  prep.kind \in {"none", "error", "plan", "fault"} /\ (prep.kind = "plan" => PlanInstalls(prep.plan, turn.scope, {}))

LEMMA PlansSound ==
  ASSUME AssistantsShaped, NEW job, job.gap = "some" => job.shortlist \subseteq Assistant, NEW prep \in PlansOf(job)
  PROVE  SpecSound(prep)
<1>0. \A kind \in {"none", "error", "fault"} : SpecSound(Prepared(kind))
  BY DEF SpecSound, Prepared
<1>1. ASSUME NEW answer, job.gap = "some" PROVE SpecSound(PlanGap(job, answer))
  <2> DEFINE missing == SelectedIds(job, answer) \cap job.shortlist
             p == PreparedPlan(turn.scope, missing, FALSE, missing, {})
  <2>1. PlanGap(job, answer) \in {Prepared("error"), p}
    BY DEF PlanGap
  <2>2. missing \subseteq Assistant
    BY <1>1
  <2> HIDE DEF missing
  <2>3. /\ p.kind \in {"none", "error", "plan"}
        /\ p.kind = "plan" => /\ p.plan.ids \in Seq(Assistant) /\ p.plan.scope = turn.scope \cup missing
                              /\ Members(p.plan.ids) = missing
    <3>1. PreparedSound(p, missing, turn.scope \cup missing)
      BY <2>2, PreparedIs
    <3> QED BY <3>1 DEF PreparedSound
  <2> HIDE DEF p
  <2>4. SpecSound(p)
    BY <2>3 DEF SpecSound, PlanInstalls, Members
  <2> QED BY <1>0, <2>1, <2>4
<1>2. \/ prep \in {Prepared("none"), Prepared("error")}
      \/ job.gap = "some" /\ \E answer \in PlanAnswers : prep = PlanGap(job, answer)
  BY DEF PlansOf
<1> QED BY <1>0, <1>1, <1>2

-----------------------------------------------------------------------------
(* The steps of the route.                                                                 *)
Routing == {"queued", "classify", "wait", "gap", "read", "select", "creators", "readInstalled", "readRegistry",
            "selectOne", "creator"}
RouteFields == {"at", "end", "pick", "version", "prep"} \cup ReadFields

LEMMA RouteHolds ==
  ASSUME AssistantsInv, Ran, turn.at \in Routing, Alters(turn', RouteFields), IsText(turn'.text), IsText(turn'.query),
         turn'.at \in Routing \cup {"guide", "prepared", "propose", "finish"}, turn'.at = "finish" => turn'.end = "error",
         UNCHANGED <<conn, rows, shown>>, SameUsed, SpecWhole', SpecOfTurn', Fairly', Planned', RanSince'
  PROVE  AssistantsInv'
<1>1. Active /\ Active' /\ turn.at \notin Installing \cup Outcomes
  BY DEF Active, Routing, Installing, Outcomes
<1>2. /\ turn'.no = turn.no /\ turn'.sent = turn.sent /\ turn'.stopping = turn.stopping /\ turn'.stop = turn.stop
      /\ turn'.done = turn.done /\ turn'.out = turn.out
  BY DEF Alters, RouteFields, ReadFields, TurnFields
<1>3. TurnWhole'
  BY NewTurnFields DEF TurnWhole, Alters
<1>4. InstalledSoFar' /\ EndsKept'
  BY <1>1, <1>2 DEF AssistantsInv, InstalledSoFar, EndsKept, Installing, Outcomes, Routing
<1>5. SameConn
  BY ReferenceIs DEF AssistantsInv
<1>6. turn'.no \in Nat /\ (turn'.sent \/ turn'.stopping => turn'.stop)
  BY <1>2 DEF AssistantsInv, ConnWhole, Numbered
<1>7. ConnWhole' /\ Numbered' /\ ShownIsKept' /\ ProposalEndsOnce'
  BY <1>1, <1>2, <1>5, <1>6, NumbersStay
<1> QED BY <1>3, <1>4, <1>7 DEF AssistantsInv

(* Without a speculation, and not where a directory is.                                    *)
LEMMA RouteGoesOn ==
  ASSUME AssistantsInv, Ran, turn.at \in Routing, Alters(turn', RouteFields), IsText(turn'.text), IsText(turn'.query),
         turn'.at \in (Routing \ {"select", "selectOne"}) \cup {"guide", "prepared", "propose", "finish"},
         turn'.at = "finish" => turn'.end = "error",
         UNCHANGED <<conn, rows, shown>>, SameUsed, spec' = NewSpec,
         turn'.prep = turn.prep \/ turn'.prep.kind \in {"none", "error"} \/ Planned'
  PROVE  AssistantsInv'
<1>1. Active /\ Active'
  BY DEF Active, Routing
<1>2. SpecWhole' /\ SpecOfTurn' /\ Fairly' /\ spec'.prep.kind = "none"
  BY NoSpec
<1>3. turn'.scope = turn.scope
  BY DEF Alters, RouteFields, ReadFields, TurnFields
<1>4. Planned'
  BY <1>1, <1>2, <1>3, PlansStay DEF AssistantsInv
<1>5. RanSince'
  BY <1>1, RanStays DEF AssistantsInv
<1> QED BY <1>2, <1>4, <1>5, RouteHolds

LEMMA OverIs ==
  ASSUME TurnWhole, NEW place, TurnIs(RouteOver(place))
  PROVE  Alters(turn', RouteFields) /\ turn'.at = place /\ IsText(turn'.text) /\ IsText(turn'.query) /\ turn'.prep = turn.prep
<1>1. Alters(turn', {"at"} \cup ReadFields) /\ turn'.at = place /\ IsText(turn'.text) /\ IsText(turn'.query)
  BY RouteOverIs DEF TurnIs
<1> QED BY <1>1 DEF Alters, RouteFields, ReadFields, TurnFields

LEMMA OverEndIs ==
  ASSUME TurnWhole, NEW place, NEW end, TurnIs([RouteOver(place) EXCEPT !.end = end])
  PROVE  /\ Alters(turn', RouteFields) /\ turn'.at = place /\ IsText(turn'.text) /\ IsText(turn'.query) /\ turn'.prep = turn.prep
         /\ turn'.end = end
<1> DEFINE t == RouteOver(place)
<1>1. Alters(t, {"at"} \cup ReadFields) /\ t.at = place /\ IsText(t.text) /\ IsText(t.query)
  BY RouteOverIs
<1>2. turn' = [t EXCEPT !.end = end]
  BY DEF TurnIs
<1> HIDE DEF t
<1> QED BY <1>1, <1>2 DEF Alters, RouteFields, ReadFields, TurnFields

LEMMA OverPrepIs ==
  ASSUME TurnWhole, NEW place, NEW prep, TurnIs([RouteOver(place) EXCEPT !.prep = prep])
  PROVE  /\ Alters(turn', RouteFields) /\ turn'.at = place /\ IsText(turn'.text) /\ IsText(turn'.query) /\ turn'.prep = prep
         /\ turn'.scope = turn.scope
<1> DEFINE t == RouteOver(place)
<1>1. Alters(t, {"at"} \cup ReadFields) /\ t.at = place /\ IsText(t.text) /\ IsText(t.query)
  BY RouteOverIs
<1>2. turn' = [t EXCEPT !.prep = prep]
  BY DEF TurnIs
<1> HIDE DEF t
<1> QED BY <1>1, <1>2 DEF Alters, RouteFields, ReadFields, TurnFields

LEMMA OverVersionIs ==
  ASSUME TurnWhole, NEW place, NEW version, TurnIs([RouteOver(place) EXCEPT !.version = version])
  PROVE  /\ Alters(turn', RouteFields) /\ turn'.at = place /\ IsText(turn'.text) /\ IsText(turn'.query) /\ turn'.prep = turn.prep
<1> DEFINE t == RouteOver(place)
<1>1. Alters(t, {"at"} \cup ReadFields) /\ t.at = place /\ IsText(t.text) /\ IsText(t.query)
  BY RouteOverIs
<1>2. turn' = [t EXCEPT !.version = version]
  BY DEF TurnIs
<1> HIDE DEF t
<1> QED BY <1>1, <1>2 DEF Alters, RouteFields, ReadFields, TurnFields

LEMMA RoutesTo ==
  ASSUME TurnWhole, NEW place, TurnIs(TurnAt(place))
  PROVE  /\ Alters(turn', RouteFields) /\ turn'.at = place /\ IsText(turn'.text) /\ IsText(turn'.query) /\ turn'.prep = turn.prep
         /\ turn'.text = turn.text
<1>1. Alters(turn', {"at"}) /\ turn'.at = place
  BY TurnAtIs DEF TurnIs
<1> QED BY <1>1 DEF Alters, RouteFields, ReadFields, TurnFields, TurnWhole

LEMMA FailsRoute ==
  ASSUME AssistantsInv, Ran, turn.at \in Routing, RouteFails,
         UNCHANGED <<conn, rows, shown>>, SameUsed, spec' = NewSpec
  PROVE  AssistantsInv'
<1>1. /\ Alters(turn', RouteFields) /\ turn'.at = "finish" /\ IsText(turn'.text) /\ IsText(turn'.query) /\ turn'.prep = turn.prep
      /\ turn'.end = "error"
  BY OverEndIs DEF RouteFails, AssistantsInv
<1> QED BY <1>1, RouteGoesOn

LEMMA OverHolds ==
  ASSUME AssistantsInv, Ran, turn.at \in Routing, NEW place \in {"guide", "prepared"}, TurnIs(RouteOver(place)),
         UNCHANGED <<conn, rows, shown>>, SameUsed, spec' = NewSpec
  PROVE  AssistantsInv'
<1>1. Alters(turn', RouteFields) /\ turn'.at = place /\ IsText(turn'.text) /\ IsText(turn'.query) /\ turn'.prep = turn.prep
  BY OverIs DEF AssistantsInv
<1> QED BY <1>1, RouteGoesOn

(* A plan that is sound, or already there, is prepared.                                    *)
LEMMA PreparedGoes ==
  ASSUME AssistantsInv, Ran, turn.at \in Routing, NEW prep, TurnIs([RouteOver("prepared") EXCEPT !.prep = prep]),
         UNCHANGED <<conn, rows, shown>>, SameUsed, spec' = NewSpec,
         prep.kind \in {"none", "error", "plan"}, prep.kind = "plan" => PlanInstalls(prep.plan, turn.scope, ran)
  PROVE  AssistantsInv'
<1>1. /\ Alters(turn', RouteFields) /\ turn'.at = "prepared" /\ IsText(turn'.text) /\ IsText(turn'.query) /\ turn'.prep = prep
      /\ turn'.scope = turn.scope
  BY OverPrepIs DEF AssistantsInv
<1>2. Active /\ Active'
  BY <1>1 DEF Active, Routing
<1>3. ran \subseteq ran'
  BY <1>2, RanGrows
<1>4. Planned'
  BY <1>1, <1>2, <1>3 DEF Planned, PlanInstalls, NewSpec, Prepared
<1> QED BY <1>1, <1>4, RouteGoesOn

LEMMA SpecSteps ==
  ASSUME AssistantsInv, Ran, UNCHANGED <<inv, turn, conn, rows, shown>>, SameUsed, turn.at \in {"classify", "wait"},
         DOMAIN spec' = DOMAIN NewSpec, spec'.at \in {"pending", "planning", "done"}, SpecSound(spec'.prep),
         spec'.at = "planning" /\ spec'.gap = "some" =>
           FairPool(OffersHere \ InstalledIn(spec'.inv), TextScores(turn.text), spec'.shortlist)
  PROVE  AssistantsInv'
<1>1. Alters(turn', RouteFields) /\ IsText(turn'.text) /\ IsText(turn'.query) /\ turn.at \in Routing
  BY NewTurnFields DEF AssistantsInv, TurnWhole, Alters, Routing
<1>2. SpecWhole' /\ SpecOfTurn' /\ Fairly'
  BY DEF SpecWhole, SpecOfTurn, Fairly
<1>3. Active /\ Active'
  BY DEF Active
<1>4. ran \subseteq ran'
  BY <1>3, RanGrows
<1>5. Planned'
  <2>1. turn'.prep.kind # "none" => Active'
    BY <1>3
  <2> QED BY <1>3, <1>4 DEF AssistantsInv, Planned, PlanInstalls, SpecSound
<1>6. RanSince'
  BY <1>3, RanStays DEF AssistantsInv
<1> QED BY <1>1, <1>2, <1>5, <1>6, RouteHolds DEF Routing

LEMMA SpecTurn ==
  ASSUME AssistantsInv, spec.at # "none"
  PROVE  turn.at \in {"classify", "wait"}
<1>1. NewSpec.at = "none"
  BY DEF NewSpec
<1> QED BY <1>1 DEF AssistantsInv, SpecOfTurn

LEMMA SpecGapHolds ==
  ASSUME AssistantsShaped, AssistantsInv, Ran, SpecGap
  PROVE  AssistantsInv'
<1>1. /\ UNCHANGED <<inv, turn, conn, rows, shown>> /\ spec.at = "pending" /\ (Fault \/ UNCHANGED used)
      /\ \/ spec' = [Gap(spec) EXCEPT !.at = "planning"]
         \/ spec' = [spec EXCEPT !.at = "done", !.prep = Prepared("fault")]
  BY DEF SpecGap
<1>2. SameUsed
  BY <1>1, FaultIs DEF AssistantsInv
<1>3. turn.at \in {"classify", "wait"} /\ DOMAIN spec = DOMAIN NewSpec /\ SpecSound(spec.prep) /\ IsText(turn.text)
  BY <1>1, SpecTurn DEF AssistantsInv, SpecWhole, Planned, SpecSound, TurnWhole
<1>4. CASE spec' = [Gap(spec) EXCEPT !.at = "planning"]
  <2> DEFINE g == [Gap(spec) EXCEPT !.at = "planning"]
  <2>1. /\ DOMAIN g = DOMAIN NewSpec /\ g.at = "planning" /\ g.prep = spec.prep
        /\ g.gap = "some" => FairPool(OffersHere \ InstalledIn(g.inv), TextScores(turn.text), g.shortlist)
    BY <1>3, GapIs
  <2> HIDE DEF g
  <2>2. spec' = g
    BY <1>4 DEF g
  <2> QED BY <1>1, <1>2, <1>3, <2>1, <2>2, SpecSteps
<1>5. CASE spec' = [spec EXCEPT !.at = "done", !.prep = Prepared("fault")]
  <2>1. DOMAIN spec' = DOMAIN NewSpec /\ spec'.at = "done" /\ SpecSound(spec'.prep)
    BY <1>3, <1>5 DEF NewSpec, SpecSound, Prepared
  <2> QED BY <1>1, <1>2, <1>3, <2>1, SpecSteps
<1> QED BY <1>1, <1>4, <1>5

LEMMA SpecPlanHolds ==
  ASSUME AssistantsShaped, AssistantsInv, Ran, SpecPlan
  PROVE  AssistantsInv'
<1>1. UNCHANGED <<inv, turn, conn, rows, shown, used>> /\ spec.at = "planning"
  BY DEF SpecPlan
<1>2. PICK prep \in PlansOf(spec) : spec' = [NewSpec EXCEPT !.at = "done", !.prep = prep]
  BY DEF SpecPlan
<1>3. SameUsed
  BY <1>1, FaultIs DEF AssistantsInv
<1>4. turn.at \in {"classify", "wait"}
  BY <1>1, SpecTurn
<1>5. spec.gap = "some" => spec.shortlist \subseteq Assistant
  BY <1>1, OffersAre DEF AssistantsInv, Fairly, FairPool
<1>6. SpecSound(prep)
  BY <1>5, PlansSound
<1>7. DOMAIN spec' = DOMAIN NewSpec /\ spec'.at = "done" /\ spec'.prep = prep
  BY <1>2 DEF NewSpec
<1> QED BY <1>1, <1>3, <1>4, <1>6, <1>7, SpecSteps

LEMMA SubmitHolds ==
  ASSUME AssistantsInv, Ran, Submit
  PROVE  AssistantsInv'
<1>1. /\ turn.at = "queued" /\ UNCHANGED <<inv, conn, rows, shown>> /\ (Fault \/ UNCHANGED used) /\ turn.at \in Routing
      /\ spec = NewSpec
  BY DEF Submit, Routing, AssistantsInv, SpecOfTurn
<1>2. SameUsed
  BY <1>1, FaultIs DEF AssistantsInv
<1>3. CASE TurnIs([RouteOver("finish") EXCEPT !.end = "error"]) /\ UNCHANGED spec
  BY <1>1, <1>2, <1>3, FailsRoute DEF RouteFails
<1>4. CASE TurnIs(TurnAt("classify")) /\ (spec' = [NewSpec EXCEPT !.at = "pending"] \/ spec' = NewSpec)
  <2>1. /\ Alters(turn', RouteFields) /\ turn'.at = "classify" /\ IsText(turn'.text) /\ IsText(turn'.query)
        /\ turn'.prep = turn.prep
    BY <1>4, RoutesTo DEF AssistantsInv
  <2>2. CASE spec' = NewSpec
    BY <1>1, <1>2, <2>1, <2>2, RouteGoesOn DEF Routing
  <2>3. CASE spec' = [NewSpec EXCEPT !.at = "pending"]
    <3>1. DOMAIN spec' = DOMAIN NewSpec /\ spec'.at = "pending" /\ spec'.prep.kind = "none"
      BY <2>3 DEF NewSpec, Prepared
    <3>2. SpecWhole' /\ SpecOfTurn' /\ Fairly'
      BY <2>1, <3>1 DEF SpecWhole, SpecOfTurn, Fairly
    <3>3. Active /\ Active'
      BY <1>1, <2>1 DEF Active
    <3>4. turn'.scope = turn.scope
      BY <2>1 DEF Alters, RouteFields, ReadFields, TurnFields
    <3>5. Planned'
      BY <2>1, <3>1, <3>3, <3>4, PlansStay DEF AssistantsInv
    <3>6. RanSince'
      BY <2>1, <3>3, RanStays DEF AssistantsInv
    <3> QED BY <1>1, <1>2, <2>1, <3>2, <3>5, <3>6, RouteHolds DEF Routing
  <2> QED BY <1>4, <2>2, <2>3
<1> QED BY <1>3, <1>4 DEF Submit

(* The directory a lifecycle answer goes on to.                                            *)
LEMMA TargetIs ==
  ASSUME TurnWhole, NEW place, NEW q, IsText(q), NEW follows,
         turn' = [[turn EXCEPT !.query = q, !.follows = follows] EXCEPT !.at = place]
  PROVE  /\ Alters(turn', RouteFields) /\ turn'.at = place /\ IsText(turn'.text) /\ IsText(turn'.query) /\ turn'.prep = turn.prep
<1>1. DOMAIN turn = TurnFields
  BY NewTurnFields DEF TurnWhole
<1> DEFINE t == [turn EXCEPT !.query = q, !.follows = follows]
<1>2. DOMAIN t = TurnFields /\ t.query = q /\ \A f \in TurnFields \ {"query", "follows"} : t[f] = turn[f]
  BY <1>1 DEF TurnFields
<1>3. turn' = [t EXCEPT !.at = place]
  OBVIOUS
<1> HIDE DEF t
<1> QED BY <1>2, <1>3 DEF Alters, RouteFields, ReadFields, TurnFields, TurnWhole

LEMMA ClassifyHolds ==
  ASSUME AssistantsShaped, AssistantsInv, Ran, Classify
  PROVE  AssistantsInv'
<1>1. turn.at = "classify" /\ UNCHANGED <<inv, conn, rows, shown, used>> /\ turn.at \in Routing
  BY DEF Classify, Routing
<1>2. SameUsed
  BY <1>1, FaultIs DEF AssistantsInv
<1>3. \/ TurnIs(RouteOver("prepared")) /\ spec' = NewSpec
      \/ TurnIs(TurnAt(IF spec.at = "none" THEN "gap" ELSE "wait")) /\ UNCHANGED spec
      \/ (\E b \in RouteBodies, q \in Queries : TurnIs(Lifecycle(b, q))) /\ spec' = NewSpec
      \/ RouteFails /\ spec' = NewSpec
  BY DEF Classify, CancelledSpec
<1>4. CASE TurnIs(RouteOver("prepared")) /\ spec' = NewSpec
  BY <1>1, <1>2, <1>4, OverHolds
<1>5. CASE TurnIs(TurnAt(IF spec.at = "none" THEN "gap" ELSE "wait")) /\ UNCHANGED spec
  <2>1. PICK place \in {"gap", "wait"} : TurnIs(TurnAt(place)) /\ (place = "gap" <=> spec.at = "none")
    BY <1>5
  <2>2. /\ Alters(turn', RouteFields) /\ turn'.at = place /\ IsText(turn'.text) /\ IsText(turn'.query)
        /\ turn'.prep = turn.prep /\ turn'.text = turn.text
    BY <2>1, RoutesTo DEF AssistantsInv
  <2>3. turn'.scope = turn.scope
    BY <2>2 DEF Alters, RouteFields, ReadFields, TurnFields
  <2>4. Active /\ Active'
    BY <1>1, <2>2 DEF Active
  <2>5. SpecWhole' /\ SpecOfTurn' /\ Fairly'
    BY <1>1, <1>5, <2>1, <2>2 DEF AssistantsInv, SpecWhole, SpecOfTurn, Fairly
  <2>6. Planned'
    BY <1>5, <2>2, <2>3, <2>4, PlansStay DEF AssistantsInv
  <2>7. RanSince'
    BY <2>2, <2>4, RanStays DEF AssistantsInv
  <2> QED BY <1>1, <1>2, <2>2, <2>5, <2>6, <2>7, RouteHolds DEF Routing
<1>6. CASE (\E b \in RouteBodies, q \in Queries : TurnIs(Lifecycle(b, q))) /\ spec' = NewSpec
  <2>1. PICK b \in RouteBodies, q \in Queries : TurnIs(Lifecycle(b, q))
    BY <1>6
  <2>2. IsText(q)
    BY DEF AssistantsShaped
  <2>3. \/ TurnIs(RouteOver("guide"))
        \/ RouteFails
        \/ \E place \in {"read", "readInstalled"} : turn' = [[turn EXCEPT !.query = q, !.follows = b.follows] EXCEPT !.at = place]
    BY <2>1 DEF Lifecycle, TurnIs, RouteFails
  <2>4. CASE TurnIs(RouteOver("guide"))
    BY <1>1, <1>2, <1>6, <2>4, OverHolds
  <2>5. CASE RouteFails
    BY <1>1, <1>2, <1>6, <2>5, FailsRoute
  <2>6. CASE \E place \in {"read", "readInstalled"} : turn' = [[turn EXCEPT !.query = q, !.follows = b.follows] EXCEPT !.at = place]
    <3>1. PICK place \in {"read", "readInstalled"} : turn' = [[turn EXCEPT !.query = q, !.follows = b.follows] EXCEPT !.at = place]
      BY <2>6
    <3>2. /\ Alters(turn', RouteFields) /\ turn'.at = place /\ IsText(turn'.text) /\ IsText(turn'.query)
          /\ turn'.prep = turn.prep
      BY <2>2, <3>1, TargetIs DEF AssistantsInv
    <3> QED BY <1>1, <1>2, <1>6, <3>2, RouteGoesOn DEF Routing
  <2> QED BY <2>3, <2>4, <2>5, <2>6
<1>7. CASE RouteFails /\ spec' = NewSpec
  BY <1>1, <1>2, <1>7, FailsRoute
<1> QED BY <1>3, <1>4, <1>5, <1>6, <1>7

LEMMA OrdinaryHolds ==
  ASSUME AssistantsInv, Ran, turn.at \in Routing, NEW prep, SpecSound(prep), TurnIs(Ordinary(prep)), spec' = NewSpec,
         UNCHANGED <<conn, rows, shown>>, SameUsed
  PROVE  AssistantsInv'
<1>1. \/ RouteFails \/ TurnIs(RouteOver("guide"))
      \/ TurnIs([RouteOver("prepared") EXCEPT !.prep = prep]) /\ prep.kind # "fault"
  BY DEF Ordinary, RouteFails, TurnIs
<1>2. CASE RouteFails
  BY <1>2, FailsRoute
<1>3. CASE TurnIs(RouteOver("guide"))
  BY <1>3, OverHolds
<1>4. CASE TurnIs([RouteOver("prepared") EXCEPT !.prep = prep]) /\ prep.kind # "fault"
  <2>1. prep.kind \in {"none", "error", "plan"} /\ (prep.kind = "plan" => PlanInstalls(prep.plan, turn.scope, ran))
    BY <1>4 DEF SpecSound, PlanInstalls
  <2> QED BY <1>4, <2>1, PreparedGoes
<1> QED BY <1>1, <1>2, <1>3, <1>4

LEMMA WaitHolds ==
  ASSUME AssistantsInv, Ran, Wait
  PROVE  AssistantsInv'
<1>1. /\ turn.at = "wait" /\ UNCHANGED <<inv, conn, rows, shown, used>> /\ turn.at \in Routing /\ spec' = NewSpec
      /\ TurnIs(Ordinary(spec.prep))
  BY DEF Wait, Routing
<1>2. SameUsed /\ SpecSound(spec.prep)
  BY <1>1, FaultIs DEF AssistantsInv, Planned, SpecSound
<1> QED BY <1>1, <1>2, OrdinaryHolds

LEMMA PlanAloneHolds ==
  ASSUME AssistantsShaped, AssistantsInv, Ran, PlanAlone
  PROVE  AssistantsInv'
<1>1. /\ turn.at = "gap" /\ UNCHANGED <<inv, conn, rows, shown>> /\ turn.at \in Routing /\ (Fault \/ UNCHANGED used)
      /\ spec = NewSpec
  BY DEF PlanAlone, Routing, AssistantsInv, SpecOfTurn
<1>2. SameUsed
  BY <1>1, FaultIs DEF AssistantsInv
<1>3. CASE TurnIs(Ordinary(Prepared("fault"))) /\ UNCHANGED spec
  <2>1. SpecSound(Prepared("fault"))
    BY DEF SpecSound, Prepared
  <2> QED BY <1>1, <1>2, <1>3, <2>1, OrdinaryHolds
<1>4. CASE spec' = [Gap(NewSpec) EXCEPT !.at = "planning"] /\ TurnIs(TurnAt("wait"))
  <2>1. /\ Alters(turn', RouteFields) /\ turn'.at = "wait" /\ IsText(turn'.text) /\ IsText(turn'.query)
        /\ turn'.prep = turn.prep /\ turn'.text = turn.text
    BY <1>4, RoutesTo DEF AssistantsInv
  <2>2. turn'.scope = turn.scope
    BY <2>1 DEF Alters, RouteFields, ReadFields, TurnFields
  <2> DEFINE g == [Gap(NewSpec) EXCEPT !.at = "planning"]
  <2>3. /\ DOMAIN g = DOMAIN NewSpec /\ g.at = "planning" /\ g.prep = NewSpec.prep
        /\ g.gap = "some" => FairPool(OffersHere \ InstalledIn(g.inv), TextScores(turn.text), g.shortlist)
    BY GapIs DEF AssistantsInv, TurnWhole
  <2> HIDE DEF g
  <2>4. spec' = g /\ spec'.prep.kind = "none"
    <3>1. spec' = g
      BY <1>4 DEF g
    <3>2. NewSpec.prep.kind = "none"
      BY DEF NewSpec, Prepared
    <3> QED BY <2>3, <3>1, <3>2
  <2>5. SpecWhole' /\ SpecOfTurn' /\ Fairly'
    BY <2>1, <2>3, <2>4 DEF SpecWhole, SpecOfTurn, Fairly
  <2>6. Active /\ Active'
    BY <1>1, <2>1 DEF Active
  <2>7. Planned'
    BY <2>1, <2>2, <2>4, <2>6, PlansStay DEF AssistantsInv
  <2>8. RanSince'
    BY <2>1, <2>6, RanStays DEF AssistantsInv
  <2> QED BY <1>1, <1>2, <2>1, <2>5, <2>7, <2>8, RouteHolds DEF Routing
<1> QED BY <1>3, <1>4 DEF PlanAlone

LEMMA ReadInstallHolds ==
  ASSUME AssistantsShaped, AssistantsInv, Ran, ReadInstall
  PROVE  AssistantsInv'
<1>1. /\ turn.at = "read" /\ UNCHANGED <<inv, spec, conn, rows, shown>> /\ turn.at \in Routing /\ (Fault \/ UNCHANGED used)
      /\ spec = NewSpec
  BY DEF ReadInstall, Routing, AssistantsInv, SpecOfTurn
<1>2. SameUsed
  BY <1>1, FaultIs DEF AssistantsInv
<1> DEFINE dir == InstallShortlist(turn.query, OffersHere)
           t == TurnAt("select")
<1>3. RouteFails \/ turn' = [t EXCEPT !.inv = inv, !.offers = OffersHere, !.dir = dir]
  BY DEF ReadInstall, TurnIs, OffersHere
<1>4. CASE RouteFails
  BY <1>1, <1>2, <1>4, FailsRoute
<1>5. CASE turn' = [t EXCEPT !.inv = inv, !.offers = OffersHere, !.dir = dir]
  <2>1. Alters(t, {"at"}) /\ t.at = "select"
    BY TurnAtIs DEF AssistantsInv
  <2>2. IsText(turn.query) /\ IsText(turn.text)
    BY DEF AssistantsInv, TurnWhole
  <2>3. FairPool(OffersHere, InstallScores(turn.query), dir)
    BY <2>2, InstallPoolFair
  <2> HIDE DEF t, dir
  <2>4. /\ Alters(turn', RouteFields) /\ turn'.at = "select" /\ IsText(turn'.text) /\ IsText(turn'.query)
        /\ turn'.prep = turn.prep /\ turn'.scope = turn.scope /\ turn'.inv = inv /\ turn'.dir = dir /\ turn'.query = turn.query
    BY <1>5, <2>1, <2>2 DEF Alters, RouteFields, ReadFields, TurnFields
  <2>5. SpecWhole' /\ SpecOfTurn' /\ spec'.prep.kind = "none" /\ spec'.at = "none"
    BY <1>1 DEF NewSpec, SpecWhole, SpecOfTurn, Prepared
  <2>6. Fairly'
    BY <2>3, <2>4, <2>5 DEF Fairly
  <2>7. Active /\ Active'
    BY <1>1, <2>4 DEF Active
  <2>8. Planned'
    BY <2>4, <2>5, <2>7, PlansStay DEF AssistantsInv
  <2>9. RanSince'
    BY <1>1, <2>4, <2>7, RanGrows DEF RanSince
  <2> QED BY <1>1, <1>2, <2>4, <2>5, <2>6, <2>8, <2>9, RouteHolds DEF Routing
<1> QED BY <1>3, <1>4, <1>5

InstallSound(p, since) ==
  /\ p.kind \in {"none", "error", "plan", "already"}
  /\ p.kind = "plan" => PlanInstalls(p.plan, turn.scope, since)
  /\ p.kind = "already" => p.plan.named \subseteq since /\ p.plan.scope \ turn.scope \subseteq since

LEMMA PrepareIs ==
  ASSUME AssistantsShaped, NEW since, RunningIn(turn.inv) \subseteq since, NEW selected, selected \subseteq Assistant
  PROVE  InstallSound(PrepareInstall(selected), since)
<1> DEFINE missing == Missing(selected)
           scope == IF turn.follows THEN turn.scope \cup selected ELSE {}
           already == [Prepared("already") EXCEPT !.plan = [NoPlan EXCEPT !.scope = scope, !.named = selected]]
           p == PreparedPlan(turn.scope, missing, ~turn.follows, selected, selected)
<1>1. \/ PrepareInstall(selected) = Prepared("error")
      \/ missing = {} /\ PrepareInstall(selected) = already
      \/ PrepareInstall(selected) = p
  BY DEF PrepareInstall
<1>2. missing \subseteq Assistant /\ selected \subseteq missing \cup RunningIn(turn.inv)
  BY DEF Missing
<1>3. InstallSound(Prepared("error"), since)
  BY DEF InstallSound, Prepared
<1>4. ASSUME missing = {} PROVE InstallSound(already, since)
  <2>1. already.kind = "already" /\ already.plan.scope = scope /\ already.plan.named = selected
    BY DEF Prepared, NoPlan
  <2>2. selected \subseteq since /\ scope \ turn.scope \subseteq since
    BY <1>2, <1>4
  <2> HIDE DEF already, scope
  <2> QED BY <2>1, <2>2 DEF InstallSound
<1>5. InstallSound(p, since)
  <2>1. PreparedSound(p, missing, turn.scope \cup selected)
    BY <1>2, PreparedIs
  <2> HIDE DEF p, missing
  <2> QED BY <1>2, <2>1 DEF PreparedSound, InstallSound, PlanInstalls, Members
<1> QED BY <1>1, <1>3, <1>4, <1>5

LEMMA SelectInstallHolds ==
  ASSUME AssistantsShaped, AssistantsInv, Ran, SelectInstall
  PROVE  AssistantsInv'
<1>1. /\ turn.at = "select" /\ UNCHANGED <<inv, spec, conn, rows, shown, used>> /\ turn.at \in Routing
      /\ spec = NewSpec
  BY DEF SelectInstall, Routing, AssistantsInv, SpecOfTurn
<1>2. SameUsed
  BY <1>1, FaultIs DEF AssistantsInv
<1>3. RunningIn(turn.inv) \subseteq ran
  BY <1>1 DEF AssistantsInv, RanSince
<1>4. \/ TurnIs(RouteOver("guide")) \/ RouteFails
      \/ \E selected \in SUBSET Assistant :
           LET prep == PrepareInstall(selected) IN
           \/ prep.kind = "already" /\ TurnIs([TurnAt("creators") EXCEPT !.prep = prep])
           \/ prep.kind # "already" /\ TurnIs([RouteOver("prepared") EXCEPT !.prep = prep])
      \/ TurnIs([RouteOver("prepared") EXCEPT !.prep = Prepared("error")])
  BY DEF SelectInstall
<1>5. CASE TurnIs(RouteOver("guide"))
  BY <1>1, <1>2, <1>5, OverHolds
<1>6. CASE RouteFails
  BY <1>1, <1>2, <1>6, FailsRoute
<1>7. CASE TurnIs([RouteOver("prepared") EXCEPT !.prep = Prepared("error")])
  <2>1. Prepared("error").kind = "error"
    BY DEF Prepared
  <2> QED BY <1>1, <1>2, <1>7, <2>1, PreparedGoes
<1>8. ASSUME NEW selected \in SUBSET Assistant, NEW prep, prep = PrepareInstall(selected),
             \/ prep.kind = "already" /\ TurnIs([TurnAt("creators") EXCEPT !.prep = prep])
             \/ prep.kind # "already" /\ TurnIs([RouteOver("prepared") EXCEPT !.prep = prep])
      PROVE  AssistantsInv'
  <2>1. InstallSound(prep, ran)
    BY <1>3, <1>8, PrepareIs
  <2>2. CASE prep.kind # "already" /\ TurnIs([RouteOver("prepared") EXCEPT !.prep = prep])
    <3>1. prep.kind \in {"none", "error", "plan"} /\ (prep.kind = "plan" => PlanInstalls(prep.plan, turn.scope, ran))
      BY <2>1, <2>2 DEF InstallSound
    <3> QED BY <1>1, <1>2, <2>2, <3>1, PreparedGoes
  <2>3. CASE prep.kind = "already" /\ TurnIs([TurnAt("creators") EXCEPT !.prep = prep])
    <3> DEFINE t == TurnAt("creators")
    <3>1. turn' = [t EXCEPT !.prep = prep] /\ Alters(t, {"at"}) /\ t.at = "creators"
      BY <2>3, TurnAtIs DEF TurnIs, AssistantsInv
    <3> HIDE DEF t
    <3>2. /\ Alters(turn', RouteFields) /\ turn'.at = "creators" /\ IsText(turn'.text) /\ IsText(turn'.query)
          /\ turn'.prep = prep /\ turn'.scope = turn.scope
      BY <3>1 DEF Alters, RouteFields, ReadFields, TurnFields, AssistantsInv, TurnWhole
    <3>3. Active /\ Active'
      BY <1>1, <3>2 DEF Active
    <3>4. ran \subseteq ran'
      BY <3>3, RanGrows
    <3>5. spec'.prep.kind = "none"
      BY <1>1 DEF NewSpec, Prepared
    <3>6. Planned'
      BY <2>1, <2>3, <3>2, <3>3, <3>4, <3>5 DEF Planned, InstallSound
    <3> QED BY <1>1, <1>2, <3>2, <3>6, RouteGoesOn DEF Routing
  <2> QED BY <1>8, <2>2, <2>3
<1> QED BY <1>4, <1>5, <1>6, <1>7, <1>8

LEMMA CreatorsHolds ==
  ASSUME AssistantsInv, Ran, Creators
  PROVE  AssistantsInv'
<1>1. /\ turn.at = "creators" /\ UNCHANGED <<inv, spec, conn, rows, shown, used>> /\ turn.at \in Routing
      /\ spec = NewSpec
  BY DEF Creators, Routing, AssistantsInv, SpecOfTurn
<1>2. SameUsed
  BY <1>1, FaultIs DEF AssistantsInv
<1>3. TurnIs(RouteOver("prepared")) \/ TurnIs([RouteOver("prepared") EXCEPT !.prep = Prepared("error")])
  BY DEF Creators
<1>4. Prepared("error").kind = "error"
  BY DEF Prepared
<1>5. CASE TurnIs(RouteOver("prepared"))
  BY <1>1, <1>2, <1>5, OverHolds
<1>6. CASE TurnIs([RouteOver("prepared") EXCEPT !.prep = Prepared("error")])
  BY <1>1, <1>2, <1>4, <1>6, PreparedGoes
<1> QED BY <1>3, <1>5, <1>6

LEMMA ReadInstalledHolds ==
  ASSUME AssistantsInv, Ran, ReadInstalled
  PROVE  AssistantsInv'
<1>1. /\ turn.at = "readInstalled" /\ UNCHANGED <<inv, spec, conn, rows, shown>> /\ turn.at \in Routing
      /\ (Fault \/ UNCHANGED used) /\ spec = NewSpec
  BY DEF ReadInstalled, Routing, AssistantsInv, SpecOfTurn
<1>2. SameUsed
  BY <1>1, FaultIs DEF AssistantsInv
<1>3. RouteFails \/ TurnIs([TurnAt("readRegistry") EXCEPT !.inv = inv])
  BY DEF ReadInstalled
<1>4. CASE RouteFails
  BY <1>1, <1>2, <1>4, FailsRoute
<1>5. CASE TurnIs([TurnAt("readRegistry") EXCEPT !.inv = inv])
  <2> DEFINE t == TurnAt("readRegistry")
  <2>1. turn' = [t EXCEPT !.inv = inv] /\ Alters(t, {"at"}) /\ t.at = "readRegistry"
    BY <1>5, TurnAtIs DEF TurnIs, AssistantsInv
  <2> HIDE DEF t
  <2>2. /\ Alters(turn', RouteFields) /\ turn'.at = "readRegistry" /\ IsText(turn'.text) /\ IsText(turn'.query)
        /\ turn'.prep = turn.prep
    BY <2>1 DEF Alters, RouteFields, ReadFields, TurnFields, AssistantsInv, TurnWhole
  <2> QED BY <1>1, <1>2, <2>2, RouteGoesOn DEF Routing
<1> QED BY <1>3, <1>4, <1>5

LEMMA ReadRegistryHolds ==
  ASSUME AssistantsShaped, AssistantsInv, Ran, ReadRegistry
  PROVE  AssistantsInv'
<1>1. /\ turn.at = "readRegistry" /\ UNCHANGED <<inv, spec, conn, rows, shown, used>> /\ turn.at \in Routing
      /\ spec = NewSpec
  BY DEF ReadRegistry, Routing, AssistantsInv, SpecOfTurn
<1>2. SameUsed
  BY <1>1, FaultIs DEF AssistantsInv
<1> DEFINE registry == RegistryOf(inv)  S == InstalledIn(turn.inv)  refused == RefusedIn(turn.inv, registry)
           dir == UninstallShortlist(turn.query, S, refused)
           t == TurnAt("selectOne")
<1>3. RouteFails \/ turn' = [t EXCEPT !.reg = registry, !.dir = dir]
  BY DEF ReadRegistry, TurnIs
<1>4. CASE RouteFails
  BY <1>1, <1>2, <1>4, FailsRoute
<1>5. CASE turn' = [t EXCEPT !.reg = registry, !.dir = dir]
  <2>1. Alters(t, {"at"}) /\ t.at = "selectOne"
    BY TurnAtIs DEF AssistantsInv
  <2>2. IsText(turn.query) /\ IsText(turn.text)
    BY DEF AssistantsInv, TurnWhole
  <2>3. S \subseteq Assistant
    BY DEF InstalledIn
  <2>4. FairPool(S, UninstallScores(turn.query, refused), dir)
    <3> HIDE DEF S, refused
    <3> QED BY <2>2, <2>3, UninstallPoolFair
  <2> HIDE DEF t, dir, registry
  <2>5. /\ Alters(turn', RouteFields) /\ turn'.at = "selectOne" /\ IsText(turn'.text) /\ IsText(turn'.query)
        /\ turn'.prep = turn.prep /\ turn'.scope = turn.scope /\ turn'.inv = turn.inv /\ turn'.dir = dir
        /\ turn'.query = turn.query /\ turn'.reg = registry
    BY <1>5, <2>1, <2>2 DEF Alters, RouteFields, ReadFields, TurnFields
  <2>6. SpecWhole' /\ SpecOfTurn' /\ spec'.prep.kind = "none" /\ spec'.at = "none"
    BY <1>1 DEF NewSpec, SpecWhole, SpecOfTurn, Prepared
  <2>7. Fairly'
    BY <2>4, <2>5, <2>6 DEF Fairly
  <2>8. Active /\ Active'
    BY <1>1, <2>5 DEF Active
  <2>9. Planned'
    BY <2>5, <2>6, <2>8, PlansStay DEF AssistantsInv
  <2>10. RanSince'
    BY <2>5, <2>8, RanStays DEF AssistantsInv
  <2> QED BY <1>1, <1>2, <2>5, <2>6, <2>7, <2>9, <2>10, RouteHolds DEF Routing
<1> QED BY <1>3, <1>4, <1>5

LEMMA SelectUninstallHolds ==
  ASSUME AssistantsInv, Ran, SelectUninstall
  PROVE  AssistantsInv'
<1>1. /\ turn.at = "selectOne" /\ UNCHANGED <<inv, spec, conn, rows, shown, used>> /\ turn.at \in Routing
      /\ spec = NewSpec
  BY DEF SelectUninstall, Routing, AssistantsInv, SpecOfTurn
<1>2. SameUsed
  BY <1>1, FaultIs DEF AssistantsInv
<1>3. \/ RouteFails \/ TurnIs(RouteOver("guide"))
      \/ \E a : TurnIs([TurnAt("creator") EXCEPT !.pick = a])
  BY DEF SelectUninstall, TurnIs
<1>4. CASE RouteFails
  BY <1>1, <1>2, <1>4, FailsRoute
<1>5. CASE TurnIs(RouteOver("guide"))
  BY <1>1, <1>2, <1>5, OverHolds
<1>6. ASSUME NEW a, TurnIs([TurnAt("creator") EXCEPT !.pick = a]) PROVE AssistantsInv'
  <2> DEFINE t == TurnAt("creator")
  <2>1. turn' = [t EXCEPT !.pick = a] /\ Alters(t, {"at"}) /\ t.at = "creator"
    BY <1>6, TurnAtIs DEF TurnIs, AssistantsInv
  <2> HIDE DEF t
  <2>2. /\ Alters(turn', RouteFields) /\ turn'.at = "creator" /\ IsText(turn'.text) /\ IsText(turn'.query)
        /\ turn'.prep = turn.prep
    BY <2>1 DEF Alters, RouteFields, ReadFields, TurnFields, AssistantsInv, TurnWhole
  <2> QED BY <1>1, <1>2, <2>2, RouteGoesOn DEF Routing
<1> QED BY <1>3, <1>4, <1>5, <1>6

LEMMA CreatorHolds ==
  ASSUME AssistantsInv, Ran, Creator
  PROVE  AssistantsInv'
<1>1. /\ turn.at = "creator" /\ UNCHANGED <<inv, spec, conn, rows, shown, used>> /\ turn.at \in Routing
      /\ spec = NewSpec
  BY DEF Creator, Routing, AssistantsInv, SpecOfTurn
<1>2. SameUsed
  BY <1>1, FaultIs DEF AssistantsInv
<1>3. RouteFails \/ \E v : TurnIs([RouteOver("propose") EXCEPT !.version = v])
  BY DEF Creator
<1>4. CASE RouteFails
  BY <1>1, <1>2, <1>4, FailsRoute
<1>5. ASSUME NEW v, TurnIs([RouteOver("propose") EXCEPT !.version = v]) PROVE AssistantsInv'
  <2>1. /\ Alters(turn', RouteFields) /\ turn'.at = "propose" /\ IsText(turn'.text) /\ IsText(turn'.query)
        /\ turn'.prep = turn.prep
    BY <1>5, OverVersionIs DEF AssistantsInv
  <2> QED BY <1>1, <1>2, <2>1, RouteGoesOn
<1> QED BY <1>3, <1>4, <1>5

-----------------------------------------------------------------------------
LEMMA AssistantsStep ==
  ASSUME AssistantsShaped, AssistantsInv, AssistantsNext
  PROVE  AssistantsInv'
<1>1. Ran
  BY DEF AssistantsNext
<1>2. CASE Send
  <2>1. PICK m \in Messages : Decide(m) \/ SendMessage(m)
    BY <1>2 DEF Send
  <2>2. ~Active /\ conn.op = "none"
    BY <1>2 DEF Send
  <2> QED BY <1>1, <2>1, <2>2, DecideHolds, SendMessageHolds
<1>3. CASE Other \/ ProposalExpires
  BY <1>1, <1>3, OtherHolds, ExpiresHolds
<1>4. CASE SpecGap \/ SpecPlan
  BY <1>1, <1>4, SpecGapHolds, SpecPlanHolds
<1>5. CASE Route
  BY <1>1, <1>5, SubmitHolds, ClassifyHolds, WaitHolds, PlanAloneHolds, ReadInstallHolds, SelectInstallHolds, CreatorsHolds,
     ReadInstalledHolds, ReadRegistryHolds, SelectUninstallHolds, CreatorHolds DEF Route
<1>6. CASE Delivery
  BY <1>1, <1>6, FinishHolds, GuidanceHolds, ProposeHolds, PreparedHolds, RunJobHolds, ExecuteHolds, InstallHolds, ProveHolds,
     PanickedHolds, CommitHolds, ContinueHolds DEF Delivery
<1>7. CASE Stop \/ StopEnds \/ Close
  BY <1>1, <1>7, StopHolds, StopEndsHolds, CloseHolds
<1>8. CASE Uninstall
  BY <1>1, <1>8, UninstallHolds
<1> QED BY <1>2, <1>3, <1>4, <1>5, <1>6, <1>7, <1>8 DEF AssistantsNext

LEMMA AssistantsStutter ==
  ASSUME AssistantsInv, UNCHANGED assistantsVars
  PROVE  AssistantsInv'
BY DEF AssistantsInv, assistantsVars, TurnWhole, SpecWhole, ConnWhole, SpecOfTurn, Fairly, Planned, RanSince, Active,
       InstalledSoFar, Numbered, NotEnded, EndsKept, ShownIsKept, ProposalEndsOnce, Event

(* The directories are fair by the scores themselves.                                      *)
LEMMA FairlyFair ==
  ASSUME AssistantsShaped, Fairly
  PROVE  DirectoriesFair
<1>1. OffersHere \subseteq Assistant /\ OffersHere = PlanningCatalog(Staged, Published)
  BY OffersAre DEF OffersHere
<1>2. ASSUME spec.at = "planning", spec.gap = "some", NEW a \in spec.shortlist,
             NEW b \in (OffersHere \ InstalledIn(spec.inv)) \ spec.shortlist
      PROVE  Score(turn.text, b) < Score(turn.text, a)
  <2>1. FairPool(OffersHere \ InstalledIn(spec.inv), TextScores(turn.text), spec.shortlist)
    BY <1>2 DEF Fairly
  <2>2. a \in Assistant /\ b \in Assistant /\ TextScores(turn.text)[b] < TextScores(turn.text)[a]
    BY <1>1, <1>2, <2>1 DEF FairPool
  <2> QED BY <2>2 DEF TextScores
<1>3. ASSUME turn.at = "select", NEW a \in turn.dir, NEW b \in OffersHere \ turn.dir
      PROVE  Max({IdentityScore(turn.query, About[b].id, About[b].name), Score(turn.query, b)})
             < Max({IdentityScore(turn.query, About[a].id, About[a].name), Score(turn.query, a)})
  <2>1. FairPool(OffersHere, InstallScores(turn.query), turn.dir)
    BY <1>3 DEF Fairly
  <2>2. a \in Assistant /\ b \in Assistant /\ InstallScores(turn.query)[b] < InstallScores(turn.query)[a]
    BY <1>1, <1>3, <2>1 DEF FairPool
  <2> QED BY <2>2 DEF InstallScores
<1>4. ASSUME turn.at = "selectOne", NEW a \in turn.dir \cap turn.reg,
             NEW b \in (InstalledIn(turn.inv) \cap turn.reg) \ (turn.dir \cap turn.reg)
      PROVE  IdentityScore(turn.query, About[b].id, About[b].name) < IdentityScore(turn.query, About[a].id, About[a].name)
  <2> DEFINE S == InstalledIn(turn.inv)  refused == RefusedIn(turn.inv, turn.reg)
  <2>1. FairPool(S, UninstallScores(turn.query, refused), turn.dir)
    BY <1>4 DEF Fairly
  <2>2. S \subseteq Assistant /\ a \notin refused /\ b \notin refused
    BY <1>4 DEF InstalledIn, RefusedIn
  <2>3. b \in S \ turn.dir /\ a \in turn.dir
    BY <1>4
  <2> HIDE DEF S, refused
  <2>4. a \in Assistant /\ b \in Assistant
        /\ UninstallScores(turn.query, refused)[b] < UninstallScores(turn.query, refused)[a]
    BY <2>1, <2>2, <2>3 DEF FairPool
  <2> QED BY <2>2, <2>4 DEF UninstallScores
<1> QED BY <1>1, <1>2, <1>3, <1>4 DEF DirectoriesFair

(* What is installed ran, what is shown is kept, every directory is fair and every proposal *)
(* ends once (install_and_prove_running, commit_install, bounded_pool, retain_history), for *)
(* every Team, catalog, text and number of messages, pages and failures.                   *)
THEOREM PlansAlwaysKept == AssistantsSpec => []PlansKept
<1>1. AssistantsInit => AssistantsInv
  BY BeginsSound
<1>2. AssistantsInv /\ [AssistantsNext]_assistantsVars => AssistantsInv'
  BY AssistantsAssumption, AssistantsStep, AssistantsStutter
<1>3. AssistantsInv => PlansKept
  <2> SUFFICES ASSUME AssistantsInv PROVE PlansKept
    OBVIOUS
  <2>1. DirectoriesFair
    BY AssistantsAssumption, FairlyFair DEF AssistantsInv
  <2>2. InstalledRan
    BY DEF AssistantsInv, InstalledSoFar, InstalledRan
  <2> QED BY <2>1, <2>2 DEF AssistantsInv, PlansKept
<1> QED BY <1>1, <1>2, <1>3, PTL DEF AssistantsSpec
=============================================================================
