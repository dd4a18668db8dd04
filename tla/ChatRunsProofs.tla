--------------------------- MODULE ChatRunsProofs ---------------------------
(***************************************************************************)
(* What holds of a Team's chat runs for every number of pages, runs,       *)
(* frames, operations and steps: a page that attached was handed every     *)
(* step of the work under way that one attaching now would be shown, and   *)
(* one run of the Team works or is being stopped at a time.                *)
(*                                                                         *)
(* And of what its pages are shown and answer (Answers), for any answers   *)
(* of Team, values, bounds and number of pages that answer: a challenge is *)
(* shown only when what fits it can be told, Team is told only what fits   *)
(* it, and passwords are tried within their bound.                         *)
(***************************************************************************)
EXTENDS ChatRuns, Answers, FiniteSetTheorems, SequenceTheorems, TLAPS

Frames == [page : Page, kind : {"sync", "sent"}]
Operations == [by : Session, steps : Nat]
Steps == [of : Nat, n : Nat]

RunRecs == [observers : SUBSET Page, queue : Seq(Frames),
            loop : {"waiting", "dispatching", "started", "dead"}, frame : Frames \cup {None},
            works : Nat, work : Operations \cup {None}, authority : Session \cup {None},
            live : Seq(Steps), end : {"no", "stopping", "over"}, retired : BOOLEAN]
PageRecs == [open : BOOLEAN, start : {"none", "observed", "over"},
             main : {"out", "in", "retiring", "left"}, at : Nat, startAt : Nat, sent : Nat]
SweepRecs == [at : {"none", "asleep", "retiring", "leaving", "over"}, run : Nat]

Typed ==
  /\ run \in Seq(RunRecs) /\ Len(run) <= MaxRuns /\ current \in 0..Len(run)
  /\ page \in [Page -> PageRecs] /\ seen \in [Page -> SUBSET Steps]
  /\ valid \subseteq Session /\ sweep \in SweepRecs

(* A run found idle, or watched, exists when it is retired, or shown.      *)
Found ==
  /\ sweep.at = "retiring" => sweep.run \in Run
  /\ \A p \in Page : page[p].main = "retiring" => page[p].at \in Run

-----------------------------------------------------------------------------
(* The invariant.                                                          *)

(* A run by itself: it dispatches a frame, it is closed only with its loop *)
(* ended, and it kept no step of work it has yet to start.                 *)
Sound(R) ==
  /\ R \in RunRecs /\ Len(R.queue) <= MaxFrames /\ Len(R.live) <= LiveSteps
  /\ R.loop \in {"dispatching", "started"} => R.frame \in Frames
  /\ Closed(R) => R.loop = "dead"
  /\ \A i \in DOMAIN R.live : R.live[i].of <= R.works

(* A run that is not the Team's any more dispatches nothing; unless it was *)
(* retired, it does nothing at all.                                        *)
Rest(R) == R.loop = "dead" /\ R.work = None
Standing(R, known) ==
  /\ ~known => R.loop = "dead" /\ (R.retired \/ (R.work = None /\ R.end # "stopping"))
  /\ R.retired => ~known

(* A page whose attach found a run watches that run, while it does         *)
(* anything.                                                               *)
Watching(p) ==
  /\ page[p].start = "observed" => page[p].startAt \in Run
  /\ page[p].start # "none" /\ page[p].open =>
       /\ page[p].startAt \in Run
       /\ p \in run[page[p].startAt].observers \/ Rest(run[page[p].startAt])

(* It was handed what one attaching now would be shown.                    *)
Shown(p) ==
  page[p].start = "over" /\ page[p].open /\ run[page[p].startAt].work # None
  => Live(run[page[p].startAt]) \subseteq seen[p]

RunsSound == \A r \in Run : Sound(run[r]) /\ Standing(run[r], r = current)
PagesSound == \A p \in Page : Watching(p) /\ Shown(p)

ChatInv == Typed /\ Found /\ RunsSound /\ PagesSound
-----------------------------------------------------------------------------
(* How the runs and the pages move.                                        *)

(* Run r, which may be new, is now R; the others are as they were.         *)
Became(r, R) ==
  /\ run' \in Seq(RunRecs) /\ Len(run') <= MaxRuns /\ Len(run) <= Len(run')
  /\ r \in 1..Len(run') /\ run'[r] = R
  /\ \A q \in 1..Len(run') : q # r => q \in 1..Len(run) /\ run'[q] = run[q]
  /\ current' \in 0..Len(run')
  /\ \A q \in 1..Len(run) : q # r => (q = current' <=> q = current)

(* It keeps who watches it,                                                *)
KeepsWatchers(r, R) ==
  r \in Run => /\ Rest(run[r]) => Rest(R)
               /\ Rest(R) \/ \A q \in Page : page'[q].open /\ q \in run[r].observers => q \in R.observers

(* and shows one that attaches nothing more than it did.                   *)
ShowsNoMore(r, R) ==
  r \in Run /\ R.work # None => \/ Live(R) = {}
                                \/ run[r].work # None /\ Live(R) \subseteq Live(run[r])

(* A page that is not attaching: it may close, or be handed more.          *)
Quiet(q) ==
  /\ page'[q].start = page[q].start /\ page'[q].startAt = page[q].startAt
  /\ page'[q].open => page[q].open /\ seen[q] \subseteq seen'[q]

LEMMA InRun ==
  ASSUME Typed
  PROVE  /\ Run = 1..Len(run) /\ Len(run) \in Nat
         /\ \A r \in Run : run[r] \in RunRecs
BY LenProperties, ElementOfSeq DEF Typed, Run

LEMMA InRunAfter ==
  ASSUME NEW r, NEW R, Became(r, R)
  PROVE  Run' = 1..Len(run') /\ Len(run') \in Nat /\ r \in Run' /\ run'[r] = R
<1>1. run' \in Seq(RunRecs) /\ r \in 1..Len(run') /\ run'[r] = R
  BY DEF Became
<1>2. DOMAIN run' = 1..Len(run') /\ Len(run') \in Nat
  BY <1>1, LenProperties
<1> QED BY <1>1, <1>2 DEF Run

LEMMA Replaced ==
  ASSUME Typed, NEW r \in Run, NEW R \in RunRecs, run' = [run EXCEPT ![r] = R],
         current' = current \/ (current = r /\ current' = 0)
  PROVE  Became(r, R)
<1>1. /\ Run = 1..Len(run) /\ Len(run) \in Nat /\ DOMAIN run = 1..Len(run)
      /\ run \in Seq(RunRecs) /\ Len(run) <= MaxRuns /\ current \in 0..Len(run)
  BY InRun DEF Typed, Run
<1>2. run' \in Seq(RunRecs) /\ Len(run') = Len(run) /\ \A q \in 1..Len(run) : run'[q] = IF q = r THEN R ELSE run[q]
  BY <1>1, ExceptSeq
<1>3. current' \in 0..Len(run') /\ \A q \in 1..Len(run) : q # r => (q = current' <=> q = current)
  BY <1>1, <1>2
<1>4. r \in 1..Len(run') /\ run'[r] = R /\ Len(run) <= Len(run') /\ Len(run') <= MaxRuns
  BY <1>1, <1>2
<1> QED BY <1>1, <1>2, <1>3, <1>4 DEF Became

LEMMA Provided ==
  ASSUME Typed, NEW R \in RunRecs, RunFor(R)
  PROVE  /\ Became(current', R) /\ current' # 0
         /\ current # 0 => current' = current
         /\ current = 0 => current' \notin Run
<1>1. /\ Run = 1..Len(run) /\ Len(run) \in Nat /\ DOMAIN run = 1..Len(run)
      /\ run \in Seq(RunRecs) /\ Len(run) <= MaxRuns /\ current \in 0..Len(run)
  BY InRun DEF Typed, Run
<1>2. CASE current # 0
  <2>1. current' = current /\ run' = [run EXCEPT ![current] = R] /\ current \in Run
    BY <1>1, <1>2 DEF RunFor
  <2> QED BY <2>1, <1>1, <1>2, Replaced
<1>3. CASE current = 0
  <2> DEFINE new == Append(run, NewRun)
             r == Len(run) + 1
  <2>1. current' = r /\ run' = [new EXCEPT ![r] = R] /\ r <= MaxRuns
    BY <1>3 DEF RunFor
  <2>2. NewRun \in RunRecs
    <3>1. <<>> \in Seq(Frames) /\ <<>> \in Seq(Steps)
      BY EmptySeq
    <3> QED BY <3>1 DEF NewRun, RunRecs
  <2>3. /\ new \in Seq(RunRecs) /\ Len(new) = r
        /\ \A q \in 1..Len(run) : new[q] = run[q]
    BY <1>1, <2>2, AppendProperties
  <2> HIDE DEF new
  <2>4. run' \in Seq(RunRecs) /\ Len(run') = r /\ \A q \in 1..r : run'[q] = IF q = r THEN R ELSE new[q]
    BY <1>1, <2>1, <2>3, ExceptSeq
  <2>5. \A q \in 1..Len(run') : q # r => q \in 1..Len(run) /\ run'[q] = run[q]
    BY <1>1, <2>3, <2>4
  <2>6. r \in 1..Len(run') /\ run'[r] = R /\ Len(run) <= Len(run') /\ Len(run') <= MaxRuns
    BY <1>1, <2>1, <2>4
  <2>7. current' \in 0..Len(run') /\ \A q \in 1..Len(run) : q # r => (q = current' <=> q = current)
    BY <1>1, <1>3, <2>1, <2>4
  <2> QED BY <1>1, <1>3, <2>1, <2>4, <2>5, <2>6, <2>7 DEF Became
<1> QED BY <1>2, <1>3

LEMMA SoundKept ==
  ASSUME Typed, RunsSound, NEW r, NEW R, Became(r, R), Sound(R), Standing(R, r = current')
  PROVE  RunsSound'
<1>1. Run = 1..Len(run) /\ Run' = 1..Len(run')
  BY InRun, InRunAfter
<1> SUFFICES ASSUME NEW q \in Run' PROVE Sound(run'[q]) /\ Standing(run'[q], q = current')
  BY Zenon DEF RunsSound
<1>2. CASE q = r
  BY <1>2 DEF Became
<1>3. CASE q # r
  <2>1. q \in Run /\ run'[q] = run[q] /\ (q = current' <=> q = current)
    BY <1>1, <1>3 DEF Became
  <2>2. Sound(run[q]) /\ Standing(run[q], q = current)
    BY <2>1 DEF RunsSound
  <2> QED BY <2>1, <2>2 DEF Standing
<1> QED BY <1>2, <1>3

LEMMA WatchingKept ==
  ASSUME Typed, NEW r, NEW R, Became(r, R), KeepsWatchers(r, R),
         NEW q \in Page, Quiet(q), Watching(q)
  PROVE  Watching(q)'
<1>1. Run = 1..Len(run) /\ Run' = 1..Len(run') /\ Run \subseteq Run'
  BY InRun, InRunAfter DEF Became
<1>2. \A k \in Run : k # r => run'[k] = run[k]
  BY <1>1 DEF Became
<1>3. run'[r] = R
  BY DEF Became
<1>4. /\ page'[q].start = page[q].start /\ page'[q].startAt = page[q].startAt
      /\ page'[q].open => page[q].open
  BY DEF Quiet
<1> DEFINE k == page[q].startAt
<1>5. page[q].start = "observed" => k \in Run
  BY DEF Watching
<1>6. page[q].start # "none" /\ page[q].open => k \in Run /\ (q \in run[k].observers \/ Rest(run[k]))
  BY DEF Watching
<1>7. page'[q].open /\ k \in Run /\ (q \in run[k].observers \/ Rest(run[k]))
      => q \in run'[k].observers \/ Rest(run'[k])
  BY <1>2, <1>3 DEF KeepsWatchers
<1> HIDE DEF k
<1>8. /\ page'[q].start = "observed" => k \in Run'
      /\ page'[q].start # "none" /\ page'[q].open =>
           k \in Run' /\ (q \in run'[k].observers \/ Rest(run'[k]))
  BY <1>1, <1>4, <1>5, <1>6, <1>7
<1> QED BY <1>4, <1>8 DEF Watching, Rest, k

LEMMA ShownKept ==
  ASSUME Typed, NEW r, NEW R, Became(r, R), ShowsNoMore(r, R),
         NEW q \in Page, Quiet(q), Watching(q), Shown(q)
  PROVE  Shown(q)'
<1>1. Run = 1..Len(run) /\ Run' = 1..Len(run') /\ Run \subseteq Run'
  BY InRun, InRunAfter DEF Became
<1> DEFINE k == page[q].startAt
<1>2. k \in Run /\ k # r => run'[k] = run[k]
  BY <1>1 DEF Became
<1>3. run'[r] = R
  BY DEF Became
<1>4. /\ page'[q].start = page[q].start /\ page'[q].startAt = k
      /\ page'[q].open => page[q].open /\ seen[q] \subseteq seen'[q]
  BY DEF Quiet
<1>5. SUFFICES ASSUME page[q].start = "over", page'[q].open, run'[k].work # None
               PROVE  Live(run'[k]) \subseteq seen'[q]
  BY <1>4 DEF Shown, Live
<1>6. k \in Run
  BY <1>4, <1>5 DEF Watching
<1>7. run[k].work # None => Live(run[k]) \subseteq seen'[q]
  BY <1>4, <1>5 DEF Shown
<1>8. \/ Live(run'[k]) = {}
      \/ run[k].work # None /\ Live(run'[k]) \subseteq Live(run[k])
  BY <1>2, <1>3, <1>5, <1>6 DEF ShowsNoMore
<1> QED BY <1>7, <1>8

(* What a run's step does beside the runs: it attaches no page.            *)
Around ==
  /\ \A q \in Page : Quiet(q)
  /\ page' \in [Page -> PageRecs] /\ seen' \in [Page -> SUBSET Steps] /\ valid' \subseteq Session
  /\ sweep' \in SweepRecs /\ (sweep'.at = "retiring" => sweep'.run \in Run)
  /\ \A p \in Page : page'[p].main = "retiring" => page'[p].at \in Run

(* A step of one run, whatever it is.                                      *)
LEMMA RunMoves ==
  ASSUME ChatInv, NEW r \in Run, NEW R, Sound(R), Standing(R, r = current'),
         run' = [run EXCEPT ![r] = R], current' = current \/ (current = r /\ current' = 0),
         KeepsWatchers(r, R), ShowsNoMore(r, R), Around
  PROVE  ChatInv'
<1>1. Became(r, R)
  BY Replaced DEF ChatInv, Sound
<1>2. Run \subseteq Run' /\ Run' = 1..Len(run')
  BY <1>1, InRun, InRunAfter DEF ChatInv, Became
<1>3. Typed'
  BY <1>1 DEF Typed, Became, Around
<1>4. Found'
  BY <1>2 DEF Found, Around
<1>5. RunsSound'
  BY <1>1, SoundKept DEF ChatInv
<1>6. PagesSound'
  <2> SUFFICES ASSUME NEW q \in Page PROVE (Watching(q) /\ Shown(q))'
    BY Zenon DEF PagesSound
  <2>1. Watching(q) /\ Shown(q) /\ Quiet(q) /\ Typed
    BY DEF ChatInv, PagesSound, Around
  <2> QED BY <1>1, <2>1, WatchingKept, ShownKept
<1> QED BY <1>3, <1>4, <1>5, <1>6 DEF ChatInv

(* A step that leaves the runs alone.                                      *)
LEMMA RunsStay ==
  ASSUME ChatInv, UNCHANGED <<run, current>>, Around
  PROVE  ChatInv'
<1>1. Typed' /\ Found'
  BY DEF ChatInv, Typed, Found, Around, Run
<1>2. RunsSound'
  BY DEF ChatInv, RunsSound, Run
<1>3. PagesSound'
  <2> SUFFICES ASSUME NEW q \in Page PROVE (Watching(q) /\ Shown(q))'
    BY Zenon DEF PagesSound
  <2>1. Quiet(q) /\ Watching(q) /\ Shown(q) /\ run' = run
    BY DEF ChatInv, PagesSound, Around
  <2> QED BY <2>1 DEF Quiet, Watching, Shown, Run, Rest, Live
<1> QED BY <1>1, <1>2, <1>3 DEF ChatInv

LEMMA AroundStays ==
  ASSUME ChatInv, UNCHANGED <<page, seen>>, valid' \subseteq Session,
         sweep' \in SweepRecs, sweep'.at = "retiring" => sweep'.run \in Run
  PROVE  Around
BY DEF ChatInv, Typed, Found, Around, Quiet

LEMMA AllStays ==
  ASSUME ChatInv, UNCHANGED <<page, seen, valid, sweep>>
  PROVE  Around
BY AroundStays DEF ChatInv, Typed, Found

-----------------------------------------------------------------------------
(* The run's own steps.                                                    *)

LEMMA OfRun ==
  ASSUME ChatInv, NEW r \in Run
  PROVE  Sound(run[r]) /\ Standing(run[r], r = current) /\ run[r] \in RunRecs
BY DEF ChatInv, RunsSound, Sound

LEMMA AbortedSound ==
  ASSUME NEW R, Sound(R)
  PROVE  /\ Sound(Aborted(R)) /\ Aborted(R).loop = "dead" /\ Aborted(R).work = R.work
         /\ Aborted(R).observers = R.observers /\ Aborted(R).live = R.live /\ Aborted(R).works = R.works
         /\ Aborted(R).end = R.end /\ Aborted(R).retired = R.retired
<1> DEFINE S == Aborted(R)
<1>1. <<>> \in Seq(Frames) /\ Len(<<>>) = 0 /\ MaxFrames \in Nat
  BY ChatRunsAssumption, EmptySeq
<1>2. /\ S \in RunRecs /\ S.queue = <<>> /\ S.loop = "dead" /\ S.work = R.work /\ S.observers = R.observers
      /\ S.live = R.live /\ S.works = R.works /\ S.end = R.end /\ S.retired = R.retired
  BY <1>1 DEF Aborted, Sound, RunRecs
<1> HIDE DEF S
<1>3. Sound(S)
  BY <1>1, <1>2 DEF Sound, Closed
<1> QED BY <1>2, <1>3 DEF S

LEMMA GoneSound ==
  ASSUME NEW R, Sound(R)
  PROVE  Sound(Gone(R)) /\ Rest(Gone(R)) /\ Gone(R).end = R.end /\ Gone(R).retired = R.retired
<1> DEFINE S == Gone(R)
<1>1. /\ <<>> \in Seq(Frames) /\ <<>> \in Seq(Steps) /\ Len(<<>>) = 0 /\ DOMAIN <<>> = {}
      /\ MaxFrames \in Nat /\ LiveSteps \in Nat
  BY ChatRunsAssumption, EmptySeq
<1>2. /\ S \in RunRecs /\ S.queue = <<>> /\ S.live = <<>> /\ S.loop = "dead" /\ S.work = None
      /\ S.end = R.end /\ S.retired = R.retired
  BY <1>1 DEF Gone, NewRun, Sound, RunRecs
<1> HIDE DEF S
<1>3. Sound(S)
  BY <1>1, <1>2 DEF Sound, Closed
<1> QED BY <1>2, <1>3 DEF S, Rest

(* A run that ends is still the Team's, with its loop ended.               *)
LEMMA EndKeeps ==
  ASSUME ChatInv, current # 0, End(current), Around
  PROVE  ChatInv'
<1> DEFINE A == Aborted(run[current])
           R == [A EXCEPT !.end = "stopping"]
<1>1. current \in Run
  BY InRun DEF ChatInv, Typed
<1>2. Sound(run[current]) /\ Standing(run[current], TRUE)
  BY <1>1, OfRun
<1>3. /\ Sound(A) /\ A.loop = "dead" /\ A.work = run[current].work /\ A.observers = run[current].observers
      /\ A.live = run[current].live /\ A.works = run[current].works /\ A.retired = run[current].retired
  BY <1>2, AbortedSound
<1>4. run' = [run EXCEPT ![current] = R] /\ current' = current
  BY DEF End
<1> HIDE DEF A
<1>5. /\ R \in RunRecs /\ R.end = "stopping" /\ R.loop = "dead" /\ R.work = A.work /\ R.observers = A.observers
      /\ R.live = A.live /\ R.works = A.works /\ R.retired = A.retired /\ R.queue = A.queue
  BY <1>3 DEF Sound, RunRecs
<1> HIDE DEF R
<1>6. Sound(R)
  BY <1>3, <1>5 DEF Sound, Closed
<1>7. Standing(R, current = current')
  BY <1>2, <1>3, <1>4, <1>5 DEF Standing
<1>8. KeepsWatchers(current, R) /\ ShowsNoMore(current, R)
  BY <1>3, <1>5 DEF KeepsWatchers, ShowsNoMore, Rest, Live
<1> QED BY <1>1, <1>4, <1>6, <1>7, <1>8, RunMoves

LEMMA RetireKeeps ==
  ASSUME ChatInv, NEW r \in Run, Retire(r), Around
  PROVE  ChatInv'
<1> DEFINE A == Aborted(run[r])
           S == [A EXCEPT !.retired = TRUE]
           R == IF S.work = None /\ ~Closed(S) THEN Gone(S) ELSE S
<1>1. Sound(run[r]) /\ r # 0
  BY OfRun, InRun DEF ChatInv
<1>2. /\ Sound(A) /\ A.loop = "dead" /\ A.work = run[r].work /\ A.observers = run[r].observers
      /\ A.live = run[r].live /\ A.works = run[r].works
  BY <1>1, AbortedSound
<1>3. run' = [run EXCEPT ![r] = R] /\ current' = IF current = r THEN 0 ELSE current
  BY InRun DEF Retire, Forget, ChatInv
<1> HIDE DEF A
<1>4. /\ S \in RunRecs /\ S.retired = TRUE /\ S.loop = "dead" /\ S.work = A.work /\ S.observers = A.observers
      /\ S.live = A.live /\ S.works = A.works /\ S.queue = A.queue /\ S.end = A.end
  BY <1>2 DEF Sound, RunRecs
<1> HIDE DEF S
<1>5. Sound(S)
  BY <1>2, <1>4 DEF Sound, Closed
<1>6. Sound(Gone(S)) /\ Rest(Gone(S)) /\ Gone(S).retired = TRUE
  BY <1>4, <1>5, GoneSound
<1>7. Sound(R) /\ R.retired = TRUE /\ R.loop = "dead"
  BY <1>4, <1>5, <1>6 DEF Rest
<1>8. KeepsWatchers(r, R) /\ ShowsNoMore(r, R)
  BY <1>2, <1>4, <1>6 DEF KeepsWatchers, ShowsNoMore, Rest, Live
<1> HIDE DEF R
<1>9. Standing(R, r = current')
  BY <1>1, <1>3, <1>7 DEF Standing
<1>10. current' = current \/ (current = r /\ current' = 0)
  BY <1>3
<1> QED BY <1>3, <1>7, <1>8, <1>9, <1>10, RunMoves

LEMMA EndStoppedKeeps == ASSUME ChatInv, NEW r \in Run, EndStopped(r) PROVE ChatInv'
<1> DEFINE S == [run[r] EXCEPT !.end = "over"]
<1>1. Sound(run[r]) /\ Standing(run[r], r = current) /\ r # 0 /\ run[r].end = "stopping"
  BY OfRun, InRun DEF ChatInv, EndStopped
<1>2. /\ run' = [run EXCEPT ![r] = Gone(S)] /\ current' = IF current = r THEN 0 ELSE current
      /\ UNCHANGED <<page, seen, valid, sweep>>
  BY InRun DEF EndStopped, Forget, ChatInv
<1>3. Sound(S) /\ S.end = "over" /\ S.retired = run[r].retired
  BY <1>1 DEF Sound, RunRecs, Closed
<1> HIDE DEF S
<1>4. Sound(Gone(S)) /\ Rest(Gone(S)) /\ Gone(S).end = "over" /\ Gone(S).retired = run[r].retired
  BY <1>3, GoneSound
<1>5. Standing(Gone(S), r = current')
  BY <1>1, <1>2, <1>4 DEF Standing, Rest
<1>6. KeepsWatchers(r, Gone(S)) /\ ShowsNoMore(r, Gone(S))
  BY <1>4 DEF KeepsWatchers, ShowsNoMore, Rest
<1>7. Around /\ (current' = current \/ (current = r /\ current' = 0))
  BY <1>2, AllStays
<1> QED BY <1>2, <1>4, <1>5, <1>6, <1>7, RunMoves

(* A step of the loop or of the work leaves who watches the run.           *)
LEMMA LoopMoves ==
  ASSUME ChatInv, NEW r \in Run, NEW R, Sound(R), Standing(R, r = current),
         run' = [run EXCEPT ![r] = R], UNCHANGED <<current, page, seen, valid, sweep>>,
         R.observers = run[r].observers, Rest(run[r]) => Rest(R), ShowsNoMore(r, R)
  PROVE  ChatInv'
<1>1. Around /\ KeepsWatchers(r, R)
  BY AllStays DEF KeepsWatchers
<1>2. Standing(R, r = current')
  OBVIOUS
<1> QED BY <1>1, <1>2, RunMoves

LEMMA TakeKeeps ==
  ASSUME ChatInv, NEW r \in Run, Take(r), UNCHANGED <<current, page, seen, valid, sweep>>
  PROVE  ChatInv'
<1> DEFINE Q == run[r]
           taken == PageSession[Head(Q.queue).page] \in valid
           R == [Q EXCEPT !.queue = Tail(@), !.loop = IF taken THEN "dispatching" ELSE @,
                          !.frame = IF taken THEN Head(Q.queue) ELSE @]
<1>1. Sound(Q) /\ Standing(Q, r = current) /\ Q \in RunRecs /\ Q.loop = "waiting" /\ Q.queue # <<>>
  BY OfRun DEF Take
<1>2. Q.queue \in Seq(Frames) /\ MaxFrames \in Nat
  BY <1>1, ChatRunsAssumption DEF RunRecs
<1>3. /\ Head(Q.queue) \in Frames /\ Tail(Q.queue) \in Seq(Frames)
      /\ Len(Tail(Q.queue)) = Len(Q.queue) - 1 /\ Len(Q.queue) \in Nat
  BY <1>1, <1>2, HeadTailProperties, LenProperties
<1>4. run' = [run EXCEPT ![r] = R]
  BY <1>1 DEF Take, RunRecs
<1> HIDE DEF taken
<1>5. /\ R \in RunRecs /\ R.queue = Tail(Q.queue) /\ R.loop \in {"waiting", "dispatching"}
      /\ R.loop = "dispatching" => R.frame = Head(Q.queue)
      /\ R.live = Q.live /\ R.work = Q.work /\ R.works = Q.works /\ R.end = Q.end /\ R.retired = Q.retired
      /\ R.observers = Q.observers
  BY <1>1, <1>3 DEF RunRecs
<1> HIDE DEF R
<1>6. Sound(R) /\ Standing(R, r = current)
  BY <1>1, <1>2, <1>3, <1>5 DEF Sound, Closed, Standing
<1>7. (Rest(Q) => Rest(R)) /\ ShowsNoMore(r, R)
  BY <1>1, <1>5 DEF Rest, ShowsNoMore, Live
<1> QED BY <1>4, <1>5, <1>6, <1>7, LoopMoves

LEMMA StartWorkKeeps ==
  ASSUME ChatInv, NEW r \in Run, StartWork(r), UNCHANGED <<current, page, seen, valid, sweep>>
  PROVE  ChatInv'
<1> DEFINE Q == run[r]
           op == [by |-> PageSession[Q.frame.page], steps |-> 0]
           R == [Q EXCEPT !.loop = "started", !.works = @ + 1, !.work = op]
<1>1. Sound(Q) /\ Standing(Q, r = current) /\ Q \in RunRecs /\ Q.loop = "dispatching"
  BY OfRun DEF StartWork
<1>2. Q.frame \in Frames /\ op \in Operations
  BY <1>1 DEF Sound, Frames, Operations, Session
<1>3. run' = [run EXCEPT ![r] = R]
  BY <1>1 DEF StartWork, RunRecs
<1> HIDE DEF op
<1>a. Q.works \in Nat /\ Q.works + 1 \in Nat
  BY <1>1 DEF RunRecs
<1>b. R \in RunRecs
  BY <1>1, <1>2, <1>a DEF RunRecs
<1>4. /\ R \in RunRecs /\ R.loop = "started" /\ R.works = Q.works + 1 /\ R.frame = Q.frame
      /\ R.live = Q.live /\ R.queue = Q.queue /\ R.end = Q.end /\ R.retired = Q.retired
      /\ R.observers = Q.observers /\ Q.works \in Nat /\ Q.live \in Seq(Steps)
  BY <1>1, <1>2, <1>a, <1>b DEF RunRecs
<1> HIDE DEF R
<1>5. \A i \in DOMAIN Q.live : Q.live[i].of \in Nat /\ Q.live[i].of <= Q.works
  <2>1. \A i \in DOMAIN Q.live : Q.live[i] \in Steps
    BY <1>4, LenProperties, ElementOfSeq
  <2> QED BY <2>1, <1>1 DEF Sound, Steps
<1>6. Sound(R) /\ Standing(R, r = current)
  BY <1>1, <1>2, <1>4, <1>5 DEF Sound, Closed, Standing
<1>7. Live(R) = {}
  BY <1>4, <1>5 DEF Live, ToSet
<1>8. (Rest(Q) => Rest(R)) /\ ShowsNoMore(r, R)
  BY <1>1, <1>7 DEF Rest, ShowsNoMore
<1> QED BY <1>3, <1>4, <1>6, <1>8, LoopMoves

LEMMA ReturnedKeeps ==
  ASSUME ChatInv, NEW r \in Run, Returned(r), UNCHANGED <<current, page, seen, valid, sweep>>
  PROVE  ChatInv'
<1> DEFINE Q == run[r]
           new == Q.loop = "started" /\ Q.work # None
           R == [Q EXCEPT !.loop = "waiting", !.frame = None,
                          !.authority = IF new THEN PageSession[Q.frame.page] ELSE @,
                          !.live = IF new THEN <<>> ELSE @]
<1>1. Sound(Q) /\ Standing(Q, r = current) /\ Q \in RunRecs /\ Q.loop \in {"dispatching", "started"}
  BY OfRun DEF Returned
<1>2. PageSession[Q.frame.page] \in Session
  BY <1>1 DEF Sound, Frames, Session
<1>3. run' = [run EXCEPT ![r] = R]
  BY <1>1 DEF Returned, RunRecs
<1>4. <<>> \in Seq(Steps) /\ Len(<<>>) = 0 /\ DOMAIN <<>> = {} /\ LiveSteps \in Nat
  BY EmptySeq, ChatRunsAssumption
<1> HIDE DEF new
<1>5. /\ R \in RunRecs /\ R.loop = "waiting" /\ R.live \in {<<>>, Q.live} /\ R.queue = Q.queue
      /\ R.work = Q.work /\ R.works = Q.works /\ R.end = Q.end /\ R.retired = Q.retired
      /\ R.observers = Q.observers
  BY <1>1, <1>2, <1>4 DEF RunRecs
<1> HIDE DEF R
<1>6. Sound(R) /\ Standing(R, r = current)
  BY <1>1, <1>4, <1>5 DEF Sound, Closed, Standing
<1>7. (Rest(Q) => Rest(R)) /\ ShowsNoMore(r, R)
  BY <1>1, <1>4, <1>5 DEF Rest, ShowsNoMore, Live, ToSet
<1> QED BY <1>3, <1>5, <1>6, <1>7, LoopMoves

LEMMA WorkEndsKeeps ==
  ASSUME ChatInv, NEW r \in Run, WorkEnds(r), UNCHANGED <<current, page, seen, valid, sweep>>
  PROVE  ChatInv'
<1> DEFINE Q == run[r]
           S == [Q EXCEPT !.work = None]
           R == IF Q.retired /\ ~Closed(Q) THEN Gone(Q) ELSE S
<1>1. Sound(Q) /\ Standing(Q, r = current) /\ Q \in RunRecs
  BY OfRun
<1>2. run' = [run EXCEPT ![r] = R]
  BY <1>1 DEF WorkEnds, RunRecs
<1>3. Sound(Gone(Q)) /\ Rest(Gone(Q)) /\ Gone(Q).retired = Q.retired
  BY <1>1, GoneSound
<1>4. /\ S \in RunRecs /\ S.work = None /\ S.loop = Q.loop /\ S.frame = Q.frame /\ S.queue = Q.queue
      /\ S.live = Q.live /\ S.works = Q.works /\ S.end = Q.end /\ S.retired = Q.retired
      /\ S.observers = Q.observers
  BY <1>1 DEF RunRecs
<1> HIDE DEF S
<1>5. Sound(S) /\ Standing(S, r = current) /\ (Rest(Q) => Rest(S))
  BY <1>1, <1>4 DEF Sound, Closed, Standing, Rest
<1>6. CASE Q.retired /\ ~Closed(Q)
  <2>1. Standing(Gone(Q), r = current)
    BY <1>1, <1>3, <1>6 DEF Standing, Rest
  <2>2. KeepsWatchers(r, Gone(Q)) /\ ShowsNoMore(r, Gone(Q)) /\ Around
    BY <1>3, AllStays DEF KeepsWatchers, ShowsNoMore, Rest
  <2>3. run' = [run EXCEPT ![r] = Gone(Q)] /\ current' = current
    BY <1>2, <1>6
  <2>4. Standing(Gone(Q), r = current')
    BY <2>1, <2>3
  <2> QED BY <1>3, <2>2, <2>3, <2>4, RunMoves
<1>7. CASE ~(Q.retired /\ ~Closed(Q))
  <2>1. run' = [run EXCEPT ![r] = S] /\ ShowsNoMore(r, S)
    BY <1>2, <1>4, <1>7 DEF ShowsNoMore
  <2> QED BY <1>4, <1>5, <2>1, LoopMoves
<1> QED BY <1>6, <1>7

LEMMA DisconnectKeeps ==
  ASSUME ChatInv, NEW r \in Run, Disconnect(r), UNCHANGED <<seen, valid, sweep>>
  PROVE  ChatInv'
<1>1. run[r].loop = "dispatching" /\ End(r)
  BY DEF Disconnect
<1>2. r = current /\ current # 0
  BY <1>1, OfRun, InRun DEF Standing, ChatInv
<1> DEFINE shut(p) == [page[p] EXCEPT !.open = FALSE]
<1>3. \A p \in Page : page[p] \in PageRecs /\ (page[p].main = "retiring" => page[p].at \in Run)
  BY DEF ChatInv, Typed, Found
<1>4. \A p \in Page : /\ shut(p) \in PageRecs /\ shut(p).start = page[p].start /\ shut(p).startAt = page[p].startAt
                      /\ shut(p).open = FALSE /\ shut(p).main = page[p].main /\ shut(p).at = page[p].at
  BY <1>3 DEF PageRecs
<1>5. page' = [p \in Page |-> IF p \in run[r].observers THEN shut(p) ELSE page[p]]
  BY DEF Disconnect
<1> HIDE DEF shut
<1>6. \A p \in Page : Quiet(p)
  BY <1>4, <1>5 DEF Quiet
<1>7. page' \in [Page -> PageRecs] /\ \A p \in Page : page'[p].main = "retiring" => page'[p].at \in Run
  BY <1>3, <1>4, <1>5
<1>8. Around
  BY <1>6, <1>7 DEF Around, ChatInv, Typed, Found
<1> QED BY <1>1, <1>2, <1>8, EndKeeps

(* A step shown goes to the end of the live steps, which lose their first  *)
(* when there are too many.                                                *)
LEMMA LastSteps ==
  ASSUME NEW w \in Seq(Steps), NEW e \in Nat, e <= Len(w)
  PROVE  LET v == SubSeq(w, e + 1, Len(w)) IN
         v \in Seq(Steps) /\ Len(v) = Len(w) - e /\ ToSet(v) \subseteq ToSet(w)
<1> DEFINE v == SubSeq(w, e + 1, Len(w))
<1>1. DOMAIN w = 1..Len(w) /\ Len(w) \in Nat
  BY LenProperties
<1>2. \A i \in (e + 1)..Len(w) : i \in 1..Len(w)
  BY <1>1
<1>3. \A i \in (e + 1)..Len(w) : w[i] \in Steps
  BY <1>2, ElementOfSeq
<1>4. /\ v \in Seq(Steps) /\ Len(v) = IF e + 1 <= Len(w) THEN Len(w) - (e + 1) + 1 ELSE 0
      /\ \A i \in 1..(Len(w) - (e + 1) + 1) : v[i] = w[e + 1 + i - 1]
  BY <1>1, <1>3, SubSeqProperties
<1> HIDE DEF v
<1>b. (IF e + 1 <= Len(w) THEN Len(w) - (e + 1) + 1 ELSE 0) = Len(w) - e
  <2>1. \A n, m \in Nat : m <= n => (IF m + 1 <= n THEN n - (m + 1) + 1 ELSE 0) = n - m
    OBVIOUS
  <2> QED BY <1>1, <2>1
<1>5. Len(v) = Len(w) - e
  BY ONLY <1>4, <1>b
<1>a. DOMAIN v = 1..Len(v)
  BY <1>4, LenProperties
<1>6. \A i \in 1..Len(v) : e + i \in 1..Len(w) /\ v[i] = w[e + i]
  <2> SUFFICES ASSUME NEW i \in 1..Len(v) PROVE e + i \in 1..Len(w) /\ v[i] = w[e + i]
    OBVIOUS
  <2>1. i \in 1..(Len(w) - (e + 1) + 1) /\ e + 1 + i - 1 = e + i /\ e + i \in 1..Len(w)
    BY ONLY <1>1, <1>5, e \in Nat, e <= Len(w), i \in 1..Len(v)
  <2> QED BY <1>4, <2>1
<1>7. ToSet(v) \subseteq ToSet(w)
  BY <1>1, <1>a, <1>6 DEF ToSet
<1> QED BY <1>4, <1>5, <1>7 DEF v

LEMMA AddedStep ==
  ASSUME NEW w \in Seq(Steps), NEW step \in Steps, NEW first \in BOOLEAN
  PROVE  LET v == IF first THEN <<step>> ELSE Append(w, step) IN
         v \in Seq(Steps) /\ ToSet(v) \subseteq ToSet(w) \cup {step}
<1>1. CASE first
  <2>1. <<step>> \in Seq(Steps) /\ DOMAIN <<step>> = {1} /\ <<step>>[1] = step
    OBVIOUS
  <2> QED BY <1>1, <2>1 DEF ToSet
<1>2. CASE ~first
  <2> DEFINE v == Append(w, step)
  <2>1. /\ v \in Seq(Steps) /\ Len(v) = Len(w) + 1 /\ v[Len(w) + 1] = step
        /\ \A i \in 1..Len(w) : v[i] = w[i]
    BY AppendProperties
  <2>2. DOMAIN v = 1..Len(v) /\ DOMAIN w = 1..Len(w) /\ Len(w) \in Nat
    BY <2>1, LenProperties
  <2> HIDE DEF v
  <2>3. \A i \in 1..Len(v) : i \in 1..Len(w) \/ i = Len(w) + 1
    BY <2>1, <2>2
  <2>4. ToSet(v) \subseteq ToSet(w) \cup {step}
    BY <2>1, <2>2, <2>3 DEF ToSet
  <2> QED BY <1>2, <2>1, <2>4 DEF v
<1> QED BY <1>1, <1>2

LEMMA PublishKeeps ==
  ASSUME ChatInv, NEW r \in Run, Publish(r), UNCHANGED <<current, page, valid, sweep>>
  PROVE  ChatInv'
<1> DEFINE Q == run[r]
           step == [of |-> Q.works, n |-> Q.work.steps + 1]
           steps == IF step.n = 1 THEN <<step>> ELSE Append(Q.live, step)
           excess == IF Len(steps) > LiveSteps THEN Len(steps) - LiveSteps ELSE 0
           lasts == SubSeq(steps, excess + 1, Len(steps))
           took == {p \in Q.observers : page[p].open}
           R == [Q EXCEPT !.live = lasts, !.work.steps = @ + 1, !.observers = took]
<1>1. Sound(Q) /\ Standing(Q, r = current) /\ Q \in RunRecs /\ Q.work # None
  BY OfRun DEF Publish
<1>2. /\ run' = [run EXCEPT ![r] = R]
      /\ seen' = [p \in Page |-> IF p \in took THEN seen[p] \cup {step} ELSE seen[p]]
  BY <1>1 DEF Publish, RunRecs
<1>3. Q.live \in Seq(Steps) /\ Q.work \in Operations /\ Q.work.steps \in Nat /\ Q.works \in Nat
  BY <1>1 DEF RunRecs, Operations
<1>4. step \in Steps /\ step.of = Q.works
  BY <1>3 DEF Steps
<1>5. steps \in Seq(Steps) /\ ToSet(steps) \subseteq ToSet(Q.live) \cup {step}
  BY <1>3, <1>4, AddedStep
<1>6. Len(steps) \in Nat /\ LiveSteps \in Nat
  BY <1>5, ChatRunsAssumption, LenProperties
<1>7. excess \in Nat /\ excess <= Len(steps) /\ Len(steps) - excess <= LiveSteps
  BY <1>6
<1> HIDE DEF excess, steps, step
<1>8. lasts \in Seq(Steps) /\ Len(lasts) <= LiveSteps /\ ToSet(lasts) \subseteq ToSet(Q.live) \cup {step}
  BY <1>5, <1>7, LastSteps
<1> HIDE DEF lasts
<1>9. [Q.work EXCEPT !.steps = @ + 1] \in Operations
  BY <1>3 DEF Operations
<1>10. took \subseteq Page /\ took \subseteq Q.observers
  BY <1>1 DEF RunRecs
<1> HIDE DEF took
<1>11. /\ R \in RunRecs /\ R.live = lasts /\ R.observers = took /\ R.loop = Q.loop /\ R.frame = Q.frame
       /\ R.queue = Q.queue /\ R.works = Q.works /\ R.end = Q.end /\ R.retired = Q.retired
       /\ R.work = [Q.work EXCEPT !.steps = @ + 1]
  BY <1>1, <1>8, <1>9, <1>10 DEF RunRecs
<1> HIDE DEF R
<1>12. \A i \in DOMAIN lasts : lasts[i].of <= Q.works
  <2>1. \A i \in DOMAIN lasts : lasts[i] \in ToSet(Q.live) \cup {step}
    BY <1>8 DEF ToSet
  <2>2. \A t \in ToSet(Q.live) : t.of <= Q.works
    BY <1>1 DEF Sound, ToSet
  <2> QED BY <1>3, <1>4, <2>1, <2>2
<1>13. Sound(R)
  BY <1>1, <1>8, <1>11, <1>12 DEF Sound, Closed
<1>14. Standing(R, r = current')
  <2>1. Q.retired \/ r = current
    BY <1>1 DEF Standing
  <2> QED BY <1>1, <1>11, <2>1 DEF Standing
<1>15. Became(r, R)
  BY <1>2, <1>11, Replaced DEF ChatInv
<1>16. KeepsWatchers(r, R)
  BY <1>1, <1>11 DEF KeepsWatchers, Rest, took
<1>17. seen' \in [Page -> SUBSET Steps] /\ \A q \in Page : Quiet(q)
  BY <1>2, <1>4 DEF Quiet, ChatInv, Typed
<1>18. Typed' /\ Found' /\ RunsSound'
  <2>1. Typed'
    BY <1>15, <1>17 DEF Typed, Became, ChatInv
  <2>2. Found'
    BY <1>15, InRun, InRunAfter DEF Found, ChatInv, Became
  <2>3. RunsSound'
    BY <1>13, <1>14, <1>15, SoundKept DEF ChatInv
  <2> QED BY <2>1, <2>2, <2>3
<1>19. Live(R) \subseteq Live(Q) \cup {step}
  BY <1>8, <1>11 DEF Live
<1>20. PagesSound'
  <2> SUFFICES ASSUME NEW q \in Page PROVE (Watching(q) /\ Shown(q))'
    BY Zenon DEF PagesSound
  <2>1. Typed /\ Quiet(q) /\ Watching(q) /\ Shown(q)
    BY <1>17 DEF ChatInv, PagesSound
  <2>2. Watching(q)'
    BY <1>15, <1>16, <2>1, WatchingKept
  <2>3. CASE page[q].startAt # r \/ page[q].start # "over" \/ ~page[q].open
    <3>1. page[q].start = "over" /\ page[q].open => page[q].startAt \in Run /\ page[q].startAt # r
      BY <2>1, <2>3 DEF Watching
    <3>2. page[q].startAt \in Run /\ page[q].startAt # r => run'[page[q].startAt] = run[page[q].startAt]
      BY <1>15, InRun DEF Became, ChatInv
    <3> QED BY <2>1, <2>2, <3>1, <3>2 DEF Shown, Quiet
  <2>4. CASE page[q].startAt = r /\ page[q].start = "over" /\ page[q].open
    <3>1. q \in took
      BY <1>1, <2>1, <2>4 DEF Watching, Rest, took
    <3>2. Live(Q) \subseteq seen[q] /\ seen'[q] = seen[q] \cup {step}
      BY <1>1, <1>2, <2>1, <2>4, <3>1 DEF Shown
    <3>3. run'[r] = R
      BY <1>15 DEF Became
    <3>4. Live(run'[page'[q].startAt]) \subseteq seen'[q]
      BY <1>19, <2>4, <3>2, <3>3
    <3> QED BY <2>2, <3>4 DEF Shown
  <2> QED BY <2>3, <2>4
<1> QED BY <1>18, <1>20 DEF ChatInv

-----------------------------------------------------------------------------
(* The registry.                                                           *)

LEMMA RunsEndKeeps ==
  ASSUME ChatInv, EndRuns \/ \E s \in Session : SessionsEnded(s)
  PROVE  ChatInv'
<1>1. CASE EndRuns
  <2>1. current # 0 /\ End(current) /\ Around
    BY <1>1, AllStays DEF EndRuns
  <2> QED BY <2>1, EndKeeps
<1>2. ASSUME NEW s \in Session, SessionsEnded(s) PROVE ChatInv'
  <2>1. Around
    BY <1>2, AroundStays DEF SessionsEnded, ChatInv, Typed, Found
  <2>2. (current # 0 /\ End(current)) \/ UNCHANGED <<run, current>>
    BY <1>2 DEF SessionsEnded
  <2> QED BY <2>1, <2>2, EndKeeps, RunsStay
<1> QED BY <1>1, <1>2

LEMMA SweepKeeps == ASSUME ChatInv, SweepStep PROVE ChatInv'
<1>1. Typed /\ Found /\ Run = 1..Len(run)
  BY InRun DEF ChatInv
<1>2. \A at \in {"asleep", "retiring", "leaving", "over"}, k \in 0..Len(run) : Sweep(at, k) \in SweepRecs
  BY <1>1, LenProperties DEF Sweep, SweepRecs, Typed
<1>3. CASE Swept
  <2>1. UNCHANGED <<page, seen, valid>> /\ current \in 0..Len(run)
    BY <1>1, <1>3 DEF Swept, Typed
  <2>2. sweep' \in {sweep, Sweep("leaving", 0)} \/ (current # 0 /\ sweep' = Sweep("retiring", current))
    BY <1>3 DEF Swept
  <2>3. sweep' \in SweepRecs /\ (sweep'.at = "retiring" => sweep'.run \in Run)
    BY <1>1, <1>2, <2>1, <2>2 DEF Typed, Found, Sweep
  <2>4. Around
    BY <1>1, <2>1, <2>3, AroundStays DEF Typed
  <2>5. (current # 0 /\ End(current)) \/ UNCHANGED <<run, current>>
    BY <1>3 DEF Swept
  <2> QED BY <2>4, <2>5, EndKeeps, RunsStay
<1>4. CASE SweepRetires
  <2>1. sweep.run \in Run /\ Retire(sweep.run) /\ sweep' = Sweep("asleep", 0) /\ UNCHANGED <<page, seen, valid>>
    BY <1>1, <1>4 DEF SweepRetires, Found
  <2>2. sweep' \in SweepRecs /\ sweep'.at # "retiring"
    BY <1>2, <2>1 DEF Sweep, SweepRecs
  <2>3. Around
    BY <1>1, <2>1, <2>2, AroundStays DEF Typed
  <2> QED BY <2>1, <2>3, RetireKeeps
<1>5. CASE SweepReturns
  <2>1. sweep' = Sweep("over", 0) /\ UNCHANGED <<run, current, page, seen, valid>>
    BY <1>5 DEF SweepReturns
  <2>2. sweep' \in SweepRecs /\ sweep'.at # "retiring"
    BY <2>1 DEF Sweep, SweepRecs
  <2>3. Around
    BY <1>1, <2>1, <2>2, AroundStays DEF Typed
  <2> QED BY <2>1, <2>3, RunsStay
<1> QED BY <1>3, <1>4, <1>5 DEF SweepStep

-----------------------------------------------------------------------------
(* The pages.                                                              *)

LEMMA SubmittedSound ==
  ASSUME NEW R, Sound(R), NEW p \in Page, NEW kind \in {"sync", "sent"}
  PROVE  LET S == Submitted(R, p, kind) IN
         /\ Sound(S) /\ S.loop = R.loop /\ S.work = R.work /\ S.works = R.works /\ S.live = R.live
         /\ S.end = R.end /\ S.retired = R.retired
         /\ \A q \in Page : page[q].open /\ q \in R.observers => q \in S.observers
<1> DEFINE S == Submitted(R, p, kind)
           frame == [page |-> p, kind |-> kind]
<1>1. R \in RunRecs /\ R.queue \in Seq(Frames) /\ frame \in Frames /\ MaxFrames \in Nat
  BY ChatRunsAssumption DEF Sound, RunRecs, Frames
<1>2. Len(R.queue) \in Nat /\ Append(R.queue, frame) \in Seq(Frames) /\ Len(Append(R.queue, frame)) = Len(R.queue) + 1
  BY <1>1, AppendProperties, LenProperties
<1> DEFINE left == [R EXCEPT !.observers = IF page[p].open THEN @ ELSE @ \ {p}]
           sent == [R EXCEPT !.queue = Append(@, frame)]
<1>3. S = R \/ S = left \/ (S = sent /\ Len(R.queue) < MaxFrames)
  BY <1>1, <1>2 DEF Submitted
<1>4. /\ left \in RunRecs /\ left.queue = R.queue /\ left.frame = R.frame
      /\ left.loop = R.loop /\ left.work = R.work /\ left.works = R.works /\ left.live = R.live
      /\ left.end = R.end /\ left.retired = R.retired
      /\ \A q \in Page : page[q].open /\ q \in R.observers => q \in left.observers
  BY <1>1 DEF RunRecs
<1>5. /\ sent \in RunRecs /\ sent.queue = Append(R.queue, frame) /\ sent.frame = R.frame
      /\ sent.loop = R.loop /\ sent.work = R.work /\ sent.works = R.works /\ sent.live = R.live
      /\ sent.end = R.end /\ sent.retired = R.retired /\ sent.observers = R.observers
  BY <1>1, <1>2 DEF RunRecs
<1> HIDE DEF left, sent, S, frame
<1>6. CASE S = R
  BY <1>6 DEF S
<1>7. CASE S = left
  <2>1. Sound(left)
    BY <1>4 DEF Sound, Closed
  <2> QED BY <1>4, <1>7, <2>1 DEF S
<1>8. CASE S = sent /\ Len(R.queue) < MaxFrames
  <2>1. Len(sent.queue) <= MaxFrames
    BY <1>1, <1>2, <1>5, <1>8
  <2>2. Sound(sent)
    BY <1>5, <2>1 DEF Sound, Closed
  <2> QED BY <1>5, <1>8, <2>2 DEF S
<1> QED BY <1>3, <1>6, <1>7, <1>8

LEMMA ObservedSound ==
  ASSUME NEW R, Sound(R), NEW p \in Page
  PROVE  LET S == Observed(R, p) IN
         /\ Sound(S) /\ S.loop = R.loop /\ S.work = R.work /\ S.works = R.works /\ S.live = R.live
         /\ S.end = R.end /\ S.retired = R.retired /\ S.observers = R.observers \cup {p}
<1> DEFINE S == Observed(R, p)
<1>1. R \in RunRecs
  BY DEF Sound
<1>2. /\ S \in RunRecs /\ S.queue = R.queue /\ S.frame = R.frame
      /\ S.loop = R.loop /\ S.work = R.work /\ S.works = R.works /\ S.live = R.live
      /\ S.end = R.end /\ S.retired = R.retired /\ S.observers = R.observers \cup {p}
  BY <1>1 DEF RunRecs, Observed
<1> HIDE DEF S
<1>3. Sound(S)
  BY <1>2 DEF Sound, Closed
<1> QED BY <1>2, <1>3 DEF S

(* What run_for gives is sound, and the Team's.                            *)
LEMMA TeamRunSound ==
  ASSUME ChatInv
  PROVE  /\ Sound(TeamRun) /\ ~TeamRun.retired
         /\ current # 0 => current \in Run /\ TeamRun = run[current]
<1>1. CASE current # 0
  <2>1. current \in Run
    BY <1>1, InRun DEF ChatInv, Typed
  <2> QED BY <1>1, <2>1, OfRun DEF TeamRun, Standing
<1>2. CASE current = 0
  <2>1. /\ <<>> \in Seq(Frames) /\ <<>> \in Seq(Steps) /\ Len(<<>>) = 0 /\ DOMAIN <<>> = {}
        /\ MaxFrames \in Nat /\ LiveSteps \in Nat
    BY ChatRunsAssumption, EmptySeq
  <2>2. NewRun \in RunRecs
    BY <2>1 DEF NewRun, RunRecs
  <2>3. Sound(NewRun)
    BY <2>1, <2>2 DEF NewRun, Sound, Closed
  <2> QED BY <1>2, <2>3 DEF TeamRun, NewRun
<1> QED BY <1>1, <1>2

(* A page's step on the run it is given.                                   *)
LEMMA RunForKeeps ==
  ASSUME ChatInv, NEW R, Sound(R), RunFor(R),
         R.loop = TeamRun.loop, R.work = TeamRun.work, R.works = TeamRun.works, R.live = TeamRun.live,
         R.retired = TeamRun.retired,
         \A q \in Page : page'[q].open /\ q \in TeamRun.observers => q \in R.observers,
         page' \in [Page -> PageRecs], seen' \in [Page -> SUBSET Steps], valid' \subseteq Session,
         \A p \in Page : page'[p].main = "retiring" => page[p].main = "retiring" /\ page'[p].at = page[p].at
  PROVE  /\ Became(current', R) /\ Typed' /\ Found' /\ RunsSound'
         /\ \A q \in Page : Quiet(q) => (Watching(q) /\ Shown(q))'
<1>1. Sound(TeamRun) /\ ~TeamRun.retired /\ (current # 0 => TeamRun = run[current])
  BY TeamRunSound
<1>2. /\ Became(current', R) /\ current' # 0
      /\ current # 0 => current' = current
      /\ current = 0 => current' \notin Run
  BY Provided DEF ChatInv, Sound
<1>3. Run = 1..Len(run) /\ Run' = 1..Len(run') /\ Run \subseteq Run' /\ Len(run) \in Nat
  BY <1>2, InRun, InRunAfter DEF ChatInv, Became
<1>4. sweep' \in SweepRecs /\ (sweep'.at = "retiring" => sweep'.run \in Run)
  <2>1. sweep' = sweep \/ sweep' = Sweep("asleep", 0)
    BY DEF RunFor, SweepStarted
  <2>2. Sweep("asleep", 0) \in SweepRecs /\ Sweep("asleep", 0).at # "retiring"
    BY DEF Sweep, SweepRecs
  <2> QED BY <2>1, <2>2 DEF ChatInv, Typed, Found
<1>5. Typed'
  BY <1>2, <1>4 DEF Typed, Became
<1>6. Found'
  BY <1>3, <1>4 DEF Found, ChatInv
<1>7. RunsSound'
  <2>1. Standing(R, current' = current')
    BY <1>1 DEF Standing
  <2> QED BY <1>2, <2>1, SoundKept DEF ChatInv
<1>8. KeepsWatchers(current', R) /\ ShowsNoMore(current', R)
  <2>1. current' \in Run => run[current'] = TeamRun
    BY <1>1, <1>2
  <2> QED BY <2>1 DEF KeepsWatchers, ShowsNoMore, Rest, Live
<1>9. \A q \in Page : Quiet(q) => (Watching(q) /\ Shown(q))'
  <2> SUFFICES ASSUME NEW q \in Page, Quiet(q) PROVE (Watching(q) /\ Shown(q))'
    BY Zenon
  <2>1. Typed /\ Watching(q) /\ Shown(q)
    BY DEF ChatInv, PagesSound
  <2> QED BY <1>2, <1>8, <2>1, WatchingKept, ShownKept
<1> QED BY <1>2, <1>5, <1>6, <1>7, <1>9

LEMMA AttachKeeps == ASSUME ChatInv, NEW p \in Page, Attach(p) PROVE ChatInv'
<1> DEFINE R == Observed(TeamRun, p)
<1>1. Sound(TeamRun) /\ Typed
  BY TeamRunSound DEF ChatInv
<1>2. /\ Sound(R) /\ R.loop = TeamRun.loop /\ R.work = TeamRun.work /\ R.works = TeamRun.works
      /\ R.live = TeamRun.live /\ R.retired = TeamRun.retired /\ R.observers = TeamRun.observers \cup {p}
  BY <1>1, ObservedSound
<1>3. /\ RunFor(R) /\ UNCHANGED <<seen, valid>>
      /\ page' = [page EXCEPT ![p].main = "in", ![p].start = "observed", ![p].startAt = current']
  BY DEF Attach
<1>4. current' \in Nat
  <2>1. Became(current', R)
    BY <1>1, <1>2, <1>3, Provided DEF Sound
  <2>2. Len(run') \in Nat
    BY <2>1, InRunAfter
  <2> QED BY <2>1, <2>2 DEF Became
<1>5. /\ page' \in [Page -> PageRecs] /\ page'[p].start = "observed" /\ page'[p].startAt = current' /\ page'[p].main = "in"
      /\ \A q \in Page : q # p => page'[q] = page[q]
  BY <1>1, <1>3, <1>4 DEF Typed, PageRecs
<1> HIDE DEF R
<1>6. /\ Became(current', R) /\ Typed' /\ Found' /\ RunsSound'
      /\ \A q \in Page : Quiet(q) => (Watching(q) /\ Shown(q))'
  <2>1. \A q \in Page : page'[q].open /\ q \in TeamRun.observers => q \in R.observers
    BY <1>2
  <2>2. \A q \in Page : page'[q].main = "retiring" => page[q].main = "retiring" /\ page'[q].at = page[q].at
    BY <1>5
  <2>3. seen' \in [Page -> SUBSET Steps] /\ valid' \subseteq Session
    BY <1>1, <1>3 DEF Typed
  <2> QED BY <1>2, <1>3, <1>5, <2>1, <2>2, <2>3, RunForKeeps
<1>7. (Watching(p) /\ Shown(p))'
  <2>1. current' \in Run' /\ run'[current'] = R /\ p \in R.observers
    BY <1>2, <1>6, InRunAfter
  <2> QED BY <1>5, <2>1 DEF Watching, Shown
<1>8. \A q \in Page : q # p => Quiet(q)
  BY <1>3, <1>5 DEF Quiet
<1>9. PagesSound'
  <2> SUFFICES ASSUME NEW q \in Page PROVE (Watching(q) /\ Shown(q))'
    BY Zenon DEF PagesSound
  <2> QED BY <1>6, <1>7, <1>8
<1> QED BY <1>6, <1>9 DEF ChatInv

LEMMA SubmitKeeps == ASSUME ChatInv, NEW p \in Page, Submit(p) PROVE ChatInv'
<1> DEFINE O == IF Closed(TeamRun) THEN TeamRun ELSE Observed(TeamRun, p)
           R == Submitted(O, p, "sent")
<1>1. Sound(TeamRun) /\ Typed
  BY TeamRunSound DEF ChatInv
<1>2. /\ Sound(O) /\ O.loop = TeamRun.loop /\ O.work = TeamRun.work /\ O.works = TeamRun.works
      /\ O.live = TeamRun.live /\ O.retired = TeamRun.retired /\ TeamRun.observers \subseteq O.observers
  BY <1>1, ObservedSound
<1> HIDE DEF O
<1>3. /\ Sound(R) /\ R.loop = O.loop /\ R.work = O.work /\ R.works = O.works
      /\ R.live = O.live /\ R.retired = O.retired
      /\ \A q \in Page : page[q].open /\ q \in O.observers => q \in R.observers
  BY <1>2, SubmittedSound
<1>4. /\ RunFor(R) /\ UNCHANGED <<seen, valid>> /\ page[p].open
      /\ page' = [page EXCEPT ![p].sent = @ + 1, ![p].open = current = 0 \/ ~Full(run[current])]
  BY DEF Submit, O
<1>5. /\ page' \in [Page -> PageRecs] /\ page'[p].start = page[p].start /\ page'[p].startAt = page[p].startAt
      /\ page'[p].main = page[p].main /\ page'[p].at = page[p].at
      /\ \A q \in Page : q # p => page'[q] = page[q]
  <2>1. page[p] \in PageRecs /\ page[p].sent \in Nat /\ page[p].sent + 1 \in Nat
    BY <1>1 DEF Typed, PageRecs
  <2>2. (current = 0 \/ ~Full(run[current])) \in BOOLEAN
    OBVIOUS
  <2> DEFINE b == current = 0 \/ ~Full(run[current])
             P == [page[p] EXCEPT !.sent = @ + 1, !.open = b]
  <2>3. page' = [page EXCEPT ![p] = P]
    BY <1>1, <1>4 DEF Typed
  <2> HIDE DEF b
  <2>4. /\ P \in PageRecs /\ P.start = page[p].start /\ P.startAt = page[p].startAt
        /\ P.main = page[p].main /\ P.at = page[p].at
    BY <2>1, <2>2 DEF PageRecs, b
  <2> HIDE DEF P
  <2> QED BY <1>1, <2>3, <2>4 DEF Typed
<1> HIDE DEF R
<1>6. \A q \in Page : Quiet(q)
  BY <1>4, <1>5 DEF Quiet
<1>7. /\ Typed' /\ Found' /\ RunsSound'
      /\ \A q \in Page : Quiet(q) => (Watching(q) /\ Shown(q))'
  <2>1. \A q \in Page : page'[q].open /\ q \in TeamRun.observers => q \in R.observers
    BY <1>2, <1>3, <1>6 DEF Quiet
  <2>2. \A q \in Page : page'[q].main = "retiring" => page[q].main = "retiring" /\ page'[q].at = page[q].at
    BY <1>5
  <2>3. seen' \in [Page -> SUBSET Steps] /\ valid' \subseteq Session
    BY <1>1, <1>4 DEF Typed
  <2>4. R.loop = TeamRun.loop /\ R.work = TeamRun.work /\ R.works = TeamRun.works /\ R.live = TeamRun.live /\ R.retired = TeamRun.retired
    BY <1>2, <1>3
  <2> QED BY <1>3, <1>4, <1>5, <2>1, <2>2, <2>3, <2>4, RunForKeeps
<1>8. PagesSound'
  <2> SUFFICES ASSUME NEW q \in Page PROVE (Watching(q) /\ Shown(q))'
    BY Zenon DEF PagesSound
  <2> QED BY <1>6, <1>7
<1> QED BY <1>7, <1>8 DEF ChatInv

(* A page is shown where its run is: it watched the run before.            *)
LEMMA StartShownKeeps == ASSUME ChatInv, NEW p \in Page, StartShown(p) PROVE ChatInv'
<1> DEFINE r == page[p].startAt
           Q == run[r]
           B == [Q EXCEPT !.observers = @ \cup {p}]
           S == Submitted(Q, p, "sync")
           R == IF Busy(Q) THEN B ELSE S
<1>1. Typed /\ r \in Run /\ page[p] \in PageRecs /\ page[p].start = "observed" /\ Watching(p)
  BY DEF ChatInv, Typed, PagesSound, Watching, StartShown
<1>2. Sound(Q) /\ Standing(Q, r = current) /\ Q \in RunRecs
  BY <1>1, OfRun
<1>3. run' = [run EXCEPT ![r] = R] /\ UNCHANGED <<current, valid, sweep>>
  BY DEF StartShown
<1>4. /\ B \in RunRecs /\ Sound(B) /\ B.loop = Q.loop /\ B.work = Q.work /\ B.works = Q.works /\ B.live = Q.live
      /\ B.end = Q.end /\ B.retired = Q.retired /\ B.observers = Q.observers \cup {p}
  BY <1>2, ObservedSound DEF Observed, Sound
<1>5. /\ Sound(S) /\ S.loop = Q.loop /\ S.work = Q.work /\ S.works = Q.works /\ S.live = Q.live
      /\ S.end = Q.end /\ S.retired = Q.retired
      /\ \A q \in Page : page[q].open /\ q \in Q.observers => q \in S.observers
  BY <1>2, SubmittedSound
<1> HIDE DEF B, S
<1>6. /\ Sound(R) /\ R.loop = Q.loop /\ R.work = Q.work /\ R.works = Q.works /\ R.live = Q.live
      /\ R.end = Q.end /\ R.retired = Q.retired
      /\ \A q \in Page : page[q].open /\ q \in Q.observers => q \in R.observers
      /\ Busy(Q) => p \in R.observers
  BY <1>4, <1>5
<1> HIDE DEF R
<1>7. Became(r, R) /\ Standing(R, r = current')
  BY <1>1, <1>2, <1>3, <1>6, Replaced DEF Standing, Sound
<1>8. /\ page' \in [Page -> PageRecs] /\ page'[p].open = page[p].open /\ page'[p].start = "over"
      /\ page'[p].open => page'[p].startAt = r
      /\ page'[p].main = page[p].main /\ page'[p].at = page[p].at
      /\ \A q \in Page : q # p => page'[q] = page[q]
  <2> DEFINE P == [page[p] EXCEPT !.start = "over", !.startAt = IF page[p].open THEN @ ELSE 0]
  <2>1. page' = [page EXCEPT ![p] = P]
    BY <1>1 DEF StartShown, Typed, PageRecs
  <2>2. /\ P \in PageRecs /\ P.open = page[p].open /\ P.start = "over" /\ (P.open => P.startAt = r)
        /\ P.main = page[p].main /\ P.at = page[p].at
    BY <1>1 DEF PageRecs
  <2> HIDE DEF P
  <2> QED BY <1>1, <2>1, <2>2 DEF Typed
<1>9. /\ seen' \in [Page -> SUBSET Steps] /\ \A q \in Page : seen[q] \subseteq seen'[q]
      /\ Busy(Q) /\ page[p].open => ToSet(Q.live) \subseteq seen'[p]
  <2>1. ToSet(Q.live) \subseteq Steps
    <3>1. Q.live \in Seq(Steps)
      BY <1>2 DEF RunRecs
    <3>2. DOMAIN Q.live = 1..Len(Q.live)
      BY <3>1, LenProperties
    <3> QED BY <3>1, <3>2, ElementOfSeq DEF ToSet
  <2>2. CASE Busy(Q)
    <3>1. seen' = [seen EXCEPT ![p] = IF page[p].open THEN @ \cup ToSet(Q.live) ELSE @]
      BY <2>2 DEF StartShown
    <3> QED BY <1>1, <2>1, <2>2, <3>1 DEF Typed
  <2>3. CASE ~Busy(Q)
    <3>1. seen' = seen
      BY <2>3 DEF StartShown
    <3> QED BY <1>1, <2>3, <3>1 DEF Typed
  <2> QED BY <2>2, <2>3
<1>10. Typed' /\ Found' /\ RunsSound'
  <2>1. Typed'
    BY <1>1, <1>3, <1>7, <1>8, <1>9 DEF Typed, Became
  <2>2. Found'
    <3>1. Run \subseteq Run'
      BY <1>1, <1>7, InRun, InRunAfter DEF Became
    <3> QED BY <1>3, <1>8, <3>1 DEF Found, ChatInv
  <2>3. RunsSound'
    BY <1>1, <1>6, <1>7, SoundKept DEF ChatInv
  <2> QED BY <2>1, <2>2, <2>3
<1>11. KeepsWatchers(r, R) /\ ShowsNoMore(r, R)
  <2>1. \A q \in Page : page'[q].open => page[q].open
    BY <1>8
  <2> QED BY <1>6, <2>1 DEF KeepsWatchers, ShowsNoMore, Rest, Live
<1>12. \A q \in Page : q # p => (Watching(q) /\ Shown(q))'
  <2> SUFFICES ASSUME NEW q \in Page, q # p PROVE (Watching(q) /\ Shown(q))'
    BY Zenon
  <2>1. Typed /\ Watching(q) /\ Shown(q) /\ Quiet(q)
    BY <1>8, <1>9 DEF ChatInv, PagesSound, Quiet
  <2> QED BY <1>7, <1>11, <2>1, WatchingKept, ShownKept
<1>13. (Watching(p) /\ Shown(p))'
  <2>1. r \in Run' /\ run'[r] = R
    BY <1>7, InRunAfter
  <2>2. page[p].open => p \in R.observers \/ Rest(R)
    BY <1>1, <1>6 DEF Watching, Rest
  <2>3. page[p].open /\ R.work # None => Live(R) \subseteq seen'[p]
    <3>1. R.work # None => Busy(Q)
      BY <1>6 DEF Busy
    <3>2. Live(R) \subseteq ToSet(Q.live)
      BY <1>6 DEF Live
    <3> QED BY <1>9, <3>1, <3>2
  <2> HIDE DEF r
  <2> QED BY <1>8, <2>1, <2>2, <2>3 DEF Watching, Shown
<1>14. PagesSound'
  <2> SUFFICES ASSUME NEW q \in Page PROVE (Watching(q) /\ Shown(q))'
    BY Zenon DEF PagesSound
  <2> QED BY <1>12, <1>13
<1> QED BY <1>10, <1>14 DEF ChatInv

LEMMA LeaveKeeps == ASSUME ChatInv, NEW p \in Page, Leave(p) PROVE ChatInv'
<1> DEFINE Q == run[current]
           left == Q.observers \ {p}
           retires == current # 0 /\ left = {} /\ ~Busy(Q)
           P == [page[p] EXCEPT !.open = FALSE, !.main = IF retires THEN "retiring" ELSE "left",
                                !.at = IF retires THEN current ELSE 0]
           R == [Q EXCEPT !.observers = left]
<1>1. Typed /\ Found /\ page[p] \in PageRecs /\ (current # 0 => current \in Run) /\ current \in Nat
  BY InRun DEF ChatInv, Typed
<1>2. /\ run' = IF current = 0 THEN run ELSE [run EXCEPT ![current] = R]
      /\ seen' = [seen EXCEPT ![p] = {}] /\ UNCHANGED <<current, valid, sweep>>
  BY DEF Leave
<1>3. page' = [page EXCEPT ![p] = P]
  BY <1>1 DEF Leave, Typed, PageRecs
<1> HIDE DEF retires
<1>4. /\ P \in PageRecs /\ P.open = FALSE /\ P.start = page[p].start /\ P.startAt = page[p].startAt
      /\ P.main = "retiring" => retires /\ P.at = current
  BY <1>1 DEF PageRecs
<1> HIDE DEF P
<1>5. /\ page' \in [Page -> PageRecs] /\ page'[p] = P /\ \A q \in Page : q # p => page'[q] = page[q]
  BY <1>1, <1>3, <1>4 DEF Typed
<1>6. seen' \in [Page -> SUBSET Steps] /\ \A q \in Page : q # p => seen'[q] = seen[q]
  BY <1>1, <1>2 DEF Typed
<1>7. \A q \in Page : Quiet(q)
  BY <1>4, <1>5, <1>6 DEF Quiet
<1>8. \A q \in Page : page'[q].main = "retiring" => page'[q].at \in Run
  BY <1>1, <1>4, <1>5 DEF Found, retires
<1>9. Around
  BY <1>1, <1>2, <1>5, <1>6, <1>7, <1>8 DEF Around, Typed, Found
<1>10. CASE current = 0
  BY <1>2, <1>9, <1>10, RunsStay
<1>11. CASE current # 0
  <2>1. Sound(Q) /\ Standing(Q, current = current) /\ Q \in RunRecs
    BY <1>1, <1>11, OfRun
  <2>2. /\ R \in RunRecs /\ R.loop = Q.loop /\ R.work = Q.work /\ R.works = Q.works /\ R.live = Q.live
        /\ R.end = Q.end /\ R.retired = Q.retired /\ R.queue = Q.queue /\ R.frame = Q.frame
        /\ R.observers = Q.observers \ {p}
    BY <2>1 DEF RunRecs
  <2> HIDE DEF R
  <2>3. Sound(R) /\ Standing(R, current = current')
    BY <1>2, <2>1, <2>2 DEF Sound, Closed, Standing
  <2>4. KeepsWatchers(current, R) /\ ShowsNoMore(current, R)
    BY <1>4, <1>5, <2>2 DEF KeepsWatchers, ShowsNoMore, Rest, Live
  <2> QED BY <1>1, <1>2, <1>9, <1>11, <2>3, <2>4, RunMoves
<1> QED BY <1>10, <1>11

LEMMA DetachRetiresKeeps == ASSUME ChatInv, NEW p \in Page, DetachRetires(p) PROVE ChatInv'
<1>1. Typed /\ Found /\ page[p] \in PageRecs /\ page[p].main = "retiring" /\ page[p].at \in Run
  BY DEF ChatInv, Typed, Found, DetachRetires
<1>2. /\ Retire(page[p].at) /\ UNCHANGED <<seen, valid, sweep>>
      /\ page' = [page EXCEPT ![p].main = "left", ![p].at = 0]
  BY DEF DetachRetires
<1>3. /\ page' \in [Page -> PageRecs] /\ page'[p].open = page[p].open /\ page'[p].main = "left"
      /\ page'[p].start = page[p].start /\ page'[p].startAt = page[p].startAt
      /\ \A q \in Page : q # p => page'[q] = page[q]
  BY <1>1, <1>2 DEF Typed, PageRecs
<1>4. Around
  BY <1>1, <1>2, <1>3 DEF Around, Quiet, Typed, Found
<1> QED BY <1>1, <1>2, <1>4, RetireKeeps

-----------------------------------------------------------------------------

LEMMA Begins == Init => ChatInv
<1> SUFFICES ASSUME Init PROVE ChatInv
  OBVIOUS
<1>1. <<>> \in Seq(RunRecs) /\ Len(<<>>) = 0 /\ DOMAIN <<>> = {} /\ MaxRuns \in Nat
  BY EmptySeq, ChatRunsAssumption
<1>2. Run = {} /\ current = 0 /\ run = <<>>
  BY <1>1 DEF Init, Run
<1>3. Typed
  BY <1>1 DEF Init, Typed, NewPage, PageRecs, Sweep, SweepRecs
<1>4. Found /\ RunsSound
  BY <1>2 DEF Init, Found, RunsSound, NewPage, Sweep
<1>5. PagesSound
  BY DEF Init, PagesSound, Watching, Shown, NewPage
<1> QED BY <1>3, <1>4, <1>5 DEF ChatInv

LEMMA Continues == ASSUME ChatInv, [Next]_vars PROVE ChatInv'
<1>1. CASE UNCHANGED vars
  <2>1. UNCHANGED <<run, current>> /\ Around
    BY <1>1, AllStays DEF vars
  <2> QED BY <2>1, RunsStay
<1>2. ASSUME NEW r \in Run, RunStep(r) PROVE ChatInv'
  BY <1>2, TakeKeeps, StartWorkKeeps, ReturnedKeeps, WorkEndsKeeps, DisconnectKeeps, PublishKeeps, EndStoppedKeeps
     DEF RunStep, LoopStep, CloseStep, PublishStep
<1>3. ASSUME NEW p \in Page, PageStep(p) \/ Moves(p) PROVE ChatInv'
  BY <1>3, StartShownKeeps, DetachRetiresKeeps, AttachKeeps, SubmitKeeps, LeaveKeeps DEF PageStep, Moves
<1>4. CASE EndRuns \/ \E s \in Session : SessionsEnded(s)
  BY <1>4, RunsEndKeeps
<1>5. CASE SweepStep
  BY <1>5, SweepKeeps
<1> QED BY <1>1, <1>2, <1>3, <1>4, <1>5 DEF Next

THEOREM Invariant == Spec => []ChatInv
BY Begins, Continues, PTL DEF Spec

(* The runs the invariant leaves to work or to be stopped are the Team's.  *)
LEMMA OneAtMost == ASSUME ChatInv PROVE OneRunWorks
<1> DEFINE working == {r \in Run : ~run[r].retired /\ (run[r].work # None \/ run[r].end = "stopping")}
<1>1. working \subseteq {current}
  BY OfRun DEF Standing
<1>2. IsFiniteSet({current}) /\ Cardinality({current}) = 1
  BY FS_Singleton
<1>3. Cardinality(working) <= 1
  BY <1>1, <1>2, FS_Subset
<1> QED BY <1>3 DEF OneRunWorks

LEMMA AllShown == ASSUME ChatInv PROVE TypeOK /\ LiveShown
<1>1. TypeOK
  <2>1. \A r \in Run : run[r].observers \subseteq Page /\ Len(run[r].queue) <= MaxFrames /\ Len(run[r].live) <= LiveSteps
    BY OfRun DEF Sound, RunRecs
  <2> QED BY <2>1 DEF TypeOK, ChatInv, Typed, SweepRecs
<1>2. LiveShown
  <2> SUFFICES ASSUME NEW r \in Run, NEW p \in run[r].observers, run[r].work # None,
                      page[p].start = "over", page[p].startAt = r, page[p].open
               PROVE  Live(run[r]) \subseteq seen[p]
    BY DEF LiveShown
  <2>1. p \in Page
    BY OfRun DEF RunRecs
  <2> QED BY <2>1 DEF ChatInv, PagesSound, Shown
<1> QED BY <1>1, <1>2

(* A page that watches its run was handed every step of the work under way *)
(* that Run::snapshot would show one attaching now, however it crossed     *)
(* Run::publish, and one run of the Team works or is being stopped at a    *)
(* time, whatever the sweep, Run::retire and Run::end find meanwhile.      *)
THEOREM RunsAlwaysAsShown == Spec => []RunsAsShown
<1>1. ChatInv => RunsAsShown
  BY OneAtMost, AllShown DEF RunsAsShown
<1> QED BY <1>1, Invariant, PTL

-----------------------------------------------------------------------------
(* Counting in rounds.                                                                     *)
LEMMA DivIs == ASSUME NEW m \in Nat \ {0}, NEW n \in Nat
  PROVE n % m \in 0..(m-1) /\ n = m * (n \div m) + (n % m) /\ n \div m \in Nat
BY SMT
LEMMA ModUnique ==
  ASSUME NEW m \in Nat \ {0}, NEW q \in Nat, NEW p \in Nat, NEW r \in 0..(m - 1), NEW s \in 0..(m - 1),
         m * q + r = m * p + s
  PROVE  r = s
<1>1. ASSUME NEW a \in Nat, NEW b \in Nat, a < b, NEW x \in 0..(m - 1), NEW y \in 0..(m - 1)
      PROVE  m * a + x # m * b + y
  <2>1. b - a - 1 \in Nat /\ b = a + 1 + (b - a - 1)
    BY <1>1
  <2>2. m * b = m * a + m + m * (b - a - 1)
    BY <2>1
  <2>3. m * (b - a - 1) \in Nat /\ m * a \in Nat
    BY <2>1
  <2> QED BY <2>2, <2>3
<1> QED BY <1>1
LEMMA ModNext == ASSUME NEW m \in Nat \ {0}, NEW n \in Nat
  PROVE (n + 1) % m = IF n % m = m - 1 THEN 0 ELSE (n % m) + 1
<1> DEFINE q == n \div m  r == n % m  p == (n+1) \div m s == (n+1) % m
<1>1. r \in 0..(m - 1) /\ n = m * q + r /\ q \in Nat
  BY DivIs
<1>2. s \in 0..(m - 1) /\ n + 1 = m * p + s /\ p \in Nat
  BY DivIs, n + 1 \in Nat
<1> HIDE DEF q, r, p, s
<1>3. CASE r = m - 1
  <2>1. m * q + r + 1 = m * (q+1) + 0
    BY <1>1, <1>3
  <2>2. m * (q + 1) + 0 = m * p + s
    BY <1>1, <1>2, <2>1
  <2>3. 0 = s
    BY <1>1, <1>2, <2>2, ModUnique, q + 1 \in Nat, 0 \in 0..(m-1)
  <2> QED BY <1>3, <2>3 DEF r, s
<1>4. CASE r # m - 1
  <2>1. r + 1 \in 0..(m - 1) /\ m * q + (r + 1) = m * p + s
    BY <1>1, <1>2, <1>4
  <2>2. r + 1 = s
    BY <1>1, <1>2, <2>1, ModUnique
  <2> QED BY <1>4, <2>2 DEF r, s
<1> QED BY <1>3, <1>4

-----------------------------------------------------------------------------
(* What a page is shown of Team's answer.                                                  *)
Invalidly == [type |-> "error", words |-> "invalid"]
EventOf == IF WebsocketEvent(Projected) # NoEvent THEN WebsocketEvent(Projected) ELSE Invalidly

LEMMA CodeShown ==
  ASSUME NEW code
  PROVE  /\ WebsocketEvent(Code(code)).type = "error" /\ WebsocketEvent(Code(code)).words # "invalid"
         /\ WebsocketEvent(Code(code)) # NoEvent
<1>1. Code(code).is = "code" /\ Code(code).code = code
  BY DEF Code
<1>2. WebsocketEvent(Code(code)) = ErrorEvent(code)
  BY <1>1 DEF WebsocketEvent
<1>3. ErrorEvent(code).type = "error" /\ ErrorEvent(code).words # "invalid"
  BY DEF ErrorEvent, CHAT_ERRORS
<1> QED BY <1>2, <1>3 DEF NoEvent

LEMMA ChallengeShown ==
  ASSUME RepliesShaped, reply \in Replies, reply.status = "challenge"
  PROVE  /\ EventOf.type \in {"error", "integrations-required", "human-required"}
         /\ EventOf.type = "error" => EventOf.words # "invalid"
         /\ EventOf.type = "human-required" =>
              reply.body.status = "human-required" /\ HumanValid(reply.body) /\ EventOf.body = reply.body
<1>1. Projected = ProjectPendingChallenge(reply.body)
  BY DEF Projected
<1>2. ASSUME NEW code, Projected = Code(code)
      PROVE  EventOf.type = "error" /\ EventOf.words # "invalid"
  BY <1>2, CodeShown DEF EventOf
<1>3. ASSUME Projected = Public(reply.body), reply.body.status \in {"integrations-required", "human-required"}
      PROVE  EventOf.type = reply.body.status /\ EventOf.body = reply.body
  <2>1. Projected.is = "public" /\ Projected.body = reply.body
    BY <1>3 DEF Public
  <2>2. WebsocketEvent(Projected) = [type |-> reply.body.status, body |-> reply.body]
    BY <2>1 DEF WebsocketEvent
  <2>3. WebsocketEvent(Projected) # NoEvent
    BY <1>3, <2>2 DEF NoEvent
  <2> QED BY <2>2, <2>3 DEF EventOf
<1>4. CASE reply.body.status = "integrations-required"
  <2>1. Projected = Public(reply.body) \/ Projected = Code("integration-challenge-response-invalid")
    BY <1>1, <1>4 DEF ProjectPendingChallenge
  <2> QED BY <1>2, <1>3, <1>4, <2>1
<1>5. CASE reply.body.status = "human-required"
  <2>1. \/ Projected = Public(reply.body) /\ HumanValid(reply.body)
        \/ Projected = Code("human-challenge-response-invalid")
    BY <1>1, <1>5 DEF ProjectPendingChallenge
  <2> QED BY <1>2, <1>3, <1>5, <2>1
<1>6. CASE reply.body.status \notin {"integrations-required", "human-required"}
  <2>1. Projected = Code("chat-challenge-response-invalid")
    BY <1>1, <1>6 DEF ProjectPendingChallenge
  <2> QED BY <1>2, <2>1
<1> QED BY <1>4, <1>5, <1>6

LEMMA TurnShown ==
  ASSUME RepliesShaped, reply \in Replies, reply.status = "turn"
  PROVE  \/ EventOf.type = "error" /\ EventOf.words # "invalid"
         \/ EventOf.type = "done" /\ \A name \in DOMAIN EventOf.body : EventOf.body[name] # "key"
<1>1. Projected = ProjectTurn(reply.body)
  BY DEF Projected
<1>2. CASE Projected = Code("chat-response-invalid")
  BY <1>2, CodeShown DEF EventOf
<1>3. CASE Projected = Public(reply.body) /\ TurnFieldsValid(reply.body) /\ "key" \notin ShownText(reply.body)
  <2>1. Projected.is = "public" /\ Projected.body = reply.body
    BY <1>3 DEF Public
  <2>2. DOMAIN reply.body \ OPTIONAL_DONE_FIELDS = DONE_FIELDS
    BY <1>3 DEF TurnFieldsValid
  <2>3. WebsocketEvent(Projected) = [type |-> "done", body |-> reply.body]
    BY <2>1, <2>2 DEF WebsocketEvent
  <2>4. EventOf = [type |-> "done", body |-> reply.body]
    BY <2>3 DEF EventOf, NoEvent
  <2>5. reply.body.team_id # "key"
    BY <1>3 DEF TurnFieldsValid, RepliesShaped
  <2>6. \A name \in DOMAIN reply.body \ {"team_id"} : reply.body[name] # "key"
    BY <1>3 DEF ShownText
  <2> QED BY <2>4, <2>5, <2>6
<1> QED BY <1>1, <1>2, <1>3 DEF ProjectTurn

LEMMA OtherShown ==
  ASSUME RepliesShaped, reply \in Replies, reply.status \notin {"challenge", "turn"}
  PROVE  /\ EventOf.type = "error"
         /\ EventOf.words = "invalid" => reply.status \in {"unreached", "none"}
<1>1. CASE reply.status = "unreached"
  <2>1. Projected.is = "raw"
    BY <1>1 DEF Projected
  <2>2. WebsocketEvent(Projected) = NoEvent
    BY <2>1 DEF WebsocketEvent
  <2> QED BY <1>1, <2>2 DEF EventOf, Invalidly
<1>2. CASE reply.status \in {"missing", "denied", "refused"}
  <2>1. \E code : Projected = Code(code)
    BY <1>2 DEF Projected, ProjectHumanDenial
  <2> QED BY <2>1, CodeShown DEF EventOf
<1>3. CASE reply.status = "none"
  <2>1. CASE Projected = Code("human-challenge-response-invalid")
    BY <1>3, <2>1, CodeShown DEF EventOf
  <2>2. CASE Projected = Public(reply.body)
    <3>1. Projected.is = "public" /\ Projected.body = reply.body
      BY <2>2 DEF Public
    <3>2. "team" \in DOMAIN reply.body
      BY <1>3 DEF RepliesShaped
    <3>3. DOMAIN reply.body \ OPTIONAL_DONE_FIELDS # DONE_FIELDS
      BY <3>2 DEF OPTIONAL_DONE_FIELDS, ROUTINE_FIELDS, DONE_FIELDS
    <3>4. WebsocketEvent(Projected) = NoEvent
      BY <1>3, <3>1, <3>3 DEF WebsocketEvent
    <3> QED BY <1>3, <3>4 DEF EventOf, Invalidly
  <2> QED BY <1>3, <2>1, <2>2 DEF Projected
<1> QED BY <1>1, <1>2, <1>3 DEF RepliesShaped

(* The request a page is shown is the one Team fingerprinted.                              *)
LEMMA ShownIs ==
  ASSUME RepliesShaped, reply \in Replies, event \in {NoEvent, EventOf}, RequestShown
  PROVE  /\ reply.status = "challenge" /\ reply.body.status = "human-required" /\ HumanValid(reply.body)
         /\ HumanRequest = reply.body.request /\ reply.body.fingerprint = HumanRequest /\ KindShape(HumanRequest)
<1>1. event = EventOf /\ event.type = "human-required"
  BY DEF RequestShown, NoEvent
<1>2. reply.status = "challenge"
  BY <1>1, TurnShown, OtherShown
<1>3. reply.body.status = "human-required" /\ HumanValid(reply.body) /\ event.body = reply.body
  BY <1>1, <1>2, ChallengeShown
<1> QED BY <1>2, <1>3 DEF HumanRequest, HumanValid, RequestValid

LEMMA RepliesShownSo ==
  ASSUME RepliesShaped, reply \in Replies, event \in {NoEvent, EventOf}
  PROVE  RepliesShown
<1>1. CASE event = NoEvent
  BY <1>1 DEF NoEvent, RepliesShown, EveryReplyShown, KeyNotShown
<1>2. CASE event = EventOf
  <2>1. CASE reply.status = "challenge"
    BY <1>2, <2>1, ChallengeShown DEF RepliesShown, EveryReplyShown, KeyNotShown
  <2>2. CASE reply.status = "turn"
    BY <1>2, <2>2, TurnShown DEF RepliesShown, EveryReplyShown, KeyNotShown
  <2>3. CASE reply.status \notin {"challenge", "turn"}
    BY <1>2, <2>3, OtherShown DEF RepliesShown, EveryReplyShown, KeyNotShown
  <2> QED BY <2>1, <2>2, <2>3
<1> QED BY <1>1, <1>2

-----------------------------------------------------------------------------
(* What fits a request that is shown, and what is admitted of a page.                      *)
LEMMA ImageSize ==
  ASSUME NEW n \in Nat, NEW S, NEW f \in [1..n -> S]
  PROVE  /\ IsFiniteSet({f[i] : i \in 1..n}) /\ Cardinality({f[i] : i \in 1..n}) \in Nat
         /\ Cardinality({f[i] : i \in 1..n}) = n <=> \A i, j \in 1..n : f[i] = f[j] => i = j
<1> DEFINE T == {f[i] : i \in 1..n}
<1>1. IsFiniteSet(1..n) /\ Cardinality(1..n) = n
  BY FS_Interval
<1>2. f \in Surjection(1..n, T)
  BY DEF Surjection
<1>3. IsFiniteSet(T) /\ (Cardinality(T) = n <=> f \in Injection(1..n, T))
  BY <1>1, <1>2, FS_Surjection
<1>4. f \in Injection(1..n, T) <=> \A i, j \in 1..n : f[i] = f[j] => i = j
  BY DEF Injection, IsInjective
<1> QED BY <1>3, <1>4, FS_CardinalityType

(* The options of a request that is shown.                                                 *)
LEMMA OptionsAre ==
  ASSUME AnswersShaped, NEW r, OptionsValid(r), r.options = [n \in 1..Len(r.options) |-> r.options[n]],
         \A n \in 1..Len(r.options) : r.options[n].value \in DOMAIN Length
  PROVE  /\ Len(r.options) \in 2..MAX_OPTIONS /\ MAX_OPTIONS \in Nat /\ DOMAIN r.options = 1..Len(r.options)
         /\ \A n \in 1..Len(r.options) : r.options[n].value \in DOMAIN Length /\ Length[r.options[n].value] \in 1..MAX_OPTION_CHARS
         /\ \A m, n \in 1..Len(r.options) : r.options[m].value = r.options[n].value => m = n
<1>1. Len(r.options) \in 2..MAX_OPTIONS /\ MAX_OPTIONS \in Nat
  BY DEF OptionsValid, AnswersShaped, BoundsOrdered
<1>2. DOMAIN r.options = 1..Len(r.options)
  OBVIOUS
<1>3. \A n \in 1..Len(r.options) : Length[r.options[n].value] \in 1..MAX_OPTION_CHARS
  BY <1>2 DEF OptionsValid, OptionValid
<1>4. IsInjective([n \in 1..Len(r.options) |-> r.options[n].value])
  BY <1>2 DEF OptionsValid
<1>5. \A m, n \in 1..Len(r.options) : r.options[m].value = r.options[n].value => m = n
  BY <1>4 DEF IsInjective
<1> QED BY <1>1, <1>2, <1>3, <1>5

(* Which kind a request that is shown is of.                                               *)
LEMMA KindsAre ==
  ASSUME AnswersShaped, reply \in Replies, event \in {NoEvent, EventOf}, RequestShown
  PROVE  /\ \/ HumanRequest.kind = "approval" \/ HumanRequest.kind = "auth:password"
            \/ /\ HumanRequest.kind \in CHOICE_KINDS /\ OptionsValid(HumanRequest)
            \/ /\ HumanRequest.kind = "input:choices" /\ OptionsValid(HumanRequest)
               /\ HumanRequest.min <= HumanRequest.max /\ HumanRequest.max <= Len(HumanRequest.options)
               /\ HumanRequest.min \in Nat /\ HumanRequest.max \in Nat
            \/ /\ HumanRequest.kind \in DOMAIN LENGTH_KINDS
               /\ HumanRequest.kind \notin AUTHORIZATION_KINDS \cup CHOICE_KINDS \cup {"input:choices"}
               /\ HumanRequest.min <= HumanRequest.max /\ HumanRequest.max <= LENGTH_KINDS[HumanRequest.kind]
               /\ HumanRequest.min \in Nat /\ HumanRequest.max \in Nat
         /\ "options" \in DOMAIN HumanRequest =>
              /\ HumanRequest.options = [n \in 1..Len(HumanRequest.options) |-> HumanRequest.options[n]]
              /\ \A n \in 1..Len(HumanRequest.options) : HumanRequest.options[n].value \in DOMAIN Length
         /\ HumanRequest.kind \in CHOICE_KINDS \cup {"input:choices"} => "options" \in DOMAIN HumanRequest
<1> DEFINE r == HumanRequest
<1>1. reply.status = "challenge" /\ reply.body.status = "human-required" /\ r = reply.body.request /\ KindShape(r)
  BY ShownIs DEF AnswersShaped
<1>2. /\ {"min", "max"} \subseteq DOMAIN r => r.min \in Nat /\ r.max \in Nat
      /\ "options" \in DOMAIN r =>
           /\ r.options = [n \in 1..Len(r.options) |-> r.options[n]]
           /\ \A n \in 1..Len(r.options) : r.options[n].value \in DOMAIN Length
  BY <1>1 DEF AnswersShaped, RepliesShaped
<1> HIDE DEF r
<1>3. CASE r.kind \in AUTHORIZATION_KINDS
  BY <1>2, <1>3 DEF AUTHORIZATION_KINDS, AUTH_KINDS, CHOICE_KINDS, r
<1>4. CASE r.kind \in DOMAIN LENGTH_KINDS
  <2>1. r.kind \notin AUTHORIZATION_KINDS \cup CHOICE_KINDS \cup {"input:choices"}
    BY <1>4 DEF AnswersShaped, KindsApart, AUTHORIZATION_KINDS, AUTH_KINDS, CHOICE_KINDS
  <2>2. LengthValid(r) /\ {"min", "max"} \subseteq DOMAIN r
    BY <1>1, <2>1 DEF KindShape
  <2> QED BY <1>2, <1>4, <2>1, <2>2 DEF LengthValid, r
<1>5. CASE r.kind \in CHOICE_KINDS /\ r.kind \notin DOMAIN LENGTH_KINDS
  <2>1. r.kind \notin AUTHORIZATION_KINDS /\ r.kind # "input:choices"
    BY <1>5 DEF AUTHORIZATION_KINDS, AUTH_KINDS, CHOICE_KINDS
  <2>2. OptionsValid(r) /\ "options" \in DOMAIN r
    BY <1>1, <1>5, <2>1 DEF KindShape
  <2> QED BY <1>2, <1>5, <2>1, <2>2 DEF r
<1>6. CASE r.kind = "input:choices" /\ r.kind \notin DOMAIN LENGTH_KINDS
  <2>1. r.kind \notin AUTHORIZATION_KINDS /\ r.kind \notin CHOICE_KINDS
    BY <1>6 DEF AUTHORIZATION_KINDS, AUTH_KINDS, CHOICE_KINDS
  <2>2. /\ OptionsValid(r) /\ {"options", "min", "max"} \subseteq DOMAIN r
        /\ r.min <= r.max /\ r.max <= Len(r.options)
    BY <1>1, <1>6, <2>1 DEF KindShape
  <2> QED BY <1>2, <1>6, <2>1, <2>2 DEF r
<1> QED BY <1>1, <1>3, <1>4, <1>5, <1>6 DEF KindShape

Chosen(r, v) ==
  \E picked \in SUBSET DOMAIN r.options :
    /\ Cardinality(picked) \in r.min..r.max /\ Cardinality(picked) = Len(v.items)
    /\ ToSet(v.items) = {r.options[n].value : n \in picked}

LEMMA ChoicesFit ==
  ASSUME NEW r, NEW k \in Nat, DOMAIN r.options = 1..k, r.min \in Nat, r.max \in Nat,
         \A m, n \in 1..k : r.options[m].value = r.options[n].value => m = n,
         NEW v, v.is = "list", NEW S, v.items \in [1..Len(v.items) -> S], Len(v.items) \in Nat
  PROVE  BrowserChoices(r, v) <=> Chosen(r, v)
<1> DEFINE Value(n) == r.options[n].value
           Image(picked) == {r.options[n].value : n \in picked}
           len == Len(v.items)
<1>1. /\ ToSet(v.items) = {v.items[i] : i \in 1..len} /\ IsFiniteSet(ToSet(v.items)) /\ Cardinality(ToSet(v.items)) \in Nat
      /\ Cardinality(ToSet(v.items)) = len <=> IsInjective(v.items)
  <2>1. DOMAIN v.items = 1..len
    OBVIOUS
  <2>2. ToSet(v.items) = {v.items[i] : i \in 1..len}
    BY <2>1 DEF ToSet
  <2>3. IsInjective(v.items) <=> \A i, j \in 1..len : v.items[i] = v.items[j] => i = j
    BY <2>1 DEF IsInjective
  <2>4. /\ IsFiniteSet({v.items[i] : i \in 1..len}) /\ Cardinality({v.items[i] : i \in 1..len}) \in Nat
        /\ Cardinality({v.items[i] : i \in 1..len}) = len <=> \A i, j \in 1..len : v.items[i] = v.items[j] => i = j
    <3> HIDE DEF len
    <3>1. v.items \in [1..len -> S] /\ len \in Nat
      BY DEF len
    <3>2. PICK f \in [1..len -> S] : f = v.items
      BY <3>1
    <3>3. /\ IsFiniteSet({f[i] : i \in 1..len}) /\ Cardinality({f[i] : i \in 1..len}) \in Nat
          /\ Cardinality({f[i] : i \in 1..len}) = len <=> \A i, j \in 1..len : f[i] = f[j] => i = j
      BY <3>1, ImageSize
    <3> QED BY <3>2, <3>3
  <2> QED BY <2>2, <2>3, <2>4
<1>2. ASSUME NEW picked \in SUBSET (1..k)
      PROVE  Cardinality(Image(picked)) = Cardinality(picked) /\ Cardinality(picked) \in Nat
  <2>1. IsFiniteSet(picked) /\ Cardinality(picked) \in Nat
    <3>1. IsFiniteSet(1..k)
      BY FS_Interval
    <3> QED BY <3>1, FS_Subset, FS_CardinalityType
  <2> DEFINE f == [n \in picked |-> r.options[n].value]
  <2>2. f \in Surjection(picked, Image(picked))
    BY DEF Surjection
  <2>3. f \in Injection(picked, Image(picked))
    BY DEF Injection, IsInjective
  <2> QED BY <2>1, <2>2, <2>3, FS_Surjection
<1>3. ASSUME BrowserChoices(r, v) PROVE Chosen(r, v)
  <2> DEFINE picked == {n \in 1..k : r.options[n].value \in ToSet(v.items)}
  <2>1. IsInjective(v.items) /\ len \in r.min..r.max /\ ToSet(v.items) \subseteq {r.options[n].value : n \in 1..k}
    BY <1>3 DEF BrowserChoices, Allowed
  <2>2. Image(picked) = ToSet(v.items)
    BY <2>1
  <2>3. picked \in SUBSET (1..k)
    OBVIOUS
  <2>4. Cardinality(picked) = len
    BY <1>1, <1>2, <2>1, <2>2, <2>3
  <2> HIDE DEF picked
  <2> QED BY <2>1, <2>2, <2>3, <2>4 DEF Chosen
<1>4. ASSUME Chosen(r, v) PROVE BrowserChoices(r, v)
  <2>1. PICK picked \in SUBSET (1..k) :
          /\ Cardinality(picked) \in r.min..r.max /\ Cardinality(picked) = len
          /\ ToSet(v.items) = Image(picked)
    BY <1>4 DEF Chosen
  <2>2. IsInjective(v.items)
    BY <1>1, <1>2, <2>1
  <2>3. ToSet(v.items) \subseteq Allowed(r)
    BY <2>1 DEF Allowed
  <2> QED BY <2>1, <2>2, <2>3 DEF BrowserChoices
<1> QED BY <1>3, <1>4

(* What is admitted is what fits, and passes the bounds of its frame.                      *)
LEMMA AdmittedFits ==
  ASSUME AnswersShaped, reply \in Replies, event \in {NoEvent, EventOf}, RequestShown, NEW v \in Values, NEW r, r = HumanRequest
  PROVE  /\ BrowserValue(r, v) <=> Fits(r, v)
         /\ Fits(r, v) => HumanValue(v)
<1>0. /\ v.is = "true" => v = TRUTH
      /\ v.is = "text" => v.text \in DOMAIN Length
      /\ v.is = "list" => v.items \in [1..Len(v.items) -> DOMAIN Length] /\ Len(v.items) \in Nat
  BY DEF AnswersShaped, ValuesShaped, TRUTH
<1>B. BoundsOrdered
  BY DEF AnswersShaped
<1>1. CASE r.kind = "approval"
  <2>1. BrowserValue(r, v) <=> v.is = "true"
    BY <1>1 DEF BrowserValue, AUTH_KINDS, CHOICE_KINDS
  <2>2. Fits(r, v) <=> v = TRUTH
    BY <1>1 DEF Fits, AUTH_KINDS, CHOICE_KINDS
  <2> QED BY <1>0, <2>1, <2>2 DEF HumanValue, TRUTH
<1>2. CASE r.kind = "auth:password"
  <2>1. BrowserValue(r, v) <=> v.is = "text" /\ Length[v.text] \in 1..MAX_AUTH_SECRET_CHARS
    BY <1>2 DEF BrowserValue, AUTH_KINDS, CHOICE_KINDS
  <2>2. Fits(r, v) <=> v.is = "text" /\ Length[v.text] \in 1..MAX_AUTH_SECRET_CHARS
    BY <1>2 DEF Fits, AUTH_KINDS, CHOICE_KINDS
  <2> QED BY <1>B, <2>1, <2>2 DEF HumanValue, BoundsOrdered
<1>3. CASE r.kind \in CHOICE_KINDS /\ OptionsValid(r)
  <2>0. /\ r.options = [n \in 1..Len(r.options) |-> r.options[n]]
        /\ \A n \in 1..Len(r.options) : r.options[n].value \in DOMAIN Length
    BY <1>3, KindsAre
  <2>1. DOMAIN r.options = 1..Len(r.options) /\ \A n \in 1..Len(r.options) : Length[r.options[n].value] \in 1..MAX_OPTION_CHARS
    BY <1>3, <2>0, OptionsAre
  <2>2. BrowserValue(r, v) <=> v.is = "text" /\ (v.text \in Allowed(r) \/ (Length[v.text] = 0 /\ ~r.required))
    BY <1>3 DEF BrowserValue, CHOICE_KINDS, AUTH_KINDS
  <2>3. Fits(r, v) <=> /\ v.is = "text"
                       /\ (\E n \in DOMAIN r.options : r.options[n].value = v.text) \/ (~r.required /\ Length[v.text] = 0)
    BY <1>3 DEF Fits, CHOICE_KINDS, AUTH_KINDS
  <2>4. v.text \in Allowed(r) <=> \E n \in DOMAIN r.options : r.options[n].value = v.text
    BY DEF Allowed
  <2>5. Fits(r, v) => Length[v.text] <= MAX_HUMAN_TEXT_CHARS
    <3>1. CASE \E n \in DOMAIN r.options : r.options[n].value = v.text
      BY <1>B, <2>1, <3>1 DEF BoundsOrdered
    <3>2. CASE Length[v.text] = 0
      BY <1>B, <3>2 DEF BoundsOrdered
    <3> QED BY <2>3, <3>1, <3>2
  <2> QED BY <2>2, <2>3, <2>4, <2>5 DEF HumanValue
<1>4. CASE r.kind = "input:choices" /\ OptionsValid(r) /\ r.max <= Len(r.options) /\ r.min \in Nat /\ r.max \in Nat
  <2>0. /\ r.options = [n \in 1..Len(r.options) |-> r.options[n]]
        /\ \A n \in 1..Len(r.options) : r.options[n].value \in DOMAIN Length
    BY <1>4, KindsAre
  <2>1. /\ DOMAIN r.options = 1..Len(r.options) /\ Len(r.options) \in 2..MAX_OPTIONS /\ MAX_OPTIONS \in Nat
        /\ \A n \in 1..Len(r.options) : Length[r.options[n].value] \in 1..MAX_OPTION_CHARS
        /\ \A m, n \in 1..Len(r.options) : r.options[m].value = r.options[n].value => m = n
    BY <1>4, <2>0, OptionsAre
  <2>2. BrowserValue(r, v) <=> BrowserChoices(r, v)
    BY <1>4 DEF BrowserValue, CHOICE_KINDS, AUTH_KINDS
  <2>3. Fits(r, v) <=> v.is = "list" /\ Chosen(r, v)
    BY <1>4 DEF Fits, CHOICE_KINDS, AUTH_KINDS, Chosen
  <2>4. ASSUME v.is = "list" PROVE BrowserChoices(r, v) <=> Chosen(r, v)
    <3> DEFINE k == Len(r.options)
    <3>1. /\ k \in Nat /\ DOMAIN r.options = 1..k /\ r.min \in Nat /\ r.max \in Nat
          /\ \A m, n \in 1..k : r.options[m].value = r.options[n].value => m = n
      BY <1>4, <2>1
    <3>2. v.items \in [1..Len(v.items) -> DOMAIN Length] /\ Len(v.items) \in Nat
      BY <1>0, <2>4
    <3> HIDE DEF k
    <3> QED BY <2>4, <3>1, <3>2, ChoicesFit
  <2>5. BrowserChoices(r, v) => v.is = "list"
    BY DEF BrowserChoices
  <2>6. ASSUME v.is = "list", BrowserChoices(r, v) PROVE HumanValue(v)
    <3>1. Len(v.items) <= MAX_HUMAN_CHOICES /\ IsInjective(v.items)
      BY <1>0, <1>4, <1>B, <2>1, <2>6 DEF BrowserChoices, BoundsOrdered
    <3>2. ASSUME NEW i \in DOMAIN v.items PROVE Length[v.items[i]] <= MAX_HUMAN_CHOICE_CHARS
      <4>1. v.items[i] \in {r.options[n].value : n \in 1..Len(r.options)}
        <5>1. v.items[i] \in ToSet(v.items)
          BY DEF ToSet
        <5> QED BY <2>1, <2>6, <5>1 DEF BrowserChoices, Allowed
      <4>2. PICK n \in 1..Len(r.options) : v.items[i] = r.options[n].value
        BY <4>1
      <4>3. Length[v.items[i]] \in 1..MAX_OPTION_CHARS
        BY <2>1, <4>2
      <4> QED BY <1>B, <4>3 DEF BoundsOrdered
    <3> QED BY <2>6, <3>1, <3>2 DEF HumanValue
  <2> QED BY <2>2, <2>3, <2>4, <2>5, <2>6
<1>5. CASE /\ r.kind \in DOMAIN LENGTH_KINDS /\ r.kind \notin AUTHORIZATION_KINDS \cup CHOICE_KINDS \cup {"input:choices"}
           /\ r.max <= LENGTH_KINDS[r.kind] /\ r.min \in Nat /\ r.max \in Nat
  <2>1. BrowserValue(r, v) <=> v.is = "text" /\ Length[v.text] \in r.min..r.max /\ (r.required => Length[v.text] # 0)
    BY <1>5 DEF BrowserValue, AUTHORIZATION_KINDS
  <2>2. Fits(r, v) <=> v.is = "text" /\ Length[v.text] \in r.min..r.max /\ ~(r.required /\ Length[v.text] = 0)
    BY <1>5 DEF Fits, AUTHORIZATION_KINDS
  <2>3. Fits(r, v) => Length[v.text] <= MAX_HUMAN_TEXT_CHARS
    BY <1>5, <1>B, <2>2 DEF BoundsOrdered
  <2> QED BY <2>1, <2>2, <2>3 DEF HumanValue
<1> QED BY <1>1, <1>2, <1>3, <1>4, <1>5, KindsAre

LEMMA TextAnswers ==
  ASSUME AnswersShaped, NEW n \in 0..MAX_HUMAN_TEXT_CHARS
  PROVE  \E t \in DOMAIN Length : Length[t] = n /\ Text(t) \in Values /\ Text(t).is = "text" /\ Text(t).text = t
<1>1. PICK t \in DOMAIN Length : Length[t] = n
  BY DEF AnswersShaped, ValuesShaped
<1> QED BY <1>1 DEF AnswersShaped, ValuesShaped, Text

(* A request that is shown can be answered.                                                *)
LEMMA SomethingFits ==
  ASSUME AnswersShaped, reply \in Replies, event \in {NoEvent, EventOf}, RequestShown, NEW r, r = HumanRequest
  PROVE  \/ \E v \in Values : Fits(r, v)
         \/ r.kind \in DOMAIN LENGTH_KINDS /\ r.required /\ r.max = 0
<1>B. BoundsOrdered /\ ValuesShaped
  BY DEF AnswersShaped
<1>1. CASE r.kind = "approval"
  <2>1. \A v : Fits(r, v) <=> v = TRUTH
    BY <1>1 DEF Fits, AUTH_KINDS, CHOICE_KINDS
  <2> QED BY <1>B, <2>1 DEF ValuesShaped, TRUTH
<1>2. CASE r.kind = "auth:password"
  <2>1. \A v : Fits(r, v) <=> v.is = "text" /\ Length[v.text] \in 1..MAX_AUTH_SECRET_CHARS
    BY <1>2 DEF Fits, AUTH_KINDS, CHOICE_KINDS
  <2>2. 1 \in 0..MAX_HUMAN_TEXT_CHARS /\ 1 \in 1..MAX_AUTH_SECRET_CHARS
    BY <1>B DEF BoundsOrdered
  <2>3. PICK t \in DOMAIN Length : Length[t] = 1 /\ Text(t) \in Values /\ Text(t).is = "text" /\ Text(t).text = t
    BY <2>2, TextAnswers
  <2>4. Fits(r, Text(t))
    BY <2>1, <2>2, <2>3
  <2> QED BY <2>3, <2>4
<1>3. CASE r.kind \in CHOICE_KINDS /\ OptionsValid(r)
  <2>0. /\ r.options = [n \in 1..Len(r.options) |-> r.options[n]]
        /\ \A n \in 1..Len(r.options) : r.options[n].value \in DOMAIN Length
    BY <1>3, KindsAre
  <2>1. DOMAIN r.options = 1..Len(r.options) /\ Len(r.options) \in 2..MAX_OPTIONS
    BY <1>3, <2>0, OptionsAre
  <2>2. \A v : Fits(r, v) <=> /\ v.is = "text"
                              /\ (\E n \in DOMAIN r.options : r.options[n].value = v.text) \/ (~r.required /\ Length[v.text] = 0)
    BY <1>3 DEF Fits, CHOICE_KINDS, AUTH_KINDS
  <2>3. 1 \in DOMAIN r.options /\ r.options[1].value \in DOMAIN Length
    BY <2>0, <2>1
  <2> DEFINE v == Text(r.options[1].value)
  <2>4. v \in Values
    BY <1>B, <2>3 DEF ValuesShaped
  <2>5. v.is = "text" /\ v.text = r.options[1].value
    BY DEF Text
  <2> HIDE DEF v
  <2>6. Fits(r, v)
    BY <2>2, <2>3, <2>5
  <2> QED BY <2>4, <2>6
<1>4. CASE r.kind = "input:choices" /\ OptionsValid(r) /\ r.min <= r.max /\ r.max <= Len(r.options) /\ r.min \in Nat /\ r.max \in Nat
  <2>0. /\ r.options = [n \in 1..Len(r.options) |-> r.options[n]]
        /\ \A n \in 1..Len(r.options) : r.options[n].value \in DOMAIN Length
    BY <1>4, KindsAre
  <2>1. /\ DOMAIN r.options = 1..Len(r.options) /\ Len(r.options) \in 2..MAX_OPTIONS /\ MAX_OPTIONS \in Nat
        /\ \A n \in 1..Len(r.options) : Length[r.options[n].value] \in 1..MAX_OPTION_CHARS
        /\ \A m, n \in 1..Len(r.options) : r.options[m].value = r.options[n].value => m = n
    BY <1>4, <2>0, OptionsAre
  <2> DEFINE k == r.min
             Set == {t \in DOMAIN Length : Length[t] \in 1..MAX_OPTION_CHARS}
             s == [n \in 1..k |-> r.options[n].value]
             v == List(s)
  <2>2. k \in 0..MAX_OPTIONS /\ 1..k \subseteq 1..Len(r.options)
    BY <1>4, <2>1
  <2>3. s \in [1..k -> Set]
    BY <2>0, <2>1, <2>2
  <2>4. IsInjective(s)
    BY <2>1, <2>2 DEF IsInjective
  <2>5. v \in Values
    BY <1>B, <2>2, <2>3, <2>4 DEF ValuesShaped
  <2>6. v.is = "list" /\ v.items = s
    BY DEF List
  <2>7. Len(s) = k
    BY <1>4
  <2>8. ToSet(s) = {r.options[n].value : n \in 1..k}
    BY DEF ToSet
  <2>9. Cardinality(1..k) = k
    BY <1>4, FS_Interval
  <2>10. Chosen(r, v)
    <3>1. 1..k \in SUBSET DOMAIN r.options /\ Cardinality(1..k) \in r.min..r.max /\ Cardinality(1..k) = Len(v.items)
      BY <1>4, <2>1, <2>2, <2>6, <2>7, <2>9
    <3>2. ToSet(v.items) = {r.options[n].value : n \in 1..k}
      BY <2>6, <2>8
    <3> QED BY <3>1, <3>2 DEF Chosen
  <2>11. \A w : Fits(r, w) <=> w.is = "list" /\ Chosen(r, w)
    BY <1>4 DEF Fits, CHOICE_KINDS, AUTH_KINDS, Chosen
  <2> HIDE DEF v
  <2> QED BY <2>5, <2>6, <2>10, <2>11
<1>5. CASE /\ r.kind \in DOMAIN LENGTH_KINDS /\ r.kind \notin AUTHORIZATION_KINDS \cup CHOICE_KINDS \cup {"input:choices"}
           /\ r.min <= r.max /\ r.max <= LENGTH_KINDS[r.kind] /\ r.min \in Nat /\ r.max \in Nat
  <2>1. \A v : Fits(r, v) <=> v.is = "text" /\ Length[v.text] \in r.min..r.max /\ ~(r.required /\ Length[v.text] = 0)
    BY <1>5 DEF Fits, AUTHORIZATION_KINDS
  <2>2. r.max \in 0..MAX_HUMAN_TEXT_CHARS
    BY <1>5, <1>B DEF BoundsOrdered
  <2>3. PICK t \in DOMAIN Length : Length[t] = r.max /\ Text(t) \in Values /\ Text(t).is = "text" /\ Text(t).text = t
    BY <2>2, TextAnswers
  <2>4. Fits(r, Text(t)) \/ (r.required /\ r.max = 0)
    BY <1>5, <2>1, <2>3
  <2> QED BY <1>5, <2>3, <2>4
<1> QED BY <1>1, <1>2, <1>3, <1>4, <1>5, KindsAre

-----------------------------------------------------------------------------
(* What is shown is what became of Team's answer; what waits or is checked answers an      *)
(* Action password; what was told fits.                                                    *)
(* An answer that waits for the ceremony, or is checked, is the text of an authorization   *)
(* that is shown; what was told fits.                                                      *)
WaitsForCheck(a) ==
  /\ DOMAIN answers[a] = {"at", "value", "failures"}
  /\ answers[a].at \in {"wait", "check"} =>
       /\ RequestShown /\ HumanRequest.kind \in AUTH_KINDS
       /\ answers[a].value.is = "text" /\ answers[a].value = Text(answers[a].value.text)
TellingInv ==
  /\ reply \in Replies /\ event \in {NoEvent, EventOf} /\ ToldFits
  /\ \A a \in DOMAIN answers : WaitsForCheck(a)

LEMMA TellingTells ==
  ASSUME AnswersShaped, TellingInv PROVE FittingAdmitted /\ RepliesShown
<1>0. reply \in Replies /\ event \in {NoEvent, EventOf} /\ RepliesShaped
  BY DEF TellingInv, AnswersShaped
<1>1. RepliesShown
  BY <1>0, RepliesShownSo
<1>2. ASSUME RequestShown, NEW v \in Values, Fits(HumanRequest, v) PROVE HumanValue(v) /\ BrowserValue(HumanRequest, v)
  BY <1>0, <1>2, AdmittedFits
<1>3. ASSUME RequestShown
      PROVE  \/ \E v \in Values : Fits(HumanRequest, v)
             \/ HumanRequest.kind \in DOMAIN LENGTH_KINDS /\ HumanRequest.required /\ HumanRequest.max = 0
  BY <1>0, <1>3, SomethingFits
<1> QED BY <1>1, <1>2, <1>3 DEF FittingAdmitted

LEMMA SameEvent == ASSUME reply' = reply PROVE EventOf' = EventOf
BY DEF EventOf, Invalidly, WebsocketEvent, Projected, ProjectPendingChallenge, ProjectHumanDenial, ProjectTurn,
       HumanValid, IntegrationsValid, TurnFieldsValid, Identity

(* What is told beside what was told before.                                               *)
LEMMA TellsOne ==
  ASSUME TellingInv, reply' = reply, NEW t, told' \subseteq told \cup {t},
         t.decision = "submit" =>
           IF reply.body.fingerprint.kind \in AUTH_KINDS
           THEN t.value = TRUTH /\ t.assured = [is |-> "text", text |-> PASSWORD]
           ELSE t.assured = NOTHING /\ Fits(reply.body.fingerprint, t.value)
  PROVE  ToldFits'
BY DEF TellingInv, ToldFits

LEMMA ShowTells == ASSUME TellingInv, Show PROVE TellingInv'
<1>1. event = NoEvent /\ event' = EventOf /\ UNCHANGED <<reply, answers, told>>
  BY DEF Show, EventOf, Invalidly
<1>2. EventOf' = EventOf
  BY <1>1, SameEvent
<1>3. ~RequestShown
  BY <1>1 DEF RequestShown, NoEvent
<1>4. \A a \in DOMAIN answers' : WaitsForCheck(a)'
  BY <1>1, <1>3 DEF TellingInv, WaitsForCheck
<1>5. ToldFits'
  BY <1>1 DEF TellingInv, ToldFits
<1> QED BY <1>1, <1>2, <1>4, <1>5 DEF TellingInv

LEMMA RestTells == ASSUME TellingInv, UNCHANGED <<reply, event, answers, told>> PROVE TellingInv'
<1>1. EventOf' = EventOf
  BY SameEvent
<1> QED BY <1>1 DEF TellingInv, ToldFits, WaitsForCheck, RequestShown, HumanRequest

LEMMA RespondTells == ASSUME AnswersShaped, TellingInv, NEW a \in DOMAIN answers, Respond(a) PROVE TellingInv'
<1>1. RequestShown /\ UNCHANGED <<reply, event>> /\ reply \in Replies /\ event \in {NoEvent, EventOf}
  BY DEF Respond, TellingInv
<1>2. EventOf' = EventOf
  BY <1>1, SameEvent
<1>3. HumanRequest' = HumanRequest /\ RequestShown'
  BY <1>1 DEF HumanRequest, RequestShown
<1>4. reply.body.fingerprint = HumanRequest
  BY <1>1, ShownIs DEF AnswersShaped
<1>5. CASE Tell("deny", NOTHING, NOTHING) /\ Over(a)
  <2>1. ToldFits'
    <3> DEFINE t == [decision |-> "deny", value |-> NOTHING, assured |-> NOTHING]
    <3>1. told' = told \cup {t} /\ t.decision # "submit"
      BY <1>5 DEF Tell
    <3> HIDE DEF t
    <3> QED BY <1>1, <3>1, TellsOne
  <2>2. \A b \in DOMAIN answers' : WaitsForCheck(b)'
    BY <1>1, <1>3, <1>5 DEF TellingInv, WaitsForCheck, Over, NoAnswer
  <2> QED BY <1>1, <1>2, <2>1, <2>2 DEF TellingInv
<1>6. ASSUME NEW v \in Values, Over(a) /\ UNCHANGED told PROVE TellingInv'
  <2>1. \A b \in DOMAIN answers' : WaitsForCheck(b)'
    BY <1>1, <1>3, <1>6 DEF TellingInv, WaitsForCheck, Over, NoAnswer
  <2> QED BY <1>1, <1>2, <1>6, <2>1 DEF TellingInv, ToldFits
<1>7. ASSUME NEW v \in Values, BrowserValue(HumanRequest, v), HumanRequest.kind \notin AUTH_KINDS, Tell("submit", v, NOTHING), Over(a)
      PROVE  TellingInv'
  <2>1. Fits(HumanRequest, v)
    BY <1>1, <1>7, AdmittedFits
  <2>2. ToldFits'
    <3> DEFINE t == [decision |-> "submit", value |-> v, assured |-> NOTHING]
    <3>1. told' = told \cup {t} /\ t.value = v /\ t.assured = NOTHING
      BY <1>7 DEF Tell
    <3> HIDE DEF t
    <3> QED BY <1>1, <1>4, <1>7, <2>1, <3>1, TellsOne
  <2>3. \A b \in DOMAIN answers' : WaitsForCheck(b)'
    BY <1>1, <1>3, <1>7 DEF TellingInv, WaitsForCheck, Over, NoAnswer
  <2> QED BY <1>1, <1>2, <2>2, <2>3 DEF TellingInv
<1>8. ASSUME NEW v \in Values, BrowserValue(HumanRequest, v), HumanRequest.kind \in AUTH_KINDS,
             answers' = [answers EXCEPT ![a].at = "wait", ![a].value = v], UNCHANGED told
      PROVE  TellingInv'
  <2>1. v.is = "text"
    BY <1>8 DEF BrowserValue, AUTH_KINDS, CHOICE_KINDS
  <2>2. v = Text(v.text)
    BY <1>8, <2>1 DEF AnswersShaped, ValuesShaped
  <2>3. \A b \in DOMAIN answers' : WaitsForCheck(b)'
    <3> SUFFICES ASSUME NEW b \in DOMAIN answers' PROVE WaitsForCheck(b)'
      OBVIOUS
    <3>1. CASE b = a
      <4>1. answers'[b] = [answers[a] EXCEPT !.at = "wait", !.value = v]
        BY <1>8, <3>1
      <4>2. DOMAIN answers[a] = {"at", "value", "failures"}
        BY DEF TellingInv, WaitsForCheck
      <4>3. DOMAIN answers'[b] = {"at", "value", "failures"} /\ answers'[b].value = v
        BY <4>1, <4>2
      <4> QED BY <1>3, <1>8, <2>1, <2>2, <4>3 DEF WaitsForCheck
    <3>2. CASE b # a
      <4>1. answers'[b] = answers[b] /\ WaitsForCheck(b)
        BY <1>8, <3>2 DEF TellingInv
      <4> QED BY <1>3, <4>1 DEF WaitsForCheck
    <3> QED BY <3>1, <3>2
  <2> QED BY <1>1, <1>2, <1>8, <2>3 DEF TellingInv, ToldFits
<1> QED BY <1>5, <1>6, <1>7, <1>8 DEF Respond

LEMMA AuthenticateTells == ASSUME TellingInv, NEW a \in DOMAIN answers, Authenticate(a) PROVE TellingInv'
<1>1. UNCHANGED <<reply, event, told>> /\ answers[a].at = "wait"
  BY DEF Authenticate
<1>2. EventOf' = EventOf
  BY <1>1, SameEvent
<1>3. HumanRequest' = HumanRequest /\ RequestShown' = RequestShown
  BY <1>1 DEF HumanRequest, RequestShown
<1>4. Over(a) \/ answers' = [answers EXCEPT ![a].at = "check", ![a].failures = passwords'.failures]
  BY DEF Authenticate
<1>5. ASSUME NEW b \in DOMAIN answers' PROVE WaitsForCheck(b)'
  <2>0. b \in DOMAIN answers /\ WaitsForCheck(b) /\ WaitsForCheck(a)
    BY <1>4 DEF TellingInv, Over
  <2>1. CASE b # a
    <3>1. answers'[b] = answers[b]
      BY <1>4, <2>1 DEF Over
    <3> QED BY <1>3, <2>0, <3>1 DEF WaitsForCheck
  <2>2. CASE b = a /\ Over(a)
    <3>1. answers'[b] = [NoAnswer EXCEPT !.at = "over"]
      BY <2>0, <2>2 DEF Over
    <3> QED BY <3>1 DEF WaitsForCheck, NoAnswer
  <2>3. CASE b = a /\ answers' = [answers EXCEPT ![a].at = "check", ![a].failures = passwords'.failures]
    <3> DEFINE f == passwords'.failures
    <3>1. answers'[b] = [answers[a] EXCEPT !.at = "check", !.failures = f]
      BY <2>0, <2>3
    <3>2. DOMAIN answers[a] = {"at", "value", "failures"}
      BY <2>0 DEF WaitsForCheck
    <3>3. DOMAIN answers'[b] = {"at", "value", "failures"} /\ answers'[b].value = answers[a].value
      BY <3>1, <3>2
    <3> QED BY <1>1, <1>3, <2>0, <3>3 DEF WaitsForCheck
  <2> QED BY <1>4, <2>1, <2>2, <2>3
<1>6. ToldFits'
  BY <1>1 DEF TellingInv, ToldFits
<1> QED BY <1>1, <1>2, <1>5, <1>6 DEF TellingInv

LEMMA AuthenticatedTells == ASSUME AnswersShaped, TellingInv, NEW a \in DOMAIN answers, Authenticated(a) PROVE TellingInv'
<1>1. UNCHANGED <<reply, event>> /\ answers[a].at = "check" /\ Over(a) /\ reply \in Replies /\ event \in {NoEvent, EventOf}
  BY DEF Authenticated, TellingInv
<1>2. EventOf' = EventOf
  BY <1>1, SameEvent
<1>3. HumanRequest' = HumanRequest /\ RequestShown' = RequestShown
  BY <1>1 DEF HumanRequest, RequestShown
<1>4. ASSUME NEW b \in DOMAIN answers' PROVE WaitsForCheck(b)'
  <2>0. b \in DOMAIN answers /\ WaitsForCheck(b)
    BY <1>1, <1>4 DEF TellingInv, Over
  <2>1. CASE b # a
    <3>1. answers'[b] = answers[b]
      BY <1>1, <2>1 DEF Over
    <3> QED BY <1>3, <2>0, <3>1 DEF WaitsForCheck
  <2>2. CASE b = a
    <3>1. answers'[b] = [NoAnswer EXCEPT !.at = "over"]
      BY <1>1, <2>0, <2>2 DEF Over
    <3> QED BY <3>1 DEF WaitsForCheck, NoAnswer
  <2> QED BY <2>1, <2>2
<1>5. RequestShown /\ HumanRequest.kind \in AUTH_KINDS /\ answers[a].value = Text(answers[a].value.text)
  BY <1>1 DEF TellingInv, WaitsForCheck
<1>6. reply.body.fingerprint.kind \in AUTH_KINDS
  BY <1>1, <1>5, ShownIs DEF AnswersShaped
<1>7. CASE answers[a].value.text = PASSWORD /\ Tell("submit", TRUTH, answers[a].value)
  <2> DEFINE t == [decision |-> "submit", value |-> TRUTH, assured |-> answers[a].value]
  <2>1. told' = told \cup {t} /\ t.value = TRUTH /\ t.assured = [is |-> "text", text |-> PASSWORD]
    BY <1>5, <1>7 DEF Tell, Text
  <2> HIDE DEF t
  <2>2. ToldFits'
    BY <1>1, <1>6, <2>1, TellsOne
  <2> QED BY <1>1, <1>2, <1>4, <2>2 DEF TellingInv
<1>8. CASE Tell("deny", NOTHING, NOTHING)
  <2> DEFINE t == [decision |-> "deny", value |-> NOTHING, assured |-> NOTHING]
  <2>1. told' = told \cup {t} /\ t.decision # "submit"
    BY <1>8 DEF Tell
  <2> HIDE DEF t
  <2>2. ToldFits'
    BY <1>1, <2>1, TellsOne
  <2> QED BY <1>1, <1>2, <1>4, <2>2 DEF TellingInv
<1>9. CASE UNCHANGED told
  BY <1>1, <1>2, <1>4, <1>9 DEF TellingInv, ToldFits
<1> QED BY <1>7, <1>8, <1>9 DEF Authenticated

-----------------------------------------------------------------------------
(* The ceremony: who checks holds it; the wrong passwords in a row are counted, round by   *)
(* round, and a round begins once the lock of the last one is over.                        *)
Counted ==
  /\ clock \in Nat /\ checked \in Seq(Nat)
  /\ passwords \in [failures : 0..MAX_PASSWORD_ATTEMPTS, until : Nat, holder : Nat]
  /\ Len(checked) % MAX_PASSWORD_ATTEMPTS = IF passwords.failures = MAX_PASSWORD_ATTEMPTS THEN 0 ELSE passwords.failures
  /\ passwords.failures = MAX_PASSWORD_ATTEMPTS =>
       Len(checked) > 0 /\ passwords.until = checked[Len(checked)] + PASSWORD_LOCK
  /\ passwords.failures # MAX_PASSWORD_ATTEMPTS => passwords.until = 0
  /\ passwords.failures = 0 /\ Len(checked) > 0 => clock >= checked[Len(checked)] + PASSWORD_LOCK
  /\ AttemptsBounded
HeldByChecker ==
  /\ DOMAIN answers \subseteq Nat \ {0}
  /\ \A a \in DOMAIN answers :
       /\ DOMAIN answers[a] = {"at", "value", "failures"}
       /\ answers[a].at = "check" =>
            /\ passwords.holder = a /\ answers[a].failures = passwords.failures
            /\ passwords.failures < MAX_PASSWORD_ATTEMPTS
CeremonyInv == Counted /\ HeldByChecker

LEMMA WrongCounted ==
  ASSUME BoundsOrdered, CeremonyInv, NEW a \in DOMAIN answers, answers[a].at = "check",
         passwords' = Wrong(answers[a].failures), checked' = Append(checked, clock), clock' = clock
  PROVE  Counted'
<1> DEFINE m == MAX_PASSWORD_ATTEMPTS
           f == passwords.failures
           n == Len(checked)
<1>0. m \in Nat \ {0} /\ PASSWORD_LOCK \in Nat \ {0}
  BY DEF BoundsOrdered
<1>1. f \in 0..m /\ f < m /\ answers[a].failures = f /\ clock \in Nat /\ checked \in Seq(Nat) /\ n \in Nat /\ n % m = f
  BY <1>0 DEF CeremonyInv, Counted, HeldByChecker
<1>2. passwords' = [failures |-> f + 1, holder |-> 0, until |-> IF f + 1 >= m THEN clock + PASSWORD_LOCK ELSE 0]
  BY <1>1 DEF Wrong
<1>3. checked' \in Seq(Nat) /\ Len(checked') = n + 1 /\ checked'[n + 1] = clock /\ \A k \in 1..n : checked'[k] = checked[k]
  BY <1>1
<1>4. (n + 1) % m = IF f + 1 = m THEN 0 ELSE f + 1
  <2>1. f = m - 1 <=> f + 1 = m
    BY <1>0, <1>1
  <2>2. m \in Nat \ {0} /\ n \in Nat /\ (n % m) = f
    BY <1>0, <1>1
  <2> HIDE DEF m, f, n
  <2>3. (n + 1) % m = IF (n % m) = m - 1 THEN 0 ELSE (n % m) + 1
    BY <2>2, ModNext
  <2> QED BY <2>1, <2>2, <2>3
<1>5. AttemptsBounded'
  <2> SUFFICES ASSUME NEW k \in 1..n, k % m = 0 PROVE checked'[k + 1] >= checked'[k] + PASSWORD_LOCK
    BY <1>3 DEF AttemptsBounded
  <2>1. CASE k < n
    BY <1>1, <1>3, <2>1 DEF CeremonyInv, Counted, AttemptsBounded
  <2>2. CASE k = n
    <3>1. f = 0 /\ n > 0
      BY <1>1, <2>2
    <3>2. clock >= checked[n] + PASSWORD_LOCK
      BY <3>1 DEF CeremonyInv, Counted
    <3> QED BY <1>1, <1>3, <2>2, <3>2
  <2> QED BY <1>1, <2>1, <2>2
<1>6. passwords' \in [failures : 0..m, until : Nat, holder : Nat] /\ passwords'.failures = f + 1
  BY <1>0, <1>1, <1>2
<1>7. /\ f + 1 = m => passwords'.until = clock + PASSWORD_LOCK
      /\ f + 1 # m => passwords'.until = 0
  BY <1>0, <1>1, <1>2
<1>8. clock' \in Nat
  BY <1>1
<1> HIDE DEF m, f, n
<1>9. Len(checked') % m = IF passwords'.failures = m THEN 0 ELSE passwords'.failures
  BY <1>3, <1>4, <1>6
<1>10. passwords'.failures = m => Len(checked') > 0 /\ passwords'.until = checked'[Len(checked')] + PASSWORD_LOCK
  BY <1>1, <1>3, <1>6, <1>7
<1>11. passwords'.failures # m => passwords'.until = 0
  BY <1>6, <1>7
<1>12. passwords'.failures # 0
  BY <1>1, <1>6
<1> QED BY <1>3, <1>5, <1>6, <1>8, <1>9, <1>10, <1>11, <1>12 DEF Counted, m

LEMMA CheckerOver ==
  ASSUME CeremonyInv, NEW a \in DOMAIN answers, answers[a].at = "check", Over(a)
  PROVE  HeldByChecker'
<1>1. DOMAIN answers' = DOMAIN answers /\ DOMAIN answers \subseteq Nat \ {0}
  BY DEF Over, CeremonyInv, HeldByChecker
<1>2. ASSUME NEW b \in DOMAIN answers'
      PROVE DOMAIN answers'[b] = {"at", "value", "failures"} /\ answers'[b].at # "check"
  <2>1. CASE b = a
    <3>1. answers'[b] = [NoAnswer EXCEPT !.at = "over"]
      BY <1>1, <2>1 DEF Over
    <3> QED BY <3>1 DEF NoAnswer
  <2>2. CASE b # a
    <3>1. answers'[b] = answers[b] /\ passwords.holder = a
      BY <1>1, <2>2 DEF Over, CeremonyInv, HeldByChecker
    <3> QED BY <1>1, <2>2, <3>1 DEF CeremonyInv, HeldByChecker
  <2> QED BY <2>1, <2>2
<1> QED BY <1>1, <1>2 DEF HeldByChecker

LEMMA AuthenticatedKeeps ==
  ASSUME BoundsOrdered, CeremonyInv, NEW a \in DOMAIN answers, Authenticated(a)
  PROVE  CeremonyInv'
<1>0. MAX_PASSWORD_ATTEMPTS \in Nat \ {0} /\ PASSWORD_LOCK \in Nat \ {0}
  BY DEF BoundsOrdered
<1>1. answers[a].at = "check" /\ Over(a) /\ clock' = clock
  BY DEF Authenticated
<1>2. HeldByChecker'
  BY <1>1, CheckerOver
<1>3. CASE passwords' = Unlocked /\ checked' = <<>>
  <2>1. Counted'
    BY <1>0, <1>1, <1>3 DEF Counted, CeremonyInv, Unlocked, AttemptsBounded
  <2> QED BY <1>2, <2>1 DEF CeremonyInv
<1>4. CASE passwords' = Wrong(answers[a].failures) /\ checked' = Append(checked, clock)
  BY <1>1, <1>2, <1>4, WrongCounted DEF CeremonyInv
<1>5. CASE passwords' = [passwords EXCEPT !.holder = 0] /\ UNCHANGED checked
  <2>1. /\ passwords' \in [failures : 0..MAX_PASSWORD_ATTEMPTS, until : Nat, holder : Nat]
        /\ passwords'.failures = passwords.failures /\ passwords'.until = passwords.until
    BY <1>5 DEF CeremonyInv, Counted
  <2>2. Counted'
    BY <1>1, <1>5, <2>1 DEF CeremonyInv, Counted, AttemptsBounded
  <2> QED BY <1>2, <2>2 DEF CeremonyInv
<1> QED BY <1>3, <1>4, <1>5 DEF Authenticated

LEMMA AuthenticateKeeps ==
  ASSUME BoundsOrdered, CeremonyInv, NEW a \in DOMAIN answers, Authenticate(a)
  PROVE  CeremonyInv'
<1>0. MAX_PASSWORD_ATTEMPTS \in Nat \ {0} /\ PASSWORD_LOCK \in Nat \ {0}
  BY DEF BoundsOrdered
<1>1. /\ answers[a].at = "wait" /\ passwords.holder = 0 /\ clock' = clock /\ checked' = checked
      /\ a \in Nat \ {0}
  BY DEF Authenticate, CeremonyInv, HeldByChecker
<1>2. \A b \in DOMAIN answers : answers[b].at # "check"
  BY <1>1 DEF CeremonyInv, HeldByChecker
<1>3. CASE passwords.until > clock
  <2>1. Over(a) /\ passwords' = passwords
    BY <1>3 DEF Authenticate
  <2>2. Counted'
    BY <1>1, <2>1 DEF CeremonyInv, Counted, AttemptsBounded
  <2>3. ASSUME NEW b \in DOMAIN answers'
        PROVE DOMAIN answers'[b] = {"at", "value", "failures"} /\ answers'[b].at # "check"
    <3>1. b \in DOMAIN answers /\ (b # a => answers'[b] = answers[b])
      BY <2>1 DEF Over
    <3>2. b = a => answers'[b] = [NoAnswer EXCEPT !.at = "over"]
      BY <2>1 DEF Over
    <3> QED BY <1>2, <3>1, <3>2 DEF CeremonyInv, HeldByChecker, NoAnswer
  <2>4. DOMAIN answers' \subseteq Nat \ {0}
    BY <2>1 DEF Over, CeremonyInv, HeldByChecker
  <2> QED BY <2>2, <2>3, <2>4 DEF CeremonyInv, HeldByChecker
<1>4. CASE ~(passwords.until > clock)
  <2> DEFINE p == IF passwords.until # 0 THEN Unlocked ELSE passwords
  <2>1. /\ passwords' = [p EXCEPT !.holder = a]
        /\ answers' = [answers EXCEPT ![a].at = "check", ![a].failures = passwords'.failures]
    BY <1>4 DEF Authenticate
  <2>2. passwords' \in [failures : 0..MAX_PASSWORD_ATTEMPTS, until : Nat, holder : Nat] /\ passwords'.holder = a
    BY <1>0, <1>1, <2>1 DEF CeremonyInv, Counted, Unlocked
  <2>3. passwords'.until = 0 /\ passwords'.failures < MAX_PASSWORD_ATTEMPTS
        /\ passwords'.failures = IF passwords.until # 0 THEN 0 ELSE passwords.failures
    <3>1. CASE passwords.until # 0
      BY <1>0, <2>1, <3>1 DEF Unlocked
    <3>2. CASE passwords.until = 0
      <4>1. passwords' = [passwords EXCEPT !.holder = a]
        BY <2>1, <3>2
      <4>2. passwords.failures # MAX_PASSWORD_ATTEMPTS
        <5> SUFFICES ASSUME passwords.failures = MAX_PASSWORD_ATTEMPTS PROVE FALSE
          OBVIOUS
        <5>1. Len(checked) > 0 /\ 0 = checked[Len(checked)] + PASSWORD_LOCK /\ checked \in Seq(Nat)
          BY <3>2 DEF CeremonyInv, Counted
        <5>2. checked[Len(checked)] \in Nat
          BY <5>1
        <5> QED BY <1>0, <5>1, <5>2
      <4> QED BY <1>0, <3>2, <4>1, <4>2 DEF CeremonyInv, Counted
    <3> QED BY <3>1, <3>2
  <2>4. /\ passwords.until # 0 => passwords.failures = MAX_PASSWORD_ATTEMPTS /\ Len(checked) > 0
                                  /\ passwords.until = checked[Len(checked)] + PASSWORD_LOCK
    BY DEF CeremonyInv, Counted
  <2>5. passwords.until \in Nat /\ clock \in Nat
    BY DEF CeremonyInv, Counted
  <2>6. passwords'.failures = 0 /\ Len(checked) > 0 => clock >= checked[Len(checked)] + PASSWORD_LOCK
    <3>1. CASE passwords.until # 0
      BY <1>4, <2>4, <2>5, <3>1
    <3>2. CASE passwords.until = 0
      BY <2>3, <3>2 DEF CeremonyInv, Counted
    <3> QED BY <3>1, <3>2
  <2>7. Len(checked) % MAX_PASSWORD_ATTEMPTS = passwords'.failures
    <3>1. CASE passwords.until # 0
      BY <2>3, <2>4, <3>1 DEF CeremonyInv, Counted
    <3>2. CASE passwords.until = 0
      BY <1>0, <2>3, <3>2 DEF CeremonyInv, Counted
    <3> QED BY <3>1, <3>2
  <2>8. Counted'
    <3>1. passwords'.failures # MAX_PASSWORD_ATTEMPTS
      BY <1>0, <2>2, <2>3
    <3>2. checked' \in Seq(Nat) /\ clock' \in Nat /\ AttemptsBounded'
      BY <1>1 DEF CeremonyInv, Counted, AttemptsBounded
    <3> HIDE DEF p
    <3> QED BY <1>1, <2>2, <2>3, <2>6, <2>7, <3>1, <3>2 DEF Counted
  <2>9. HeldByChecker'
    <3>1. DOMAIN answers' = DOMAIN answers /\ DOMAIN answers' \subseteq Nat \ {0}
      BY <2>1 DEF CeremonyInv, HeldByChecker
    <3>2. ASSUME NEW b \in DOMAIN answers', b # a
          PROVE DOMAIN answers'[b] = {"at", "value", "failures"} /\ answers'[b].at # "check"
      <4>1. answers'[b] = answers[b]
        BY <2>1, <3>1, <3>2
      <4> QED BY <1>2, <3>1, <3>2, <4>1 DEF CeremonyInv, HeldByChecker
    <3>3. DOMAIN answers'[a] = {"at", "value", "failures"} /\ answers'[a].failures = passwords'.failures
      <4> DEFINE f == passwords'.failures
      <4>1. answers'[a] = [answers[a] EXCEPT !.at = "check", !.failures = f]
        BY <2>1
      <4>2. DOMAIN answers[a] = {"at", "value", "failures"}
        BY DEF CeremonyInv, HeldByChecker
      <4> QED BY <4>1, <4>2
    <3> QED BY <2>2, <2>3, <3>1, <3>2, <3>3 DEF HeldByChecker
  <2> QED BY <2>8, <2>9 DEF CeremonyInv
<1> QED BY <1>3, <1>4

LEMMA RespondKeeps ==
  ASSUME CeremonyInv, NEW a \in DOMAIN answers, Respond(a)
  PROVE  CeremonyInv'
<1>1. UNCHANGED <<passwords, clock, checked>>
  BY DEF Respond
<1>2. Over(a) \/ \E v \in Values : answers' = [answers EXCEPT ![a].at = "wait", ![a].value = v]
  BY DEF Respond
<1>3. DOMAIN answers' = DOMAIN answers /\ \A b \in DOMAIN answers : b # a => answers'[b] = answers[b]
  BY <1>2 DEF Over
<1>4. DOMAIN answers'[a] = {"at", "value", "failures"} /\ answers'[a].at # "check"
  <2>1. CASE Over(a)
    BY <2>1 DEF Over, NoAnswer
  <2>2. CASE \E v \in Values : answers' = [answers EXCEPT ![a].at = "wait", ![a].value = v]
    BY <2>2 DEF CeremonyInv, HeldByChecker
  <2> QED BY <1>2, <2>1, <2>2
<1>5. Counted'
  BY <1>1 DEF CeremonyInv, Counted, AttemptsBounded
<1>6. HeldByChecker'
  BY <1>1, <1>3, <1>4 DEF CeremonyInv, HeldByChecker
<1> QED BY <1>5, <1>6 DEF CeremonyInv

LEMMA TickKeeps == ASSUME BoundsOrdered, CeremonyInv, TimePasses PROVE CeremonyInv'
<1>1. UNCHANGED <<answers, passwords, checked>> /\ clock \in Nat /\ clock' = clock + 1
  BY DEF TimePasses, CeremonyInv, Counted
<1>2. passwords.failures = 0 /\ Len(checked) > 0 => clock' >= checked[Len(checked)] + PASSWORD_LOCK
  <2>1. SUFFICES ASSUME passwords.failures = 0, Len(checked) > 0 PROVE clock' >= checked[Len(checked)] + PASSWORD_LOCK
    OBVIOUS
  <2>2. checked[Len(checked)] \in Nat /\ PASSWORD_LOCK \in Nat /\ clock >= checked[Len(checked)] + PASSWORD_LOCK
    BY <2>1 DEF CeremonyInv, Counted, BoundsOrdered
  <2> QED BY <1>1, <2>2
<1>3. Counted'
  BY <1>1, <1>2 DEF CeremonyInv, Counted, AttemptsBounded
<1>4. HeldByChecker'
  BY <1>1 DEF CeremonyInv, HeldByChecker
<1> QED BY <1>3, <1>4 DEF CeremonyInv

-----------------------------------------------------------------------------
(* The invariant of the answers.                                                           *)
AnswersInv == TellingInv /\ CeremonyInv

LEMMA AnswersBegin == ASSUME AnswersShaped, AnswersInit PROVE AnswersInv
<1>1. reply \in Replies /\ reply.calls \in Nat
  BY DEF AnswersInit, AnswersShaped, RepliesShaped
<1>2. /\ event = NoEvent /\ answers = [a \in 1..reply.calls |-> NoAnswer] /\ passwords = Unlocked
      /\ clock = 0 /\ told = {} /\ checked = <<>>
  BY DEF AnswersInit
<1>3. TellingInv
  BY <1>1, <1>2 DEF TellingInv, ToldFits, WaitsForCheck, NoAnswer
<1>4. Counted
  BY <1>2 DEF Counted, AttemptsBounded, Unlocked, AnswersShaped, BoundsOrdered
<1>5. HeldByChecker
  BY <1>1, <1>2 DEF HeldByChecker, NoAnswer
<1> QED BY <1>3, <1>4, <1>5 DEF AnswersInv, CeremonyInv

LEMMA AnswersStep == ASSUME AnswersShaped, AnswersInv, [AnswersNext]_answerVars PROVE AnswersInv'
<1>0. BoundsOrdered /\ TellingInv /\ CeremonyInv
  BY DEF AnswersShaped, AnswersInv
<1>1. CASE Show
  <2>1. CeremonyInv'
    BY <1>0, <1>1 DEF Show, CeremonyInv, Counted, HeldByChecker, AttemptsBounded
  <2> QED BY <1>0, <1>1, <2>1, ShowTells DEF AnswersInv
<1>2. CASE TimePasses
  BY <1>0, <1>2, TickKeeps, RestTells DEF AnswersInv, TimePasses
<1>3. ASSUME NEW a \in DOMAIN answers, Respond(a) PROVE AnswersInv'
  BY <1>0, <1>3, RespondKeeps, RespondTells DEF AnswersInv
<1>4. ASSUME NEW a \in DOMAIN answers, Authenticate(a) PROVE AnswersInv'
  BY <1>0, <1>4, AuthenticateKeeps, AuthenticateTells DEF AnswersInv
<1>5. ASSUME NEW a \in DOMAIN answers, Authenticated(a) PROVE AnswersInv'
  BY <1>0, <1>5, AuthenticatedKeeps, AuthenticatedTells DEF AnswersInv
<1>6. CASE UNCHANGED answerVars
  <2>1. CeremonyInv'
    BY <1>0, <1>6 DEF answerVars, CeremonyInv, Counted, HeldByChecker, AttemptsBounded
  <2> QED BY <1>0, <1>6, <2>1, RestTells DEF AnswersInv, answerVars
<1> QED BY <1>1, <1>2, <1>3, <1>4, <1>5, <1>6 DEF AnswersNext

(* Whatever Team answers, a page is shown it in a shape that what fits it passes           *)
(* (chat/projection.rs, challenge.rs and websocket/mod.rs: human_value); Team is told only *)
(* what fits the request it fingerprinted, an Action password only when it was right       *)
(* (chat/human.rs: response_payload, authenticated); and however pages and Routine runs    *)
(* cross, so many wrong passwords in a row wait for the lock (ActionPasswords).            *)
THEOREM AnswersAlwaysChecked == AnswersSpec => []AnswersChecked
<1>1. AnswersInit => AnswersInv
  BY AnswersAssumption, AnswersBegin
<1>2. AnswersInv /\ [AnswersNext]_answerVars => AnswersInv'
  BY AnswersAssumption, AnswersStep
<1>3. AnswersInv => AnswersChecked
  BY AnswersAssumption, TellingTells DEF AnswersInv, TellingInv, CeremonyInv, Counted, AnswersChecked, AnswersFit
<1> QED BY <1>1, <1>2, <1>3, PTL DEF AnswersSpec
=============================================================================
