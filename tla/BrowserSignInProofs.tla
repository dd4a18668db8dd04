------------------------ MODULE BrowserSignInProofs ------------------------
(***************************************************************************)
(* Proofs about Keys and BrowserSignIn, for any number of pages, keys,     *)
(* sign-in sessions, faults and restarts.  Who holds the rotation lock     *)
(* knows where the rotation stands: what Team pins and what the record     *)
(* keeps change only under that lock, but for the beginning of a rotation, *)
(* which finds none open.                                                  *)
(***************************************************************************)
EXTENDS BrowserSignIn, TLAPS

(* Where a task holds the rotation lock.                                                   *)
Holding == {"ask", "adopt", "abandon", "publish"}

(* Keys are used in the order they were made, the pending one last.                        *)
KeysOrdered ==
  /\ record.current <= made /\ record.pending <= made
  /\ record.pending # NoKey => record.current < record.pending
  /\ file <= record.current

(* What a task at t knows of the rotation, with the lock held by h, keys r of the record    *)
(* and pin of Team: it asks about the pending key, under one of the two; Team pins the key *)
(* it adopts and not the one it abandons.                                                  *)
Knows(a, t, h, r, team) ==
  /\ t.at \in Holding => h = a
  /\ t.at \in {"ask", "adopt", "abandon"} => t.new = r.pending /\ r.pending # NoKey
  /\ t.at = "ask" => t.signer \in {r.current, r.pending}
  /\ t.at = "adopt" => team = t.new
  /\ t.at = "abandon" => team # t.new
  /\ t.at = "publish" => t.new = r.current
  /\ t.at = "begin" => a \in Page

HolderKnows == \A a \in Actor : Knows(a, task[a], held, record, pin)

Task == [at : {"idle", "resolve", "ask", "adopt", "abandon", "publish", "begin"},
         new : KeyOrNone, signer : KeyOrNone, begun : BOOLEAN]

Record == [current : Key, pending : KeyOrNone]

(* What is typed but the tasks.                                                            *)
RestTyped ==
  /\ record \in Record /\ pin \in Key /\ file \in Key /\ made \in Key
  /\ held \in Actor \cup {NoOne}
  /\ woken \in BOOLEAN /\ faults \in 0..MaxFaults /\ crashes \in 0..MaxCrashes

KeysInv ==
  /\ KeysTypeOK
  /\ HoldsPinnedKey
  /\ KeysOrdered
  /\ HolderKnows

-----------------------------------------------------------------------------
LEMMA Typed == KeysTypeOK <=> RestTyped /\ task \in [Actor -> Task]
BY DEF KeysTypeOK, RestTyped, Task, Record

(* One task moves to t.  It moves under the lock, or leaves what another knows alone: the  *)
(* lock unless it was free, the pin, the current key, and the pending key unless none was  *)
(* pending.                                                                                *)
LEMMA Moved ==
  ASSUME KeysInv, NEW a \in Actor, NEW t \in Task, task' = [task EXCEPT ![a] = t],
         RestTyped', HoldsPinnedKey', KeysOrdered', Knows(a, t, held', record', pin'),
         \/ task[a].at \in Holding
         \/ /\ held' = held \/ held = NoOne
            /\ pin' = pin /\ record'.current = record.current
            /\ record'.pending = record.pending \/ record.pending = NoKey
  PROVE  KeysInv'
<1>1. task \in [Actor -> Task] /\ a \in Actor /\ NoOne \notin Actor
  BY Typed, KeysAssumption DEF KeysInv, Actor, NoOne
<1>2. task' \in [Actor -> Task] /\ task'[a] = t /\ \A b \in Actor \ {a} : task'[b] = task[b]
  BY <1>1
<1>3. ASSUME NEW b \in Actor \ {a}
      PROVE  Knows(b, task[b], held', record', pin')
  <2>1. Knows(b, task[b], held, record, pin) /\ Knows(a, task[a], held, record, pin)
    BY DEF KeysInv, HolderKnows
  <2>2. CASE task[a].at \in Holding
    <3>1. task[b].at \notin Holding
      BY <2>1, <2>2 DEF Knows
    <3> QED BY <3>1, <2>1 DEF Knows, Holding
  <2>3. CASE /\ held' = held \/ held = NoOne
             /\ pin' = pin /\ record'.current = record.current
             /\ record'.pending = record.pending \/ record.pending = NoKey
    BY <2>1, <2>3, <1>1 DEF Knows, Holding
  <2> QED BY <2>2, <2>3
<1>4. HolderKnows'
  BY <1>2, <1>3 DEF HolderKnows
<1>5. KeysTypeOK'
  BY <1>2, Typed DEF KeysTypeOK, RestTyped, Task, Record
<1> QED BY <1>4, <1>5 DEF KeysInv

(* The task an actor is at, and the pending rotation it knows of.                          *)
LEMMA Here ==
  ASSUME KeysInv, NEW a \in Actor
  PROVE  /\ task[a] \in Task /\ Knows(a, task[a], held, record, pin)
         /\ RestTyped /\ HoldsPinnedKey /\ KeysOrdered
BY Typed DEF KeysInv, HolderKnows

LEMMA FirstKeys == NoKey \in KeyOrNone /\ 1 \in Key /\ Key \subseteq KeyOrNone
<1>1. MaxKey \in Nat /\ MaxKey # 0
  BY KeysAssumption
<1> QED BY <1>1 DEF Key, KeyOrNone, NoKey

LEMMA IdleTask ==
  /\ Idle \in Task /\ Idle.at = "idle"
  /\ \A at \in {"resolve", "begin"} : [Idle EXCEPT !.at = at] \in Task /\ [Idle EXCEPT !.at = at].at = at
BY FirstKeys DEF Idle, Task

LEMMA KeysBegin == KeysInit => KeysInv
<1> SUFFICES ASSUME KeysInit PROVE KeysInv
  OBVIOUS
<1>1. AtStart \in [Actor -> Task] /\ \A a \in Actor : AtStart[a].at \in {"idle", "resolve"}
  BY IdleTask DEF AtStart
<1>2. RestTyped
  <2>1. 0 \in 0..MaxFaults /\ 0 \in 0..MaxCrashes
    BY KeysAssumption
  <2> QED BY <2>1, FirstKeys DEF KeysInit, RestTyped, Record
<1>3. HoldsPinnedKey /\ KeysOrdered
  BY DEF KeysInit, HoldsPinnedKey, KeysOrdered, NoKey
<1>4. HolderKnows
  BY <1>1 DEF KeysInit, HolderKnows, Knows, Holding
<1>5. KeysTypeOK
  BY <1>1, <1>2, Typed DEF KeysInit
<1> QED BY <1>3, <1>4, <1>5 DEF KeysInv

LEMMA AskKeeps == ASSUME KeysInv, NEW p \in Page, Ask(p) PROVE KeysInv'
<1> DEFINE t == [Idle EXCEPT !.at = "resolve"]
<1>1. t \in Task /\ t.at = "resolve" /\ p \in Actor
  BY IdleTask DEF Actor
<1>2. task' = [task EXCEPT ![p] = t] /\ UNCHANGED <<record, pin, file, made, held, woken, faults, crashes>>
  BY DEF Ask, Go
<1> HIDE DEF t
<1>3. RestTyped' /\ HoldsPinnedKey' /\ KeysOrdered'
  BY <1>1, <1>2, Here DEF RestTyped, HoldsPinnedKey, KeysOrdered
<1>4. Knows(p, t, held', record', pin')
  BY <1>1 DEF Knows, Holding
<1> QED BY <1>1, <1>2, <1>3, <1>4, Moved

LEMMA RetryKeeps == ASSUME KeysInv, Retry PROVE KeysInv'
<1> DEFINE t == [Idle EXCEPT !.at = "resolve"]
<1>1. t \in Task /\ t.at = "resolve" /\ "retry" \in Actor
  BY IdleTask DEF Actor
<1>2. task' = [task EXCEPT !["retry"] = t] /\ woken' = FALSE
      /\ UNCHANGED <<record, pin, file, made, held, faults, crashes>>
  BY DEF Retry, Go
<1> HIDE DEF t
<1>3. RestTyped' /\ HoldsPinnedKey' /\ KeysOrdered'
  BY <1>1, <1>2, Here DEF RestTyped, HoldsPinnedKey, KeysOrdered
<1>4. Knows("retry", t, held', record', pin')
  BY <1>1 DEF Knows, Holding
<1> QED BY <1>1, <1>2, <1>3, <1>4, Moved

(* Where a task goes when its resolve ended: it waits, or begins a rotation of its own.    *)
LEMMA EndedTask ==
  ASSUME KeysInv, NEW a \in Actor, NEW outcome, Answered(a, outcome)
  PROVE  \E t \in Task : /\ task' = [task EXCEPT ![a] = t] /\ woken' \in BOOLEAN
                         /\ \A h, r, team : Knows(a, t, h, r, team)
<1> DEFINE t == Ended(a, outcome)
<1>1. t \in Task /\ (t.at = "idle" \/ (t.at = "begin" /\ a \in Page))
  BY IdleTask DEF Ended
<1>2. woken' \in BOOLEAN
  BY DEF Answered, KeysInv, KeysTypeOK
<1>3. \A h, r, team : Knows(a, t, h, r, team)
  BY <1>1 DEF Knows, Holding
<1>4. task' = [task EXCEPT ![a] = t]
  BY DEF Answered, Go
<1> HIDE DEF t
<1> QED BY <1>1, <1>2, <1>3, <1>4

LEMMA ResolveKeeps == ASSUME KeysInv, NEW a \in Actor, Resolve(a) PROVE KeysInv'
<1>1. CASE record.pending = NoKey
  <2>1. Answered(a, "none") /\ UNCHANGED <<record, pin, file, made, faults, crashes, held>>
    BY <1>1 DEF Resolve
  <2>2. PICK t \in Task : /\ task' = [task EXCEPT ![a] = t] /\ woken' \in BOOLEAN
                          /\ \A h, r, team : Knows(a, t, h, r, team)
    BY <2>1, EndedTask
  <2>3. RestTyped' /\ HoldsPinnedKey' /\ KeysOrdered'
    BY <2>1, <2>2, Here DEF RestTyped, HoldsPinnedKey, KeysOrdered
  <2> QED BY <2>1, <2>2, <2>3, Moved
<1>2. CASE record.pending # NoKey
  <2> DEFINE t == [task[a] EXCEPT !.at = "ask", !.new = record.pending, !.signer = record.current]
  <2>1. held' = a /\ held = NoOne /\ task' = [task EXCEPT ![a] = t]
        /\ UNCHANGED <<record, pin, file, made, woken, faults, crashes>>
    BY <1>2 DEF Resolve, Go
  <2>2. t \in Task /\ t.at = "ask" /\ t.new = record.pending /\ t.signer = record.current
    BY Here, FirstKeys DEF Task, RestTyped, Record
  <2> HIDE DEF t
  <2>3. RestTyped' /\ HoldsPinnedKey' /\ KeysOrdered'
    BY <2>1, Here DEF RestTyped, HoldsPinnedKey, KeysOrdered
  <2>4. Knows(a, t, held', record', pin')
    BY <1>2, <2>1, <2>2 DEF Knows, Holding
  <2> QED BY <2>1, <2>2, <2>3, <2>4, Moved
<1> QED BY <1>1, <1>2

(* Team's answer decides for the key it pins, in TeamAnswers' terms.                       *)
LEMMA AskTeamKeeps == ASSUME KeysInv, NEW a \in Actor, AskTeam(a) PROVE KeysInv'
<1>1. PICK reply \in TeamAnswers(task[a].signer, task[a].new) :
        pin' = reply[2] /\ task' = [task EXCEPT ![a] = Decided(task[a], reply[1])]
  BY DEF AskTeam, Go
<1>2. task[a].at = "ask" /\ UNCHANGED <<record, file, made, held, woken, faults, crashes>>
  BY DEF AskTeam
<1>3. /\ task[a] \in Task /\ held = a
      /\ task[a].new = record.pending /\ record.pending # NoKey
      /\ task[a].signer \in {record.current, record.pending}
  BY <1>2, Here DEF Knows, Holding
<1> DEFINE signer == task[a].signer
           new == task[a].new
<1>4. \/ signer # pin /\ reply = <<"forbidden", pin>>
      \/ signer = pin /\ reply = <<"switched", new>>
      \/ signer = pin /\ new # pin /\ reply \in {<<"forbidden", pin>>, <<"refused", pin>>}
  BY DEF TeamAnswers
<1> DEFINE t == Decided(task[a], reply[1])
<1>5. /\ t \in Task /\ t.new = new
      /\ \/ t.at = "adopt" /\ pin' = new
         \/ t.at = "abandon" /\ pin' = pin /\ pin # new
         \/ t.at = "ask" /\ pin' = pin /\ t.signer = new
  <2>1. CASE reply = <<"switched", new>>
    BY <1>1, <1>3, <2>1 DEF Decided, Switched, Task
  <2>2. CASE reply = <<"forbidden", pin>> /\ signer # new
    BY <1>1, <1>2, <1>3, <2>2 DEF Decided, Task
  <2>3. CASE reply = <<"forbidden", pin>> /\ signer = new
    <3>1. pin # new
      BY <1>4, <2>3
    <3> QED BY <1>1, <1>3, <2>3, <3>1 DEF Decided, Switched, Task
  <2>4. CASE reply = <<"refused", pin>>
    <3>1. pin # new
      BY <1>4, <2>4
    <3> QED BY <1>1, <1>3, <2>4, <3>1 DEF Decided, Switched, Task
  <2> QED BY <1>4, <2>1, <2>2, <2>3, <2>4
<1>6. task' = [task EXCEPT ![a] = t]
  BY <1>1
<1> HIDE DEF t
<1>7. RestTyped' /\ HoldsPinnedKey' /\ KeysOrdered'
  BY <1>2, <1>3, <1>5, Here DEF RestTyped, HoldsPinnedKey, KeysOrdered, Record, Key, KeyOrNone, NoKey
<1>8. Knows(a, t, held', record', pin')
  BY <1>2, <1>3, <1>5 DEF Knows, Holding
<1> QED BY <1>2, <1>5, <1>6, <1>7, <1>8, Moved DEF Holding

LEMMA UnansweredKeeps == ASSUME KeysInv, NEW a \in Actor, Unanswered(a) PROVE KeysInv'
<1>1. /\ task[a].at = "ask" /\ held' = NoOne /\ faults < MaxFaults /\ faults' = faults + 1
      /\ Answered(a, "pending") /\ UNCHANGED <<record, file, made, crashes>>
  BY DEF Unanswered, Return, Fault
<1>2. task[a].new = record.pending /\ record.pending # NoKey
  BY <1>1, Here DEF Knows
<1>3. pin' \in {pin, record.pending}
  BY <1>2 DEF Unanswered, TeamAnswers
<1>4. PICK t \in Task : /\ task' = [task EXCEPT ![a] = t] /\ woken' \in BOOLEAN
                        /\ \A h, r, team : Knows(a, t, h, r, team)
  BY <1>1, EndedTask
<1>5. RestTyped'
  BY <1>1, <1>2, <1>3, <1>4, Here, KeysAssumption DEF RestTyped, Record, Key, KeyOrNone, NoKey
<1>6. HoldsPinnedKey' /\ KeysOrdered'
  BY <1>1, <1>3, Here DEF HoldsPinnedKey, KeysOrdered
<1> QED BY <1>1, <1>4, <1>5, <1>6, Moved DEF Holding

LEMMA AdoptKeeps == ASSUME KeysInv, NEW a \in Actor, Adopt(a) PROVE KeysInv'
<1> DEFINE t == [task[a] EXCEPT !.at = "publish"]
<1>1. /\ task[a].at = "adopt" /\ task' = [task EXCEPT ![a] = t]
      /\ UNCHANGED <<pin, file, made, held, woken, faults, crashes>>
  BY DEF Adopt, Go
<1>2. /\ held = a /\ pin = record.pending /\ task[a].new = record.pending /\ record.pending # NoKey
  BY <1>1, Here DEF Knows, Holding
<1>3. record' = [current |-> record.pending, pending |-> NoKey]
  BY <1>2 DEF Adopt, Settled
<1>4. t \in Task /\ t.at = "publish" /\ t.new = record.pending
  BY <1>2, Here DEF Task
<1> HIDE DEF t
<1>5. RestTyped'
  BY <1>1, <1>2, <1>3, Here, FirstKeys DEF RestTyped, Record, Key, KeyOrNone, NoKey
<1>6. HoldsPinnedKey'
  BY <1>1, <1>2, <1>3 DEF HoldsPinnedKey
<1>7. KeysOrdered'
  BY <1>1, <1>2, <1>3, Here, KeysAssumption DEF RestTyped, Record, Key, KeyOrNone, NoKey, KeysOrdered
<1>8. Knows(a, t, held', record', pin')
  BY <1>1, <1>2, <1>3, <1>4 DEF Knows, Holding
<1> QED BY <1>1, <1>4, <1>5, <1>6, <1>7, <1>8, Moved DEF Holding

LEMMA AbandonKeeps == ASSUME KeysInv, NEW a \in Actor, Abandon(a) PROVE KeysInv'
<1>1. /\ task[a].at = "abandon" /\ held' = NoOne /\ Answered(a, "abandoned")
      /\ UNCHANGED <<pin, file, made, faults, crashes>>
  BY DEF Abandon, Return
<1>2. task[a].new = record.pending /\ pin # record.pending
  BY <1>1, Here DEF Knows
<1>3. record' = [current |-> record.current, pending |-> NoKey]
  BY <1>2 DEF Abandon, Settled
<1>4. PICK t \in Task : /\ task' = [task EXCEPT ![a] = t] /\ woken' \in BOOLEAN
                        /\ \A h, r, team : Knows(a, t, h, r, team)
  BY <1>1, EndedTask
<1>5. RestTyped'
  BY <1>1, <1>3, <1>4, Here, FirstKeys DEF RestTyped, Record
<1>6. HoldsPinnedKey' 
  BY <1>1, <1>2, <1>3, Here DEF HoldsPinnedKey
<1>7. KeysOrdered'
  BY <1>1, <1>3, Here, KeysAssumption DEF RestTyped, Record, Key, KeyOrNone, NoKey, KeysOrdered
<1> QED BY <1>1, <1>4, <1>5, <1>6, <1>7, Moved DEF Holding

LEMMA SettleRefusedKeeps == ASSUME KeysInv, NEW a \in Actor, SettleRefused(a) PROVE KeysInv'
<1>1. /\ task[a].at \in {"adopt", "abandon"} /\ held' = NoOne /\ Answered(a, "failed")
      /\ faults < MaxFaults /\ faults' = faults + 1 /\ UNCHANGED <<record, pin, file, made, crashes>>
  BY DEF SettleRefused, Return, Fault
<1>2. PICK t \in Task : /\ task' = [task EXCEPT ![a] = t] /\ woken' \in BOOLEAN
                        /\ \A h, r, team : Knows(a, t, h, r, team)
  BY <1>1, EndedTask
<1>3. RestTyped' /\ HoldsPinnedKey' /\ KeysOrdered'
  BY <1>1, <1>2, Here, KeysAssumption DEF RestTyped, HoldsPinnedKey, KeysOrdered
<1> QED BY <1>1, <1>2, <1>3, Moved DEF Holding

LEMMA PublishKeeps == ASSUME KeysInv, NEW a \in Actor, Publish(a) PROVE KeysInv'
<1>1. /\ task[a].at = "publish" /\ held' = NoOne /\ Answered(a, "rotated")
      /\ file' \in {file, task[a].new} /\ faults' \in 0..MaxFaults
      /\ UNCHANGED <<record, pin, made, crashes>>
  BY Here, KeysAssumption DEF Publish, Return, Fault, RestTyped
<1>2. task[a].new = record.current
  BY <1>1, Here DEF Knows
<1>3. PICK t \in Task : /\ task' = [task EXCEPT ![a] = t] /\ woken' \in BOOLEAN
                        /\ \A h, r, team : Knows(a, t, h, r, team)
  BY <1>1, EndedTask
<1>4. RestTyped'
  BY <1>1, <1>2, <1>3, Here DEF RestTyped, Record
<1>5. HoldsPinnedKey' /\ KeysOrdered'
  BY <1>1, <1>2, Here DEF RestTyped, Record, Key, HoldsPinnedKey, KeysOrdered
<1> QED BY <1>1, <1>3, <1>4, <1>5, Moved DEF Holding

(* A rotation begins without the lock, and changes what is pending only when nothing is.   *)
LEMMA BeginKeeps == ASSUME KeysInv, NEW p \in Page, Begin(p) PROVE KeysInv'
<1> p \in Actor
  BY DEF Actor
<1>1. CASE /\ made < MaxKey /\ made' = made + 1 /\ record' = Begun(record, made + 1)
           /\ task' = [task EXCEPT ![p] = IF record'.pending = made + 1
                                          THEN [Idle EXCEPT !.at = "resolve", !.begun = TRUE] ELSE Idle]
           /\ UNCHANGED <<faults, pin, file, held, woken, crashes>>
  <2> DEFINE t == IF record'.pending = made + 1
                  THEN [Idle EXCEPT !.at = "resolve", !.begun = TRUE] ELSE Idle
  <2>1. t \in Task /\ t.at \in {"resolve", "idle"} /\ task' = [task EXCEPT ![p] = t]
    BY <1>1, FirstKeys DEF Idle, Task
  <2> HIDE DEF t
  <2>2. /\ record'.current = record.current
        /\ record'.pending = IF record.pending = NoKey THEN made + 1 ELSE record.pending
        /\ record' = [current |-> record'.current, pending |-> record'.pending]
    BY <1>1, Here DEF Begun, RestTyped, Record
  <2>3. RestTyped'
    BY <1>1, <2>2, Here, KeysAssumption DEF RestTyped, Record, Key, KeyOrNone, NoKey
  <2>4. HoldsPinnedKey' /\ KeysOrdered'
    BY <1>1, <2>2, Here, KeysAssumption DEF RestTyped, Record, Key, KeyOrNone, NoKey, HoldsPinnedKey, KeysOrdered
  <2>5. Knows(p, t, held', record', pin')
    BY <2>1 DEF Knows, Holding
  <2> QED BY <1>1, <2>1, <2>2, <2>3, <2>4, <2>5, Moved
<1>2. CASE /\ Fault /\ task' = [task EXCEPT ![p] = Idle]
           /\ UNCHANGED <<record, made, pin, file, held, woken, crashes>>
  <2>1. RestTyped' /\ HoldsPinnedKey' /\ KeysOrdered'
    BY <1>2, Here, KeysAssumption DEF Fault, RestTyped, HoldsPinnedKey, KeysOrdered
  <2>2. Knows(p, Idle, held', record', pin')
    BY IdleTask DEF Knows, Holding
  <2> QED BY <1>2, <2>1, <2>2, IdleTask, Moved
<1> QED BY <1>1, <1>2 DEF Begin, Go

(* A restart frees the lock, and its tasks begin again.                                    *)
LEMMA RestartKeeps == ASSUME KeysInv, Restart PROVE KeysInv'
<1>1. AtStart \in [Actor -> Task] /\ \A a \in Actor : AtStart[a].at \in {"idle", "resolve"}
  BY IdleTask DEF AtStart
<1>2. /\ crashes' \in 0..MaxCrashes /\ faults' \in 0..MaxFaults /\ file' \in {file, record.current}
      /\ held' = NoOne /\ woken' = FALSE /\ task' = AtStart /\ UNCHANGED <<record, pin, made>>
  BY KeysAssumption DEF Restart, Fault, Published, KeysInv, KeysTypeOK
<1>3. RestTyped /\ HoldsPinnedKey /\ KeysOrdered
  BY Typed DEF KeysInv
<1>4. RestTyped'
  BY <1>2, <1>3 DEF RestTyped, Record
<1>5. HoldsPinnedKey' /\ KeysOrdered'
  BY <1>2, <1>3 DEF RestTyped, Record, Key, HoldsPinnedKey, KeysOrdered
<1>6. HolderKnows'
  BY <1>1, <1>2 DEF HolderKnows, Knows, Holding
<1>7. KeysTypeOK'
  BY <1>1, <1>2, <1>4 DEF KeysTypeOK, RestTyped, Task, Record
<1> QED BY <1>5, <1>6, <1>7 DEF KeysInv

LEMMA KeysSteps == ASSUME KeysInv, KeysStep PROVE KeysInv'
<1>1. ASSUME NEW p \in Page, Ask(p) \/ Begin(p)
      PROVE  KeysInv'
  BY <1>1, AskKeeps, BeginKeeps
<1>2. ASSUME NEW a \in Actor, Settle(a)
      PROVE  KeysInv'
  BY <1>2, ResolveKeeps, AskTeamKeeps, UnansweredKeeps, AdoptKeeps, AbandonKeeps, SettleRefusedKeeps,
     PublishKeeps DEF Settle
<1> QED BY <1>1, <1>2, RetryKeeps DEF KeysStep

LEMMA KeysStutter == ASSUME KeysInv, UNCHANGED keyVars PROVE KeysInv'
BY DEF keyVars, KeysInv, KeysTypeOK, HoldsPinnedKey, KeysOrdered, HolderKnows, Knows

-----------------------------------------------------------------------------
(* The starts of sign-in sessions.                                                         *)
Sign == [at : {"unused", "admitted", "starting", "started", "running", "finished", "cancelling", "over", "untracked"},
         by : Session \cup {None}, key : KeyOrNone, revoked : BOOLEAN]

(* What TypeOK says of Admin's tracker and Team's Browser.                                 *)
SignInsTyped ==
  /\ live \subseteq Session
  /\ starts \in [Start -> Sign]
  /\ count \in 0..MaxStarts /\ running \in 0..MaxStarts /\ browser \in 0..MaxStarts /\ displaced \subseteq Start

SignInsSafe == SignInsTyped /\ KnownIsTracked

LEMMA SignInsBegin == Init => KeysInv /\ SignInsSafe
<1> SUFFICES ASSUME Init PROVE KeysInv /\ SignInsSafe
  OBVIOUS
<1>1. Unused \in Sign /\ Unused.at = "unused"
  BY FirstKeys DEF Unused, Sign
<1>2. SignInsTyped
  BY <1>1, SignInsAssumption DEF Init, SignInsInit, SignInsTyped, None
<1>3. KnownIsTracked
  BY <1>1 DEF Init, SignInsInit, KnownIsTracked
<1> QED BY <1>2, <1>3, KeysBegin DEF Init, SignInsSafe

(* One start moves to t.  What Team's Browser runs changes only for it, or ends; what Admin *)
(* tracks is given up with it, or becomes it, and then whatever still ran is displaced.    *)
LEMMA StartMoved ==
  ASSUME SignInsSafe, NEW n \in Start, NEW t \in Sign, starts' = [starts EXCEPT ![n] = t],
         live' \subseteq Session, count' \in 0..MaxStarts,
         browser' = browser \/ browser' = None \/ browser' = n,
         \/ displaced' = displaced /\ running' \in {running, Finished(n)}
         \/ /\ running' = n /\ browser' = browser
            /\ displaced' = displaced \cup ({running} \cap {browser} \cap Start),
         t.at = "running" /\ browser' = n => running' = n
  PROVE  SignInsSafe'
<1>1. n \in 0..MaxStarts /\ None \in 0..MaxStarts /\ None \notin Start
  BY SignInsAssumption DEF Start, None
<1>2. starts' \in [Start -> Sign] /\ starts'[n] = t /\ \A m \in Start \ {n} : starts'[m] = starts[m]
  BY DEF SignInsSafe, SignInsTyped
<1>3. SignInsTyped'
  BY <1>1, <1>2 DEF SignInsSafe, SignInsTyped, Finished
<1>4. ASSUME NEW m \in Start \ {n}, starts[m].at = "running", browser' = m
      PROVE  running' = m \/ m \in displaced'
  <2>1. browser = m
    BY <1>1, <1>4
  <2>2. running = m \/ m \in displaced
    BY <1>4, <2>1 DEF SignInsSafe, KnownIsTracked
  <2>3. CASE displaced' = displaced /\ running' \in {running, Finished(n)}
    <3>1. running = m => Finished(n) = m
      BY <1>4 DEF Finished
    <3> QED BY <2>2, <2>3, <3>1
  <2>4. CASE displaced' = displaced \cup ({running} \cap {browser} \cap Start)
    BY <1>4, <2>1, <2>2, <2>4
  <2> QED BY <2>3, <2>4
<1>5. KnownIsTracked'
  BY <1>2, <1>4 DEF KnownIsTracked
<1> QED BY <1>3, <1>5 DEF SignInsSafe

(* A start of Admin's, and the one it is when Admin is done with it.                       *)
LEMMA Starting ==
  ASSUME SignInsSafe, NEW n \in Start
  PROVE  /\ starts[n] \in Sign
         /\ Cancelling(n) \in Sign /\ Cancelling(n).at = "cancelling"
         /\ \A at \in {"over", "untracked"} : Past(at) \in Sign /\ Past(at).at = at
<1>1. starts[n] \in Sign
  BY DEF SignInsSafe, SignInsTyped
<1> QED BY <1>1, FirstKeys DEF Past, Cancelling, Unused, Sign

LEMMA AdmitKeeps == ASSUME KeysInv, SignInsSafe, NEW s \in Session, Admit(s) PROVE SignInsSafe'
<1> DEFINE t == [at |-> "admitted", by |-> s, key |-> record.current, revoked |-> FALSE]
<1>1. count + 1 \in Start /\ count + 1 \in 0..MaxStarts
  BY SignInsAssumption DEF Admit, SignInsSafe, SignInsTyped, Start
<1>2. t \in Sign /\ t.at = "admitted"
  BY FirstKeys DEF KeysInv, KeysTypeOK, Sign
<1>3. starts' = [starts EXCEPT ![count + 1] = t] /\ count' = count + 1 /\ UNCHANGED <<live, running, browser, displaced>>
  BY DEF Admit, Move
<1> HIDE DEF t
<1> QED BY <1>1, <1>2, <1>3, StartMoved DEF SignInsSafe, SignInsTyped

LEMMA TrackKeeps == ASSUME SignInsSafe, NEW n \in Start, Track(n) PROVE SignInsSafe'
<1> DEFINE t == [starts[n] EXCEPT !.at = "starting"]
<1>1. t \in Sign /\ t.at = "starting"
  BY Starting DEF Sign
<1>2. starts' = [starts EXCEPT ![n] = t] /\ UNCHANGED <<live, count, running, browser, displaced>>
  BY DEF Track, Move
<1> HIDE DEF t
<1> QED BY <1>1, <1>2, StartMoved DEF SignInsSafe, SignInsTyped

LEMMA TeamStartsKeeps == ASSUME SignInsSafe, NEW n \in Start, TeamStarts(n) PROVE SignInsSafe'
<1> DEFINE t == [starts[n] EXCEPT !.at = "started", !.key = NoKey]
<1>1. t \in Sign /\ t.at = "started"
  BY Starting, FirstKeys DEF Sign
<1>2. starts' = [starts EXCEPT ![n] = t] /\ browser' = n /\ UNCHANGED <<live, count, running, displaced>>
  BY DEF TeamStarts, Move
<1> HIDE DEF t
<1> QED BY <1>1, <1>2, StartMoved DEF SignInsSafe, SignInsTyped

LEMMA StartedKeeps == ASSUME SignInsSafe, NEW n \in Start, Started(n) PROVE SignInsSafe'
<1>1. CASE starts[n].revoked
  <2>1. starts' = [starts EXCEPT ![n] = Cancelling(n)] /\ UNCHANGED <<live, count, running, browser, displaced>>
    BY <1>1 DEF Started, Move
  <2> QED BY <2>1, Starting, StartMoved DEF SignInsSafe, SignInsTyped
<1>2. CASE ~starts[n].revoked
  <2> DEFINE t == [starts[n] EXCEPT !.at = "running"]
  <2>1. t \in Sign
    BY Starting DEF Sign
  <2>2. /\ starts' = [starts EXCEPT ![n] = t] /\ running' = n /\ UNCHANGED <<live, count, browser>>
        /\ displaced' = displaced \cup ({running} \cap {browser} \cap Start)
    BY <1>2 DEF Started, Move
  <2> HIDE DEF t
  <2> QED BY <2>1, <2>2, StartMoved DEF SignInsSafe, SignInsTyped
<1> QED BY <1>1, <1>2

LEMMA NotStartedKeeps == ASSUME SignInsSafe, NEW n \in Start, NotStarted(n) PROVE SignInsSafe'
<1>1. starts' = [starts EXCEPT ![n] = Past("untracked")] /\ UNCHANGED <<live, count, running, browser, displaced>>
  BY DEF NotStarted, Move
<1> QED BY <1>1, Starting, StartMoved DEF SignInsSafe, SignInsTyped

LEMMA FinishKeeps == ASSUME SignInsSafe, NEW n \in Start, Finish(n) PROVE SignInsSafe'
<1> DEFINE t == [starts[n] EXCEPT !.at = "finished"]
<1>1. t \in Sign /\ t.at = "finished"
  BY Starting DEF Sign
<1>2. starts' = [starts EXCEPT ![n] = t] /\ (browser' = browser \/ browser' = None)
      /\ UNCHANGED <<live, count, running, displaced>>
  BY DEF Finish, Move, Ends
<1> HIDE DEF t
<1> QED BY <1>1, <1>2, StartMoved DEF SignInsSafe, SignInsTyped

LEMMA FinishAnsweredKeeps == ASSUME SignInsSafe, NEW n \in Start, FinishAnswered(n) PROVE SignInsSafe'
<1>1. starts' = [starts EXCEPT ![n] = Past("over")] /\ running' = Finished(n) /\ UNCHANGED <<live, count, browser, displaced>>
  BY DEF FinishAnswered, Move
<1> QED BY <1>1, Starting, StartMoved DEF SignInsSafe, SignInsTyped

LEMMA CancelEndedKeeps == ASSUME SignInsSafe, NEW n \in Start, CancelEnded(n) PROVE SignInsSafe'
<1>1. /\ starts' = [starts EXCEPT ![n] = Past("over")] /\ (browser' = browser \/ browser' = None)
      /\ UNCHANGED <<live, count, running, displaced>>
  BY DEF CancelEnded, Move, Ends
<1> QED BY <1>1, Starting, StartMoved DEF SignInsSafe, SignInsTyped

(* What Admin no longer tracks of a session that ended is being cancelled.                 *)
LEMMA RevokeKeeps ==
  ASSUME SignInsSafe, NEW ended, Revoke(ended), live' \subseteq Session, UNCHANGED <<count, browser, displaced>>
  PROVE  SignInsSafe'
<1>1. \A n \in Start : [starts[n] EXCEPT !.revoked = TRUE] \in Sign /\ Cancelling(n) \in Sign
  BY Starting DEF Sign
<1>2. starts' \in [Start -> Sign]
  BY <1>1 DEF Revoke, SignInsSafe, SignInsTyped
<1>3. running' \in {running, None} /\ None \in 0..MaxStarts
  BY SignInsAssumption DEF Revoke, None
<1>4. SignInsTyped'
  BY <1>2, <1>3 DEF SignInsSafe, SignInsTyped
<1>5. ASSUME NEW n \in Start, starts'[n].at = "running", browser = n
      PROVE  running' = n \/ n \in displaced
  <2>1. [starts[n] EXCEPT !.revoked = TRUE].at = starts[n].at /\ Cancelling(n).at = "cancelling"
    BY Starting DEF Sign
  <2>2. starts[n].at = "running" /\ ~(starts[n].by \in ended /\ n = running)
    BY <1>5, <2>1 DEF Revoke
  <2>3. running = n \/ n \in displaced
    BY <1>5, <2>2 DEF SignInsSafe, KnownIsTracked
  <2> QED BY <2>2, <2>3 DEF Revoke
<1>6. KnownIsTracked'
  BY <1>5 DEF KnownIsTracked
<1> QED BY <1>4, <1>6 DEF SignInsSafe

LEMMA RebornKeeps == ASSUME SignInsSafe, Reborn PROVE SignInsSafe'
<1>1. \A n \in Start : starts'[n].at \in {"unused", "untracked"} /\ starts'[n] \in Sign
  BY Starting, FirstKeys DEF Reborn, Unused, Sign
<1>2. SignInsTyped'
  <2>1. starts' \in [Start -> Sign]
    BY <1>1 DEF Reborn
  <2> QED BY <2>1, SignInsAssumption DEF Reborn, SignInsSafe, SignInsTyped, None
<1>3. KnownIsTracked'
  BY <1>1 DEF KnownIsTracked
<1> QED BY <1>2, <1>3 DEF SignInsSafe

LEMMA SignInsSteps == ASSUME KeysInv, SignInsSafe, [Next]_vars PROVE SignInsSafe'
<1>1. ASSUME UNCHANGED signVars
      PROVE  SignInsSafe'
  BY <1>1 DEF signVars, SignInsSafe, SignInsTyped, KnownIsTracked
<1>2. ASSUME NEW s \in Session, Admit(s) \/ SessionEnds(s) \/ SessionLapses(s)
      PROVE  SignInsSafe'
  <2>1. ASSUME SessionEnds(s)
        PROVE  SignInsSafe'
    BY <2>1, RevokeKeeps DEF SessionEnds, SignInsSafe, SignInsTyped
  <2>2. ASSUME SessionLapses(s)
        PROVE  SignInsSafe'
    BY <2>2 DEF SessionLapses, SignInsSafe, SignInsTyped, KnownIsTracked
  <2> QED BY <1>2, <2>1, <2>2, AdmitKeeps
<1>3. ASSUME NEW n \in Start, StartStep(n) \/ Finish(n)
      PROVE  SignInsSafe'
  BY <1>3, TrackKeeps, TeamStartsKeeps, StartedKeeps, NotStartedKeeps, FinishKeeps, FinishAnsweredKeeps, CancelEndedKeeps
     DEF StartStep
<1>4. ASSUME BrowserEnds
      PROVE  SignInsSafe'
  <2>1. None \in 0..MaxStarts /\ None \notin Start
    BY SignInsAssumption DEF None, Start
  <2> QED BY <1>4, <2>1 DEF BrowserEnds, SignInsSafe, SignInsTyped, KnownIsTracked
<1>5. ASSUME Sweep
      PROVE  SignInsSafe'
  BY <1>5, RevokeKeeps DEF Sweep, SignInsSafe, SignInsTyped
<1> QED BY <1>1, <1>2, <1>3, <1>4, <1>5, RebornKeeps DEF Next, vars

LEMMA KeysKept == ASSUME KeysInv, SignInsSafe, [Next]_vars PROVE KeysInv'
<1>1. ASSUME NEW s \in Session, Admit(s) \/ SessionEnds(s) \/ SessionLapses(s)
      PROVE  UNCHANGED keyVars
  BY <1>1 DEF Admit, SessionEnds, SessionLapses
<1>2. ASSUME NEW n \in Start, Track(n) \/ TeamStarts(n) \/ Started(n) \/ Finish(n) \/ FinishAnswered(n) \/ CancelEnded(n)
      PROVE  UNCHANGED keyVars
  BY <1>2 DEF Track, TeamStarts, Started, Finish, FinishAnswered, CancelEnded
<1>3. ASSUME NEW n \in Start, NotStarted(n)
      PROVE  KeysInv'
  <2>1. faults' \in 0..MaxFaults /\ UNCHANGED <<record, pin, file, made, held, task, woken, crashes>>
    BY <1>3, KeysAssumption DEF NotStarted, Fault, KeysInv, KeysTypeOK
  <2> QED BY <2>1 DEF KeysInv, KeysTypeOK, HoldsPinnedKey, KeysOrdered, HolderKnows, Knows
<1>4. ASSUME BrowserEnds \/ Sweep
      PROVE  UNCHANGED keyVars
  BY <1>4 DEF BrowserEnds, Sweep
<1>5. ASSUME UNCHANGED vars
      PROVE  UNCHANGED keyVars
  BY <1>5 DEF vars
<1> QED BY <1>1, <1>2, <1>3, <1>4, <1>5, KeysSteps, KeysStutter, RestartKeeps DEF Next, StartStep, Reborn

(* The types, the order of the keys, what the holder of the lock knows, and what Admin     *)
(* tracks hold together.                                                                   *)
THEOREM Invariant == Spec => [](KeysInv /\ SignInsSafe)
BY SignInsBegin, SignInsSteps, KeysKept, PTL DEF Spec

(* Whatever answers are lost, whatever the journal refuses and wherever the process ends,  *)
(* Admin holds the key Team pins, publishes none that may still be abandoned, and forgets  *)
(* no sign-in session whose start it heard of and whose end it did not, unless the answer  *)
(* about another, whose Browser had ended, was heard while it ran (start_under).           *)
THEOREM KeysAlwaysAgree == Spec => []KeysAgree
<1>1. KeysInv /\ SignInsSafe => KeysAgree
  <2>1. ASSUME KeysInv
        PROVE  PublishedLags
    BY <2>1 DEF KeysInv, KeysOrdered, KeysTypeOK, PublishedLags, Key, KeyOrNone, NoKey
  <2>2. ASSUME KeysInv, SignInsSafe
        PROVE  TypeOK
    BY <2>2 DEF KeysInv, SignInsSafe, SignInsTyped, TypeOK, Sign
  <2> QED BY <2>1, <2>2 DEF KeysInv, SignInsSafe, KeysAgree
<1> QED BY <1>1, Invariant, PTL
=============================================================================
