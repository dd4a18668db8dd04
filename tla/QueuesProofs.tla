---------------------------- MODULE QueuesProofs ----------------------------
(***************************************************************************)
(* What holds of the two bounded queues.  Of a worker lane, for any number *)
(* of jobs, workers and admissions: permits are held by the jobs on their  *)
(* way and by nobody else, and whoever waits for a job is told one end.    *)
(* Of a topic, for any number of tasks that change it, pages and sockets   *)
(* and any limit: a queue holds one notice of the topic and no more frames *)
(* than its limit and the one that closes it, and no page takes its value  *)
(* for newer than it is.                                                   *)
(***************************************************************************)
EXTENDS Queues, FiniteSetTheorems, SequenceTheorems, TLAPS

(* A queue of jobs, each in it once.                                       *)
Lined(w) == w \in Seq(Jobs) /\ \A i, k \in DOMAIN w : w[i] = w[k] => i = k

(* Who holds a worker: who runs or is about to, and who was given one and  *)
(* has not been polled since.                                              *)
Holds(j) == task[j] \in {"holding", "running", "ended"} \/ (task[j] = "queued" /\ j \notin ToSet(queue))

WorkersHeld ==
  /\ Lined(queue)
  /\ \A j \in ToSet(queue) : j \in Jobs /\ task[j] = "queued"
  /\ working = {j \in Jobs : Holds(j)}
  /\ queue # <<>> => ~ WorkerFree

AdmissionsHeld ==
  /\ admitted = {j \in Jobs : task[j] \notin {"new", "refused", "gone"}}
  /\ Cardinality(admitted) <= Outstanding

(* What the job's state says of its result: a job is told cancelled only   *)
(* when its state is, and runs only when it is not.                        *)
Told(j) ==
  /\ task[j] \in {"new", "refused", "spawned", "queued", "holding"} => state[j] # "running"
  /\ task[j] = "running" => state[j] = "running" /\ result[j] = "none"
  /\ state[j] = "pending" => result[j] = "none"
  /\ state[j] = "cancelled" => result[j] \in {"none", "cancelled"}
  /\ canceller[j] \in {"send", "notify"} => state[j] = "cancelled"

Typed ==
  /\ notified \subseteq Jobs
  /\ state \in [Jobs -> States] /\ task \in [Jobs -> TaskAt]
  /\ result \in [Jobs -> {"none"} \cup Ended] /\ canceller \in [Jobs -> CancellerAt]

LaneInv == Typed /\ WorkersHeld /\ AdmissionsHeld /\ \A j \in Jobs : Told(j)

-----------------------------------------------------------------------------
(* Queues.                                                                 *)

LEMMA InQueue ==
  ASSUME NEW w \in Seq(Jobs)
  PROVE  /\ DOMAIN w = 1..Len(w) /\ Len(w) \in Nat
         /\ ToSet(w) = {w[i] : i \in 1..Len(w)} /\ ToSet(w) \subseteq Jobs
         /\ ToSet(w) = {} <=> w = <<>>
<1>1. DOMAIN w = 1..Len(w) /\ Len(w) \in Nat
  BY LenProperties
<1>2. ToSet(w) = {w[i] : i \in 1..Len(w)} /\ ToSet(w) \subseteq Jobs
  BY <1>1, ElementOfSeq DEF ToSet
<1>3. w = <<>> => ToSet(w) = {}
  BY <1>2, EmptySeq
<1>4. w # <<>> => ToSet(w) # {}
  <2>1. w # <<>> => 1 \in 1..Len(w)
    BY EmptySeq, <1>1
  <2> QED BY <1>2, <2>1
<1> QED BY <1>1, <1>2, <1>3, <1>4

(* The queue v is the queue w without its place k.                         *)
Without(v, w, k) ==
  /\ v \in Seq(Jobs) /\ Len(v) = Len(w) - 1
  /\ \A i \in 1..Len(v) : v[i] = IF i < k THEN w[i] ELSE w[i + 1]

(* A queue without one of its places is still lined up.                    *)
LEMMA Shortened ==
  ASSUME NEW w, Lined(w), NEW v, NEW k \in 1..Len(w), Without(v, w, k)
  PROVE  Lined(v) /\ ToSet(v) = ToSet(w) \ {w[k]}
<1>0. /\ v \in Seq(Jobs) /\ Len(v) = Len(w) - 1
      /\ \A i \in 1..Len(v) : v[i] = IF i < k THEN w[i] ELSE w[i + 1]
  BY DEF Without
<1>1. /\ DOMAIN w = 1..Len(w) /\ Len(w) \in Nat /\ DOMAIN v = 1..Len(v) /\ Len(v) \in Nat
      /\ ToSet(w) = {w[i] : i \in 1..Len(w)} /\ ToSet(v) = {v[i] : i \in 1..Len(v)}
      /\ \A i, m \in 1..Len(w) : w[i] = w[m] => i = m
  BY <1>0, InQueue DEF Lined
<1> DEFINE at(i) == IF i < k THEN i ELSE i + 1
<1>2. \A i \in 1..Len(v) : at(i) \in 1..Len(w) /\ at(i) # k /\ v[i] = w[at(i)]
  BY <1>0, <1>1
<1>3. \A i, m \in 1..Len(v) : at(i) = at(m) => i = m
  BY <1>0, <1>1
<1>4. \A i \in 1..Len(w) : i # k => \E m \in 1..Len(v) : at(m) = i
  <2> SUFFICES ASSUME NEW i \in 1..Len(w), i # k
               PROVE  \E m \in 1..Len(v) : at(m) = i
    OBVIOUS
  <2>1. CASE i < k
    <3>1. i \in 1..Len(v) /\ at(i) = i
      BY <1>0, <1>1, <2>1
    <3> QED BY <3>1
  <2>2. CASE i > k
    <3>1. i - 1 \in 1..Len(v) /\ at(i - 1) = i
      BY <1>0, <1>1, <2>2
    <3> QED BY <3>1
  <2> QED BY <1>1, <2>1, <2>2
<1> HIDE DEF at
<1>5. Lined(v)
  BY <1>0, <1>1, <1>2, <1>3 DEF Lined
<1>6. ToSet(v) \subseteq ToSet(w) \ {w[k]}
  BY <1>1, <1>2
<1>7. ToSet(w) \ {w[k]} \subseteq ToSet(v)
  BY <1>1, <1>2, <1>4
<1> QED BY <1>5, <1>6, <1>7

LEMMA TailOfLine ==
  ASSUME NEW w, Lined(w), w # <<>>
  PROVE  /\ Head(w) \in ToSet(w) /\ Head(w) \in Jobs
         /\ Lined(Tail(w)) /\ ToSet(Tail(w)) = ToSet(w) \ {Head(w)}
<1>1. w \in Seq(Jobs)
  BY DEF Lined
<1>2. Len(w) \in Nat /\ Len(w) # 0 /\ ToSet(w) = {w[i] : i \in 1..Len(w)}
  BY <1>1, InQueue, EmptySeq
<1>3. /\ Head(w) \in Jobs /\ Tail(w) \in Seq(Jobs) /\ Head(w) = w[1]
      /\ Len(Tail(w)) = Len(w) - 1 /\ \A i \in 1..Len(Tail(w)) : Tail(w)[i] = w[i + 1]
  BY <1>1, HeadTailProperties
<1> DEFINE v == Tail(w)
<1>4. 1 \in 1..Len(w) /\ \A i \in 1..Len(v) : v[i] = IF i < 1 THEN w[i] ELSE w[i + 1]
  BY <1>2, <1>3
<1>5. v \in Seq(Jobs) /\ Len(v) = Len(w) - 1
  BY <1>3
<1> HIDE DEF v
<1>6. Lined(v) /\ ToSet(v) = ToSet(w) \ {w[1]}
  <2>1. PICK k \in 1..Len(w) : k = 1
    BY <1>4
  <2>2. \A i \in 1..Len(v) : v[i] = IF i < k THEN w[i] ELSE w[i + 1]
    BY <1>4, <2>1
  <2>3. v \in Seq(Jobs) /\ k \in 1..Len(w)
    BY <1>5
  <2>4. Len(v) = Len(w) - 1
    BY <1>5
  <2>5. Without(v, w, k)
    BY <2>2, <2>3, <2>4 DEF Without
  <2>6. Lined(v) /\ ToSet(v) = ToSet(w) \ {w[k]}
    BY ONLY <2>3, <2>5, Lined(w), Shortened
  <2> QED BY <2>1, <2>6
<1>7. Lined(Tail(w)) /\ ToSet(Tail(w)) = ToSet(w) \ {w[1]}
  BY <1>6 DEF v
<1> QED BY <1>2, <1>3, <1>4, <1>7

LEMMA RemovedFromLine ==
  ASSUME NEW w, Lined(w), NEW k \in DOMAIN w
  PROVE  Lined(RemoveAt(w, k)) /\ ToSet(RemoveAt(w, k)) = ToSet(w) \ {w[k]}
<1> DEFINE a == SubSeq(w, 1, k - 1)
           b == SubSeq(w, k + 1, Len(w))
           v == RemoveAt(w, k)
<1>1. w \in Seq(Jobs) /\ Len(w) \in Nat /\ k \in 1..Len(w) /\ \A i \in 1..Len(w) : w[i] \in Jobs
  BY InQueue, ElementOfSeq DEF Lined
<1>2. a \in Seq(Jobs) /\ Len(a) = k - 1 /\ \A i \in 1..k - 1 : a[i] = w[i]
  BY <1>1
<1>3. b \in Seq(Jobs) /\ Len(b) = Len(w) - k /\ \A i \in 1..Len(w) - k : b[i] = w[k + i]
  BY <1>1
<1> HIDE DEF a, b
<1>4. v = a \o b
  BY DEF RemoveAt, a, b
<1> HIDE DEF v
<1>5. /\ v \in Seq(Jobs) /\ Len(v) = Len(a) + Len(b)
      /\ \A i \in 1 .. Len(a) + Len(b) : v[i] = IF i <= Len(a) THEN a[i] ELSE b[i - Len(a)]
  BY ONLY <1>2, <1>3, <1>4, ConcatProperties
<1>6. Len(v) = Len(w) - 1
  BY <1>1, <1>2, <1>3, <1>5
<1>7. ASSUME NEW i \in 1..Len(v)
      PROVE  v[i] = IF i < k THEN w[i] ELSE w[i + 1]
  <2>1. v[i] = IF i <= k - 1 THEN a[i] ELSE b[i - (k - 1)]
    BY <1>2, <1>3, <1>5
  <2>2. CASE i < k
    <3>1. i <= k - 1 /\ i \in 1..k - 1
      BY <1>1, <2>2
    <3> QED BY <1>2, <2>1, <2>2, <3>1
  <2>3. CASE ~ (i < k)
    <3>1. ~ (i <= k - 1) /\ i - (k - 1) \in 1..Len(w) - k /\ k + (i - (k - 1)) = i + 1
      BY <1>1, <1>6, <2>3
    <3> QED BY <1>3, <2>1, <2>3, <3>1
  <2> QED BY <2>2, <2>3
<1>8. Lined(v) /\ ToSet(v) = ToSet(w) \ {w[k]}
  <2>1. \A i \in 1..Len(v) : v[i] = IF i < k THEN w[i] ELSE w[i + 1]
    BY <1>7
  <2>2. v \in Seq(Jobs) /\ k \in 1..Len(w)
    BY <1>1, <1>5
  <2>3. Without(v, w, k)
    BY <2>1, <2>2, <1>6 DEF Without
  <2> QED BY ONLY <2>2, <2>3, Lined(w), Shortened
<1> QED BY <1>8 DEF v

LEMMA AppendedToLine ==
  ASSUME NEW w, Lined(w), NEW j \in Jobs \ ToSet(w)
  PROVE  Lined(Append(w, j)) /\ ToSet(Append(w, j)) = ToSet(w) \cup {j}
<1>1. /\ w \in Seq(Jobs) /\ DOMAIN w = 1..Len(w) /\ Len(w) \in Nat /\ ToSet(w) = {w[i] : i \in 1..Len(w)}
      /\ \A i, m \in 1..Len(w) : w[i] = w[m] => i = m
  BY InQueue DEF Lined
<1> DEFINE v == Append(w, j)
<1>2. /\ v \in Seq(Jobs) /\ Len(v) = Len(w) + 1 /\ v[Len(w) + 1] = j
      /\ \A i \in 1..Len(w) : v[i] = w[i]
  BY <1>1, AppendProperties
<1>3. DOMAIN v = 1..Len(v) /\ ToSet(v) = {v[i] : i \in 1..Len(v)}
  BY <1>2, InQueue
<1> HIDE DEF v
<1>4. \A i \in 1..Len(v) : i \in 1..Len(w) \/ i = Len(w) + 1
  BY <1>1, <1>2
<1>5. Lined(v)
  BY <1>1, <1>2, <1>3, <1>4 DEF Lined
<1>6. ToSet(v) = ToSet(w) \cup {j}
  <2>1. 1..Len(v) = 1..Len(w) \cup {Len(w) + 1}
    BY <1>1, <1>2
  <2> QED BY <1>1, <1>2, <1>3, <2>1
<1> QED BY <1>5, <1>6 DEF v

-----------------------------------------------------------------------------
(* The worker of j, which j gives up, goes to the first of the queue.      *)
LEMMA GivenBack ==
  ASSUME IsFiniteSet(Jobs), Typed, WorkersHeld, NEW j \in working, GiveBack(j), j \notin ToSet(queue)
  PROVE  /\ Lined(queue') /\ ToSet(queue') \subseteq ToSet(queue)
         /\ working' = (working \ {j}) \cup (ToSet(queue) \ ToSet(queue'))
         /\ queue' # <<>> => Cardinality(working') >= Workers
<1>1. CASE queue = <<>>
  BY <1>1 DEF GiveBack, WorkersHeld
<1>2. CASE queue # <<>>
  <2> DEFINE h == Head(queue)
  <2>1. working' = (working \ {j}) \cup {h} /\ queue' = Tail(queue)
    BY <1>2 DEF GiveBack
  <2>2. /\ h \in ToSet(queue) /\ h \in Jobs /\ Lined(queue') /\ ToSet(queue') = ToSet(queue) \ {h}
    BY <1>2, <2>1, TailOfLine DEF WorkersHeld
  <2>3. h \notin working
    BY <2>2 DEF WorkersHeld, Holds
  <2> HIDE DEF h
  <2>4. IsFiniteSet(working) /\ Cardinality(working) \in Nat
    <3>1. working \subseteq Jobs
      BY DEF WorkersHeld
    <3> QED BY <3>1, FS_Subset, FS_CardinalityType
  <2>5. Cardinality(working') = Cardinality(working)
    <3>1. IsFiniteSet(working \ {j}) /\ Cardinality(working \ {j}) = Cardinality(working) - 1
      BY <2>4, FS_RemoveElement
    <3>2. Cardinality((working \ {j}) \cup {h}) = Cardinality(working \ {j}) + 1
      BY <2>3, <3>1, FS_AddElement
    <3> QED BY <2>1, <2>4, <3>1, <3>2
  <2>6. Cardinality(working) >= Workers
    BY <1>2, <2>4, LaneAssumption DEF WorkersHeld, WorkerFree
  <2> QED BY <2>1, <2>2, <2>5, <2>6
<1> QED BY <1>1, <1>2

(* A task moves from one place to another, and its admission with it.      *)
LEMMA AdmissionsKept ==
  ASSUME Typed, AdmissionsHeld, NEW j \in Jobs, NEW place \in TaskAt, TaskGoes(j, place),
         \/ UNCHANGED admitted
            /\ (task[j] \in {"new", "refused", "gone"} <=> place \in {"new", "refused", "gone"})
         \/ /\ admitted' = admitted \cup {j} /\ Cardinality(admitted) < Outstanding
            /\ place \notin {"new", "refused", "gone"}
         \/ admitted' = admitted \ {j} /\ place \in {"new", "refused", "gone"}
  PROVE  AdmissionsHeld'
<1>1. task' \in [Jobs -> TaskAt] /\ task'[j] = place /\ \A k \in Jobs \ {j} : task'[k] = task[k]
  BY DEF Typed, TaskGoes
<1>2. admitted' = {k \in Jobs : task'[k] \notin {"new", "refused", "gone"}}
  BY <1>1 DEF AdmissionsHeld
<1>3. IsFiniteSet(admitted) /\ Cardinality(admitted) \in Nat
  <2>1. admitted \subseteq Jobs
    BY DEF AdmissionsHeld
  <2> QED BY <2>1, LaneAssumption, FS_Subset, FS_CardinalityType
<1>4. Cardinality(admitted \cup {j}) \in {Cardinality(admitted), Cardinality(admitted) + 1}
  BY <1>3, FS_AddElement
<1>5. Cardinality(admitted \ {j}) \in {Cardinality(admitted), Cardinality(admitted) - 1}
  BY <1>3, FS_RemoveElement
<1>6. Cardinality(admitted) <= Outstanding /\ Outstanding \in Nat
  BY LaneAssumption DEF AdmissionsHeld
<1>7. Cardinality(admitted') <= Outstanding
  <2>1. CASE admitted' = admitted
    BY <1>6, <2>1
  <2>2. CASE admitted' = admitted \cup {j} /\ Cardinality(admitted) < Outstanding
    BY <1>3, <1>4, <1>6, <2>2
  <2>3. CASE admitted' = admitted \ {j}
    BY <1>3, <1>5, <1>6, <2>3
  <2> QED BY <2>1, <2>2, <2>3
<1> QED BY <1>2, <1>7 DEF AdmissionsHeld

(* The same of workers, when neither the queue nor who works changes: the  *)
(* place it moves to holds a worker when the one it leaves does.           *)
LEMMA WorkersKept ==
  ASSUME Typed, WorkersHeld, NEW j \in Jobs, NEW place \in TaskAt, TaskGoes(j, place),
         UNCHANGED <<queue, working>>, j \notin ToSet(queue), place # "queued",
         j \in working <=> place \in {"holding", "running", "ended"}
  PROVE  WorkersHeld'
<1>1. task'[j] = place /\ \A k \in Jobs \ {j} : task'[k] = task[k]
  BY DEF Typed, TaskGoes
<1>2. \A k \in ToSet(queue') : k \in Jobs /\ task'[k] = "queued"
  BY <1>1 DEF WorkersHeld
<1>3. working' = {k \in Jobs : Holds(k)'}
  BY <1>1 DEF WorkersHeld, Holds
<1> QED BY <1>2, <1>3 DEF WorkersHeld, WorkerFree

(* A task that gives a worker up, from its end or from its wait.           *)
LEMMA WorkerLeft ==
  ASSUME Typed, WorkersHeld, NEW j \in working, TaskGoes(j, "leaving"), GiveBack(j)
  PROVE  WorkersHeld'
<1>1. j \in Jobs /\ Holds(j)
  BY DEF WorkersHeld
<1>2. j \notin ToSet(queue)
  BY <1>1 DEF Holds, WorkersHeld
<1>3. /\ Lined(queue') /\ ToSet(queue') \subseteq ToSet(queue)
      /\ working' = (working \ {j}) \cup (ToSet(queue) \ ToSet(queue'))
      /\ queue' # <<>> => Cardinality(working') >= Workers
  BY <1>2, GivenBack, LaneAssumption
<1>4. task'[j] = "leaving" /\ \A k \in Jobs \ {j} : task'[k] = task[k]
  BY <1>1 DEF Typed, TaskGoes
<1>5. \A k \in ToSet(queue') : k \in Jobs /\ task'[k] = "queued"
  BY <1>2, <1>3, <1>4 DEF WorkersHeld
<1>6. ASSUME NEW k \in Jobs
      PROVE  k \in working' <=> Holds(k)'
  BY <1>2, <1>3, <1>4 DEF WorkersHeld, Holds
<1>7. working' \subseteq Jobs
  BY <1>3 DEF WorkersHeld
<1>8. queue' # <<>> => ~ WorkerFree'
  <2>1. IsFiniteSet(working') /\ Cardinality(working') \in Nat
    BY <1>7, LaneAssumption, FS_Subset, FS_CardinalityType
  <2> QED BY <1>3, <2>1, LaneAssumption DEF WorkerFree
<1> QED BY <1>3, <1>5, <1>6, <1>7, <1>8 DEF WorkersHeld

-----------------------------------------------------------------------------
(* What a step of the task, or of the cancellation, of j leaves of Told:   *)
(* the other jobs are as they were.                                        *)
LEMMA ToldElsewhere ==
  ASSUME Typed, Typed', \A k \in Jobs : Told(k), NEW j \in Jobs, Told(j)',
         \A k \in Jobs \ {j} : /\ task'[k] = task[k] /\ state'[k] = state[k]
                               /\ result'[k] = result[k] /\ canceller'[k] = canceller[k]
  PROVE  \A k \in Jobs : Told(k)'
BY DEF Told

(* A task moves and nothing else that Told speaks of.                      *)
LEMMA ToldMoves ==
  ASSUME Typed, \A k \in Jobs : Told(k), NEW j \in Jobs, NEW place \in TaskAt, TaskGoes(j, place),
         UNCHANGED <<state, result, canceller>>, notified' \subseteq Jobs,
         place # "running",
         place \in {"new", "refused", "spawned", "queued", "holding"}
           => task[j] \in {"new", "refused", "spawned", "queued", "holding"}
  PROVE  Typed' /\ \A k \in Jobs : Told(k)'
<1>1. task' \in [Jobs -> TaskAt] /\ task'[j] = place /\ \A k \in Jobs \ {j} : task'[k] = task[k]
  BY DEF Typed, TaskGoes
<1>2. Typed'
  BY <1>1 DEF Typed
<1>3. Told(j)'
  BY <1>1 DEF Told
<1> QED BY <1>1, <1>2, <1>3, ToldElsewhere

LEMMA SubmitKeeps == ASSUME LaneInv, NEW j \in Jobs, Submit(j) \/ Saturated(j) PROVE LaneInv'
<1>1. j \notin ToSet(queue) /\ j \notin working
  BY DEF LaneInv, WorkersHeld, Holds, Submit, Saturated
<1>2. PICK place \in {"spawned", "refused"} :
        /\ TaskGoes(j, place) /\ UNCHANGED <<queue, working, state, notified, result, canceller>>
        /\ task[j] = "new"
        /\ \/ place = "spawned" /\ admitted' = admitted \cup {j} /\ Cardinality(admitted) < Outstanding
           \/ place = "refused" /\ UNCHANGED admitted
  BY DEF Submit, Saturated
<1>3. place \in TaskAt
  BY <1>2 DEF TaskAt
<1>4. AdmissionsHeld'
  BY <1>2, <1>3, AdmissionsKept DEF LaneInv
<1>5. WorkersHeld'
  BY <1>1, <1>2, <1>3, WorkersKept DEF LaneInv
<1>6. Typed' /\ \A k \in Jobs : Told(k)'
  BY <1>2, <1>3, ToldMoves DEF LaneInv, Typed
<1> QED BY <1>4, <1>5, <1>6 DEF LaneInv

LEMMA TakeWorkerKeeps == ASSUME LaneInv, NEW j \in Jobs, TakeWorker(j) PROVE LaneInv'
<1>1. /\ task[j] = "spawned" /\ WorkerFree /\ working' = working \cup {j} /\ TaskGoes(j, "holding")
      /\ UNCHANGED <<admitted, queue, state, notified, result, canceller>>
  BY DEF TakeWorker
<1>2. "holding" \in TaskAt
  BY DEF TaskAt
<1>3. task'[j] = "holding" /\ \A k \in Jobs \ {j} : task'[k] = task[k]
  BY <1>1 DEF LaneInv, Typed, TaskGoes
<1>4. queue = <<>>
  BY <1>1 DEF LaneInv, WorkersHeld
<1>5. WorkersHeld'
  <2>1. \A k \in ToSet(queue') : k \in Jobs /\ task'[k] = "queued"
    BY <1>1, <1>3 DEF LaneInv, WorkersHeld
  <2>2. \A k \in Jobs : k \in working' <=> Holds(k)'
    BY <1>1, <1>3 DEF LaneInv, WorkersHeld, Holds
  <2>3. working' \subseteq Jobs
    BY <1>1 DEF LaneInv, WorkersHeld
  <2> QED BY <1>1, <1>4, <2>1, <2>2, <2>3 DEF LaneInv, WorkersHeld
<1>6. AdmissionsHeld'
  BY <1>1, <1>2, AdmissionsKept DEF LaneInv
<1>7. Typed' /\ \A k \in Jobs : Told(k)'
  BY <1>1, <1>2, ToldMoves DEF LaneInv, Typed
<1> QED BY <1>5, <1>6, <1>7 DEF LaneInv

LEMMA QueueForWorkerKeeps == ASSUME LaneInv, NEW j \in Jobs, QueueForWorker(j) PROVE LaneInv'
<1>1. /\ task[j] = "spawned" /\ ~ WorkerFree /\ queue' = Append(queue, j) /\ TaskGoes(j, "queued")
      /\ UNCHANGED <<admitted, working, state, notified, result, canceller>>
  BY DEF QueueForWorker
<1>2. "queued" \in TaskAt
  BY DEF TaskAt
<1>3. task'[j] = "queued" /\ \A k \in Jobs \ {j} : task'[k] = task[k]
  BY <1>1 DEF LaneInv, Typed, TaskGoes
<1>4. j \notin ToSet(queue) /\ j \notin working
  BY <1>1 DEF LaneInv, WorkersHeld, Holds
<1>5. Lined(queue') /\ ToSet(queue') = ToSet(queue) \cup {j}
  BY <1>1, <1>4, AppendedToLine DEF LaneInv, WorkersHeld
<1>6. WorkersHeld'
  <2>1. \A k \in ToSet(queue') : k \in Jobs /\ task'[k] = "queued"
    BY <1>3, <1>5 DEF LaneInv, WorkersHeld
  <2>2. \A k \in Jobs : k \in working' <=> Holds(k)'
    BY <1>1, <1>3, <1>4, <1>5 DEF LaneInv, WorkersHeld, Holds
  <2>3. working' \subseteq Jobs /\ ~ WorkerFree'
    BY <1>1 DEF LaneInv, WorkersHeld, WorkerFree
  <2> QED BY <1>5, <2>1, <2>2, <2>3 DEF WorkersHeld
<1>7. AdmissionsHeld'
  BY <1>1, <1>2, AdmissionsKept DEF LaneInv
<1>8. Typed' /\ \A k \in Jobs : Told(k)'
  BY <1>1, <1>2, ToldMoves DEF LaneInv, Typed
<1> QED BY <1>6, <1>7, <1>8 DEF LaneInv

LEMMA WorkerGivenKeeps == ASSUME LaneInv, NEW j \in Jobs, WorkerGiven(j) PROVE LaneInv'
<1>1. /\ task[j] = "queued" /\ j \in working /\ TaskGoes(j, "holding") /\ "holding" \in TaskAt
      /\ UNCHANGED <<admitted, queue, working, state, notified, result, canceller>>
  BY DEF WorkerGiven, TaskAt
<1>2. j \notin ToSet(queue)
  BY <1>1 DEF LaneInv, WorkersHeld, Holds
<1>3. WorkersHeld'
  BY <1>1, <1>2, WorkersKept DEF LaneInv
<1>4. AdmissionsHeld'
  BY <1>1, AdmissionsKept DEF LaneInv
<1>5. Typed' /\ \A k \in Jobs : Told(k)'
  BY <1>1, ToldMoves DEF LaneInv, Typed
<1> QED BY <1>3, <1>4, <1>5 DEF LaneInv

LEMMA NotifiedKeeps == ASSUME LaneInv, NEW j \in Jobs, Notified(j) PROVE LaneInv'
<1>1. /\ task[j] \in {"spawned", "queued"} /\ notified' = notified \ {j} /\ TaskGoes(j, "leaving")
      /\ "leaving" \in TaskAt /\ LeaveQueue(j) /\ UNCHANGED <<admitted, state, result, canceller>>
  BY DEF Notified, TaskAt
<1>2. task'[j] = "leaving" /\ \A k \in Jobs \ {j} : task'[k] = task[k]
  BY <1>1 DEF LaneInv, Typed, TaskGoes
<1>3. WorkersHeld'
  <2>1. CASE j \in working
    BY <1>1, <2>1, WorkerLeft DEF LaneInv, LeaveQueue
  <2>2. CASE j \notin working /\ j \in ToSet(queue)
    <3>1. PICK i \in DOMAIN queue : queue[i] = j /\ queue' = RemoveAt(queue, i) /\ working' = working
      BY <1>1, <2>2 DEF LeaveQueue
    <3>2. Lined(queue') /\ ToSet(queue') = ToSet(queue) \ {j}
      BY <3>1, RemovedFromLine DEF LaneInv, WorkersHeld
    <3>3. queue # <<>>
      BY <3>1, EmptySeq
    <3>4. \A k \in ToSet(queue') : k \in Jobs /\ task'[k] = "queued"
      BY <1>2, <3>2 DEF LaneInv, WorkersHeld
    <3>5. \A k \in Jobs : k \in working' <=> Holds(k)'
      BY <1>1, <1>2, <2>2, <3>1, <3>2 DEF LaneInv, WorkersHeld, Holds
    <3>6. working' \subseteq Jobs /\ ~ WorkerFree'
      BY <3>1, <3>3 DEF LaneInv, WorkersHeld, WorkerFree
    <3> QED BY <3>2, <3>4, <3>5, <3>6 DEF WorkersHeld
  <2>3. CASE j \notin working /\ j \notin ToSet(queue)
    <3>1. UNCHANGED <<queue, working>>
      BY <1>1, <2>3 DEF LeaveQueue
    <3> QED BY <1>1, <2>3, <3>1, WorkersKept DEF LaneInv
  <2> QED BY <2>1, <2>2, <2>3
<1>4. AdmissionsHeld'
  BY <1>1, AdmissionsKept DEF LaneInv
<1>5. Typed' /\ \A k \in Jobs : Told(k)'
  BY <1>1, ToldMoves DEF LaneInv, Typed
<1> QED BY <1>3, <1>4, <1>5 DEF LaneInv

LEMMA StartKeeps == ASSUME LaneInv, NEW j \in Jobs, Start(j) PROVE LaneInv'
<1>1. /\ task[j] = "holding" /\ UNCHANGED <<admitted, queue, working, notified, canceller>>
      /\ j \in working /\ j \notin ToSet(queue)
  BY DEF Start, LaneInv, WorkersHeld, Holds
<1>2. CASE /\ state[j] = "pending" /\ state' = [state EXCEPT ![j] = "running"]
           /\ TaskGoes(j, "running") /\ UNCHANGED result
  <2>1. "running" \in TaskAt /\ "running" \in States
    BY DEF TaskAt, States
  <2>2. Typed' /\ Told(j)'
    BY <1>1, <1>2, <2>1 DEF LaneInv, Typed, Told, TaskGoes
  <2>3. \A k \in Jobs : Told(k)'
    BY <1>1, <1>2, <2>2, ToldElsewhere DEF LaneInv, Typed, TaskGoes
  <2> QED BY <1>1, <1>2, <2>1, <2>2, <2>3, WorkersKept, AdmissionsKept DEF LaneInv
<1>3. CASE /\ state[j] # "pending" /\ result' = [result EXCEPT ![j] = "cancelled"]
           /\ TaskGoes(j, "ended") /\ UNCHANGED state
  <2>1. "ended" \in TaskAt /\ "cancelled" \in Ended /\ state[j] = "cancelled"
    BY <1>1, <1>3 DEF TaskAt, Ended, LaneInv, Typed, Told, States
  <2>2. Typed' /\ Told(j)'
    BY <1>1, <1>3, <2>1 DEF LaneInv, Typed, Told, TaskGoes
  <2>3. \A k \in Jobs : Told(k)'
    BY <1>1, <1>3, <2>2, ToldElsewhere DEF LaneInv, Typed, TaskGoes
  <2> QED BY <1>1, <1>3, <2>1, <2>2, <2>3, WorkersKept, AdmissionsKept DEF LaneInv
<1> QED BY <1>2, <1>3 DEF Start

LEMMA EndKeeps == ASSUME LaneInv, NEW j \in Jobs, NEW how \in {"done", "panicked"}, End(j, how) PROVE LaneInv'
<1>1. /\ task[j] = "running" /\ result' = [result EXCEPT ![j] = how] /\ TaskGoes(j, "ended")
      /\ UNCHANGED <<admitted, queue, working, state, notified, canceller>>
      /\ j \in working /\ j \notin ToSet(queue) /\ "ended" \in TaskAt /\ how \in Ended
  BY DEF End, LaneInv, WorkersHeld, Holds, TaskAt, Ended
<1>2. Typed' /\ Told(j)'
  BY <1>1 DEF LaneInv, Typed, Told, TaskGoes
<1>3. \A k \in Jobs : Told(k)'
  BY <1>1, <1>2, ToldElsewhere DEF LaneInv, Typed, TaskGoes
<1> QED BY <1>1, <1>2, <1>3, WorkersKept, AdmissionsKept DEF LaneInv

LEMMA DropWorkerKeeps == ASSUME LaneInv, NEW j \in Jobs, DropWorker(j) PROVE LaneInv'
<1>1. /\ task[j] = "ended" /\ GiveBack(j) /\ TaskGoes(j, "leaving") /\ "leaving" \in TaskAt
      /\ UNCHANGED <<admitted, state, notified, result, canceller>> /\ j \in working
  BY DEF DropWorker, TaskAt, LaneInv, WorkersHeld, Holds
<1>2. WorkersHeld'
  BY <1>1, WorkerLeft DEF LaneInv
<1>3. AdmissionsHeld'
  BY <1>1, AdmissionsKept DEF LaneInv
<1>4. Typed' /\ \A k \in Jobs : Told(k)'
  BY <1>1, ToldMoves DEF LaneInv, Typed
<1> QED BY <1>2, <1>3, <1>4 DEF LaneInv

LEMMA DropAdmissionKeeps == ASSUME LaneInv, NEW j \in Jobs, DropAdmission(j) PROVE LaneInv'
<1>1. /\ task[j] = "leaving" /\ admitted' = admitted \ {j} /\ TaskGoes(j, "gone") /\ "gone" \in TaskAt
      /\ UNCHANGED <<queue, working, state, notified, result, canceller>>
      /\ j \notin working /\ j \notin ToSet(queue)
  BY DEF DropAdmission, TaskAt, LaneInv, WorkersHeld, Holds
<1>2. WorkersHeld'
  BY <1>1, WorkersKept DEF LaneInv
<1>3. AdmissionsHeld'
  BY <1>1, AdmissionsKept DEF LaneInv
<1>4. Typed' /\ \A k \in Jobs : Told(k)'
  BY <1>1, ToldMoves DEF LaneInv, Typed
<1> QED BY <1>2, <1>3, <1>4 DEF LaneInv

(* A cancellation touches no permit.                                       *)
LEMMA CancelKeeps ==
  ASSUME LaneInv, NEW j \in Jobs, Cancel(j) \/ CancelSends(j) \/ CancelNotifies(j)
  PROVE  LaneInv'
<1>1. UNCHANGED <<admitted, queue, working, task>>
  BY DEF Cancel, CancelSends, CancelNotifies
<1>2. WorkersHeld' /\ AdmissionsHeld'
  BY <1>1 DEF LaneInv, WorkersHeld, AdmissionsHeld, Holds, WorkerFree
<1>3. Typed' /\ Told(j)'
  <2>1. CASE Cancel(j)
    BY <1>1, <2>1 DEF Cancel, CancellerGoes, LaneInv, Typed, Told, States, CancellerAt
  <2>2. CASE CancelSends(j)
    BY <1>1, <2>2 DEF CancelSends, CancellerGoes, LaneInv, Typed, Told, CancellerAt, Ended
  <2>3. CASE CancelNotifies(j)
    BY <1>1, <2>3 DEF CancelNotifies, CancellerGoes, LaneInv, Typed, Told, CancellerAt
  <2> QED BY <2>1, <2>2, <2>3
<1>4. \A k \in Jobs \ {j} : /\ task'[k] = task[k] /\ state'[k] = state[k]
                            /\ result'[k] = result[k] /\ canceller'[k] = canceller[k]
  BY <1>1 DEF Cancel, CancelSends, CancelNotifies, CancellerGoes, LaneInv, Typed
<1> QED BY <1>2, <1>3, <1>4, ToldElsewhere DEF LaneInv

LEMMA Begins == Init => LaneInv
<1> SUFFICES ASSUME Init PROVE LaneInv
  OBVIOUS
<1>1. Typed
  BY DEF Init, Typed, States, TaskAt, Ended, CancellerAt
<1>2. WorkersHeld
  <2>1. Lined(<<>>) /\ ToSet(<<>>) = {}
    BY EmptySeq, InQueue DEF Lined
  <2> QED BY <2>1 DEF Init, WorkersHeld, Holds
<1>3. AdmissionsHeld
  BY FS_EmptySet, LaneAssumption DEF Init, AdmissionsHeld
<1>4. \A j \in Jobs : Told(j)
  BY DEF Init, Told
<1> QED BY <1>1, <1>2, <1>3, <1>4 DEF LaneInv

LEMMA Steps == ASSUME LaneInv, [Next]_vars PROVE LaneInv'
<1>1. CASE UNCHANGED vars
  BY <1>1 DEF vars, LaneInv, Typed, WorkersHeld, AdmissionsHeld, Told, Holds, WorkerFree
<1>2. ASSUME NEW j \in Jobs, Poll(j)
      PROVE  LaneInv'
  BY <1>2, TakeWorkerKeeps, QueueForWorkerKeeps, WorkerGivenKeeps, NotifiedKeeps, StartKeeps,
     DropWorkerKeeps, DropAdmissionKeeps DEF Poll
<1> QED BY <1>1, <1>2, SubmitKeeps, EndKeeps, CancelKeeps DEF Next

(* Every state of a lane.                                                  *)
THEOREM Invariant == Spec => []LaneInv
BY Begins, Steps, PTL DEF Spec

LEMMA LaneCounted == ASSUME LaneInv PROVE PermitsHeld
<1>1. TypeOK
  BY DEF LaneInv, Typed, AdmissionsHeld, WorkersHeld, Lined, TypeOK
<1>2. working = {j \in Jobs : \/ task[j] \in {"holding", "running", "ended"}
                              \/ task[j] = "queued" /\ j \notin ToSet(queue)}
  BY DEF LaneInv, WorkersHeld, Holds
<1> QED BY <1>1, <1>2 DEF LaneInv, WorkersHeld, AdmissionsHeld, PermitsHeld

(* However jobs end, panic, are cancelled and queue: a worker or an        *)
(* admission is held by a job on its way, and a job queues only while      *)
(* every worker is held.                                                   *)
THEOREM PermitsAlwaysHeld == Spec => []PermitsHeld
BY LaneCounted, Invariant, PTL

(* Whoever waits for a job is told one end.                                *)
THEOREM ToldOneEnd == Spec => OneEnd
<1>1. ASSUME LaneInv, [Next]_vars, NEW j \in Jobs, result[j] # "none"
      PROVE  result'[j] = result[j]
  <2>1. \A k \in Jobs : Told(k)
    BY <1>1 DEF LaneInv
  <2>2. ASSUME NEW k \in Jobs, Start(k)
        PROVE  result'[j] = result[j]
    BY <1>1, <2>1, <2>2 DEF Start, Told, LaneInv, Typed, States
  <2>3. ASSUME NEW k \in Jobs, NEW how, End(k, how)
        PROVE  result'[j] = result[j]
    BY <1>1, <2>1, <2>3 DEF End, Told, LaneInv, Typed
  <2>4. ASSUME NEW k \in Jobs, CancelSends(k)
        PROVE  result'[j] = result[j]
    BY <1>1, <2>1, <2>4 DEF CancelSends, Told, LaneInv, Typed
  <2>5. ASSUME UNCHANGED vars \/ \E k \in Jobs :
                 \/ Submit(k) \/ Saturated(k) \/ TakeWorker(k) \/ QueueForWorker(k) \/ WorkerGiven(k)
                 \/ Notified(k) \/ DropWorker(k) \/ DropAdmission(k) \/ Cancel(k) \/ CancelNotifies(k)
        PROVE  result' = result
    BY <2>5 DEF vars, Submit, Saturated, TakeWorker, QueueForWorker, WorkerGiven, Notified, DropWorker,
       DropAdmission, Cancel, CancelNotifies
  <2> QED BY <1>1, <2>2, <2>3, <2>4, <2>5 DEF Next, Poll
<1>2. LaneInv /\ [Next]_vars => [\A j \in Jobs : result[j] # "none" => result'[j] = result[j]]_vars
  BY <1>1
<1> QED BY <1>2, Invariant, PTL DEF Spec, OneEnd

-----------------------------------------------------------------------------
(* No more workers are held than there are.                                *)
WithinWorkers == Cardinality(working) <= Workers
CountInv == LaneInv /\ WithinWorkers

Working == working \subseteq Jobs /\ IsFiniteSet(working) /\ Cardinality(working) \in Nat

LEMMA WorkingCounted == ASSUME LaneInv PROVE Working
BY LaneAssumption, FS_Subset, FS_CardinalityType DEF Working, LaneInv, WorkersHeld

(* A worker given back is free, or the one job's that waited longest.      *)
LEMMA GivenBackCounts ==
  ASSUME CountInv, NEW j \in working, GiveBack(j)
  PROVE  WithinWorkers'
<1>1. Working /\ WithinWorkers /\ Workers \in Nat
  BY WorkingCounted, LaneAssumption DEF CountInv
<1>2. /\ IsFiniteSet(working \ {j}) /\ Cardinality(working \ {j}) = Cardinality(working) - 1
  BY <1>1, FS_RemoveElement DEF Working
<1>3. CASE working' = working \ {j}
  BY <1>1, <1>2, <1>3 DEF WithinWorkers, Working
<1>4. CASE working' = (working \ {j}) \cup {Head(queue)}
  <2>1. /\ IsFiniteSet((working \ {j}) \cup {Head(queue)})
        /\ Cardinality((working \ {j}) \cup {Head(queue)})
             = IF Head(queue) \in working \ {j} THEN Cardinality(working \ {j})
               ELSE Cardinality(working \ {j}) + 1
    BY <1>2, FS_AddElement
  <2> QED BY <1>1, <1>2, <1>4, <2>1 DEF WithinWorkers, Working
<1> QED BY <1>3, <1>4 DEF GiveBack

LEMMA CountSteps == ASSUME CountInv, [Next]_vars PROVE CountInv'
<1>1. LaneInv' /\ Working /\ WithinWorkers /\ Workers \in Nat
  BY Steps, WorkingCounted, LaneAssumption DEF CountInv
<1>2. ASSUME working' = working
      PROVE  WithinWorkers'
  BY <1>1, <1>2 DEF WithinWorkers
<1>3. ASSUME NEW j \in Jobs, TakeWorker(j)
      PROVE  WithinWorkers'
  <2>1. working' = working \cup {j} /\ Cardinality(working) < Workers
    BY <1>3 DEF TakeWorker, WorkerFree
  <2>2. Cardinality(working \cup {j}) = IF j \in working THEN Cardinality(working)
                                                          ELSE Cardinality(working) + 1
    BY <1>1, FS_AddElement DEF Working
  <2> QED BY <1>1, <2>1, <2>2 DEF WithinWorkers, Working
<1>4. ASSUME NEW j \in Jobs, DropWorker(j)
      PROVE  WithinWorkers'
  <2>1. j \in working /\ GiveBack(j)
    BY <1>4 DEF DropWorker, CountInv, LaneInv, WorkersHeld, Holds
  <2> QED BY <2>1, GivenBackCounts
<1>5. ASSUME NEW j \in Jobs, Notified(j)
      PROVE  WithinWorkers'
  <2>1. CASE j \in working
    BY <1>5, <2>1, GivenBackCounts DEF Notified, LeaveQueue
  <2>2. CASE j \notin working
    BY <1>2, <1>5, <2>2 DEF Notified, LeaveQueue
  <2> QED BY <2>1, <2>2
<1>6. ASSUME UNCHANGED vars \/ \E j \in Jobs :
               \/ Submit(j) \/ Saturated(j) \/ QueueForWorker(j) \/ WorkerGiven(j) \/ Start(j)
               \/ \E how \in {"done", "panicked"} : End(j, how)
               \/ DropAdmission(j) \/ Cancel(j) \/ CancelSends(j) \/ CancelNotifies(j)
      PROVE  WithinWorkers'
  <2>1. working' = working
    BY <1>6 DEF vars, Submit, Saturated, QueueForWorker, WorkerGiven, Start, End, DropAdmission, Cancel,
       CancelSends, CancelNotifies
  <2> QED BY <1>2, <2>1
<1> QED BY <1>1, <1>3, <1>4, <1>5, <1>6 DEF Next, Poll, CountInv

LEMMA CountHolds == Spec => []CountInv
<1>1. Init => CountInv
  <2> SUFFICES ASSUME Init PROVE CountInv
    OBVIOUS
  <2>1. working = {} /\ Workers \in Nat
    BY LaneAssumption DEF Init
  <2>2. Cardinality({}) = 0
    BY FS_EmptySet
  <2> QED BY <2>1, <2>2, Begins DEF CountInv, WithinWorkers
<1> QED BY <1>1, CountSteps, PTL DEF Spec

(* The lane is two bounded pools: of admissions, and of jobs that run; who *)
(* enters one finds it within its bound, whatever permits pass between     *)
(* ends, cancellations and the queue.                                      *)
THEOREM LaneImplementsPools == Spec => ImplementsPools
<1> DEFINE run == {j \in Jobs : task[j] = "running"}
<1>1. Init => Admissions!Init /\ Pool!Init
  BY DEF Init, Admissions!Init, Pool!Init
<1>2. CountInv /\ [Next]_vars => [Admissions!Next]_(Admissions!vars)
  <2> SUFFICES ASSUME CountInv, [Next]_vars PROVE Admissions!Next
    OBVIOUS
  <2>1. /\ admitted \subseteq Jobs /\ admitted' \subseteq Jobs
        /\ Cardinality(admitted') <= Outstanding
    BY CountSteps DEF CountInv, LaneInv, AdmissionsHeld
  <2> DEFINE gone == admitted \ admitted'
             came == admitted' \ admitted
  <2>2. gone \in SUBSET admitted /\ came \in SUBSET (Jobs \ admitted)
        /\ admitted' = (admitted \ gone) \cup came
    BY <2>1
  <2> HIDE DEF gone, came
  <2>3. Admissions!Change(gone, came)
    BY ONLY <2>1, <2>2 DEF Admissions!Change, Admissions!Cardinality, Cardinality, Admissions!IsFiniteSet,
       IsFiniteSet
  <2> QED BY <2>2, <2>3 DEF Admissions!Next
<1>3. CountInv /\ [Next]_vars => [Pool!Next]_(Pool!vars)
  <2> SUFFICES ASSUME CountInv, [Next]_vars PROVE Pool!Next
    OBVIOUS
  <2>1. run' \subseteq working' /\ run' \subseteq Jobs
    BY CountSteps DEF CountInv, LaneInv, WorkersHeld, Holds
  <2>2. IsFiniteSet(working') /\ Cardinality(working') \in Nat /\ Cardinality(working') <= Workers
        /\ Workers \in Nat
    <3>1. CountInv' /\ IsFiniteSet(Jobs) /\ Workers \in Nat
      BY CountSteps, LaneAssumption
    <3>2. working' \subseteq Jobs
      BY <3>1 DEF CountInv, LaneInv, WorkersHeld
    <3> QED BY <3>1, <3>2, FS_Subset, FS_CardinalityType DEF CountInv, WithinWorkers
  <2> HIDE DEF run
  <2>3. IsFiniteSet(run') /\ Cardinality(run') <= Cardinality(working') /\ Cardinality(run') \in Nat
    BY <2>1, <2>2, FS_Subset, FS_CardinalityType
  <2>4. Cardinality(run') <= Workers
    BY <2>2, <2>3
  <2> DEFINE gone == run \ run'
             came == run' \ run
  <2>5. gone \in SUBSET run /\ came \in SUBSET (Jobs \ run)
        /\ run' = (run \ gone) \cup came
    BY <2>1
  <2> HIDE DEF gone, came
  <2>6. \E g \in SUBSET run, c \in SUBSET (Jobs \ run) :
          run' = (run \ g) \cup c /\ (c # {} => Cardinality(run') <= Workers)
    BY <2>4, <2>5
  <2> QED BY ONLY <2>6 DEF Pool!Next, run, Pool!Change, Pool!Cardinality, Cardinality, Pool!IsFiniteSet, IsFiniteSet
<1> QED BY <1>1, <1>2, <1>3, CountHolds, PTL DEF Spec, ImplementsPools, Admissions!Spec, Pool!Spec

-----------------------------------------------------------------------------
(* The topic: its frames.                                                  *)

Revs == 0..MaxChanges

(* A result names a revision its value has reached.                        *)
Results == {f \in [type : {"result"}, rev : Revs, value : Revs] : f.rev <= f.value}
Frames == [type : {"changed", "subscribed"}, rev : Revs] \cup Results

(* At most one notice is queued for the topic.                             *)
OneNotice(q) == \A i, k \in DOMAIN q : q[i].type = "changed" /\ q[k].type = "changed" => i = k
Queued(q) == q \in Seq(Frames) /\ OneNotice(q)

LEMMA PutKeeps ==
  ASSUME NEW q, Queued(q), NEW f \in Frames
  PROVE  Queued(T!Put(q, f)) /\ Len(T!Put(q, f)) <= Len(q) + 1 /\ Len(T!Put(q, f)) \in Nat
<1>1. q \in Seq(Frames) /\ OneNotice(q) /\ DOMAIN q = 1..Len(q) /\ Len(q) \in Nat
  BY LenProperties DEF Queued
<1> DEFINE told == {i \in DOMAIN q : q[i].type = "changed"}
<1>2. CASE f.type = "changed" /\ told # {}
  <2> DEFINE k == CHOOSE i \in told : TRUE
             v == [q EXCEPT ![k] = f]
  <2>1. T!Put(q, f) = v
    BY <1>2 DEF T!Put
  <2>2. k \in 1..Len(q) /\ q[k].type = "changed"
    BY <1>1, <1>2
  <2> HIDE DEF k
  <2>3. v \in Seq(Frames) /\ Len(v) = Len(q) /\ \A i \in 1..Len(q) : v[i] = IF i = k THEN f ELSE q[i]
    BY <1>1, <2>2, ExceptSeq
  <2>4. DOMAIN v = 1..Len(q)
    BY <2>3, LenProperties
  <2> HIDE DEF v
  <2>5. \A i \in 1..Len(q) : v[i].type = "changed" => i = k
    BY <1>1, <2>2, <2>3 DEF OneNotice
  <2>6. OneNotice(v)
    BY <2>4, <2>5 DEF OneNotice
  <2> QED BY <1>1, <2>1, <2>3, <2>6 DEF Queued
<1>3. CASE ~(f.type = "changed" /\ told # {})
  <2> DEFINE v == Append(q, f)
  <2>1. T!Put(q, f) = v
    BY <1>3 DEF T!Put
  <2>2. /\ v \in Seq(Frames) /\ Len(v) = Len(q) + 1 /\ v[Len(q) + 1] = f
        /\ \A i \in 1..Len(q) : v[i] = q[i]
    BY <1>1, AppendProperties
  <2>3. DOMAIN v = 1..(Len(q) + 1)
    BY <2>2, LenProperties
  <2> HIDE DEF v
  <2>4. \A i \in 1..(Len(q) + 1) : i \in 1..Len(q) \/ i = Len(q) + 1
    BY <1>1
  <2>5. \A i \in 1..Len(q) : v[i].type = "changed" => f.type # "changed"
    BY <1>1, <1>3, <2>2
  <2>6. OneNotice(v)
    BY <1>1, <2>2, <2>3, <2>4, <2>5 DEF OneNotice
  <2> QED BY <1>1, <2>1, <2>2, <2>6 DEF Queued
<1> QED BY <1>2, <1>3

LEMMA TailKeeps ==
  ASSUME NEW q, Queued(q), q # <<>>
  PROVE  Queued(Tail(q)) /\ Len(Tail(q)) <= Len(q) /\ Len(Tail(q)) \in Nat /\ Head(q) \in Frames
<1>1. q \in Seq(Frames) /\ OneNotice(q) /\ DOMAIN q = 1..Len(q) /\ Len(q) \in Nat
  BY LenProperties DEF Queued
<1>2. /\ Head(q) \in Frames /\ Tail(q) \in Seq(Frames) /\ Len(Tail(q)) = Len(q) - 1
      /\ \A i \in 1..Len(Tail(q)) : Tail(q)[i] = q[i + 1]
  BY <1>1, HeadTailProperties
<1> DEFINE v == Tail(q)
<1>3. DOMAIN v = 1..Len(v) /\ Len(v) \in Nat
  BY <1>2, LenProperties
<1> HIDE DEF v
<1>4. \A i \in 1..Len(v) : i + 1 \in 1..Len(q) /\ v[i] = q[i + 1]
  BY <1>1, <1>2, <1>3 DEF v
<1>5. OneNotice(v)
  <2> SUFFICES ASSUME NEW i \in 1..Len(v), NEW k \in 1..Len(v), v[i].type = "changed", v[k].type = "changed"
               PROVE  i = k
    BY <1>3 DEF OneNotice
  <2>1. i + 1 = k + 1
    BY <1>1, <1>4 DEF OneNotice
  <2> QED BY <1>3, <2>1
<1> QED BY <1>1, <1>2, <1>3, <1>5 DEF Queued, v

-----------------------------------------------------------------------------
(* The topic: its invariant.                                               *)

Changes == [at : {"none", "written", "telling"}, rev : Revs, left : SUBSET Page]
Calls == [at : {"none", "subscribing", "reading"}, rev : Revs]

TopicTyped ==
  /\ topic \in Revs /\ revision \in Nat /\ change \in [Changer -> Changes]
  /\ listening \subseteq Page /\ subscribed \subseteq Page /\ closed \subseteq Page
  /\ frames \in [Page -> Seq(Frames)] /\ call \in [Page -> Calls]
  /\ page \in [Page -> T!Shown] /\ reopens \in [Page -> 0..MaxReopens]

(* A change that was written is counted by the revision, or about to be.   *)
Written == {w \in Changer : change[w].at = "written"}
ChangesCounted == revision + Cardinality(Written) = topic

(* A socket's queue is over its limit only once the socket is closed.      *)
Kept(p) ==
  /\ Queued(frames[p]) /\ Len(frames[p]) <= Limit + 1
  /\ p \notin closed => Len(frames[p]) <= Limit
(* A call took a revision that was reached; a page's value has reached the *)
(* one it says it reflects.                                                *)
Reached(p) == call[p].rev <= revision
Behind(v) == v.has => v.reflects <= v.value

TopicInv ==
  /\ TopicTyped /\ ChangesCounted
  /\ \A p \in Page : Kept(p) /\ Reached(p) /\ Behind(page[p])

LEMMA Bounds ==
  ASSUME TopicInv
  PROVE  /\ MaxChanges \in Nat /\ Limit \in Nat /\ MaxReopens \in Nat
         /\ IsFiniteSet(Written) /\ Cardinality(Written) \in Nat
         /\ revision \in Revs /\ revision <= topic /\ topic \in Revs
<1>1. MaxChanges \in Nat /\ Limit \in Nat /\ MaxReopens \in Nat /\ IsFiniteSet(Changer)
  BY QueuesAssumption
<1>2. IsFiniteSet(Written) /\ Cardinality(Written) \in Nat
  BY <1>1, FS_Subset, FS_CardinalityType DEF Written
<1>3. topic \in Revs /\ revision \in Nat /\ revision + Cardinality(Written) = topic
  BY DEF TopicInv, TopicTyped, ChangesCounted
<1> HIDE DEF Written
<1>4. revision \in Revs /\ revision <= topic
  BY <1>1, <1>2, <1>3 DEF Revs
<1> QED BY <1>1, <1>2, <1>3, <1>4

(* A frame is sent: the queue takes it, and closes the socket over its     *)
(* limit.                                                                  *)
LEMMA SendKeeps ==
  ASSUME TopicInv, NEW p \in Page, NEW f \in Frames, T!Send(p, f)
  PROVE  frames' \in [Page -> Seq(Frames)] /\ closed' \subseteq Page /\ \A q \in Page : Kept(q)'
<1> DEFINE v == IF p \in closed THEN frames[p] ELSE T!Put(frames[p], f)
<1>1. /\ frames \in [Page -> Seq(Frames)] /\ closed \subseteq Page /\ Limit \in Nat
      /\ \A q \in Page : Kept(q)
  BY Bounds DEF TopicInv, TopicTyped
<1>2. frames' = [frames EXCEPT ![p] = v] /\ closed' = IF Len(frames'[p]) > Limit THEN closed \cup {p} ELSE closed
  BY DEF T!Send
<1>3. /\ Queued(frames[p]) /\ Len(frames[p]) <= Limit + 1 /\ (p \notin closed => Len(frames[p]) <= Limit)
      /\ Len(frames[p]) \in Nat
  BY <1>1, LenProperties DEF Kept
<1>4. /\ Queued(T!Put(frames[p], f)) /\ Len(T!Put(frames[p], f)) <= Len(frames[p]) + 1
      /\ Len(T!Put(frames[p], f)) \in Nat
  BY <1>3, PutKeeps
<1>5. Queued(v) /\ Len(v) \in Nat /\ Len(v) <= Limit + 1
  BY <1>1, <1>3, <1>4
<1> HIDE DEF v
<1>6. frames' \in [Page -> Seq(Frames)] /\ frames'[p] = v /\ \A q \in Page : q # p => frames'[q] = frames[q]
  BY <1>1, <1>2, <1>5 DEF Queued
<1>7. closed' \subseteq Page /\ closed \subseteq closed' /\ (p \notin closed' => ~(Len(v) > Limit))
  BY <1>1, <1>2, <1>6
<1>8. Kept(p)'
  <2>1. p \notin closed' => Len(v) <= Limit
    BY <1>1, <1>5, <1>7
  <2> QED BY <1>5, <1>6, <2>1 DEF Kept
<1>9. \A q \in Page : q # p => Kept(q)'
  BY <1>1, <1>6, <1>7 DEF Kept
<1> QED BY <1>6, <1>7, <1>8, <1>9

LEMMA Asked ==
  ASSUME NEW v \in T!Shown, Behind(v)
  PROVE  T!Refresh(v) \in T!Shown /\ Behind(T!Refresh(v))
BY DEF T!Shown, T!Refresh, Behind

(* A page hears a frame.                                                   *)
LEMMA Heard ==
  ASSUME NEW v \in T!Shown, Behind(v), NEW rev \in Revs, NEW value \in Revs, MaxChanges \in Nat
  PROVE  /\ T!HearChanged(v, rev) \in T!Shown /\ Behind(T!HearChanged(v, rev))
         /\ T!HearSubscribed(v, rev) \in T!Shown /\ Behind(T!HearSubscribed(v, rev))
         /\ rev <= value => T!HearResult(v, rev, value) \in T!Shown /\ Behind(T!HearResult(v, rev, value))
<1>1. T!HearChanged(v, rev) \in T!Shown /\ Behind(T!HearChanged(v, rev))
  <2> DEFINE h == [v EXCEPT !.known = rev]
  <2>1. h \in T!Shown /\ Behind(h)
    BY DEF T!Shown, Behind, Revs
  <2> HIDE DEF h
  <2>2. T!Refresh(h) \in T!Shown /\ Behind(T!Refresh(h))
    BY <2>1, Asked
  <2>3. T!HearChanged(v, rev) \in {v, T!Refresh(h)}
    BY DEF T!HearChanged, h
  <2> QED BY <2>2, <2>3
<1>2. T!HearSubscribed(v, rev) \in T!Shown /\ Behind(T!HearSubscribed(v, rev))
  <2> DEFINE h == [v EXCEPT !.known = IF rev > @ THEN rev ELSE @, !.wants = "nothing"]
             g == [h EXCEPT !.again = FALSE]
  <2>1. h \in T!Shown /\ Behind(h)
    BY DEF T!Shown, Behind, Revs
  <2>2. T!HearSubscribed(v, rev) \in {h, T!Refresh(g)}
    BY DEF T!HearSubscribed
  <2> HIDE DEF h
  <2>3. g \in T!Shown /\ Behind(g)
    BY <2>1 DEF T!Shown, Behind
  <2> HIDE DEF g
  <2>4. T!Refresh(g) \in T!Shown /\ Behind(T!Refresh(g))
    BY <2>3, Asked
  <2> QED BY <2>1, <2>2, <2>4
<1>3. ASSUME rev <= value
      PROVE  T!HearResult(v, rev, value) \in T!Shown /\ Behind(T!HearResult(v, rev, value))
  <2> DEFINE h == [v EXCEPT !.value = value, !.has = TRUE, !.reflects = rev, !.wants = "nothing"]
             g == [h EXCEPT !.again = FALSE]
  <2>1. h \in T!Shown /\ Behind(h)
    BY <1>3 DEF T!Shown, Behind, Revs
  <2>2. T!HearResult(v, rev, value) \in {h, T!Refresh(g)}
    BY DEF T!HearResult
  <2> HIDE DEF h
  <2>3. g \in T!Shown /\ Behind(g)
    BY <2>1 DEF T!Shown, Behind
  <2> HIDE DEF g
  <2>4. T!Refresh(g) \in T!Shown /\ Behind(T!Refresh(g))
    BY <2>3, Asked
  <2> QED BY <2>1, <2>2, <2>4
<1> QED BY <1>1, <1>2, <1>3

-----------------------------------------------------------------------------
(* The topic: its steps.                                                   *)

(* A step that leaves the topic and who changes it alone.                  *)
LEMMA ChangesStay ==
  ASSUME TopicInv, UNCHANGED <<topic, revision>>,
         change' \in [Changer -> Changes], \A w \in Changer : change'[w].at = "written" <=> change[w].at = "written"
  PROVE  ChangesCounted' /\ topic' \in Revs /\ revision' \in Nat
<1>1. Written' = Written
  BY DEF Written
<1> QED BY <1>1 DEF ChangesCounted, TopicInv, TopicTyped

LEMMA WriteKeeps == ASSUME TopicInv, NEW w \in Changer, T!Write(w) PROVE TopicInv'
<1>1. /\ change[w].at = "none" /\ topic < MaxChanges /\ topic' = topic + 1
      /\ change' = [change EXCEPT ![w].at = "written"]
      /\ UNCHANGED <<revision, listening, subscribed, closed, frames, call, page, reopens>>
  BY DEF T!Write
<1>2. change \in [Changer -> Changes] /\ topic \in Revs /\ MaxChanges \in Nat
  BY Bounds DEF TopicInv, TopicTyped
<1>3. change' \in [Changer -> Changes] /\ topic' \in Revs
  BY <1>1, <1>2 DEF Changes, Revs
<1>4. Written' = Written \cup {w} /\ w \notin Written
  BY <1>1, <1>2 DEF Written, Changes
<1>5. Cardinality(Written') = Cardinality(Written) + 1
  BY <1>4, Bounds, FS_AddElement
<1>6. ChangesCounted'
  <2>1. revision \in Nat /\ revision + Cardinality(Written) = topic /\ Cardinality(Written) \in Nat
    BY Bounds DEF TopicInv, TopicTyped, ChangesCounted
  <2> HIDE DEF Written
  <2> QED BY <1>1, <1>5, <2>1 DEF ChangesCounted
<1>7. TopicTyped'
  BY <1>1, <1>3 DEF TopicInv, TopicTyped
<1> QED BY <1>1, <1>6, <1>7 DEF TopicInv, Kept, Reached

LEMMA ChangedKeeps == ASSUME TopicInv, NEW w \in Changer, T!Changed(w) PROVE TopicInv'
<1>1. /\ change[w].at = "written" /\ revision' = revision + 1
      /\ change' = [change EXCEPT ![w] = [at |-> "telling", rev |-> revision + 1, left |-> listening]]
      /\ UNCHANGED <<topic, listening, subscribed, closed, frames, call, page, reopens>>
  BY DEF T!Changed
<1>2. change \in [Changer -> Changes] /\ revision \in Nat /\ listening \subseteq Page
  BY DEF TopicInv, TopicTyped
<1>3. Written' = Written \ {w} /\ w \in Written
  BY <1>1, <1>2 DEF Written
<1>4. Cardinality(Written') = Cardinality(Written) - 1 /\ Cardinality(Written) # 0 /\ Cardinality(Written) \in Nat
  <2>1. Cardinality(Written \ {w}) = Cardinality(Written) - 1 /\ Cardinality(Written \ {w}) \in Nat
    BY <1>3, Bounds, FS_RemoveElement, FS_CardinalityType
  <2> HIDE DEF Written
  <2> QED BY <1>3, <2>1, Bounds
<1>5. ChangesCounted' /\ revision' \in Nat /\ revision' <= topic
  <2>1. revision + Cardinality(Written) = topic
    BY DEF TopicInv, ChangesCounted
  <2> HIDE DEF Written
  <2> QED BY <1>1, <1>2, <1>4, <2>1 DEF ChangesCounted
<1>6. revision + 1 \in Revs
  BY <1>1, <1>2, <1>5, Bounds DEF Revs
<1>7. change' \in [Changer -> Changes]
  BY <1>1, <1>2, <1>6 DEF Changes
<1>8. TopicTyped'
  BY <1>1, <1>5, <1>7 DEF TopicInv, TopicTyped
<1>9. \A p \in Page : Reached(p)'
  <2>1. \A p \in Page : call[p].rev \in Nat /\ call[p].rev <= revision
    BY DEF TopicInv, TopicTyped, Calls, Revs, Reached
  <2> QED BY <1>1, <1>2, <2>1 DEF Reached
<1> QED BY <1>1, <1>5, <1>8, <1>9 DEF TopicInv, Kept

LEMMA TellKeeps ==
  ASSUME TopicInv, NEW w \in Changer, T!Told(w) \/ \E p \in Page : T!Tell(w, p)
  PROVE  TopicInv'
<1>0. TopicTyped /\ change \in [Changer -> Changes] /\ change[w].rev \in Revs /\ change[w] \in Changes
  BY DEF TopicInv, TopicTyped, Changes
<1>1. CASE T!Told(w)
  <2>1. /\ change[w].at = "telling" /\ change' = [change EXCEPT ![w] = T!NoChange]
        /\ UNCHANGED <<topic, revision, listening, subscribed, closed, frames, call, page, reopens>>
    BY <1>1 DEF T!Told
  <2>2. change' \in [Changer -> Changes] /\ \A x \in Changer : change'[x].at = "written" <=> change[x].at = "written"
    BY <1>0, <2>1, Bounds DEF Changes, T!NoChange, Revs
  <2>3. TopicTyped' /\ ChangesCounted'
    BY <1>0, <2>1, <2>2, ChangesStay DEF TopicTyped
  <2> QED BY <2>1, <2>3 DEF TopicInv, Kept, Reached
<1>2. ASSUME NEW p \in Page, T!Tell(w, p) PROVE TopicInv'
  <2>1. /\ change[w].at = "telling" /\ change' = [change EXCEPT ![w].left = @ \ {p}]
        /\ UNCHANGED <<topic, revision, listening, subscribed, call, page, reopens>>
        /\ T!Send(p, T!Notice(change[w].rev)) \/ UNCHANGED <<frames, closed>>
    BY <1>2 DEF T!Tell
  <2>2. change' \in [Changer -> Changes] /\ \A x \in Changer : change'[x].at = "written" <=> change[x].at = "written"
    BY <1>0, <2>1 DEF Changes
  <2>3. T!Notice(change[w].rev) \in Frames
    BY <1>0 DEF T!Notice, Frames
  <2>4. frames' \in [Page -> Seq(Frames)] /\ closed' \subseteq Page /\ \A q \in Page : Kept(q)'
    <3>1. CASE UNCHANGED <<frames, closed>>
      BY <1>0, <3>1 DEF TopicInv, TopicTyped, Kept
    <3>2. CASE T!Send(p, T!Notice(change[w].rev))
      BY <2>3, <3>2, SendKeeps
    <3> QED BY <2>1, <3>1, <3>2
  <2>5. TopicTyped' /\ ChangesCounted'
    BY <1>0, <2>1, <2>2, <2>4, ChangesStay DEF TopicTyped
  <2> QED BY <2>1, <2>4, <2>5 DEF TopicInv, Reached
<1> QED BY <1>1, <1>2

(* A page asks, and its call takes the revision.                           *)
LEMMA AskKeeps ==
  ASSUME TopicInv, NEW p \in Page, T!Subscribe(p) \/ T!Read(p)
  PROVE  TopicInv'
<1>0. /\ TopicTyped /\ page \in [Page -> T!Shown] /\ call \in [Page -> Calls] /\ revision \in Revs
      /\ page[p] \in T!Shown /\ Behind(page[p])
  BY Bounds DEF TopicInv, TopicTyped
<1>1. PICK at \in {"subscribing", "reading"}, again \in BOOLEAN :
        /\ call' = [call EXCEPT ![p] = [at |-> at, rev |-> revision]]
        /\ page' = [page EXCEPT ![p] = [page[p] EXCEPT !.wants = "answer", !.again = again]]
        /\ subscribed' \in {subscribed, subscribed \cup {p}}
        /\ UNCHANGED <<topic, revision, change, listening, closed, frames, reopens>>
  <2>1. CASE T!Subscribe(p)
    <3>1. [page[p] EXCEPT !.wants = "answer", !.again = page[p].again] = [page[p] EXCEPT !.wants = "answer"]
      BY <1>0 DEF T!Shown
    <3>2. page[p].again \in BOOLEAN
      BY <1>0 DEF T!Shown
    <3>3. page' = [page EXCEPT ![p] = [page[p] EXCEPT !.wants = "answer"]]
      BY <1>0, <2>1 DEF T!Subscribe
    <3> QED BY <2>1, <3>1, <3>2, <3>3 DEF T!Subscribe
  <2>2. CASE T!Read(p)
    <3>1. page' = [page EXCEPT ![p] = [page[p] EXCEPT !.wants = "answer", !.again = FALSE]]
      BY <1>0, <2>2 DEF T!Read, T!Shown
    <3> QED BY <2>2, <3>1 DEF T!Read
  <2> QED BY <2>1, <2>2
<1> DEFINE v == [page[p] EXCEPT !.wants = "answer", !.again = again]
<1>2. v \in T!Shown /\ Behind(v)
  BY <1>0 DEF T!Shown, Behind
<1> HIDE DEF v
<1>3. page' = [page EXCEPT ![p] = v]
  BY <1>1 DEF v
<1>4. page' \in [Page -> T!Shown] /\ \A q \in Page : Behind(page'[q])
  BY <1>0, <1>2, <1>3 DEF TopicInv
<1>5. [at |-> at, rev |-> revision] \in Calls
  BY <1>0 DEF Calls
<1>6. call' \in [Page -> Calls] /\ \A q \in Page : Reached(q)'
  BY <1>0, <1>1, <1>5, Bounds DEF TopicInv, Reached, Revs
<1>7. TopicTyped' /\ ChangesCounted'
  BY <1>0, <1>1, <1>4, <1>6, ChangesStay DEF TopicTyped
<1> QED BY <1>1, <1>4, <1>6, <1>7 DEF TopicInv, Kept

(* The call is answered: the state was read after its revision.            *)
LEMMA AnswerKeeps ==
  ASSUME TopicInv, NEW p \in Page, T!Subscribing(p) \/ T!Reading(p)
  PROVE  TopicInv'
<1>0. TopicTyped /\ call \in [Page -> Calls] /\ call[p].rev \in Revs /\ call[p].rev <= topic /\ topic \in Revs
  <2>1. call[p].rev \in Revs /\ call[p].rev <= revision
    BY DEF TopicInv, TopicTyped, Calls, Reached
  <2> QED BY <2>1, Bounds DEF TopicInv, TopicTyped, Revs
<1>1. PICK f \in Frames : T!Send(p, f)
  <2>1. [type |-> "subscribed", rev |-> call[p].rev] \in Frames
    BY <1>0 DEF Frames
  <2>2. [type |-> "result", rev |-> call[p].rev, value |-> topic] \in Frames
    BY <1>0 DEF Frames, Results
  <2> QED BY <2>1, <2>2 DEF T!Subscribing, T!Reading
<1>2. /\ call' = [call EXCEPT ![p] = T!NoCall] /\ subscribed' \in {subscribed, subscribed \cup {p}}
      /\ UNCHANGED <<topic, revision, change, listening, page, reopens>>
  BY DEF T!Subscribing, T!Reading
<1>3. T!NoCall \in Calls /\ T!NoCall.rev <= revision
  BY Bounds DEF T!NoCall, Calls, Revs
<1>4. call' \in [Page -> Calls] /\ \A q \in Page : Reached(q)'
  BY <1>0, <1>2, <1>3 DEF TopicInv, Reached
<1>5. frames' \in [Page -> Seq(Frames)] /\ closed' \subseteq Page /\ \A q \in Page : Kept(q)'
  BY <1>1, SendKeeps
<1>6. TopicTyped' /\ ChangesCounted'
  BY <1>0, <1>2, <1>4, <1>5, ChangesStay DEF TopicTyped
<1> QED BY <1>2, <1>4, <1>5, <1>6 DEF TopicInv

LEMMA DeliverKeeps == ASSUME TopicInv, NEW p \in Page, T!Deliver(p) PROVE TopicInv'
<1> DEFINE f == Head(frames[p])
           v == CASE f.type = "changed" -> T!HearChanged(page[p], f.rev)
                  [] f.type = "subscribed" -> T!HearSubscribed(page[p], f.rev)
                  [] f.type = "result" -> T!HearResult(page[p], f.rev, f.value)
<1>0. /\ TopicTyped /\ page \in [Page -> T!Shown] /\ page[p] \in T!Shown /\ Behind(page[p])
      /\ frames \in [Page -> Seq(Frames)] /\ Kept(p) /\ MaxChanges \in Nat /\ Limit \in Nat
  BY Bounds DEF TopicInv, TopicTyped
<1>1. /\ p \notin closed /\ frames[p] # <<>> /\ frames' = [frames EXCEPT ![p] = Tail(@)]
      /\ page' = [page EXCEPT ![p] = v]
      /\ UNCHANGED <<topic, revision, change, listening, subscribed, closed, call, reopens>>
  BY DEF T!Deliver
<1>2. /\ Queued(Tail(frames[p])) /\ Len(Tail(frames[p])) <= Len(frames[p]) /\ Len(Tail(frames[p])) \in Nat
      /\ Len(frames[p]) \in Nat /\ f \in Frames
  BY <1>0, <1>1, TailKeeps, LenProperties DEF Kept
<1>3. v \in T!Shown /\ Behind(v)
  <2> HIDE DEF f
  <2>1. CASE f \in [type : {"changed", "subscribed"}, rev : Revs]
    <3>1. f.rev \in Revs /\ f.type \in {"changed", "subscribed"} /\ 0 \in Revs
      BY <1>0, <2>1 DEF Revs
    <3>2. v = T!HearChanged(page[p], f.rev) \/ v = T!HearSubscribed(page[p], f.rev)
      BY <3>1
    <3> QED BY <1>0, <3>1, <3>2, Heard
  <2>2. CASE f \in Results
    <3>1. f.rev \in Revs /\ f.value \in Revs /\ f.rev <= f.value /\ f.type = "result"
      BY <2>2 DEF Results
    <3>2. v = T!HearResult(page[p], f.rev, f.value)
      BY <3>1
    <3> QED BY <1>0, <3>1, <3>2, Heard
  <2> QED BY <1>2, <2>1, <2>2 DEF Frames
<1> HIDE DEF v, f
<1>4. page' \in [Page -> T!Shown] /\ \A q \in Page : Behind(page'[q])
  BY <1>0, <1>1, <1>3 DEF TopicInv
<1>5. Kept(p)'
  <2>1. frames'[p] = Tail(frames[p]) /\ Len(frames[p]) <= Limit
    BY <1>0, <1>1 DEF Kept
  <2>2. Len(Tail(frames[p])) <= Limit + 1 /\ Len(Tail(frames[p])) <= Limit
    BY <1>0, <1>2, <2>1
  <2> QED BY <1>2, <2>1, <2>2 DEF Kept
<1>6. frames' \in [Page -> Seq(Frames)] /\ \A q \in Page : Kept(q)'
  <2>1. Tail(frames[p]) \in Seq(Frames)
    BY <1>2 DEF Queued
  <2>2. \A q \in Page : q # p => frames'[q] = frames[q]
    BY <1>0, <1>1
  <2>3. \A q \in Page : q # p => Kept(q)'
    BY <1>1, <2>2 DEF TopicInv, Kept
  <2> QED BY <1>0, <1>1, <1>5, <2>1, <2>3
<1>7. TopicTyped' /\ ChangesCounted'
  BY <1>0, <1>1, <1>4, <1>6, ChangesStay DEF TopicTyped
<1> QED BY <1>1, <1>4, <1>6, <1>7 DEF TopicInv, Reached

LEMMA SocketEndsKeeps ==
  ASSUME TopicInv, NEW p \in Page, T!Close(p) \/ T!Reopen(p)
  PROVE  TopicInv'
<1>0. /\ TopicTyped /\ page \in [Page -> T!Shown] /\ page[p] \in T!Shown /\ Behind(page[p])
      /\ MaxReopens \in Nat /\ Limit \in Nat /\ reopens \in [Page -> 0..MaxReopens]
  BY Bounds DEF TopicInv, TopicTyped
<1>1. CASE T!Close(p)
  <2>1. closed' = closed \cup {p} /\ UNCHANGED <<topic, revision, change, listening, subscribed, frames, call, page, reopens>>
    BY <1>1 DEF T!Close
  <2>2. TopicTyped' /\ ChangesCounted'
    BY <1>0, <2>1 DEF TopicTyped, ChangesCounted, Written, TopicInv
  <2> QED BY <2>1, <2>2 DEF TopicInv, Kept, Reached
<1>2. CASE T!Reopen(p)
  <2> DEFINE v == [page[p] EXCEPT !.wants = "subscribe", !.again = FALSE]
             rest == [w \in Changer |-> [change[w] EXCEPT !.left = @ \ {p}]]
  <2>1. /\ reopens[p] < MaxReopens /\ reopens' = [reopens EXCEPT ![p] = @ + 1]
        /\ closed' = closed \ {p} /\ subscribed' = subscribed \ {p}
        /\ frames' = [frames EXCEPT ![p] = <<>>] /\ call' = [call EXCEPT ![p] = T!NoCall]
        /\ change' = rest /\ UNCHANGED <<topic, revision, listening>>
    BY <1>2 DEF T!Reopen
  <2>2. page' = [page EXCEPT ![p] = v]
    BY <1>0, <1>2 DEF T!Reopen, T!Shown
  <2>3. v \in T!Shown /\ Behind(v)
    BY <1>0 DEF T!Shown, Behind
  <2> HIDE DEF v
  <2>4. page' \in [Page -> T!Shown] /\ \A q \in Page : Behind(page'[q])
    BY <1>0, <2>2, <2>3 DEF TopicInv
  <2>5. change' \in [Changer -> Changes] /\ \A x \in Changer : change'[x].at = "written" <=> change[x].at = "written"
    <3> SUFFICES ASSUME NEW x \in Changer
                 PROVE  [change[x] EXCEPT !.left = @ \ {p}] \in Changes
                        /\ [change[x] EXCEPT !.left = @ \ {p}].at = change[x].at
      BY <2>1
    <3>1. change[x] \in Changes
      BY <1>0 DEF TopicTyped
    <3> QED BY <3>1 DEF Changes
  <2>6. T!NoCall \in Calls /\ T!NoCall.rev <= revision
    BY Bounds DEF T!NoCall, Calls, Revs
  <2>7. call' \in [Page -> Calls] /\ \A q \in Page : Reached(q)'
    BY <1>0, <2>1, <2>6 DEF TopicTyped, TopicInv, Reached
  <2>8. Queued(<<>>) /\ Len(<<>>) = 0 /\ <<>> \in Seq(Frames)
    <3>1. <<>> \in Seq(Frames) /\ Len(<<>>) = 0 /\ DOMAIN <<>> = {}
      BY EmptySeq
    <3> QED BY <3>1 DEF Queued, OneNotice
  <2>9. frames' \in [Page -> Seq(Frames)] /\ \A q \in Page : Kept(q)'
    <3>1. frames' \in [Page -> Seq(Frames)] /\ frames'[p] = <<>> /\ \A q \in Page : q # p => frames'[q] = frames[q]
      BY <1>0, <2>1, <2>8 DEF TopicTyped
    <3>2. \A q \in Page : q # p => Kept(q)'
      BY <2>1, <3>1 DEF TopicInv, Kept
    <3>3. Kept(p)'
      BY <1>0, <2>8, <3>1 DEF Kept
    <3> QED BY <3>1, <3>2, <3>3
  <2>10. reopens' \in [Page -> 0..MaxReopens] /\ closed' \subseteq Page /\ subscribed' \subseteq Page
    <3>1. reopens[p] + 1 \in 0..MaxReopens
      BY <1>0, <2>1
    <3> QED BY <1>0, <2>1, <3>1 DEF TopicTyped
  <2>11. TopicTyped' /\ ChangesCounted'
    BY <1>0, <2>1, <2>4, <2>5, <2>7, <2>9, <2>10, ChangesStay DEF TopicTyped
  <2> QED BY <2>4, <2>7, <2>9, <2>11 DEF TopicInv
<1> QED BY <1>1, <1>2

LEMMA TopicBegins == T!Init => TopicInv
<1> SUFFICES ASSUME T!Init PROVE TopicInv
  OBVIOUS
<1>1. MaxChanges \in Nat /\ MaxReopens \in Nat /\ Limit \in Nat /\ <<>> \in Seq(Frames) /\ Len(<<>>) = 0 /\ DOMAIN <<>> = {}
  BY QueuesAssumption, EmptySeq
<1>2. /\ topic = 0 /\ revision = 0 /\ change = [w \in Changer |-> T!NoChange]
      /\ listening = Page /\ subscribed = {} /\ closed = {}
      /\ frames = [p \in Page |-> <<>>] /\ call = [p \in Page |-> T!NoCall]
      /\ page = [p \in Page |-> T!NewPage] /\ reopens = [p \in Page |-> 0]
  BY DEF T!Init
<1>3. T!NewPage \in T!Shown /\ ~T!NewPage.has /\ T!NoCall \in Calls /\ T!NoCall.rev = 0 /\ T!NoChange \in Changes
  BY <1>1 DEF T!NewPage, T!Shown, T!NoCall, Calls, T!NoChange, Changes, Revs
<1>4. TopicTyped
  BY <1>1, <1>2, <1>3 DEF TopicTyped, Revs
<1>5. ChangesCounted
  <2>1. Written = {}
    BY <1>2 DEF Written, T!NoChange
  <2> QED BY <1>2, <2>1, FS_EmptySet DEF ChangesCounted
<1>6. \A p \in Page : Kept(p) /\ Reached(p) /\ Behind(page[p])
  BY <1>1, <1>2, <1>3 DEF Kept, Reached, Behind, Queued, OneNotice
<1> QED BY <1>4, <1>5, <1>6 DEF TopicInv

LEMMA TopicSteps == ASSUME TopicInv, [T!Next]_topicVars PROVE TopicInv'
<1>1. CASE UNCHANGED topicVars
  BY <1>1 DEF topicVars, TopicInv, TopicTyped, ChangesCounted, Written, Kept, Reached
<1>2. ASSUME NEW w \in Changer, T!Write(w) \/ T!Changing(w) PROVE TopicInv'
  BY <1>2, WriteKeeps, ChangedKeeps, TellKeeps DEF T!Changing
<1>3. ASSUME NEW p \in Page, T!Answering(p) \/ T!Deliver(p) \/ T!Close(p) \/ T!Reopen(p) PROVE TopicInv'
  BY <1>3, AskKeeps, AnswerKeeps, DeliverKeeps, SocketEndsKeeps DEF T!Answering
<1> QED BY <1>1, <1>2, <1>3 DEF T!Next

LEMMA TopicCounted == ASSUME TopicInv PROVE T!TypeOK /\ T!NeverAhead
<1>1. /\ TopicTyped /\ revision \in 0..topic
      /\ \A p \in Page : Kept(p) /\ Behind(page[p])
  BY Bounds DEF TopicInv, TopicTyped, Revs
<1>2. ASSUME NEW p \in Page
      PROVE  T!Cardinality({i \in DOMAIN frames[p] : frames[p][i].type = "changed"}) <= 1
  <2> DEFINE N == {i \in DOMAIN frames[p] : frames[p][i].type = "changed"}
  <2>1. \A i, k \in N : i = k
    BY <1>1 DEF Kept, Queued, OneNotice
  <2> HIDE DEF N
  <2>2. Cardinality(N) <= 1
    <3>1. CASE N = {}
      BY <3>1, FS_EmptySet
    <3>2. CASE N # {}
      <4>1. PICK i \in N : TRUE
        BY <3>2
      <4>2. N = {i}
        BY <2>1, <4>1
      <4> QED BY <4>2, FS_Singleton
    <3> QED BY <3>1, <3>2
  <2>3. T!Cardinality(N) = Cardinality(N)
    BY DEF T!Cardinality, Cardinality, T!IsFiniteSet, IsFiniteSet
  <2> QED BY <2>2, <2>3 DEF N
<1>3. T!TypeOK
  BY <1>1, <1>2 DEF T!TypeOK, TopicTyped, Changes, Revs, Kept
<1>4. T!NeverAhead
  BY <1>1 DEF T!NeverAhead, Behind
<1> QED BY <1>3, <1>4

(* Permits are held by the jobs on their way; a queue holds one notice of  *)
(* its topic and is not over its limit while its socket is open; a page's  *)
(* value has reached the revision it says it reflects, since a read takes  *)
(* the revision first.                                                     *)
THEOREM QueuesAlwaysCounted == QueuesSpec => []QueuesCounted
<1>1. QueuesInit => LaneInv /\ TopicInv
  BY Begins, TopicBegins DEF QueuesInit
<1>2. LaneInv /\ TopicInv /\ [QueuesNext]_allVars => LaneInv' /\ TopicInv'
  <2> SUFFICES ASSUME LaneInv, TopicInv, [QueuesNext]_allVars PROVE LaneInv' /\ TopicInv'
    OBVIOUS
  <2>1. [Next]_vars /\ [T!Next]_topicVars
    BY DEF QueuesNext, allVars
  <2> QED BY <2>1, Steps, TopicSteps
<1>3. LaneInv /\ TopicInv => QueuesCounted
  BY LaneCounted, TopicCounted DEF QueuesCounted
<1> QED BY <1>1, <1>2, <1>3, PTL DEF QueuesSpec
=============================================================================
