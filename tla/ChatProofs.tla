----------------------------- MODULE ChatProofs -----------------------------
(***************************************************************************)
(* What holds of a chat's way from a session's socket to Team: of the gate *)
(* its operations pass, for every number of operations, every limit and    *)
(* every bound of the queue; of its durable turns, for any number of       *)
(* sends, records and restarts; and of the session sockets it is carried   *)
(* over, for every number of sessions, sockets and calls and every limit.  *)
(* The three share no state, and each has an invariant of its own.         *)
(***************************************************************************)
EXTENDS Gate, DurableTurns, Sockets, FiniteSetTheorems, SequenceTheorems, TLAPS

-----------------------------------------------------------------------------
(* The gate of a chat.                                                     *)

Distinct(w) == \A i, j \in DOMAIN w : w[i] = w[j] => i = j
Prefix(w, n) == {w[i] : i \in 1..n}
In(f, K) == {o \in Ops : f[o] \in K}
Using == {"starting", "running"}

(* Who is in the queue is queueing, once, and not granted yet; and nobody  *)
(* gets further than reading before the limit is known.                    *)
QueueOK ==
  /\ Distinct(waiting)
  /\ \A i \in DOMAIN waiting : waiting[i] \notin granted /\ pc[waiting[i]] \in Queueing
  /\ \A o \in granted : pc[o] \in Queueing
  /\ limit = NoLimit =>
       /\ waiting = <<>>
       /\ \A o \in Ops : pc[o] \in {"idle", "read", "asking", "unanswered", "ended"}

(* SlotsCounted, in the form that adds up. *)
Counted ==
  /\ running = Cardinality(granted) + Cardinality(In(pc, Using))
  /\ resting = Cardinality(In(pc, {"resting"}))
  /\ reading = Cardinality(In(pc, Reading))

GateInv == TypeOK /\ QueueOK /\ Counted /\ NoStrandedWaiter

-----------------------------------------------------------------------------
(* The first n of a queue without duplicates are n operations.             *)
LEMMA PrefixCount ==
  ASSUME NEW w \in Seq(Ops), Distinct(w), NEW n \in 0..Len(w)
  PROVE  IsFiniteSet(Prefix(w, n)) /\ Cardinality(Prefix(w, n)) = n
<1> DEFINE f == [i \in 1..n |-> w[i]]
<1>1. f \in Bijection(1..n, Prefix(w, n))
  BY DEF Bijection, Injection, Surjection, IsInjective, Prefix, Distinct
<1>2. ExistsBijection(1..n, Prefix(w, n))
  BY <1>1 DEF ExistsBijection
<1>3. IsFiniteSet(1..n) /\ Cardinality(1..n) = n
  BY FS_Interval
<1> QED
  BY <1>2, <1>3, FS_Bijection

(* What is left of a queue once its first n waiters are gone.              *)
LEMMA DropFacts ==
  ASSUME NEW w \in Seq(Ops), NEW n \in 0..Len(w)
  PROVE  /\ SubSeq(w, n + 1, Len(w)) \in Seq(Ops)
         /\ Len(SubSeq(w, n + 1, Len(w))) = Len(w) - n
         /\ \A i \in 1..Len(w) - n : SubSeq(w, n + 1, Len(w))[i] = w[i + n]
<1>1. \A i \in 1..Len(w) : w[i] \in Ops
  OBVIOUS
<1>2. Len(w) \in Nat /\ n \in Nat /\ n <= Len(w)
  OBVIOUS
<1> QED
  BY <1>1, <1>2

(* A waiter leaves the queue without changing the order of the others.     *)
LEMMA RemoveAtFacts ==
  ASSUME NEW w \in Seq(Ops), NEW k \in DOMAIN w, NEW v, v = RemoveAt(w, k)
  PROVE  /\ v \in Seq(Ops)
         /\ Len(v) = Len(w) - 1
         /\ \A i \in 1..Len(v) : v[i] = IF i < k THEN w[i] ELSE w[i + 1]
<1> DEFINE a == SubSeq(w, 1, k - 1)
           b == SubSeq(w, k + 1, Len(w))
<1>1. k \in 1..Len(w) /\ \A i \in 1..Len(w) : w[i] \in Ops
  OBVIOUS
<1>2. /\ a \in Seq(Ops) /\ Len(a) = k - 1
      /\ \A i \in 1..k - 1 : a[i] = w[i]
  BY <1>1
<1>3. /\ b \in Seq(Ops) /\ Len(b) = Len(w) - k
      /\ \A i \in 1..Len(w) - k : b[i] = w[k + i]
  BY <1>1
<1> HIDE DEF a, b
<1>4. v = a \o b
  BY DEF RemoveAt, a, b
<1>5. /\ v \in Seq(Ops) /\ Len(v) = Len(a) + Len(b)
      /\ \A i \in 1 .. Len(a) + Len(b) :
            v[i] = IF i <= Len(a) THEN a[i] ELSE b[i - Len(a)]
  BY ONLY <1>2, <1>3, <1>4, ConcatProperties
<1>6. Len(v) = Len(w) - 1
  BY <1>1, <1>2, <1>3, <1>5
<1>7. ASSUME NEW i \in 1..Len(v)
      PROVE  v[i] = IF i < k THEN w[i] ELSE w[i + 1]
  <2>1. i \in 1 .. Len(w) - 1 /\ k \in 1..Len(w) /\ Len(w) \in Nat
    BY <1>1, <1>6
  <2>2. v[i] = IF i <= k - 1 THEN a[i] ELSE b[i - (k - 1)]
    BY <1>2, <1>3, <1>5
  <2>3. CASE i < k
    <3>1. i <= k - 1 /\ i \in 1..k - 1
      BY <2>1, <2>3
    <3> QED
      BY <3>1, <2>2, <2>3, <1>2
  <2>4. CASE ~ (i < k)
    <3>1. ~ (i <= k - 1) /\ i - (k - 1) \in 1..Len(w) - k /\ k + (i - (k - 1)) = i + 1
      BY <2>1, <2>4
    <3> QED
      BY <3>1, <2>2, <2>4, <1>3
  <2> QED
    BY <2>3, <2>4
<1> QED
  BY <1>5, <1>6, <1>7

(* When an operation goes to a place, every count changes by at most it.   *)
LEMMA CountAfterMove ==
  ASSUME NEW f \in [Ops -> Location], NEW g \in [Ops -> Location], NEW o \in Ops,
         \A x \in Ops \ {o} : g[x] = f[x], NEW K
  PROVE  /\ IsFiniteSet(In(f, K)) /\ Cardinality(In(f, K)) \in Nat
         /\ f[o] \in K => Cardinality(In(f, K)) > 0
         /\ Cardinality(In(g, K)) =
              Cardinality(In(f, K)) - (IF f[o] \in K THEN 1 ELSE 0)
                                    + (IF g[o] \in K THEN 1 ELSE 0)
<1> DEFINE F == In(f, K)
           E == F \ {o}
<1>1. IsFiniteSet(F) /\ Cardinality(F) \in Nat
  BY GateAssumption, FS_Subset, FS_CardinalityType DEF In
<1>2. IsFiniteSet(E) /\ Cardinality(E) = IF o \in F THEN Cardinality(F) - 1 ELSE Cardinality(F)
  BY <1>1, FS_RemoveElement
<1>3. IsFiniteSet(E \cup {o}) /\ Cardinality(E \cup {o}) = Cardinality(E) + 1
  BY <1>2, FS_AddElement
<1>4. In(g, K) = IF g[o] \in K THEN E \cup {o} ELSE E
  BY DEF In
<1>5. o \in F <=> f[o] \in K
  BY DEF In
<1>6. Cardinality(E) \in Nat
  BY <1>2, FS_CardinalityType
<1> HIDE DEF F, E
<1>7. Cardinality(In(g, K)) = Cardinality(F) - (IF f[o] \in K THEN 1 ELSE 0)
                                             + (IF g[o] \in K THEN 1 ELSE 0)
  BY <1>1, <1>2, <1>3, <1>4, <1>5, <1>6
<1>8. f[o] \in K => Cardinality(F) > 0
  BY <1>1, <1>2, <1>5, <1>6
<1> QED
  BY <1>1, <1>7, <1>8 DEF F

(* The same when grants are added to, or taken from, a set of them.        *)
LEMMA CountAfterGrant ==
  ASSUME NEW G \in SUBSET Ops, NEW P \in SUBSET Ops, P \cap G = {}
  PROVE  /\ Cardinality(G) \in Nat
         /\ Cardinality(G \cup P) = Cardinality(G) + Cardinality(P)
<1>1. IsFiniteSet(G) /\ IsFiniteSet(P) /\ Cardinality(G) \in Nat /\ Cardinality(P) \in Nat
  BY GateAssumption, FS_Subset, FS_CardinalityType
<1>2. Cardinality(G \cup P) = Cardinality(G) + Cardinality(P) - Cardinality(G \cap P)
  BY <1>1, FS_Union
<1>3. Cardinality(G \cap P) = 0
  <2>1. G \cap P = {}
    OBVIOUS
  <2> QED
    BY <2>1, FS_EmptySet
<1> QED
  BY <1>1, <1>2, <1>3

(* A granted waiter that wakes, or leaves, takes one grant with it.        *)
LEMMA CountAfterWake ==
  ASSUME NEW G \in SUBSET Ops, NEW o
  PROVE  /\ Cardinality(G) \in Nat
         /\ Cardinality(G \ {o}) = Cardinality(G) - (IF o \in G THEN 1 ELSE 0)
         /\ o \in G => Cardinality(G) > 0
<1>1. IsFiniteSet(G) /\ Cardinality(G) \in Nat
  BY GateAssumption, FS_Subset, FS_CardinalityType
<1>2. /\ IsFiniteSet(G \ {o})
      /\ Cardinality(G \ {o}) = IF o \in G THEN Cardinality(G) - 1 ELSE Cardinality(G)
  BY <1>1, FS_RemoveElement
<1>3. Cardinality(G \ {o}) \in Nat
  BY <1>2, FS_CardinalityType
<1> QED
  BY <1>1, <1>2, <1>3

(* What a changed queue is told is told to operations in it.               *)
LEMMA MovedType ==
  ASSUME NEW w \in Seq(Ops)
  PROVE  Moved(w) \in SUBSET Message
<1>1. \A i \in DOMAIN w : w[i] \in Ops /\ i \in Nat \ {0}
  OBVIOUS
<1> QED
  BY <1>1 DEF Moved, Message

(* One grant(): it starts some of the queue w, within the limit, and       *)
(* leaves the others in order; nobody waits on while a slot is free.       *)
GrantEffect(t, w, r, l) ==
  /\ granted' \in SUBSET Ops /\ granted \ {t} \subseteq granted'
  /\ \A o \in granted' : (o \in granted /\ o # t) \/ \E j \in DOMAIN w : o = w[j]
  /\ running' \in Nat
  /\ running' = r + Cardinality(granted') - Cardinality(granted)
                  + (IF t \in granted THEN 1 ELSE 0)
  /\ granted' \ granted # {} => running' <= l
  /\ waiting' \in Seq(Ops) /\ Distinct(waiting')
  /\ \A i \in DOMAIN waiting' :
       waiting'[i] \notin granted' /\ \E j \in DOMAIN w : waiting'[i] = w[j]
  /\ waiting' # <<>> => running' >= l
  /\ telling' \in [Tellers -> SUBSET Message]

(* What grant() leaves: who holds a slot, who waits, and what they are told. *)
LEMMA GrantStep ==
  ASSUME TypeOK, NEW t \in Tellers, NEW w \in Seq(Ops), Distinct(w),
         \A i \in DOMAIN w : w[i] \notin granted \ {t},
         NEW r \in Nat, NEW l \in Nat, Grant(t, w, r, l)
  PROVE  GrantEffect(t, w, r, l)
<1> DEFINE n == Grants(w, r, l)
           rest == SubSeq(w, n + 1, Len(w))
           P == Prefix(w, n)
<1>0. n = Grants(w, r, l) /\ rest = SubSeq(w, n + 1, Len(w))
  OBVIOUS
<1>1. n \in 0..Len(w) /\ (n > 0 => r + n <= l) /\ (n < Len(w) => r + n >= l)
  BY DEF Grants
<1> HIDE DEF n
<1>a. /\ rest \in Seq(Ops) /\ Len(rest) = Len(w) - n
      /\ \A i \in 1..Len(w) - n : rest[i] = w[i + n]
  BY <1>1, DropFacts
<1> HIDE DEF rest
<1>2. running' = r + n /\ granted' = (granted \ {t}) \cup P /\ waiting' = rest
  BY <1>0 DEF Grant, Prefix
<1>3. telling' \in [Tellers -> SUBSET Message]
  BY <1>0, <1>a, MovedType DEF Grant, TypeOK
<1>4. IsFiniteSet(P) /\ Cardinality(P) = n
  BY <1>1, PrefixCount
<1>5. /\ Len(w) \in Nat /\ n \in Nat /\ n <= Len(w) /\ DOMAIN w = 1..Len(w)
      /\ \A i \in 1..Len(w) : w[i] \in Ops
  BY <1>1
<1>b. DOMAIN rest = 1..Len(w) - n /\ (rest # <<>> => r + n >= l)
  BY <1>1, <1>5, <1>a
<1> HIDE DEF P
<1>6. P \in SUBSET Ops /\ (\A o \in P : \E j \in 1..n : o = w[j])
  BY <1>5 DEF P, Prefix
<1>7. P \cap (granted \ {t}) = {} /\ (\A o \in P : \E j \in DOMAIN w : o = w[j])
  BY <1>5, <1>6
<1>8. P # {} => n > 0
  BY <1>5, <1>6
<1>9. \A i \in DOMAIN rest : i + n \in DOMAIN w /\ rest[i] = w[i + n] /\ i + n > n
  BY ONLY <1>5, <1>a, <1>b
<1>10. Distinct(rest)
  BY <1>5, <1>9 DEF Distinct
<1>11. \A i \in DOMAIN rest : rest[i] \notin P
  BY <1>5, <1>6, <1>9 DEF Distinct
<1>12. Cardinality(P) \in Nat /\ running' = r + Cardinality(P)
  BY <1>2, <1>4, <1>5
<1>13. P # {} => running' <= l
  BY <1>1, <1>2, <1>8
<1>14. \A i \in DOMAIN rest :
          rest[i] \notin (granted \ {t}) \cup P /\ \E j \in DOMAIN w : rest[i] = w[j]
  BY <1>9, <1>11
<1>15. rest # <<>> => running' >= l
  BY <1>2, <1>b
<1>16. Cardinality(granted') = Cardinality(granted) - (IF t \in granted THEN 1 ELSE 0)
                                                    + Cardinality(P)
  <2>1. granted \in SUBSET Ops /\ granted \ {t} \in SUBSET Ops
    BY DEF TypeOK, Ranges
  <2>2. Cardinality((granted \ {t}) \cup P) = Cardinality(granted \ {t}) + Cardinality(P)
    BY <1>6, <1>7, <2>1, CountAfterGrant
  <2>3. Cardinality(granted \ {t}) = Cardinality(granted) - (IF t \in granted THEN 1 ELSE 0)
    BY <2>1, CountAfterWake
  <2> QED
    BY <1>2, <2>2, <2>3
<1>17. running' = r + Cardinality(granted') - Cardinality(granted)
                    + (IF t \in granted THEN 1 ELSE 0)
  <2>1. Cardinality(granted) \in Nat
    BY CountAfterWake DEF TypeOK, Ranges
  <2> QED
    BY <1>12, <1>16, <2>1
<1>18. granted' \ granted # {} => P # {}
  BY <1>2
<1>19. granted' \in SUBSET Ops /\ granted \ {t} \subseteq granted'
       /\ \A o \in granted' : (o \in granted /\ o # t) \/ \E j \in DOMAIN w : o = w[j]
  BY <1>2, <1>6, <1>7 DEF TypeOK, Ranges
<1>20. running' \in Nat
  BY <1>12
<1> QED
  BY <1>2, <1>3, <1>10, <1>13, <1>14, <1>15, <1>a, <1>17, <1>18, <1>19, <1>20
     DEF GrantEffect

(* The three counts after one operation moved.                             *)
MoveFacts(o, place) ==
  /\ pc' \in [Ops -> Location] /\ pc'[o] = place
  /\ \A x \in Ops \ {o} : pc'[x] = pc[x]
  /\ \A K \in {Using, {"resting"}, Reading} :
       /\ Cardinality(In(pc, K)) \in Nat
       /\ pc[o] \in K => Cardinality(In(pc, K)) > 0
       /\ Cardinality(In(pc', K)) =
            Cardinality(In(pc, K)) - (IF pc[o] \in K THEN 1 ELSE 0)
                                   + (IF place \in K THEN 1 ELSE 0)

(* An operation that goes to a place keeps every other count.              *)
LEMMA MoveCounts ==
  ASSUME TypeOK, NEW o \in Ops, NEW place \in Location, Goes(o, place)
  PROVE  MoveFacts(o, place)
<1>1. /\ pc \in [Ops -> Location] /\ pc' \in [Ops -> Location] /\ pc'[o] = place
      /\ \A x \in Ops \ {o} : pc'[x] = pc[x]
  BY DEF TypeOK, Goes
<1>2. ASSUME NEW K
      PROVE  /\ Cardinality(In(pc, K)) \in Nat
             /\ pc[o] \in K => Cardinality(In(pc, K)) > 0
             /\ Cardinality(In(pc', K)) =
                  Cardinality(In(pc, K)) - (IF pc[o] \in K THEN 1 ELSE 0)
                                         + (IF pc'[o] \in K THEN 1 ELSE 0)
  BY <1>1, CountAfterMove
<1> QED
  BY <1>1, <1>2 DEF MoveFacts

(* Whoever comes to hold a slot comes within the limit.                    *)
Admission == Holders' \ Holders # {} => running' <= limit'

(* The gate starts empty.                                                  *)
LEMMA InvInit == Init => GateInv
<1> SUFFICES ASSUME Init PROVE GateInv
  OBVIOUS
<1>1. TypeOK
  <2>1. Ranges
    BY EmptySeq DEF Init, Ranges, NoLimit
  <2>2. pc \in [Ops -> Location] /\ telling \in [Tellers -> SUBSET Message]
        /\ shown \in [Ops -> Nat]
    BY DEF Init, Location, Runs
  <2> QED
    BY <2>1, <2>2 DEF TypeOK
<1>2. QueueOK
  BY DEF Init, QueueOK, Distinct
<1>3. Counted
  <2>1. In(pc, Using) = {} /\ In(pc, {"resting"}) = {} /\ In(pc, Reading) = {}
    BY DEF Init, In, Using, Reading
  <2>2. granted = {} /\ running = 0 /\ resting = 0 /\ reading = 0
    BY DEF Init
  <2>3. Cardinality({}) = 0
    BY FS_EmptySet
  <2> QED
    BY <2>1, <2>2, <2>3 DEF Counted
<1>4. NoStrandedWaiter
  BY DEF Init, NoStrandedWaiter
<1> QED
  BY <1>1, <1>2, <1>3, <1>4 DEF GateInv

(* Before the limit is known nobody is past reading it.                    *)
Early == {"idle", "read", "asking", "unanswered", "ended"}

(* A step that leaves the queue, or only wakes a granted operation.        *)
LEMMA QueueKept ==
  ASSUME GateInv, NEW o \in Ops, NEW place \in Location, MoveFacts(o, place),
         waiting' = waiting, limit' = limit, granted' \in SUBSET granted,
         \/ place \in Queueing
         \/ pc[o] \notin Queueing
         \/ o \in granted /\ o \notin granted',
         limit = NoLimit => place \in Early
  PROVE  QueueOK'
<1>1. \A i \in DOMAIN waiting : waiting[i] \in Ops
  BY DEF GateInv, TypeOK, Ranges
<1>2. granted \in SUBSET Ops
  BY DEF GateInv, TypeOK, Ranges
<1>3. /\ Distinct(waiting)
      /\ \A i \in DOMAIN waiting : waiting[i] \notin granted /\ pc[waiting[i]] \in Queueing
      /\ \A x \in granted : pc[x] \in Queueing
      /\ limit = NoLimit => waiting = <<>> /\ \A x \in Ops : pc[x] \in Early
  BY DEF GateInv, QueueOK, Early
<1>4. pc'[o] = place /\ \A x \in Ops \ {o} : pc'[x] = pc[x]
  BY DEF MoveFacts
<1>5. \A i \in DOMAIN waiting : waiting[i] \notin granted' /\ pc'[waiting[i]] \in Queueing
  BY <1>1, <1>3, <1>4
<1>6. \A x \in granted' : pc'[x] \in Queueing
  BY <1>2, <1>3, <1>4
<1>7. limit' = NoLimit => waiting' = <<>> /\ \A x \in Ops : pc'[x] \in Early
  BY <1>3, <1>4
<1> QED
  BY <1>3, <1>5, <1>6, <1>7 DEF QueueOK, Early

(* A step that grants: the queue is what grant() left of w.                *)
LEMMA QueueGranted ==
  ASSUME NEW t, NEW w, NEW r, NEW l \in Nat, GrantEffect(t, w, r, l),
         \A x \in granted \ {t} : pc'[x] \in Queueing,
         \A j \in DOMAIN w : pc'[w[j]] \in Queueing,
         limit' = l, l # NoLimit
  PROVE  QueueOK' /\ NoStrandedWaiter'
<1>1. \A x \in granted' : pc'[x] \in Queueing
  BY DEF GrantEffect
<1>2. \A i \in DOMAIN waiting' : waiting'[i] \notin granted' /\ pc'[waiting'[i]] \in Queueing
  BY DEF GrantEffect
<1>3. QueueOK'
  BY <1>1, <1>2 DEF GrantEffect, QueueOK
<1>4. NoStrandedWaiter'
  BY DEF GrantEffect, NoStrandedWaiter
<1> QED
  BY <1>3, <1>4

(* slot() looking at the limit keeps the invariant.                        *)
LEMMA InvBegin ==
  ASSUME GateInv, NEW o \in Ops, Begin(o)
  PROVE  GateInv' /\ Admission
<1> DEFINE place == IF limit = NoLimit THEN "read" ELSE "acquire"
<1>1. Goes(o, place) /\ pc[o] = "idle" /\ place \in Location
      /\ granted' \in SUBSET granted /\ waiting' = waiting /\ limit' = limit
  BY DEF Begin, At, Location, Reading, Queueing, gateState
<1>2. MoveFacts(o, place)
  BY <1>1, MoveCounts DEF GateInv
<1>3. TypeOK'
  BY <1>1, <1>2 DEF Begin, gateState, MoveFacts, GateInv, TypeOK, Ranges, Runs
<1>4. QueueOK'
  <2>1. pc[o] \notin Queueing
    BY <1>1 DEF Queueing, Reading
  <2>2. limit = NoLimit => place \in Early
    BY <1>1 DEF Begin, At, GateInv, QueueOK, Early, Reading, Queueing
  <2> QED
    BY <1>1, <1>2, <2>1, <2>2, QueueKept
<1>5. Counted'
  BY <1>1, <1>2 DEF Begin, gateState, MoveFacts, GateInv, Counted, Using, Reading
<1>6. NoStrandedWaiter'
  BY <1>1, <1>2 DEF Begin, gateState, MoveFacts, GateInv, NoStrandedWaiter
<1>7. Admission
  BY <1>1, <1>2 DEF Admission, Holders, MoveFacts, Queueing, Reading
<1> QED
  BY <1>3, <1>4, <1>5, <1>6, <1>7 DEF GateInv

(* Joining the read of the limit keeps the invariant.                      *)
LEMMA InvReadLimit ==
  ASSUME GateInv, NEW o \in Ops, ReadLimit(o)
  PROVE  GateInv' /\ Admission
<1> DEFINE place == "asking"
<1>1. Goes(o, place) /\ pc[o] = "read" /\ place \in Location
      /\ granted' \in SUBSET granted /\ waiting' = waiting /\ limit' = limit
  BY DEF ReadLimit, At, Location, Reading, Queueing, gateState
<1>2. MoveFacts(o, place)
  BY <1>1, MoveCounts DEF GateInv
<1>3. TypeOK'
  BY <1>1, <1>2 DEF ReadLimit, gateState, MoveFacts, GateInv, TypeOK, Ranges, Runs
<1>4. QueueOK'
  <2>1. pc[o] \notin Queueing
    BY <1>1 DEF Queueing, Reading
  <2>2. limit = NoLimit => place \in Early
    BY <1>1 DEF ReadLimit, At, GateInv, QueueOK, Early, Reading, Queueing
  <2> QED
    BY <1>1, <1>2, <2>1, <2>2, QueueKept
<1>5. Counted'
  BY <1>1, <1>2 DEF ReadLimit, gateState, MoveFacts, GateInv, Counted, Using, Reading
<1>6. NoStrandedWaiter'
  BY <1>1, <1>2 DEF ReadLimit, gateState, MoveFacts, GateInv, NoStrandedWaiter
<1>7. Admission
  BY <1>1, <1>2 DEF Admission, Holders, MoveFacts, Queueing, Reading
<1> QED
  BY <1>3, <1>4, <1>5, <1>6, <1>7 DEF GateInv

(* A read the full queue refuses keeps the invariant.                      *)
LEMMA InvReadRefused ==
  ASSUME GateInv, NEW o \in Ops, ReadRefused(o)
  PROVE  GateInv' /\ Admission
<1> DEFINE place == "ended"
<1>1. Goes(o, place) /\ pc[o] = "read" /\ place \in Location
      /\ granted' \in SUBSET granted /\ waiting' = waiting /\ limit' = limit
  BY DEF ReadRefused, At, Location, Reading, Queueing, gateState
<1>2. MoveFacts(o, place)
  BY <1>1, MoveCounts DEF GateInv
<1>3. TypeOK'
  BY <1>1, <1>2 DEF ReadRefused, gateState, MoveFacts, GateInv, TypeOK, Ranges, Runs
<1>4. QueueOK'
  <2>1. pc[o] \notin Queueing
    BY <1>1 DEF Queueing, Reading
  <2>2. limit = NoLimit => place \in Early
    BY <1>1 DEF ReadRefused, At, GateInv, QueueOK, Early, Reading, Queueing
  <2> QED
    BY <1>1, <1>2, <2>1, <2>2, QueueKept
<1>5. Counted'
  BY <1>1, <1>2 DEF ReadRefused, gateState, MoveFacts, GateInv, Counted, Using, Reading
<1>6. NoStrandedWaiter'
  BY <1>1, <1>2 DEF ReadRefused, gateState, MoveFacts, GateInv, NoStrandedWaiter
<1>7. Admission
  BY <1>1, <1>2 DEF Admission, Holders, MoveFacts, Queueing, Reading
<1> QED
  BY <1>3, <1>4, <1>5, <1>6, <1>7 DEF GateInv

(* The end of the wait for the limit (drop of Reading) keeps it.           *)
LEMMA InvEndReading ==
  ASSUME GateInv, NEW o \in Ops, EndReading(o)
  PROVE  GateInv' /\ Admission
<1> DEFINE place == IF pc[o] = "answered" THEN "acquire" ELSE "ended"
<1>1. Goes(o, place) /\ pc[o] \in {"answered", "unanswered"} /\ place \in Location
      /\ granted' \in SUBSET granted /\ waiting' = waiting /\ limit' = limit
  BY DEF EndReading, At, Location, Reading, Queueing, gateState
<1>2. MoveFacts(o, place)
  BY <1>1, MoveCounts DEF GateInv
<1>3. TypeOK'
  <2>1. reading \in Nat /\ reading > 0
    BY <1>1, <1>2 DEF MoveFacts, GateInv, Counted, Reading
  <2> QED
    BY <1>1, <1>2, <2>1 DEF EndReading, MoveFacts, GateInv, TypeOK, Ranges
<1>4. QueueOK'
  <2>1. pc[o] \notin Queueing
    BY <1>1 DEF Queueing, Reading
  <2>2. limit = NoLimit => place \in Early
    BY <1>1 DEF EndReading, At, GateInv, QueueOK, Early, Reading, Queueing
  <2> QED
    BY <1>1, <1>2, <2>1, <2>2, QueueKept
<1>5. Counted'
  BY <1>1, <1>2 DEF EndReading, gateState, MoveFacts, GateInv, Counted, Using, Reading
<1>6. NoStrandedWaiter'
  BY <1>1, <1>2 DEF EndReading, gateState, MoveFacts, GateInv, NoStrandedWaiter
<1>7. Admission
  BY <1>1, <1>2 DEF Admission, Holders, MoveFacts, Queueing, Reading
<1> QED
  BY <1>3, <1>4, <1>5, <1>6, <1>7 DEF GateInv

(* Taking a free slot at once keeps the invariant.                         *)
LEMMA InvAcquireFree ==
  ASSUME GateInv, NEW o \in Ops, AcquireFree(o)
  PROVE  GateInv' /\ Admission
<1> DEFINE place == "starting"
<1>1. Goes(o, place) /\ pc[o] \in {"acquire", "rested"} /\ place \in Location
      /\ granted' \in SUBSET granted /\ waiting' = waiting /\ limit' = limit
  BY DEF AcquireFree, Acquiring, Returning, SlotFree, At, Location, Reading, Queueing, gateState
<1>2. MoveFacts(o, place)
  BY <1>1, MoveCounts DEF GateInv
<1>3. TypeOK'
  BY <1>1, <1>2 DEF AcquireFree, Acquiring, Returning, SlotFree, gateState, MoveFacts, GateInv, TypeOK, Ranges, Runs
<1>4. QueueOK'
  <2>1. pc[o] \notin Queueing
    BY <1>1 DEF Queueing, Reading
  <2>2. limit = NoLimit => place \in Early
    BY <1>1 DEF AcquireFree, Acquiring, Returning, SlotFree, At, GateInv, QueueOK, Early, Reading, Queueing
  <2> QED
    BY <1>1, <1>2, <2>1, <2>2, QueueKept
<1>5. Counted'
  <2>1. Cardinality(granted) \in Nat
    BY CountAfterWake DEF GateInv, TypeOK, Ranges
  <2> QED
    BY <1>1, <1>2, <2>1 DEF AcquireFree, MoveFacts, GateInv, Counted, Using, Reading
<1>6. NoStrandedWaiter'
  BY <1>1, <1>2 DEF AcquireFree, Acquiring, Returning, SlotFree, gateState, MoveFacts, GateInv, NoStrandedWaiter
<1>7. Admission
  BY <1>1 DEF AcquireFree, SlotFree, Admission, GateInv, TypeOK, Ranges, NoLimit, Limits
<1> QED
  BY <1>3, <1>4, <1>5, <1>6, <1>7 DEF GateInv

(* A refusal of acquire() keeps the invariant.                             *)
LEMMA InvAcquireRefused ==
  ASSUME GateInv, NEW o \in Ops, AcquireRefused(o)
  PROVE  GateInv' /\ Admission
<1> DEFINE place == "ended"
<1>1. Goes(o, place) /\ pc[o] = "acquire" /\ place \in Location
      /\ granted' \in SUBSET granted /\ waiting' = waiting /\ limit' = limit
  BY DEF AcquireRefused, Acquiring, Returning, SlotFree, At, Location, Reading, Queueing, gateState
<1>2. MoveFacts(o, place)
  BY <1>1, MoveCounts DEF GateInv
<1>3. TypeOK'
  BY <1>1, <1>2 DEF AcquireRefused, Acquiring, Returning, SlotFree, gateState, MoveFacts, GateInv, TypeOK, Ranges, Runs
<1>4. QueueOK'
  <2>1. pc[o] \notin Queueing
    BY <1>1 DEF Queueing, Reading
  <2>2. limit = NoLimit => place \in Early
    BY <1>1 DEF AcquireRefused, Acquiring, Returning, SlotFree, At, GateInv, QueueOK, Early, Reading, Queueing
  <2> QED
    BY <1>1, <1>2, <2>1, <2>2, QueueKept
<1>5. Counted'
  BY <1>1, <1>2 DEF AcquireRefused, Acquiring, Returning, SlotFree, gateState, MoveFacts, GateInv, Counted, Using, Reading
<1>6. NoStrandedWaiter'
  BY <1>1, <1>2 DEF AcquireRefused, Acquiring, Returning, SlotFree, gateState, MoveFacts, GateInv, NoStrandedWaiter
<1>7. Admission
  BY <1>1, <1>2 DEF Admission, Holders, MoveFacts, Queueing, Reading
<1> QED
  BY <1>3, <1>4, <1>5, <1>6, <1>7 DEF GateInv

(* Telling the run that it starts keeps the invariant.                     *)
LEMMA InvStart ==
  ASSUME GateInv, NEW o \in Ops, Start(o)
  PROVE  GateInv' /\ Admission
<1> DEFINE place == "running"
<1>1. Goes(o, place) /\ pc[o] = "starting" /\ place \in Location
      /\ granted' \in SUBSET granted /\ waiting' = waiting /\ limit' = limit
  BY DEF Start, At, Location, Reading, Queueing, gateState
<1>2. MoveFacts(o, place)
  BY <1>1, MoveCounts DEF GateInv
<1>3. TypeOK'
  BY <1>1, <1>2 DEF Start, gateState, MoveFacts, GateInv, TypeOK, Ranges, Runs
<1>4. QueueOK'
  <2>1. pc[o] \notin Queueing
    BY <1>1 DEF Queueing, Reading
  <2>2. limit = NoLimit => place \in Early
    BY <1>1 DEF Start, At, GateInv, QueueOK, Early, Reading, Queueing
  <2> QED
    BY <1>1, <1>2, <2>1, <2>2, QueueKept
<1>5. Counted'
  BY <1>1, <1>2 DEF Start, gateState, MoveFacts, GateInv, Counted, Using, Reading
<1>6. NoStrandedWaiter'
  BY <1>1, <1>2 DEF Start, gateState, MoveFacts, GateInv, NoStrandedWaiter
<1>7. Admission
  BY <1>1, <1>2 DEF Admission, Holders, MoveFacts, Queueing, Reading
<1> QED
  BY <1>3, <1>4, <1>5, <1>6, <1>7 DEF GateInv

(* Waking from a grant (WaitGuard disarmed) keeps the invariant.           *)
LEMMA InvWake ==
  ASSUME GateInv, NEW o \in Ops, Wake(o)
  PROVE  GateInv' /\ Admission
<1> DEFINE place == "running"
<1>1. Goes(o, place) /\ pc[o] \in Queueing /\ place \in Location
      /\ granted' \in SUBSET granted /\ waiting' = waiting /\ limit' = limit
  BY DEF Wake, At, Location, Reading, Queueing, gateState
<1>2. MoveFacts(o, place)
  BY <1>1, MoveCounts DEF GateInv
<1>3. TypeOK'
  BY <1>1, <1>2 DEF Wake, gateState, MoveFacts, GateInv, TypeOK, Ranges, Runs
<1>4. QueueOK'
  <2>1. o \in granted /\ o \notin granted'
    BY <1>1 DEF Queueing, Reading, Wake
  <2>2. limit = NoLimit => place \in Early
    BY <1>1 DEF Wake, At, GateInv, QueueOK, Early, Reading, Queueing
  <2> QED
    BY <1>1, <1>2, <2>1, <2>2, QueueKept
<1>5. Counted'
  <2>1. Cardinality(granted') = Cardinality(granted) - 1 /\ Cardinality(granted) \in Nat
    BY CountAfterWake DEF Wake, GateInv, TypeOK, Ranges
  <2> QED
    BY <1>1, <1>2, <2>1 DEF Wake, MoveFacts, GateInv, Counted, Using, Reading, Queueing
<1>6. NoStrandedWaiter'
  BY <1>1, <1>2 DEF Wake, Queueing, MoveFacts, GateInv, NoStrandedWaiter
<1>7. Admission
  BY <1>1, <1>2 DEF Admission, Holders, MoveFacts, Queueing, Reading, Wake
<1> QED
  BY <1>3, <1>4, <1>5, <1>6, <1>7 DEF GateInv

(* Counting as resting keeps the invariant.                                *)
LEMMA InvRest ==
  ASSUME GateInv, NEW o \in Ops, Rest(o)
  PROVE  GateInv' /\ Admission
<1> DEFINE place == "resting"
<1>1. Goes(o, place) /\ pc[o] = "released" /\ place \in Location
      /\ granted' \in SUBSET granted /\ waiting' = waiting /\ limit' = limit
  BY DEF Rest, At, Location, Reading, Queueing, gateState
<1>2. MoveFacts(o, place)
  BY <1>1, MoveCounts DEF GateInv
<1>3. TypeOK'
  BY <1>1, <1>2 DEF Rest, gateState, MoveFacts, GateInv, TypeOK, Ranges, Runs
<1>4. QueueOK'
  <2>1. pc[o] \notin Queueing
    BY <1>1 DEF Queueing, Reading
  <2>2. limit = NoLimit => place \in Early
    BY <1>1 DEF Rest, At, GateInv, QueueOK, Early, Reading, Queueing
  <2> QED
    BY <1>1, <1>2, <2>1, <2>2, QueueKept
<1>5. Counted'
  BY <1>1, <1>2 DEF Rest, gateState, MoveFacts, GateInv, Counted, Using, Reading
<1>6. NoStrandedWaiter'
  BY <1>1, <1>2 DEF Rest, MoveFacts, GateInv, TypeOK, Ranges, NoStrandedWaiter
<1>7. Admission
  BY <1>1, <1>2 DEF Admission, Holders, MoveFacts, Queueing, Reading
<1> QED
  BY <1>3, <1>4, <1>5, <1>6, <1>7 DEF GateInv

(* The end of the rest keeps it: the operation is about to queue again.    *)
LEMMA InvEndRest ==
  ASSUME GateInv, NEW o \in Ops, EndRest(o)
  PROVE  GateInv' /\ Admission
<1> DEFINE place == "rested"
<1>1. Goes(o, place) /\ pc[o] = "resting" /\ place \in Location
      /\ granted' \in SUBSET granted /\ waiting' = waiting /\ limit' = limit
  BY DEF EndRest, At, Location, Reading, Queueing, gateState
<1>2. MoveFacts(o, place)
  BY <1>1, MoveCounts DEF GateInv
<1>3. TypeOK'
  <2>1. resting \in Nat /\ resting > 0
    BY <1>1, <1>2 DEF MoveFacts, GateInv, Counted
  <2> QED
    BY <1>1, <1>2, <2>1 DEF EndRest, MoveFacts, GateInv, TypeOK, Ranges
<1>4. QueueOK'
  <2>1. pc[o] \notin Queueing
    BY <1>1 DEF Queueing, Reading
  <2>2. limit = NoLimit => place \in Early
    BY <1>1 DEF EndRest, At, GateInv, QueueOK, Early, Reading, Queueing
  <2> QED
    BY <1>1, <1>2, <2>1, <2>2, QueueKept
<1>5. Counted'
  BY <1>1, <1>2 DEF EndRest, gateState, MoveFacts, GateInv, Counted, Using, Reading
<1>6. NoStrandedWaiter'
  BY <1>1, <1>2 DEF EndRest, gateState, MoveFacts, GateInv, NoStrandedWaiter
<1>7. Admission
  BY <1>1, <1>2 DEF Admission, Holders, MoveFacts, Queueing, Reading
<1> QED
  BY <1>3, <1>4, <1>5, <1>6, <1>7 DEF GateInv

(* An abort while reading keeps the invariant.                             *)
LEMMA InvCancelReading ==
  ASSUME GateInv, NEW o \in Ops, CancelReading(o)
  PROVE  GateInv' /\ Admission
<1> DEFINE place == "ended"
<1>1. Goes(o, place) /\ pc[o] \in Reading /\ place \in Location
      /\ granted' \in SUBSET granted /\ waiting' = waiting /\ limit' = limit
  BY DEF CancelReading, At, Location, Reading, Queueing, gateState
<1>2. MoveFacts(o, place)
  BY <1>1, MoveCounts DEF GateInv
<1>3. TypeOK'
  <2>1. reading \in Nat /\ reading > 0
    BY <1>1, <1>2 DEF MoveFacts, GateInv, Counted, Reading
  <2> QED
    BY <1>1, <1>2, <2>1 DEF CancelReading, MoveFacts, GateInv, TypeOK, Ranges
<1>4. QueueOK'
  <2>1. pc[o] \notin Queueing
    BY <1>1 DEF Queueing, Reading
  <2>2. limit = NoLimit => place \in Early
    BY <1>1 DEF CancelReading, At, GateInv, QueueOK, Early, Reading, Queueing
  <2> QED
    BY <1>1, <1>2, <2>1, <2>2, QueueKept
<1>5. Counted'
  BY <1>1, <1>2 DEF CancelReading, gateState, MoveFacts, GateInv, Counted, Using, Reading
<1>6. NoStrandedWaiter'
  BY <1>1, <1>2 DEF CancelReading, Reading, MoveFacts, GateInv, NoStrandedWaiter
<1>7. Admission
  BY <1>1, <1>2 DEF Admission, Holders, MoveFacts, Queueing, Reading
<1> QED
  BY <1>3, <1>4, <1>5, <1>6, <1>7 DEF GateInv

(* Giving the slot back at the end (Held::release) keeps the invariant.    *)
LEMMA InvFinish ==
  ASSUME GateInv, NEW o \in Ops, Finish(o)
  PROVE  GateInv' /\ Admission
<1>1. /\ Goes(o, "ended") /\ pc[o] = "running" /\ "ended" \in Location
      /\ Grant(o, waiting, running - 1, limit) /\ limit' = limit
  BY DEF Finish, At, Location
<1>2. MoveFacts(o, "ended")
  BY <1>1, MoveCounts DEF GateInv
<1>3. limit \in Nat /\ limit # NoLimit
  BY <1>1 DEF GateInv, TypeOK, Ranges, NoLimit, Limits, QueueOK, Queueing
<1>4. Cardinality(granted) \in Nat /\ (o \in granted => Cardinality(granted) > 0)
  BY CountAfterWake DEF GateInv, TypeOK, Ranges
<1>5. running - 1 \in Nat
  BY <1>1, <1>2, <1>4 DEF MoveFacts, GateInv, TypeOK, Ranges, Counted, Using
<1>6. \A i \in DOMAIN waiting : waiting[i] \in Ops /\ waiting[i] # o
  <2>1. \A i \in DOMAIN waiting : waiting[i] \in Ops
    BY DEF GateInv, TypeOK, Ranges
  <2> QED
    BY <1>1, <2>1 DEF GateInv, QueueOK, Queueing
<1>7. GrantEffect(o, waiting, running - 1, limit)
  <2>1. TypeOK /\ waiting \in Seq(Ops) /\ Distinct(waiting) /\ o \in Tellers
    BY DEF GateInv, TypeOK, Ranges, QueueOK, Tellers
  <2>2. \A i \in DOMAIN waiting : waiting[i] \notin granted \ {o}
    BY DEF GateInv, QueueOK
  <2> QED
    BY ONLY <1>1, <1>3, <1>5, <2>1, <2>2, GrantStep
<1>8. TypeOK'
  BY <1>1, <1>2, <1>5, <1>7 DEF Finish, MoveFacts, GrantEffect, GateInv, TypeOK, Ranges
<1>9. QueueOK' /\ NoStrandedWaiter'
  <2>1. \A x \in granted \ {o} : pc'[x] \in Queueing
    BY <1>2 DEF MoveFacts, GateInv, TypeOK, Ranges, QueueOK
  <2>2. \A j \in DOMAIN waiting : pc'[waiting[j]] \in Queueing
    BY <1>2, <1>6 DEF MoveFacts, GateInv, QueueOK
  <2> QED
    BY <1>1, <1>3, <1>7, <2>1, <2>2, QueueGranted
<1>10. Counted'
  <2>1. o \notin granted
    BY <1>1 DEF GateInv, QueueOK, Queueing
  <2>2. Cardinality(granted') \in Nat
    BY <1>7, CountAfterWake DEF GrantEffect
  <2> QED
    BY <1>1, <1>2, <1>4, <1>7, <2>1, <2>2
       DEF Finish, MoveFacts, GrantEffect, GateInv, Counted, Using, Reading, Queueing
<1>11. Admission
  BY <1>1, <1>2, <1>7 DEF Admission, Holders, MoveFacts, GrantEffect
<1> QED
  BY <1>8, <1>9, <1>10, <1>11 DEF GateInv

(* Giving the slot back to rest (Held::busy) keeps the invariant.          *)
LEMMA InvBusy ==
  ASSUME GateInv, NEW o \in Ops, Busy(o)
  PROVE  GateInv' /\ Admission
<1>1. /\ Goes(o, "released") /\ pc[o] = "running" /\ "released" \in Location
      /\ Grant(o, waiting, running - 1, limit) /\ limit' = limit
  BY DEF Busy, At, Location
<1>2. MoveFacts(o, "released")
  BY <1>1, MoveCounts DEF GateInv
<1>3. limit \in Nat /\ limit # NoLimit
  BY <1>1 DEF GateInv, TypeOK, Ranges, NoLimit, Limits, QueueOK, Queueing
<1>4. Cardinality(granted) \in Nat /\ (o \in granted => Cardinality(granted) > 0)
  BY CountAfterWake DEF GateInv, TypeOK, Ranges
<1>5. running - 1 \in Nat
  BY <1>1, <1>2, <1>4 DEF MoveFacts, GateInv, TypeOK, Ranges, Counted, Using
<1>6. \A i \in DOMAIN waiting : waiting[i] \in Ops /\ waiting[i] # o
  <2>1. \A i \in DOMAIN waiting : waiting[i] \in Ops
    BY DEF GateInv, TypeOK, Ranges
  <2> QED
    BY <1>1, <2>1 DEF GateInv, QueueOK, Queueing
<1>7. GrantEffect(o, waiting, running - 1, limit)
  <2>1. TypeOK /\ waiting \in Seq(Ops) /\ Distinct(waiting) /\ o \in Tellers
    BY DEF GateInv, TypeOK, Ranges, QueueOK, Tellers
  <2>2. \A i \in DOMAIN waiting : waiting[i] \notin granted \ {o}
    BY DEF GateInv, QueueOK
  <2> QED
    BY ONLY <1>1, <1>3, <1>5, <2>1, <2>2, GrantStep
<1>8. TypeOK'
  BY <1>1, <1>2, <1>5, <1>7 DEF Busy, MoveFacts, GrantEffect, GateInv, TypeOK, Ranges
<1>9. QueueOK' /\ NoStrandedWaiter'
  <2>1. \A x \in granted \ {o} : pc'[x] \in Queueing
    BY <1>2 DEF MoveFacts, GateInv, TypeOK, Ranges, QueueOK
  <2>2. \A j \in DOMAIN waiting : pc'[waiting[j]] \in Queueing
    BY <1>2, <1>6 DEF MoveFacts, GateInv, QueueOK
  <2> QED
    BY <1>1, <1>3, <1>7, <2>1, <2>2, QueueGranted
<1>10. Counted'
  <2>1. o \notin granted
    BY <1>1 DEF GateInv, QueueOK, Queueing
  <2>2. Cardinality(granted') \in Nat
    BY <1>7, CountAfterWake DEF GrantEffect
  <2> QED
    BY <1>1, <1>2, <1>4, <1>7, <2>1, <2>2
       DEF Busy, MoveFacts, GrantEffect, GateInv, Counted, Using, Reading, Queueing
<1>11. Admission
  BY <1>1, <1>2, <1>7 DEF Admission, Holders, MoveFacts, GrantEffect
<1> QED
  BY <1>8, <1>9, <1>10, <1>11 DEF GateInv

(* An abort that crosses a grant (drop of WaitGuard) keeps it.             *)
LEMMA InvCancelGranted ==
  ASSUME GateInv, NEW o \in Ops, CancelGranted(o)
  PROVE  GateInv' /\ Admission
<1>1. /\ Goes(o, "ended") /\ pc[o] \in Queueing /\ o \in granted /\ "ended" \in Location
      /\ Grant(o, waiting, running - 1, limit) /\ limit' = limit
  BY DEF CancelGranted, At, Location
<1>2. MoveFacts(o, "ended")
  BY <1>1, MoveCounts DEF GateInv
<1>3. limit \in Nat /\ limit # NoLimit
  BY <1>1 DEF GateInv, TypeOK, Ranges, NoLimit, Limits, QueueOK, Queueing, CancelGranted
<1>4. Cardinality(granted) \in Nat /\ (o \in granted => Cardinality(granted) > 0)
  BY CountAfterWake DEF GateInv, TypeOK, Ranges
<1>5. running - 1 \in Nat
  BY <1>1, <1>2, <1>4 DEF MoveFacts, GateInv, TypeOK, Ranges, Counted, Using
<1>6. \A i \in DOMAIN waiting : waiting[i] \in Ops /\ waiting[i] # o
  <2>1. \A i \in DOMAIN waiting : waiting[i] \in Ops
    BY DEF GateInv, TypeOK, Ranges
  <2> QED
    BY <1>1, <2>1 DEF GateInv, QueueOK, Queueing
<1>7. GrantEffect(o, waiting, running - 1, limit)
  <2>1. TypeOK /\ waiting \in Seq(Ops) /\ Distinct(waiting) /\ o \in Tellers
    BY DEF GateInv, TypeOK, Ranges, QueueOK, Tellers
  <2>2. \A i \in DOMAIN waiting : waiting[i] \notin granted \ {o}
    BY DEF GateInv, QueueOK
  <2> QED
    BY ONLY <1>1, <1>3, <1>5, <2>1, <2>2, GrantStep
<1>8. TypeOK'
  BY <1>1, <1>2, <1>5, <1>7 DEF CancelGranted, MoveFacts, GrantEffect, GateInv, TypeOK, Ranges
<1>9. QueueOK' /\ NoStrandedWaiter'
  <2>1. \A x \in granted \ {o} : pc'[x] \in Queueing
    BY <1>2 DEF MoveFacts, GateInv, TypeOK, Ranges, QueueOK
  <2>2. \A j \in DOMAIN waiting : pc'[waiting[j]] \in Queueing
    BY <1>2, <1>6 DEF MoveFacts, GateInv, QueueOK
  <2> QED
    BY <1>1, <1>3, <1>7, <2>1, <2>2, QueueGranted
<1>10. Counted'
  <2>1. o \in granted
    BY <1>1 DEF GateInv, QueueOK, Queueing
  <2>2. Cardinality(granted') \in Nat
    BY <1>7, CountAfterWake DEF GrantEffect
  <2>3. \A K \in {Using, {"resting"}, Reading} : pc[o] \notin K /\ "ended" \notin K
    BY <1>1 DEF Using, Reading, Queueing
  <2>4. \A K \in {Using, {"resting"}, Reading} : Cardinality(In(pc', K)) = Cardinality(In(pc, K))
    <3> SUFFICES ASSUME NEW K \in {Using, {"resting"}, Reading}
                 PROVE  Cardinality(In(pc', K)) = Cardinality(In(pc, K))
      OBVIOUS
    <3>1. /\ Cardinality(In(pc, K)) \in Nat
          /\ Cardinality(In(pc', K)) =
               Cardinality(In(pc, K)) - (IF pc[o] \in K THEN 1 ELSE 0)
                                      + (IF "ended" \in K THEN 1 ELSE 0)
      BY <1>2 DEF MoveFacts
    <3> QED
      BY <2>3, <3>1
  <2>5. running' = running - 1 + Cardinality(granted') - Cardinality(granted) + 1
    BY <1>7, <2>1 DEF GrantEffect
  <2>6. /\ running \in Nat /\ running = Cardinality(granted) + Cardinality(In(pc, Using))
        /\ Cardinality(In(pc, Using)) \in Nat
    BY <1>2 DEF GateInv, TypeOK, Ranges, Counted, MoveFacts
  <2>7. running' = Cardinality(granted') + Cardinality(In(pc', Using))
    BY <1>4, <2>2, <2>4, <2>5, <2>6
  <2> QED
    BY <2>4, <2>7 DEF CancelGranted, GateInv, Counted
<1>11. Admission
  BY <1>1, <1>2, <1>7 DEF Admission, Holders, MoveFacts, GrantEffect
<1> QED
  BY <1>8, <1>9, <1>10, <1>11 DEF GateInv

(* An abort of a rest (drop of Resting) keeps the invariant.               *)
LEMMA InvCancelRest ==
  ASSUME GateInv, NEW o \in Ops, CancelRest(o)
  PROVE  GateInv' /\ Admission
<1>1. /\ Goes(o, "ended") /\ pc[o] = "resting" /\ "ended" \in Location
      /\ Grant(o, waiting, running, limit) /\ limit' = limit
  BY DEF CancelRest, At, Location
<1>2. MoveFacts(o, "ended")
  BY <1>1, MoveCounts DEF GateInv
<1>3. limit \in Nat /\ limit # NoLimit
  BY <1>1 DEF GateInv, TypeOK, Ranges, NoLimit, Limits, QueueOK, Queueing
<1>4. Cardinality(granted) \in Nat /\ (o \in granted => Cardinality(granted) > 0)
  BY CountAfterWake DEF GateInv, TypeOK, Ranges
<1>5. running \in Nat /\ resting > 0
  BY <1>1, <1>2, <1>4 DEF MoveFacts, GateInv, TypeOK, Ranges, Counted, Using
<1>6. \A i \in DOMAIN waiting : waiting[i] \in Ops /\ waiting[i] # o
  <2>1. \A i \in DOMAIN waiting : waiting[i] \in Ops
    BY DEF GateInv, TypeOK, Ranges
  <2> QED
    BY <1>1, <2>1 DEF GateInv, QueueOK, Queueing
<1>7. GrantEffect(o, waiting, running, limit)
  <2>1. TypeOK /\ waiting \in Seq(Ops) /\ Distinct(waiting) /\ o \in Tellers
    BY DEF GateInv, TypeOK, Ranges, QueueOK, Tellers
  <2>2. \A i \in DOMAIN waiting : waiting[i] \notin granted \ {o}
    BY DEF GateInv, QueueOK
  <2> QED
    BY ONLY <1>1, <1>3, <1>5, <2>1, <2>2, GrantStep
<1>8. TypeOK'
  BY <1>1, <1>2, <1>5, <1>7 DEF CancelRest, MoveFacts, GrantEffect, GateInv, TypeOK, Ranges
<1>9. QueueOK' /\ NoStrandedWaiter'
  <2>1. \A x \in granted \ {o} : pc'[x] \in Queueing
    BY <1>2 DEF MoveFacts, GateInv, TypeOK, Ranges, QueueOK
  <2>2. \A j \in DOMAIN waiting : pc'[waiting[j]] \in Queueing
    BY <1>2, <1>6 DEF MoveFacts, GateInv, QueueOK
  <2> QED
    BY <1>1, <1>3, <1>7, <2>1, <2>2, QueueGranted
<1>10. Counted'
  <2>1. o \notin granted
    BY <1>1 DEF GateInv, QueueOK, Queueing
  <2>2. Cardinality(granted') \in Nat
    BY <1>7, CountAfterWake DEF GrantEffect
  <2> QED
    BY <1>1, <1>2, <1>4, <1>7, <2>1, <2>2
       DEF CancelRest, MoveFacts, GrantEffect, GateInv, Counted, Using, Reading, Queueing
<1>11. Admission
  BY <1>1, <1>2, <1>7 DEF Admission, Holders, MoveFacts, GrantEffect
<1> QED
  BY <1>8, <1>9, <1>10, <1>11 DEF GateInv

(* Joining the queue, at its tail or its head, keeps the invariant.        *)
LEMMA InvAcquireQueued ==
  ASSUME GateInv, NEW o \in Ops, AcquireQueued(o)
  PROVE  GateInv' /\ Admission
<1> DEFINE place == IF Returning(o) THEN "requeued" ELSE "waiting"
           w == IF Returning(o) THEN <<o>> \o waiting ELSE Append(waiting, o)
<1>1. /\ Goes(o, place) /\ pc[o] \in {"acquire", "rested"} /\ place \in Location
      /\ limit' = limit /\ resting' = resting /\ reading' = reading
  BY DEF AcquireQueued, Acquiring, Location, Queueing
<1>2. MoveFacts(o, place)
  BY <1>1, MoveCounts DEF GateInv
<1>3. limit \in Nat /\ limit # NoLimit /\ running \in Nat
  BY <1>1 DEF GateInv, TypeOK, Ranges, NoLimit, Limits, QueueOK
<1>4. \A i \in DOMAIN waiting :
         waiting[i] \in Ops /\ waiting[i] # o /\ waiting[i] \notin granted
  <2>1. \A i \in DOMAIN waiting : waiting[i] \in Ops
    BY DEF GateInv, TypeOK, Ranges
  <2> QED
    BY <1>1, <2>1 DEF GateInv, QueueOK, Queueing
<1>5. o \notin granted
  BY <1>1 DEF GateInv, QueueOK, Queueing
<1>6. /\ w \in Seq(Ops)
      /\ \A i \in DOMAIN w : w[i] = o \/ \E j \in DOMAIN waiting : w[i] = waiting[j]
      /\ Distinct(w)
  <2>1. waiting \in Seq(Ops) /\ Distinct(waiting)
    BY DEF GateInv, TypeOK, Ranges, QueueOK
  <2>2. CASE Returning(o)
    <3>1. /\ w \in Seq(Ops) /\ Len(w) = Len(waiting) + 1 /\ w[1] = o
          /\ \A i \in 1..Len(waiting) : w[i + 1] = waiting[i]
      BY <2>1, <2>2
    <3>2. \A i \in 2..Len(w) : i - 1 \in 1..Len(waiting) /\ w[i] = waiting[i - 1]
      BY <2>1, <3>1
    <3> QED
      BY <1>4, <2>1, <3>1, <3>2 DEF Distinct
  <2>3. CASE ~ Returning(o)
    <3>1. /\ w \in Seq(Ops) /\ Len(w) = Len(waiting) + 1 /\ w[Len(w)] = o
          /\ \A i \in 1..Len(waiting) : w[i] = waiting[i]
      BY <2>1, <2>3
    <3> QED
      BY <1>4, <2>1, <3>1 DEF Distinct
  <2> QED
    BY <2>2, <2>3
<1> HIDE DEF w
<1>7. \A i \in DOMAIN w : w[i] \notin granted /\ pc'[w[i]] \in Queueing
  <2>1. pc'[o] \in Queueing /\ \A i \in DOMAIN waiting : pc'[waiting[i]] \in Queueing
    BY <1>2, <1>4 DEF MoveFacts, GateInv, QueueOK, Queueing
  <2> QED
    BY <1>4, <1>5, <1>6, <2>1
<1>8. CASE resting = 0
  <2>1. Grant(o, w, running, limit)
    BY <1>8 DEF AcquireQueued, w
  <2>2. GrantEffect(o, w, running, limit)
    <3>1. TypeOK /\ o \in Tellers /\ \A i \in DOMAIN w : w[i] \notin granted \ {o}
      BY <1>7 DEF GateInv, Tellers
    <3> QED
      BY ONLY <1>3, <1>6, <2>1, <3>1, GrantStep
  <2>3. TypeOK'
    BY <1>1, <1>2, <2>2 DEF AcquireQueued, MoveFacts, GrantEffect, GateInv, TypeOK, Ranges
  <2>4. \A x \in granted \ {o} : pc'[x] \in Queueing
    BY <1>2 DEF MoveFacts, GateInv, TypeOK, Ranges, QueueOK
  <2>5. QueueOK' /\ NoStrandedWaiter'
    BY <1>1, <1>3, <1>7, <2>2, <2>4, QueueGranted
  <2>6. Counted'
    <3>1. Cardinality(granted) \in Nat /\ Cardinality(granted') \in Nat
      BY <2>2, CountAfterWake DEF GateInv, TypeOK, Ranges, GrantEffect
    <3> QED
      BY <1>1, <1>2, <1>5, <2>2, <3>1
         DEF MoveFacts, GrantEffect, GateInv, Counted, Using, Reading
  <2>7. Admission
    BY <1>1, <1>2, <2>2 DEF Admission, Holders, MoveFacts, GrantEffect
  <2> QED
    BY <2>3, <2>5, <2>6, <2>7 DEF GateInv
<1>9. CASE resting # 0
  <2>1. Rearrange(o, w)
    BY <1>9 DEF AcquireQueued, w
  <2>2. TypeOK'
    BY <1>1, <1>2, <1>6, <2>1, MovedType
       DEF AcquireQueued, Rearrange, MoveFacts, GateInv, TypeOK, Ranges
  <2>3. QueueOK'
    <3>1. \A x \in granted : pc'[x] \in Queueing
      BY <1>2, <1>5 DEF MoveFacts, GateInv, TypeOK, Ranges, QueueOK
    <3> QED
      BY <1>1, <1>3, <1>6, <1>7, <2>1, <3>1 DEF Rearrange, QueueOK
  <2>4. Counted'
    BY <1>1, <1>2, <2>1 DEF Rearrange, MoveFacts, GateInv, Counted, Using, Reading
  <2>5. NoStrandedWaiter'
    BY <1>1, <1>9 DEF GateInv, TypeOK, Ranges, NoStrandedWaiter
  <2>6. Admission
    BY <1>1, <1>2, <2>1 DEF Admission, Holders, MoveFacts, Rearrange
  <2> QED
    BY <2>2, <2>3, <2>4, <2>5, <2>6 DEF GateInv
<1> QED
  BY <1>8, <1>9

(* An abort in the queue (drop of WaitGuard) keeps the invariant.          *)
LEMMA InvCancelWaiting ==
  ASSUME GateInv, NEW o \in Ops, CancelWaiting(o)
  PROVE  GateInv' /\ Admission
<1>1. /\ Goes(o, "ended") /\ pc[o] \in Queueing /\ "ended" \in Location
      /\ limit' = limit /\ resting' = resting /\ reading' = reading
  BY DEF CancelWaiting, Location
<1>2. MoveFacts(o, "ended")
  BY <1>1, MoveCounts DEF GateInv
<1>3. PICK k \in DOMAIN waiting : waiting[k] = o /\ Rearrange(o, RemoveAt(waiting, k))
  BY DEF CancelWaiting
<1> DEFINE v == RemoveAt(waiting, k)
<1>4. waiting \in Seq(Ops) /\ Distinct(waiting) /\ k \in 1..Len(waiting)
      /\ DOMAIN waiting = 1..Len(waiting)
  BY DEF GateInv, TypeOK, Ranges, QueueOK
<1>5. /\ v \in Seq(Ops) /\ Len(v) = Len(waiting) - 1
      /\ \A i \in 1..Len(v) : v[i] = IF i < k THEN waiting[i] ELSE waiting[i + 1]
  BY <1>4, RemoveAtFacts
<1> HIDE DEF v
<1>6. DOMAIN v = 1..Len(waiting) - 1
  BY <1>4, <1>5
<1>7. \A i \in DOMAIN v : \E j \in DOMAIN waiting :
         v[i] = waiting[j] /\ j # k /\ (j = IF i < k THEN i ELSE i + 1)
  BY <1>4, <1>5, <1>6
<1>8. \A i \in DOMAIN v : \E j \in DOMAIN waiting : v[i] = waiting[j] /\ v[i] # o
  BY <1>3, <1>4, <1>7 DEF Distinct
<1>9. Distinct(v)
  BY <1>4, <1>6, <1>7 DEF Distinct
<1>10. waiting' = v /\ granted' = granted /\ running' = running
       /\ telling' = [telling EXCEPT ![o] = Moved(v)]
  BY <1>3 DEF Rearrange, v
<1>11. o \notin granted
  BY <1>3 DEF GateInv, QueueOK
<1>12. TypeOK'
  BY <1>1, <1>2, <1>5, <1>10, MovedType
     DEF CancelWaiting, MoveFacts, GateInv, TypeOK, Ranges
<1>13. QueueOK'
  <2>1. limit # NoLimit
    BY <1>1 DEF GateInv, QueueOK, Queueing
  <2>2. \A x \in granted : pc'[x] \in Queueing
    BY <1>2, <1>11 DEF MoveFacts, GateInv, TypeOK, Ranges, QueueOK
  <2>3. \A i \in DOMAIN v : v[i] \notin granted /\ pc'[v[i]] \in Queueing
    <3>1. \A j \in DOMAIN waiting : waiting[j] \in Ops
      BY <1>4
    <3> QED
      BY <1>2, <1>8, <3>1 DEF MoveFacts, GateInv, QueueOK
  <2> QED
    BY <1>1, <1>9, <1>10, <2>1, <2>2, <2>3 DEF QueueOK
<1>14. Counted'
  BY <1>1, <1>2, <1>10 DEF MoveFacts, GateInv, Counted, Using, Reading, Queueing
<1>15. NoStrandedWaiter'
  <2>1. waiting # <<>>
    BY <1>4
  <2>2. \A x \in Ops : pc[x] = "rested" => pc'[x] = "rested"
    BY <1>1, <1>2 DEF MoveFacts, Queueing
  <2> QED
    BY <1>1, <1>10, <2>1, <2>2 DEF GateInv, NoStrandedWaiter
<1>16. Admission
  BY <1>2, <1>10 DEF Admission, Holders, MoveFacts
<1> QED
  BY <1>12, <1>13, <1>14, <1>15, <1>16 DEF GateInv

(* set_limit keeps the invariant.                                          *)
LEMMA InvSetLimit ==
  ASSUME GateInv, NEW l \in Limits, SetLimit(l)
  PROVE  GateInv' /\ Admission
<1>1. /\ Grant(Admin, waiting, running, l) /\ limit' = l
      /\ UNCHANGED <<resting, reading, asked, pc, shown>>
  BY DEF SetLimit
<1>2. l \in Nat /\ l # NoLimit /\ running \in Nat
  BY DEF GateInv, TypeOK, Ranges, Limits, NoLimit
<1>3. Admin \notin granted
  BY GateAssumption DEF GateInv, TypeOK, Ranges
<1>4. GrantEffect(Admin, waiting, running, l)
  <2>1. TypeOK /\ waiting \in Seq(Ops) /\ Distinct(waiting) /\ Admin \in Tellers
    BY DEF GateInv, TypeOK, Ranges, QueueOK, Tellers
  <2>2. \A i \in DOMAIN waiting : waiting[i] \notin granted \ {Admin}
    BY DEF GateInv, QueueOK
  <2> QED
    BY ONLY <1>1, <1>2, <2>1, <2>2, GrantStep
<1>5. TypeOK'
  BY <1>1, <1>4 DEF GrantEffect, GateInv, TypeOK, Ranges
<1>6. QueueOK' /\ NoStrandedWaiter'
  <2>1. \A x \in granted \ {Admin} : pc'[x] \in Queueing
    BY <1>1 DEF GateInv, QueueOK
  <2>2. \A j \in DOMAIN waiting : pc'[waiting[j]] \in Queueing
    BY <1>1 DEF GateInv, QueueOK
  <2> QED
    BY <1>1, <1>2, <1>4, <2>1, <2>2, QueueGranted
<1>7. Counted'
  <2>1. Cardinality(granted) \in Nat /\ Cardinality(granted') \in Nat
    BY <1>4, CountAfterWake DEF GateInv, TypeOK, Ranges, GrantEffect
  <2>2. In(pc, Using) \subseteq Ops /\ Cardinality(In(pc, Using)) \in Nat
    BY CountAfterWake DEF In
  <2>3. running' = running + Cardinality(granted') - Cardinality(granted)
    BY <1>2, <1>3, <1>4, <2>1 DEF GrantEffect
  <2> QED
    BY <1>1, <1>2, <2>1, <2>2, <2>3 DEF GateInv, Counted
<1>8. Admission
  BY <1>1, <1>4 DEF Admission, Holders, GrantEffect
<1> QED
  BY <1>5, <1>6, <1>7, <1>8 DEF GateInv

(* What Team answers about the limit keeps the invariant.                 *)
LEMMA InvTeamAnswers ==
  ASSUME GateInv, NEW said \in {NoLimit} \cup Limits, TeamAnswers(said)
  PROVE  GateInv' /\ Admission
<1>1. /\ UNCHANGED <<running, waiting, granted, resting, reading, telling, shown>>
      /\ limit' = IF limit = NoLimit THEN said ELSE limit
      /\ pc \in [Ops -> Location]
  BY DEF TeamAnswers, GateInv, TypeOK
<1>2. /\ pc' \in [Ops -> Location]
      /\ \A x \in Ops : pc[x] # "asking" => pc'[x] = pc[x]
      /\ \A x \in Ops : pc[x] = "asking" =>
            pc'[x] = IF said = NoLimit THEN "unanswered" ELSE "answered"
  BY <1>1 DEF TeamAnswers, Location, Reading
<1>3. In(pc', Using) = In(pc, Using) /\ In(pc', {"resting"}) = In(pc, {"resting"})
      /\ In(pc', Reading) = In(pc, Reading)
  BY <1>1, <1>2 DEF In, Using, Reading
<1>4. TypeOK'
  BY <1>1, <1>2 DEF TeamAnswers, GateInv, TypeOK, Ranges
<1>5. QueueOK'
  <2>1. \A i \in DOMAIN waiting : waiting[i] \in Ops
    BY DEF GateInv, TypeOK, Ranges
  <2>2. granted \in SUBSET Ops
    BY DEF GateInv, TypeOK, Ranges
  <2>3. \A i \in DOMAIN waiting : waiting[i] \notin granted /\ pc'[waiting[i]] \in Queueing
    BY <1>2, <2>1 DEF GateInv, QueueOK, Queueing
  <2>4. \A x \in granted : pc'[x] \in Queueing
    BY <1>2, <2>2 DEF GateInv, QueueOK, Queueing
  <2>5. limit' = NoLimit => waiting = <<>> /\ \A x \in Ops : pc'[x] \in Early
    BY <1>1, <1>2 DEF GateInv, QueueOK, Early
  <2> QED
    BY <1>1, <2>3, <2>4, <2>5 DEF GateInv, QueueOK, Early
<1>6. Counted'
  BY <1>1, <1>3 DEF GateInv, Counted
<1>7. NoStrandedWaiter'
  BY <1>1, <1>2 DEF GateInv, QueueOK, NoStrandedWaiter
<1>8. Admission
  BY <1>1, <1>2 DEF Admission, Holders
<1> QED
  BY <1>4, <1>5, <1>6, <1>7, <1>8 DEF GateInv

(* Telling a position keeps the invariant.                                 *)
LEMMA InvTell ==
  ASSUME GateInv, NEW t \in Tellers, NEW m \in telling[t], Tell(t, m)
  PROVE  GateInv' /\ Admission
<1>1. UNCHANGED <<limit, running, waiting, granted, resting, reading, asked, pc>>
  BY DEF Tell, gateState
<1>2. m \in Message
  BY DEF GateInv, TypeOK
<1>3. TypeOK'
  BY <1>1, <1>2 DEF Tell, Message, GateInv, TypeOK, Ranges
<1> QED
  BY <1>1, <1>3 DEF GateInv, QueueOK, Counted, NoStrandedWaiter, Admission, Holders

(* Every step of the gate keeps the invariant and admits within the limit. *)
LEMMA InvNext ==
  ASSUME GateInv, [Next]_vars
  PROVE  GateInv' /\ Admission
<1>1. CASE UNCHANGED vars
  BY <1>1 DEF vars, gateState, GateInv, TypeOK, Ranges, QueueOK, Counted,
              NoStrandedWaiter, Admission, Holders
<1>2. ASSUME NEW o \in Ops, Begin(o)         PROVE GateInv' /\ Admission
  BY <1>2, InvBegin
<1>3. ASSUME NEW o \in Ops, ReadLimit(o)     PROVE GateInv' /\ Admission
  BY <1>3, InvReadLimit
<1>4. ASSUME NEW o \in Ops, ReadRefused(o)   PROVE GateInv' /\ Admission
  BY <1>4, InvReadRefused
<1>5. ASSUME NEW o \in Ops, EndReading(o)    PROVE GateInv' /\ Admission
  BY <1>5, InvEndReading
<1>6. ASSUME NEW o \in Ops, Acquire(o)       PROVE GateInv' /\ Admission
  BY <1>6, InvAcquireFree, InvAcquireRefused, InvAcquireQueued DEF Acquire
<1>7. ASSUME NEW o \in Ops, Start(o)         PROVE GateInv' /\ Admission
  BY <1>7, InvStart
<1>8. ASSUME NEW o \in Ops, Wake(o)          PROVE GateInv' /\ Admission
  BY <1>8, InvWake
<1>9. ASSUME NEW o \in Ops, Rest(o)          PROVE GateInv' /\ Admission
  BY <1>9, InvRest
<1>10. ASSUME NEW o \in Ops, EndRest(o)      PROVE GateInv' /\ Admission
  BY <1>10, InvEndRest
<1>11. ASSUME NEW o \in Ops, Finish(o)       PROVE GateInv' /\ Admission
  BY <1>11, InvFinish
<1>12. ASSUME NEW o \in Ops, Busy(o)         PROVE GateInv' /\ Admission
  BY <1>12, InvBusy
<1>13. ASSUME NEW o \in Ops, Cancel(o)       PROVE GateInv' /\ Admission
  BY <1>13, InvCancelReading, InvCancelWaiting, InvCancelGranted, InvCancelRest DEF Cancel
<1>14. ASSUME NEW said \in {NoLimit} \cup Limits, TeamAnswers(said)
       PROVE  GateInv' /\ Admission
  BY <1>14, InvTeamAnswers
<1>15. ASSUME NEW l \in Limits, SetLimit(l)  PROVE GateInv' /\ Admission
  BY <1>15, InvSetLimit
<1>16. ASSUME NEW t \in Tellers, NEW m \in telling[t], Tell(t, m)
       PROVE  GateInv' /\ Admission
  BY <1>16, InvTell
<1> QED
  BY <1>1, <1>2, <1>3, <1>4, <1>5, <1>6, <1>7, <1>8, <1>9, <1>10, <1>11, <1>12,
     <1>13, <1>14, <1>15, <1>16 DEF Next, Step

(* The invariant holds in every state the gate reaches.                    *)
LEMMA Invariance == Spec => []GateInv
<1>1. GateInv /\ [Next]_vars => GateInv'
  BY InvNext
<1> QED
  BY InvInit, <1>1, PTL DEF Spec

-----------------------------------------------------------------------------
(* Every count the gate keeps, and every position it tells, is of the kind *)
(* it should be: in particular no count ever goes below zero.              *)
THEOREM GateTyped == Spec => []TypeOK
<1>1. GateInv => TypeOK
  BY DEF GateInv
<1> QED
  BY Invariance, <1>1, PTL

(* The counters are the operations they count: those that hold a slot.     *)
LEMMA HoldersCounted == GateInv => SlotsCounted
<1> SUFFICES ASSUME GateInv PROVE SlotsCounted
  OBVIOUS
<1>1. Holders = granted \cup In(pc, Using)
  BY DEF Holders, In, Using
<1>2. /\ In(pc, Using) \in SUBSET Ops /\ granted \in SUBSET Ops
      /\ In(pc, Using) \cap granted = {}
  BY DEF GateInv, TypeOK, Ranges, QueueOK, In, Using, Queueing
<1>3. Cardinality(Holders) = Cardinality(granted) + Cardinality(In(pc, Using))
  BY <1>1, <1>2, CountAfterGrant
<1>4. Resters = In(pc, {"resting"}) /\ Readers = In(pc, Reading)
  BY DEF Resters, Readers, In
<1> QED
  BY <1>3, <1>4 DEF GateInv, Counted, SlotsCounted

(* No slot leaks and none is given back twice, whatever way an operation   *)
(* leaves the gate (Held, WaitGuard, Resting and Reading of gate/mod.rs).  *)
THEOREM SlotsConserved == Spec => []SlotsCounted
  BY Invariance, HoldersCounted, PTL

(* No wakeup of a waiting operation is lost.                               *)
THEOREM NobodyStranded == Spec => []NoStrandedWaiter
<1>1. GateInv => NoStrandedWaiter
  BY DEF GateInv
<1> QED
  BY Invariance, <1>1, PTL

(* The gate is a bounded pool: an operation comes to hold a slot only when *)
(* no more than the limit hold one, and a lower limit evicts nobody.       *)
THEOREM GateImplementsPool == Spec => ImplementsPool
<1>1. Init => Pool!Init
  BY DEF Init, Pool!Init, Holders
<1>2. GateInv /\ [Next]_vars => [Pool!Next]_(Pool!vars)
  <2> SUFFICES ASSUME GateInv, [Next]_vars PROVE Pool!Next
    OBVIOUS
  <2>1. GateInv' /\ Admission
    BY InvNext
  <2>2. running' = Cardinality(Holders')
    <3>1. SlotsCounted'
      BY <2>1, HoldersCounted, PTL
    <3> QED
      BY <3>1 DEF SlotsCounted
  <2>3. limit' \in {NoLimit} \cup Limits
    BY <2>1 DEF GateInv, TypeOK, Ranges
  <2>4. Holders' \in SUBSET Ops
    BY <2>1 DEF GateInv, TypeOK, Ranges, Holders
  <2> DEFINE gone == Holders \ Holders'
             came == Holders' \ Holders
  <2>5. gone \in SUBSET Holders /\ came \in SUBSET (Ops \ Holders)
    BY <2>4
  <2> HIDE DEF gone, came
  <2>6. Pool!Change(gone, came)
    <3>1. Holders' = (Holders \ gone) \cup came
      BY DEF gone, came
    <3>2. came # {} => Cardinality(Holders') <= limit'
      BY <2>1, <2>2 DEF Admission, came
    <3> QED
      BY ONLY <3>1, <3>2 DEF Pool!Change, Pool!Cardinality, Cardinality, Pool!IsFiniteSet, IsFiniteSet
  <2> QED
    BY <2>3, <2>5, <2>6 DEF Pool!Next
<1> QED
  BY <1>1, <1>2, Invariance, PTL DEF Spec, ImplementsPool, Pool!Spec
-----------------------------------------------------------------------------
(***************************************************************************)
(* What bounds and orders the queue: operations that never ran do not      *)
(* exceed its bound, although those that come back from their rest join it *)
(* without asking, and a slot goes to a waiter only once everyone ahead    *)
(* has left.                                                               *)
(***************************************************************************)
InQueue(o) == \E i \in DOMAIN waiting : waiting[i] = o

(* The operations in the queue that never ran: what acquire() and          *)
(* read_limit() count against MAX_WAITING, and nothing else adds to.       *)
Fresh == {o \in Ops : pc[o] = "waiting" /\ InQueue(o)}
FreshCounted == Cardinality(Fresh) + reading <= MaxWaiting

BoundInv == GateInv /\ FreshCounted

-----------------------------------------------------------------------------
(* A queue holds at most one operation for each of its places.             *)
LEMMA FreshInQueue ==
  ASSUME GateInv
  PROVE  /\ IsFiniteSet(Fresh) /\ Cardinality(Fresh) \in Nat
         /\ Cardinality(Fresh) <= Len(waiting)
<1>1. waiting \in Seq(Ops) /\ Len(waiting) \in Nat /\ DOMAIN waiting = 1..Len(waiting)
  BY DEF GateInv, TypeOK, Ranges
<1> DEFINE D == 1..Len(waiting)
           A == {waiting[i] : i \in D}
           f == [i \in D |-> waiting[i]]
<1>2. IsFiniteSet(D) /\ Cardinality(D) = Len(waiting)
  BY <1>1, FS_Interval
<1>3. f \in Surjection(D, A)
  BY DEF Surjection
<1> HIDE DEF f, D
<1>4. IsFiniteSet(A) /\ Cardinality(A) <= Len(waiting)
  BY <1>2, <1>3, FS_Surjection
<1>5. Fresh \subseteq A
  BY <1>1 DEF Fresh, InQueue, D
<1> HIDE DEF A
<1>6. IsFiniteSet(Fresh) /\ Cardinality(Fresh) <= Cardinality(A)
  BY <1>4, <1>5, FS_Subset
<1>7. Cardinality(Fresh) \in Nat /\ Cardinality(A) \in Nat
  BY <1>4, <1>6, FS_CardinalityType
<1> QED
  BY <1>1, <1>4, <1>6, <1>7

(* The places of the queue that hold them are as many: nobody queues twice. *)
LEMMA FreshPlaces ==
  ASSUME BoundInv
  PROVE  FreshWithinBound
<1> DEFINE F == {i \in DOMAIN waiting : pc[waiting[i]] = "waiting"}
           f == [i \in F |-> waiting[i]]
<1>1. \A i \in DOMAIN waiting : waiting[i] \in Ops
  BY DEF BoundInv, GateInv, TypeOK, Ranges
<1>2. Distinct(waiting)
  BY DEF BoundInv, GateInv, QueueOK
<1>3. f \in Injection(F, Fresh)
  <2>1. \A i \in F : f[i] = waiting[i] /\ f[i] \in Fresh
    BY <1>1 DEF Fresh, InQueue
  <2>2. f \in [F -> Fresh]
    BY <2>1
  <2>3. \A i, j \in F : f[i] = f[j] => i = j
    BY <1>2, <2>1 DEF Distinct
  <2> HIDE DEF f, F
  <2> QED
    BY <2>2, <2>3 DEF Injection, IsInjective
<1> HIDE DEF f, F
<1>4. IsFiniteSet(Fresh) /\ Cardinality(Fresh) \in Nat
  BY FreshInQueue DEF BoundInv
<1>5. IsFiniteSet(F) /\ Cardinality(F) <= Cardinality(Fresh)
  BY <1>3, <1>4, FS_Injection
<1>6. Cardinality(F) \in Nat /\ reading \in Nat /\ MaxWaiting \in Nat
  BY <1>5, FS_CardinalityType, GateAssumption DEF BoundInv, GateInv, TypeOK, Ranges
<1>7. Cardinality(F) + reading <= MaxWaiting
  BY <1>4, <1>5, <1>6 DEF BoundInv, FreshCounted
<1> QED
  BY <1>7 DEF FreshWithinBound, F

(* A step that brings nobody new into the queue keeps the bound.           *)
LEMMA NobodyNew ==
  ASSUME BoundInv, GateInv', reading' <= reading,
         \A o \in Ops : pc'[o] = "waiting" => pc[o] = "waiting",
         \A o \in Ops : pc'[o] = "waiting" /\ InQueue(o)' => InQueue(o)
  PROVE  FreshCounted'
<1>1. Fresh' \subseteq Fresh
  BY DEF Fresh
<1>2. IsFiniteSet(Fresh) /\ Cardinality(Fresh) \in Nat
  BY FreshInQueue DEF BoundInv
<1>3. IsFiniteSet(Fresh') /\ Cardinality(Fresh') <= Cardinality(Fresh)
  BY <1>1, <1>2, FS_Subset
<1>4. Cardinality(Fresh') \in Nat /\ reading \in Nat /\ reading' \in Nat /\ MaxWaiting \in Nat
  BY <1>3, FS_CardinalityType, GateAssumption DEF BoundInv, GateInv, TypeOK, Ranges
<1> QED
  BY <1>2, <1>3, <1>4 DEF BoundInv, FreshCounted

(* grant() only takes waiters off the queue it is given.                   *)
LEMMA GrantTakes ==
  ASSUME NEW t, NEW w \in Seq(Ops), NEW r \in Int, NEW l \in Int, Grant(t, w, r, l)
  PROVE  \A i \in DOMAIN waiting' : \E j \in DOMAIN w : waiting'[i] = w[j]
<1> DEFINE n == Grants(w, r, l)
<1>1. n \in 0..Len(w) /\ waiting' = SubSeq(w, n + 1, Len(w))
  BY DEF Grants, Grant
<1> HIDE DEF n
<1>2. /\ waiting' \in Seq(Ops) /\ Len(waiting') = Len(w) - n
      /\ \A i \in 1..Len(w) - n : waiting'[i] = w[i + n]
  BY <1>1, DropFacts
<1>3. \A i \in 1..Len(w) - n : i + n \in 1..Len(w)
  BY <1>1
<1> QED
  BY <1>2, <1>3

-----------------------------------------------------------------------------
(* Joining the read of the limit counts against the bound (read_limit).    *)
LEMMA BoundReadLimit ==
  ASSUME BoundInv, GateInv', NEW o \in Ops, ReadLimit(o)
  PROVE  FreshCounted'
<1>1. pc \in [Ops -> Location]
  BY DEF BoundInv, GateInv, TypeOK
<1>2. Fresh' \subseteq Fresh
  BY <1>1 DEF ReadLimit, At, Goes, Fresh, InQueue
<1>3. /\ IsFiniteSet(Fresh) /\ Cardinality(Fresh) \in Nat
      /\ Cardinality(Fresh) <= Len(waiting)
  BY FreshInQueue DEF BoundInv
<1>4. IsFiniteSet(Fresh') /\ Cardinality(Fresh') <= Cardinality(Fresh)
  BY <1>2, <1>3, FS_Subset
<1>5. Cardinality(Fresh') \in Nat
  BY <1>4, FS_CardinalityType
<1>6. Len(waiting) + resting + reading < MaxWaiting /\ reading' = reading + 1
  BY DEF ReadLimit, Queued
<1>7. /\ Len(waiting) \in Nat /\ resting \in Nat /\ reading \in Nat /\ MaxWaiting \in Nat
  BY GateAssumption DEF BoundInv, GateInv, TypeOK, Ranges
<1> QED
  BY <1>3, <1>4, <1>5, <1>6, <1>7 DEF FreshCounted

(* Queueing: a new operation counts, one that comes back is not fresh.     *)
LEMMA BoundAcquireQueued ==
  ASSUME BoundInv, GateInv', NEW o \in Ops, AcquireQueued(o)
  PROVE  FreshCounted'
<1> DEFINE w == IF Returning(o) THEN <<o>> \o waiting ELSE Append(waiting, o)
<1>1. /\ pc \in [Ops -> Location] /\ waiting \in Seq(Ops) /\ Len(waiting) \in Nat
      /\ resting \in Nat /\ reading \in Nat /\ running \in Int /\ limit \in Int
      /\ MaxWaiting \in Nat
  BY GateAssumption DEF BoundInv, GateInv, TypeOK, Ranges, Limits, NoLimit
<1>2. /\ w \in Seq(Ops)
      /\ \A i \in DOMAIN w : w[i] = o \/ \E j \in DOMAIN waiting : w[i] = waiting[j]
  <2>1. CASE Returning(o)
    BY <1>1, <2>1
  <2>2. CASE ~ Returning(o)
    BY <1>1, <2>2
  <2> QED
    BY <2>1, <2>2
<1>3. IF resting = 0 THEN Grant(o, w, running, limit) ELSE Rearrange(o, w)
  BY DEF AcquireQueued
<1> HIDE DEF w
<1>4. \A i \in DOMAIN waiting' : \E j \in DOMAIN w : waiting'[i] = w[j]
  <2>1. CASE resting = 0
    BY <1>1, <1>2, <1>3, <2>1, GrantTakes
  <2>2. CASE resting # 0
    BY <1>3, <2>2 DEF Rearrange
  <2> QED
    BY <2>1, <2>2
<1>5. \A x \in Ops : InQueue(x)' => x = o \/ InQueue(x)
  BY <1>2, <1>4 DEF InQueue
<1>6. \A x \in Ops \ {o} : pc'[x] = pc[x]
  BY <1>1 DEF AcquireQueued, Goes
<1>7. reading' = reading
  BY DEF AcquireQueued
<1>8. CASE Returning(o)
  <2>1. pc'[o] = "requeued"
    BY <1>1, <1>8 DEF AcquireQueued, Goes
  <2> QED
    BY <1>1, <1>5, <1>6, <1>7, <2>1, NobodyNew
<1>9. CASE ~ Returning(o)
  <2>1. Len(waiting) + resting + reading < MaxWaiting
    BY <1>9 DEF AcquireQueued, Queued
  <2>2. Fresh' \subseteq Fresh \cup {o}
    BY <1>5, <1>6 DEF Fresh
  <2>3. /\ IsFiniteSet(Fresh) /\ Cardinality(Fresh) \in Nat
        /\ Cardinality(Fresh) <= Len(waiting)
    BY FreshInQueue DEF BoundInv
  <2>4. /\ IsFiniteSet(Fresh \cup {o})
        /\ Cardinality(Fresh \cup {o}) = IF o \in Fresh THEN Cardinality(Fresh)
                                                        ELSE Cardinality(Fresh) + 1
    BY <2>3, FS_AddElement
  <2>5. IsFiniteSet(Fresh') /\ Cardinality(Fresh') <= Cardinality(Fresh \cup {o})
    BY <2>2, <2>4, FS_Subset
  <2>6. Cardinality(Fresh') \in Nat /\ Cardinality(Fresh \cup {o}) <= Len(waiting) + 1
    BY <1>1, <2>3, <2>4, <2>5, FS_CardinalityType
  <2>7. Cardinality(Fresh \cup {o}) \in Nat
    BY <2>4, FS_CardinalityType
  <2> QED
    BY <1>1, <1>7, <2>1, <2>5, <2>6, <2>7 DEF FreshCounted
<1> QED
  BY <1>8, <1>9

(* A step that moves one operation elsewhere than into the queue, and      *)
(* leaves the queue or grants from it, keeps the bound.                    *)
LEMMA BoundMove ==
  ASSUME BoundInv, GateInv', NEW o \in Ops, NEW place, Goes(o, place),
         place # "waiting", reading' <= reading,
         \/ waiting' = waiting
         \/ \E k \in DOMAIN waiting : waiting' = RemoveAt(waiting, k)
         \/ \E r \in Int : Grant(o, waiting, r, limit)
  PROVE  FreshCounted'
<1>1. pc \in [Ops -> Location] /\ waiting \in Seq(Ops) /\ limit \in Int
  BY DEF BoundInv, GateInv, TypeOK, Ranges, Limits, NoLimit
<1>2. \A x \in Ops : pc'[x] = "waiting" => pc[x] = "waiting"
  BY <1>1 DEF Goes
<1>3. \A i \in DOMAIN waiting' : \E j \in DOMAIN waiting : waiting'[i] = waiting[j]
  <2>1. CASE waiting' = waiting
    BY <2>1
  <2>2. ASSUME NEW k \in DOMAIN waiting, waiting' = RemoveAt(waiting, k)
        PROVE  \A i \in DOMAIN waiting' : \E j \in DOMAIN waiting : waiting'[i] = waiting[j]
    <3>1. /\ waiting' \in Seq(Ops) /\ Len(waiting') = Len(waiting) - 1
          /\ \A i \in 1..Len(waiting') :
                waiting'[i] = IF i < k THEN waiting[i] ELSE waiting[i + 1]
      BY <1>1, <2>2, RemoveAtFacts
    <3> QED
      BY <1>1, <3>1
  <2>3. ASSUME NEW r \in Int, Grant(o, waiting, r, limit)
        PROVE  \A i \in DOMAIN waiting' : \E j \in DOMAIN waiting : waiting'[i] = waiting[j]
    BY <1>1, <2>3, GrantTakes
  <2> QED
    BY <2>1, <2>2, <2>3
<1>4. \A x \in Ops : InQueue(x)' => InQueue(x)
  BY <1>3 DEF InQueue
<1> QED
  BY <1>2, <1>4, NobodyNew

(* Every step of the gate keeps the bound.                                 *)
LEMMA BoundNext ==
  ASSUME BoundInv, [Next]_vars
  PROVE  BoundInv'
<1>1. GateInv' /\ running \in Int /\ reading \in Int /\ limit \in Int
  BY InvNext DEF BoundInv, GateInv, TypeOK, Ranges, Limits, NoLimit
<1>2. running - 1 \in Int
  BY <1>1
<1>3. ASSUME UNCHANGED vars
      PROVE  FreshCounted'
  <2>1. waiting' = waiting /\ pc' = pc /\ reading' = reading
    BY <1>3 DEF vars, gateState
  <2> QED
    BY <1>1, <2>1 DEF FreshCounted, Fresh, InQueue, BoundInv
<1>4. ASSUME NEW o \in Ops, Begin(o) \/ ReadRefused(o) \/ Start(o)
      PROVE  FreshCounted'
  BY <1>1, <1>4, BoundMove DEF Begin, ReadRefused, Start, gateState
<1>5. ASSUME NEW o \in Ops, ReadLimit(o)
      PROVE  FreshCounted'
  BY <1>1, <1>5, BoundReadLimit
<1>6. ASSUME NEW o \in Ops, EndReading(o) \/ CancelReading(o)
      PROVE  FreshCounted'
  BY <1>1, <1>6, BoundMove DEF EndReading, CancelReading
<1>7. ASSUME NEW o \in Ops, AcquireFree(o) \/ AcquireRefused(o)
      PROVE  FreshCounted'
  BY <1>1, <1>7, BoundMove DEF AcquireFree, AcquireRefused, gateState
<1>8. ASSUME NEW o \in Ops, AcquireQueued(o)
      PROVE  FreshCounted'
  BY <1>1, <1>8, BoundAcquireQueued
<1>9. ASSUME NEW o \in Ops, Wake(o) \/ Rest(o) \/ EndRest(o)
      PROVE  FreshCounted'
  BY <1>1, <1>9, BoundMove DEF Wake, Rest, EndRest
<1>10. ASSUME NEW o \in Ops, Finish(o) \/ Busy(o) \/ CancelGranted(o)
       PROVE  FreshCounted'
  <2>1. /\ Grant(o, waiting, running - 1, limit) /\ reading' = reading
        /\ Goes(o, "ended") \/ Goes(o, "released")
    BY <1>10 DEF Finish, Busy, CancelGranted
  <2> QED
    BY <1>1, <1>2, <2>1, BoundMove
<1>11. ASSUME NEW o \in Ops, CancelRest(o)
       PROVE  FreshCounted'
  <2>1. Grant(o, waiting, running, limit) /\ reading' = reading /\ Goes(o, "ended")
    BY <1>11 DEF CancelRest
  <2> QED
    BY <1>1, <2>1, BoundMove
<1>12. ASSUME NEW o \in Ops, CancelWaiting(o)
       PROVE  FreshCounted'
  <2>1. /\ \E k \in DOMAIN waiting : waiting' = RemoveAt(waiting, k)
        /\ reading' = reading /\ Goes(o, "ended")
    BY <1>12 DEF CancelWaiting, Rearrange
  <2> QED
    BY <1>1, <2>1, BoundMove
<1>13. ASSUME NEW said \in {NoLimit} \cup Limits, TeamAnswers(said)
       PROVE  FreshCounted'
  <2>1. pc \in [Ops -> Location]
    BY DEF BoundInv, GateInv, TypeOK
  <2>2. \A x \in Ops : pc'[x] = "waiting" => pc[x] = "waiting"
    BY <1>13, <2>1 DEF TeamAnswers
  <2>3. waiting' = waiting /\ reading' = reading
    BY <1>13 DEF TeamAnswers
  <2> QED
    BY <1>1, <2>2, <2>3, NobodyNew DEF InQueue
<1>14. ASSUME NEW l \in Limits, SetLimit(l)
       PROVE  FreshCounted'
  <2>1. /\ Grant(Admin, waiting, running, l) /\ reading' = reading /\ pc' = pc
    BY <1>14 DEF SetLimit
  <2>2. waiting \in Seq(Ops) /\ l \in Int
    BY DEF BoundInv, GateInv, TypeOK, Ranges, Limits
  <2>3. \A i \in DOMAIN waiting' : \E j \in DOMAIN waiting : waiting'[i] = waiting[j]
    BY <1>1, <2>1, <2>2, GrantTakes
  <2> QED
    BY <1>1, <2>1, <2>3, NobodyNew DEF InQueue
<1>15. ASSUME NEW t \in Tellers, NEW m \in telling[t], Tell(t, m)
       PROVE  FreshCounted'
  BY <1>1, <1>15, NobodyNew DEF Tell, gateState, InQueue
<1> QED
  BY <1>1, <1>3, <1>4, <1>5, <1>6, <1>7, <1>8, <1>9, <1>10, <1>11, <1>12, <1>13,
     <1>14, <1>15 DEF Next, Step, Acquire, Cancel, BoundInv

(* Every count keeps its range and the fresh operations their bound,       *)
(* MAX_WAITING of gate/mod.rs, whatever comes back from its rest.          *)
THEOREM AlwaysBounded == Spec => []Bounded
<1>1. Init => BoundInv
  <2> SUFFICES ASSUME Init PROVE BoundInv
    OBVIOUS
  <2>1. GateInv /\ reading = 0 /\ waiting = <<>> /\ MaxWaiting \in Nat
    BY InvInit, GateAssumption DEF Init
  <2>2. Fresh = {}
    BY <2>1 DEF Fresh, InQueue
  <2> QED
    BY <2>1, <2>2, FS_EmptySet DEF BoundInv, FreshCounted
<1>2. BoundInv /\ [Next]_vars => BoundInv'
  BY BoundNext
<1>3. BoundInv => Bounded
  BY FreshPlaces DEF BoundInv, GateInv, Bounded
<1> QED
  BY <1>1, <1>2, <1>3, PTL DEF Spec

-----------------------------------------------------------------------------
Ordered == \A i, j \in DOMAIN waiting :
             i < j /\ waiting[j] \in granted' => waiting[i] \notin ToSet(waiting')

(* grant() starts nobody before whoever is ahead in the queue it is given. *)
LEMMA GrantInOrder ==
  ASSUME NEW t, NEW w \in Seq(Ops), Distinct(w), NEW r \in Int, NEW l \in Int,
         Grant(t, w, r, l), NEW a \in DOMAIN w, NEW b \in DOMAIN w, a < b,
         w[b] \in granted', w[b] \notin granted
  PROVE  w[a] \notin ToSet(waiting')
<1> DEFINE n == Grants(w, r, l)
<1>1. /\ n \in 0..Len(w) /\ waiting' = SubSeq(w, n + 1, Len(w))
      /\ granted' = (granted \ {t}) \cup {w[i] : i \in 1..n}
  BY DEF Grants, Grant
<1> HIDE DEF n
<1>2. /\ waiting' \in Seq(Ops) /\ Len(waiting') = Len(w) - n
      /\ \A i \in 1..Len(w) - n : waiting'[i] = w[i + n]
  BY <1>1, DropFacts
<1>3. DOMAIN w = 1..Len(w) /\ Len(w) \in Nat /\ DOMAIN waiting' = 1..Len(w) - n
  BY <1>1, <1>2
<1>4. b \in 1..n
  <2>1. PICK i \in 1..n : w[b] = w[i]
    BY <1>1
  <2>2. i \in DOMAIN w
    BY <1>1, <1>3
  <2> QED
    BY <2>1, <2>2 DEF Distinct
<1>5. \A k \in DOMAIN waiting' : waiting'[k] = w[k + n] /\ k + n \in DOMAIN w /\ k + n # a
  <2>1. n \in Nat /\ n <= Len(w) /\ a \in Nat /\ a < n
    BY <1>1, <1>3, <1>4
  <2> SUFFICES ASSUME NEW k \in 1..Len(w) - n
               PROVE  waiting'[k] = w[k + n] /\ k + n \in DOMAIN w /\ k + n # a
    BY <1>3
  <2>2. waiting'[k] = w[k + n]
    BY <1>2
  <2>3. k + n \in 1..Len(w) /\ k + n # a
    BY <1>3, <2>1
  <2> QED
    BY <1>3, <2>2, <2>3
<1>6. \A k \in DOMAIN waiting' : waiting'[k] # w[a]
  BY <1>5 DEF Distinct
<1> QED
  BY <1>6 DEF ToSet

(* The same, of the queue as the section that grants found it.             *)
LEMMA GrantsInOrder ==
  ASSUME GateInv, NEW t, NEW r \in Int, NEW l \in Int, Grant(t, waiting, r, l)
  PROVE  Ordered
<1>1. waiting \in Seq(Ops) /\ Distinct(waiting)
      /\ \A i \in DOMAIN waiting : waiting[i] \notin granted
  BY DEF GateInv, TypeOK, Ranges, QueueOK
<1> QED
  BY <1>1, GrantInOrder DEF Ordered

(* Joining the queue at either end changes nothing of the others' order.   *)
LEMMA QueuesInOrder ==
  ASSUME GateInv, NEW o \in Ops, AcquireQueued(o)
  PROVE  Ordered
<1> DEFINE w == IF Returning(o) THEN <<o>> \o waiting ELSE Append(waiting, o)
           d == IF Returning(o) THEN 1 ELSE 0
<1>1. /\ waiting \in Seq(Ops) /\ Distinct(waiting) /\ running \in Int /\ limit \in Int
      /\ Len(waiting) \in Nat /\ DOMAIN waiting = 1..Len(waiting)
      /\ \A i \in DOMAIN waiting : waiting[i] \notin granted
  BY DEF GateInv, TypeOK, Ranges, QueueOK, Limits, NoLimit
<1>2. \A i \in DOMAIN waiting : waiting[i] # o
  BY DEF GateInv, QueueOK, AcquireQueued, Acquiring, Queueing
<1>3. /\ w \in Seq(Ops) /\ Distinct(w) /\ d \in {0, 1}
      /\ \A i \in DOMAIN waiting : i + d \in DOMAIN w /\ w[i + d] = waiting[i]
  <2>1. CASE Returning(o)
    <3>1. /\ w \in Seq(Ops) /\ Len(w) = Len(waiting) + 1 /\ w[1] = o
          /\ \A i \in 1..Len(waiting) : w[i + 1] = waiting[i]
      BY <1>1, <2>1
    <3>2. \A i \in 2..Len(w) : i - 1 \in 1..Len(waiting) /\ w[i] = waiting[i - 1]
      BY <1>1, <3>1
    <3> QED
      BY <1>1, <1>2, <2>1, <3>1, <3>2 DEF Distinct
  <2>2. CASE ~ Returning(o)
    <3>1. /\ w \in Seq(Ops) /\ Len(w) = Len(waiting) + 1 /\ w[Len(w)] = o
          /\ \A i \in 1..Len(waiting) : w[i] = waiting[i]
      BY <1>1, <2>2
    <3> QED
      BY <1>1, <1>2, <2>2, <3>1 DEF Distinct
  <2> QED
    BY <2>1, <2>2
<1>4. IF resting = 0 THEN Grant(o, w, running, limit) ELSE Rearrange(o, w)
  BY DEF AcquireQueued
<1> HIDE DEF w, d
<1>5. CASE resting = 0
  <2> SUFFICES ASSUME NEW i \in DOMAIN waiting, NEW j \in DOMAIN waiting, i < j,
                      waiting[j] \in granted'
               PROVE  waiting[i] \notin ToSet(waiting')
    BY DEF Ordered
  <2>1. /\ i + d \in DOMAIN w /\ j + d \in DOMAIN w /\ i + d < j + d
        /\ w[i + d] = waiting[i] /\ w[j + d] = waiting[j]
    BY <1>1, <1>3
  <2> QED
    BY <1>1, <1>3, <1>4, <1>5, <2>1, GrantInOrder
<1>6. CASE resting # 0
  BY <1>1, <1>4, <1>6 DEF Rearrange, Ordered
<1> QED
  BY <1>5, <1>6

(* First in, first out: a slot goes to a waiter only once everyone ahead   *)
(* of it has left the queue (grant, acquire and the drops of gate/mod.rs). *)
THEOREM FirstInFirstOut == Spec => QueueOrder
<1>1. ASSUME GateInv, [Next]_vars
      PROVE  Ordered
  <2>1. running \in Int /\ running - 1 \in Int /\ limit \in Int
        /\ \A i \in DOMAIN waiting : waiting[i] \notin granted
    BY <1>1 DEF GateInv, TypeOK, Ranges, QueueOK, Limits, NoLimit
  <2>2. ASSUME granted' \in SUBSET granted
        PROVE  Ordered
    BY <2>1, <2>2 DEF Ordered
  <2>3. CASE UNCHANGED vars
    <3>1. granted' = granted
      BY <2>3 DEF vars, gateState
    <3> QED
      BY <2>2, <3>1
  <2>4. ASSUME NEW o \in Ops,
               \/ Begin(o) \/ ReadLimit(o) \/ ReadRefused(o) \/ EndReading(o)
               \/ AcquireFree(o) \/ AcquireRefused(o) \/ Start(o) \/ Wake(o) \/ Rest(o)
               \/ EndRest(o) \/ CancelReading(o) \/ CancelWaiting(o)
        PROVE  Ordered
    <3>1. granted' \in SUBSET granted
      BY <2>4 DEF Begin, ReadLimit, ReadRefused, EndReading, AcquireFree, AcquireRefused,
                  Start, Wake, Rest, EndRest, CancelReading, CancelWaiting, Rearrange,
                  gateState
    <3> QED
      BY <2>2, <3>1
  <2>5. ASSUME NEW o \in Ops, AcquireQueued(o)
        PROVE  Ordered
    BY <1>1, <2>5, QueuesInOrder
  <2>6. ASSUME NEW o \in Ops, Finish(o) \/ Busy(o) \/ CancelGranted(o)
        PROVE  Ordered
    <3>1. Grant(o, waiting, running - 1, limit)
      BY <2>6 DEF Finish, Busy, CancelGranted
    <3> QED
      BY <1>1, <2>1, <3>1, GrantsInOrder
  <2>7. ASSUME NEW o \in Ops, CancelRest(o)
        PROVE  Ordered
    <3>1. Grant(o, waiting, running, limit)
      BY <2>7 DEF CancelRest
    <3> QED
      BY <1>1, <2>1, <3>1, GrantsInOrder
  <2>8. ASSUME NEW l \in Limits, SetLimit(l)
        PROVE  Ordered
    <3>1. Grant(Admin, waiting, running, l) /\ l \in Int
      BY <2>8 DEF SetLimit, Limits
    <3> QED
      BY <1>1, <2>1, <3>1, GrantsInOrder
  <2>9. ASSUME NEW said \in {NoLimit} \cup Limits, TeamAnswers(said)
        PROVE  Ordered
    BY <2>2, <2>9 DEF TeamAnswers
  <2>10. ASSUME NEW t \in Tellers, NEW m \in telling[t], Tell(t, m)
         PROVE  Ordered
    BY <2>2, <2>10 DEF Tell, gateState
  <2> QED
    BY <1>1, <2>3, <2>4, <2>5, <2>6, <2>7, <2>8, <2>9, <2>10 DEF Next, Step, Acquire, Cancel
<1>2. GateInv /\ [Next]_vars => [Ordered]_vars
  BY <1>1
<1> QED
  BY <1>2, Invariance, PTL DEF Spec, QueueOrder, Ordered

-----------------------------------------------------------------------------
(* Durable turns. A record goes only in Turns::remove, which the run       *)
(* reaches after Team was told of a committed ending and the sweep from    *)
(* four places; that the history shows the turn in each of them is what    *)
(* the inductive invariant carries from the step that wrote it, or that    *)
(* Team settled, to the step that removes.                                 *)

(* The turn is recorded, or the history shows how it stands. *)
Known(t) == t \in kept \/ Shown(t)

(* What holds of each turn: Team may have it only when it is known; what   *)
(* Team settled as delivered is shown, and as revoked is shown or its      *)
(* grant ended; a run that may send it, or the sweep's list, knows it; a   *)
(* run that settles it has shown it, and one that delivers has an answer.  *)
Sane(t) ==
  /\ team[t] # "none" \/ t \in inFlight => Known(t)
  /\ team[t] = "delivered" => Shown(t)
  /\ team[t] = "revoked" => Shown(t) \/ t \in ended
  /\ run[t] \in {"own", "pending"} => Known(t)
  /\ run[t] = "settle" => Shown(t)
  /\ run[t] = "deliver" => answer[t] # "none"
  /\ t \in todo => Known(t)

(* What holds of the turn the sweep settles: it is shown before Team is    *)
(* told or its record goes, and only a turn shown or ended is revoked.     *)
Between == {"asleep", "filter", "next"}
SweepSane ==
  sweep \notin Between =>
     /\ turn \in Turns
     /\ Known(turn)
     /\ sweep = "commit" => resent # "none"
     /\ sweep \in {"tell", "telloff", "remove", "removed"} => Shown(turn)
     /\ sweep \in {"revoke", "check", "fail"} => Shown(turn) \/ turn \in ended

TurnsInv == TurnsTypeOK /\ SweepSane /\ \A t \in Turns : Sane(t)

-----------------------------------------------------------------------------
(* The rows a turn may be given. *)
Rows == Statuses \cup {"challenge", "steps", "bare"}

(* Turns::record and Turns::remove keep within MAX_TURNS. *)
LEMMA Room ==
  ASSUME TurnsTypeOK, NEW t \in Turns
  PROVE  /\ Cardinality(kept) < MaxTurns => Cardinality(kept \cup {t}) <= MaxTurns
         /\ t \in kept => kept \cup {t} = kept
         /\ Cardinality(kept \ {t}) <= MaxTurns
<1>1. IsFiniteSet(kept) /\ Cardinality(kept) \in Nat /\ MaxTurns \in Nat
  BY TurnsAssumption, FS_Subset, FS_CardinalityType DEF TurnsTypeOK
<1>2. Cardinality(kept \cup {t}) \in {Cardinality(kept), Cardinality(kept) + 1}
  BY <1>1, FS_AddElement
<1>3. Cardinality(kept \ {t}) \in {Cardinality(kept), Cardinality(kept) - 1}
  BY <1>1, FS_RemoveElement
<1>4. Cardinality(kept) <= MaxTurns
  BY DEF TurnsTypeOK
<1> QED BY <1>1, <1>2, <1>3, <1>4

(* A row the history takes shows its turn, and hides no other; a reply or  *)
(* a finished status that unbinds a paused turn is itself shown.           *)
LEMMA WrittenShows ==
  ASSUME TurnsTypeOK, NEW t \in Turns, NEW what \in Rows,
         Written(t, what) \/ WrittenFinish(t, what)
  PROVE  Shown(t)' /\ \A s \in Turns : Shown(s) => Shown(s)'
<1>1. CASE what = "challenge"
  BY <1>1 DEF Written, WrittenFinish, Shown, HasEnding, TurnsTypeOK, Statuses
<1>2. CASE what \in {"steps", "bare"}
  BY <1>2 DEF Written, WrittenFinish, Shown, HasEnding, TurnsTypeOK, Statuses
<1>3. CASE what \in Statuses
  BY <1>3 DEF Written, WrittenFinish, Shown, HasEnding, TurnsTypeOK, Statuses
<1> QED BY <1>1, <1>2, <1>3 DEF Rows

(* What Team ended a turn with is kept as such a row. *)
LEMMA KeptRows ==
  /\ \A what \in Kept \cup {"local"} : RunKeeps(what) \subseteq Rows
  /\ \A what \in Kept \cup {"busy", "refused"} : SweepKeeps(what) \subseteq Rows
BY DEF Kept, RunKeeps, SweepKeeps, Rows, Statuses

(* What is shown depends on the history alone. *)
LEMMA NotWritten ==
  ASSUME UNCHANGED history
  PROVE  \A s \in Turns : Shown(s)' = Shown(s)
BY DEF history, Shown, HasEnding

(* No step of a run hides what the history shows. *)
LEMMA RunWrites ==
  ASSUME TurnsInv, NEW u \in Turns, Run(u)
  PROVE  \A s \in Turns : Shown(s) => Shown(s)'
<1>1. CASE Refused(u)
  BY <1>1, WrittenShows, NotWritten DEF Refused, TurnsInv, TurnsTypeOK, Rows,
     Statuses
<1>2. CASE Deliver(u)
  BY <1>2, WrittenShows, KeptRows, NotWritten DEF Deliver, TurnsInv, TurnsTypeOK,
     Sane, Rows, Statuses
<1>3. CASE Cancelled(u)
  BY <1>3, WrittenShows, NotWritten DEF Cancelled, TurnsInv, TurnsTypeOK, Rows,
     Statuses
<1>4. CASE Stopped(u)
  BY <1>4, WrittenShows, NotWritten DEF Stopped, TurnsInv, TurnsTypeOK, Rows,
     Statuses
<1>5. CASE Close(u)
  BY <1>5, WrittenShows, KeptRows, NotWritten DEF Close, TurnsInv, TurnsTypeOK, Sane,
     Rows, Statuses
<1>6. CASE Closed(u)
  BY <1>6, WrittenShows, NotWritten DEF Closed, TurnsInv, TurnsTypeOK, Rows, Statuses
<1> QED BY <1>1, <1>2, <1>3, <1>4, <1>5, <1>6, NotWritten DEF Run, Record,
   RecordRefused, Own, Send, Answered, Unreached, SpaceBusy, Rested, Settle,
   Release

(* No step of the sweep does either. *)
LEMMA SweepWrites ==
  ASSUME TurnsInv, Sweep
  PROVE  \A s \in Turns : Shown(s) => Shown(s)'
<1>1. CASE SweepCommits
  BY <1>1, WrittenShows, KeptRows, NotWritten DEF SweepCommits, TurnsInv,
     TurnsTypeOK, SweepSane, Between
<1>2. CASE SweepFails
  BY <1>2, WrittenShows, NotWritten DEF SweepFails, TurnsInv, TurnsTypeOK, Rows,
     Statuses, SweepSane, Between
<1> QED BY <1>1, <1>2, NotWritten DEF Sweep, SweepReads, SweepFilters,
   SweepSleeps, SweepTakes, SweepSends, SweepUnsent, SweepLapsed, SweepRefused,
   SweepAnswered, SweepBusy, SweepSettled, SweepHas, SweepTells, SweepRevokes,
   SweepChecks, SweepRemoves, SweepReleases

(* A run settles, and the sweep goes on, only with what was committed. *)
LEMMA DeliverShows ==
  ASSUME TurnsInv, NEW u \in Turns, Deliver(u)
  PROVE  run'[u] = "settle" => Shown(u)'
BY WrittenShows, KeptRows DEF Deliver, RunGoes, TurnsInv, TurnsTypeOK, Sane

(* The sweep tells Team only of an ending the history took. *)
LEMMA SweepCommitsShows ==
  ASSUME TurnsInv, SweepCommits
  PROVE  sweep' # "next" => Shown(turn)'
BY WrittenShows, KeptRows
   DEF SweepCommits, SweepNext, TurnsInv, TurnsTypeOK, SweepSane, Between

(* The sweep removes a revoked turn only once the history took its failure. *)
LEMMA SweepFailsShows ==
  ASSUME TurnsInv, SweepFails
  PROVE  sweep' # "next" => Shown(turn)'
BY WrittenShows
   DEF SweepFails, SweepGoes, SweepNext, TurnsInv, TurnsTypeOK, SweepSane, Between,
       Rows, Statuses

-----------------------------------------------------------------------------
(* A step of a run keeps every type; only Turns::record and Turns::remove
   change how many records there are. *)
LEMMA TypeRun ==
  ASSUME TurnsInv, NEW u \in Turns, Run(u)
  PROVE  TurnsTypeOK'
<1>1. CASE Record(u)
  BY <1>1, Room DEF Record, RunGoes, history, sweeping, outside, TurnsInv,
     TurnsTypeOK, RunAt
<1>2. CASE RecordRefused(u)
  BY <1>2 DEF RecordRefused, RunGoes, durable, history, sweeping, outside,
     TurnsInv, TurnsTypeOK, RunAt
<1>3. CASE Own(u, "pending")
  BY <1>3 DEF Own, RunGoes, durable, history, sweeping, outside, TurnsInv,
     TurnsTypeOK, RunAt
<1>4. CASE Own(u, "refused")
  BY <1>4 DEF Own, RunGoes, durable, history, sweeping, outside, TurnsInv,
     TurnsTypeOK, RunAt
<1>5. CASE Send(u)
  BY <1>5 DEF Send, Sent, RunGoes, durable, history, sweeping, TurnsInv, TurnsTypeOK,
     RunAt
<1>6. CASE Refused(u)
  BY <1>6 DEF Refused, Written, history, RunGoes, durable, sweeping,
     outside, TurnsInv, TurnsTypeOK, RunAt, Statuses, Kept
<1>7. CASE Answered(u)
  BY <1>7 DEF Answered, Kept, Settled, RunGoes, durable, history, sweeping,
     outside, TurnsInv, TurnsTypeOK, RunAt
<1>8. CASE Unreached(u)
  BY <1>8 DEF Unreached, RunGoes, durable, history, sweeping, outside, TurnsInv,
     TurnsTypeOK, RunAt
<1>9. CASE SpaceBusy(u)
  BY <1>9 DEF SpaceBusy, RunGoes, durable, history, sweeping, TurnsInv, TurnsTypeOK,
     RunAt
<1>10. CASE Rested(u)
  BY <1>10 DEF Rested, RunGoes, durable, history, sweeping, outside, TurnsInv,
     TurnsTypeOK, RunAt
<1>11. CASE Deliver(u)
  BY <1>11 DEF Deliver, RunKeeps, Written, RunGoes, history, durable,
     sweeping, outside, TurnsInv, TurnsTypeOK, RunAt, Statuses, Kept
<1>12. CASE Settle(u)
  <2>1. CASE Removed(u)
    BY <1>12, <2>1, Room DEF Settle, TeamSettles, Removed, RunGoes, history,
       sweeping, Settled, TurnsInv, TurnsTypeOK, RunAt, Journal
  <2>2. CASE UNCHANGED durable
    BY <1>12, <2>2 DEF Settle, TeamSettles, RunGoes, durable, history, sweeping,
       Settled, TurnsInv, TurnsTypeOK, RunAt, Journal
  <2> QED BY <1>12, <2>1, <2>2 DEF Settle
<1>13. CASE Release(u)
  BY <1>13 DEF Release, RunGoes, durable, history, sweeping, outside, TurnsInv,
     TurnsTypeOK, RunAt
<1>14. CASE Cancelled(u)
  BY <1>14 DEF Cancelled, Written, history, RunGoes, durable, sweeping,
     outside, TurnsInv, TurnsTypeOK, RunAt, Statuses, Kept
<1>15. CASE Stopped(u)
  BY <1>15 DEF Stopped, WrittenFinish, Written, history, RunGoes, durable,
     sweeping, outside, Statuses, TurnsInv, TurnsTypeOK, RunAt, Kept
<1>16. CASE Close(u)
  BY <1>16 DEF Close, Underway, RunKeeps, Written, history, RunGoes, durable,
     sweeping, outside, TurnsInv, TurnsTypeOK, RunAt, Statuses, Kept
<1>17. CASE Closed(u)
  BY <1>17 DEF Closed, WrittenFinish, Written, history, RunGoes, durable,
     sweeping, outside, Statuses, TurnsInv, TurnsTypeOK, RunAt, Kept
<1> QED BY <1>1, <1>2, <1>3, <1>4, <1>5, <1>6, <1>7, <1>8, <1>9, <1>10,
   <1>11, <1>12, <1>13, <1>14, <1>15, <1>16, <1>17 DEF Run

(* A Stop, a session's or a grant's end, a step of Team keeps every type. *)
LEMMA TypeOutside ==
  ASSUME TurnsInv, NEW u \in Turns,
         Stop(u) \/ Team(u) \/ SessionEnds(u) \/ GrantLapses(u)
  PROVE  TurnsTypeOK'
<1>1. CASE Stop(u)
  BY <1>1 DEF Stop, RunGoes, durable, history, sweeping, outside, TurnsInv,
     TurnsTypeOK, RunAt
<1>2. CASE SessionEnds(u)
  BY <1>2 DEF SessionEnds, history, sweeping, outside, TurnsInv, TurnsTypeOK
<1>3. CASE GrantLapses(u)
  BY <1>3 DEF GrantLapses, history, sweeping, outside, TurnsInv, TurnsTypeOK
<1>4. CASE TeamStarts(u)
  BY <1>4 DEF TeamStarts, TeamGoes, durable, history, sweeping, TurnsInv,
     TurnsTypeOK, Journal, Kept
<1>5. CASE \E how \in Kept \ {"stopped"} : TeamEnds(u, how)
  BY <1>5 DEF TeamEnds, TeamGoes, durable, history, sweeping, TurnsInv, TurnsTypeOK,
     Journal, Kept
<1>6. CASE TeamLoses(u)
  BY <1>6 DEF TeamLoses, TeamGoes, durable, history, sweeping, TurnsInv, TurnsTypeOK,
     Journal, Kept
<1>7. CASE TeamStops(u)
  BY <1>7 DEF TeamStops, TeamGoes, durable, history, sweeping, TurnsInv, TurnsTypeOK,
     Journal, Kept
<1> QED BY <1>1, <1>2, <1>3, <1>4, <1>5, <1>6, <1>7 DEF Team

(* A step of the sweep keeps every type. *)
LEMMA TypeSweep ==
  ASSUME TurnsInv, Sweep
  PROVE  TurnsTypeOK'
<1>1. CASE SweepReads
  BY <1>1 DEF SweepReads, durable, history, outside, SweepOnly, TurnsInv,
     TurnsTypeOK, SweepAt
<1>2. CASE SweepFilters
  BY <1>2 DEF SweepFilters, durable, history, outside, SweepOnly, TurnsInv,
     TurnsTypeOK, SweepAt
<1>3. CASE SweepSleeps
  BY <1>3 DEF SweepSleeps, durable, history, outside, SweepOnly, TurnsInv,
     TurnsTypeOK, SweepAt
<1>4. CASE \E u \in Turns : SweepTakes(u)
  BY <1>4 DEF SweepTakes, Current, durable, history, outside, SweepOnly,
     TurnsInv, TurnsTypeOK, SweepAt
<1>5. CASE SweepSends
  BY <1>5 DEF SweepSends, Sent, SweepGoes, durable, history, SweepOnly,
     TurnsInv, TurnsTypeOK, SweepAt, SweepSane, Between
<1>6. CASE SweepUnsent
  BY <1>6 DEF SweepUnsent, SweepNext, durable, history, outside, SweepOnly,
     TurnsInv, TurnsTypeOK, SweepAt
<1>7. CASE SweepLapsed
  BY <1>7 DEF SweepLapsed, Current, SweepGoes, durable, history, outside,
     SweepOnly, TurnsInv, TurnsTypeOK, SweepAt, SweepSane, Between
<1>8. CASE SweepRefused
  BY <1>8 DEF SweepRefused, SweepHas, Current, durable, history, SweepOnly,
     TurnsInv, TurnsTypeOK, SweepAt
<1>9. CASE SweepAnswered
  BY <1>9 DEF SweepAnswered, Kept, SweepHas, Current, durable, history,
     SweepOnly, TurnsInv, TurnsTypeOK, SweepAt, SweepSane, Between
<1>10. CASE SweepBusy
  BY <1>10 DEF SweepBusy, SweepHas, Current, durable, history, SweepOnly,
     TurnsInv, TurnsTypeOK, SweepAt, SweepSane, Between
<1>11. CASE SweepSettled
  BY <1>11 DEF SweepSettled, Settled, Current, SweepGoes, durable, history,
     outside, SweepOnly, TurnsInv, TurnsTypeOK, SweepAt, SweepSane, Between
<1>12. CASE SweepCommits
  BY <1>12 DEF SweepCommits, SweepKeeps, WrittenFinish, SweepNext, history,
     durable, outside, SweepOnly, RunKeeps, Statuses, Written, TurnsInv, TurnsTypeOK,
     SweepAt, Kept, SweepSane, Between
<1>13. CASE SweepTells
  BY <1>13 DEF SweepTells, TeamSettles, SweepGoes, SweepNext, durable,
     history, SweepOnly, Settled, TurnsInv, TurnsTypeOK, SweepAt, Journal, Kept,
     SweepSane, Between
<1>14. CASE SweepRevokes
  BY <1>14 DEF SweepRevokes, TeamSettles, SweepGoes, SweepNext, durable,
     history, SweepOnly, Settled, TurnsInv, TurnsTypeOK, SweepAt, Journal, Kept,
     SweepSane, Between
<1>15. CASE SweepChecks
  BY <1>15 DEF SweepChecks, SweepGoes, HasEnding, SweepNext, durable,
     history, outside, SweepOnly, TurnsInv, TurnsTypeOK, SweepAt, SweepSane, Between
<1>16. CASE SweepFails
  BY <1>16 DEF SweepFails, WrittenFinish, SweepGoes, SweepNext, history,
     durable, outside, SweepOnly, Statuses, Written, TurnsInv, TurnsTypeOK, SweepAt,
     Kept, SweepSane, Between
<1>17. CASE SweepRemoves
  BY <1>17, Room DEF SweepRemoves, Removed, SweepGoes, SweepNext, durable,
     history, outside, SweepOnly, TurnsInv, TurnsTypeOK, SweepAt, SweepSane, Between
<1>18. CASE SweepReleases
  BY <1>18 DEF SweepReleases, SweepNext, durable, history, outside, TurnsInv,
     TurnsTypeOK, SweepAt, SweepSane, Between
<1> QED BY <1>1, <1>2, <1>3, <1>4, <1>5, <1>6, <1>7, <1>8, <1>9, <1>10,
   <1>11, <1>12, <1>13, <1>14, <1>15, <1>16, <1>17, <1>18 DEF Sweep

-----------------------------------------------------------------------------
(* A step of a run keeps every turn sane. *)
LEMMA SaneRun ==
  ASSUME TurnsInv, NEW u \in Turns, Run(u)
  PROVE  (\A t \in Turns : Sane(t))'
<1>0. \A s \in Turns : Shown(s) => Shown(s)'
  BY RunWrites
<1>1. CASE Record(u)
  BY <1>1 DEF Record, RunGoes, history, sweeping, outside, TurnsInv, TurnsTypeOK,
     Sane, Known, Between, SweepSane, Shown, HasEnding
<1>2. CASE RecordRefused(u)
  BY <1>2 DEF RecordRefused, RunGoes, durable, history, sweeping, outside,
     TurnsInv, TurnsTypeOK, Sane, Known, Between, SweepSane, Shown, HasEnding
<1>3. CASE Own(u, "pending")
  BY <1>3 DEF Own, RunGoes, durable, history, sweeping, outside, TurnsInv,
     TurnsTypeOK, Sane, Known, Between, SweepSane, Shown, HasEnding
<1>4. CASE Own(u, "refused")
  BY <1>4 DEF Own, RunGoes, durable, history, sweeping, outside, TurnsInv,
     TurnsTypeOK, Sane, Known, Between, SweepSane, Shown, HasEnding
<1>5. CASE Send(u)
  BY <1>5 DEF Send, Sent, RunGoes, durable, history, sweeping, TurnsInv, TurnsTypeOK,
     Sane, Known, Between, SweepSane, Shown, HasEnding
<1>6. CASE Refused(u)
  BY <1>6, <1>0 DEF Refused, history, RunGoes, durable, sweeping, outside,
     TurnsInv, TurnsTypeOK, Sane, Known, Between, SweepSane
<1>7. CASE Answered(u)
  BY <1>7 DEF Answered, Kept, Settled, RunGoes, durable, history, sweeping,
     outside, TurnsInv, TurnsTypeOK, Sane, Known, Between, SweepSane, Shown, HasEnding
<1>8. CASE Unreached(u)
  BY <1>8 DEF Unreached, RunGoes, durable, history, sweeping, outside, TurnsInv,
     TurnsTypeOK, Sane, Known, Between, SweepSane, Shown, HasEnding
<1>9. CASE SpaceBusy(u)
  BY <1>9 DEF SpaceBusy, RunGoes, durable, history, sweeping, TurnsInv, TurnsTypeOK,
     Sane, Known, Between, SweepSane, Shown, HasEnding
<1>10. CASE Rested(u)
  BY <1>10 DEF Rested, RunGoes, durable, history, sweeping, outside, TurnsInv,
     TurnsTypeOK, Sane, Known, Between, SweepSane, Shown, HasEnding
<1>11. CASE Deliver(u)
  BY <1>11, <1>0, DeliverShows DEF Deliver, RunKeeps, RunGoes, history,
     durable, sweeping, outside, TurnsInv, TurnsTypeOK, Sane, Known, Between, SweepSane
<1>12. CASE Settle(u)
  BY <1>12 DEF Settle, TeamSettles, Removed, RunGoes, durable, history,
     sweeping, Settled, TurnsInv, TurnsTypeOK, Sane, Known, Between, SweepSane, Shown,
     HasEnding
<1>13. CASE Release(u)
  BY <1>13 DEF Release, RunGoes, durable, history, sweeping, outside, TurnsInv,
     TurnsTypeOK, Sane, Known, Between, SweepSane, Shown, HasEnding
<1>14. CASE Cancelled(u)
  BY <1>14, <1>0 DEF Cancelled, history, RunGoes, durable, sweeping,
     outside, TurnsInv, TurnsTypeOK, Sane, Known, Between, SweepSane
<1>15. CASE Stopped(u)
  BY <1>15, <1>0 DEF Stopped, history, RunGoes, durable, sweeping, outside,
     TurnsInv, TurnsTypeOK, Sane, Known, Between, SweepSane
<1>16. CASE Close(u)
  BY <1>16, <1>0 DEF Close, Underway, RunKeeps, history, RunGoes, durable,
     sweeping, outside, TurnsInv, TurnsTypeOK, Sane, Known, Between, SweepSane
<1>17. CASE Closed(u)
  BY <1>17, <1>0 DEF Closed, history, RunGoes, durable, sweeping, outside,
     TurnsInv, TurnsTypeOK, Sane, Known, Between, SweepSane
<1> QED BY <1>1, <1>2, <1>3, <1>4, <1>5, <1>6, <1>7, <1>8, <1>9, <1>10,
   <1>11, <1>12, <1>13, <1>14, <1>15, <1>16, <1>17 DEF Run

(* A Stop, a session's or a grant's end, a step of Team keeps every turn sane. *)
LEMMA SaneOutside ==
  ASSUME TurnsInv, NEW u \in Turns,
         Stop(u) \/ Team(u) \/ SessionEnds(u) \/ GrantLapses(u)
  PROVE  (\A t \in Turns : Sane(t))'
<1>1. CASE Stop(u)
  BY <1>1 DEF Stop, RunGoes, durable, history, sweeping, outside, TurnsInv,
     TurnsTypeOK, Sane, Known, Between, SweepSane, Shown, HasEnding
<1>2. CASE SessionEnds(u)
  BY <1>2 DEF SessionEnds, history, sweeping, outside, TurnsInv, TurnsTypeOK, Sane,
     Known, Between, SweepSane, Shown, HasEnding
<1>3. CASE GrantLapses(u)
  BY <1>3 DEF GrantLapses, history, sweeping, outside, TurnsInv, TurnsTypeOK, Sane,
     Known, Between, SweepSane, Shown, HasEnding
<1>4. CASE TeamStarts(u)
  BY <1>4 DEF TeamStarts, TeamGoes, durable, history, sweeping, TurnsInv,
     TurnsTypeOK, Sane, Known, Between, SweepSane, Shown, HasEnding
<1>5. CASE \E how \in Kept \ {"stopped"} : TeamEnds(u, how)
  BY <1>5 DEF TeamEnds, TeamGoes, durable, history, sweeping, TurnsInv, TurnsTypeOK,
     Sane, Known, Between, SweepSane, Kept, Shown, HasEnding
<1>6. CASE TeamLoses(u)
  BY <1>6 DEF TeamLoses, TeamGoes, durable, history, sweeping, TurnsInv, TurnsTypeOK,
     Sane, Known, Between, SweepSane, Shown, HasEnding
<1>7. CASE TeamStops(u)
  BY <1>7 DEF TeamStops, TeamGoes, durable, history, sweeping, TurnsInv, TurnsTypeOK,
     Sane, Known, Between, SweepSane, Shown, HasEnding
<1> QED BY <1>1, <1>2, <1>3, <1>4, <1>5, <1>6, <1>7 DEF Team

(* A step of the sweep keeps every turn sane. *)
LEMMA SaneSweep ==
  ASSUME TurnsInv, Sweep
  PROVE  (\A t \in Turns : Sane(t))'
<1>0. \A s \in Turns : Shown(s) => Shown(s)'
  BY SweepWrites
<1>1. CASE SweepReads
  BY <1>1 DEF SweepReads, durable, history, outside, SweepOnly, TurnsInv,
     TurnsTypeOK, Sane, Known, Between, SweepSane, Shown, HasEnding
<1>2. CASE SweepFilters
  BY <1>2 DEF SweepFilters, durable, history, outside, SweepOnly, TurnsInv,
     TurnsTypeOK, Sane, Known, Between, SweepSane, Shown, HasEnding
<1>3. CASE SweepSleeps
  BY <1>3 DEF SweepSleeps, durable, history, outside, SweepOnly, TurnsInv,
     TurnsTypeOK, Sane, Known, Between, SweepSane, Shown, HasEnding
<1>4. CASE \E u \in Turns : SweepTakes(u)
  BY <1>4 DEF SweepTakes, Current, durable, history, outside, SweepOnly,
     TurnsInv, TurnsTypeOK, Sane, Known, Between, SweepSane, Shown, HasEnding
<1>5. CASE SweepSends
  BY <1>5 DEF SweepSends, Sent, SweepGoes, durable, history, SweepOnly,
     TurnsInv, TurnsTypeOK, Sane, Known, Between, SweepSane, Shown, HasEnding
<1>6. CASE SweepUnsent
  BY <1>6 DEF SweepUnsent, SweepNext, durable, history, outside, SweepOnly,
     TurnsInv, TurnsTypeOK, Sane, Known, Between, SweepSane, Shown, HasEnding
<1>7. CASE SweepLapsed
  BY <1>7 DEF SweepLapsed, Current, SweepGoes, durable, history, outside,
     SweepOnly, TurnsInv, TurnsTypeOK, Sane, Known, Between, SweepSane, Shown, HasEnding
<1>8. CASE SweepRefused
  BY <1>8 DEF SweepRefused, SweepHas, Current, durable, history, SweepOnly,
     TurnsInv, TurnsTypeOK, Sane, Known, Between, SweepSane, Shown, HasEnding
<1>9. CASE SweepAnswered
  BY <1>9 DEF SweepAnswered, Kept, SweepHas, Current, durable, history,
     SweepOnly, TurnsInv, TurnsTypeOK, Sane, Known, Between, SweepSane, Shown, HasEnding
<1>10. CASE SweepBusy
  BY <1>10 DEF SweepBusy, SweepHas, Current, durable, history, SweepOnly,
     TurnsInv, TurnsTypeOK, Sane, Known, Between, SweepSane, Shown, HasEnding
<1>11. CASE SweepSettled
  BY <1>11 DEF SweepSettled, Settled, Current, SweepGoes, durable, history,
     outside, SweepOnly, TurnsInv, TurnsTypeOK, Sane, Known, Between, SweepSane, Shown,
     HasEnding
<1>12. CASE SweepCommits
  BY <1>12, <1>0, SweepCommitsShows DEF SweepCommits, SweepKeeps, SweepNext,
     history, durable, outside, SweepOnly, RunKeeps, TurnsInv, TurnsTypeOK, Sane, Known,
     Between, SweepSane
<1>13. CASE SweepTells
  BY <1>13 DEF SweepTells, TeamSettles, SweepGoes, SweepNext, durable,
     history, SweepOnly, Settled, TurnsInv, TurnsTypeOK, Sane, Known, Between,
     SweepSane, Shown, HasEnding
<1>14. CASE SweepRevokes
  BY <1>14 DEF SweepRevokes, TeamSettles, SweepGoes, SweepNext, durable,
     history, SweepOnly, Settled, TurnsInv, TurnsTypeOK, Sane, Known, Between,
     SweepSane, Shown, HasEnding
<1>15. CASE SweepChecks
  BY <1>15 DEF SweepChecks, SweepGoes, HasEnding, SweepNext, durable,
     history, outside, SweepOnly, TurnsInv, TurnsTypeOK, Sane, Known, Between,
     SweepSane, Shown
<1>16. CASE SweepFails
  BY <1>16, <1>0, SweepFailsShows DEF SweepFails, SweepGoes, SweepNext,
     history, durable, outside, SweepOnly, TurnsInv, TurnsTypeOK, Sane, Known, Between,
     SweepSane
<1>17. CASE SweepRemoves
  BY <1>17 DEF SweepRemoves, Removed, SweepGoes, SweepNext, durable,
     history, outside, SweepOnly, TurnsInv, TurnsTypeOK, Sane, Known, Between,
     SweepSane, Shown, HasEnding
<1>18. CASE SweepReleases
  BY <1>18 DEF SweepReleases, SweepNext, durable, history, outside, TurnsInv,
     TurnsTypeOK, Sane, Known, Between, SweepSane, Shown, HasEnding
<1> QED BY <1>1, <1>2, <1>3, <1>4, <1>5, <1>6, <1>7, <1>8, <1>9, <1>10,
   <1>11, <1>12, <1>13, <1>14, <1>15, <1>16, <1>17, <1>18 DEF Sweep

-----------------------------------------------------------------------------
(* A step of a run keeps what the sweep relies on. *)
LEMMA SweepSaneRun ==
  ASSUME TurnsInv, NEW u \in Turns, Run(u)
  PROVE  SweepSane'
<1>0. \A s \in Turns : Shown(s) => Shown(s)'
  BY RunWrites
<1>1. CASE Record(u)
  BY <1>1 DEF Record, RunGoes, history, sweeping, outside, TurnsInv, TurnsTypeOK,
     Sane, Known, Between, SweepSane, Shown, HasEnding
<1>2. CASE RecordRefused(u)
  BY <1>2 DEF RecordRefused, RunGoes, durable, history, sweeping, outside,
     TurnsInv, TurnsTypeOK, Sane, Known, Between, SweepSane, Shown, HasEnding
<1>3. CASE Own(u, "pending")
  BY <1>3 DEF Own, RunGoes, durable, history, sweeping, outside, TurnsInv,
     TurnsTypeOK, Sane, Known, Between, SweepSane, Shown, HasEnding
<1>4. CASE Own(u, "refused")
  BY <1>4 DEF Own, RunGoes, durable, history, sweeping, outside, TurnsInv,
     TurnsTypeOK, Sane, Known, Between, SweepSane, Shown, HasEnding
<1>5. CASE Send(u)
  BY <1>5 DEF Send, Sent, RunGoes, durable, history, sweeping, TurnsInv, TurnsTypeOK,
     Sane, Known, Between, SweepSane, Shown, HasEnding
<1>6. CASE Refused(u)
  BY <1>6, <1>0 DEF Refused, history, RunGoes, durable, sweeping, outside,
     TurnsInv, TurnsTypeOK, Sane, Known, Between, SweepSane
<1>7. CASE Answered(u)
  BY <1>7 DEF Answered, Kept, Settled, RunGoes, durable, history, sweeping,
     outside, TurnsInv, TurnsTypeOK, Sane, Known, Between, SweepSane, Shown, HasEnding
<1>8. CASE Unreached(u)
  BY <1>8 DEF Unreached, RunGoes, durable, history, sweeping, outside, TurnsInv,
     TurnsTypeOK, Sane, Known, Between, SweepSane, Shown, HasEnding
<1>9. CASE SpaceBusy(u)
  BY <1>9 DEF SpaceBusy, RunGoes, durable, history, sweeping, TurnsInv, TurnsTypeOK,
     Sane, Known, Between, SweepSane, Shown, HasEnding
<1>10. CASE Rested(u)
  BY <1>10 DEF Rested, RunGoes, durable, history, sweeping, outside, TurnsInv,
     TurnsTypeOK, Sane, Known, Between, SweepSane, Shown, HasEnding
<1>11. CASE Deliver(u)
  BY <1>11, <1>0, DeliverShows DEF Deliver, RunKeeps, RunGoes, history,
     durable, sweeping, outside, TurnsInv, TurnsTypeOK, Sane, Known, Between, SweepSane
<1>12. CASE Settle(u)
  BY <1>12 DEF Settle, TeamSettles, Removed, RunGoes, durable, history,
     sweeping, Settled, TurnsInv, TurnsTypeOK, Sane, Known, Between, SweepSane, Shown,
     HasEnding
<1>13. CASE Release(u)
  BY <1>13 DEF Release, RunGoes, durable, history, sweeping, outside, TurnsInv,
     TurnsTypeOK, Sane, Known, Between, SweepSane, Shown, HasEnding
<1>14. CASE Cancelled(u)
  BY <1>14, <1>0 DEF Cancelled, history, RunGoes, durable, sweeping,
     outside, TurnsInv, TurnsTypeOK, Sane, Known, Between, SweepSane
<1>15. CASE Stopped(u)
  BY <1>15, <1>0 DEF Stopped, history, RunGoes, durable, sweeping, outside,
     TurnsInv, TurnsTypeOK, Sane, Known, Between, SweepSane
<1>16. CASE Close(u)
  BY <1>16, <1>0 DEF Close, Underway, RunKeeps, history, RunGoes, durable,
     sweeping, outside, TurnsInv, TurnsTypeOK, Sane, Known, Between, SweepSane
<1>17. CASE Closed(u)
  BY <1>17, <1>0 DEF Closed, history, RunGoes, durable, sweeping, outside,
     TurnsInv, TurnsTypeOK, Sane, Known, Between, SweepSane
<1> QED BY <1>1, <1>2, <1>3, <1>4, <1>5, <1>6, <1>7, <1>8, <1>9, <1>10,
   <1>11, <1>12, <1>13, <1>14, <1>15, <1>16, <1>17 DEF Run

(* A Stop, a session's or a grant's end, a step of Team keeps what the sweep relies on. *)
LEMMA SweepSaneOutside ==
  ASSUME TurnsInv, NEW u \in Turns,
         Stop(u) \/ Team(u) \/ SessionEnds(u) \/ GrantLapses(u)
  PROVE  SweepSane'
<1>1. CASE Stop(u)
  BY <1>1 DEF Stop, RunGoes, durable, history, sweeping, outside, TurnsInv,
     TurnsTypeOK, Sane, Known, Between, SweepSane, Shown, HasEnding
<1>2. CASE SessionEnds(u)
  BY <1>2 DEF SessionEnds, history, sweeping, outside, TurnsInv, TurnsTypeOK, Sane,
     Known, Between, SweepSane, Shown, HasEnding
<1>3. CASE GrantLapses(u)
  BY <1>3 DEF GrantLapses, history, sweeping, outside, TurnsInv, TurnsTypeOK, Sane,
     Known, Between, SweepSane, Shown, HasEnding
<1>4. CASE TeamStarts(u)
  BY <1>4 DEF TeamStarts, TeamGoes, durable, history, sweeping, TurnsInv,
     TurnsTypeOK, Sane, Known, Between, SweepSane, Shown, HasEnding
<1>5. CASE \E how \in Kept \ {"stopped"} : TeamEnds(u, how)
  BY <1>5 DEF TeamEnds, TeamGoes, durable, history, sweeping, TurnsInv, TurnsTypeOK,
     Sane, Known, Between, SweepSane, Kept, Shown, HasEnding
<1>6. CASE TeamLoses(u)
  BY <1>6 DEF TeamLoses, TeamGoes, durable, history, sweeping, TurnsInv, TurnsTypeOK,
     Sane, Known, Between, SweepSane, Shown, HasEnding
<1>7. CASE TeamStops(u)
  BY <1>7 DEF TeamStops, TeamGoes, durable, history, sweeping, TurnsInv, TurnsTypeOK,
     Sane, Known, Between, SweepSane, Shown, HasEnding
<1> QED BY <1>1, <1>2, <1>3, <1>4, <1>5, <1>6, <1>7 DEF Team

(* A step of the sweep keeps what the sweep relies on. *)
LEMMA SweepSaneSweep ==
  ASSUME TurnsInv, Sweep
  PROVE  SweepSane'
<1>0. \A s \in Turns : Shown(s) => Shown(s)'
  BY SweepWrites
<1>1. CASE SweepReads
  BY <1>1 DEF SweepReads, durable, history, outside, SweepOnly, TurnsInv,
     TurnsTypeOK, Sane, Known, Between, SweepSane, Shown, HasEnding
<1>2. CASE SweepFilters
  BY <1>2 DEF SweepFilters, durable, history, outside, SweepOnly, TurnsInv,
     TurnsTypeOK, Sane, Known, Between, SweepSane, Shown, HasEnding
<1>3. CASE SweepSleeps
  BY <1>3 DEF SweepSleeps, durable, history, outside, SweepOnly, TurnsInv,
     TurnsTypeOK, Sane, Known, Between, SweepSane, Shown, HasEnding
<1>4. CASE \E u \in Turns : SweepTakes(u)
  BY <1>4 DEF SweepTakes, Current, durable, history, outside, SweepOnly,
     TurnsInv, TurnsTypeOK, Sane, Known, Between, SweepSane, Shown, HasEnding
<1>5. CASE SweepSends
  BY <1>5 DEF SweepSends, Sent, SweepGoes, durable, history, SweepOnly,
     TurnsInv, TurnsTypeOK, Sane, Known, Between, SweepSane, Shown, HasEnding
<1>6. CASE SweepUnsent
  BY <1>6 DEF SweepUnsent, SweepNext, durable, history, outside, SweepOnly,
     TurnsInv, TurnsTypeOK, Sane, Known, Between, SweepSane, Shown, HasEnding
<1>7. CASE SweepLapsed
  BY <1>7 DEF SweepLapsed, Current, SweepGoes, durable, history, outside,
     SweepOnly, TurnsInv, TurnsTypeOK, Sane, Known, Between, SweepSane, Shown, HasEnding
<1>8. CASE SweepRefused
  BY <1>8 DEF SweepRefused, SweepHas, Current, durable, history, SweepOnly,
     TurnsInv, TurnsTypeOK, Sane, Known, Between, SweepSane, Shown, HasEnding
<1>9. CASE SweepAnswered
  BY <1>9 DEF SweepAnswered, Kept, SweepHas, Current, durable, history,
     SweepOnly, TurnsInv, TurnsTypeOK, Sane, Known, Between, SweepSane, Shown, HasEnding
<1>10. CASE SweepBusy
  BY <1>10 DEF SweepBusy, SweepHas, Current, durable, history, SweepOnly,
     TurnsInv, TurnsTypeOK, Sane, Known, Between, SweepSane, Shown, HasEnding
<1>11. CASE SweepSettled
  BY <1>11 DEF SweepSettled, Settled, Current, SweepGoes, durable, history,
     outside, SweepOnly, TurnsInv, TurnsTypeOK, Sane, Known, Between, SweepSane, Shown,
     HasEnding
<1>12. CASE SweepCommits
  BY <1>12, <1>0, SweepCommitsShows DEF SweepCommits, SweepKeeps, SweepNext,
     history, durable, outside, SweepOnly, RunKeeps, TurnsInv, TurnsTypeOK, Sane, Known,
     Between, SweepSane
<1>13. CASE SweepTells
  BY <1>13 DEF SweepTells, TeamSettles, SweepGoes, SweepNext, durable,
     history, SweepOnly, Settled, TurnsInv, TurnsTypeOK, Sane, Known, Between,
     SweepSane, Shown, HasEnding
<1>14. CASE SweepRevokes
  BY <1>14 DEF SweepRevokes, TeamSettles, SweepGoes, SweepNext, durable,
     history, SweepOnly, Settled, TurnsInv, TurnsTypeOK, Sane, Known, Between,
     SweepSane, Shown, HasEnding
<1>15. CASE SweepChecks
  BY <1>15 DEF SweepChecks, SweepGoes, HasEnding, SweepNext, durable,
     history, outside, SweepOnly, TurnsInv, TurnsTypeOK, Sane, Known, Between,
     SweepSane, Shown
<1>16. CASE SweepFails
  BY <1>16, <1>0, SweepFailsShows DEF SweepFails, SweepGoes, SweepNext,
     history, durable, outside, SweepOnly, TurnsInv, TurnsTypeOK, Sane, Known, Between,
     SweepSane
<1>17. CASE SweepRemoves
  BY <1>17 DEF SweepRemoves, Removed, SweepGoes, SweepNext, durable,
     history, outside, SweepOnly, TurnsInv, TurnsTypeOK, Sane, Known, Between,
     SweepSane, Shown, HasEnding
<1>18. CASE SweepReleases
  BY <1>18 DEF SweepReleases, SweepNext, durable, history, outside, TurnsInv,
     TurnsTypeOK, Sane, Known, Between, SweepSane, Shown, HasEnding
<1> QED BY <1>1, <1>2, <1>3, <1>4, <1>5, <1>6, <1>7, <1>8, <1>9, <1>10,
   <1>11, <1>12, <1>13, <1>14, <1>15, <1>16, <1>17, <1>18 DEF Sweep

-----------------------------------------------------------------------------
(* A restart forgets the runs and the sweep, and nothing that was kept. *)
LEMMA RestartKeeps ==
  ASSUME TurnsInv, Restart
  PROVE  TurnsInv'
<1>1. TurnsTypeOK'
  <2>1. restarts' \in 0..MaxRestarts
    BY TurnsAssumption DEF Restart, TurnsInv, TurnsTypeOK
  <2> QED
    BY <2>1 DEF Restart, TurnsInv, TurnsTypeOK, RunAt, SweepAt, durable, history, outside
<1>2. SweepSane'
  BY DEF Restart, SweepSane, Between
<1>3. (\A t \in Turns : Sane(t))'
  BY DEF Restart, TurnsInv, TurnsTypeOK, Sane, Known, Shown, HasEnding, durable, history,
     outside
<1> QED BY <1>1, <1>2, <1>3 DEF TurnsInv

(* At first nothing is recorded, shown or known to Team. *)
LEMMA TurnsBegin == TurnsInit => TurnsInv
<1> SUFFICES ASSUME TurnsInit PROVE TurnsInv
  OBVIOUS
<1>1. Cardinality({}) = 0
  BY FS_EmptySet
<1>2. TurnsTypeOK
  BY <1>1, TurnsAssumption DEF TurnsInit, TurnsTypeOK, RunAt, SweepAt, Journal
<1>3. SweepSane
  BY DEF TurnsInit, SweepSane, Between
<1>4. \A t \in Turns : Sane(t)
  BY DEF TurnsInit, Sane
<1> QED BY <1>2, <1>3, <1>4 DEF TurnsInv

(* A step that changes nothing keeps the invariant. *)
LEMMA Stutters ==
  ASSUME TurnsInv, UNCHANGED turnsVars
  PROVE  TurnsInv'
<1> USE DEF turnsVars, durable, history, sweeping, outside
<1>1. TurnsTypeOK'
  BY DEF TurnsInv, TurnsTypeOK
<1>2. SweepSane'
  BY DEF TurnsInv, SweepSane, Known, Shown, HasEnding
<1>3. (\A t \in Turns : Sane(t))'
  BY DEF TurnsInv, Sane, Known, Shown, HasEnding
<1> QED BY <1>1, <1>2, <1>3 DEF TurnsInv

(* Every step keeps the invariant. *)
LEMMA TurnsStep ==
  ASSUME TurnsInv, [TurnsNext]_turnsVars
  PROVE  TurnsInv'
<1>1. CASE \E u \in Turns : Run(u)
  BY <1>1, TypeRun, SaneRun, SweepSaneRun DEF TurnsInv
<1>2. CASE \E u \in Turns : Stop(u) \/ Team(u) \/ SessionEnds(u) \/ GrantLapses(u)
  BY <1>2, TypeOutside, SaneOutside, SweepSaneOutside DEF TurnsInv
<1>3. CASE Sweep
  BY <1>3, TypeSweep, SaneSweep, SweepSaneSweep DEF TurnsInv
<1>4. CASE Restart
  BY <1>4, RestartKeeps
<1>5. CASE UNCHANGED turnsVars
  BY <1>5, Stutters
<1> QED BY <1>1, <1>2, <1>3, <1>4, <1>5 DEF TurnsNext

(* The invariant holds in every state Admin and Team reach. *)
THEOREM TurnsInvariant == TurnsSpec => []TurnsInv
BY TurnsBegin, TurnsStep, PTL DEF TurnsSpec

(* The types, turns.json within MAX_TURNS, and a revocation mark only on a *)
(* turn that is recorded.                                                  *)
THEOREM TurnsTyped == TurnsSpec => []TurnsTypeOK
<1>1. TurnsInv => TurnsTypeOK
  BY DEF TurnsInv
<1> QED BY <1>1, TurnsInvariant, PTL

(* Whatever dies, fails or crosses: a turn Team ever had stays recorded    *)
(* until the history shows how it ended or that it is paused.              *)
THEOREM NothingIsLost == TurnsSpec => []NothingLost
<1>1. TurnsInv => NothingLost
  BY DEF TurnsInv, Sane, Known, NothingLost
<1> QED BY <1>1, TurnsInvariant, PTL

(* Team drops a turn as delivered only after the history committed it, be  *)
(* it the run that told Team, the sweep, or both.                          *)
THEOREM CommittedBeforeDelivered == TurnsSpec => []DeliveredAfterCommit
<1>1. TurnsInv => DeliveredAfterCommit
  BY DEF TurnsInv, Sane, DeliveredAfterCommit
<1> QED BY <1>1, TurnsInvariant, PTL

(* What the history shows of a turn never disappears. *)
THEOREM ShownForGood == TurnsSpec => ShownStays
<1>1. ASSUME TurnsInv, [TurnsNext]_turnsVars
      PROVE  \A t \in Turns : Shown(t) => Shown(t)'
  <2>1. CASE \E u \in Turns : Run(u)
    BY <1>1, <2>1, RunWrites
  <2>2. CASE Sweep
    BY <1>1, <2>2, SweepWrites
  <2>3. CASE \E u \in Turns : Stop(u) \/ Team(u) \/ SessionEnds(u) \/ GrantLapses(u)
    BY <2>3, NotWritten
       DEF Stop, Team, TeamStarts, TeamEnds, TeamLoses, TeamStops, TeamGoes,
           SessionEnds, GrantLapses
  <2>4. CASE Restart
    BY <2>4, NotWritten DEF Restart
  <2>5. CASE UNCHANGED turnsVars
    BY <2>5, NotWritten DEF turnsVars
  <2> QED BY <1>1, <2>1, <2>2, <2>3, <2>4, <2>5 DEF TurnsNext
<1> QED BY <1>1, TurnsInvariant, PTL DEF TurnsSpec, ShownStays

-----------------------------------------------------------------------------
(* Session sockets: each outstanding step-up ticket has its place,         *)
(* whichever of an offer, a confirmation and a teardown comes first; a     *)
(* call ends unanswered only on a closed socket; and nothing begins for a  *)
(* session whose end has been told.                                        *)

CallRecs == [sock : Socket \cup {None}, kind : Kinds, at : Places,
             ticket : Call \cup {None}, orphan : BOOLEAN, answered : BOOLEAN]

(* The tracked sessions, each once.                                        *)
Lined(w) == w \in Seq(Session) /\ \A i, m \in 1..Len(w) : w[i] = w[m] => i = m

(* The types of the sessions' variables; none is tracked before its issue. *)
SessionsTyped ==
  /\ unissued \cap ToSet(tracked) = {}
  /\ unissued \subseteq Session /\ signed \subseteq Session
  /\ Lined(tracked) /\ Len(tracked) <= Capacity
  /\ idle \in 0..Len(tracked)
  /\ rotations \in 0..MaxRotations
  /\ toTell \subseteq SUBSET Session

SocketsTyped ==
  /\ session \in [Socket -> Session \cup {None}] /\ stage \in [Socket -> Stages]
  /\ closed \in [Socket -> Codes \cup {None}] /\ registry \subseteq Socket

CallsTyped ==
  /\ slot \in [Socket -> Call \cup {None}] /\ tickets \subseteq Call
  /\ call \in [Call -> CallRecs]

-----------------------------------------------------------------------------
(* The invariant.                                                          *)

(* A socket is registered from its admission to the first step of its      *)
(* teardown.                                                               *)
Registered == registry = {k \in Socket : stage[k] \in {"registered", "serving"}}

(* A call is of a socket that is served or was; the teardown, and what it  *)
(* leaves on the lanes, come only once the socket is closed.               *)
Carrying == {"serving", "removed", "revoked", "discarded", "gone"}
Placed(c) ==
  call[c].at # "new" =>
    LET k == call[c].sock
    IN /\ k \in Socket /\ stage[k] \in Carrying
       /\ stage[k] # "serving" \/ call[c].orphan => closed[k] # None
CallsPlaced == \A c \in Call : Placed(c)

(* A socket keeps a ticket offered to it, and a ticket is of a call it sent. *)
SlotsOwned ==
  \A k \in Socket : slot[k] # None => call[slot[k]].at \in {"kept", "done"} /\ call[slot[k]].sock = k
TicketsIssued == \A t \in tickets : call[t].at # "new"

(* A ticket the store still holds is kept by its socket, about to be kept, *)
(* or taken by the call that confirms with it.                             *)
TakenBy(c, t) == call[c].at = "taken" /\ call[c].ticket = t
TicketsPlaced ==
  \A t \in tickets :
    \/ slot[call[t].sock] = t \/ call[t].at = "issued"
    \/ \E c \in Call : TakenBy(c, t)

(* One kept past the teardown's discard is still the offering job's, which *)
(* looks at the registry before it answers.                                *)
KeptInTime ==
  \A t \in tickets :
    slot[call[t].sock] = t =>
      stage[call[t].sock] \in {"serving", "removed", "revoked"} \/ call[t].at = "kept"

Books == Registered /\ CallsPlaced /\ SlotsOwned /\ TicketsIssued /\ TicketsPlaced /\ KeptInTime /\ EveryCallAnswered
SocketInv == SessionsTyped /\ SocketsTyped /\ CallsTyped /\ Books

-----------------------------------------------------------------------------
(* The line of the tracked sessions.                                       *)

LEMMA InLine ==
  ASSUME NEW w \in Seq(Session)
  PROVE  /\ DOMAIN w = 1..Len(w) /\ Len(w) \in Nat
         /\ ToSet(w) = {w[i] : i \in 1..Len(w)} /\ ToSet(w) \subseteq Session
         /\ ToSet(w) = {} <=> w = <<>>
<1>1. DOMAIN w = 1..Len(w) /\ Len(w) \in Nat
  BY LenProperties
<1>2. ToSet(w) = {w[i] : i \in 1..Len(w)} /\ ToSet(w) \subseteq Session
  BY <1>1, ElementOfSeq DEF ToSet
<1>3. w = <<>> => ToSet(w) = {}
  BY <1>2, EmptySeq
<1>4. w # <<>> => ToSet(w) # {}
  <2>1. w # <<>> => 1 \in 1..Len(w)
    BY EmptySeq, <1>1
  <2> QED BY <1>2, <2>1
<1> QED BY <1>1, <1>2, <1>3, <1>4

(* The line v is the line w without its place k.                           *)
Without(v, w, k) ==
  /\ v \in Seq(Session) /\ Len(v) = Len(w) - 1
  /\ \A i \in 1..Len(v) : v[i] = IF i < k THEN w[i] ELSE w[i + 1]

(* A line without one of its places is still lined up.                     *)
LEMMA Shortened ==
  ASSUME NEW w, Lined(w), NEW v, NEW k \in 1..Len(w), Without(v, w, k)
  PROVE  Lined(v) /\ ToSet(v) = ToSet(w) \ {w[k]}
<1>0. /\ v \in Seq(Session) /\ Len(v) = Len(w) - 1
      /\ \A i \in 1..Len(v) : v[i] = IF i < k THEN w[i] ELSE w[i + 1]
  BY DEF Without
<1>1. /\ DOMAIN w = 1..Len(w) /\ Len(w) \in Nat /\ DOMAIN v = 1..Len(v) /\ Len(v) \in Nat
      /\ ToSet(w) = {w[i] : i \in 1..Len(w)} /\ ToSet(v) = {v[i] : i \in 1..Len(v)}
      /\ \A i, m \in 1..Len(w) : w[i] = w[m] => i = m
  BY <1>0, InLine DEF Lined
<1> DEFINE at(i) == IF i < k THEN i ELSE i + 1
<1>2. \A i \in 1..Len(v) : at(i) \in 1..Len(w) /\ at(i) # k /\ v[i] = w[at(i)]
  BY <1>0, <1>1
<1>3. \A i, m \in 1..Len(v) : at(i) = at(m) => i = m
  BY <1>0, <1>1
<1>4. \A i \in 1..Len(w) : i # k => \E m \in 1..Len(v) : at(m) = i
  <2> SUFFICES ASSUME NEW i \in 1..Len(w), i # k
               PROVE  \E m \in 1..Len(v) : at(m) = i
    OBVIOUS
  <2>1. CASE i < k
    <3>1. i \in 1..Len(v) /\ at(i) = i
      BY <1>0, <1>1, <2>1
    <3> QED BY <3>1
  <2>2. CASE i > k
    <3>1. i - 1 \in 1..Len(v) /\ at(i - 1) = i
      BY <1>0, <1>1, <2>2
    <3> QED BY <3>1
  <2> QED BY <1>1, <2>1, <2>2
<1> HIDE DEF at
<1>5. Lined(v)
  BY <1>0, <1>1, <1>2, <1>3 DEF Lined
<1>6. ToSet(v) \subseteq ToSet(w) \ {w[k]}
  BY <1>1, <1>2
<1>7. ToSet(w) \ {w[k]} \subseteq ToSet(v)
  BY <1>1, <1>2, <1>4
<1> QED BY <1>5, <1>6, <1>7

LEMMA RemovedFromLine ==
  ASSUME NEW w, Lined(w), NEW k \in DOMAIN w
  PROVE  /\ Lined(RemoveAt(w, k)) /\ ToSet(RemoveAt(w, k)) = ToSet(w) \ {w[k]}
         /\ Len(RemoveAt(w, k)) = Len(w) - 1
<1> DEFINE a == SubSeq(w, 1, k - 1)
           b == SubSeq(w, k + 1, Len(w))
           v == RemoveAt(w, k)
<1>1. w \in Seq(Session) /\ Len(w) \in Nat /\ k \in 1..Len(w) /\ \A i \in 1..Len(w) : w[i] \in Session
  BY InLine, ElementOfSeq DEF Lined
<1>2. a \in Seq(Session) /\ Len(a) = k - 1 /\ \A i \in 1..k - 1 : a[i] = w[i]
  BY <1>1
<1>3. b \in Seq(Session) /\ Len(b) = Len(w) - k /\ \A i \in 1..Len(w) - k : b[i] = w[k + i]
  BY <1>1
<1> HIDE DEF a, b
<1>4. v = a \o b
  BY DEF RemoveAt, a, b
<1> HIDE DEF v
<1>5. /\ v \in Seq(Session) /\ Len(v) = Len(a) + Len(b)
      /\ \A i \in 1 .. Len(a) + Len(b) : v[i] = IF i <= Len(a) THEN a[i] ELSE b[i - Len(a)]
  BY ONLY <1>2, <1>3, <1>4, ConcatProperties
<1>6. Len(v) = Len(w) - 1
  BY <1>1, <1>2, <1>3, <1>5
<1>7. ASSUME NEW i \in 1..Len(v)
      PROVE  v[i] = IF i < k THEN w[i] ELSE w[i + 1]
  <2>1. v[i] = IF i <= k - 1 THEN a[i] ELSE b[i - (k - 1)]
    BY <1>2, <1>3, <1>5
  <2>2. CASE i < k
    <3>1. i <= k - 1 /\ i \in 1..k - 1
      BY <1>1, <2>2
    <3> QED BY <1>2, <2>1, <2>2, <3>1
  <2>3. CASE ~ (i < k)
    <3>1. ~ (i <= k - 1) /\ i - (k - 1) \in 1..Len(w) - k /\ k + (i - (k - 1)) = i + 1
      BY <1>1, <1>6, <2>3
    <3> QED BY <1>3, <2>1, <2>3, <3>1
  <2> QED BY <2>2, <2>3
<1>8. Lined(v) /\ ToSet(v) = ToSet(w) \ {w[k]}
  <2>1. \A i \in 1..Len(v) : v[i] = IF i < k THEN w[i] ELSE w[i + 1]
    BY <1>7
  <2>2. v \in Seq(Session) /\ k \in 1..Len(w)
    BY <1>1, <1>5
  <2>3. Without(v, w, k)
    BY <2>1, <2>2, <1>6 DEF Without
  <2> QED BY ONLY <2>2, <2>3, Lined(w), Shortened
<1> QED BY <1>6, <1>8 DEF v

LEMMA AppendedToLine ==
  ASSUME NEW w, Lined(w), NEW j \in Session \ ToSet(w)
  PROVE  /\ Lined(Append(w, j)) /\ ToSet(Append(w, j)) = ToSet(w) \cup {j}
         /\ Len(Append(w, j)) = Len(w) + 1
<1>1. /\ w \in Seq(Session) /\ DOMAIN w = 1..Len(w) /\ Len(w) \in Nat /\ ToSet(w) = {w[i] : i \in 1..Len(w)}
      /\ \A i, m \in 1..Len(w) : w[i] = w[m] => i = m
  BY InLine DEF Lined
<1> DEFINE v == Append(w, j)
<1>2. /\ v \in Seq(Session) /\ Len(v) = Len(w) + 1 /\ v[Len(w) + 1] = j
      /\ \A i \in 1..Len(w) : v[i] = w[i]
  BY <1>1, AppendProperties
<1>3. DOMAIN v = 1..Len(v) /\ ToSet(v) = {v[i] : i \in 1..Len(v)}
  BY <1>2, InLine
<1> HIDE DEF v
<1>4. \A i \in 1..Len(v) : i \in 1..Len(w) \/ i = Len(w) + 1
  BY <1>1, <1>2
<1>5. Lined(v)
  BY <1>1, <1>2, <1>3, <1>4 DEF Lined
<1>6. ToSet(v) = ToSet(w) \cup {j}
  <2>1. 1..Len(v) = 1..Len(w) \cup {Len(w) + 1}
    BY <1>1, <1>2
  <2> QED BY <1>1, <1>2, <1>3, <2>1
<1> QED BY <1>2, <1>5, <1>6 DEF v

(* A session taken out of the line.                                        *)
LEMMA UntrackedLine ==
  ASSUME Lined(tracked), NEW s \in ToSet(tracked)
  PROVE  /\ Lined(Untracked(s)) /\ ToSet(Untracked(s)) = ToSet(tracked) \ {s}
         /\ Len(Untracked(s)) = Len(tracked) - 1
<1>1. \E i \in DOMAIN tracked : tracked[i] = s
  BY InLine DEF Lined
<1> DEFINE k == CHOOSE i \in DOMAIN tracked : tracked[i] = s
<1>2. k \in DOMAIN tracked /\ tracked[k] = s
  BY <1>1
<1>3. Untracked(s) = RemoveAt(tracked, k)
  BY DEF Untracked
<1> HIDE DEF k
<1> QED BY <1>2, <1>3, RemovedFromLine

(* The end of a line from a place on.                                      *)
LEMMA EndOfLine ==
  ASSUME NEW w, Lined(w), NEW n \in 1..Len(w) + 1
  PROVE  /\ Lined(SubSeq(w, n, Len(w))) /\ Len(SubSeq(w, n, Len(w))) = Len(w) - n + 1
         /\ ToSet(SubSeq(w, n, Len(w))) \subseteq ToSet(w)
<1>1. /\ w \in Seq(Session) /\ Len(w) \in Nat /\ ToSet(w) = {w[i] : i \in 1..Len(w)}
      /\ \A i, m \in 1..Len(w) : w[i] = w[m] => i = m
  BY InLine DEF Lined
<1> DEFINE v == SubSeq(w, n, Len(w))
<1>2. /\ v \in Seq(Session) /\ Len(v) = Len(w) - n + 1
      /\ \A i \in 1..Len(v) : v[i] = w[n + i - 1] /\ n + i - 1 \in 1..Len(w)
  BY <1>1, SubSeqProperties
<1>3. ToSet(v) = {v[i] : i \in 1..Len(v)}
  BY <1>2, InLine
<1> HIDE DEF v
<1>4. Lined(v)
  <2>1. ASSUME NEW i \in 1..Len(v), NEW m \in 1..Len(v), v[i] = v[m]
        PROVE  i = m
    <3>1. w[n + i - 1] = w[n + m - 1] /\ n + i - 1 \in 1..Len(w) /\ n + m - 1 \in 1..Len(w)
      BY <1>2, <2>1
    <3>2. n + i - 1 = n + m - 1
      BY <1>1, <3>1
    <3>3. n \in Int /\ i \in Int /\ m \in Int
      BY <1>1, <1>2
    <3> QED BY <3>2, <3>3
  <2> QED BY <1>2, <2>1 DEF Lined
<1>5. ToSet(v) \subseteq ToSet(w)
  BY <1>1, <1>2, <1>3
<1> QED BY <1>2, <1>4, <1>5 DEF v

-----------------------------------------------------------------------------
(* Sessions.                                                               *)

(* The first close's code stays.                                           *)
Grows ==
  /\ closed' \in [Socket -> Codes \cup {None}]
  /\ \A k \in Socket : closed[k] # None => closed'[k] = closed[k]

LEMMA FoundKeeps ==
  ASSUME SessionsTyped, UNCHANGED sessionRest, NEW s, Found(s)
  PROVE  SessionsTyped'
<1> USE DEF sessionRest
<1>1. CASE UNCHANGED <<tracked, idle, toTell>>
  BY <1>1 DEF SessionsTyped
<1>2. CASE s \in signed /\ IsIdle(s)
  <2>1. s \in Session /\ Len(tracked) \in Nat /\ ToSet(tracked) = {tracked[i] : i \in 1..Len(tracked)}
    BY <1>2, InLine DEF SessionsTyped, Lined
  <2>2. s \in ToSet(tracked) /\ idle \in 1..Len(tracked)
    BY <1>2, <2>1 DEF IsIdle, SessionsTyped
  <2>3. /\ Lined(tracked') /\ Len(tracked') = Len(tracked) - 1
        /\ ToSet(tracked') \subseteq ToSet(tracked)
    BY <1>2, <2>2, UntrackedLine DEF Found, SessionsTyped
  <2>4. idle' = idle - 1 /\ toTell' = toTell \cup {{s}}
    BY <1>2 DEF Found
  <2>5. Len(tracked') <= Capacity /\ idle' \in 0..Len(tracked')
    BY <2>1, <2>2, <2>3, <2>4, SocketsAssumption DEF SessionsTyped
  <2> QED BY <2>1, <2>3, <2>4, <2>5 DEF SessionsTyped
<1> QED BY <1>1, <1>2 DEF Found

(* A check drops a session found idle, and closes a socket whose session   *)
(* is not current.                                                         *)
LEMMA CheckKeeps ==
  ASSUME SessionsTyped, SocketsTyped, UNCHANGED sessionRest, NEW k \in Socket, CheckSocket(k)
  PROVE  /\ SessionsTyped' /\ Grows
         /\ Authorized(k) => closed' = closed
         /\ ~Authorized(k) => closed'[k] # None
<1>1. CASE closed[k] # None
  <2>1. UNCHANGED <<tracked, idle, toTell, closed>>
    BY <1>1 DEF CheckSocket
  <2> QED BY <1>1, <2>1 DEF sessionRest, SessionsTyped, SocketsTyped, Grows, Authorized
<1>2. CASE closed[k] = None
  <2>1. SessionsTyped'
    BY <1>2, FoundKeeps DEF CheckSocket
  <2>2. IF Active(session[k]) THEN UNCHANGED closed ELSE End(k, 4401)
    BY <1>2 DEF CheckSocket
  <2>3. 4401 # None
    BY SocketsAssumption DEF Codes
  <2> QED BY <1>2, <2>1, <2>2, <2>3 DEF SocketsTyped, Grows, Authorized, End, Codes
<1> QED BY <1>1, <1>2

(* What a step does to the sessions.                                       *)
LEMMA RegisterKeeps == ASSUME SessionsTyped, NEW s \in Session, Register(s) PROVE SessionsTyped'
<1> DEFINE left == SubSeq(tracked, idle + 1, Len(tracked))
           room == IF Len(left) >= Capacity THEN SubSeq(left, Len(left) - Capacity + 2, Len(left)) ELSE left
<1>1. s \in unissued /\ tracked' = Append(room, s)
  BY DEF Register
<1>2. Capacity \in Nat \ {0} /\ Len(tracked) \in Nat /\ idle + 1 \in 1..Len(tracked) + 1
  BY InLine, SocketsAssumption DEF SessionsTyped, Lined
<1>3. Lined(left) /\ ToSet(left) \subseteq ToSet(tracked) /\ Len(left) = Len(tracked) - idle
  BY <1>2, EndOfLine DEF SessionsTyped
<1>4. Len(left) \in Nat /\ Len(left) <= Capacity
  BY <1>2, <1>3 DEF SessionsTyped
<1> HIDE DEF left
<1>5. Lined(room) /\ ToSet(room) \subseteq ToSet(tracked) /\ Len(room) < Capacity /\ Len(room) \in Nat
  <2>1. CASE Len(left) >= Capacity
    <3>1. Len(left) = Capacity /\ Len(left) - Capacity + 2 \in 1..Len(left) + 1
      BY <1>2, <1>4, <2>1
    <3> DEFINE n == Len(left) - Capacity + 2
    <3>2. n \in 1..Len(left) + 1 /\ n = 2
      BY <1>2, <3>1
    <3> HIDE DEF n
    <3>3. /\ Lined(SubSeq(left, n, Len(left))) /\ Len(SubSeq(left, n, Len(left))) = Len(left) - n + 1
          /\ ToSet(SubSeq(left, n, Len(left))) \subseteq ToSet(left)
      BY <1>3, <3>2, EndOfLine
    <3>4. room = SubSeq(left, n, Len(left))
      BY <2>1 DEF n
    <3>5. Len(SubSeq(left, n, Len(left))) = Capacity - 1
      BY <1>2, <3>1, <3>2, <3>3
    <3> DEFINE v == SubSeq(left, n, Len(left))
    <3>6. room = v /\ Lined(v) /\ Len(v) = Capacity - 1 /\ ToSet(v) \subseteq ToSet(tracked)
      BY <1>3, <3>3, <3>4, <3>5
    <3> HIDE DEF room, v
    <3> QED BY <1>2, <3>6
  <2>2. CASE ~ (Len(left) >= Capacity)
    BY <1>2, <1>3, <1>4, <2>2
  <2> QED BY <2>1, <2>2
<1> HIDE DEF room
<1>6. s \in Session \ ToSet(room)
  BY <1>1, <1>5 DEF SessionsTyped
<1>7. /\ Lined(tracked') /\ ToSet(tracked') = ToSet(room) \cup {s}
      /\ Len(tracked') = Len(room) + 1
  BY <1>1, <1>5, <1>6, AppendedToLine
<1>8. /\ unissued' = unissued \ {s} /\ signed' = signed \cup {s} /\ idle' = 0 /\ rotations' = rotations
      /\ \E whom : whom = ToSet(tracked) \ ToSet(room)
                   /\ toTell' = IF whom = {} THEN toTell ELSE toTell \cup {whom}
  BY DEF Register, room, left
<1>9. ToSet(tracked) \subseteq Session
  BY InLine DEF SessionsTyped, Lined
<1>10. Len(tracked') <= Capacity /\ idle' \in 0..Len(tracked')
  BY <1>2, <1>5, <1>7, <1>8
<1>11. unissued' \cap ToSet(tracked') = {}
  BY <1>5, <1>7, <1>8 DEF SessionsTyped
<1> QED BY <1>7, <1>8, <1>9, <1>10, <1>11 DEF SessionsTyped

LEMMA RenewKeeps == ASSUME SessionsTyped, NEW k \in Socket, Renew(k) PROVE SessionsTyped'
<1> DEFINE s == session[k]
<1>1. s \in ToSet(tracked) /\ tracked' = Append(Untracked(s), s)
  BY DEF Renew, Authorized, Active
<1>2. UNCHANGED <<unissued, signed, idle, toTell, rotations>>
  BY DEF Renew, sessionRest
<1>3. ToSet(tracked) \subseteq Session /\ Len(tracked) \in Nat
  BY InLine DEF SessionsTyped, Lined
<1> HIDE DEF s
<1>4. /\ Lined(Untracked(s)) /\ ToSet(Untracked(s)) = ToSet(tracked) \ {s}
      /\ Len(Untracked(s)) = Len(tracked) - 1
  BY <1>1, UntrackedLine DEF SessionsTyped
<1>5. s \in Session \ ToSet(Untracked(s))
  BY <1>1, <1>3, <1>4
<1> DEFINE w == Untracked(s)
<1> HIDE DEF w
<1>6. Lined(Append(w, s)) /\ ToSet(Append(w, s)) = ToSet(w) \cup {s} /\ Len(Append(w, s)) = Len(w) + 1
  BY <1>4, <1>5, AppendedToLine DEF w
<1>7. Lined(tracked') /\ ToSet(tracked') = ToSet(tracked) /\ Len(tracked') = Len(tracked)
  BY <1>1, <1>3, <1>4, <1>6 DEF w
<1> QED BY <1>2, <1>7 DEF SessionsTyped

(* Whatever a step does, the sessions stay what they are; a socket that    *)
(* closed stays closed.                                                    *)
LEMMA SessionsKept == ASSUME SocketInv, SocketsNext PROVE SessionsTyped'
<1> USE DEF SocketInv
<1>1. ASSUME NEW s \in Session, Register(s) \/ Expires(s) PROVE SessionsTyped'
  BY <1>1, RegisterKeeps DEF Expires, SessionsTyped
<1>2. CASE IdleOut
  <2>1. Len(tracked) \in Nat
    BY LenProperties DEF SessionsTyped, Lined
  <2> QED BY <1>2, <2>1 DEF IdleOut, SessionsTyped
<1>3. CASE EndAll
  <2>1. Lined(<<>>) /\ Len(<<>>) = 0 /\ ToSet(<<>>) = {}
    BY EmptySeq, InLine DEF Lined
  <2>2. rotations + 1 \in 0..MaxRotations
    BY <1>3, SocketsAssumption DEF EndAll, SessionsTyped
  <2>3. Capacity >= 0
    BY SocketsAssumption
  <2> QED BY <1>3, <2>1, <2>2, <2>3 DEF EndAll, SessionsTyped
<1>4. CASE Ending
  BY <1>4 DEF Ending, TellEnded, SessionsTyped
<1>5. ASSUME NEW k \in Socket, NEW s \in Session, Admit(k, s) PROVE SessionsTyped'
  BY <1>5, FoundKeeps DEF Admit
<1>6. ASSUME NEW k \in Socket, Serving(k) \/ Closes(k) PROVE SessionsTyped'
  <2>1. ASSUME Closes(k) \/ Add(k) \/ Upgraded(k) \/ UpgradeFails(k) PROVE UNCHANGED sessionVars
    BY <2>1 DEF Closes, Add, Upgraded, UpgradeFails
  <2>2. ASSUME Unregister(k) \/ Revoke(k) PROVE UNCHANGED sessionVars
    BY <2>2 DEF Unregister, Revoke
  <2>3. ASSUME Discard(k) \/ AbortCalls(k) PROVE UNCHANGED sessionVars
    BY <2>3 DEF Discard, AbortCalls
  <2>4. UNCHANGED sessionVars
    BY <1>6, <2>1, <2>2, <2>3 DEF Serving
  <2> QED BY <2>4 DEF sessionVars, SessionsTyped
<1>7. ASSUME NEW k \in Socket, ExpireTimer(k) PROVE SessionsTyped'
  BY <1>7, CheckKeeps DEF ExpireTimer
<1>8. ASSUME NEW k \in Socket, Renew(k) PROVE SessionsTyped'
  BY <1>8, RenewKeeps
<1>9. ASSUME NEW k \in Socket, NEW c \in Call, NEW kind \in Kinds, Receive(c, k, kind) PROVE SessionsTyped'
  BY <1>9, CheckKeeps DEF Receive
<1>10. ASSUME NEW c \in Call, StartCall(c) \/ Turn(c) \/ Confirm(c) PROVE SessionsTyped'
  <2>1. call[c].sock \in Socket
    BY <1>10 DEF Books, CallsPlaced, Placed, StartCall, Turn, Confirm
  <2> QED BY <1>10, <2>1, CheckKeeps DEF StartCall, Turn, Confirm
<1>11. ASSUME NEW c \in Call,
              \/ LaneFull(c) \/ Operate(c) \/ Issue(c) \/ Keep(c)
              \/ Offered(c) \/ Take(c) \/ Consume(c) \/ TicketExpires(c)
       PROVE  SessionsTyped'
  BY <1>11 DEF LaneFull, Operate, Issue, Keep, Offered, Take, Consume, TicketExpires, sessionVars, SessionsTyped
<1> QED
  BY <1>1, <1>2, <1>3, <1>4, <1>5, <1>6, <1>7, <1>8, <1>9, <1>10, <1>11 DEF SocketsNext, Working

-----------------------------------------------------------------------------
(* The books.                                                              *)

(* A step of a socket: it goes on to be served, or is closed and begins    *)
(* its teardown; tickets and calls are left alone.                         *)
SocketStep ==
  /\ UNCHANGED <<slot, tickets, call>> /\ Grows
  /\ session' \in [Socket -> Session \cup {None}] /\ stage' \in [Socket -> Stages]
  /\ \A k \in Socket :
       \/ stage'[k] = stage[k] \/ stage[k] \notin Carrying
       \/ stage[k] = "serving" /\ stage'[k] = "removed" /\ closed[k] # None
  /\ registry' = {k \in Socket : stage'[k] \in {"registered", "serving"}}

LEMMA SocketStepKeeps == ASSUME SocketInv, SocketStep PROVE (SocketsTyped /\ CallsTyped /\ Books)'
<1> USE DEF SocketInv, SocketStep
<1>1. SocketsTyped' /\ CallsTyped' /\ Registered'
  BY DEF SocketsTyped, CallsTyped, Grows, Registered
<1>2. CallsPlaced'
  BY DEF Books, CallsPlaced, Placed, Grows, Carrying
<1>3. SlotsOwned' /\ TicketsIssued' /\ TicketsPlaced'
  BY DEF Books, SlotsOwned, TicketsIssued, TicketsPlaced, TakenBy
<1>4. KeptInTime'
  BY DEF Books, CallsPlaced, Placed, TicketsIssued, CallsTyped, KeptInTime, Carrying
<1>5. EveryCallAnswered'
  BY DEF Books, CallsPlaced, Placed, EveryCallAnswered, Grows
<1> QED BY <1>1, <1>2, <1>3, <1>4, <1>5 DEF Books

(* A step of a call that neither issues, keeps nor takes a ticket.         *)
CallStep(c) ==
  /\ UNCHANGED <<session, stage, registry, slot, tickets>> /\ Grows
  /\ call[c].at \notin {"new", "issued", "kept", "taken", "done"}
  /\ call' \in [Call -> CallRecs] /\ \A d \in Call \ {c} : call'[d] = call[d]
  /\ call'[c].sock = call[c].sock /\ call'[c].at # "new"
  /\ call'[c].orphan => call[c].orphan
  /\ call'[c].at = "done" /\ ~call'[c].answered => closed'[call[c].sock] # None

LEMMA CallStepKeeps == ASSUME SocketInv, NEW c \in Call, CallStep(c) PROVE (SocketsTyped /\ CallsTyped /\ Books)'
<1> USE DEF SocketInv, CallStep
<1>1. SocketsTyped' /\ CallsTyped' /\ Registered'
  BY DEF SocketsTyped, CallsTyped, Grows, Registered, Books
<1>2. CallsPlaced'
  <2> SUFFICES ASSUME NEW d \in Call PROVE Placed(d)'
    BY DEF CallsPlaced
  <2> QED BY DEF Books, CallsPlaced, Placed, Grows
<1>3. SlotsOwned' /\ TicketsIssued'
  BY DEF Books, SlotsOwned, TicketsIssued, CallsTyped
<1>4. TicketsPlaced'
  <2> SUFFICES ASSUME NEW t \in tickets
               PROVE  slot[call'[t].sock] = t \/ call'[t].at = "issued" \/ \E d \in Call : TakenBy(d, t)'
    BY DEF TicketsPlaced
  <2>1. t \in Call /\ call'[t].sock = call[t].sock /\ (call[t].at = "issued" => call'[t].at = "issued")
    BY DEF CallsTyped
  <2>2. ASSUME NEW d \in Call, TakenBy(d, t) PROVE TakenBy(d, t)'
    BY <2>2 DEF TakenBy
  <2> QED BY <2>1, <2>2 DEF Books, TicketsPlaced
<1>5. KeptInTime'
  BY DEF Books, CallsTyped, KeptInTime
<1>6. EveryCallAnswered'
  BY DEF Books, CallsPlaced, Placed, EveryCallAnswered, Grows
<1> QED BY <1>1, <1>2, <1>3, <1>4, <1>5, <1>6 DEF Books

(* The steps of a socket.                                                  *)
LEMMA SocketSteps ==
  ASSUME SocketInv, NEW k \in Socket,
         \/ \E s \in Session : Admit(k, s)
         \/ Add(k) \/ Upgraded(k) \/ UpgradeFails(k) \/ Closes(k) \/ ExpireTimer(k) \/ Renew(k) \/ Unregister(k)
  PROVE  SocketStep
<1> USE DEF SocketInv
<1>1. /\ session \in [Socket -> Session \cup {None}] /\ stage \in [Socket -> Stages]
      /\ registry = {j \in Socket : stage[j] \in {"registered", "serving"}}
      /\ closed \in [Socket -> Codes \cup {None}]
  BY DEF SocketsTyped, Books, Registered
<1>2. ASSUME NEW s \in Session, Admit(k, s) PROVE SocketStep
  BY <1>1, <1>2 DEF Admit, SocketStep, Grows, ticketVars, Stages, Carrying
<1>3. CASE Add(k)
  BY <1>1, <1>3 DEF Add, SocketStep, Grows, ticketVars, Stages, Carrying
<1>4. CASE Upgraded(k)
  BY <1>1, <1>4 DEF Upgraded, SocketStep, Grows, ticketVars, Stages, Carrying
<1>5. CASE UpgradeFails(k)
  BY <1>1, <1>5 DEF UpgradeFails, SocketStep, Grows, ticketVars, Stages, Carrying
<1>6. CASE Closes(k)
  BY <1>1, <1>6, SocketsAssumption DEF Closes, End, SocketStep, Grows, ticketVars, Codes
<1>7. CASE ExpireTimer(k)
  <2>1. Grows
    BY <1>7, CheckKeeps DEF ExpireTimer
  <2> QED BY <1>1, <1>7, <2>1 DEF ExpireTimer, SocketStep, ticketVars
<1>8. CASE Renew(k)
  BY <1>1, <1>8 DEF Renew, SocketStep, Grows, socketVars, ticketVars
<1>9. CASE Unregister(k)
  BY <1>1, <1>9 DEF Unregister, SocketStep, Grows, ticketVars, Stages, Carrying
<1> QED BY <1>2, <1>3, <1>4, <1>5, <1>6, <1>7, <1>8, <1>9

LEMMA SessionSteps ==
  ASSUME SocketInv, IdleOut \/ EndAll \/ Ending \/ \E s \in Session : Register(s) \/ Expires(s)
  PROVE  SocketStep
<1>1. /\ session \in [Socket -> Session \cup {None}] /\ stage \in [Socket -> Stages]
      /\ registry = {j \in Socket : stage[j] \in {"registered", "serving"}}
      /\ closed \in [Socket -> Codes \cup {None}]
  BY DEF SocketInv, SocketsTyped, Books, Registered
<1>2. CASE Ending
  BY <1>1, <1>2 DEF Ending, TellEnded, SocketStep, Grows, ticketVars, Codes
<1>3. CASE ~Ending
  <2>1. UNCHANGED <<socketVars, ticketVars, call>>
    BY <1>3 DEF IdleOut, EndAll, Register, Expires
  <2> QED BY <1>1, <2>1 DEF SocketStep, Grows, socketVars, ticketVars
<1> QED BY <1>2, <1>3

(* The steps of a call that leave the tickets alone.                       *)
LEMMA CallSteps ==
  ASSUME SocketInv, NEW c \in Call,
         \/ StartCall(c) \/ LaneFull(c) \/ Turn(c) \/ Operate(c) \/ Confirm(c)
         \/ Issue(c) /\ tickets' = tickets
  PROVE  CallStep(c) \/ (Issue(c) /\ call'[c].at = "issued")
<1> USE DEF SocketInv
<1> DEFINE k == call[c].sock
<1>1. /\ call \in [Call -> CallRecs] /\ closed \in [Socket -> Codes \cup {None}]
      /\ call[c].at # "new" => k \in Socket /\ (stage[k] # "serving" \/ call[c].orphan => closed[k] # None)
      /\ registry = {j \in Socket : stage[j] \in {"registered", "serving"}}
  BY DEF CallsTyped, SocketsTyped, Books, Registered, CallsPlaced, Placed
<1>2. Ended(c, TRUE) \in CallRecs /\ Ended(c, FALSE) \in CallRecs
  BY <1>1 DEF Ended, NewCall, CallRecs, Kinds, Places
<1>3. \A answered \in BOOLEAN : /\ Ended(c, answered).sock = k /\ Ended(c, answered).at = "done"
                               /\ Ended(c, answered).orphan = FALSE /\ Ended(c, answered).answered = answered
  BY DEF Ended, NewCall
<1> HIDE DEF k
<1>4. ASSUME call[c].at \notin {"new", "issued", "kept", "taken", "done"}, Grows,
             UNCHANGED <<session, stage, registry, slot, tickets>>,
             Drop(c), closed'[k] # None
      PROVE  CallStep(c)
  BY <1>1, <1>2, <1>3, <1>4 DEF Drop, CallStep, k
<1>5. ASSUME call[c].at \notin {"new", "issued", "kept", "taken", "done"}, Grows,
             UNCHANGED <<session, stage, registry, slot, tickets>>,
             Answer(c)
      PROVE  CallStep(c)
  <2>1. call' = [call EXCEPT ![c] = Ended(c, ~call[c].orphan /\ closed[k] = None)]
    BY <1>5 DEF Answer, k
  <2> DEFINE answered == ~call[c].orphan /\ closed[k] = None
  <2>2. answered \in BOOLEAN
    OBVIOUS
  <2>3. ~answered => closed'[k] # None
    BY <1>1, <1>5 DEF Grows
  <2> HIDE DEF answered
  <2>4. Ended(c, answered) \in CallRecs
    BY <1>2, <2>2
  <2> QED BY <1>1, <1>3, <1>5, <2>1, <2>2, <2>3, <2>4 DEF CallStep, k, answered
<1>6. ASSUME call[c].at \notin {"new", "issued", "kept", "taken", "done"}, Grows,
             UNCHANGED <<session, stage, registry, slot, tickets>>,
             NEW r \in CallRecs, call' = [call EXCEPT ![c] = r],
             r.sock = k, r.at \notin {"new", "done"}, r.orphan = call[c].orphan
      PROVE  CallStep(c)
  BY <1>1, <1>6 DEF CallStep, k
<1>7. ASSUME NEW where \in Places
      PROVE  /\ [call[c] EXCEPT !.at = where] \in CallRecs /\ [call[c] EXCEPT !.at = where].sock = k
             /\ [call[c] EXCEPT !.at = where].at = where /\ [call[c] EXCEPT !.at = where].orphan = call[c].orphan
  BY <1>1 DEF CallRecs, k
<1>8. ASSUME k \in Socket, CheckSocket(k), UNCHANGED sessionRest
      PROVE  Grows /\ (Authorized(k) => closed' = closed) /\ (~Authorized(k) => closed'[k] # None)
  BY <1>8, CheckKeeps
<1>9. CASE StartCall(c)
  <2>1. /\ call[c].at = "spawned" /\ CheckSocket(k) /\ UNCHANGED <<sessionRest, session, stage, registry, slot, tickets>>
        /\ (Authorized(k) /\ Move(c, "queued")) \/ Answer(c) \/ (~Authorized(k) /\ Drop(c))
    BY <1>9 DEF StartCall, ticketVars, k
  <2>2. Move(c, "queued") => CallStep(c)
    BY <1>1, <1>6, <1>7, <1>8, <2>1 DEF Move, Places
  <2> QED BY <1>1, <1>4, <1>5, <1>8, <2>1, <2>2
<1>10. CASE Turn(c)
  <2>1. /\ call[c].at = "queued" /\ CheckSocket(k) /\ UNCHANGED <<sessionRest, session, stage, registry, slot, tickets>>
        /\ (Authorized(k) /\ Move(c, "checked")) \/ (~Authorized(k) /\ Drop(c))
    BY <1>10 DEF Turn, ticketVars, k
  <2>2. Move(c, "checked") => CallStep(c)
    BY <1>1, <1>6, <1>7, <1>8, <2>1 DEF Move, Places
  <2> QED BY <1>1, <1>4, <1>8, <2>1, <2>2
<1>11. CASE LaneFull(c) \/ Operate(c) \/ (Issue(c) /\ tickets' = tickets /\ Answer(c))
  <2>1. /\ call[c].at \in {"queued", "checked"} /\ UNCHANGED <<session, stage, closed, registry, slot, tickets>> /\ Answer(c)
    BY <1>11 DEF LaneFull, Operate, Issue, sessionVars, socketVars, ticketVars
  <2>2. Grows
    BY <1>1, <2>1 DEF Grows
  <2> QED BY <1>5, <2>1, <2>2
<1>12. CASE Issue(c) /\ ~Answer(c)
  BY <1>1, <1>7, <1>12 DEF Issue, Move, Places
<1>13. CASE Confirm(c)
  <2>1. /\ call[c].at = "consumed" /\ CheckSocket(k) /\ UNCHANGED <<sessionRest, session, stage, registry, slot, tickets>>
        /\ \/ /\ Authorized(k)
              /\ call' = [call EXCEPT ![c].at = "checked", ![c].kind = "operate", ![c].ticket = None]
           \/ ~(Authorized(k) /\ k \in registry) /\ Drop(c)
    BY <1>13 DEF Confirm, ticketVars, k
  <2> DEFINE r == [call[c] EXCEPT !.at = "checked", !.kind = "operate", !.ticket = None]
  <2>2. r \in CallRecs /\ r.sock = k /\ r.at = "checked" /\ r.orphan = call[c].orphan
    BY <1>1 DEF CallRecs, k, Kinds, Places
  <2>3. call' = [call EXCEPT ![c].at = "checked", ![c].kind = "operate", ![c].ticket = None]
          => call' = [call EXCEPT ![c] = r]
    BY <1>1
  <2> HIDE DEF r
  <2>4. k \in Socket /\ (k \notin registry => closed[k] # None)
    BY <1>1, <2>1
  <2>5. ~(Authorized(k) /\ k \in registry) => closed'[k] # None
    BY <1>8, <2>1, <2>4 DEF Authorized
  <2> QED BY <1>4, <1>6, <1>8, <2>1, <2>2, <2>3, <2>4, <2>5
<1> QED BY <1>9, <1>10, <1>11, <1>12, <1>13

(* What every step of a call that has begun leaves right, whatever it does *)
(* to the tickets.                                                         *)
Going(c) ==
  /\ UNCHANGED <<session, stage, closed, registry>> /\ call[c].at # "new"
  /\ call' \in [Call -> CallRecs] /\ \A d \in Call \ {c} : call'[d] = call[d]
  /\ call'[c].sock = call[c].sock /\ call'[c].at # "new"
  /\ call'[c].orphan => call[c].orphan
  /\ call'[c].at = "done" /\ ~call'[c].answered => closed[call[c].sock] # None

LEMMA GoingKeeps ==
  ASSUME SocketInv, NEW c \in Call, Going(c), tickets' \subseteq tickets \cup {c}
  PROVE  SocketsTyped' /\ (Registered /\ CallsPlaced /\ TicketsIssued /\ EveryCallAnswered)'
<1> USE DEF SocketInv, Going
<1>1. SocketsTyped' /\ Registered'
  BY DEF SocketsTyped, Books, Registered
<1>2. CallsPlaced'
  BY DEF Books, CallsPlaced, Placed
<1>3. TicketsIssued' /\ EveryCallAnswered'
  BY DEF Books, TicketsIssued, EveryCallAnswered, CallsTyped
<1> QED BY <1>1, <1>2, <1>3

LEMMA MoveGoes ==
  ASSUME SocketInv, NEW c \in Call, NEW where \in Places \ {"new", "done"}, Move(c, where), call[c].at # "new",
         UNCHANGED <<session, stage, closed, registry>>
  PROVE  Going(c) /\ call'[c].at = where /\ call'[c].ticket = call[c].ticket
<1>1. call \in [Call -> CallRecs]
  BY DEF SocketInv, CallsTyped
<1> DEFINE r == [call[c] EXCEPT !.at = where]
<1>2. /\ r \in CallRecs /\ r.sock = call[c].sock /\ r.at = where /\ r.orphan = call[c].orphan
      /\ r.ticket = call[c].ticket
  BY <1>1 DEF CallRecs
<1>3. call' = [call EXCEPT ![c] = r]
  BY DEF Move
<1> HIDE DEF r
<1> QED BY <1>1, <1>2, <1>3 DEF Going

LEMMA AnswerGoes ==
  ASSUME SocketInv, NEW c \in Call, Answer(c), call[c].at # "new", UNCHANGED <<session, stage, closed, registry>>
  PROVE  Going(c) /\ call'[c].at = "done"
<1> DEFINE answered == ~call[c].orphan /\ closed[call[c].sock] = None
           r == Ended(c, answered)
<1>1. call \in [Call -> CallRecs] /\ Placed(c)
  BY DEF SocketInv, CallsTyped, Books, CallsPlaced
<1>2. answered \in BOOLEAN /\ (~answered => closed[call[c].sock] # None)
  BY <1>1 DEF Placed
<1>3. call' = [call EXCEPT ![c] = r]
  BY DEF Answer
<1> HIDE DEF answered
<1>4. r \in CallRecs /\ r.sock = call[c].sock /\ r.at = "done" /\ ~r.orphan /\ r.answered = answered
  BY <1>1, <1>2 DEF Ended, NewCall, CallRecs, Kinds, Places
<1> HIDE DEF r
<1> QED BY <1>1, <1>2, <1>3, <1>4 DEF Going

-----------------------------------------------------------------------------
(* The tickets.                                                            *)

LEMMA IssueKeeps ==
  ASSUME SocketInv, NEW c \in Call, Issue(c), call'[c].at = "issued"
  PROVE  (SocketsTyped /\ CallsTyped /\ Books)'
<1> USE DEF SocketInv
<1>1. /\ UNCHANGED <<session, stage, closed, registry, slot>> /\ call[c].at = "checked"
      /\ tickets' = tickets \cup {c} /\ Move(c, "issued")
  <2>1. Answer(c) => call'[c].at = "done"
    BY DEF Answer, Ended, NewCall, CallsTyped
  <2> QED BY <2>1 DEF Issue, sessionVars, socketVars
<1>2. Going(c)
  BY <1>1, MoveGoes DEF Places
<1>3. SocketsTyped' /\ (Registered /\ CallsPlaced /\ TicketsIssued /\ EveryCallAnswered)'
  BY <1>1, <1>2, GoingKeeps
<1>4. CallsTyped' /\ SlotsOwned'
  BY <1>1, <1>2 DEF Going, CallsTyped, Books, SlotsOwned
<1>5. TicketsPlaced'
  <2> SUFFICES ASSUME NEW t \in tickets'
               PROVE  slot'[call'[t].sock] = t \/ call'[t].at = "issued" \/ \E d \in Call : TakenBy(d, t)'
    BY DEF TicketsPlaced
  <2>1. CASE t = c
    BY <2>1
  <2>2. CASE t # c
    <3>1. t \in tickets /\ call'[t] = call[t]
      BY <1>1, <1>2, <2>2 DEF Going, CallsTyped
    <3>2. ASSUME NEW d \in Call, TakenBy(d, t) PROVE TakenBy(d, t)'
      BY <1>1, <1>2, <3>2 DEF TakenBy, Going
    <3> QED BY <1>1, <3>1, <3>2 DEF Books, TicketsPlaced
  <2> QED BY <2>1, <2>2
<1>6. KeptInTime'
  <2>1. slot[call[c].sock] # c
    BY <1>1, SocketsAssumption DEF Books, SlotsOwned, CallsPlaced, Placed
  <2> QED BY <1>1, <1>2, <2>1 DEF Going, CallsTyped, Books, KeptInTime
<1> QED BY <1>3, <1>4, <1>5, <1>6 DEF Books

LEMMA KeepKeeps == ASSUME SocketInv, NEW c \in Call, Keep(c) PROVE (SocketsTyped /\ CallsTyped /\ Books)'
<1> USE DEF SocketInv
<1> DEFINE k == call[c].sock
<1>1. /\ UNCHANGED <<session, stage, closed, registry>> /\ call[c].at = "issued" /\ Move(c, "kept")
      /\ slot' = [slot EXCEPT ![k] = c] /\ tickets' = tickets \ {slot[k]}
  BY DEF Keep, sessionVars, socketVars
<1>2. Going(c) /\ call'[c].at = "kept"
  BY <1>1, MoveGoes DEF Places
<1>3. SocketsTyped' /\ (Registered /\ CallsPlaced /\ TicketsIssued /\ EveryCallAnswered)'
  BY <1>1, <1>2, GoingKeeps
<1>4. k \in Socket /\ call'[c].sock = k /\ \A d \in Call \ {c} : call'[d] = call[d]
  BY <1>1, <1>2 DEF Going, Books, CallsPlaced, Placed
<1>5. CallsTyped'
  BY <1>1, <1>2 DEF Going, CallsTyped
<1>6. SlotsOwned'
  BY <1>1, <1>2, <1>4 DEF CallsTyped, Books, SlotsOwned
<1>7. TicketsPlaced'
  <2> SUFFICES ASSUME NEW t \in tickets', t # c
               PROVE  slot'[call'[t].sock] = t \/ call'[t].at = "issued" \/ \E d \in Call : TakenBy(d, t)'
    BY <1>1, <1>2, <1>4 DEF TicketsPlaced, CallsTyped
  <2>1. t \in tickets /\ call'[t] = call[t] /\ slot[k] # t
    BY <1>1, <1>4 DEF CallsTyped
  <2>2. ASSUME NEW d \in Call, TakenBy(d, t) PROVE TakenBy(d, t)'
    BY <1>1, <1>4, <2>2 DEF TakenBy
  <2> QED BY <1>1, <2>1, <2>2 DEF Books, TicketsPlaced
<1>8. KeptInTime'
  BY <1>1, <1>2, <1>4 DEF CallsTyped, Books, KeptInTime
<1> QED BY <1>3, <1>5, <1>6, <1>7, <1>8 DEF Books

LEMMA OfferedKeeps == ASSUME SocketInv, NEW c \in Call, Offered(c) PROVE (SocketsTyped /\ CallsTyped /\ Books)'
<1> USE DEF SocketInv
<1> DEFINE k == call[c].sock
<1>1. /\ UNCHANGED <<session, stage, closed, registry, slot>> /\ call[c].at = "kept" /\ Answer(c)
      /\ tickets' = IF k \in registry THEN tickets ELSE {t \in tickets : t # c /\ call[t].sock # k}
  BY DEF Offered, sessionVars, socketVars
<1>2. Going(c) /\ call'[c].at = "done"
  BY <1>1, AnswerGoes
<1>3. SocketsTyped' /\ (Registered /\ CallsPlaced /\ TicketsIssued /\ EveryCallAnswered)'
  BY <1>1, <1>2, GoingKeeps
<1>4. /\ k \in Socket /\ call'[c].sock = k /\ \A d \in Call \ {c} : call'[d] = call[d]
      /\ k \in registry => stage[k] = "serving"
  BY <1>1, <1>2 DEF Going, Books, CallsPlaced, Placed, Registered, Carrying
<1>5. CallsTyped'
  BY <1>1, <1>2 DEF Going, CallsTyped
<1>6. SlotsOwned'
  BY <1>1, <1>2, <1>4 DEF CallsTyped, Books, SlotsOwned
<1>7. TicketsPlaced'
  <2> SUFFICES ASSUME NEW t \in tickets'
               PROVE  slot[call'[t].sock] = t \/ call'[t].at = "issued" \/ \E d \in Call : TakenBy(d, t)'
    BY <1>1 DEF TicketsPlaced
  <2>1. /\ t \in tickets /\ t \in Call /\ call'[t].sock = call[t].sock
        /\ call[t].at = "issued" => call'[t].at = "issued"
    BY <1>1, <1>4 DEF CallsTyped
  <2>2. ASSUME NEW d \in Call, TakenBy(d, t) PROVE TakenBy(d, t)'
    BY <1>1, <1>4, <2>2 DEF TakenBy
  <2> QED BY <2>1, <2>2 DEF Books, TicketsPlaced
<1>8. KeptInTime'
  BY <1>1, <1>2, <1>4 DEF CallsTyped, Books, KeptInTime
<1> QED BY <1>3, <1>5, <1>6, <1>7, <1>8 DEF Books

LEMMA TakeKeeps == ASSUME SocketInv, NEW c \in Call, Take(c) PROVE (SocketsTyped /\ CallsTyped /\ Books)'
<1> USE DEF SocketInv
<1> DEFINE k == call[c].sock
           r == [call[c] EXCEPT !.at = "taken", !.ticket = slot[k]]
<1>1. /\ UNCHANGED <<session, stage, closed, registry, tickets>> /\ call[c].at = "checked"
      /\ call' = [call EXCEPT ![c].at = "taken", ![c].ticket = slot[k]] /\ slot' = [slot EXCEPT ![k] = None]
  BY DEF Take, sessionVars, socketVars
<1>2. k \in Socket /\ call \in [Call -> CallRecs] /\ slot \in [Socket -> Call \cup {None}]
  BY <1>1 DEF Books, CallsPlaced, Placed, CallsTyped
<1>3. r \in CallRecs /\ r.sock = k /\ r.at = "taken" /\ r.orphan = call[c].orphan /\ r.ticket = slot[k]
  BY <1>2 DEF CallRecs, Places
<1>4. call' = [call EXCEPT ![c] = r]
  BY <1>1, <1>2
<1> HIDE DEF r
<1>5. Going(c) /\ call'[c].at = "taken" /\ call'[c].ticket = slot[k] /\ call'[c].sock = k
  BY <1>1, <1>2, <1>3, <1>4 DEF Going
<1>6. SocketsTyped' /\ (Registered /\ CallsPlaced /\ TicketsIssued /\ EveryCallAnswered)'
  BY <1>1, <1>5, GoingKeeps
<1>7. \A d \in Call \ {c} : call'[d] = call[d]
  BY <1>5 DEF Going
<1>8. CallsTyped'
  BY <1>1, <1>2, <1>5 DEF Going, CallsTyped
<1>9. SlotsOwned'
  BY <1>1, <1>2, <1>5, <1>7 DEF Books, SlotsOwned
<1>10. TicketsPlaced'
  <2> SUFFICES ASSUME NEW t \in tickets
               PROVE  slot'[call'[t].sock] = t \/ call'[t].at = "issued" \/ \E d \in Call : TakenBy(d, t)'
    BY <1>1 DEF TicketsPlaced
  <2>1. t \in Call /\ call'[t].sock = call[t].sock /\ (call[t].at = "issued" => call'[t].at = "issued")
    BY <1>1, <1>5, <1>7 DEF CallsTyped
  <2>2. ASSUME NEW d \in Call, TakenBy(d, t) PROVE TakenBy(d, t)'
    BY <1>1, <1>7, <2>2 DEF TakenBy
  <2>3. slot[k] = t => TakenBy(c, t)'
    BY <1>5 DEF TakenBy
  <2>4. call[t].sock = k \/ slot'[call'[t].sock] = slot[call[t].sock]
    BY <1>1, <1>2, <2>1 DEF TicketsIssued, Books, CallsPlaced, Placed
  <2> QED BY <2>1, <2>2, <2>3, <2>4 DEF Books, TicketsPlaced
<1>11. KeptInTime'
  <2> SUFFICES ASSUME NEW t \in tickets, slot'[call'[t].sock] = t
               PROVE  stage[call[t].sock] \in {"serving", "removed", "revoked"} \/ call'[t].at = "kept"
    BY <1>1, <1>5, <1>7 DEF KeptInTime, CallsTyped
  <2>1. t \in Call /\ call'[t].sock = call[t].sock /\ (call[t].at = "kept" => call'[t].at = "kept")
    BY <1>1, <1>5, <1>7 DEF CallsTyped
  <2>2. call[t].sock \in Socket /\ t # None
    BY <2>1, SocketsAssumption DEF Books, TicketsIssued, CallsPlaced, Placed
  <2>3. slot[call[t].sock] = t
    BY <1>1, <1>2, <2>1, <2>2
  <2> QED BY <2>1, <2>3 DEF Books, KeptInTime
<1> QED BY <1>6, <1>8, <1>9, <1>10, <1>11 DEF Books

LEMMA ConsumeKeeps == ASSUME SocketInv, NEW c \in Call, Consume(c) PROVE (SocketsTyped /\ CallsTyped /\ Books)'
<1> USE DEF SocketInv
<1>1. /\ UNCHANGED <<session, stage, closed, registry, slot>> /\ call[c].at = "taken"
      /\ tickets' = tickets \ {call[c].ticket} /\ (Move(c, "consumed") \/ Answer(c))
  BY DEF Consume, sessionVars, socketVars
<1>2. Going(c) /\ call'[c].at \in {"consumed", "done"}
  BY <1>1, MoveGoes, AnswerGoes DEF Places
<1>3. SocketsTyped' /\ (Registered /\ CallsPlaced /\ TicketsIssued /\ EveryCallAnswered)'
  BY <1>1, <1>2, GoingKeeps
<1>4. call'[c].sock = call[c].sock /\ \A d \in Call \ {c} : call'[d] = call[d]
  BY <1>2 DEF Going
<1>5. CallsTyped'
  BY <1>1, <1>2 DEF Going, CallsTyped
<1>6. SlotsOwned'
  BY <1>1, <1>2, <1>4 DEF CallsTyped, Books, SlotsOwned
<1>7. TicketsPlaced'
  <2> SUFFICES ASSUME NEW t \in tickets'
               PROVE  slot'[call'[t].sock] = t \/ call'[t].at = "issued" \/ \E d \in Call : TakenBy(d, t)'
    BY <1>1 DEF TicketsPlaced
  <2>1. /\ t \in tickets /\ t \in Call /\ call'[t].sock = call[t].sock /\ t # call[c].ticket
        /\ call[t].at = "issued" => call'[t].at = "issued"
    BY <1>1, <1>4 DEF CallsTyped
  <2>2. ASSUME NEW d \in Call, TakenBy(d, t) PROVE TakenBy(d, t)'
    BY <1>1, <1>4, <2>1, <2>2 DEF TakenBy
  <2> QED BY <1>1, <2>1, <2>2 DEF Books, TicketsPlaced
<1>8. KeptInTime'
  BY <1>1, <1>2, <1>4 DEF CallsTyped, Books, KeptInTime
<1> QED BY <1>3, <1>5, <1>6, <1>7, <1>8 DEF Books

(* A ticket that goes, and the first steps of a socket's teardown, which   *)
(* drop what the socket's tickets are and what it keeps.                   *)
LEMMA DropsKeep ==
  ASSUME SocketInv, UNCHANGED <<session, closed, registry, call>>,
         tickets' \subseteq tickets, slot' \in [Socket -> Call \cup {None}], stage' \in [Socket -> Stages],
         \A k \in Socket : slot'[k] \in {slot[k], None},
         \A k \in Socket : \/ stage'[k] = stage[k]
                           \/ stage[k] = "removed" /\ stage'[k] = "revoked"
                           \/ stage[k] = "revoked" /\ stage'[k] = "discarded" /\ slot'[k] = None,
         \A t \in tickets' : slot'[call[t].sock] = slot[call[t].sock] \/ slot[call[t].sock] # t
  PROVE  (SocketsTyped /\ CallsTyped /\ Books)'
<1> USE DEF SocketInv
<1>1. SocketsTyped' /\ CallsTyped' /\ Registered'
  BY DEF SocketsTyped, CallsTyped, Books, Registered
<1>2. CallsPlaced' /\ EveryCallAnswered'
  BY DEF Books, CallsPlaced, Placed, EveryCallAnswered, Carrying
<1>3. SlotsOwned' /\ TicketsIssued'
  BY DEF Books, SlotsOwned, TicketsIssued
<1>4. TicketsPlaced'
  BY DEF Books, TicketsPlaced, TakenBy
<1>5. KeptInTime'
  <2> SUFFICES ASSUME NEW t \in tickets', slot'[call[t].sock] = t
               PROVE  stage'[call[t].sock] \in {"serving", "removed", "revoked"} \/ call[t].at = "kept"
    BY DEF KeptInTime
  <2>1. t \in Call /\ t \in tickets /\ call[t].sock \in Socket /\ t # None
    BY SocketsAssumption DEF Books, TicketsIssued, CallsPlaced, Placed, CallsTyped
  <2>2. slot[call[t].sock] = t
    BY <2>1
  <2> QED BY <2>1, <2>2 DEF Books, KeptInTime
<1> QED BY <1>1, <1>2, <1>3, <1>4, <1>5 DEF Books

LEMMA TeardownKeeps ==
  ASSUME SocketInv, (\E k \in Socket : Revoke(k) \/ Discard(k)) \/ \E t \in Call : TicketExpires(t)
  PROVE  (SocketsTyped /\ CallsTyped /\ Books)'
<1>1. stage \in [Socket -> Stages] /\ slot \in [Socket -> Call \cup {None}]
  BY DEF SocketInv, SocketsTyped, CallsTyped
<1>2. ASSUME NEW t \in Call, TicketExpires(t) PROVE (SocketsTyped /\ CallsTyped /\ Books)'
  BY <1>1, <1>2, DropsKeep DEF TicketExpires, socketVars
<1>3. ASSUME NEW k \in Socket, Revoke(k) PROVE (SocketsTyped /\ CallsTyped /\ Books)'
  <2>1. stage' = [stage EXCEPT ![k] = "revoked"] /\ stage[k] = "removed" /\ UNCHANGED <<session, closed, registry, slot, call>>
        /\ tickets' \subseteq tickets
    BY <1>3 DEF Revoke
  <2> QED BY <1>1, <2>1, DropsKeep DEF Stages
<1>4. ASSUME NEW k \in Socket, Discard(k) PROVE (SocketsTyped /\ CallsTyped /\ Books)'
  <2>1. /\ stage' = [stage EXCEPT ![k] = "discarded"] /\ stage[k] = "revoked" /\ UNCHANGED <<session, closed, registry, call>>
        /\ tickets' = tickets \ {slot[k]} /\ slot' = [slot EXCEPT ![k] = None]
    BY <1>4 DEF Discard
  <2>2. \A t \in tickets' : slot'[call[t].sock] = slot[call[t].sock] \/ slot[call[t].sock] # t
    BY <1>1, <2>1
  <2> QED BY <1>1, <2>1, <2>2, DropsKeep DEF Stages
<1> QED BY <1>2, <1>3, <1>4

LEMMA AbortCallsKeeps == ASSUME SocketInv, NEW k \in Socket, AbortCalls(k) PROVE (SocketsTyped /\ CallsTyped /\ Books)'
<1> USE DEF SocketInv
<1>1. /\ UNCHANGED <<session, closed, registry, slot, tickets>> /\ stage[k] = "discarded"
      /\ stage' = [stage EXCEPT ![k] = "gone"]
  BY DEF AbortCalls, ticketVars
<1>2. /\ call \in [Call -> CallRecs] /\ stage \in [Socket -> Stages]
      /\ \A c \in Call : Placed(c)
  BY DEF CallsTyped, SocketsTyped, Books, CallsPlaced
<1>3. ASSUME NEW c \in Call
      PROVE  /\ call'[c] \in CallRecs /\ call'[c].sock = call[c].sock
             /\ \/ call'[c] = call[c]
                \/ /\ call[c].sock = k /\ call[c].at = "spawned" /\ call'[c].at = "done"
                \/ /\ call[c].sock = k /\ call[c].at \notin {"new", "done"} /\ call'[c].at = call[c].at
                   /\ call'[c].ticket = call[c].ticket
  <2>1. CASE call[c].sock # k \/ call[c].at \in {"new", "done"}
    BY <1>2, <2>1 DEF AbortCalls
  <2>2. CASE call[c].sock = k /\ call[c].at = "spawned"
    <3>1. call'[c] = Ended(c, FALSE)
      BY <2>2 DEF AbortCalls
    <3> QED BY <1>2, <2>2, <3>1 DEF Ended, NewCall, CallRecs, Kinds, Places
  <2>3. CASE call[c].sock = k /\ call[c].at \notin {"new", "done", "spawned"}
    <3>1. call'[c] = [call[c] EXCEPT !.orphan = TRUE]
      BY <2>3 DEF AbortCalls
    <3> QED BY <1>2, <2>3, <3>1 DEF CallRecs
  <2> QED BY <2>1, <2>2, <2>3
<1>4. closed[k] # None \/ \A c \in Call : call[c].at # "new" => call[c].sock # k
  BY <1>1, <1>2 DEF Placed
<1>5. SocketsTyped' /\ CallsTyped' /\ Registered'
  <2>1. call' = [c \in Call |-> call'[c]]
    BY DEF AbortCalls
  <2>2. call' \in [Call -> CallRecs]
    BY <1>3, <2>1
  <2> QED BY <1>1, <2>2 DEF SocketsTyped, CallsTyped, Books, Registered, Stages
<1>6. CallsPlaced'
  <2> SUFFICES ASSUME NEW c \in Call PROVE Placed(c)'
    BY DEF CallsPlaced
  <2>1. call'[c].at # "new" => call[c].at # "new"
    BY <1>3
  <2>2. CASE call[c].sock = k
    BY <1>1, <1>2, <1>3, <1>4, <2>1, <2>2 DEF Placed, Carrying
  <2>3. CASE call[c].sock # k
    BY <1>1, <1>2, <1>3, <2>1, <2>3 DEF Placed
  <2> QED BY <2>2, <2>3
<1>7. SlotsOwned' /\ TicketsIssued'
  BY <1>1, <1>3 DEF CallsTyped, Books, SlotsOwned, TicketsIssued
<1>8. TicketsPlaced'
  <2> SUFFICES ASSUME NEW t \in tickets
               PROVE  slot[call'[t].sock] = t \/ call'[t].at = "issued" \/ \E d \in Call : TakenBy(d, t)'
    BY <1>1 DEF TicketsPlaced
  <2>1. t \in Call /\ call'[t].sock = call[t].sock /\ (call[t].at = "issued" => call'[t].at = "issued")
    BY <1>3 DEF CallsTyped
  <2>2. ASSUME NEW d \in Call, TakenBy(d, t) PROVE TakenBy(d, t)'
    BY <1>3, <2>2 DEF TakenBy
  <2> QED BY <2>1, <2>2 DEF Books, TicketsPlaced
<1>9. KeptInTime'
  BY <1>1, <1>2, <1>3 DEF CallsTyped, Books, KeptInTime
<1>10. EveryCallAnswered'
  BY <1>1, <1>3, <1>4 DEF Books, EveryCallAnswered
<1> QED BY <1>5, <1>6, <1>7, <1>8, <1>9, <1>10 DEF Books

LEMMA ReceiveKeeps ==
  ASSUME SocketInv, NEW c \in Call, NEW k \in Socket, NEW kind \in Kinds, Receive(c, k, kind)
  PROVE  (SocketsTyped /\ CallsTyped /\ Books)'
<1> USE DEF SocketInv
<1>1. /\ UNCHANGED <<session, stage, registry, slot, tickets>> /\ stage[k] = "serving" /\ call[c].at = "new" /\ Grows
  BY CheckKeeps DEF Receive, ticketVars
<1>2. CASE call' = call
  <2>1. SocketStep
    BY <1>1, <1>2 DEF SocketStep, SocketsTyped, Books, Registered
  <2> QED BY <2>1, SocketStepKeeps
<1>3. CASE call' # call
  <2> DEFINE r == [NewCall EXCEPT !.sock = k, !.kind = kind, !.at = "spawned"]
             q == [NewCall EXCEPT !.sock = k, !.at = "done", !.answered = TRUE]
  <2>1. /\ r \in CallRecs /\ r.sock = k /\ r.at = "spawned" /\ ~r.orphan
        /\ q \in CallRecs /\ q.sock = k /\ q.at = "done" /\ q.answered /\ ~q.orphan
    BY DEF NewCall, CallRecs, Kinds, Places
  <2>2. call' = [call EXCEPT ![c] = r] \/ call' = [call EXCEPT ![c] = q]
    BY <1>3 DEF Receive
  <2>3. PICK p : /\ p \in CallRecs /\ p.sock = k /\ p.at \in {"spawned", "done"} /\ ~p.orphan
                 /\ p.at = "done" => p.answered
                 /\ call' = [call EXCEPT ![c] = p]
    BY <2>1, <2>2
  <2> HIDE DEF r, q
  <2>4. call' \in [Call -> CallRecs] /\ call'[c] = p /\ \A d \in Call \ {c} : call'[d] = call[d]
    BY <2>3 DEF CallsTyped
  <2>5. SocketsTyped' /\ CallsTyped' /\ Registered'
    BY <1>1, <2>4 DEF SocketsTyped, CallsTyped, Grows, Registered, Books
  <2>6. CallsPlaced'
    BY <1>1, <2>3, <2>4 DEF Books, CallsPlaced, Placed, Grows, Carrying
  <2>7. SlotsOwned' /\ TicketsIssued'
    BY <1>1, <2>3, <2>4 DEF Books, SlotsOwned, TicketsIssued, CallsTyped
  <2>8. TicketsPlaced'
    <3> SUFFICES ASSUME NEW t \in tickets
                 PROVE  slot[call'[t].sock] = t \/ call'[t].at = "issued" \/ \E d \in Call : TakenBy(d, t)'
      BY <1>1 DEF TicketsPlaced
    <3>1. t \in Call /\ call'[t] = call[t]
      BY <1>1, <2>4 DEF Books, TicketsIssued, CallsTyped
    <3>2. ASSUME NEW d \in Call, TakenBy(d, t) PROVE TakenBy(d, t)'
      BY <1>1, <2>4, <3>2 DEF TakenBy
    <3> QED BY <3>1, <3>2 DEF Books, TicketsPlaced
  <2>9. KeptInTime'
    BY <1>1, <2>4 DEF Books, TicketsIssued, CallsTyped, KeptInTime
  <2>10. EveryCallAnswered'
    BY <1>1, <2>3, <2>4 DEF Books, CallsPlaced, Placed, EveryCallAnswered, Grows
  <2> QED BY <2>5, <2>6, <2>7, <2>8, <2>9, <2>10 DEF Books
<1> QED BY <1>2, <1>3

-----------------------------------------------------------------------------
(* The theorems.                                                           *)

LEMMA SocketsBegin == SocketsInit => SocketInv
<1> SUFFICES ASSUME SocketsInit PROVE SocketInv
  OBVIOUS
<1>1. SessionsTyped
  <2>1. Lined(<<>>) /\ Len(<<>>) = 0 /\ ToSet(<<>>) = {}
    BY EmptySeq, InLine DEF Lined
  <2> QED BY <2>1, SocketsAssumption DEF SocketsInit, SessionsTyped
<1>2. SocketsTyped /\ CallsTyped
  BY DEF SocketsInit, SocketsTyped, CallsTyped, Stages, CallRecs, NewCall, Kinds, Places
<1>3. Books
  BY DEF SocketsInit, Books, Registered, CallsPlaced, Placed, SlotsOwned, TicketsIssued, TicketsPlaced, KeptInTime,
         EveryCallAnswered, NewCall
<1> QED BY <1>1, <1>2, <1>3 DEF SocketInv

LEMMA SocketsStep == ASSUME SocketInv, [SocketsNext]_allVars PROVE SocketInv'
<1>1. CASE UNCHANGED allVars
  BY <1>1 DEF allVars, sessionVars, socketVars, ticketVars, SocketInv, SessionsTyped, SocketsTyped, CallsTyped, Books,
              Registered, CallsPlaced, Placed, SlotsOwned, TicketsIssued, TicketsPlaced, TakenBy, KeptInTime, EveryCallAnswered
<1>2. CASE SocketsNext
  <2>1. SessionsTyped'
    BY <1>2, SessionsKept
  <2> DEFINE Others == (SocketsTyped /\ CallsTyped /\ Books)'
  <2>2. ASSUME IdleOut \/ EndAll \/ Ending \/ \E s \in Session : Register(s) \/ Expires(s) PROVE Others
    BY <2>2, SessionSteps, SocketStepKeeps
  <2>3. ASSUME NEW k \in Socket,
               \/ \E s \in Session : Admit(k, s)
               \/ Add(k) \/ Upgraded(k) \/ UpgradeFails(k) \/ Closes(k) \/ ExpireTimer(k) \/ Renew(k) \/ Unregister(k)
        PROVE  Others
    BY <2>3, SocketSteps, SocketStepKeeps
  <2>4. ASSUME NEW k \in Socket, Revoke(k) \/ Discard(k) PROVE Others
    BY <2>4, TeardownKeeps
  <2>5. ASSUME NEW k \in Socket, AbortCalls(k) PROVE Others
    BY <2>5, AbortCallsKeeps
  <2>6. ASSUME NEW k \in Socket, NEW c \in Call, NEW kind \in Kinds, Receive(c, k, kind) PROVE Others
    BY <2>6, ReceiveKeeps
  <2>7. ASSUME NEW c \in Call, Issue(c) PROVE Others
    <3>1. CASE call'[c].at = "issued"
      BY <2>7, <3>1, IssueKeeps
    <3>2. CASE call'[c].at # "issued"
      <4>1. tickets' = tickets
        BY <2>7, <3>2 DEF Issue, Move, SocketInv, CallsTyped, CallRecs
      <4> QED BY <2>7, <3>2, <4>1, CallSteps, CallStepKeeps
    <3> QED BY <3>1, <3>2
  <2>8. ASSUME NEW c \in Call, StartCall(c) \/ LaneFull(c) \/ Turn(c) \/ Operate(c) \/ Confirm(c) PROVE Others
    <3>1. CallStep(c) \/ (Issue(c) /\ call'[c].at = "issued")
      BY <2>8, CallSteps
    <3> QED BY <3>1, CallStepKeeps, IssueKeeps
  <2>9. ASSUME NEW c \in Call, Keep(c) \/ Offered(c) \/ Take(c) \/ Consume(c) PROVE Others
    BY <2>9, KeepKeeps, OfferedKeeps, TakeKeeps, ConsumeKeeps
  <2>10. ASSUME NEW c \in Call, TicketExpires(c) PROVE Others
    BY <2>10, TeardownKeeps
  <2> HIDE DEF Others
  <2>11. Others
    BY <1>2, <2>2, <2>3, <2>4, <2>5, <2>6, <2>7, <2>8, <2>9, <2>10 DEF SocketsNext, Serving, Working
  <2> QED BY <2>1, <2>11 DEF SocketInv, Others
<1> QED BY <1>1, <1>2

(* The invariant the other results rest on: what each step of a session, a *)
(* socket, a call and a ticket leaves true (signin/sessions.rs,            *)
(* signin/tickets, session/{registry,socket,calls,stepup}.rs).             *)
THEOREM SocketsInvariant == SocketsSpec => []SocketInv
<1>1. SocketInv /\ [SocketsNext]_allVars => SocketInv'
  BY SocketsStep
<1> QED BY SocketsBegin, <1>1, PTL DEF SocketsSpec

LEMMA InvariantAccounts == ASSUME SocketInv PROVE CallsAccounted
<1> USE DEF SocketInv
<1>1. SocketsTypeOK
  <2>1. IsInjective(tracked)
    BY InLine DEF IsInjective, SessionsTyped, Lined
  <2> QED BY <2>1 DEF SocketsTypeOK, SessionsTyped, Lined, SocketsTyped, CallsTyped, CallRecs
<1>2. TicketsAccounted
  BY DEF Books, TicketsPlaced, KeptInTime, TakenBy, TicketsAccounted
<1> QED BY <1>1, <1>2 DEF CallsAccounted, Books

(* However sockets close, calls end on their lanes and confirmations and   *)
(* teardowns cross, every step-up ticket has its place and no call of an   *)
(* open socket ends without its answer (session/{socket,calls,stepup}.rs). *)
THEOREM CallsAlwaysAccounted == SocketsSpec => []CallsAccounted
<1> QED BY SocketsInvariant, InvariantAccounts, PTL

(* A job begins only by its own check, under a session still tracked.      *)
LEMMA BeginsChecked ==
  ASSUME SocketInv, SocketsNext, NEW c \in Call, call[c].at # "checked", call'[c].at = "checked"
  PROVE  Authorized(call[c].sock)
<1>1. call \in [Call -> CallRecs]
  BY DEF SocketInv, CallsTyped
<1>2. ASSUME UNCHANGED call PROVE FALSE
  BY <1>2
<1>3. ASSUME NEW d \in Call, NEW answered, call' = [call EXCEPT ![d] = Ended(d, answered)] PROVE FALSE
  BY <1>1, <1>3 DEF Ended, NewCall
<1>4. ASSUME NEW d \in Call, NEW where \in Places \ {"checked"}, Move(d, where) PROVE FALSE
  BY <1>1, <1>4 DEF Move
<1>5. ASSUME NEW d \in Call, Answer(d) \/ Drop(d) PROVE FALSE
  BY <1>3, <1>5 DEF Answer, Drop
<1>6. ASSUME NEW s \in Session, Register(s) \/ Expires(s) PROVE FALSE
  BY <1>2, <1>6 DEF Register, Expires
<1>7. ASSUME IdleOut \/ EndAll \/ Ending PROVE FALSE
  BY <1>2, <1>7 DEF IdleOut, EndAll, Ending, TellEnded
<1>8. ASSUME NEW k \in Socket, (\E s \in Session : Admit(k, s)) \/ Closes(k) \/ ExpireTimer(k) \/ Renew(k) PROVE FALSE
  BY <1>2, <1>8 DEF Admit, Closes, ExpireTimer, Renew
<1>9. ASSUME NEW k \in Socket, Add(k) \/ Upgraded(k) \/ UpgradeFails(k) \/ Unregister(k) \/ Revoke(k) \/ Discard(k)
       PROVE  FALSE
  BY <1>2, <1>9 DEF Add, Upgraded, UpgradeFails, Unregister, Revoke, Discard
<1>10. ASSUME NEW k \in Socket, AbortCalls(k) PROVE FALSE
  BY <1>1, <1>10 DEF AbortCalls, Ended, NewCall, CallRecs
<1>11. ASSUME NEW k \in Socket, NEW d \in Call, NEW kind \in Kinds, Receive(d, k, kind) PROVE FALSE
  BY <1>1, <1>2, <1>11 DEF Receive, NewCall
<1>12. ASSUME NEW d \in Call, StartCall(d) PROVE FALSE
  BY <1>4, <1>5, <1>12 DEF StartCall, Places
<1>13. ASSUME NEW d \in Call, LaneFull(d) \/ Operate(d) \/ Issue(d) \/ Keep(d) \/ Offered(d) \/ Consume(d) PROVE FALSE
  BY <1>4, <1>5, <1>13 DEF LaneFull, Operate, Issue, Keep, Offered, Consume, Places
<1>14. ASSUME NEW d \in Call, Take(d) PROVE FALSE
  BY <1>1, <1>14 DEF Take
<1>15. ASSUME NEW d \in Call, TicketExpires(d) PROVE FALSE
  BY <1>2, <1>15 DEF TicketExpires
<1>16. ASSUME NEW d \in Call, Turn(d) \/ Confirm(d) PROVE Authorized(call[c].sock)
  <2>1. Authorized(call[d].sock)
    BY <1>5, <1>16 DEF Turn, Confirm
  <2>2. d = c
    BY <1>1, <1>5, <1>16 DEF Turn, Confirm, Move
  <2> QED BY <2>1, <2>2
<1> QED
  BY <1>6, <1>7, <1>8, <1>9, <1>10, <1>11, <1>12, <1>13, <1>14, <1>15, <1>16 DEF SocketsNext, Serving, Working

Untold == \A c \in Call : call[c].at # "checked" /\ call'[c].at = "checked" => ~Told(session[call[c].sock])

(* A job that turns out to be of an ended session never begins: its socket *)
(* may not be closed yet, but a session that was told is not tracked any   *)
(* more (session/calls.rs current).                                        *)
THEOREM NothingStartsOnceTold == SocketsSpec => NoStartAfterTold
<1>1. ASSUME SocketInv, [SocketsNext]_allVars, NEW c \in Call, call[c].at # "checked", call'[c].at = "checked"
      PROVE  ~Told(session[call[c].sock])
  <2>1. SocketsNext
    BY <1>1 DEF allVars
  <2> QED BY <1>1, <2>1, BeginsChecked DEF Authorized, Active, Told
<1>2. SocketInv /\ [SocketsNext]_allVars => [Untold]_allVars
  BY <1>1 DEF Untold
<1> QED BY <1>2, SocketsInvariant, PTL DEF SocketsSpec, NoStartAfterTold, Untold
=============================================================================
