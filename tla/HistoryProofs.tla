---------------------------- MODULE HistoryProofs ---------------------------
(***************************************************************************)
(* What the store's operators return: a selection keeps the order of what  *)
(* it selects, and what the proofs about its writers and readers need.     *)
(***************************************************************************)
EXTENDS History, SequenceTheorems, WellFoundedInduction, TLAPS

LEMMA Least ==
  ASSUME NEW T, T \subseteq Nat, T # {}
  PROVE  \E x \in T : \A y \in T : x <= y
<1>1. \E x \in T : \A y \in T : ~ (<<y, x>> \in OpToRel(<,Nat))
  BY NatLessThanWellFounded, WFMin
<1>2. \A x, y \in Nat : <<y, x>> \in OpToRel(<,Nat) <=> y < x
  BY DEF OpToRel
<1>3. \E x \in T : \A y \in T : ~ (y < x)
  BY <1>1, <1>2, Zenon
<1> HIDE <1>1, <1>2
<1> QED BY <1>3

(* Induction, over a set: the provers instantiate no property.             *)
LEMMA Inductive ==
  ASSUME NEW T, 0 \in T, \A n \in Nat : n \in T => n + 1 \in T
  PROVE  Nat \subseteq T
<1> SUFFICES ASSUME Nat \ T # {} PROVE FALSE
  OBVIOUS
<1>1. PICK x \in Nat \ T : \A y \in Nat \ T : x <= y
  BY Least
<1>2. x # 0 /\ x - 1 \in Nat /\ x = (x - 1) + 1
  BY <1>1
<1> QED BY <1>1, <1>2

(* The function Picked is the last value of, up to n.                      *)
PicksTo(f, s, I, n) ==
  /\ f[0] = <<>>
  /\ \A k \in 1..n : f[k] = IF k \in I THEN Append(f[k - 1], s[k]) ELSE f[k - 1]

LEMMA PicksExist ==
  ASSUME NEW S, NEW s \in Seq(S), NEW I, NEW m \in Nat, m <= Len(s)
  PROVE  \E f \in [0..m -> Seq(S)] : PicksTo(f, s, I, m)
<1> DEFINE T == {n \in Nat : n <= Len(s) => \E f \in [0..n -> Seq(S)] : PicksTo(f, s, I, n)}
<1>1. 0 \in T
  <2>1. [k \in 0..0 |-> <<>>] \in [0..0 -> Seq(S)]
    OBVIOUS
  <2>2. PicksTo([k \in 0..0 |-> <<>>], s, I, 0)
    BY DEF PicksTo
  <2> QED BY <2>1, <2>2
<1>2. ASSUME NEW n \in Nat, n \in T PROVE n + 1 \in T
  <2> SUFFICES ASSUME n + 1 <= Len(s) PROVE \E f \in [0..(n + 1) -> Seq(S)] : PicksTo(f, s, I, n + 1)
    OBVIOUS
  <2>1. n <= Len(s)
    OBVIOUS
  <2>2. PICK f \in [0..n -> Seq(S)] : PicksTo(f, s, I, n)
    BY <1>2, <2>1
  <2> DEFINE v == IF n + 1 \in I THEN Append(f[n], s[n + 1]) ELSE f[n]
  <2>3. v \in Seq(S)
    <3>1. f[n] \in Seq(S) /\ s[n + 1] \in S
      BY <2>2
    <3> QED BY <3>1
  <2> HIDE DEF v
  <2> DEFINE g == [k \in 0..(n + 1) |-> IF k = n + 1 THEN v ELSE f[k]]
  <2>4. g \in [0..(n + 1) -> Seq(S)]
    BY <2>2, <2>3
  <2>5. g[0] = <<>>
    BY <2>2 DEF PicksTo
  <2>6. ASSUME NEW k \in 1..(n + 1) PROVE g[k] = IF k \in I THEN Append(g[k - 1], s[k]) ELSE g[k - 1]
    <3>1. CASE k = n + 1
      <4>1. g[k] = v /\ g[k - 1] = f[n]
        BY <3>1
      <4> QED BY <3>1, <4>1 DEF v
    <3>2. CASE k # n + 1
      <4>1. k \in 1..n /\ g[k] = f[k] /\ g[k - 1] = f[k - 1]
        BY <3>2
      <4> QED BY <4>1, <2>2 DEF PicksTo
    <3> QED BY <3>1, <3>2
  <2> HIDE DEF g
  <2>7. PicksTo(g, s, I, n + 1)
    BY <2>5, <2>6 DEF PicksTo
  <2> QED BY <2>4, <2>7
<1> HIDE DEF T
<1>3. m \in T
  BY <1>1, <1>2, Inductive
<1> QED BY <1>3 DEF T

LEMMA PickedTo ==
  ASSUME NEW S, NEW s \in Seq(S), NEW I
  PROVE  \E f : PicksTo(f, s, I, Len(s)) /\ Picked(s, I) = f[Len(s)]
<1> DEFINE F(f) == [n \in 0..Len(s) |-> IF n = 0 THEN <<>> ELSE IF n \in I THEN Append(f[n - 1], s[n]) ELSE f[n - 1]]
<1> DEFINE c == CHOOSE f : f = F(f)
<1>1. PICK f \in [0..Len(s) -> Seq(S)] : PicksTo(f, s, I, Len(s))
  <2>1. Len(s) \in Nat /\ Len(s) <= Len(s)
    OBVIOUS
  <2> HIDE DEF c
  <2> QED BY <2>1, PicksExist
<1>2. f = F(f)
  <2>1. ASSUME NEW n \in 0..Len(s)
        PROVE  f[n] = IF n = 0 THEN <<>> ELSE IF n \in I THEN Append(f[n - 1], s[n]) ELSE f[n - 1]
    <3>1. CASE n = 0
      BY <1>1, <3>1 DEF PicksTo
    <3>2. CASE n \in 1..Len(s)
      <4>1. n # 0
        BY <3>2
      <4> QED BY <1>1, <3>2, <4>1, Zenon DEF PicksTo
    <3> QED BY <3>1, <3>2
  <2>2. f = [n \in 0..Len(s) |-> f[n]]
    OBVIOUS
  <2>3. [n \in 0..Len(s) |-> f[n]] = F(f)
    BY <2>1, Zenon
  <2> HIDE DEF F
  <2> QED BY <2>2, <2>3, Zenon
<1>3. c = F(c)
  <2> HIDE DEF F
  <2> QED BY <1>2, Zenon
<1>4. Picked(s, I) = c[Len(s)]
  BY Zenon DEF Picked
<1>5. PicksTo(c, s, I, Len(s))
  <2> HIDE DEF c
  <2>1. \A n \in 0..Len(s) : c[n] = IF n = 0 THEN <<>> ELSE IF n \in I THEN Append(c[n - 1], s[n]) ELSE c[n - 1]
    BY <1>3
  <2> QED BY <2>1 DEF PicksTo
<1> QED BY <1>4, <1>5

(* What is picked stands where it stood: in order, and nothing else.       *)
LEMMA PickedIs ==
  ASSUME NEW S, NEW s \in Seq(S), NEW I
  PROVE  /\ Picked(s, I) \in Seq(S)
         /\ \E at \in [1..Len(Picked(s, I)) -> DOMAIN s] :
              /\ \A k \in DOMAIN Picked(s, I) : at[k] \in I /\ Picked(s, I)[k] = s[at[k]]
              /\ \A k, l \in DOMAIN Picked(s, I) : k < l => at[k] < at[l]
              /\ \A i \in DOMAIN s : i \in I => \E k \in DOMAIN Picked(s, I) : at[k] = i
<1> DEFINE Stood(p, at, n) ==
             /\ p \in Seq(S) /\ at \in [1..Len(p) -> 1..n]
             /\ \A k \in 1..Len(p) : at[k] \in I /\ p[k] = s[at[k]]
             /\ \A k, l \in 1..Len(p) : k < l => at[k] < at[l]
             /\ \A i \in 1..n : i \in I => \E k \in 1..Len(p) : at[k] = i
<1>1. PICK f : PicksTo(f, s, I, Len(s)) /\ Picked(s, I) = f[Len(s)]
  BY PickedTo
<1> DEFINE T == {n \in Nat : n <= Len(s) => \E at : Stood(f[n], at, n)}
<1>2. 0 \in T
  <2>1. f[0] = <<>>
    BY <1>1 DEF PicksTo
  <2>2. Stood(<<>>, [k \in 1..0 |-> 0], 0)
    <3>1. <<>> \in Seq(S) /\ Len(<<>>) = 0 /\ 1..0 = {} /\ 1..Len(<<>>) = {}
      OBVIOUS
    <3>2. [k \in 1..0 |-> 0] \in [1..Len(<<>>) -> 1..0]
      BY <3>1
    <3> QED BY <3>1, <3>2, Zenon
  <2> HIDE DEF Stood
  <2>3. \E at : Stood(f[0], at, 0)
    BY <2>1, <2>2
  <2> QED BY <2>3
<1>3. ASSUME NEW n \in Nat, n \in T PROVE n + 1 \in T
  <2> HIDE DEF Stood
  <2> SUFFICES ASSUME n + 1 <= Len(s) PROVE \E at : Stood(f[n + 1], at, n + 1)
    OBVIOUS
  <2> USE DEF Stood
  <2>1. n <= Len(s) /\ n + 1 \in 1..Len(s) /\ (n + 1) - 1 = n
    OBVIOUS
  <2>2. PICK at : Stood(f[n], at, n)
    BY <1>3, <2>1
  <2>3. f[n + 1] = IF n + 1 \in I THEN Append(f[n], s[n + 1]) ELSE f[n]
    <3>1. f[n + 1] = IF n + 1 \in I THEN Append(f[(n + 1) - 1], s[n + 1]) ELSE f[(n + 1) - 1]
      BY <1>1, <2>1, Zenon DEF PicksTo
    <3> QED BY <2>1, <3>1
  <2> DEFINE p == f[n]
  <2>4. CASE n + 1 \notin I
    <3>1. Stood(p, at, n + 1)
      <4>1. at \in [1..Len(p) -> 1..(n + 1)]
        BY <2>2
      <4>2. \A i \in 1..(n + 1) : i \in I => \E k \in 1..Len(p) : at[k] = i
        <5>1. ASSUME NEW i \in 1..(n + 1), i \in I PROVE i \in 1..n
          BY <5>1, <2>4
        <5> QED BY <5>1, <2>2
      <4> HIDE DEF p
      <4> QED BY <4>1, <4>2, <2>2 DEF p
    <3>2. f[n + 1] = p
      BY <2>3, <2>4
    <3> HIDE DEF Stood, p
    <3> QED BY <3>1, <3>2
  <2>5. CASE n + 1 \in I
    <3> DEFINE q == Append(p, s[n + 1])
               to == [k \in 1..(Len(p) + 1) |-> IF k = Len(p) + 1 THEN n + 1 ELSE at[k]]
    <3>1. p \in Seq(S) /\ s[n + 1] \in S /\ Len(p) \in Nat
      BY <2>1, <2>2
    <3>2. q \in Seq(S) /\ Len(q) = Len(p) + 1 /\ q[Len(p) + 1] = s[n + 1] /\ \A k \in 1..Len(p) : q[k] = p[k]
      BY <3>1
    <3>3. at \in [1..Len(p) -> 1..n]
      BY <2>2
    <3>4. to[Len(p) + 1] = n + 1 /\ \A k \in 1..Len(p) : to[k] = at[k]
      BY <3>1
    <3>5. to \in [1..(Len(p) + 1) -> 1..(n + 1)]
      <4>1. ASSUME NEW k \in 1..(Len(p) + 1) PROVE (IF k = Len(p) + 1 THEN n + 1 ELSE at[k]) \in 1..(n + 1)
        <5>1. CASE k = Len(p) + 1
          BY <5>1
        <5>2. CASE k # Len(p) + 1
          <6>1. k \in 1..Len(p)
            BY <5>2, <3>1
          <6>2. at[k] \in 1..n
            BY <6>1, <3>3
          <6> QED BY <5>2, <6>2
        <5> QED BY <5>1, <5>2
      <4> QED BY <4>1
    <3>6. \A k \in 1..(Len(p) + 1) : k = Len(p) + 1 \/ k \in 1..Len(p)
      BY <3>1
    <3>7. \A i \in 1..(n + 1) : i = n + 1 \/ i \in 1..n
      OBVIOUS
    <3>8. /\ \A k \in 1..Len(p) : at[k] \in I /\ p[k] = s[at[k]]
          /\ \A k, l \in 1..Len(p) : k < l => at[k] < at[l]
          /\ \A i \in 1..n : i \in I => \E k \in 1..Len(p) : at[k] = i
      BY <2>2
    <3> HIDE DEF p, q, to
    <3>9. \A k \in 1..(Len(p) + 1) : to[k] \in I /\ q[k] = s[to[k]]
      BY <2>5, <3>2, <3>4, <3>6, <3>8
    <3>10. ASSUME NEW k \in 1..(Len(p) + 1), NEW l \in 1..(Len(p) + 1), k < l PROVE to[k] < to[l]
      <4>1. k \in 1..Len(p) /\ to[k] = at[k] /\ at[k] \in 1..n
        BY <3>1, <3>3, <3>4, <3>10
      <4>2. CASE l = Len(p) + 1
        BY <4>1, <4>2, <3>4
      <4>3. CASE l \in 1..Len(p)
        BY <4>1, <4>3, <3>4, <3>8, <3>10
      <4> QED BY <4>2, <4>3, <3>6
    <3>11. ASSUME NEW i \in 1..(n + 1), i \in I PROVE \E k \in 1..(Len(p) + 1) : to[k] = i
      <4>1. CASE i = n + 1
        <5>1. Len(p) + 1 \in 1..(Len(p) + 1)
          BY <3>1
        <5> QED BY <4>1, <3>4, <5>1
      <4>2. CASE i \in 1..n
        <5>1. PICK k \in 1..Len(p) : at[k] = i
          BY <4>2, <3>8, <3>11
        <5>2. k \in 1..(Len(p) + 1)
          BY <3>1
        <5> QED BY <5>1, <5>2, <3>4
      <4> QED BY <4>1, <4>2, <3>7
    <3>12. Stood(q, to, n + 1)
      BY <3>2, <3>5, <3>9, <3>10, <3>11
    <3>13. f[n + 1] = q
      BY <2>3, <2>5 DEF q, p
    <3> QED BY <3>12, <3>13
  <2> QED BY <2>4, <2>5
<1> HIDE DEF T
<1>4. Len(s) \in Nat /\ Len(s) \in T
  <2>1. Nat \subseteq T
    BY <1>2, <1>3, Inductive
  <2> QED BY <2>1
<1>5. PICK at : Stood(Picked(s, I), at, Len(s))
  <2> HIDE DEF Stood
  <2>1. \E at : Stood(f[Len(s)], at, Len(s))
    BY <1>4 DEF T
  <2> QED BY <1>1, <2>1
<1>6. DOMAIN s = 1..Len(s) /\ DOMAIN Picked(s, I) = 1..Len(Picked(s, I))
  BY <1>5
<1>7. at \in [1..Len(Picked(s, I)) -> DOMAIN s]
  BY <1>5, <1>6
<1>8. /\ \A k \in DOMAIN Picked(s, I) : at[k] \in I /\ Picked(s, I)[k] = s[at[k]]
      /\ \A k, l \in DOMAIN Picked(s, I) : k < l => at[k] < at[l]
      /\ \A i \in DOMAIN s : i \in I => \E k \in DOMAIN Picked(s, I) : at[k] = i
  BY <1>5, <1>6, Zenon
<1>9. Picked(s, I) \in Seq(S)
  BY <1>5
<1> HIDE DEF Stood
<1> QED BY <1>7, <1>8, <1>9, Zenon

(* What a selection holds is what passes its test.                         *)
LEMMA PickedAre ==
  ASSUME NEW S, NEW s \in Seq(S), NEW I
  PROVE  /\ Picked(s, I) \in Seq(S)
         /\ \A k \in DOMAIN Picked(s, I) : \E i \in DOMAIN s : i \in I /\ Picked(s, I)[k] = s[i]
         /\ \A i \in DOMAIN s : i \in I => \E k \in DOMAIN Picked(s, I) : Picked(s, I)[k] = s[i]
         /\ Picked(s, I) = <<>> <=> \A i \in DOMAIN s : i \notin I
<1> DEFINE p == Picked(s, I)
<1> HIDE DEF p
<1>1. p \in Seq(S)
  BY PickedIs DEF p
<1>2. PICK at \in [1..Len(p) -> DOMAIN s] :
              /\ \A k \in DOMAIN p : at[k] \in I /\ p[k] = s[at[k]]
              /\ \A k, l \in DOMAIN p : k < l => at[k] < at[l]
              /\ \A i \in DOMAIN s : i \in I => \E k \in DOMAIN p : at[k] = i
  <2>1. /\ Picked(s, I) \in Seq(S)
         /\ \E at \in [1..Len(Picked(s, I)) -> DOMAIN s] :
              /\ \A k \in DOMAIN Picked(s, I) : at[k] \in I /\ Picked(s, I)[k] = s[at[k]]
              /\ \A k, l \in DOMAIN Picked(s, I) : k < l => at[k] < at[l]
              /\ \A i \in DOMAIN s : i \in I => \E k \in DOMAIN Picked(s, I) : at[k] = i
    BY PickedIs
  <2> QED BY <2>1, Zenon DEF p
<1>3. DOMAIN p = 1..Len(p) /\ Len(p) \in Nat
  BY <1>1
<1>4. \A k \in DOMAIN p : at[k] \in DOMAIN s
  BY <1>2, <1>3
<1>5. \A k \in DOMAIN p : \E i \in DOMAIN s : i \in I /\ p[k] = s[i]
  BY <1>2, <1>4, ZenonT(30)
<1>6. \A i \in DOMAIN s : i \in I => \E k \in DOMAIN p : p[k] = s[i]
  BY <1>2, ZenonT(30)
<1>7. p = <<>> <=> DOMAIN p = {}
  <2>1. p = <<>> <=> Len(p) = 0
    BY <1>1
  <2>2. \A n \in Nat : n = 0 <=> 1..n = {}
    OBVIOUS
  <2> QED BY <1>3, <2>1, <2>2
<1>8. p = <<>> <=> \A i \in DOMAIN s : i \notin I
  BY <1>5, <1>6, <1>7, Zenon
<1> QED BY <1>1, <1>5, <1>6, <1>8, Zenon DEF p

(* The positions up to k pick a prefix.                                    *)
LEMMA PrefixPicked ==
  ASSUME NEW S, NEW s \in Seq(S), NEW k \in 0..Len(s), NEW I, \A i \in 1..Len(s) : i \in I <=> i <= k
  PROVE  Picked(s, I) = SubSeq(s, 1, k)
<1>1. PICK f : PicksTo(f, s, I, Len(s)) /\ Picked(s, I) = f[Len(s)]
  BY PickedTo
<1> DEFINE T == {n \in Nat : n <= Len(s) => f[n] = SubSeq(s, 1, IF n <= k THEN n ELSE k)}
<1>2. 0 \in T
  <2>1. f[0] = <<>> /\ SubSeq(s, 1, 0) = <<>> /\ 0 <= k
    BY <1>1 DEF PicksTo
  <2> QED BY <2>1
<1>3. ASSUME NEW n \in Nat, n \in T PROVE n + 1 \in T
  <2> SUFFICES ASSUME n + 1 <= Len(s) PROVE f[n + 1] = SubSeq(s, 1, IF n + 1 <= k THEN n + 1 ELSE k)
    OBVIOUS
  <2>1. n <= Len(s) /\ n + 1 \in 1..Len(s) /\ (n + 1) - 1 = n /\ k \in Nat /\ k <= Len(s) /\ Len(s) \in Nat
    OBVIOUS
  <2>2. f[n] = SubSeq(s, 1, IF n <= k THEN n ELSE k)
    BY <1>3, <2>1
  <2>3. f[n + 1] = IF n + 1 <= k THEN Append(f[n], s[n + 1]) ELSE f[n]
    <3>1. f[n + 1] = IF n + 1 \in I THEN Append(f[(n + 1) - 1], s[n + 1]) ELSE f[(n + 1) - 1]
      BY <1>1, <2>1, Zenon DEF PicksTo
    <3>2. n + 1 \in I <=> n + 1 <= k
      BY <2>1
    <3> QED BY <2>1, <3>1, <3>2
  <2>4. CASE n + 1 <= k
    <3>1. f[n] = SubSeq(s, 1, n) /\ f[n + 1] = Append(SubSeq(s, 1, n), s[n + 1])
      BY <2>1, <2>2, <2>3, <2>4
    <3>2. Append(SubSeq(s, 1, n), s[n + 1]) = SubSeq(s, 1, n + 1)
      <4>1. SubSeq(s, 1, n) \in Seq(S) /\ Len(SubSeq(s, 1, n)) = n /\ \A i \in 1..n : SubSeq(s, 1, n)[i] = s[i]
        BY <2>1
      <4>2. SubSeq(s, 1, n + 1) \in Seq(S) /\ Len(SubSeq(s, 1, n + 1)) = n + 1 /\ \A i \in 1..n + 1 : SubSeq(s, 1, n + 1)[i] = s[i]
        BY <2>1
      <4> DEFINE a == Append(SubSeq(s, 1, n), s[n + 1])
                 b == SubSeq(s, 1, n + 1)
      <4>3. a \in Seq(S) /\ Len(a) = n + 1 /\ a[n + 1] = s[n + 1] /\ \A i \in 1..n : a[i] = s[i]
        BY <2>1, <4>1
      <4>4. b \in Seq(S) /\ Len(b) = n + 1 /\ \A i \in 1..n + 1 : b[i] = s[i]
        BY <4>2
      <4> HIDE DEF a, b
      <4>5. \A i \in 1..n + 1 : a[i] = b[i]
        <5>1. \A i \in 1..n + 1 : i = n + 1 \/ i \in 1..n
          OBVIOUS
        <5> QED BY <4>3, <4>4, <5>1
      <4>6. a = b
        BY <4>3, <4>4, <4>5, SeqEqual
      <4> QED BY <4>6 DEF a, b
    <3> QED BY <2>4, <3>1, <3>2
  <2>5. CASE ~(n + 1 <= k)
    <3>1. (IF n <= k THEN n ELSE k) = k
      BY <2>1, <2>5
    <3> QED BY <2>2, <2>3, <2>5, <3>1
  <2> QED BY <2>4, <2>5
<1> HIDE DEF T
<1>4. Len(s) \in T /\ Len(s) \in Nat
  <2>1. Nat \subseteq T
    BY <1>2, <1>3, Inductive
  <2> QED BY <2>1
<1>5. (IF Len(s) <= k THEN Len(s) ELSE k) = k
  BY <1>4
<1>6. f[Len(s)] = SubSeq(s, 1, IF Len(s) <= k THEN Len(s) ELSE k)
  BY <1>4 DEF T
<1> QED BY <1>1, <1>5, <1>6

(* No more is picked than there is.                                        *)
LEMMA PickedLen ==
  ASSUME NEW S, NEW s \in Seq(S), NEW I
  PROVE  Len(Picked(s, I)) <= Len(s)
<1>1. PICK f : PicksTo(f, s, I, Len(s)) /\ Picked(s, I) = f[Len(s)]
  BY PickedTo
<1> DEFINE T == {n \in Nat : n <= Len(s) => f[n] \in Seq(S) /\ Len(f[n]) <= n}
<1>2. 0 \in T
  <2>1. f[0] = <<>>
    BY <1>1 DEF PicksTo
  <2>2. f[0] \in Seq(S) /\ Len(f[0]) = 0
    BY <2>1
  <2> QED BY <2>2
<1>3. ASSUME NEW n \in Nat, n \in T PROVE n + 1 \in T
  <2> SUFFICES ASSUME n + 1 <= Len(s) PROVE f[n + 1] \in Seq(S) /\ Len(f[n + 1]) <= n + 1
    OBVIOUS
  <2>1. n <= Len(s) /\ n + 1 \in 1..Len(s) /\ (n + 1) - 1 = n /\ s[n + 1] \in S
    OBVIOUS
  <2>2. f[n] \in Seq(S) /\ Len(f[n]) <= n
    BY <1>3, <2>1
  <2>3. f[n + 1] = IF n + 1 \in I THEN Append(f[n], s[n + 1]) ELSE f[n]
    <3>1. f[n + 1] = IF n + 1 \in I THEN Append(f[(n + 1) - 1], s[n + 1]) ELSE f[(n + 1) - 1]
      BY <1>1, <2>1, Zenon DEF PicksTo
    <3> QED BY <2>1, <3>1
  <2>4. CASE n + 1 \in I
    <3>1. Append(f[n], s[n + 1]) \in Seq(S) /\ Len(Append(f[n], s[n + 1])) = Len(f[n]) + 1
      BY <2>1, <2>2
    <3> QED BY <2>2, <2>3, <2>4, <3>1
  <2>5. CASE n + 1 \notin I
    BY <2>2, <2>3, <2>5
  <2> QED BY <2>4, <2>5
<1> HIDE DEF T
<1>4. Len(s) \in T /\ Len(s) \in Nat
  <2>1. Nat \subseteq T
    BY <1>2, <1>3, Inductive
  <2> QED BY <2>1
<1>5. Len(f[Len(s)]) <= Len(s)
  BY <1>4 DEF T
<1> QED BY <1>1, <1>5

-----------------------------------------------------------------------------
(* Pages.                                                                  *)

(* No rows have no bytes.                                                  *)
LEMMA NoBytes == Bytes(<<>>) = 0
<1> DEFINE F(f) == [n \in 0..Len(<<>>) |-> IF n = 0 THEN 0 ELSE f[n - 1] + Size(<<>>[n])]
           c == CHOOSE f : f = F(f)
<1>1. 0..Len(<<>>) = {0}
  OBVIOUS
<1>2. [n \in 0..Len(<<>>) |-> 0] = F([n \in 0..Len(<<>>) |-> 0])
  <2>1. \A n \in 0..Len(<<>>) : n = 0
    BY <1>1
  <2> QED BY <2>1, Zenon
<1>3. c = F(c)
  <2> HIDE DEF F
  <2> QED BY <1>2, Zenon
<1> HIDE DEF c
<1>4. c[0] = 0
  BY <1>1, <1>3
<1>5. Bytes(<<>>) = c[Len(<<>>)]
  BY Zenon DEF Bytes, c
<1> QED BY <1>4, <1>5

(* A page is the newest of the rows left, at least one of them; its cursor *)
(* is the oldest row it shows, unless no older row is left.                *)
LEMMA CollectIs ==
  ASSUME NEW S, NEW older \in Seq(S)
  PROVE  \E n \in 0..Len(older) :
           /\ older # <<>> => n >= 1
           /\ Collect(older) = [shown |-> SubSeq(older, Len(older) - n + 1, Len(older)),
                                before |-> IF n < Len(older) THEN older[Len(older) - n + 1].pos ELSE 0]
<1> DEFINE NewestOf(n) == SubSeq(older, Len(older) - n + 1, Len(older))
           Fits(n) == n <= PageRows /\ n <= Len(older) /\ (n = 1 \/ Bytes(NewestOf(n)) <= PageBytes)
           Most(m) == Fits(m) /\ \A k \in 0..Len(older) : Fits(k) => k <= m
           c == CHOOSE m \in 0..Len(older) : Most(m)
<1>1. PageRows \in Nat \ {0} /\ PageBytes \in Nat \ {0} /\ Len(older) \in Nat
  BY HistoryAssumption
<1>2. Fits(IF older = <<>> THEN 0 ELSE 1) /\ (IF older = <<>> THEN 0 ELSE 1) \in 0..Len(older)
  <2>1. CASE older = <<>>
    <3>1. NewestOf(0) = <<>> /\ Len(older) = 0
      BY <2>1
    <3> HIDE DEF NewestOf
    <3>2. Bytes(NewestOf(0)) = 0
      BY <3>1, NoBytes
    <3> QED BY <1>1, <2>1, <3>1, <3>2
  <2>2. CASE older # <<>>
    <3>1. Len(older) >= 1
      BY <2>2
    <3> HIDE DEF NewestOf
    <3> QED BY <1>1, <2>2, <3>1
  <2> QED BY <2>1, <2>2
<1> HIDE DEF Fits
<1>3. \E m \in 0..Len(older) : Most(m)
  <2> DEFINE G == {Len(older) - k : k \in {k \in 0..Len(older) : Fits(k)}}
  <2>1. G \subseteq Nat /\ G # {}
    BY <1>1, <1>2
  <2>2. PICK x \in G : \A y \in G : x <= y
    <3> HIDE DEF G
    <3> QED BY <2>1, Least
  <2>3. PICK m \in 0..Len(older) : Fits(m) /\ x = Len(older) - m
    BY <2>2
  <2>4. ASSUME NEW k \in 0..Len(older), Fits(k) PROVE k <= m
    <3>1. Len(older) - k \in G
      BY <2>4
    <3> HIDE DEF G
    <3>2. Len(older) - m <= Len(older) - k
      BY <2>2, <2>3, <3>1
    <3> QED BY <1>1, <3>2
  <2> QED BY <2>3, <2>4
<1>4. c \in 0..Len(older) /\ Fits(c) /\ \A k \in 0..Len(older) : Fits(k) => k <= c
  <2> HIDE DEF Most
  <2>1. c \in 0..Len(older) /\ Most(c)
    BY <1>3, Zenon
  <2> HIDE DEF c
  <2> QED BY <2>1 DEF Most
<1>5. Collect(older) = [shown |-> NewestOf(c), before |-> IF c < Len(older) THEN older[Len(older) - c + 1].pos ELSE 0]
  BY Zenon DEF Collect, Fits
<1> HIDE DEF c
<1>6. older # <<>> => c >= 1
  BY <1>2, <1>4
<1> QED BY <1>4, <1>5, <1>6

(* The n newest of a view's first k rows, put before the rest of it.       *)
LEMMA PageGrows ==
  ASSUME NEW S, NEW v \in Seq(S), NEW k \in 0..Len(v), NEW n \in 0..k
  PROVE  LET older == SubSeq(v, 1, k)
         IN /\ older \in Seq(S) /\ Len(older) = k
            /\ SubSeq(older, k - n + 1, k) \o SubSeq(v, k + 1, Len(v)) = SubSeq(v, k - n + 1, Len(v))
            /\ n >= 1 => older[k - n + 1] = v[k - n + 1]
<1> DEFINE older == SubSeq(v, 1, k)
<1>1. k \in Nat /\ n \in Nat /\ n <= k /\ k <= Len(v) /\ Len(v) \in Nat
  OBVIOUS
<1>2. older \in Seq(S) /\ Len(older) = k /\ \A i \in 1..k : older[i] = v[i]
  BY <1>1
<1>3. SubSeq(older, k - n + 1, k) = SubSeq(v, k - n + 1, k)
  <2> DEFINE a == SubSeq(older, k - n + 1, k)
             b == SubSeq(v, k - n + 1, k)
  <2> HIDE DEF older
  <2>1. a \in Seq(S) /\ Len(a) = n /\ \A i \in 1..n : a[i] = older[k - n + i]
    BY <1>1, <1>2
  <2>2. b \in Seq(S) /\ Len(b) = n /\ \A i \in 1..n : b[i] = v[k - n + i]
    BY <1>1
  <2>3. \A i \in 1..n : k - n + i \in 1..k
    BY <1>1
  <2> HIDE DEF a, b
  <2>4. \A i \in 1..n : a[i] = b[i]
    BY <1>2, <2>1, <2>2, <2>3
  <2>5. a = b
    BY <2>1, <2>2, <2>4, SeqEqual
  <2> QED BY <2>5 DEF a, b
<1>4. SubSeq(v, k - n + 1, k) \o SubSeq(v, k + 1, Len(v)) = SubSeq(v, k - n + 1, Len(v))
  <2>1. /\ k - n + 1 \in 1..Len(v) + 1 /\ k \in (k - n + 1) - 1..Len(v) /\ Len(v) \in k..Len(v)
    BY <1>1
  <2> QED BY <2>1, ConcatAdjacentSubSeq
<1>5. n >= 1 => k - n + 1 \in 1..k
  BY <1>1
<1> HIDE DEF older
<1>6. n >= 1 => older[k - n + 1] = v[k - n + 1]
  BY <1>2, <1>5
<1> QED BY <1>2, <1>3, <1>4, <1>6 DEF older
=============================================================================
