----------------------------- MODULE PartsProofs -----------------------------
(***************************************************************************)
(* Proofs about the sign-in, the Integrations' handoffs, the rows of a     *)
(* transcript and the Store's catalog, parts of Admin that meet the others *)
(* only by what they answer (MCParts).                                     *)
(*                                                                         *)
(* SignIn, for any number of requests, codes and restarts: a ticket and a  *)
(* code are used once, what was accepted is in the journal, a ceremony     *)
(* completes only under the factors of its ticket, one password derivation *)
(* runs at a time, every refused factor stays counted, and a session a     *)
(* passkey completed ends with what it stood on.  The record moves one     *)
(* way: what it accepted once is behind it for good, so that requests      *)
(* served at the same time need not know of each other.                    *)
(*                                                                         *)
(* Integrations, for any sessions, challenges, capacity and number of      *)
(* calls.  A handoff leaves the store once: every step leaves a handoff as *)
(* it is, authorizes one that waits, or takes it out for good; and what    *)
(* was given away, a cookie, a completion or a connection, names one that  *)
(* was taken out by its use.                                               *)
(*                                                                         *)
(* Rows, for any events and any size of a row: what a writer shapes the    *)
(* reader admits, though the two are written apart, so that no row kept    *)
(* makes its transcript unreadable; and the ending of a turn is kept.      *)
(*                                                                         *)
(* Catalog, for any answers of the Store, any reads and any bounds.  What  *)
(* a browser has joined is the beginning of one catalog the Store          *)
(* published, because a cursor names its catalog by its digest and a read  *)
(* starts again when it changed; and the icon cache keeps exactly the keys *)
(* it orders, each once, whatever the eviction took.                       *)
(***************************************************************************)
EXTENDS SignIn, Integrations, Rows, Catalog, HistoryProofs, FiniteSetTheorems

-----------------------------------------------------------------------------
(* The sign-in.                                                                            *)
Factor == [status : {"none", "pending", "active"}, seed : Nat, failures : Nat, locked : BOOLEAN,
           expired : BOOLEAN, last : Nat]
Codes == [set : Nat, unused : SUBSET RecoveryCode]
Rec == [password : BOOLEAN, totp : Factor, codes : Codes, gen : Nat, secret : Nat,
        passkey : {"none", "active", "suspended"}, since : Nat, unack : Nat]

(* A record without a password has no recovery set.                                        *)
Recording(r) == r \in Rec /\ (r.password \/ r.codes.set = 0)

(* What follows r never accepts what r would not.                                          *)
Onward(r, next) ==
  /\ next.password
  /\ next.totp.seed > r.totp.seed \/ (next.totp.seed = r.totp.seed /\ next.totp.last >= r.totp.last)
  /\ next.codes.set > r.codes.set \/ (next.codes.set = r.codes.set /\ next.codes.unused \subseteq r.codes.unused)

Outcome == {"accepted", "suspended", "invalid", "locked", "expired", "refused", "changed"}

-----------------------------------------------------------------------------
(* What each transaction answers.                                                          *)
LEMMA RecordFields ==
  ASSUME NEW r \in Rec
  PROVE  /\ r.totp \in Factor /\ r.codes \in Codes /\ r.gen \in Nat /\ r.secret \in Nat
         /\ r.totp.seed \in Nat /\ r.totp.last \in Nat /\ r.totp.failures \in Nat /\ r.codes.set \in Nat
         /\ r.since \in Nat /\ r.unack \in Nat /\ r.password \in BOOLEAN
         /\ r.totp.locked \in BOOLEAN /\ r.totp.expired \in BOOLEAN /\ r.codes.unused \subseteq RecoveryCode
         /\ r.totp.status \in {"none", "pending", "active"}
BY DEF Rec, Factor, Codes

LEMMA HasPassword ==
  ASSUME NEW r, Recording(r), AuthState(r) \in {"enrollment", "recovery", "configured"}
  PROVE  r.password
BY DEF Recording, Rec, AuthState

LEMMA SignedInKeeps ==
  ASSUME NEW r \in Rec
  PROVE  /\ SignedIn(r) \in Rec /\ Refused(r) \in Rec /\ Rotated(r) \in Rec
         /\ \A n \in {"password", "totp", "codes", "gen"} :
              SignedIn(r)[n] = r[n] /\ Refused(r)[n] = r[n] /\ Rotated(r)[n] = r[n]
<1>1. \A n \in Nat : Capped(n) \in Nat
  BY SignInAssumption DEF Capped
<1>2. SignedIn(r) \in Rec
  <2>1. Capped(r.unack + r.since) \in Nat
    BY <1>1, RecordFields
  <2> QED BY <2>1 DEF SignedIn, Rec
<1>3. Refused(r) \in Rec
  BY <1>1, RecordFields DEF Refused, Rec
<1>4. Rotated(r) \in Rec
  BY RecordFields DEF Rotated, Rec
<1> QED BY <1>2, <1>3, <1>4 DEF SignedIn, Refused, Rotated, Rec

LEMMA FailedKeeps ==
  ASSUME NEW t \in Factor
  PROVE  Failed(t) \in Factor /\ Failed(t).seed = t.seed /\ Failed(t).last = t.last /\ Failed(t).locked \in BOOLEAN
<1>1. Failed(t) = [t EXCEPT !.failures = Failed(t).failures, !.locked = Failed(t).locked]
  BY DEF Failed, Factor
<1>2. Failed(t).failures \in Nat /\ Failed(t).locked \in BOOLEAN
  BY SignInAssumption DEF Failed, Factor
<1> QED BY <1>1, <1>2 DEF Factor

(* A code of TOTP: it is accepted when it comes after the last one accepted.               *)
LEMMA Verified ==
  ASSUME NEW t \in Factor, NEW code \in Nat
  PROVE  LET answer == Verify(t, code)
         IN /\ answer = <<answer[1], answer[2]>>
            /\ answer[1] \in {"accepted", "invalid", "locked", "expired"} /\ answer[2] \in Factor
            /\ answer[2].seed = t.seed /\ answer[2].last >= t.last
            /\ answer[1] = "accepted" => answer[2].last = code /\ code > t.last
<1>1. Failed(t) \in Factor /\ Failed(t).seed = t.seed /\ Failed(t).last = t.last /\ Failed(t).locked \in BOOLEAN
  BY FailedKeeps
<1>2. ASSUME NEW fits \in BOOLEAN, fits => code > t.last
      PROVE  LET answer == Tried(t, code, fits)
             IN /\ answer = <<answer[1], answer[2]>>
                /\ answer[1] \in {"accepted", "invalid", "locked", "expired"} /\ answer[2] \in Factor
                /\ answer[2].seed = t.seed /\ answer[2].last >= t.last
                /\ answer[1] = "accepted" => answer[2].last = code /\ code > t.last
  <2>1. CASE t.status = "pending" /\ t.expired
    <3>1. Tried(t, code, fits) = <<"expired", t>>
      BY <2>1 DEF Tried
    <3> QED BY <3>1 DEF Factor
  <2>2. CASE ~(t.status = "pending" /\ t.expired) /\ t.locked
    <3>1. Tried(t, code, fits) = <<"locked", t>>
      BY <2>2 DEF Tried
    <3> QED BY <3>1 DEF Factor
  <2>3. CASE ~(t.status = "pending" /\ t.expired) /\ ~t.locked /\ ~fits
    <3>1. Tried(t, code, fits) = <<IF Failed(t).locked THEN "locked" ELSE "invalid", Failed(t)>>
      BY <2>3 DEF Tried
    <3> QED BY <1>1, <3>1 DEF Factor
  <2>4. CASE ~(t.status = "pending" /\ t.expired) /\ ~t.locked /\ fits
    <3> DEFINE u == [t EXCEPT !.status = "active", !.failures = 0, !.last = code]
    <3>1. Tried(t, code, fits) = <<"accepted", u>>
      BY <2>4 DEF Tried
    <3>2. u \in Factor /\ u.last = code /\ u.seed = t.seed
      BY DEF Factor
    <3>3. code > t.last /\ code >= t.last
      BY <1>2, <2>4 DEF Factor
    <3> HIDE DEF u
    <3> QED BY <3>1, <3>2, <3>3
  <2> QED BY <2>1, <2>2, <2>3, <2>4, <1>2
<1>3. (Matches(code) /\ code > t.last) \in BOOLEAN
  BY DEF Matches, Factor
<1> QED BY <1>2, <1>3 DEF Verify

(* An answer: an outcome, and a record that goes on from r.                                *)
Answers(r, answer) ==
  /\ answer = <<answer[1], answer[2]>> /\ answer[1] \in Outcome
  /\ Recording(answer[2])
  /\ r.password => Onward(r, answer[2])

LEMMA Stays == ASSUME NEW r, Recording(r) PROVE r.password => Onward(r, r)
BY RecordFields DEF Onward, Recording

(* A record that differs in what an acceptance does not look at goes on too.               *)
LEMMA SameFactors ==
  ASSUME NEW r, Recording(r), NEW n \in Rec, n.password = r.password, n.codes = r.codes,
         n.totp.seed = r.totp.seed, n.totp.last >= r.totp.last
  PROVE  Recording(n) /\ (r.password => Onward(r, n))
BY DEF Recording, Onward

LEMMA AttemptDoes ==
  ASSUME NEW r, Recording(r), r.password, NEW code \in Nat,
         NEW ceremony \in {"setup_totp", "recovery_totp", "login_totp", "operation"}
  PROVE  LET answer == Attempt(r, code, ceremony)
         IN /\ Answers(r, answer)
            /\ answer[1] = "accepted" =>
                 code > r.totp.last /\ answer[2].totp.seed = r.totp.seed /\ answer[2].totp.last = code
<1> DEFINE verified == Verify(r.totp, code)
           t == verified[2]
           after == [r EXCEPT !.totp = t]
<1>1. /\ verified = <<verified[1], t>> /\ verified[1] \in {"accepted", "invalid", "locked", "expired"}
      /\ t \in Factor /\ t.seed = r.totp.seed /\ t.last >= r.totp.last
      /\ verified[1] = "accepted" => t.last = code /\ code > r.totp.last
  BY Verified, RecordFields DEF Recording
<1>2. after \in Rec /\ after.totp = t /\ after.password /\ after.codes = r.codes /\ after.gen = r.gen
  BY <1>1 DEF Recording, Rec
<1>3. CASE verified[1] \in {"invalid", "locked"}
  <2>1. Attempt(r, code, ceremony) = <<verified[1], Refused(after)>>
    BY <1>3 DEF Attempt
  <2>2. Refused(after) \in Rec /\ Refused(after).totp = t /\ Refused(after).password /\ Refused(after).codes = r.codes
    BY <1>2, SignedInKeeps
  <2>3. Recording(Refused(after)) /\ Onward(r, Refused(after))
    BY <1>1, <2>2, SameFactors
  <2> HIDE DEF verified, after
  <2> QED BY <1>3, <2>1, <2>3 DEF Answers, Outcome
<1>4. CASE verified[1] = "expired"
  <2>1. Attempt(r, code, ceremony) = <<"expired", r>>
    BY <1>4 DEF Attempt
  <2> QED BY <2>1, Stays DEF Answers, Outcome
<1>5. CASE verified[1] = "accepted" /\ ceremony = "operation"
  <2>1. Attempt(r, code, ceremony) = <<"accepted", after>>
    BY <1>5 DEF Attempt, Enrolls
  <2>2. Recording(after) /\ Onward(r, after)
    BY <1>1, <1>2, SameFactors
  <2> HIDE DEF verified, after
  <2> QED BY <1>1, <1>2, <1>5, <2>1, <2>2 DEF Answers, Outcome
<1>6. CASE verified[1] = "accepted" /\ ceremony = "login_totp"
  <2>1. Attempt(r, code, ceremony) = <<"accepted", SignedIn(after)>>
    BY <1>6 DEF Attempt, Enrolls
  <2>2. SignedIn(after) \in Rec /\ SignedIn(after).totp = t /\ SignedIn(after).password /\ SignedIn(after).codes = r.codes
    BY <1>2, SignedInKeeps
  <2>3. Recording(SignedIn(after)) /\ Onward(r, SignedIn(after))
    BY <1>1, <2>2, SameFactors
  <2> HIDE DEF verified, after
  <2> QED BY <1>1, <1>6, <2>1, <2>2, <2>3 DEF Answers, Outcome
<1>7. CASE verified[1] = "accepted" /\ Enrolls(ceremony)
  <2> DEFINE enrolled == [SignedIn(after) EXCEPT !.codes = NewSet(r), !.gen = @ + 1]
             n == Rotated(enrolled)
  <2>1. Attempt(r, code, ceremony) = <<"accepted", n>>
    BY <1>7 DEF Attempt, Enrolls
  <2>2. SignedIn(after) \in Rec /\ SignedIn(after).totp = t /\ SignedIn(after).password
    BY <1>2, SignedInKeeps
  <2>3. NewSet(r) \in Codes /\ NewSet(r).set = r.codes.set + 1
    BY RecordFields DEF NewSet, Codes, Recording
  <2>4. enrolled \in Rec /\ enrolled.totp = t /\ enrolled.password /\ enrolled.codes = NewSet(r)
    <3> DEFINE m == SignedIn(after)
    <3>1. m \in Rec /\ m.totp = t /\ m.password /\ enrolled = [m EXCEPT !.codes = NewSet(r), !.gen = @ + 1]
      BY <2>2
    <3>2. m.gen + 1 \in Nat
      BY <3>1, RecordFields
    <3> HIDE DEF m, enrolled, t
    <3>3. [m EXCEPT !.codes = NewSet(r), !.gen = m.gen + 1] \in Rec
      BY <2>3, <3>1, <3>2 DEF Rec
    <3> QED BY <2>3, <3>1, <3>3 DEF Rec
  <2>5. n \in Rec /\ n.totp = t /\ n.password /\ n.codes = NewSet(r)
    BY <2>4, SignedInKeeps
  <2>6. Recording(n) /\ Onward(r, n)
    BY <1>1, <2>3, <2>5, RecordFields DEF Recording, Onward
  <2> HIDE DEF verified, after, n
  <2> QED BY <1>1, <1>7, <2>1, <2>5, <2>6 DEF Answers, Outcome
<1> QED BY <1>1, <1>3, <1>4, <1>5, <1>6, <1>7 DEF Enrolls

LEMMA VerifyTotpDoes ==
  ASSUME NEW r, Recording(r), NEW code \in Nat, NEW gen \in Nat,
         NEW ceremony \in {"setup_totp", "recovery_totp", "login_totp", "operation"}
  PROVE  LET answer == VerifyTotp(r, code, ceremony, gen)
         IN /\ Answers(r, answer)
            /\ answer[1] \in {"accepted", "suspended"} => r.gen = gen
            /\ answer[1] = "accepted" =>
                 r.password /\ code > r.totp.last /\ answer[2].totp.seed = r.totp.seed /\ answer[2].totp.last = code
<1>1. CASE AuthState(r) # Requires(ceremony)
  <2>1. VerifyTotp(r, code, ceremony, gen) = <<"refused", r>>
    BY <1>1 DEF VerifyTotp
  <2> QED BY <2>1, Stays DEF Answers, Outcome
<1>2. CASE AuthState(r) = Requires(ceremony) /\ r.gen # gen
  <2>1. VerifyTotp(r, code, ceremony, gen) = <<"changed", r>>
    BY <1>2 DEF VerifyTotp
  <2> QED BY <2>1, Stays DEF Answers, Outcome
<1>3. CASE AuthState(r) = Requires(ceremony) /\ r.gen = gen
  <2>1. VerifyTotp(r, code, ceremony, gen) = Attempt(r, code, ceremony)
    BY <1>3 DEF VerifyTotp
  <2>2. r.password
    BY <1>3, HasPassword DEF Requires
  <2> QED BY <1>3, <2>1, <2>2, AttemptDoes
<1> QED BY <1>1, <1>2, <1>3

(* A recovery code: it is accepted once, while it is unused in the set of now.             *)
LEMMA SpendDoes ==
  ASSUME NEW r, Recording(r), NEW code \in RecoveryCode \cup {None}, NEW set \in Nat, NEW gen \in Nat
  PROVE  LET answer == Spend(r, code, set, gen)
         IN /\ Answers(r, answer)
            /\ answer[1] \in {"accepted", "suspended"} => r.gen = gen
            /\ answer[1] = "accepted" =>
                 /\ r.password /\ set = r.codes.set /\ code \in r.codes.unused
                 /\ answer[2].codes.set = set /\ answer[2].codes.unused = r.codes.unused \ {code}
<1>r. r \in Rec
  BY DEF Recording
<1>f. /\ Failed(r.totp) \in Factor /\ Failed(r.totp).seed = r.totp.seed /\ Failed(r.totp).last = r.totp.last
      /\ Failed(r.totp).locked \in BOOLEAN
  BY <1>r, FailedKeeps, RecordFields
<1>1. CASE AuthState(r) \notin {"configured", "recovery"}
  <2>1. Spend(r, code, set, gen) = <<"refused", r>>
    BY <1>1 DEF Spend
  <2> QED BY <2>1, Stays DEF Answers, Outcome
<1>2. CASE AuthState(r) \in {"configured", "recovery"} /\ (r.gen # gen \/ r.codes.set # set)
  <2>1. Spend(r, code, set, gen) = <<"changed", r>>
    BY <1>2 DEF Spend
  <2> QED BY <2>1, Stays DEF Answers, Outcome
<1> DEFINE open == AuthState(r) \in {"configured", "recovery"} /\ r.gen = gen /\ r.codes.set = set
<1>3. CASE open /\ r.totp.locked
  <2>1. Spend(r, code, set, gen) = <<"locked", Refused(r)>>
    BY <1>3 DEF Spend
  <2>2. Refused(r) \in Rec /\ Refused(r).password = r.password /\ Refused(r).codes = r.codes /\ Refused(r).totp = r.totp
    BY <1>r, SignedInKeeps
  <2>3. Recording(Refused(r)) /\ (r.password => Onward(r, Refused(r)))
    BY <2>2, <1>r, RecordFields, SameFactors
  <2> QED BY <2>1, <2>3 DEF Answers, Outcome
<1>4. CASE open /\ ~r.totp.locked /\ code \notin r.codes.unused
  <2> DEFINE n == [Refused(r) EXCEPT !.totp = Failed(@)]
  <2>1. Spend(r, code, set, gen) = <<IF Failed(r.totp).locked THEN "locked" ELSE "invalid", n>>
    BY <1>4 DEF Spend
  <2>2. Refused(r) \in Rec /\ Refused(r).password = r.password /\ Refused(r).codes = r.codes /\ Refused(r).totp = r.totp
    BY <1>r, SignedInKeeps
  <2>3. n = [Refused(r) EXCEPT !.totp = Failed(r.totp)]
    BY <2>2 DEF Rec
  <2>4. n \in Rec /\ n.password = r.password /\ n.codes = r.codes /\ n.totp = Failed(r.totp)
    BY <1>f, <2>2, <2>3 DEF Rec
  <2> HIDE DEF n
  <2>5. Recording(n) /\ (r.password => Onward(r, n))
    <3>1. n.totp.seed = r.totp.seed /\ n.totp.last >= r.totp.last
      BY <1>f, <2>4, <1>r, RecordFields
    <3> QED BY <2>4, <3>1, SameFactors
  <2> QED BY <1>f, <2>1, <2>5 DEF Answers, Outcome
<1>5. CASE open /\ ~r.totp.locked /\ code \in r.codes.unused
  <2> DEFINE factor == NewTotp(r.totp.seed + 1)
             left == [r.codes EXCEPT !.unused = @ \ {code}]
             m == [r EXCEPT !.codes.unused = @ \ {code}, !.totp = factor, !.gen = gen + 1]
  <2>1. Spend(r, code, set, gen) = <<"accepted", Rotated(m)>>
    BY <1>5 DEF Spend
  <2>2. factor \in Factor /\ factor.seed = r.totp.seed + 1
    <3>1. r.totp.seed + 1 \in Nat
      BY <1>r, RecordFields
    <3> QED BY <3>1 DEF NewTotp, NoTotp, Factor
  <2>3. left \in Codes /\ left.set = r.codes.set /\ left.unused = r.codes.unused \ {code}
    BY <1>r, RecordFields DEF Codes
  <2>4. m = [r EXCEPT !.codes = left, !.totp = factor, !.gen = gen + 1]
    BY <1>r, RecordFields DEF Rec
  <2> HIDE DEF factor, left, m
  <2>5. m \in Rec /\ m.password = r.password /\ m.totp = factor /\ m.codes = left
    <3>1. gen + 1 \in Nat
      OBVIOUS
    <3>2. [r EXCEPT !.codes = left, !.totp = factor, !.gen = gen + 1] \in Rec
      BY <1>r, <2>2, <2>3, <3>1 DEF Rec
    <3> QED BY <1>r, <2>4, <3>2 DEF Rec
  <2>6. /\ Rotated(m) \in Rec /\ Rotated(m).password = r.password /\ Rotated(m).totp = factor
        /\ Rotated(m).codes = left
    BY <2>5, SignedInKeeps
  <2>7. r.password
    BY <1>5, HasPassword
  <2>8. Recording(Rotated(m)) /\ Onward(r, Rotated(m))
    BY <1>r, <2>2, <2>3, <2>6, <2>7, RecordFields DEF Recording, Onward
  <2> QED BY <1>5, <2>1, <2>3, <2>6, <2>7, <2>8 DEF Answers, Outcome
<1> QED BY <1>1, <1>2, <1>3, <1>4, <1>5

LEMMA ReplaceCodesDoes ==
  ASSUME NEW r, Recording(r)
  PROVE  LET answer == ReplaceCodes(r)
         IN Answers(r, answer) /\ (answer[1] = "accepted" => r.password)
<1> DEFINE n == [r EXCEPT !.codes = NewSet(r), !.gen = @ + 1]
<1>1. CASE AuthState(r) # "configured"
  <2>1. ReplaceCodes(r) = <<"refused", r>>
    BY <1>1 DEF ReplaceCodes
  <2> QED BY <2>1, Stays DEF Answers, Outcome
<1>2. CASE AuthState(r) = "configured"
  <2>1. ReplaceCodes(r) = <<"accepted", n>>
    BY <1>2 DEF ReplaceCodes
  <2>2. NewSet(r) \in Codes /\ NewSet(r).set = r.codes.set + 1
    BY RecordFields DEF NewSet, Codes, Recording
  <2>3. r.gen + 1 \in Nat /\ n = [r EXCEPT !.codes = NewSet(r), !.gen = r.gen + 1]
    BY RecordFields DEF Recording
  <2>4. n \in Rec /\ n.totp = r.totp /\ n.codes = NewSet(r) /\ n.password = r.password
    BY <2>2, <2>3 DEF Recording, Rec
  <2>5. r.password
    BY <1>2, HasPassword
  <2> HIDE DEF n
  <2>6. Recording(n) /\ Onward(r, n)
    BY <2>2, <2>4, <2>5, RecordFields DEF Recording, Onward
  <2> QED BY <2>1, <2>5, <2>6 DEF Answers, Outcome
<1> QED BY <1>1, <1>2

LEMMA AddPasskeyDoes ==
  ASSUME NEW r, Recording(r), NEW gen \in Nat
  PROVE  LET answer == AddPasskey(r, gen)
         IN Answers(r, answer) /\ (answer[1] \in {"accepted", "suspended"} => r.password /\ r.gen = gen)
<1> DEFINE m == [r EXCEPT !.passkey = "active", !.gen = gen + 1]
<1>1. CASE AuthState(r) # "configured" \/ r.gen # gen \/ r.passkey = "active"
  <2>1. AddPasskey(r, gen) = <<"refused", r>>
    BY <1>1 DEF AddPasskey
  <2> QED BY <2>1, Stays DEF Answers, Outcome
<1>2. CASE ~(AuthState(r) # "configured" \/ r.gen # gen \/ r.passkey = "active")
  <2>1. AddPasskey(r, gen) = <<"accepted", Rotated(m)>>
    BY <1>2 DEF AddPasskey
  <2>2. m \in Rec /\ m.password = r.password /\ m.totp = r.totp /\ m.codes = r.codes
    <3>1. gen + 1 \in Nat /\ r \in Rec
      BY DEF Recording
    <3>2. m \in Rec
      BY <3>1 DEF Rec
    <3> QED BY <3>1, <3>2 DEF Rec
  <2> HIDE DEF m
  <2>3. /\ Rotated(m) \in Rec /\ Rotated(m).password = r.password /\ Rotated(m).totp = r.totp
        /\ Rotated(m).codes = r.codes
    BY <2>2, SignedInKeeps
  <2>4. Recording(Rotated(m)) /\ (r.password => Onward(r, Rotated(m)))
    BY <2>3, RecordFields, SameFactors DEF Recording
  <2>5. r.password /\ r.gen = gen
    BY <1>2, HasPassword
  <2> QED BY <2>1, <2>4, <2>5 DEF Answers, Outcome
<1> QED BY <1>1, <1>2

LEMMA CommitDoes ==
  ASSUME NEW r, Recording(r), NEW gen \in Nat, NEW regressed \in BOOLEAN, NEW signIn \in BOOLEAN
  PROVE  LET answer == Commit(r, gen, regressed, signIn)
         IN Answers(r, answer) /\ (answer[1] \in {"accepted", "suspended"} => r.password /\ r.gen = gen)
<1> DEFINE m == [r EXCEPT !.passkey = "suspended", !.gen = gen + 1]
<1>1. CASE AuthState(r) # "configured" \/ r.gen # gen \/ r.passkey # "active"
  <2>1. Commit(r, gen, regressed, signIn) = <<"refused", r>>
    BY <1>1 DEF Commit
  <2> QED BY <2>1, Stays DEF Answers, Outcome
<1> DEFINE open == ~(AuthState(r) # "configured" \/ r.gen # gen \/ r.passkey # "active")
<1>2. CASE open /\ regressed
  <2>1. Commit(r, gen, regressed, signIn) = <<"suspended", Rotated(m)>>
    BY <1>2 DEF Commit
  <2>2. m \in Rec /\ m.password = r.password /\ m.totp = r.totp /\ m.codes = r.codes
    <3>1. gen + 1 \in Nat /\ r \in Rec
      BY DEF Recording
    <3>2. m \in Rec
      BY <3>1 DEF Rec
    <3> QED BY <3>1, <3>2 DEF Rec
  <2>3. r.password /\ r.gen = gen
    BY <1>2, HasPassword
  <2> HIDE DEF m
  <2>4. /\ Rotated(m) \in Rec /\ Rotated(m).password = r.password /\ Rotated(m).totp = r.totp
        /\ Rotated(m).codes = r.codes
    BY <2>2, SignedInKeeps
  <2>5. Recording(Rotated(m)) /\ (r.password => Onward(r, Rotated(m)))
    BY <2>4, RecordFields, SameFactors DEF Recording
  <2> QED BY <2>1, <2>3, <2>5 DEF Answers, Outcome
<1>3. CASE open /\ ~regressed
  <2> DEFINE n == IF signIn THEN SignedIn(r) ELSE r
  <2>1. Commit(r, gen, regressed, signIn) = <<"accepted", n>>
    BY <1>3 DEF Commit
  <2>2. n \in Rec /\ n.password = r.password /\ n.totp = r.totp /\ n.codes = r.codes
    BY SignedInKeeps DEF Recording
  <2>3. r.password /\ r.gen = gen
    BY <1>3, HasPassword
  <2> HIDE DEF n
  <2>4. Recording(n) /\ (r.password => Onward(r, n))
    BY <2>2, RecordFields, SameFactors DEF Recording
  <2> QED BY <2>1, <2>3, <2>4 DEF Answers, Outcome
<1> QED BY <1>1, <1>2, <1>3

(* The enrollment, which no acceptance comes before.                                       *)
LEMMA EnrollDoes ==
  ASSUME NEW r, Recording(r)
  PROVE  Answers(r, BeginSetup(r)) /\ Answers(r, Resume(r))
<1>1. Answers(r, BeginSetup(r))
  <2>1. CASE r.password
    BY <2>1, Stays DEF BeginSetup, Answers, Outcome
  <2>2. CASE ~r.password
    <3> DEFINE n == [Fresh EXCEPT !.password = TRUE, !.totp = NewTotp(1), !.gen = 1, !.secret = 1]
    <3>1. BeginSetup(r) = <<"accepted", n>>
      BY <2>2 DEF BeginSetup
    <3>2. n \in Rec /\ n.password
      BY DEF Fresh, NewTotp, NoTotp, Rec, Factor, Codes
    <3> HIDE DEF n
    <3> QED BY <2>2, <3>1, <3>2 DEF Answers, Outcome, Recording
  <2> QED BY <2>1, <2>2
<1>2. Answers(r, Resume(r))
  <2>1. CASE AuthState(r) # "enrollment"
    <3>1. Resume(r) = <<"refused", r>>
      BY <2>1 DEF Resume
    <3> QED BY <3>1, Stays DEF Answers, Outcome
  <2>2. CASE AuthState(r) = "enrollment"
    <3> DEFINE n == [r EXCEPT !.totp.expired = FALSE]
               t == [r.totp EXCEPT !.expired = FALSE]
    <3>1. Resume(r) = <<"accepted", n>>
      BY <2>2 DEF Resume
    <3>2. t \in Factor /\ t.seed = r.totp.seed /\ t.last = r.totp.last
      BY RecordFields DEF Factor, Recording
    <3>3. n = [r EXCEPT !.totp = t]
      OBVIOUS
    <3> HIDE DEF t
    <3>4. n \in Rec /\ n.totp = t /\ n.codes = r.codes /\ n.password = r.password
      BY <3>2, <3>3 DEF Recording, Rec
    <3> HIDE DEF n
    <3>5. Recording(n) /\ (r.password => Onward(r, n))
      BY <3>2, <3>4, RecordFields, SameFactors DEF Recording
    <3> QED BY <3>1, <3>5 DEF Answers, Outcome
  <2> QED BY <2>1, <2>2
<1> QED BY <1>1, <1>2

-----------------------------------------------------------------------------
(* The inductive invariant.                                                                *)

Places == {"idle", "verifier", "deriving", "checked", "enrolled", "generation", "presented", "derived",
           "accepted", "rotated", "confirmed", "replacing", "ended", "secret"}
CeremonyKinds == {"none", "setup", "login", "offer", "register", "setup_totp", "login_totp", "login_passkey",
               "login_recovery", "recovery_totp", "operation", "operation_passkey", "registered", "logout",
               "suspended"}
Req == [at : Places, kind : CeremonyKinds, n : Nat, ticket : Nat, gen : Nat, secret : Nat, mark : Nat]
Issued == [secret : Nat, ticket : Nat, seed : Nat]

Typed ==
  /\ Recording(rec)
  /\ req \in [Request -> Req] /\ received \in Nat /\ tracked \subseteq Nat
  /\ sessions \in Seq(Issued)
  /\ \A t \in tickets : t.id \in Nat /\ t.gen \in Nat
  /\ \A c \in challenges : c.gen \in Nat
  /\ seen = [accepted |-> seen.accepted, uses |-> seen.uses, owed |-> seen.owed, refused |-> seen.refused]
  /\ audit = [failed |-> audit.failed, held |-> audit.held]

(* A number names one request, and as a ticket one holder: it waits, a request presented   *)
(* it, or a session was issued for it.                                                     *)
Apart(rq, tk, ss, top) ==
  /\ \A q \in Request : rq[q].n <= top /\ rq[q].ticket <= top /\ (rq[q].at # "idle" => rq[q].n # 0)
  /\ \A p, q \in Request : p # q /\ rq[p].n = rq[q].n => rq[p].n = 0
  /\ \A p, q \in Request : p # q /\ rq[p].ticket = rq[q].ticket => rq[p].ticket = 0
  /\ \A p, q \in Request : rq[q].n # 0 => rq[p].ticket # rq[q].n
  /\ \A t \in tk : t.id # 0 /\ t.id <= top
  /\ \A t \in tk, q \in Request : rq[q].ticket # t.id /\ rq[q].n # t.id
  /\ \A t, u \in tk : t.id = u.id => t = u
  /\ \A i \in DOMAIN ss : ss[i].ticket <= top
  /\ \A i \in DOMAIN ss : ss[i].ticket # 0 =>
       /\ \A t \in tk : ss[i].ticket # t.id
       /\ \A q \in Request : ss[i].ticket # rq[q].ticket /\ ss[i].ticket # rq[q].n
  /\ \A i, j \in DOMAIN ss : i # j /\ ss[i].ticket # 0 => ss[i].ticket # ss[j].ticket

(* The record has left behind what it accepted.                                            *)
Behind(r, accepted) ==
  /\ ~r.password => accepted = {}
  /\ \A s, k \in Nat : <<"totp", s, k>> \in accepted => s < r.totp.seed \/ (s = r.totp.seed /\ k <= r.totp.last)
  /\ \A s \in Nat, k \in RecoveryCode :
       <<"recovery", s, k>> \in accepted => s < r.codes.set \/ (s = r.codes.set /\ k \notin r.codes.unused)

(* What a request is still to use has not been accepted.                                   *)
Numbered == {"passkey", "registered", "codes"}
Unspent(rq, accepted, top) ==
  /\ \A x \in Numbered, n \in Nat : <<x, n>> \in accepted => n <= top
  /\ \A q \in Request : rq[q].at = "presented" => \A x \in Numbered : <<x, rq[q].n>> \notin accepted
  /\ \A q \in Request : rq[q].at \in {"confirmed", "replacing"} => <<"codes", rq[q].n>> \notin accepted

Counted(s) == IsFiniteSet(s.accepted) /\ s.uses \in Nat /\ Cardinality(s.accepted) = s.uses

IInv ==
  /\ Typed
  /\ Apart(req, tickets, sessions, received)
  /\ Behind(rec, seen.accepted)
  /\ Unspent(req, seen.accepted, received)
  /\ Counted(seen)
  /\ Journaled

-----------------------------------------------------------------------------
(* A request goes on.                                                                      *)

Forward(r, next) ==
  \/ next = Idle
  \/ /\ r.at # "idle"
     /\ next.n = r.n /\ next.ticket = r.ticket
     /\ next.at = "presented" => r.at = "presented"
     /\ next.at \in {"confirmed", "replacing"} => r.at \in {"presented", "confirmed", "replacing"}

(* A request comes in: under a new number, with a ticket nobody has any more.              *)
Enters(next, tk) ==
  \/ next = Idle
  \/ /\ next.n = received + 1 /\ next.at \notin {"confirmed", "replacing"}
     /\ next.ticket = 0 \/ \E t \in tickets \ tk : next.ticket = t.id

LEMMA IdleRequest == Idle \in Req /\ Idle.n = 0 /\ Idle.ticket = 0 /\ Idle.at = "idle"
BY DEF Idle, Req, Places, CeremonyKinds

LEMMA OneRequest ==
  ASSUME req \in [Request -> Req], NEW q \in Request, NEW r
  PROVE  \A p \in Request : [req EXCEPT ![q] = r][p] = IF p = q THEN r ELSE req[p]
OBVIOUS

(* What is typed, field by field.                                                          *)
LEMMA TypedFields ==
  ASSUME Typed
  PROVE  /\ received \in Nat
         /\ \A p \in Request : req[p].n \in Nat /\ req[p].ticket \in Nat /\ req[p].gen \in Nat /\ req[p].mark \in Nat
         /\ \A t \in tickets : t.id \in Nat
         /\ \A i \in DOMAIN sessions : sessions[i].ticket \in Nat
         /\ DOMAIN sessions = 1..Len(sessions) /\ Len(sessions) \in Nat
<1>1. received \in Nat /\ \A t \in tickets : t.id \in Nat
  BY DEF Typed
<1>2. \A p \in Request : req[p].n \in Nat /\ req[p].ticket \in Nat /\ req[p].gen \in Nat /\ req[p].mark \in Nat
  BY DEF Typed, Req
<1>3. sessions \in Seq(Issued)
  BY DEF Typed
<1>4. DOMAIN sessions = 1..Len(sessions) /\ Len(sessions) \in Nat
  BY <1>3, LenProperties
<1>5. \A i \in DOMAIN sessions : sessions[i] \in Issued
  BY <1>3, <1>4, ElementOfSeq
<1>6. \A i \in DOMAIN sessions : sessions[i].ticket \in Nat
  BY <1>5 DEF Issued
<1> QED BY <1>1, <1>2, <1>4, <1>6

(* Requests that ended, and tickets that are gone, leave the others apart.                 *)
LEMMA FewerApart ==
  ASSUME Typed, Apart(req, tickets, sessions, received), NEW rq, NEW tk \in SUBSET tickets,
         NEW top \in Nat, received <= top,
         \A p \in Request : /\ rq[p].n \in {0, req[p].n} /\ rq[p].ticket \in {0, req[p].ticket}
                            /\ rq[p].at # "idle" => rq[p].n = req[p].n /\ req[p].at # "idle"
  PROVE  Apart(rq, tk, sessions, top)
<1>0. /\ \A p \in Request : req[p].n \in Nat /\ req[p].ticket \in Nat
      /\ received \in Nat /\ \A t \in tickets : t.id \in Nat
      /\ \A i \in DOMAIN sessions : sessions[i].ticket \in Nat
  BY TypedFields
<1>1. \A p \in Request : rq[p].n <= top /\ rq[p].ticket <= top /\ (rq[p].at # "idle" => rq[p].n # 0)
  BY <1>0 DEF Apart
<1>2. \A p, o \in Request : o # p /\ rq[p].n = rq[o].n => rq[p].n = 0
  BY DEF Apart
<1>3. \A p, o \in Request : o # p /\ rq[p].ticket = rq[o].ticket => rq[p].ticket = 0
  BY DEF Apart
<1>4. \A p, o \in Request : rq[o].n # 0 => rq[p].ticket # rq[o].n
  BY DEF Apart
<1>5. \A t \in tk : t.id # 0 /\ t.id <= top
  BY <1>0 DEF Apart
<1>6. \A t \in tk, o \in Request : rq[o].ticket # t.id /\ rq[o].n # t.id
  BY DEF Apart
<1>7. \A t, u \in tk : t.id = u.id => t = u
  BY DEF Apart
<1>8. \A i \in DOMAIN sessions : sessions[i].ticket <= top
  BY <1>0 DEF Apart
<1>9. \A i \in DOMAIN sessions : sessions[i].ticket # 0 =>
        /\ \A t \in tk : sessions[i].ticket # t.id
        /\ \A o \in Request : sessions[i].ticket # rq[o].ticket /\ sessions[i].ticket # rq[o].n
  BY DEF Apart
<1>10. \A i, j \in DOMAIN sessions : i # j /\ sessions[i].ticket # 0 => sessions[i].ticket # sessions[j].ticket
  BY DEF Apart
<1> QED BY <1>1, <1>2, <1>3, <1>4, <1>5, <1>6, <1>7, <1>8, <1>9, <1>10 DEF Apart

LEMMA ForwardApart ==
  ASSUME Typed, Apart(req, tickets, sessions, received), NEW q \in Request, NEW r \in Req,
         Forward(req[q], r), NEW tk \in SUBSET tickets
  PROVE  Apart([req EXCEPT ![q] = r], tk, sessions, received)
<1> DEFINE rq == [req EXCEPT ![q] = r]
<1>1. \A p \in Request : rq[p] = IF p = q THEN r ELSE req[p]
  BY OneRequest DEF Typed
<1>2. /\ r.n \in {0, req[q].n} /\ r.ticket \in {0, req[q].ticket}
      /\ r.at # "idle" => r.n = req[q].n /\ req[q].at # "idle"
  BY IdleRequest DEF Forward
<1>3. \A p \in Request : /\ rq[p].n \in {0, req[p].n} /\ rq[p].ticket \in {0, req[p].ticket}
                         /\ rq[p].at # "idle" => rq[p].n = req[p].n /\ req[p].at # "idle"
  BY <1>1, <1>2
<1>4. received \in Nat /\ received <= received
  BY TypedFields
<1> HIDE DEF rq
<1>5. Apart(rq, tk, sessions, received)
  BY <1>3, <1>4, FewerApart
<1> QED BY <1>5 DEF rq

LEMMA ForwardUnspent ==
  ASSUME Typed, Unspent(req, seen.accepted, received), NEW q \in Request, NEW r \in Req, Forward(req[q], r)
  PROVE  Unspent([req EXCEPT ![q] = r], seen.accepted, received)
<1>1. \A p \in Request : [req EXCEPT ![q] = r][p] = IF p = q THEN r ELSE req[p]
  BY OneRequest DEF Typed
<1>2. /\ r.at = "presented" => req[q].at = "presented" /\ r.n = req[q].n
      /\ r.at \in {"confirmed", "replacing"} => req[q].at \in {"presented", "confirmed", "replacing"} /\ r.n = req[q].n
  BY IdleRequest DEF Forward
<1>3. /\ r.at = "presented" => \A x \in Numbered : <<x, r.n>> \notin seen.accepted
      /\ r.at \in {"confirmed", "replacing"} => <<"codes", r.n>> \notin seen.accepted
  BY <1>2 DEF Unspent, Numbered
<1> HIDE DEF Numbered
<1>4. \A p \in Request \ {q} :
        /\ req[p].at = "presented" => \A x \in Numbered : <<x, req[p].n>> \notin seen.accepted
        /\ req[p].at \in {"confirmed", "replacing"} => <<"codes", req[p].n>> \notin seen.accepted
  BY DEF Unspent
<1>5. \A x \in Numbered, n \in Nat : <<x, n>> \in seen.accepted => n <= received
  BY DEF Unspent
<1> QED BY <1>1, <1>3, <1>4, <1>5 DEF Unspent

LEMMA EntersApart ==
  ASSUME Typed, Apart(req, tickets, sessions, received), NEW q \in Request, NEW r \in Req,
         NEW tk \in SUBSET tickets, Enters(r, tk)
  PROVE  Apart([req EXCEPT ![q] = r], tk, sessions, received + 1)
<1> DEFINE rq == [req EXCEPT ![q] = r]
<1>1. \A p \in Request : rq[p] = IF p = q THEN r ELSE req[p]
  BY OneRequest DEF Typed
<1>2. /\ \A p \in Request : req[p].n \in Nat /\ req[p].ticket \in Nat
      /\ received \in Nat /\ \A t \in tickets : t.id \in Nat
      /\ \A i \in DOMAIN sessions : sessions[i].ticket \in Nat
  BY TypedFields
<1>5. CASE r = Idle
  <2>1. \A p \in Request : /\ rq[p].n \in {0, req[p].n} /\ rq[p].ticket \in {0, req[p].ticket}
                           /\ rq[p].at # "idle" => rq[p].n = req[p].n /\ req[p].at # "idle"
    BY <1>1, <1>5, IdleRequest
  <2>2. received + 1 \in Nat /\ received <= received + 1
    BY <1>2
  <2> HIDE DEF rq
  <2>3. Apart(rq, tk, sessions, received + 1)
    BY <2>1, <2>2, FewerApart
  <2> QED BY <2>3 DEF rq
<1>6. CASE r.n = received + 1 /\ (r.ticket = 0 \/ \E t \in tickets \ tk : r.ticket = t.id)
  <2> DEFINE top == received + 1
  <2>0. top \in Nat /\ received < top /\ top # 0
    BY <1>2
  <2>1. /\ \A p \in Request \ {q} : rq[p] = req[p]
        /\ rq[q].n = top /\ rq[q].ticket = r.ticket
    BY <1>1, <1>6
  <2>2. r.ticket \in Nat
    BY DEF Req
  <2>3. r.ticket = 0 \/ (/\ r.ticket # 0 /\ r.ticket <= received
                         /\ \A t \in tk : t.id # r.ticket
                         /\ \A p \in Request : req[p].ticket # r.ticket /\ req[p].n # r.ticket
                         /\ \A i \in DOMAIN sessions : sessions[i].ticket # r.ticket)
    BY <1>2, <1>6 DEF Apart
  <2> HIDE DEF rq, top
  <2>n. /\ \A p \in Request : req[p].n < top /\ req[p].ticket < top
        /\ \A t \in tickets : t.id < top
        /\ \A i \in DOMAIN sessions : sessions[i].ticket < top
        /\ r.ticket < top
    BY <1>2, <2>0, <2>2, <2>3 DEF Apart
  <2>4. \A p \in Request : rq[p].n <= top /\ rq[p].ticket <= top /\ (rq[p].at # "idle" => rq[p].n # 0)
    BY <1>2, <2>0, <2>1, <2>2, <2>n DEF Apart
  <2>5. \A p, o \in Request : o # p /\ rq[p].n = rq[o].n => rq[p].n = 0
    BY <1>2, <2>0, <2>1, <2>n DEF Apart
  <2>6. \A p, o \in Request : o # p /\ rq[p].ticket = rq[o].ticket => rq[p].ticket = 0
    BY <2>1, <2>3 DEF Apart
  <2>7. \A p, o \in Request : rq[o].n # 0 => rq[p].ticket # rq[o].n
    BY <1>2, <2>0, <2>1, <2>2, <2>3, <2>n DEF Apart
  <2>8. \A t \in tk : t.id # 0 /\ t.id <= top
    BY <1>2, <2>0, <2>n DEF Apart
  <2>9. \A t \in tk, o \in Request : rq[o].ticket # t.id /\ rq[o].n # t.id
    <3>1. \A t \in tk : t.id # 0 /\ t.id < top /\ t.id \in Nat /\ t.id # r.ticket
      BY <1>2, <2>3, <2>8, <2>n
    <3> QED BY <2>0, <2>1, <3>1 DEF Apart
  <2>10. \A t, u \in tk : t.id = u.id => t = u
    BY DEF Apart
  <2>11. \A i \in DOMAIN sessions : sessions[i].ticket <= top
    BY <1>2, <2>0, <2>n
  <2>12. \A i \in DOMAIN sessions : sessions[i].ticket # 0 =>
           /\ \A t \in tk : sessions[i].ticket # t.id
           /\ \A o \in Request : sessions[i].ticket # rq[o].ticket /\ sessions[i].ticket # rq[o].n
    <3>1. \A i \in DOMAIN sessions : sessions[i].ticket # 0 => sessions[i].ticket # r.ticket /\ sessions[i].ticket # top
      BY <1>2, <2>0, <2>3, <2>n
    <3> QED BY <2>1, <3>1 DEF Apart
  <2>13. \A i, j \in DOMAIN sessions : i # j /\ sessions[i].ticket # 0 => sessions[i].ticket # sessions[j].ticket
    BY DEF Apart
  <2>14. Apart(rq, tk, sessions, top)
    BY ONLY <2>4, <2>5, <2>6, <2>7, <2>8, <2>9, <2>10, <2>11, <2>12, <2>13 DEF Apart
  <2> QED BY <2>14 DEF rq, top
<1> QED BY <1>5, <1>6 DEF Enters

LEMMA EntersUnspent ==
  ASSUME Typed, Unspent(req, seen.accepted, received), NEW q \in Request, NEW r \in Req, NEW tk, Enters(r, tk)
  PROVE  Unspent([req EXCEPT ![q] = r], seen.accepted, received + 1)
<1>1. \A p \in Request : [req EXCEPT ![q] = r][p] = IF p = q THEN r ELSE req[p]
  BY OneRequest DEF Typed
<1>2. received \in Nat /\ (r.at = "presented" => r.n = received + 1) /\ r.at \notin {"confirmed", "replacing"}
  BY IdleRequest DEF Enters, Typed
<1>3. \A x \in Numbered : <<x, received + 1>> \notin seen.accepted
  BY <1>2 DEF Unspent
<1> QED BY <1>1, <1>2, <1>3 DEF Unspent, Numbered

LEMMA OnwardBehind ==
  ASSUME NEW r, Recording(r), NEW next, Recording(next), r.password => Onward(r, next), NEW accepted, Behind(r, accepted)
  PROVE  Behind(next, accepted)
<1>1. CASE ~r.password
  BY <1>1 DEF Behind
<1>2. CASE r.password
  <2>1. /\ r.totp.seed \in Nat /\ r.totp.last \in Nat /\ r.codes.set \in Nat
        /\ next.totp.seed \in Nat /\ next.totp.last \in Nat /\ next.codes.set \in Nat
    BY RecordFields DEF Recording
  <2> QED BY <1>2, <2>1 DEF Behind, Onward
<1> QED BY <1>1, <1>2

-----------------------------------------------------------------------------
(* The steps.                                                                              *)

(* What every step that accepts nothing and issues nothing leaves as it is.                *)
Quiet ==
  /\ seen'.accepted = seen.accepted /\ seen'.uses = seen.uses
  /\ seen' = [accepted |-> seen'.accepted, uses |-> seen'.uses, owed |-> seen'.owed, refused |-> seen'.refused]
  /\ audit.held \subseteq audit'.held /\ sessions' = sessions
  /\ audit' = [failed |-> audit'.failed, held |-> audit'.held]
  /\ Recording(rec') /\ (rec.password => Onward(rec, rec'))
  /\ tracked' \subseteq Nat /\ \A c \in challenges' : c.gen \in Nat

LEMMA QuietKeeps ==
  ASSUME IInv, Quiet, req' \in [Request -> Req], received' \in Nat, tickets' \subseteq tickets,
         Apart(req', tickets', sessions, received'), Unspent(req', seen.accepted, received')
  PROVE  IInv'
<1>1. Typed'
  BY DEF IInv, Typed, Quiet
<1>2. Apart(req, tickets, sessions, received)'
  BY DEF Quiet
<1>3. Behind(rec, seen.accepted)'
  <2>1. Recording(rec) /\ Recording(rec') /\ Behind(rec, seen.accepted) /\ (rec.password => Onward(rec, rec'))
    BY DEF IInv, Typed, Quiet
  <2>2. Behind(rec', seen.accepted)
    BY ONLY <2>1, OnwardBehind
  <2> QED BY <2>2 DEF Quiet
<1>4. Unspent(req, seen.accepted, received)'
  BY DEF Quiet
<1>5. Counted(seen)'
  BY DEF IInv, Counted, Quiet
<1>6. Journaled'
  BY DEF IInv, Journaled, Quiet
<1> QED BY <1>1, <1>2, <1>3, <1>4, <1>5, <1>6 DEF IInv

(* A request goes on, or ends.                                                             *)
LEMMA Moves ==
  ASSUME IInv, Quiet, NEW q \in Request, NEW r \in Req, Forward(req[q], r),
         req' = [req EXCEPT ![q] = r], received' = received, tickets' \subseteq tickets
  PROVE  IInv'
<1>1. Typed /\ Apart(req, tickets, sessions, received) /\ Unspent(req, seen.accepted, received)
  BY DEF IInv
<1>2. Apart([req EXCEPT ![q] = r], tickets', sessions, received)
  BY <1>1, ForwardApart
<1>3. Unspent([req EXCEPT ![q] = r], seen.accepted, received)
  BY <1>1, ForwardUnspent
<1>4. req' \in [Request -> Req] /\ received' \in Nat
  BY <1>1 DEF Typed
<1> QED BY <1>2, <1>3, <1>4, QuietKeeps

(* A request comes in.                                                                     *)
LEMMA Comes ==
  ASSUME IInv, Quiet, NEW q \in Request, NEW r \in Req, tickets' \subseteq tickets, Enters(r, tickets'),
         req' = [req EXCEPT ![q] = r], received' = received + 1
  PROVE  IInv'
<1>1. Typed /\ Apart(req, tickets, sessions, received) /\ Unspent(req, seen.accepted, received)
  BY DEF IInv
<1>2. Apart([req EXCEPT ![q] = r], tickets', sessions, received + 1)
  BY <1>1, EntersApart
<1>3. Unspent([req EXCEPT ![q] = r], seen.accepted, received + 1)
  BY <1>1, EntersUnspent
<1>4. req' \in [Request -> Req] /\ received' \in Nat
  BY <1>1 DEF Typed
<1> QED BY <1>2, <1>3, <1>4, QuietKeeps

(* The code is one the record did not accept yet, and what follows the record leaves it    *)
(* behind.                                                                                 *)
Fits(q, code, next) ==
  /\ rec.password
  /\ \/ \E k \in Nat : /\ code = <<"totp", rec.totp.seed, k>> /\ k > rec.totp.last
                       /\ next.totp.seed = rec.totp.seed /\ next.totp.last = k
     \/ \E c \in rec.codes.unused : /\ code = <<"recovery", rec.codes.set, c>>
                                   /\ next.codes.set = rec.codes.set /\ next.codes.unused = rec.codes.unused \ {c}
     \/ \E x \in Numbered : /\ code = <<x, req[q].n>>
                           /\ req[q].at = IF x = "codes" THEN "replacing" ELSE "presented"

LEMMA FitsNew ==
  ASSUME IInv, NEW q \in Request, NEW code, NEW next, Fits(q, code, next)
  PROVE  code \notin seen.accepted
<1>1. /\ rec.totp.seed \in Nat /\ rec.totp.last \in Nat /\ rec.codes.set \in Nat /\ rec.codes.unused \subseteq RecoveryCode
      /\ Behind(rec, seen.accepted) /\ Unspent(req, seen.accepted, received)
  BY RecordFields DEF IInv, Typed, Recording
<1>2. ASSUME NEW k \in Nat, k > rec.totp.last
      PROVE  <<"totp", rec.totp.seed, k>> \notin seen.accepted
  BY <1>1, <1>2 DEF Behind
<1>3. ASSUME NEW c \in rec.codes.unused
      PROVE  <<"recovery", rec.codes.set, c>> \notin seen.accepted
  BY <1>1 DEF Behind
<1>4. ASSUME NEW x \in Numbered, req[q].at = IF x = "codes" THEN "replacing" ELSE "presented"
      PROVE  <<x, req[q].n>> \notin seen.accepted
  BY <1>1, <1>4 DEF Unspent, Numbered
<1> QED BY <1>2, <1>3, <1>4 DEF Fits

LEMMA FitsBehind ==
  ASSUME IInv, NEW q \in Request, NEW code, NEW next, Recording(next), Onward(rec, next), Fits(q, code, next)
  PROVE  Behind(next, seen.accepted \cup {code})
<1>1. Recording(rec) /\ Behind(rec, seen.accepted)
  BY DEF IInv, Typed
<1>2. Behind(next, seen.accepted)
  BY <1>1, OnwardBehind
<1>3. next.password /\ next.totp.seed \in Nat /\ next.totp.last \in Nat /\ next.codes.set \in Nat
  BY RecordFields DEF Onward, Recording
<1>4. \A t, k \in Nat : code = <<"totp", t, k>> => t = next.totp.seed /\ k <= next.totp.last
  BY <1>3 DEF Fits, Numbered
<1>5. \A t \in Nat, k \in RecoveryCode : code = <<"recovery", t, k>> => t = next.codes.set /\ k \notin next.codes.unused
  BY <1>3 DEF Fits, Numbered
<1> QED BY <1>2, <1>3, <1>4, <1>5 DEF Behind

LEMMA FitsUnspent ==
  ASSUME IInv, NEW q \in Request, req[q].at # "idle", NEW code, NEW next, Fits(q, code, next),
         NEW r \in Req, Forward(req[q], r), r.at # "presented",
         r.at \in {"confirmed", "replacing"} => req[q].at = "presented"
  PROVE  Unspent([req EXCEPT ![q] = r], seen.accepted \cup {code}, received)
<1> DEFINE rq == [req EXCEPT ![q] = r]
<1>1. \A p \in Request : rq[p] = IF p = q THEN r ELSE req[p]
  BY OneRequest DEF IInv, Typed
<1>2. Unspent(rq, seen.accepted, received)
  BY ForwardUnspent DEF IInv
<1>3. /\ req[q].n <= received /\ req[q].n # 0
      /\ \A p \in Request : p # q => req[p].n # req[q].n
  BY DEF IInv, Apart
<1>4. r.at \in {"confirmed", "replacing"} => code # <<"codes", r.n>>
  BY DEF Fits, Numbered
<1>5. \A x \in Numbered : \A n : code = <<x, n>> => n = req[q].n
  BY DEF Fits, Numbered
<1> HIDE DEF rq, Numbered
<1>6. \A x \in Numbered, n \in Nat : <<x, n>> \in seen.accepted \cup {code} => n <= received
  BY <1>2, <1>3, <1>5 DEF Unspent
<1>7. \A p \in Request : rq[p].at = "presented" => \A x \in Numbered : <<x, rq[p].n>> \notin seen.accepted \cup {code}
  BY <1>1, <1>2, <1>3, <1>5 DEF Unspent
<1>8. "codes" \in Numbered
  BY DEF Numbered
<1>9. \A p \in Request : rq[p].at \in {"confirmed", "replacing"} => <<"codes", rq[p].n>> \notin seen.accepted \cup {code}
  BY <1>1, <1>2, <1>3, <1>4, <1>5, <1>8 DEF Unspent
<1>10. Unspent(rq, seen.accepted \cup {code}, received)
  BY <1>6, <1>7, <1>9 DEF Unspent
<1> QED BY <1>10 DEF rq

LEMMA AnsweredGoes ==
  ASSUME NEW r \in Req, r.at # "idle", NEW answer, Recording(answer[2])
  PROVE  LET next == Answered(r, answer)
         IN /\ next \in Req /\ Forward(r, next) /\ next.at # "presented"
            /\ next.at \in {"confirmed", "replacing"} => r.at = "presented"
<1>1. answer[2].secret \in Nat /\ answer[2].totp.seed \in Nat
  BY RecordFields DEF Recording
<1>2. Answered(r, answer) \in
        {[r EXCEPT !.at = at] : at \in {"accepted", "rotated", "ended", "generation"} \cup {x \in {"confirmed"} : r.at = "presented"}}
        \cup {[r EXCEPT !.at = at, !.secret = answer[2].secret, !.mark = answer[2].totp.seed] : at \in {"rotated", "secret"}}
        \cup {[r EXCEPT !.at = "rotated", !.kind = "suspended"], Idle}
  BY DEF Answered
<1>3. ASSUME NEW at \in {"accepted", "rotated", "ended", "generation"} \cup {x \in {"confirmed"} : r.at = "presented"}
      PROVE  LET next == [r EXCEPT !.at = at]
             IN /\ next \in Req /\ Forward(r, next) /\ next.at # "presented"
                /\ next.at \in {"confirmed", "replacing"} => r.at = "presented"
  BY DEF Req, Places, Forward
<1>4. ASSUME NEW at \in {"rotated", "secret"}
      PROVE  LET next == [r EXCEPT !.at = at, !.secret = answer[2].secret, !.mark = answer[2].totp.seed]
             IN /\ next \in Req /\ Forward(r, next) /\ next.at # "presented"
                /\ next.at \in {"confirmed", "replacing"} => r.at = "presented"
  BY <1>1 DEF Req, Places, Forward
<1>5. LET next == [r EXCEPT !.at = "rotated", !.kind = "suspended"]
      IN /\ next \in Req /\ Forward(r, next) /\ next.at # "presented"
         /\ next.at \in {"confirmed", "replacing"} => r.at = "presented"
  BY DEF Req, Places, CeremonyKinds, Forward
<1>6. Idle \in Req /\ Forward(r, Idle) /\ Idle.at = "idle"
  BY IdleRequest DEF Forward
<1> QED BY <1>2, <1>3, <1>4, <1>5, <1>6

(* A transaction of a request: its journal entry and its write, either of which may fail.  *)
LEMMA Mutated ==
  ASSUME IInv, NEW q \in Request, req[q].at # "idle", NEW answer, Answers(rec, answer), NEW code,
         answer[1] = "accepted" => rec.password /\ Fits(q, code, answer[2]),
         Mutate(q, answer, code), Unmoved
  PROVE  IInv'
<1>0. /\ Typed /\ req[q] \in Req /\ Recording(rec) /\ Recording(answer[2]) /\ (rec.password => Onward(rec, answer[2]))
      /\ tickets' = tickets /\ challenges' = challenges /\ sessions' = sessions /\ tracked' = tracked /\ received' = received
  BY DEF IInv, Typed, Answers, Unmoved, memory, outside
<1>1. PICK refused, written : Recorded(q, answer, code, refused, written) /\ (written => ~refused)
  BY DEF Mutate
<1> DEFINE r == Answered(req[q], answer)
<1>2. /\ r \in Req /\ Forward(req[q], r) /\ r.at # "presented"
      /\ r.at \in {"confirmed", "replacing"} => req[q].at = "presented"
  BY <1>0, AnsweredGoes
<1> HIDE DEF r
<1>3. /\ req' = [req EXCEPT ![q] = IF written THEN r ELSE Idle]
      /\ rec' = IF written THEN answer[2] ELSE rec
      /\ audit'.held = IF answer[1] = "accepted" /\ ~refused THEN audit.held \cup {code} ELSE audit.held
      /\ seen'.accepted = IF written /\ answer[1] = "accepted" THEN seen.accepted \cup {code} ELSE seen.accepted
      /\ seen'.uses = IF written /\ answer[1] = "accepted" THEN seen.uses + 1 ELSE seen.uses
      /\ seen' = [accepted |-> seen'.accepted, uses |-> seen'.uses, owed |-> seen'.owed, refused |-> seen'.refused]
      /\ audit' = [failed |-> audit'.failed, held |-> audit'.held]
  BY <1>1 DEF Recorded, Go, r
<1>4. CASE ~written
  <2>1. Quiet
    BY <1>0, <1>3, <1>4, Stays DEF Quiet, Typed
  <2>2. Idle \in Req /\ Forward(req[q], Idle)
    BY IdleRequest DEF Forward
  <2> QED BY <1>0, <1>3, <1>4, <2>1, <2>2, Moves
<1>5. CASE written /\ answer[1] # "accepted"
  <2>1. Quiet
    BY <1>0, <1>3, <1>5 DEF Quiet, Typed
  <2> QED BY <1>0, <1>2, <1>3, <1>5, <2>1, Moves
<1>6. CASE written /\ answer[1] = "accepted"
  <2>0. /\ rec' = answer[2] /\ req' = [req EXCEPT ![q] = r] /\ seen'.accepted = seen.accepted \cup {code}
        /\ seen'.uses = seen.uses + 1 /\ audit'.held = audit.held \cup {code}
        /\ Fits(q, code, answer[2]) /\ Onward(rec, answer[2])
    BY <1>0, <1>1, <1>3, <1>6
  <2>1. Typed'
    <3>1. req' \in [Request -> Req]
      BY <1>0, <1>2, <2>0 DEF Typed
    <3> QED BY <1>0, <1>3, <2>0, <3>1 DEF Typed
  <2>2. Apart(req, tickets, sessions, received)'
    <3>1. Apart([req EXCEPT ![q] = r], tickets, sessions, received)
      BY <1>0, <1>2, ForwardApart DEF IInv
    <3> QED BY <1>0, <2>0, <3>1
  <2>3. Behind(rec, seen.accepted)'
    <3>1. Behind(answer[2], seen.accepted \cup {code})
      BY <1>0, <2>0, FitsBehind
    <3> QED BY <2>0, <3>1
  <2>4. Unspent(req, seen.accepted, received)'
    <3>1. Unspent([req EXCEPT ![q] = r], seen.accepted \cup {code}, received)
      BY <1>2, <2>0, FitsUnspent
    <3> QED BY <1>0, <2>0, <3>1
  <2>5. Counted(seen)'
    <3>1. code \notin seen.accepted
      BY <2>0, FitsNew
    <3>2. IsFiniteSet(seen.accepted) /\ seen.uses \in Nat /\ Cardinality(seen.accepted) = seen.uses
      BY DEF IInv, Counted
    <3>3. IsFiniteSet(seen.accepted \cup {code}) /\ Cardinality(seen.accepted \cup {code}) = Cardinality(seen.accepted) + 1
      BY <3>1, <3>2, FS_AddElement
    <3> QED BY <2>0, <3>2, <3>3 DEF Counted
  <2>6. Journaled'
    BY <2>0 DEF IInv, Journaled
  <2> QED BY <2>1, <2>2, <2>3, <2>4, <2>5, <2>6 DEF IInv
<1> QED BY <1>4, <1>5, <1>6

(* A ticket is issued under the number of its request, which ends.                         *)
LEMMA TicketApart ==
  ASSUME Typed, Apart(req, tickets, sessions, received), NEW q \in Request, req[q].at # "idle",
         NEW t, t.id = req[q].n
  PROVE  Apart([req EXCEPT ![q] = Idle], tickets \cup {t}, sessions, received)
<1> DEFINE rq == [req EXCEPT ![q] = Idle]
           tk == tickets \cup {t}
           n == req[q].n
<1>0. \A p \in Request : rq[p] = IF p = q THEN Idle ELSE req[p]
  BY OneRequest, IdleRequest DEF Typed
<1>1. Apart(rq, tickets, sessions, received)
  <2>1. Forward(req[q], Idle) /\ Idle \in Req
    BY IdleRequest DEF Forward
  <2> QED BY <2>1, ForwardApart
<1>2. /\ n # 0 /\ n <= received
      /\ \A p \in Request : p # q => req[p].n # n
      /\ \A p \in Request : req[p].ticket # n
      /\ \A u \in tickets : u.id # n
      /\ \A i \in DOMAIN sessions : sessions[i].ticket # n
  BY DEF Apart
<1>3. \A p \in Request : rq[p].n # n /\ rq[p].ticket # n
  BY <1>0, <1>2, IdleRequest
<1> HIDE DEF rq, n
<1>4. \A u \in tk : u.id # 0 /\ u.id <= received
  BY <1>1, <1>2 DEF Apart, n
<1>5. \A u \in tk, o \in Request : rq[o].ticket # u.id /\ rq[o].n # u.id
  BY <1>1, <1>3 DEF Apart, n
<1>6. \A u, v \in tk : u.id = v.id => u = v
  BY <1>1, <1>2 DEF Apart, n
<1>7. \A i \in DOMAIN sessions : sessions[i].ticket # 0 =>
        /\ \A u \in tk : sessions[i].ticket # u.id
        /\ \A o \in Request : sessions[i].ticket # rq[o].ticket /\ sessions[i].ticket # rq[o].n
  BY <1>1, <1>2 DEF Apart, n
<1> HIDE DEF tk
<1>8. Apart(rq, tk, sessions, received)
  BY <1>1, <1>4, <1>5, <1>6, <1>7 DEF Apart
<1> QED BY <1>8 DEF rq, tk

(* A session is issued for the ticket of its request, which ends.                          *)
LEMMA SessionApart ==
  ASSUME Typed, Apart(req, tickets, sessions, received), NEW q \in Request, NEW s \in Issued,
         s.ticket = req[q].ticket
  PROVE  Apart([req EXCEPT ![q] = Idle], tickets, Append(sessions, s), received)
<1> DEFINE rq == [req EXCEPT ![q] = Idle]
           ss == Append(sessions, s)
           top == Len(sessions) + 1
<1>0. \A p \in Request : rq[p] = IF p = q THEN Idle ELSE req[p]
  BY OneRequest, IdleRequest DEF Typed
<1>1. Apart(rq, tickets, sessions, received)
  <2>1. Forward(req[q], Idle) /\ Idle \in Req
    BY IdleRequest DEF Forward
  <2> QED BY <2>1, ForwardApart
<1>2. /\ s.ticket <= received
      /\ s.ticket # 0 =>
           /\ \A t \in tickets : s.ticket # t.id
           /\ \A p \in Request : (p # q => req[p].ticket # s.ticket) /\ req[p].n # s.ticket
           /\ \A i \in DOMAIN sessions : sessions[i].ticket # s.ticket
  <2>1. \A p \in Request : req[p].ticket \in Nat /\ req[p].n \in Nat
    BY TypedFields
  <2> QED BY <2>1 DEF Apart
<1>3. s.ticket # 0 => \A p \in Request : s.ticket # rq[p].ticket /\ s.ticket # rq[p].n
  BY <1>0, <1>2, IdleRequest
<1>4. /\ DOMAIN ss = 1..top /\ ss[top] = s /\ \A i \in DOMAIN sessions : ss[i] = sessions[i]
      /\ DOMAIN sessions = 1..Len(sessions) /\ Len(sessions) \in Nat
  BY TypedFields, AppendProperties, LenProperties DEF Typed
<1>5. \A i \in DOMAIN ss : i \in DOMAIN sessions \/ i = top
  BY <1>4
<1> HIDE DEF rq, ss, top
<1>6. \A i \in DOMAIN ss : ss[i].ticket <= received
  BY <1>1, <1>2, <1>4, <1>5 DEF Apart
<1>7. \A i \in DOMAIN ss : ss[i].ticket # 0 =>
        /\ \A t \in tickets : ss[i].ticket # t.id
        /\ \A p \in Request : ss[i].ticket # rq[p].ticket /\ ss[i].ticket # rq[p].n
  BY <1>1, <1>2, <1>3, <1>4, <1>5 DEF Apart
<1>8. \A i, j \in DOMAIN ss : i # j /\ ss[i].ticket # 0 => ss[i].ticket # ss[j].ticket
  BY <1>1, <1>2, <1>4, <1>5 DEF Apart
<1>9. Apart(rq, tickets, ss, received)
  BY <1>1, <1>6, <1>7, <1>8 DEF Apart
<1> QED BY <1>9 DEF rq, ss

-----------------------------------------------------------------------------
(* The actions.                                                                            *)

(* What an action leaves as it is.                                                         *)
LEMMA SameIsQuiet ==
  ASSUME Typed, UNCHANGED <<rec, audit, sessions, seen>>, tracked' \subseteq Nat,
         \A c \in challenges' : c.gen \in Nat
  PROVE  Quiet
BY Stays DEF Quiet, Typed

(* A request as it comes in.                                                               *)
LEMMA ReceivedIs ==
  ASSUME Typed, NEW kind \in CeremonyKinds, NEW at \in Places
  PROVE  /\ Received(kind, at) \in Req /\ Received(kind, at).n = received + 1
         /\ Received(kind, at).ticket = 0 /\ Received(kind, at).at = at
<1> DEFINE n == received + 1
<1>1. n \in Nat
  BY DEF Typed
<1>2. Idle \in Req /\ Idle.ticket = 0
  BY IdleRequest
<1>3. Received(kind, at) = [Idle EXCEPT !.kind = kind, !.at = at, !.n = n]
  BY DEF Received
<1> HIDE DEF n
<1>4. [Idle EXCEPT !.kind = kind, !.at = at, !.n = n] \in Req
  BY <1>1, <1>2 DEF Req
<1>5. Received(kind, at).n = n /\ Received(kind, at).ticket = 0 /\ Received(kind, at).at = at
  BY <1>2, <1>3 DEF Req
<1> QED BY <1>3, <1>4, <1>5 DEF n

LEMMA ReceivedEnters ==
  ASSUME Typed, NEW kind \in CeremonyKinds, NEW at \in Places, at \notin {"confirmed", "replacing"},
         NEW mark \in Nat
  PROVE  /\ Received(kind, at) \in Req /\ Enters(Received(kind, at), tickets')
         /\ [Received(kind, at) EXCEPT !.mark = mark] \in Req
         /\ Enters([Received(kind, at) EXCEPT !.mark = mark], tickets')
<1>1. received + 1 \in Nat
  BY DEF Typed
<1>2. Received(kind, at) \in Req /\ Received(kind, at).n = received + 1 /\ Received(kind, at).ticket = 0 /\ Received(kind, at).at = at
  BY ReceivedIs
<1> DEFINE r == [Received(kind, at) EXCEPT !.mark = mark]
<1>3. r \in Req /\ r.n = received + 1 /\ r.ticket = 0 /\ r.at = at
  BY <1>2 DEF Req
<1> HIDE DEF r
<1>4. Enters(Received(kind, at), tickets') /\ Enters(r, tickets')
  BY <1>2, <1>3 DEF Enters
<1> QED BY <1>2, <1>3, <1>4 DEF r

(* A request comes in, and goes on or is refused.                                          *)
LEMMA Entered ==
  ASSUME IInv, Quiet, NEW q \in Request, NEW kind, Receive(q, kind), NEW r \in Req, tickets' \subseteq tickets,
         Enters(r, tickets'), Go(q, r) \/ Go(q, Idle)
  PROVE  IInv'
<1>1. Idle \in Req /\ Enters(Idle, tickets')
  BY IdleRequest DEF Enters
<1>2. received' = received + 1
  BY DEF Receive
<1>3. req' = [req EXCEPT ![q] = r] \/ req' = [req EXCEPT ![q] = Idle]
  BY DEF Go
<1> QED BY <1>1, <1>2, <1>3, Comes

LEMMA BeginsOne == ASSUME NEW q, NEW r, Begin(q, r) PROVE Go(q, r) \/ Go(q, Idle)
BY DEF Begin

LEMMA NewRequests ==
  ASSUME IInv, NEW q \in Request,
         Setup(q) \/ Login(q) \/ \E s \in tracked : Offer(q, s) \/ BeginRegistration(q, s)
  PROVE  IInv'
<1>1. Typed /\ tracked \subseteq Nat /\ \A c \in challenges : c.gen \in Nat
  BY DEF IInv, Typed
<1>2. UNCHANGED <<rec, audit, tickets, challenges, sessions, tracked, seen>>
  BY DEF Setup, Login, Offer, BeginRegistration, memory
<1>3. Quiet /\ tickets' \subseteq tickets
  BY <1>1, <1>2, SameIsQuiet
<1>4. CASE Setup(q)
  <2>1. Receive(q, "setup")
    BY <1>4 DEF Setup
  <2>2. \E at \in {"verifier", "deriving"} : Go(q, Received("setup", at)) \/ Go(q, Idle)
    BY <1>4, BeginsOne DEF Setup
  <2>3. \A at \in {"verifier", "deriving"} : Received("setup", at) \in Req /\ Enters(Received("setup", at), tickets')
    BY <1>1, ReceivedEnters DEF Places, CeremonyKinds
  <2> QED BY <1>3, <2>1, <2>2, <2>3, Entered
<1>5. CASE Login(q)
  <2> DEFINE mark == IF AuthState(rec) = "configured" THEN 1 ELSE 0
             r == [Received("login", "deriving") EXCEPT !.mark = mark]
  <2>1. Receive(q, "login") /\ Begin(q, r)
    BY <1>5 DEF Login
  <2>2. mark \in Nat
    OBVIOUS
  <2> HIDE DEF mark
  <2>3. r \in Req /\ Enters(r, tickets')
    BY <1>1, <2>2, ReceivedEnters DEF Places, CeremonyKinds
  <2> HIDE DEF r
  <2> QED BY <1>3, <2>1, <2>3, BeginsOne, Entered
<1>6. CASE \E s \in tracked : Offer(q, s)
  <2> DEFINE r == [Received("offer", "deriving") EXCEPT !.mark = 1]
  <2>1. Receive(q, "offer") /\ Begin(q, r)
    BY <1>6 DEF Offer
  <2>2. r \in Req /\ Enters(r, tickets')
    BY <1>1, ReceivedEnters DEF Places, CeremonyKinds
  <2> HIDE DEF r
  <2> QED BY <1>3, <2>1, <2>2, BeginsOne, Entered
<1>7. CASE \E s \in tracked : BeginRegistration(q, s)
  <2>1. PICK s \in tracked : BeginRegistration(q, s)
    BY <1>7
  <2> DEFINE r == [Received("register", "checked") EXCEPT !.mark = s]
  <2>2. Receive(q, "register") /\ Go(q, r)
    BY <2>1 DEF BeginRegistration
  <2>3. s \in Nat
    BY <1>1
  <2>4. r \in Req /\ Enters(r, tickets')
    BY <1>1, <2>3, ReceivedEnters DEF Places, CeremonyKinds
  <2> HIDE DEF r
  <2> QED BY <1>3, <2>2, <2>4, Entered
<1> QED BY <1>4, <1>5, <1>6, <1>7

LEMMA Presented ==
  ASSUME IInv, NEW q \in Request, NEW kind \in CeremonyKinds, Present(q, kind)
  PROVE  IInv'
<1>1. /\ Typed /\ tracked \subseteq Nat /\ received + 1 \in Nat
      /\ \A c \in challenges : c.gen \in Nat
      /\ \A t \in tickets : t.id \in Nat /\ t.gen \in Nat
  BY DEF IInv, Typed
<1>2. PICK t \in tickets, s \in tracked \cup {0} :
        /\ tickets' = tickets \ {t} /\ challenges' \subseteq challenges
        /\ \/ Go(q, [Received(kind, "presented") EXCEPT !.ticket = t.id, !.gen = t.gen, !.mark = s])
           \/ Go(q, Idle)
  BY DEF Present, Consume
<1> DEFINE new == Received(kind, "presented")
           r == [new EXCEPT !.ticket = t.id, !.gen = t.gen, !.mark = s]
<1>3. new \in Req /\ new.n = received + 1 /\ new.at = "presented"
  BY <1>1, ReceivedIs DEF Places
<1> HIDE DEF new
<1>4. t.id \in Nat /\ t.gen \in Nat /\ s \in Nat
  BY <1>1
<1>9. r \in Req /\ r.n = received + 1 /\ r.ticket = t.id /\ r.at = "presented"
  BY <1>3, <1>4 DEF Req
<1> HIDE DEF r
<1>5. Enters(r, tickets')
  BY <1>2, <1>9 DEF Enters
<1>6. Receive(q, kind) /\ UNCHANGED <<rec, audit, sessions, tracked, seen>>
  BY DEF Present
<1>7. Quiet
  BY <1>1, <1>2, <1>6, SameIsQuiet
<1>8. Go(q, r) \/ Go(q, Idle)
  BY <1>2 DEF r, new
<1> QED BY <1>2, <1>5, <1>6, <1>7, <1>8, <1>9, Entered

LEMMA Registers ==
  ASSUME IInv, NEW q \in Request, NEW s \in tracked, CompleteRegistration(q, s)
  PROVE  IInv'
<1>1. Typed /\ tracked \subseteq Nat /\ received + 1 \in Nat /\ \A c \in challenges : c.gen \in Nat
  BY DEF IInv, Typed
<1>2. PICK c \in challenges :
        /\ challenges' \subseteq challenges
        /\ \/ Go(q, [Received("registered", "presented") EXCEPT !.gen = c.gen])
           \/ Go(q, Idle)
  BY DEF CompleteRegistration
<1> DEFINE new == Received("registered", "presented")
           r == [new EXCEPT !.gen = c.gen]
<1>3. new \in Req /\ new.n = received + 1 /\ new.ticket = 0 /\ new.at = "presented"
  BY <1>1, ReceivedIs DEF Places, CeremonyKinds
<1> HIDE DEF new
<1>4. r \in Req /\ r.n = received + 1 /\ r.ticket = 0 /\ r.at = "presented"
  BY <1>1, <1>3 DEF Req
<1> HIDE DEF r
<1>5. Enters(r, tickets')
  BY <1>4 DEF Enters
<1>6. Receive(q, "registered") /\ UNCHANGED <<rec, audit, tickets, sessions, tracked, seen>>
  BY DEF CompleteRegistration
<1>7. Quiet /\ tickets' \subseteq tickets
  BY <1>1, <1>2, <1>6, SameIsQuiet
<1>8. Go(q, r) \/ Go(q, Idle)
  BY <1>2 DEF r, new
<1> QED BY <1>4, <1>5, <1>6, <1>7, <1>8, Entered

LEMMA LogsOut ==
  ASSUME IInv, NEW q \in Request, NEW s \in tracked, Logout(q, s)
  PROVE  IInv'
<1>1. Typed /\ Recording(rec) /\ rec \in Rec
  BY DEF IInv, Typed, Recording
<1>2. /\ rec' = Rotated(rec) /\ Receive(q, "logout") /\ Go(q, Received("logout", "rotated"))
      /\ UNCHANGED <<audit, tickets, challenges, sessions, tracked, seen>>
  BY DEF Logout, memory
<1>3. /\ rec' \in Rec /\ rec'.password = rec.password /\ rec'.totp = rec.totp /\ rec'.codes = rec.codes
      /\ rec'.totp.last >= rec.totp.last
  BY <1>1, <1>2, SignedInKeeps, RecordFields
<1>4. Recording(rec') /\ (rec.password => Onward(rec, rec'))
  BY <1>1, <1>3, SameFactors
<1>5. Quiet /\ tickets' \subseteq tickets
  BY <1>1, <1>2, <1>4 DEF Quiet, Typed
<1>6. Received("logout", "rotated") \in Req /\ Enters(Received("logout", "rotated"), tickets')
  BY <1>1, ReceivedEnters DEF Places, CeremonyKinds
<1> QED BY <1>2, <1>5, <1>6, Entered

(* A request goes on to another place.                                                     *)
LEMMA GoesTo ==
  ASSUME NEW r \in Req, r.at # "idle", NEW at \in Places \ {"presented"},
         at \in {"confirmed", "replacing"} => r.at \in {"presented", "confirmed", "replacing"},
         NEW gen \in Nat, NEW secret \in Nat, NEW mark \in Nat
  PROVE  /\ [r EXCEPT !.at = at] \in Req /\ Forward(r, [r EXCEPT !.at = at])
         /\ [r EXCEPT !.at = at, !.gen = gen] \in Req /\ Forward(r, [r EXCEPT !.at = at, !.gen = gen])
         /\ [r EXCEPT !.at = at, !.secret = secret] \in Req /\ Forward(r, [r EXCEPT !.at = at, !.secret = secret])
         /\ [r EXCEPT !.at = at, !.mark = mark] \in Req /\ Forward(r, [r EXCEPT !.at = at, !.mark = mark])
<1>1. [r EXCEPT !.at = at] \in Req /\ Forward(r, [r EXCEPT !.at = at])
  BY DEF Req, Forward
<1>2. [r EXCEPT !.at = at, !.gen = gen] \in Req /\ Forward(r, [r EXCEPT !.at = at, !.gen = gen])
  BY DEF Req, Forward
<1>3. [r EXCEPT !.at = at, !.secret = secret] \in Req /\ Forward(r, [r EXCEPT !.at = at, !.secret = secret])
  BY DEF Req, Forward
<1>4. [r EXCEPT !.at = at, !.mark = mark] \in Req /\ Forward(r, [r EXCEPT !.at = at, !.mark = mark])
  BY DEF Req, Forward
<1> QED BY <1>1, <1>2, <1>3, <1>4

(* A request under way moves.                                                              *)
LEMMA Moved ==
  ASSUME IInv, Quiet, NEW q \in Request, NEW r, r \in Req /\ Forward(req[q], r), Go(q, r) \/ Go(q, Idle),
         received' = received, tickets' \subseteq tickets
  PROVE  IInv'
<1>1. Idle \in Req /\ Forward(req[q], Idle)
  BY IdleRequest DEF Forward
<1>2. req' = [req EXCEPT ![q] = r] \/ req' = [req EXCEPT ![q] = Idle]
  BY DEF Go
<1> QED BY <1>1, <1>2, Moves

LEMMA EnrollKeeps == ASSUME IInv, NEW q \in Request, Enroll(q) PROVE IInv'
<1>1. Typed /\ Recording(rec) /\ req[q] \in Req
  BY DEF IInv, Typed
<1>2. PICK answer \in {BeginSetup(rec), Resume(rec)} :
        rec' = answer[2] /\ (Go(q, [req[q] EXCEPT !.at = "enrolled"]) \/ Go(q, Idle))
  BY DEF Enroll
<1>3. Recording(rec') /\ (rec.password => Onward(rec, rec'))
  BY <1>1, <1>2, EnrollDoes DEF Answers
<1>4. /\ UNCHANGED <<audit, seen, tickets, challenges, sessions, tracked, received>> /\ req[q].at # "idle"
  BY DEF Enroll, memory, outside
<1>5. Quiet /\ tickets' \subseteq tickets
  BY <1>1, <1>3, <1>4 DEF Quiet, Typed
<1>6. [req[q] EXCEPT !.at = "enrolled"] \in Req /\ Forward(req[q], [req[q] EXCEPT !.at = "enrolled"])
  BY <1>1, <1>4, GoesTo DEF Places
<1> QED BY <1>2, <1>4, <1>5, <1>6, Moved

(* The steps in which a request only moves.                                                *)
LEMMA OtherMoves ==
  ASSUME IInv, NEW q \in Request,
         Settle(q) \/ ReadGeneration(q) \/ Derive(q) \/ Confirm(q) \/ EndAll(q) \/ FactorChanged(q) \/ ReadSecret(q)
  PROVE  IInv'
<1>1. /\ Typed /\ req[q] \in Req /\ tracked \subseteq Nat /\ \A c \in challenges : c.gen \in Nat
      /\ rec.gen \in Nat /\ rec.secret \in Nat /\ rec.codes.set \in Nat
  BY RecordFields DEF IInv, Typed, Recording
<1>2. /\ UNCHANGED <<rec, audit, sessions, seen, received>> /\ req[q].at # "idle"
      /\ tickets' \subseteq tickets /\ challenges' \subseteq challenges /\ tracked' \subseteq tracked
  <2>1. CASE Settle(q) BY <2>1 DEF Settle, outside
  <2>2. CASE ReadGeneration(q) BY <2>2 DEF ReadGeneration, memory, outside
  <2>3. CASE Derive(q) BY <2>3 DEF Derive, memory, outside
  <2>4. CASE Confirm(q) BY <2>4 DEF Confirm, Unmoved, memory, outside
  <2>5. CASE EndAll(q) BY <2>5 DEF EndAll, outside
  <2>6. CASE FactorChanged(q) BY <2>6 DEF FactorChanged, outside
  <2>7. CASE ReadSecret(q) BY <2>7 DEF ReadSecret, memory, outside
  <2> QED BY <2>1, <2>2, <2>3, <2>4, <2>5, <2>6, <2>7
<1>3. Quiet
  BY <1>1, <1>2, SameIsQuiet
<1>4. \A at \in Places \ {"presented"} :
        (at \in {"confirmed", "replacing"} => req[q].at \in {"presented", "confirmed", "replacing"}) =>
          /\ [req[q] EXCEPT !.at = at] \in Req /\ Forward(req[q], [req[q] EXCEPT !.at = at])
          /\ [req[q] EXCEPT !.at = at, !.gen = rec.gen] \in Req /\ Forward(req[q], [req[q] EXCEPT !.at = at, !.gen = rec.gen])
          /\ [req[q] EXCEPT !.at = at, !.secret = rec.secret] \in Req
          /\ Forward(req[q], [req[q] EXCEPT !.at = at, !.secret = rec.secret])
          /\ [req[q] EXCEPT !.at = at, !.mark = rec.codes.set] \in Req
          /\ Forward(req[q], [req[q] EXCEPT !.at = at, !.mark = rec.codes.set])
  BY <1>1, <1>2, GoesTo
<1>5. PICK r : r \in Req /\ Forward(req[q], r) /\ (Go(q, r) \/ Go(q, Idle))
  <2>0. Idle \in Req /\ Forward(req[q], Idle)
    BY IdleRequest DEF Forward
  <2>1. CASE Settle(q)
    <3> DEFINE r == [req[q] EXCEPT !.at = "checked"]
    <3>1. Go(q, r) \/ Go(q, Idle)
      BY <2>1 DEF Settle
    <3>2. r \in Req /\ Forward(req[q], r)
      BY <1>4 DEF Places
    <3> HIDE DEF r
    <3> QED BY <3>1, <3>2
  <2>2. CASE ReadGeneration(q)
    <3> DEFINE r == [req[q] EXCEPT !.at = "generation", !.gen = rec.gen]
    <3>1. Go(q, r)
      BY <2>2 DEF ReadGeneration
    <3>2. r \in Req /\ Forward(req[q], r)
      BY <1>4 DEF Places
    <3> HIDE DEF r
    <3> QED BY <3>1, <3>2
  <2>3. CASE Derive(q)
    <3> DEFINE r == [req[q] EXCEPT !.at = "derived", !.mark = rec.codes.set]
    <3>1. Go(q, r) \/ Go(q, Idle)
      BY <2>3 DEF Derive
    <3>2. r \in Req /\ Forward(req[q], r)
      BY <1>4 DEF Places
    <3> HIDE DEF r
    <3> QED BY <3>1, <3>2
  <2>4. CASE Confirm(q)
    <3> DEFINE r == [req[q] EXCEPT !.at = "replacing"]
    <3>1. (Go(q, r) \/ Go(q, Idle)) /\ req[q].at = "confirmed"
      BY <2>4 DEF Confirm
    <3>2. r \in Req /\ Forward(req[q], r)
      BY <1>4, <3>1 DEF Places
    <3> HIDE DEF r
    <3> QED BY <3>1, <3>2
  <2>5. CASE EndAll(q)
    <3> DEFINE r == [req[q] EXCEPT !.at = "ended"]
    <3>1. Go(q, r) \/ Go(q, Idle)
      BY <2>5 DEF EndAll
    <3>2. r \in Req /\ Forward(req[q], r)
      BY <1>4 DEF Places
    <3> HIDE DEF r
    <3> QED BY <3>1, <3>2
  <2>6. CASE FactorChanged(q)
    <3>1. \/ Go(q, Idle)
          \/ \E at \in {"checked", "accepted", "secret"} : Go(q, [req[q] EXCEPT !.at = at])
      BY <2>6 DEF FactorChanged
    <3>2. \A at \in {"checked", "accepted", "secret"} :
            [req[q] EXCEPT !.at = at] \in Req /\ Forward(req[q], [req[q] EXCEPT !.at = at])
      BY <1>4 DEF Places
    <3> QED BY <2>0, <3>1, <3>2
  <2>7. CASE ReadSecret(q)
    <3> DEFINE r == [req[q] EXCEPT !.at = "secret", !.secret = rec.secret]
    <3>1. Go(q, r)
      BY <2>7 DEF ReadSecret
    <3>2. r \in Req /\ Forward(req[q], r)
      BY <1>4 DEF Places
    <3> HIDE DEF r
    <3> QED BY <3>1, <3>2
  <2> QED BY <2>1, <2>2, <2>3, <2>4, <2>5, <2>6, <2>7
<1> QED BY <1>2, <1>3, <1>5, Moved

LEMMA TotpKeeps == ASSUME IInv, NEW q \in Request, CompleteTotp(q) PROVE IInv'
<1>1. /\ Recording(rec) /\ req[q] \in Req /\ req[q].at # "idle" /\ req[q].gen \in Nat /\ Unmoved
      /\ req[q].kind \in {"setup_totp", "recovery_totp", "login_totp", "operation"}
  BY TypedFields DEF IInv, Typed, CompleteTotp
<1>2. PICK code \in Nat : Mutate(q, VerifyTotp(rec, code, req[q].kind, req[q].gen), <<"totp", rec.totp.seed, code>>)
  BY DEF CompleteTotp
<1> DEFINE answer == VerifyTotp(rec, code, req[q].kind, req[q].gen)
<1>3. /\ Answers(rec, answer)
      /\ answer[1] = "accepted" =>
           rec.password /\ code > rec.totp.last /\ answer[2].totp.seed = rec.totp.seed /\ answer[2].totp.last = code
  <2> DEFINE kind == req[q].kind
             gen == req[q].gen
  <2>1. gen \in Nat /\ kind \in {"setup_totp", "recovery_totp", "login_totp", "operation"} /\ Recording(rec)
    BY <1>1
  <2> HIDE DEF kind, gen
  <2>2. LET given == VerifyTotp(rec, code, kind, gen)
        IN /\ Answers(rec, given)
           /\ given[1] \in {"accepted", "suspended"} => rec.gen = gen
           /\ given[1] = "accepted" =>
                rec.password /\ code > rec.totp.last /\ given[2].totp.seed = rec.totp.seed /\ given[2].totp.last = code
    BY <2>1, VerifyTotpDoes
  <2> QED BY <2>2 DEF kind, gen
<1>4. Mutate(q, answer, <<"totp", rec.totp.seed, code>>)
  BY <1>2
<1> HIDE DEF answer
<1>5. answer[1] = "accepted" => rec.password /\ Fits(q, <<"totp", rec.totp.seed, code>>, answer[2])
  BY <1>3 DEF Fits
<1> QED BY <1>1, <1>3, <1>4, <1>5, Mutated

LEMMA SpendKeeps == ASSUME IInv, NEW q \in Request, SpendCode(q) PROVE IInv'
<1>1. Recording(rec) /\ req[q].at # "idle" /\ req[q].gen \in Nat /\ req[q].mark \in Nat /\ Unmoved
  BY TypedFields DEF IInv, Typed, SpendCode
<1>2. PICK code \in RecoveryCode \cup {None} : Mutate(q, Spend(rec, code, req[q].mark, req[q].gen), <<"recovery", req[q].mark, code>>)
  BY DEF SpendCode
<1> DEFINE answer == Spend(rec, code, req[q].mark, req[q].gen)
<1>3. /\ Answers(rec, answer)
      /\ answer[1] = "accepted" =>
           /\ rec.password /\ req[q].mark = rec.codes.set /\ code \in rec.codes.unused
           /\ answer[2].codes.set = req[q].mark /\ answer[2].codes.unused = rec.codes.unused \ {code}
  <2> DEFINE set == req[q].mark
             gen == req[q].gen
  <2>1. gen \in Nat /\ set \in Nat /\ Recording(rec)
    BY <1>1
  <2> HIDE DEF set, gen
  <2>2. LET given == Spend(rec, code, set, gen)
        IN /\ Answers(rec, given)
           /\ given[1] \in {"accepted", "suspended"} => rec.gen = gen
           /\ given[1] = "accepted" =>
                /\ rec.password /\ set = rec.codes.set /\ code \in rec.codes.unused
                /\ given[2].codes.set = set /\ given[2].codes.unused = rec.codes.unused \ {code}
    BY <2>1, SpendDoes
  <2> QED BY <2>2 DEF set, gen
<1>4. Mutate(q, answer, <<"recovery", req[q].mark, code>>)
  BY <1>2
<1> HIDE DEF answer
<1>5. answer[1] = "accepted" => rec.password /\ Fits(q, <<"recovery", req[q].mark, code>>, answer[2])
  BY <1>3 DEF Fits
<1> QED BY <1>1, <1>3, <1>4, <1>5, Mutated

LEMMA AssertKeeps == ASSUME IInv, NEW q \in Request, Assertion(q) PROVE IInv'
<1>1. Recording(rec) /\ req[q].at = "presented" /\ req[q].gen \in Nat /\ Unmoved
  BY TypedFields DEF IInv, Typed, Assertion
<1>2. PICK regressed \in BOOLEAN :
        Mutate(q, Commit(rec, req[q].gen, regressed, req[q].kind = "login_passkey"), <<"passkey", req[q].n>>)
  BY DEF Assertion
<1> DEFINE answer == Commit(rec, req[q].gen, regressed, req[q].kind = "login_passkey")
<1>3. Answers(rec, answer) /\ (answer[1] = "accepted" => rec.password)
  BY <1>1, CommitDoes
<1>4. Mutate(q, answer, <<"passkey", req[q].n>>)
  BY <1>2
<1> HIDE DEF answer
<1>5. answer[1] = "accepted" => rec.password /\ Fits(q, <<"passkey", req[q].n>>, answer[2])
  BY <1>1, <1>3 DEF Fits, Numbered
<1> QED BY <1>1, <1>3, <1>4, <1>5, Mutated

LEMMA RegisterKeeps == ASSUME IInv, NEW q \in Request, RegisterPasskey(q) PROVE IInv'
<1>1. Recording(rec) /\ req[q].at = "presented" /\ req[q].gen \in Nat /\ Unmoved
  BY TypedFields DEF IInv, Typed, RegisterPasskey
<1> DEFINE answer == AddPasskey(rec, req[q].gen)
<1>3. Answers(rec, answer) /\ (answer[1] = "accepted" => rec.password)
  BY <1>1, AddPasskeyDoes
<1>4. Mutate(q, answer, <<"registered", req[q].n>>)
  BY DEF RegisterPasskey
<1> HIDE DEF answer
<1>5. answer[1] = "accepted" => rec.password /\ Fits(q, <<"registered", req[q].n>>, answer[2])
  BY <1>1, <1>3 DEF Fits, Numbered
<1> QED BY <1>1, <1>3, <1>4, <1>5, Mutated

LEMMA RegenerateKeeps == ASSUME IInv, NEW q \in Request, Regenerate(q) PROVE IInv'
<1>1. Recording(rec) /\ req[q].at = "replacing" /\ Unmoved
  BY DEF IInv, Typed, Regenerate
<1> DEFINE answer == ReplaceCodes(rec)
<1>3. Answers(rec, answer) /\ (answer[1] = "accepted" => rec.password)
  BY <1>1, ReplaceCodesDoes
<1>4. Mutate(q, answer, <<"codes", req[q].n>>)
  BY DEF Regenerate
<1> HIDE DEF answer
<1>5. answer[1] = "accepted" => rec.password /\ Fits(q, <<"codes", req[q].n>>, answer[2])
  BY <1>1, <1>3 DEF Fits, Numbered
<1> QED BY <1>1, <1>3, <1>4, <1>5, Mutated

(* The ticket a request issues, or the challenge of a registration.                        *)
LEMMA IssueKeeps == ASSUME IInv, NEW q \in Request, Issue(q) PROVE IInv'
<1>1. /\ Typed /\ Apart(req, tickets, sessions, received) /\ req[q] \in Req /\ req[q].at # "idle"
      /\ req[q].n \in Nat /\ req[q].gen \in Nat /\ tracked \subseteq Nat
      /\ \A c \in challenges : c.gen \in Nat
  BY TypedFields DEF IInv, Typed, Issue
<1>2. /\ UNCHANGED <<rec, audit, sessions, tracked, seen, received>>
      /\ req' = [req EXCEPT ![q] = Idle]
  BY DEF Issue, Go, outside
<1>3. \A c \in challenges' : c \in challenges \/ c.gen = req[q].gen
  BY DEF Issue
<1>4. Quiet
  BY <1>1, <1>2, <1>3, SameIsQuiet
<1>5. Idle \in Req /\ Forward(req[q], Idle)
  BY IdleRequest DEF Forward
<1>6. CASE req[q].kind = "register"
  <2>1. tickets' = tickets
    BY <1>6 DEF Issue
  <2> QED BY <1>2, <1>4, <1>5, <2>1, Moves
<1>7. CASE req[q].kind # "register"
  <2>1. PICK t : tickets' = tickets \cup {t} /\ t.id = req[q].n /\ t.gen = req[q].gen
    <3>1. PICK purpose : tickets' = tickets \cup {[id |-> req[q].n, purpose |-> purpose, gen |-> req[q].gen]}
      BY <1>7 DEF Issue
    <3> DEFINE t == [id |-> req[q].n, purpose |-> purpose, gen |-> req[q].gen]
    <3>2. tickets' = tickets \cup {t} /\ t.id = req[q].n /\ t.gen = req[q].gen
      BY <3>1
    <3> HIDE DEF t
    <3> QED BY <3>2
  <2>2. Typed'
    <3>1. req' \in [Request -> Req]
      BY <1>1, <1>2, <1>5 DEF Typed
    <3>2. \A u \in tickets' : u.id \in Nat /\ u.gen \in Nat
      BY <1>1, <2>1 DEF Typed
    <3> QED BY <1>1, <1>2, <1>4, <3>1, <3>2 DEF Typed, Quiet
  <2>3. Apart(req, tickets, sessions, received)'
    <3>1. Apart([req EXCEPT ![q] = Idle], tickets \cup {t}, sessions, received)
      BY <1>1, <2>1, TicketApart
    <3> QED BY <1>2, <2>1, <3>1
  <2>4. Unspent(req, seen.accepted, received)'
    <3>1. Unspent([req EXCEPT ![q] = Idle], seen.accepted, received)
      BY <1>1, <1>5, ForwardUnspent DEF IInv
    <3> QED BY <1>2, <3>1
  <2>5. Behind(rec, seen.accepted)' /\ Counted(seen)' /\ Journaled'
    BY <1>2 DEF IInv, Behind, Counted, Journaled
  <2> QED BY <2>2, <2>3, <2>4, <2>5 DEF IInv
<1> QED BY <1>6, <1>7

LEMMA SessionKeeps == ASSUME IInv, NEW q \in Request, SetSession(q) PROVE IInv'
<1>1. /\ Typed /\ Apart(req, tickets, sessions, received) /\ req[q] \in Req
      /\ tracked \subseteq Nat /\ sessions \in Seq(Issued) /\ Len(sessions) \in Nat
  BY LenProperties DEF IInv, Typed
<1>2. /\ UNCHANGED <<rec, audit, tickets, challenges, seen, received>> /\ req' = [req EXCEPT ![q] = Idle]
      /\ tracked' = tracked \cup {Len(sessions) + 1}
  BY DEF SetSession, Go, outside
<1>3. PICK s \in Issued : sessions' = Append(sessions, s) /\ s.ticket = req[q].ticket
  <2> DEFINE s == [secret |-> req[q].secret, ticket |-> req[q].ticket,
                   seed |-> IF req[q].kind \in {"login_passkey", "registered"} THEN req[q].mark ELSE 0]
  <2>1. sessions' = Append(sessions, s)
    BY DEF SetSession
  <2>2. s \in Issued /\ s.ticket = req[q].ticket
    BY <1>1 DEF Req, Issued
  <2> HIDE DEF s
  <2> QED BY <2>1, <2>2
<1>4. Idle \in Req /\ Forward(req[q], Idle)
  BY IdleRequest DEF Forward
<1>5. Typed'
  <2>1. req' \in [Request -> Req]
    BY <1>1, <1>2, <1>4 DEF Typed
  <2>2. sessions' \in Seq(Issued)
    BY <1>1, <1>3, AppendProperties
  <2>3. tracked' \subseteq Nat
    <3>1. Len(sessions) + 1 \in Nat
      BY <1>1
    <3> QED BY <1>1, <1>2, <3>1
  <2> QED BY <1>1, <1>2, <2>1, <2>2, <2>3 DEF Typed
<1>6. Apart(req, tickets, sessions, received)'
  <2>1. Apart([req EXCEPT ![q] = Idle], tickets, Append(sessions, s), received)
    BY <1>1, <1>3, SessionApart
  <2> QED BY <1>2, <1>3, <2>1
<1>7. Unspent(req, seen.accepted, received)'
  <2>1. Unspent([req EXCEPT ![q] = Idle], seen.accepted, received)
    BY <1>1, <1>4, ForwardUnspent DEF IInv
  <2> QED BY <1>2, <2>1
<1>8. Behind(rec, seen.accepted)' /\ Counted(seen)' /\ Journaled'
  BY <1>2 DEF IInv, Behind, Counted, Journaled
<1> QED BY <1>5, <1>6, <1>7, <1>8 DEF IInv

(* The steps of no request: an acknowledgement, a period, a lapse.                         *)
LEMMA AsideKeeps ==
  ASSUME IInv, (\E count \in 1..2 : Acknowledge(count)) \/ Tick \/ Lapse
  PROVE  IInv'
<1>1. /\ Typed /\ Recording(rec) /\ rec \in Rec /\ tracked \subseteq Nat /\ \A c \in challenges : c.gen \in Nat
      /\ Apart(req, tickets, sessions, received) /\ Unspent(req, seen.accepted, received)
  BY DEF IInv, Typed, Recording
<1>2. /\ UNCHANGED <<audit, tickets, challenges, sessions, tracked, req, received>>
      /\ seen'.accepted = seen.accepted /\ seen'.uses = seen.uses
      /\ seen' = [accepted |-> seen'.accepted, uses |-> seen'.uses, owed |-> seen'.owed, refused |-> seen'.refused]
  <2>1. CASE \E count \in 1..2 : Acknowledge(count)
    <3>1. UNCHANGED <<audit, tickets, challenges, sessions, tracked, req, received>>
      BY <2>1 DEF Acknowledge, Unmoved, memory, outside
    <3>2. seen' = [seen EXCEPT !.owed = @ - (rec.unack - rec'.unack)]
      BY <2>1 DEF Acknowledge
    <3> QED BY <1>1, <3>1, <3>2 DEF Typed
  <2>2. CASE Tick
    BY <1>1, <2>2 DEF Tick, memory, Typed
  <2>3. CASE Lapse
    BY <1>1, <2>3 DEF Lapse, outside, Typed
  <2> QED BY <2>1, <2>2, <2>3
<1>3. Recording(rec') /\ (rec.password => Onward(rec, rec'))
  <2>0. /\ rec.totp \in Factor /\ rec.totp.last \in Nat /\ rec.unack \in Nat
    BY <1>1, RecordFields
  <2>1. CASE \E count \in 1..2 : Acknowledge(count)
    <3>1. PICK count \in 1..2 : rec' = Acknowledged(rec, count)
      BY <2>1 DEF Acknowledge
    <3> DEFINE left == IF count > rec.unack THEN 0 ELSE rec.unack - count
    <3>2. left \in Nat /\ rec' = [rec EXCEPT !.unack = left]
      BY <2>0, <3>1 DEF Acknowledged
    <3> HIDE DEF left
    <3>3. /\ rec' \in Rec /\ rec'.password = rec.password /\ rec'.codes = rec.codes /\ rec'.totp = rec.totp
          /\ rec'.totp.last >= rec.totp.last
      BY <1>1, <2>0, <3>2 DEF Rec
    <3> QED BY <1>1, <3>3, SameFactors
  <2>2. CASE rec' = rec
    BY <1>1, <2>2, Stays
  <2>3. CASE \E t \in Factor : rec' = [rec EXCEPT !.totp = t] /\ t.seed = rec.totp.seed /\ t.last = rec.totp.last
    <3>1. PICK t \in Factor : rec' = [rec EXCEPT !.totp = t] /\ t.seed = rec.totp.seed /\ t.last = rec.totp.last
      BY <2>3
    <3>2. /\ rec' \in Rec /\ rec'.password = rec.password /\ rec'.codes = rec.codes /\ rec'.totp = t
      BY <1>1, <3>1 DEF Rec
    <3>3. rec'.totp.seed = rec.totp.seed /\ rec'.totp.last >= rec.totp.last
      BY <2>0, <3>1, <3>2
    <3> QED BY <1>1, <3>2, <3>3, SameFactors
  <2>4. CASE Lapse
    <3>1. \/ rec' = rec
          \/ rec' = [rec EXCEPT !.totp.locked = FALSE]
          \/ rec' = [rec EXCEPT !.totp.expired = TRUE]
      BY <2>4 DEF Lapse
    <3> DEFINE open == [rec.totp EXCEPT !.locked = FALSE]
               late == [rec.totp EXCEPT !.expired = TRUE]
    <3>2. /\ open \in Factor /\ open.seed = rec.totp.seed /\ open.last = rec.totp.last
          /\ late \in Factor /\ late.seed = rec.totp.seed /\ late.last = rec.totp.last
      BY <2>0 DEF Factor
    <3>3. [rec EXCEPT !.totp.locked = FALSE] = [rec EXCEPT !.totp = open] /\ [rec EXCEPT !.totp.expired = TRUE] = [rec EXCEPT !.totp = late]
      OBVIOUS
    <3> HIDE DEF open, late
    <3> QED BY <2>2, <2>3, <3>1, <3>2, <3>3
  <2>5. CASE Tick
    BY <2>2, <2>5 DEF Tick
  <2> QED BY <2>1, <2>4, <2>5
<1>4. Quiet
  BY <1>1, <1>2, <1>3 DEF Quiet, Typed
<1>5. req' \in [Request -> Req] /\ received' \in Nat
  BY <1>1, <1>2 DEF Typed
<1> QED BY <1>1, <1>2, <1>4, <1>5, QuietKeeps

(* The process stops: what its requests held is lost with them.                            *)
LEMMA CrashKeeps == ASSUME IInv, Crash PROVE IInv'
<1>1. Typed /\ Recording(rec) /\ Apart(req, tickets, sessions, received) /\ Unspent(req, seen.accepted, received)
  BY DEF IInv, Typed
<1>2. /\ tickets' = {} /\ challenges' = {} /\ tracked' = {} /\ req' = [q \in Request |-> Idle]
      /\ UNCHANGED <<rec, sessions, received, seen>> /\ audit' = [audit EXCEPT !.failed = FALSE]
  BY DEF Crash
<1>3. Idle \in Req /\ Idle.n = 0 /\ Idle.ticket = 0 /\ Idle.at = "idle"
  BY IdleRequest
<1>4. req' \in [Request -> Req] /\ received' \in Nat /\ received <= received /\ received' = received
  BY <1>1, <1>2, <1>3 DEF Typed
<1>5. \A p \in Request : req'[p] = Idle
  BY <1>2
<1>6. Apart(req', tickets', sessions, received')
  <2>1. Apart(req', {}, sessions, received)
    BY <1>1, <1>3, <1>4, <1>5, FewerApart
  <2> QED BY <1>2, <2>1
<1>7. Unspent(req', seen.accepted, received')
  BY <1>1, <1>2, <1>3, <1>5 DEF Unspent
<1>8. Typed'
  BY <1>1, <1>2, <1>4 DEF Typed
<1>9. Behind(rec, seen.accepted)' /\ Counted(seen)'
  BY <1>2 DEF IInv, Behind, Counted
<1>10. Journaled'
  BY <1>1, <1>2 DEF IInv, Journaled, Typed
<1>11. Apart(req, tickets, sessions, received)' /\ Unspent(req, seen.accepted, received)'
  BY <1>2, <1>6, <1>7
<1> QED BY <1>8, <1>9, <1>10, <1>11 DEF IInv

-----------------------------------------------------------------------------
LEMMA SignInStarts == ASSUME Init PROVE IInv
<1> DEFINE configured == [password |-> TRUE, totp |-> [NewTotp(1) EXCEPT !.status = "active"],
                          codes |-> [set |-> 1, unused |-> RecoveryCode], gen |-> 3, secret |-> 3,
                          passkey |-> "active", since |-> 0, unack |-> 0]
<1>1. /\ rec \in {Fresh, configured} /\ tickets = {} /\ challenges = {} /\ sessions = <<>> /\ tracked = {}
      /\ req = [q \in Request |-> Idle] /\ received = 0
      /\ seen = [accepted |-> {}, uses |-> 0, owed |-> 0, refused |-> 0] /\ audit = [failed |-> FALSE, held |-> {}]
  BY DEF Init
<1>2. NewTotp(1) \in Factor /\ NoTotp \in Factor
  BY DEF NewTotp, NoTotp, Factor
<1>3. [NewTotp(1) EXCEPT !.status = "active"] \in Factor
  BY <1>2 DEF Factor
<1>4. Recording(Fresh)
  BY <1>2 DEF Fresh, Recording, Rec, Codes
<1>5. Recording(configured)
  BY <1>3 DEF Recording, Rec, Codes
<1> HIDE DEF configured
<1>6. Idle \in Req /\ Idle.n = 0 /\ Idle.ticket = 0 /\ Idle.at = "idle"
  BY IdleRequest
<1>7. \A p \in Request : req[p] = Idle
  BY <1>1
<1>8. sessions \in Seq(Issued) /\ DOMAIN sessions = {}
  BY <1>1, EmptySeq
<1>9. Typed
  BY <1>1, <1>4, <1>5, <1>6, <1>8 DEF Typed
<1>10. Apart(req, tickets, sessions, received)
  BY <1>1, <1>6, <1>7, <1>8 DEF Apart
<1>11. Behind(rec, seen.accepted) /\ Journaled
  BY <1>1 DEF Behind, Journaled
<1>12. Unspent(req, seen.accepted, received)
  BY <1>1, <1>6, <1>7 DEF Unspent
<1>13. Counted(seen)
  BY <1>1, FS_EmptySet DEF Counted
<1> QED BY <1>9, <1>10, <1>11, <1>12, <1>13 DEF IInv

LEMMA Steps == ASSUME IInv, [Next]_vars PROVE IInv'
<1>1. CASE UNCHANGED vars
  BY <1>1 DEF vars, IInv, Typed, Apart, Behind, Unspent, Counted, Journaled
<1>2. ASSUME NEW q \in Request, Setup(q) \/ Login(q) \/ \E s \in tracked : Offer(q, s) \/ BeginRegistration(q, s)
      PROVE  IInv'
  BY <1>2, NewRequests
<1>3. ASSUME NEW q \in Request, \E kind \in CeremonyKinds : Present(q, kind)
      PROVE  IInv'
  BY <1>3, Presented
<1>4. ASSUME NEW q \in Request,
             ConfirmSetup(q) \/ ConfirmLoginTotp(q) \/ ConfirmLoginPasskey(q) \/ ConfirmLoginRecovery(q)
             \/ ConfirmRecoveryEnrollment(q) \/ ConfirmOperation(q)
      PROVE  IInv'
  <2>1. \E kind \in CeremonyKinds : Present(q, kind)
    BY <1>4 DEF ConfirmSetup, ConfirmLoginTotp, ConfirmLoginPasskey, ConfirmLoginRecovery,
       ConfirmRecoveryEnrollment, ConfirmOperation, CeremonyKinds
  <2> QED BY <1>3, <2>1
<1>5. ASSUME NEW q \in Request, NEW s \in tracked, CompleteRegistration(q, s) \/ Logout(q, s)
      PROVE  IInv'
  BY <1>5, Registers, LogsOut
<1>6. ASSUME NEW q \in Request,
             Settle(q) \/ ReadGeneration(q) \/ Derive(q) \/ Confirm(q) \/ EndAll(q) \/ FactorChanged(q) \/ ReadSecret(q)
      PROVE  IInv'
  BY <1>6, OtherMoves
<1>7. ASSUME NEW q \in Request, CompleteTotp(q) \/ Assertion(q) \/ SpendCode(q) \/ RegisterPasskey(q) \/ Regenerate(q)
      PROVE  IInv'
  BY <1>7, TotpKeeps, AssertKeeps, SpendKeeps, RegisterKeeps, RegenerateKeeps
<1>8. ASSUME NEW q \in Request, Enroll(q) \/ Issue(q) \/ SetSession(q)
      PROVE  IInv'
  BY <1>8, EnrollKeeps, IssueKeeps, SessionKeeps
<1>9. CASE (\E count \in 1..2 : Acknowledge(count)) \/ Tick \/ Lapse
  BY <1>9, AsideKeeps
<1>10. CASE Crash
  BY <1>10, CrashKeeps
<1> QED BY <1>1, <1>2, <1>4, <1>5, <1>6, <1>7, <1>8, <1>9, <1>10 DEF Next

THEOREM Invariant == Spec => []IInv
<1>1. Init => IInv
  BY SignInStarts
<1>2. IInv /\ [Next]_vars => IInv'
  BY Steps
<1> QED BY <1>1, <1>2, PTL DEF Spec

-----------------------------------------------------------------------------
(* A request whose transaction took it on had the generation of the record.                *)
LEMMA Completes ==
  ASSUME Typed, NEW q \in Request, NEW answer, NEW code, Mutate(q, answer, code),
         answer[1] \in {"accepted", "suspended"} => rec.gen = req[q].gen,
         req'[q].at \in {"accepted", "rotated", "confirmed", "secret"}
  PROVE  req[q].gen = rec.gen
<1>1. PICK refused, written : Recorded(q, answer, code, refused, written)
  BY DEF Mutate
<1>2. req'[q] = IF written THEN Answered(req[q], answer) ELSE Idle
  BY <1>1 DEF Recorded, Go, Typed
<1>3. ASSUME answer[1] \notin {"accepted", "suspended"}
      PROVE  Answered(req[q], answer).at \in {"generation", "idle"}
  <2>1. req[q] \in Req
    BY DEF Typed
  <2>2. CASE answer[1] = "invalid" /\ req[q].kind = "recovery_totp"
    <3>1. Answered(req[q], answer) = [req[q] EXCEPT !.at = "generation"]
      BY <1>3, <2>2 DEF Answered
    <3> QED BY <2>1, <3>1 DEF Req
  <2>3. CASE ~(answer[1] = "invalid" /\ req[q].kind = "recovery_totp")
    <3>1. Answered(req[q], answer) = Idle
      BY <1>3, <2>3 DEF Answered
    <3> QED BY <3>1, IdleRequest
  <2> QED BY <2>2, <2>3
<1> QED BY <1>2, <1>3, IdleRequest

(* The steps of a request that presented nothing.                                          *)
LEMMA Elsewhere ==
  ASSUME Typed, NEW q \in Request, req[q].at \notin {"presented", "derived"}, NEW r, Go(q, r),
         NEW p \in Request, req[p].at \in {"presented", "derived"}
  PROVE  req'[p] = req[p]
BY DEF Typed, Go

LEMMA GoesSomewhere ==
  ASSUME NEW q \in Request,
         \/ Setup(q) \/ Login(q) \/ \E kind \in CeremonyKinds : Present(q, kind)
         \/ \E s \in tracked : Offer(q, s) \/ BeginRegistration(q, s) \/ CompleteRegistration(q, s) \/ Logout(q, s)
         \/ Settle(q) \/ Enroll(q) \/ ReadGeneration(q) \/ Issue(q) \/ Confirm(q)
         \/ EndAll(q) \/ FactorChanged(q) \/ ReadSecret(q) \/ SetSession(q)
  PROVE  req[q].at \notin {"presented", "derived"} /\ \E r : Go(q, r)
<1>1. CASE Setup(q)
  <2>1. \E at \in {"verifier", "deriving"} : Go(q, Received("setup", at)) \/ Go(q, Idle)
    BY <1>1, BeginsOne DEF Setup
  <2> QED BY <1>1, <2>1 DEF Setup, Receive
<1>2. CASE Login(q)
  BY <1>2, BeginsOne DEF Login, Receive
<1>3. CASE \E kind \in CeremonyKinds : Present(q, kind)
  <2>1. \E r : Go(q, r)
    BY <1>3 DEF Present
  <2> QED BY <1>3, <2>1 DEF Present, Receive
<1>4. CASE \E s \in tracked : Offer(q, s)
  BY <1>4, BeginsOne DEF Offer, Receive
<1>5. CASE \E s \in tracked : BeginRegistration(q, s) \/ CompleteRegistration(q, s) \/ Logout(q, s)
  <2>1. \E r : Go(q, r)
    BY <1>5 DEF BeginRegistration, CompleteRegistration, Logout
  <2> QED BY <1>5, <2>1 DEF BeginRegistration, CompleteRegistration, Logout, Receive
<1>6. CASE Settle(q)
  BY <1>6 DEF Settle
<1>7. CASE Enroll(q)
  BY <1>7 DEF Enroll
<1>8. CASE ReadGeneration(q) \/ Issue(q) \/ Confirm(q) \/ EndAll(q) \/ FactorChanged(q) \/ ReadSecret(q) \/ SetSession(q)
  BY <1>8 DEF ReadGeneration, Issue, Confirm, EndAll, FactorChanged, ReadSecret, SetSession
<1> QED BY <1>1, <1>2, <1>3, <1>4, <1>5, <1>6, <1>7, <1>8

LEMMA CompletesUnderItsFactors ==
  ASSUME Typed, [Next]_vars, NEW p \in Request, req[p].at \in {"presented", "derived"},
         req'[p].at \in {"accepted", "rotated", "confirmed", "secret"}
  PROVE  req[p].gen = rec.gen
<1>0. /\ Recording(rec) /\ req'[p] # req[p] /\ req[p].gen \in Nat /\ req[p].mark \in Nat
  BY TypedFields DEF Typed
<1>1. CASE UNCHANGED vars
  BY <1>0, <1>1 DEF vars
<1>2. CASE (\E count \in 1..2 : Acknowledge(count)) \/ Tick \/ Lapse
  BY <1>0, <1>2 DEF Acknowledge, Tick, Lapse
<1>3. CASE Crash
  BY <1>3, IdleRequest DEF Crash
<1>4. ASSUME NEW q \in Request,
             \/ Setup(q) \/ Login(q) \/ \E kind \in CeremonyKinds : Present(q, kind)
             \/ \E s \in tracked : Offer(q, s) \/ BeginRegistration(q, s) \/ CompleteRegistration(q, s) \/ Logout(q, s)
             \/ Settle(q) \/ Enroll(q) \/ ReadGeneration(q) \/ Issue(q) \/ Confirm(q)
             \/ EndAll(q) \/ FactorChanged(q) \/ ReadSecret(q) \/ SetSession(q)
      PROVE  FALSE
  BY <1>0, <1>4, GoesSomewhere, Elsewhere
<1>5. ASSUME NEW q \in Request,
             ConfirmSetup(q) \/ ConfirmLoginTotp(q) \/ ConfirmLoginPasskey(q) \/ ConfirmLoginRecovery(q)
             \/ ConfirmRecoveryEnrollment(q) \/ ConfirmOperation(q)
      PROVE  \E kind \in CeremonyKinds : Present(q, kind)
  BY <1>5 DEF ConfirmSetup, ConfirmLoginTotp, ConfirmLoginPasskey, ConfirmLoginRecovery,
     ConfirmRecoveryEnrollment, ConfirmOperation, CeremonyKinds
<1>6. ASSUME NEW q \in Request, Derive(q)
      PROVE  FALSE
  <2>1. req[q] \in Req /\ \E r \in {[req[q] EXCEPT !.at = "derived", !.mark = rec.codes.set], Idle} : Go(q, r)
    BY <1>6 DEF Derive, Typed
  <2>2. req'[q].at \in {"derived", "idle"} /\ (p # q => req'[p] = req[p])
    BY <2>1, IdleRequest DEF Go, Typed, Req
  <2> QED BY <1>0, <2>2
<1>7. ASSUME NEW q \in Request, NEW answer, NEW code, Mutate(q, answer, code)
      PROVE  q = p
  <2>1. PICK refused, written : Recorded(q, answer, code, refused, written)
    BY <1>7 DEF Mutate
  <2> QED BY <1>0, <2>1 DEF Recorded, Go, Typed
<1>8. ASSUME NEW q \in Request, CompleteTotp(q)
      PROVE  req[p].gen = rec.gen
  <2>1. PICK code \in Nat : Mutate(q, VerifyTotp(rec, code, req[q].kind, req[q].gen), <<"totp", rec.totp.seed, code>>)
    BY <1>8 DEF CompleteTotp
  <2>2. q = p
    BY <1>7, <2>1
  <2> DEFINE kind == req[q].kind
             gen == req[q].gen
  <2>3. gen \in Nat /\ kind \in {"setup_totp", "recovery_totp", "login_totp", "operation"} /\ Recording(rec)
    BY <1>0, <1>8, <2>2 DEF CompleteTotp
  <2> HIDE DEF kind, gen
  <2>4. VerifyTotp(rec, code, kind, gen)[1] \in {"accepted", "suspended"} => rec.gen = gen
    BY <2>3, VerifyTotpDoes
  <2>5. Mutate(q, VerifyTotp(rec, code, kind, gen), <<"totp", rec.totp.seed, code>>)
    BY <2>1 DEF kind, gen
  <2> QED BY <2>2, <2>4, <2>5, Completes DEF gen
<1>9. ASSUME NEW q \in Request, SpendCode(q)
      PROVE  req[p].gen = rec.gen
  <2>1. PICK code \in RecoveryCode \cup {None} : Mutate(q, Spend(rec, code, req[q].mark, req[q].gen), <<"recovery", req[q].mark, code>>)
    BY <1>9 DEF SpendCode
  <2>2. q = p
    BY <1>7, <2>1
  <2> DEFINE set == req[q].mark
             gen == req[q].gen
  <2>3. gen \in Nat /\ set \in Nat /\ Recording(rec)
    BY <1>0, <2>2
  <2> HIDE DEF set, gen
  <2>4. Spend(rec, code, set, gen)[1] \in {"accepted", "suspended"} => rec.gen = gen
    BY <2>3, SpendDoes
  <2>5. Mutate(q, Spend(rec, code, set, gen), <<"recovery", set, code>>)
    BY <2>1 DEF set, gen
  <2> QED BY <2>2, <2>4, <2>5, Completes DEF gen
<1>10. ASSUME NEW q \in Request, Assertion(q)
       PROVE  req[p].gen = rec.gen
  <2>1. PICK regressed \in BOOLEAN :
          Mutate(q, Commit(rec, req[q].gen, regressed, req[q].kind = "login_passkey"), <<"passkey", req[q].n>>)
    BY <1>10 DEF Assertion
  <2>2. q = p
    BY <1>7, <2>1
  <2>3. Commit(rec, req[q].gen, regressed, req[q].kind = "login_passkey")[1] \in {"accepted", "suspended"} => rec.gen = req[q].gen
    BY <1>0, <2>2, CommitDoes
  <2> QED BY <2>1, <2>2, <2>3, Completes
<1>11. ASSUME NEW q \in Request, RegisterPasskey(q)
       PROVE  req[p].gen = rec.gen
  <2>1. Mutate(q, AddPasskey(rec, req[q].gen), <<"registered", req[q].n>>)
    BY <1>11 DEF RegisterPasskey
  <2>2. q = p
    BY <1>7, <2>1
  <2>3. AddPasskey(rec, req[q].gen)[1] \in {"accepted", "suspended"} => rec.gen = req[q].gen
    BY <1>0, <2>2, AddPasskeyDoes
  <2> QED BY <2>1, <2>2, <2>3, Completes
<1>12. ASSUME NEW q \in Request, Regenerate(q)
       PROVE  FALSE
  <2>1. Mutate(q, ReplaceCodes(rec), <<"codes", req[q].n>>) /\ req[q].at = "replacing"
    BY <1>12 DEF Regenerate
  <2> QED BY <1>7, <2>1
<1>13. CASE \E q \in Request :
              CompleteTotp(q) \/ SpendCode(q) \/ Assertion(q) \/ RegisterPasskey(q) \/ Regenerate(q) \/ Derive(q)
  BY <1>6, <1>8, <1>9, <1>10, <1>11, <1>12, <1>13
<1>14. CASE Next /\ ~(\E q \in Request :
              CompleteTotp(q) \/ SpendCode(q) \/ Assertion(q) \/ RegisterPasskey(q) \/ Regenerate(q) \/ Derive(q))
  BY <1>2, <1>3, <1>4, <1>5, <1>14 DEF Next
<1> QED BY <1>1, <1>13, <1>14

(* A ceremony completes only under the factors its ticket was issued for, though tickets   *)
(* are made void only after the transaction that changed the factors.                      *)
THEOREM OnlyUnderItsFactors == Spec => FactorsOfTicket
<1>1. IInv /\ [Next]_vars =>
        [\A q \in Request :
           req[q].at \in {"presented", "derived"} /\ req'[q].at \in {"accepted", "rotated", "confirmed", "secret"} =>
             req[q].gen = rec.gen]_vars
  BY CompletesUnderItsFactors DEF IInv
<1> QED BY <1>1, Invariant, PTL DEF Spec, FactorsOfTicket

-----------------------------------------------------------------------------
(* The password limiter, beside whatever else is served.                                   *)

DInv ==
  /\ limiter = [busy |-> limiter.busy, failures |-> limiter.failures, lock |-> limiter.lock]
  /\ limiter.busy \in BOOLEAN /\ limiter.failures \in Nat /\ limiter.lock \in {"open", "locked", "over"}
  /\ limiter.failures <= LoginLimit /\ (limiter.lock = "open" => limiter.failures < LoginLimit)
  /\ limiter.busy => limiter.lock = "open"
  /\ limiter.busy <=> \E q \in Request : req[q].at = "deriving"
  /\ \A p, q \in Request : req[p].at = "deriving" /\ req[q].at = "deriving" => p = q

(* A step of a request that neither begins nor ends a derivation.                          *)
LEMMA BesideDerivations ==
  ASSUME req \in [Request -> Req], DInv, limiter' = limiter, NEW q \in Request, req[q].at # "deriving",
         NEW r, r.at # "deriving", Go(q, r)
  PROVE  DInv'
<1>1. \A p \in Request : req'[p].at = "deriving" <=> req[p].at = "deriving"
  BY DEF Go
<1> QED BY <1>1 DEF DInv

LEMMA BeginKeepsOne ==
  ASSUME req \in [Request -> Req], DInv, NEW q \in Request, req[q].at = "idle",
         NEW r, r.at = "deriving", Begin(q, r)
  PROVE  DInv'
<1> DEFINE open == IF limiter.lock = "over" THEN [limiter EXCEPT !.failures = 0, !.lock = "open"] ELSE limiter
           admitted == open.lock = "open" /\ ~open.busy
<1>1. limiter' = [open EXCEPT !.busy = @ \/ admitted] /\ Go(q, IF admitted THEN r ELSE Idle)
  BY DEF Begin
<1>2. /\ open = [busy |-> open.busy, failures |-> open.failures, lock |-> open.lock]
      /\ open.busy = limiter.busy /\ open.busy \in BOOLEAN /\ open.failures \in Nat /\ open.lock \in {"open", "locked"}
      /\ open.failures <= LoginLimit /\ (open.lock = "open" => open.failures < LoginLimit)
      /\ open.busy => open.lock = "open"
  <2>1. CASE limiter.lock = "over"
    <3>1. open = [busy |-> limiter.busy, failures |-> 0, lock |-> "open"]
      BY <2>1 DEF DInv
    <3> HIDE DEF open
    <3> QED BY <3>1, SignInAssumption DEF DInv
  <2>2. CASE limiter.lock # "over"
    <3>1. open = limiter
      BY <2>2
    <3> HIDE DEF open
    <3> QED BY <2>2, <3>1 DEF DInv
  <2> QED BY <2>1, <2>2
<1>3. \A p \in Request : req'[p] = IF p = q THEN (IF admitted THEN r ELSE Idle) ELSE req[p]
  BY <1>1 DEF Go
<1> HIDE DEF open
<1>4. CASE admitted
  <2>1. limiter' = [open EXCEPT !.busy = TRUE]
    BY <1>1, <1>2, <1>4
  <2>2. \A p \in Request : req'[p].at = "deriving" <=> p = q
    BY <1>2, <1>3, <1>4 DEF DInv
  <2> QED BY <1>2, <1>4, <2>1, <2>2 DEF DInv
<1>5. CASE ~admitted
  <2>1. limiter' = open
    BY <1>1, <1>2, <1>5
  <2>2. \A p \in Request : req'[p].at = "deriving" <=> req[p].at = "deriving"
    BY <1>3, <1>5, IdleRequest
  <2> QED BY <1>2, <2>1, <2>2 DEF DInv
<1> QED BY <1>4, <1>5

LEMMA SettleKeepsOne ==
  ASSUME req \in [Request -> Req], DInv, NEW q \in Request, Settle(q)
  PROVE  DInv'
<1>1. PICK right \in BOOLEAN :
        LET failures == IF right THEN 0 ELSE limiter.failures + 1
        IN /\ limiter' = [busy |-> FALSE, failures |-> failures, lock |-> IF failures >= LoginLimit THEN "locked" ELSE "open"]
           /\ Go(q, IF right THEN [req[q] EXCEPT !.at = "checked"] ELSE Idle)
  BY DEF Settle
<1> DEFINE failures == IF right THEN 0 ELSE limiter.failures + 1
<1>2. failures \in Nat /\ failures <= LoginLimit
  BY SignInAssumption DEF DInv, Settle
<1>3. limiter' = [busy |-> FALSE, failures |-> failures, lock |-> IF failures >= LoginLimit THEN "locked" ELSE "open"]
  BY <1>1
<1>4. \A p \in Request : req'[p].at # "deriving"
  <2>1. req[q] \in Req /\ req[q].at = "deriving"
    BY DEF Settle
  <2>2. [req[q] EXCEPT !.at = "checked"].at = "checked"
    BY <2>1 DEF Req
  <2>3. req'[q].at # "deriving"
    BY <1>1, <2>2, IdleRequest DEF Go
  <2>4. \A p \in Request : p # q => req'[p] = req[p]
    BY <1>1 DEF Go
  <2> QED BY <2>1, <2>3, <2>4 DEF DInv
<1> HIDE DEF failures
<1> QED BY <1>2, <1>3, <1>4, SignInAssumption DEF DInv

LEMMA AnsweredElsewhere ==
  ASSUME NEW r \in Req, NEW answer
  PROVE  Answered(r, answer).at # "deriving"
<1>1. ASSUME NEW at \in {"accepted", "rotated", "ended", "generation", "confirmed"}
      PROVE  [r EXCEPT !.at = at].at # "deriving"
  BY DEF Req
<1>2. ASSUME NEW at \in {"rotated", "secret"}
      PROVE  [r EXCEPT !.at = at, !.secret = answer[2].secret, !.mark = answer[2].totp.seed].at # "deriving"
  BY DEF Req
<1>3. [r EXCEPT !.at = "rotated", !.kind = "suspended"].at # "deriving" /\ Idle.at # "deriving"
  BY IdleRequest DEF Req
<1>4. \/ \E at \in {"accepted", "rotated", "ended", "generation", "confirmed"} : Answered(r, answer) = [r EXCEPT !.at = at]
      \/ \E at \in {"rotated", "secret"} :
           Answered(r, answer) = [r EXCEPT !.at = at, !.secret = answer[2].secret, !.mark = answer[2].totp.seed]
      \/ Answered(r, answer) = [r EXCEPT !.at = "rotated", !.kind = "suspended"]
      \/ Answered(r, answer) = Idle
  BY DEF Answered
<1>5. CASE \E at \in {"accepted", "rotated", "ended", "generation", "confirmed"} : Answered(r, answer) = [r EXCEPT !.at = at]
  BY <1>1, <1>5
<1>6. CASE \E at \in {"rotated", "secret"} :
             Answered(r, answer) = [r EXCEPT !.at = at, !.secret = answer[2].secret, !.mark = answer[2].totp.seed]
  BY <1>2, <1>6
<1> QED BY <1>3, <1>4, <1>5, <1>6

(* Every other step of a request leaves the limiter and the derivations alone.             *)
LEMMA OthersKeepOne ==
  ASSUME Typed, DInv, NEW q \in Request,
         \/ (Setup(q) /\ AuthState(rec) = "uninitialized") \/ \E kind \in CeremonyKinds : Present(q, kind)
         \/ \E s \in tracked : BeginRegistration(q, s) \/ CompleteRegistration(q, s) \/ Logout(q, s)
         \/ Enroll(q) \/ ReadGeneration(q) \/ Issue(q) \/ Derive(q) \/ Confirm(q)
         \/ EndAll(q) \/ FactorChanged(q) \/ ReadSecret(q) \/ SetSession(q)
         \/ CompleteTotp(q) \/ Assertion(q) \/ SpendCode(q) \/ RegisterPasskey(q) \/ Regenerate(q)
  PROVE  DInv'
<1>0. req \in [Request -> Req] /\ req[q] \in Req /\ Idle.at = "idle" /\ received + 1 \in Nat
  BY IdleRequest DEF Typed
<1>1. limiter' = limiter /\ req[q].at # "deriving"
  <2>1. CASE Setup(q) /\ AuthState(rec) = "uninitialized"
    BY <2>1 DEF Setup, Receive
  <2>2. CASE \E kind \in CeremonyKinds : Present(q, kind)
    BY <2>2 DEF Present, Receive
  <2>3. CASE \E s \in tracked : BeginRegistration(q, s) \/ CompleteRegistration(q, s) \/ Logout(q, s)
    BY <2>3 DEF BeginRegistration, CompleteRegistration, Logout, Receive, memory
  <2>4. CASE Enroll(q) \/ ReadGeneration(q) \/ Issue(q) \/ Derive(q) \/ Confirm(q)
    BY <2>4 DEF Enroll, ReadGeneration, Issue, Derive, Confirm, Unmoved, memory
  <2>5. CASE EndAll(q) \/ FactorChanged(q) \/ ReadSecret(q) \/ SetSession(q)
    BY <2>5 DEF EndAll, FactorChanged, ReadSecret, SetSession, memory
  <2>6. CASE CompleteTotp(q) \/ Assertion(q) \/ SpendCode(q) \/ RegisterPasskey(q) \/ Regenerate(q)
    BY <2>6 DEF CompleteTotp, Assertion, SpendCode, RegisterPasskey, Regenerate, Unmoved, memory
  <2> QED BY <2>1, <2>2, <2>3, <2>4, <2>5, <2>6
<1>2. \A at \in Places : [req[q] EXCEPT !.at = at].at = at
  BY <1>0 DEF Req
<1>3. \E r : r.at # "deriving" /\ Go(q, r)
  <2>1. CASE Setup(q) /\ AuthState(rec) = "uninitialized"
    <3>1. Go(q, Received("setup", "verifier")) /\ Received("setup", "verifier").at = "verifier"
      BY <2>1, ReceivedIs DEF Setup, Places, CeremonyKinds
    <3> QED BY <3>1
  <2>2. CASE \E kind \in CeremonyKinds : Present(q, kind)
    <3>1. PICK kind \in CeremonyKinds : Present(q, kind)
      BY <2>2
    <3>2. PICK t \in tickets, s \in tracked \cup {0} :
            \/ Go(q, [Received(kind, "presented") EXCEPT !.ticket = t.id, !.gen = t.gen, !.mark = s])
            \/ Go(q, Idle)
      BY <3>1 DEF Present
    <3> DEFINE new == Received(kind, "presented")
               r == [new EXCEPT !.ticket = t.id, !.gen = t.gen, !.mark = s]
    <3>3. new \in Req /\ new.at = "presented"
      BY ReceivedIs DEF Places
    <3>4. Go(q, r) \/ Go(q, Idle)
      BY <3>2
    <3> HIDE DEF new
    <3>5. r.at = "presented"
      BY <3>3 DEF Req
    <3> HIDE DEF r
    <3> QED BY <1>0, <3>4, <3>5
  <2>3. CASE \E s \in tracked : BeginRegistration(q, s)
    <3>1. PICK s \in tracked : BeginRegistration(q, s)
      BY <2>3
    <3> DEFINE new == Received("register", "checked")
               r == [new EXCEPT !.mark = s]
    <3>2. new \in Req /\ new.at = "checked"
      BY ReceivedIs DEF Places, CeremonyKinds
    <3>3. Go(q, r)
      BY <3>1 DEF BeginRegistration
    <3> HIDE DEF new
    <3>4. r.at = "checked"
      BY <3>2 DEF Req
    <3> HIDE DEF r
    <3> QED BY <3>3, <3>4
  <2>4. CASE \E s \in tracked : CompleteRegistration(q, s)
    <3>1. PICK c \in challenges : Go(q, [Received("registered", "presented") EXCEPT !.gen = c.gen]) \/ Go(q, Idle)
      BY <2>4 DEF CompleteRegistration
    <3> DEFINE new == Received("registered", "presented")
               r == [new EXCEPT !.gen = c.gen]
    <3>2. new \in Req /\ new.at = "presented"
      BY ReceivedIs DEF Places, CeremonyKinds
    <3>3. Go(q, r) \/ Go(q, Idle)
      BY <3>1
    <3> HIDE DEF new
    <3>4. r.at = "presented"
      BY <3>2 DEF Req
    <3> HIDE DEF r
    <3> QED BY <1>0, <3>3, <3>4
  <2>5. CASE \E s \in tracked : Logout(q, s)
    <3>1. Go(q, Received("logout", "rotated")) /\ Received("logout", "rotated").at = "rotated"
      BY <2>5, ReceivedIs DEF Logout, Places, CeremonyKinds
    <3> QED BY <3>1
  <2>6. CASE Enroll(q)
    BY <1>0, <1>2, <2>6 DEF Enroll, Places
  <2>7. CASE ReadGeneration(q)
    <3>1. Go(q, [req[q] EXCEPT !.at = "generation", !.gen = rec.gen])
      BY <2>7 DEF ReadGeneration
    <3>2. [req[q] EXCEPT !.at = "generation", !.gen = rec.gen].at = "generation"
      BY <1>0 DEF Req
    <3> QED BY <3>1, <3>2
  <2>8. CASE Issue(q) \/ SetSession(q)
    BY <1>0, <2>8 DEF Issue, SetSession
  <2>9. CASE Derive(q)
    <3>1. Go(q, [req[q] EXCEPT !.at = "derived", !.mark = rec.codes.set]) \/ Go(q, Idle)
      BY <2>9 DEF Derive
    <3>2. [req[q] EXCEPT !.at = "derived", !.mark = rec.codes.set].at = "derived"
      BY <1>0 DEF Req
    <3> QED BY <1>0, <3>1, <3>2
  <2>10. CASE Confirm(q)
    BY <1>0, <1>2, <2>10 DEF Confirm, Places
  <2>11. CASE EndAll(q)
    BY <1>0, <1>2, <2>11 DEF EndAll, Places
  <2>12. CASE FactorChanged(q)
    <3>1. Go(q, Idle) \/ \E at \in {"checked", "accepted", "secret"} : Go(q, [req[q] EXCEPT !.at = at])
      BY <2>12 DEF FactorChanged
    <3> QED BY <1>0, <1>2, <3>1 DEF Places
  <2>13. CASE ReadSecret(q)
    <3>1. Go(q, [req[q] EXCEPT !.at = "secret", !.secret = rec.secret])
      BY <2>13 DEF ReadSecret
    <3>2. [req[q] EXCEPT !.at = "secret", !.secret = rec.secret].at = "secret"
      BY <1>0 DEF Req
    <3> QED BY <3>1, <3>2
  <2>14. CASE CompleteTotp(q) \/ Assertion(q) \/ SpendCode(q) \/ RegisterPasskey(q) \/ Regenerate(q)
    <3>1. \E answer, code : Mutate(q, answer, code)
      BY <2>14 DEF CompleteTotp, Assertion, SpendCode, RegisterPasskey, Regenerate
    <3>2. PICK answer : Go(q, Answered(req[q], answer)) \/ Go(q, Idle)
      BY <3>1 DEF Mutate, Recorded
    <3>3. Answered(req[q], answer).at # "deriving"
      BY <1>0, AnsweredElsewhere
    <3> QED BY <1>0, <3>2, <3>3
  <2> QED BY <2>1, <2>2, <2>3, <2>4, <2>5, <2>6, <2>7, <2>8, <2>9, <2>10, <2>11, <2>12, <2>13, <2>14
<1> QED BY <1>0, <1>1, <1>3, BesideDerivations

LEMMA NewDerivations ==
  ASSUME Typed, DInv, NEW q \in Request,
         Setup(q) \/ Login(q) \/ \E s \in tracked : Offer(q, s)
  PROVE  DInv'
<1>0. req \in [Request -> Req] /\ req[q].at = "idle"
  BY DEF Typed, Setup, Login, Offer, Receive
<1>1. ASSUME NEW kind \in CeremonyKinds, NEW mark
      PROVE  [Received(kind, "deriving") EXCEPT !.mark = mark].at = "deriving"
  <2>1. Received(kind, "deriving") \in Req /\ Received(kind, "deriving").at = "deriving"
    BY ReceivedIs DEF Places
  <2> QED BY <2>1 DEF Req
<1>2. CASE Setup(q) /\ AuthState(rec) = "uninitialized"
  BY <1>2, OthersKeepOne
<1>3. CASE Setup(q) /\ AuthState(rec) # "uninitialized"
  <2>1. Begin(q, Received("setup", "deriving"))
    BY <1>3 DEF Setup
  <2>2. Received("setup", "deriving").at = "deriving"
    BY ReceivedIs DEF Places, CeremonyKinds
  <2> QED BY <1>0, <2>1, <2>2, BeginKeepsOne
<1>4. CASE Login(q)
  <2> DEFINE r == [Received("login", "deriving") EXCEPT !.mark = IF AuthState(rec) = "configured" THEN 1 ELSE 0]
  <2>1. Begin(q, r)
    BY <1>4 DEF Login
  <2>2. r.at = "deriving"
    BY <1>1 DEF CeremonyKinds
  <2> HIDE DEF r
  <2> QED BY <1>0, <2>1, <2>2, BeginKeepsOne
<1>5. CASE \E s \in tracked : Offer(q, s)
  <2> DEFINE r == [Received("offer", "deriving") EXCEPT !.mark = 1]
  <2>1. Begin(q, r)
    BY <1>5 DEF Offer
  <2>2. r.at = "deriving"
    BY <1>1 DEF CeremonyKinds
  <2> HIDE DEF r
  <2> QED BY <1>0, <2>1, <2>2, BeginKeepsOne
<1> QED BY <1>2, <1>3, <1>4, <1>5

LEMMA StepsKeepOne == ASSUME Typed, DInv, [Next]_vars PROVE DInv'
<1>0. req \in [Request -> Req]
  BY DEF Typed
<1>1. CASE UNCHANGED vars \/ (\E count \in 1..2 : Acknowledge(count)) \/ Tick
  <2>1. limiter' = limiter /\ req' = req
    BY <1>1 DEF vars, Acknowledge, Unmoved, Tick, memory
  <2> QED BY <2>1 DEF DInv
<1>2. CASE Lapse
  <2>1. req' = req /\ (limiter' = limiter \/ (limiter.lock = "locked" /\ limiter' = [limiter EXCEPT !.lock = "over"]))
    BY <1>2 DEF Lapse
  <2>2. CASE limiter' = limiter
    BY <2>1, <2>2 DEF DInv
  <2>3. CASE limiter.lock = "locked" /\ limiter' = [limiter EXCEPT !.lock = "over"]
    <3>1. limiter' = [busy |-> limiter.busy, failures |-> limiter.failures, lock |-> "over"]
      BY <2>3 DEF DInv
    <3> QED BY <2>1, <2>3, <3>1 DEF DInv
  <2> QED BY <2>1, <2>2, <2>3
<1>3. CASE Crash
  <2>1. limiter' = [busy |-> FALSE, failures |-> 0, lock |-> "open"] /\ \A q \in Request : req'[q].at # "deriving"
    BY <1>3, IdleRequest DEF Crash
  <2> QED BY <2>1, SignInAssumption DEF DInv
<1>4. ASSUME NEW q \in Request, Setup(q) \/ Login(q) \/ \E s \in tracked : Offer(q, s)
      PROVE  DInv'
  BY <1>4, NewDerivations
<1>5. ASSUME NEW q \in Request, Settle(q)
      PROVE  DInv'
  BY <1>0, <1>5, SettleKeepsOne
<1>6. ASSUME NEW q \in Request,
             \/ ConfirmSetup(q) \/ ConfirmLoginTotp(q) \/ ConfirmLoginPasskey(q) \/ ConfirmLoginRecovery(q)
             \/ ConfirmRecoveryEnrollment(q) \/ ConfirmOperation(q)
      PROVE  DInv'
  <2>1. \E kind \in CeremonyKinds : Present(q, kind)
    BY <1>6 DEF ConfirmSetup, ConfirmLoginTotp, ConfirmLoginPasskey, ConfirmLoginRecovery,
       ConfirmRecoveryEnrollment, ConfirmOperation, CeremonyKinds
  <2> QED BY <2>1, OthersKeepOne
<1>7. ASSUME NEW q \in Request,
             \/ \E s \in tracked : BeginRegistration(q, s) \/ CompleteRegistration(q, s) \/ Logout(q, s)
             \/ Enroll(q) \/ ReadGeneration(q) \/ Issue(q) \/ Derive(q) \/ Confirm(q)
             \/ EndAll(q) \/ FactorChanged(q) \/ ReadSecret(q) \/ SetSession(q)
             \/ CompleteTotp(q) \/ Assertion(q) \/ SpendCode(q) \/ RegisterPasskey(q) \/ Regenerate(q)
      PROVE  DInv'
  BY <1>7, OthersKeepOne
<1> QED BY <1>1, <1>2, <1>3, <1>4, <1>5, <1>6, <1>7 DEF Next

LEMMA StartsOne == ASSUME Init PROVE DInv
<1>1. limiter = [busy |-> FALSE, failures |-> 0, lock |-> "open"] /\ \A q \in Request : req[q].at # "deriving"
  BY IdleRequest DEF Init
<1>2. limiter.busy = FALSE /\ limiter.failures = 0 /\ limiter.lock = "open"
  BY <1>1
<1> QED BY <1>1, <1>2, SignInAssumption DEF DInv

-----------------------------------------------------------------------------
(* What the record says of itself, and what a passkey's session stands on.                 *)

Sound(r) ==
  /\ r.password \/ r = Fresh
  /\ r.password => r.secret > 0 /\ r.totp.status \in {"pending", "active"}
  /\ r.passkey # "none" => r.codes.set > 0
  /\ r.since <= MaxFailures /\ r.unack <= MaxFailures

(* The secret stays only while the seed and the passkey do.                                *)
Same(r, n) ==
  \/ n.secret > r.secret
  \/ n.secret = r.secret /\ n.totp.seed = r.totp.seed /\ n.passkey = r.passkey

(* A refusal is counted; another transaction leaves the counters or reports them.          *)
Told(r, n, refusal) ==
  \/ refusal /\ n.since = Capped(r.since + 1) /\ n.unack = r.unack
  \/ ~refusal /\ n.since = r.since /\ n.unack = r.unack
  \/ ~refusal /\ n.since = 0 /\ n.unack = Capped(r.unack + r.since)

Takes(r, answer) ==
  Sound(answer[2]) /\ Same(r, answer[2]) /\ Told(r, answer[2], answer[1] \in {"invalid", "locked"})

LEMMA TakesIs ==
  ASSUME NEW r, NEW outcome, NEW n, Sound(n), Same(r, n),
         \/ outcome \in {"invalid", "locked"} /\ Told(r, n, TRUE)
         \/ outcome \notin {"invalid", "locked"} /\ Told(r, n, FALSE)
  PROVE  Takes(r, <<outcome, n>>)
<1>1. Told(r, n, outcome \in {"invalid", "locked"})
  BY DEF Told
<1> QED BY <1>1 DEF Takes

LEMMA CappedIs ==
  ASSUME NEW n \in Nat
  PROVE  Capped(n) \in Nat /\ Capped(n) <= MaxFailures /\ Capped(n) <= n /\ (n <= MaxFailures => Capped(n) = n)
BY SignInAssumption DEF Capped

LEMMA FactorStatus ==
  ASSUME NEW t \in Factor, t.status \in {"pending", "active"}, NEW code \in Nat
  PROVE  Verify(t, code)[2].status \in {"pending", "active"} /\ Failed(t).status = t.status
<1>1. Failed(t).status = t.status
  BY DEF Failed, Factor
<1>2. ASSUME NEW fits \in BOOLEAN
      PROVE  Tried(t, code, fits)[2].status \in {"pending", "active"}
  <2>1. CASE t.status = "pending" /\ t.expired
    BY <2>1 DEF Tried
  <2>2. CASE ~(t.status = "pending" /\ t.expired) /\ t.locked
    BY <2>2 DEF Tried
  <2>3. CASE ~(t.status = "pending" /\ t.expired) /\ ~t.locked /\ ~fits
    <3>1. Tried(t, code, fits) = <<IF Failed(t).locked THEN "locked" ELSE "invalid", Failed(t)>>
      BY <2>3 DEF Tried
    <3> QED BY <1>1, <3>1
  <2>4. CASE ~(t.status = "pending" /\ t.expired) /\ ~t.locked /\ fits
    <3> DEFINE u == [t EXCEPT !.status = "active", !.failures = 0, !.last = code]
    <3>1. Tried(t, code, fits) = <<"accepted", u>>
      BY <2>4 DEF Tried
    <3>2. u.status = "active"
      BY DEF Factor
    <3> HIDE DEF u
    <3> QED BY <3>1, <3>2
  <2> QED BY <2>1, <2>2, <2>3, <2>4 DEF Factor
<1>3. (Matches(code) /\ code > t.last) \in BOOLEAN
  BY DEF Matches
<1> QED BY <1>1, <1>2, <1>3 DEF Verify

(* The ways a transaction leaves a record: refused, reported, or as it was but for its     *)
(* factor.                                                                                 *)
LEMMA FactorMoves ==
  ASSUME NEW r \in Rec, Sound(r), r.password, NEW t \in Factor,
         t.seed = r.totp.seed, t.status \in {"pending", "active"}
  PROVE  LET n == [r EXCEPT !.totp = t]
         IN /\ n \in Rec /\ Sound(n) /\ Same(r, n) /\ Told(r, n, FALSE)
            /\ Refused(n) \in Rec /\ Sound(Refused(n)) /\ Same(r, Refused(n)) /\ Told(r, Refused(n), TRUE)
            /\ SignedIn(n) \in Rec /\ Sound(SignedIn(n)) /\ Same(r, SignedIn(n)) /\ Told(r, SignedIn(n), FALSE)
<1> DEFINE n == [r EXCEPT !.totp = t]
<1>1. n \in Rec /\ n.totp = t /\ \A f \in {"password", "codes", "gen", "secret", "passkey", "since", "unack"} : n[f] = r[f]
  BY DEF Rec
<1>2. /\ r.since \in Nat /\ r.unack \in Nat /\ r.since + 1 \in Nat /\ r.unack + r.since \in Nat
      /\ r.secret \in Nat /\ r.since <= MaxFailures /\ r.unack <= MaxFailures
  BY RecordFields DEF Sound
<1>3. Sound(n) /\ Same(r, n) /\ Told(r, n, FALSE)
  BY <1>1, <1>2 DEF Sound, Same, Told
<1> HIDE DEF n
<1>4. /\ Capped(r.since + 1) \in Nat /\ Capped(r.since + 1) <= MaxFailures
      /\ Capped(r.unack + r.since) \in Nat /\ Capped(r.unack + r.since) <= MaxFailures
  BY <1>2, CappedIs
<1>5. Refused(n) \in Rec /\ Sound(Refused(n)) /\ Same(r, Refused(n)) /\ Told(r, Refused(n), TRUE)
  <2> DEFINE m == [n EXCEPT !.since = Capped(r.since + 1)]
  <2>1. Refused(n) = m
    BY <1>1 DEF Refused
  <2>2. m \in Rec /\ m.since = Capped(r.since + 1)
        /\ \A f \in {"password", "totp", "codes", "gen", "secret", "passkey", "unack"} : m[f] = n[f]
    BY <1>1, <1>4 DEF Rec
  <2> HIDE DEF m
  <2>3. m \in Rec /\ Sound(m) /\ Same(r, m) /\ Told(r, m, TRUE)
    BY <1>1, <1>2, <1>3, <1>4, <2>2 DEF Sound, Same, Told
  <2> QED BY <2>1, <2>3
<1>6. SignedIn(n) \in Rec /\ Sound(SignedIn(n)) /\ Same(r, SignedIn(n)) /\ Told(r, SignedIn(n), FALSE)
  <2> DEFINE m == [n EXCEPT !.unack = Capped(r.unack + r.since), !.since = 0]
  <2>1. SignedIn(n) = m
    BY <1>1 DEF SignedIn
  <2>2. m \in Rec /\ m.since = 0 /\ m.unack = Capped(r.unack + r.since)
        /\ \A f \in {"password", "totp", "codes", "gen", "secret", "passkey"} : m[f] = n[f]
    BY <1>1, <1>4 DEF Rec
  <2> HIDE DEF m
  <2>3. m \in Rec /\ Sound(m) /\ Same(r, m) /\ Told(r, m, FALSE)
    BY <1>1, <1>2, <1>3, <1>4, <2>2, SignInAssumption DEF Sound, Same, Told
  <2> QED BY <2>1, <2>3
<1> QED BY <1>1, <1>3, <1>5, <1>6 DEF n

(* A new secret ends what stood on the old one, whatever else changes with it.             *)
LEMMA RotatedTakes ==
  ASSUME NEW r \in Rec, Sound(r), NEW n \in Rec, n.password, n.secret = r.secret,
         n.totp.status \in {"pending", "active"}, n.passkey # "none" => n.codes.set > 0,
         n.since <= MaxFailures, n.unack <= MaxFailures
  PROVE  /\ Rotated(n) \in Rec /\ Sound(Rotated(n)) /\ Same(r, Rotated(n)) /\ Rotated(n).secret > 0
         /\ \A f \in {"password", "totp", "codes", "gen", "passkey", "since", "unack"} : Rotated(n)[f] = n[f]
<1> DEFINE m == [n EXCEPT !.secret = n.secret + 1]
<1>1. n.secret \in Nat /\ n.secret + 1 \in Nat /\ n.secret + 1 > r.secret /\ n.secret + 1 > 0
  BY RecordFields
<1>2. Rotated(n) = m
  BY DEF Rotated
<1>3. m \in Rec /\ m.secret = n.secret + 1
      /\ \A f \in {"password", "totp", "codes", "gen", "passkey", "since", "unack"} : m[f] = n[f]
  BY <1>1 DEF Rec
<1> HIDE DEF m
<1>4. Sound(m) /\ Same(r, m)
  BY <1>1, <1>3 DEF Sound, Same
<1> QED BY <1>1, <1>2, <1>3, <1>4

LEMMA NothingTaken ==
  ASSUME NEW r \in Rec, Sound(r), NEW answer, answer[1] \notin {"invalid", "locked"}, answer[2] = r
  PROVE  Takes(r, answer)
BY DEF Takes, Same, Told

LEMMA TotpTakes ==
  ASSUME NEW r, Recording(r), Sound(r), NEW code \in Nat, NEW gen \in Nat,
         NEW ceremony \in {"setup_totp", "recovery_totp", "login_totp", "operation"}
  PROVE  Takes(r, VerifyTotp(r, code, ceremony, gen))
<1>r. r \in Rec /\ r.totp \in Factor
  BY RecordFields DEF Recording
<1>1. CASE AuthState(r) # Requires(ceremony) \/ r.gen # gen
  <2>1. VerifyTotp(r, code, ceremony, gen) \in {<<"refused", r>>, <<"changed", r>>}
    BY <1>1 DEF VerifyTotp
  <2> QED BY <1>r, <2>1, NothingTaken
<1>2. CASE AuthState(r) = Requires(ceremony) /\ r.gen = gen
  <2> DEFINE verified == Verify(r.totp, code)
             t == verified[2]
             n == [r EXCEPT !.totp = t]
  <2>0. VerifyTotp(r, code, ceremony, gen) = Attempt(r, code, ceremony)
    BY <1>2 DEF VerifyTotp
  <2>1. r.password /\ r.totp.status \in {"pending", "active"}
    BY <1>2, HasPassword DEF Requires, Sound
  <2>2. /\ verified[1] \in {"accepted", "invalid", "locked", "expired"} /\ t \in Factor /\ t.seed = r.totp.seed
        /\ t.status \in {"pending", "active"}
    BY <1>r, <2>1, Verified, FactorStatus
  <2>3. /\ n \in Rec /\ Sound(n) /\ Same(r, n) /\ Told(r, n, FALSE)
        /\ Sound(Refused(n)) /\ Same(r, Refused(n)) /\ Told(r, Refused(n), TRUE)
        /\ SignedIn(n) \in Rec /\ Sound(SignedIn(n)) /\ Same(r, SignedIn(n)) /\ Told(r, SignedIn(n), FALSE)
    BY <1>r, <2>1, <2>2, FactorMoves
  <2>4. CASE verified[1] \in {"invalid", "locked"}
    <3>1. Attempt(r, code, ceremony) = <<verified[1], Refused(n)>>
      BY <2>4 DEF Attempt
    <3> HIDE DEF verified, n
    <3> QED BY <2>0, <2>3, <2>4, <3>1, TakesIs
  <2>5. CASE verified[1] = "expired"
    <3>1. Attempt(r, code, ceremony) = <<"expired", r>>
      BY <2>5 DEF Attempt
    <3> QED BY <1>r, <2>0, <3>1, NothingTaken
  <2>6. CASE verified[1] = "accepted" /\ ceremony = "operation"
    <3>1. Attempt(r, code, ceremony) = <<"accepted", n>>
      BY <2>6 DEF Attempt, Enrolls
    <3> HIDE DEF verified, n
    <3> QED BY <2>0, <2>3, <3>1, TakesIs
  <2>7. CASE verified[1] = "accepted" /\ ceremony = "login_totp"
    <3>1. Attempt(r, code, ceremony) = <<"accepted", SignedIn(n)>>
      BY <2>7 DEF Attempt, Enrolls
    <3> HIDE DEF verified, n
    <3> QED BY <2>0, <2>3, <3>1, TakesIs
  <2>8. CASE verified[1] = "accepted" /\ Enrolls(ceremony)
    <3> DEFINE m == SignedIn(n)
               e == [m EXCEPT !.codes = NewSet(r), !.gen = m.gen + 1]
    <3>1. Attempt(r, code, ceremony) = <<"accepted", Rotated(e)>>
      BY <2>8 DEF Attempt, Enrolls
    <3>2. m \in Rec /\ Sound(m) /\ m.gen + 1 \in Nat /\ m.password /\ m.secret = r.secret /\ Told(r, m, FALSE)
      <4>1. n \in Rec /\ n.password /\ n.secret = r.secret
        BY <1>r, <2>1, <2>3 DEF Rec
      <4>2. m.password = n.password /\ m.secret = n.secret
        BY <4>1 DEF SignedIn, Rec
      <4> HIDE DEF m, n, verified
      <4>3. m \in Rec /\ Sound(m) /\ Told(r, m, FALSE)
        BY <2>3 DEF m
      <4>4. m.gen + 1 \in Nat
        BY <4>3, RecordFields
      <4>5. m.password
        BY <4>1, <4>2
      <4>6. m.secret = r.secret
        BY <4>1, <4>2
      <4> QED BY <4>3, <4>4, <4>5, <4>6
    <3>3. NewSet(r) \in Codes /\ NewSet(r).set > 0
      BY <1>r, RecordFields DEF NewSet, Codes
    <3> HIDE DEF verified, n, m
    <3>4. e \in Rec /\ e.codes = NewSet(r)
          /\ \A f \in {"password", "totp", "secret", "passkey", "since", "unack"} : e[f] = m[f]
      BY <3>2, <3>3 DEF Rec
    <3> HIDE DEF e
    <3>5. /\ e.password /\ e.secret = r.secret /\ e.totp.status \in {"pending", "active"} /\ e.codes.set > 0
          /\ e.since <= MaxFailures /\ e.unack <= MaxFailures
      BY <3>2, <3>3, <3>4 DEF Sound
    <3>6. Sound(Rotated(e)) /\ Same(r, Rotated(e)) /\ Rotated(e).since = m.since /\ Rotated(e).unack = m.unack
      BY <1>r, <3>4, <3>5, RotatedTakes
    <3>7. Told(r, Rotated(e), FALSE)
      BY <3>2, <3>6 DEF Told
    <3> QED BY <2>0, <3>1, <3>6, <3>7, TakesIs
  <2> QED BY <2>2, <2>4, <2>5, <2>6, <2>7, <2>8 DEF Enrolls
<1> QED BY <1>1, <1>2

LEMMA SpendTakes ==
  ASSUME NEW r, Recording(r), Sound(r), NEW code \in RecoveryCode \cup {None}, NEW set \in Nat, NEW gen \in Nat
  PROVE  Takes(r, Spend(r, code, set, gen))
<1>r. r \in Rec /\ r.totp \in Factor
  BY RecordFields DEF Recording
<1>1. CASE AuthState(r) \notin {"configured", "recovery"} \/ r.gen # gen \/ r.codes.set # set
  <2>1. Spend(r, code, set, gen) \in {<<"refused", r>>, <<"changed", r>>}
    BY <1>1 DEF Spend
  <2> QED BY <1>r, <2>1, NothingTaken
<1> DEFINE open == AuthState(r) \in {"configured", "recovery"} /\ r.gen = gen /\ r.codes.set = set
<1>2. open => r.password /\ r.totp.status \in {"pending", "active"}
  BY HasPassword DEF Sound
<1>3. CASE open /\ r.totp.locked
  <2>1. Spend(r, code, set, gen) = <<"locked", Refused(r)>>
    BY <1>3 DEF Spend
  <2>2. [r EXCEPT !.totp = r.totp] = r
    BY <1>r DEF Rec
  <2>3. Sound(Refused(r)) /\ Same(r, Refused(r)) /\ Told(r, Refused(r), TRUE)
    BY <1>r, <1>2, <1>3, <2>2, FactorMoves
  <2> QED BY <2>1, <2>3, TakesIs
<1>4. CASE open /\ ~r.totp.locked /\ code \notin r.codes.unused
  <2> DEFINE t == Failed(r.totp)
             n == [r EXCEPT !.totp = t]
  <2>1. Spend(r, code, set, gen) = <<IF t.locked THEN "locked" ELSE "invalid", [Refused(r) EXCEPT !.totp = Failed(@)]>>
    BY <1>4 DEF Spend
  <2>2. [Refused(r) EXCEPT !.totp = Failed(@)] = Refused(n)
    <3>1. t \in Factor
      BY <1>r, FailedKeeps
    <3>2. Refused(r) = [r EXCEPT !.since = Capped(r.since + 1)] /\ Refused(n) = [n EXCEPT !.since = Capped(r.since + 1)]
      BY <1>r DEF Refused, Rec
    <3> HIDE DEF t
    <3>3. [Refused(r) EXCEPT !.totp = Failed(@)] = [Refused(r) EXCEPT !.totp = t]
      BY <1>r, <3>2 DEF t, Rec
    <3> QED BY <1>r, <3>2, <3>3 DEF Rec
  <2>3. t \in Factor /\ t.seed = r.totp.seed /\ t.status \in {"pending", "active"}
    BY <1>r, <1>2, <1>4, FailedKeeps, FactorStatus
  <2>4. Sound(Refused(n)) /\ Same(r, Refused(n)) /\ Told(r, Refused(n), TRUE)
    BY <1>r, <1>2, <1>4, <2>3, FactorMoves
  <2>5. PICK outcome \in {"invalid", "locked"} : Spend(r, code, set, gen) = <<outcome, Refused(n)>>
    BY <2>1, <2>2
  <2> HIDE DEF n
  <2> QED BY <2>4, <2>5, TakesIs
<1>5. CASE open /\ ~r.totp.locked /\ code \in r.codes.unused
  <2> DEFINE factor == NewTotp(r.totp.seed + 1)
             left == [r.codes EXCEPT !.unused = @ \ {code}]
             m == [r EXCEPT !.codes.unused = @ \ {code}, !.totp = factor, !.gen = gen + 1]
  <2>1. Spend(r, code, set, gen) = <<"accepted", Rotated(m)>>
    BY <1>5 DEF Spend
  <2>2. factor \in Factor /\ factor.status = "pending"
    <3>1. r.totp.seed + 1 \in Nat
      BY <1>r, RecordFields
    <3> QED BY <3>1 DEF NewTotp, NoTotp, Factor
  <2>3. left \in Codes /\ left.set = r.codes.set
    BY <1>r, RecordFields DEF Codes
  <2>4. m = [r EXCEPT !.codes = left, !.totp = factor, !.gen = gen + 1]
    BY <1>r, RecordFields DEF Rec
  <2> HIDE DEF factor, left, m
  <2>5. /\ m \in Rec /\ m.totp = factor /\ m.codes = left
        /\ \A f \in {"password", "secret", "passkey", "since", "unack"} : m[f] = r[f]
    <3>1. gen + 1 \in Nat
      OBVIOUS
    <3>2. [r EXCEPT !.codes = left, !.totp = factor, !.gen = gen + 1] \in Rec
      BY <1>r, <2>2, <2>3, <3>1 DEF Rec
    <3> QED BY <1>r, <2>4, <3>2 DEF Rec
  <2>6. /\ m.password /\ m.secret = r.secret /\ m.totp.status \in {"pending", "active"}
        /\ (m.passkey # "none" => m.codes.set > 0) /\ m.since <= MaxFailures /\ m.unack <= MaxFailures
    BY <1>2, <1>5, <2>2, <2>3, <2>5 DEF Sound
  <2>7. Sound(Rotated(m)) /\ Same(r, Rotated(m)) /\ Rotated(m).since = m.since /\ Rotated(m).unack = m.unack
    BY <1>r, <2>5, <2>6, RotatedTakes
  <2>8. Told(r, Rotated(m), FALSE)
    BY <2>5, <2>7 DEF Told
  <2> QED BY <2>1, <2>7, <2>8, TakesIs
<1> QED BY <1>1, <1>3, <1>4, <1>5

LEMMA ReplaceTakes ==
  ASSUME NEW r, Recording(r), Sound(r)
  PROVE  Takes(r, ReplaceCodes(r))
<1>r. r \in Rec /\ r.gen + 1 \in Nat
  BY RecordFields DEF Recording
<1>1. CASE AuthState(r) # "configured"
  <2>1. ReplaceCodes(r) = <<"refused", r>>
    BY <1>1 DEF ReplaceCodes
  <2> QED BY <1>r, <2>1, NothingTaken
<1>2. CASE AuthState(r) = "configured"
  <2> DEFINE n == [r EXCEPT !.codes = NewSet(r), !.gen = r.gen + 1]
  <2>1. ReplaceCodes(r) = <<"accepted", n>>
    BY <1>2 DEF ReplaceCodes
  <2>2. NewSet(r) \in Codes /\ NewSet(r).set > 0
    BY <1>r, RecordFields DEF NewSet, Codes
  <2>3. n \in Rec /\ n.codes = NewSet(r) /\ \A f \in {"password", "totp", "secret", "passkey", "since", "unack"} : n[f] = r[f]
    BY <1>r, <2>2 DEF Rec
  <2>4. r.password
    BY <1>2, HasPassword
  <2> HIDE DEF n
  <2>5. Sound(n) /\ Same(r, n) /\ Told(r, n, FALSE)
    BY <2>2, <2>3, <2>4 DEF Sound, Same, Told
  <2> QED BY <2>1, <2>5, TakesIs
<1> QED BY <1>1, <1>2

(* A passkey that completes a ceremony is the record's after it.                           *)
LEMMA AddTakes ==
  ASSUME NEW r, Recording(r), Sound(r), NEW gen \in Nat
  PROVE  /\ Takes(r, AddPasskey(r, gen))
         /\ AddPasskey(r, gen)[1] = "accepted" => AddPasskey(r, gen)[2].passkey = "active"
<1>r. r \in Rec /\ gen + 1 \in Nat
  BY DEF Recording
<1>1. CASE AuthState(r) # "configured" \/ r.gen # gen \/ r.passkey = "active"
  <2>1. AddPasskey(r, gen) = <<"refused", r>>
    BY <1>1 DEF AddPasskey
  <2> QED BY <1>r, <2>1, NothingTaken
<1>2. CASE ~(AuthState(r) # "configured" \/ r.gen # gen \/ r.passkey = "active")
  <2> DEFINE m == [r EXCEPT !.passkey = "active", !.gen = gen + 1]
  <2>1. AddPasskey(r, gen) = <<"accepted", Rotated(m)>>
    BY <1>2 DEF AddPasskey
  <2>2. m \in Rec /\ m.passkey = "active" /\ \A f \in {"password", "totp", "codes", "secret", "since", "unack"} : m[f] = r[f]
    BY <1>r DEF Rec
  <2>3. r.password /\ r.codes.set > 0
    BY <1>r, <1>2, HasPassword, RecordFields DEF AuthState
  <2> HIDE DEF m
  <2>4. /\ m.password /\ m.secret = r.secret /\ m.totp.status \in {"pending", "active"} /\ m.codes.set > 0
        /\ m.since <= MaxFailures /\ m.unack <= MaxFailures
    BY <2>2, <2>3 DEF Sound
  <2>5. /\ Sound(Rotated(m)) /\ Same(r, Rotated(m)) /\ Rotated(m).since = m.since /\ Rotated(m).unack = m.unack
        /\ Rotated(m).passkey = "active"
    BY <1>r, <2>2, <2>4, RotatedTakes
  <2>6. Told(r, Rotated(m), FALSE)
    BY <2>2, <2>5 DEF Told
  <2>7. Takes(r, <<"accepted", Rotated(m)>>)
    BY <2>5, <2>6, TakesIs
  <2> QED BY <2>1, <2>5, <2>7
<1> QED BY <1>1, <1>2

LEMMA CommitTakes ==
  ASSUME NEW r, Recording(r), Sound(r), NEW gen \in Nat, NEW regressed \in BOOLEAN, NEW signIn \in BOOLEAN
  PROVE  /\ Takes(r, Commit(r, gen, regressed, signIn))
         /\ Commit(r, gen, regressed, signIn)[1] = "accepted" => Commit(r, gen, regressed, signIn)[2].passkey = "active"
<1>r. r \in Rec /\ gen + 1 \in Nat
  BY DEF Recording
<1>1. CASE AuthState(r) # "configured" \/ r.gen # gen \/ r.passkey # "active"
  <2>1. Commit(r, gen, regressed, signIn) = <<"refused", r>>
    BY <1>1 DEF Commit
  <2> QED BY <1>r, <2>1, NothingTaken
<1> DEFINE open == ~(AuthState(r) # "configured" \/ r.gen # gen \/ r.passkey # "active")
<1>2. open => r.password /\ r.codes.set > 0 /\ r.passkey = "active"
  BY <1>r, HasPassword, RecordFields DEF AuthState
<1>3. CASE open /\ regressed
  <2> DEFINE m == [r EXCEPT !.passkey = "suspended", !.gen = gen + 1]
  <2>1. Commit(r, gen, regressed, signIn) = <<"suspended", Rotated(m)>>
    BY <1>3 DEF Commit
  <2>2. m \in Rec /\ \A f \in {"password", "totp", "codes", "secret", "since", "unack"} : m[f] = r[f]
    BY <1>r DEF Rec
  <2> HIDE DEF m
  <2>3. /\ m.password /\ m.secret = r.secret /\ m.totp.status \in {"pending", "active"} /\ m.codes.set > 0
        /\ m.since <= MaxFailures /\ m.unack <= MaxFailures
    BY <1>2, <1>3, <2>2 DEF Sound
  <2>4. Sound(Rotated(m)) /\ Same(r, Rotated(m)) /\ Rotated(m).since = m.since /\ Rotated(m).unack = m.unack
    BY <1>r, <2>2, <2>3, RotatedTakes
  <2>5. Told(r, Rotated(m), FALSE)
    BY <2>2, <2>4 DEF Told
  <2>6. Takes(r, <<"suspended", Rotated(m)>>)
    BY <2>4, <2>5, TakesIs
  <2> QED BY <2>1, <2>6
<1>4. CASE open /\ ~regressed
  <2> DEFINE n == IF signIn THEN SignedIn(r) ELSE r
  <2>1. Commit(r, gen, regressed, signIn) = <<"accepted", n>>
    BY <1>4 DEF Commit
  <2>2. [r EXCEPT !.totp = r.totp] = r /\ r.totp \in Factor
    BY <1>r, RecordFields DEF Rec
  <2>3. r.password /\ r.totp.status \in {"pending", "active"}
    BY <1>2, <1>4 DEF Sound
  <2>4. /\ Sound(r) /\ Same(r, r) /\ Told(r, r, FALSE)
        /\ Sound(SignedIn(r)) /\ Same(r, SignedIn(r)) /\ Told(r, SignedIn(r), FALSE)
    BY <1>r, <2>2, <2>3, FactorMoves
  <2>5. SignedIn(r).passkey = r.passkey
    BY <1>r DEF SignedIn, Rec
  <2>6. Sound(n) /\ Same(r, n) /\ Told(r, n, FALSE) /\ n.passkey = "active"
    BY <1>2, <1>4, <2>4, <2>5
  <2> HIDE DEF n
  <2>7. Takes(r, <<"accepted", n>>)
    BY <2>6, TakesIs
  <2> QED BY <2>1, <2>6, <2>7
<1> QED BY <1>1, <1>3, <1>4

LEMMA EnrollTakes ==
  ASSUME NEW r, Recording(r), Sound(r)
  PROVE  /\ Sound(BeginSetup(r)[2]) /\ Same(r, BeginSetup(r)[2]) /\ Told(r, BeginSetup(r)[2], FALSE)
         /\ Sound(Resume(r)[2]) /\ Same(r, Resume(r)[2]) /\ Told(r, Resume(r)[2], FALSE)
<1>r. r \in Rec
  BY DEF Recording
<1>0. Sound(r) /\ Same(r, r) /\ Told(r, r, FALSE)
  BY DEF Same, Told
<1>1. CASE r.password
  <2>1. BeginSetup(r) = <<"refused", r>>
    BY <1>1 DEF BeginSetup
  <2>2. CASE AuthState(r) # "enrollment"
    <3>1. Resume(r) = <<"refused", r>>
      BY <2>2 DEF Resume
    <3>2. Resume(r)[2] = r /\ BeginSetup(r)[2] = r
      BY <2>1, <3>1
    <3> QED BY <1>0, <3>2
  <2>3. CASE AuthState(r) = "enrollment"
    <3> DEFINE t == [r.totp EXCEPT !.expired = FALSE]
    <3>1. Resume(r) = <<"accepted", [r EXCEPT !.totp.expired = FALSE]>>
      BY <2>3 DEF Resume
    <3>2. t \in Factor /\ t.seed = r.totp.seed /\ t.status \in {"pending", "active"}
      BY <1>r, <1>1, RecordFields DEF Factor, Sound
    <3>3. [r EXCEPT !.totp.expired = FALSE] = [r EXCEPT !.totp = t]
      OBVIOUS
    <3> HIDE DEF t
    <3> DEFINE n == [r EXCEPT !.totp = t]
    <3>4. Sound(n) /\ Same(r, n) /\ Told(r, n, FALSE)
      BY <1>r, <1>1, <3>2, FactorMoves
    <3>5. Resume(r)[2] = n /\ BeginSetup(r)[2] = r
      BY <2>1, <3>1, <3>3
    <3> HIDE DEF n
    <3> QED BY <1>0, <3>4, <3>5
  <2> QED BY <2>2, <2>3
<1>2. CASE ~r.password
  <2> DEFINE n == [Fresh EXCEPT !.password = TRUE, !.totp = NewTotp(1), !.gen = 1, !.secret = 1]
  <2>1. BeginSetup(r) = <<"accepted", n>> /\ r = Fresh
    BY <1>2 DEF BeginSetup, Sound
  <2>2. Resume(r) = <<"refused", r>>
    BY <1>2 DEF Resume, AuthState
  <2>3. /\ n.password /\ n.secret = 1 /\ n.totp.status = "pending" /\ n.passkey = "none" /\ n.since = 0 /\ n.unack = 0
        /\ r.secret = 0 /\ r.since = 0 /\ r.unack = 0
    BY <2>1 DEF Fresh, NewTotp, NoTotp
  <2> HIDE DEF n
  <2>4. Sound(n) /\ Same(r, n) /\ Told(r, n, FALSE)
    BY <2>3, SignInAssumption DEF Sound, Same, Told
  <2>5. Resume(r)[2] = r /\ BeginSetup(r)[2] = n
    BY <2>1, <2>2
  <2> QED BY <1>0, <2>4, <2>5
<1> QED BY <1>1, <1>2

-----------------------------------------------------------------------------
(* What was refused is counted, as far as the counters go.                                 *)

Counts(r, owed, refused) ==
  /\ owed \in Nat /\ refused \in Nat /\ owed <= refused
  /\ r.since + r.unack <= owed
  /\ refused <= MaxFailures => owed = r.since + r.unack

LEMMA ToldCounts ==
  ASSUME NEW r \in Rec, NEW n \in Rec, NEW owed, NEW refused, Counts(r, owed, refused)
  PROVE  /\ Told(r, n, TRUE) => Counts(n, owed + 1, refused + 1)
         /\ Told(r, n, FALSE) => Counts(n, owed, refused)
<1> DEFINE a == r.since
           b == r.unack
<1>1. /\ a \in Nat /\ b \in Nat /\ owed \in Nat /\ refused \in Nat /\ owed <= refused /\ a + b <= owed
      /\ refused <= MaxFailures => owed = a + b
  BY RecordFields DEF Counts
<1>2. /\ Capped(a + 1) \in Nat /\ Capped(a + 1) <= a + 1 /\ (a + 1 <= MaxFailures => Capped(a + 1) = a + 1)
      /\ Capped(b + a) \in Nat /\ Capped(b + a) <= b + a /\ (b + a <= MaxFailures => Capped(b + a) = b + a)
  <2>1. a + 1 \in Nat /\ b + a \in Nat
    BY <1>1
  <2> QED BY <2>1, CappedIs
<1>3. MaxFailures \in Nat
  BY SignInAssumption
<1>4. ASSUME Told(r, n, TRUE)
      PROVE  Counts(n, owed + 1, refused + 1)
  <2>1. n.since = Capped(a + 1) /\ n.unack = b
    BY <1>4 DEF Told
  <2> HIDE DEF a, b
  <2> QED BY <1>1, <1>2, <1>3, <2>1 DEF Counts
<1>5. ASSUME Told(r, n, FALSE)
      PROVE  Counts(n, owed, refused)
  <2>1. (n.since = a /\ n.unack = b) \/ (n.since = 0 /\ n.unack = Capped(b + a))
    BY <1>5 DEF Told
  <2> HIDE DEF a, b
  <2> QED BY <1>1, <1>2, <1>3, <2>1 DEF Counts
<1> QED BY <1>4, <1>5

-----------------------------------------------------------------------------
(* What is issued under a secret lasts as long as the secret does.                         *)

Stood(r, secret, seed) ==
  secret <= r.secret /\ (seed # 0 /\ secret = r.secret => seed = r.totp.seed /\ r.passkey = "active")

(* A request a passkey completed holds the secret and the seed of its own transaction.     *)
ByPasskey == {"login_passkey", "registered"}
Stands(r, x) ==
  /\ x.secret <= r.secret
  /\ x.kind \in ByPasskey =>
       /\ x.at \notin {"accepted", "derived", "confirmed", "replacing"}
       /\ x.at \in {"rotated", "ended", "secret"} => Stood(r, x.secret, x.mark)

SInv ==
  /\ Sound(rec)
  /\ Counts(rec, seen.owed, seen.refused)
  /\ \A i \in DOMAIN sessions : Stood(rec, sessions[i].secret, sessions[i].seed)
  /\ \A q \in Request : Stands(rec, req[q])
  /\ tracked \subseteq DOMAIN sessions
  /\ setup \in Request \cup {None}
  /\ \A q \in Request : req[q].kind \in Locked => setup = q

LEMMA StillStood ==
  ASSUME NEW r \in Rec, NEW n \in Rec, Same(r, n), NEW secret \in Nat, NEW seed, Stood(r, secret, seed)
  PROVE  Stood(n, secret, seed)
<1>1. r.secret \in Nat /\ n.secret \in Nat
  BY RecordFields
<1> QED BY <1>1 DEF Same, Stood

LEMMA StillStands ==
  ASSUME NEW r \in Rec, NEW n \in Rec, Same(r, n), NEW x \in Req, Stands(r, x)
  PROVE  Stands(n, x)
<1>1. r.secret \in Nat /\ n.secret \in Nat /\ x.secret \in Nat
  BY RecordFields DEF Req
<1>2. x.secret <= n.secret
  BY <1>1 DEF Same, Stands
<1>3. Stood(r, x.secret, x.mark) => Stood(n, x.secret, x.mark)
  BY <1>1, StillStood
<1> QED BY <1>2, <1>3 DEF Stands

(* What the record keeps of itself and of its sessions.                                    *)
Keeps(r, n) == n \in Rec /\ Sound(n) /\ Same(r, n)

LEMMA IdleStands == ASSUME NEW r \in Rec PROVE Stands(r, Idle)
<1>1. r.secret \in Nat /\ Idle.secret = 0 /\ Idle.kind = "none"
  BY RecordFields DEF Idle
<1> QED BY <1>1 DEF Stands, ByPasskey

(* A request goes to x, and the record to what it keeps.                                   *)
LEMMA StandingGoes ==
  ASSUME Typed, SInv, NEW q \in Request, NEW x, Go(q, x), Keeps(rec, rec'), Stands(rec', x),
         Counts(rec', seen'.owed, seen'.refused), x.kind \in Locked => setup \in {None, q},
         sessions' = sessions, tracked' \subseteq tracked
  PROVE  SInv'
<1>1. rec \in Rec /\ rec' \in Rec /\ Same(rec, rec') /\ \A p \in Request : req[p] \in Req
  BY DEF Typed, Recording, Keeps
<1>2. \A p \in Request : req'[p] = IF p = q THEN x ELSE req[p]
  BY OneRequest DEF Go, Typed
<1>3. \A i \in DOMAIN sessions : sessions[i].secret \in Nat
  <2>1. sessions \in Seq(Issued) /\ DOMAIN sessions = 1..Len(sessions)
    BY TypedFields DEF Typed
  <2>2. \A i \in DOMAIN sessions : sessions[i] \in Issued
    BY <2>1, ElementOfSeq
  <2> QED BY <2>2 DEF Issued
<1>4. \A i \in DOMAIN sessions' : Stood(rec', sessions'[i].secret, sessions'[i].seed)
  BY <1>1, <1>3, StillStood DEF SInv
<1>5. \A p \in Request : Stands(rec', req'[p])
  BY <1>1, <1>2, StillStands DEF SInv
<1>6. setup' \in Request \cup {None} /\ \A p \in Request : req'[p].kind \in Locked => setup' = p
  <2>1. setup' = IF x.kind \in Locked THEN q ELSE IF setup = q THEN None ELSE setup
    BY DEF Go
  <2>2. setup \in Request \cup {None} /\ \A p \in Request : req[p].kind \in Locked => setup = p
    BY DEF SInv
  <2> QED BY <1>2, <2>1, <2>2, SignInAssumption
<1>7. Sound(rec)' /\ Counts(rec, seen.owed, seen.refused)'
  BY DEF Keeps
<1>8. (tracked \subseteq DOMAIN sessions)'
  BY DEF SInv
<1> QED BY <1>4, <1>5, <1>6, <1>7, <1>8 DEF SInv

LEMMA Unchanging ==
  ASSUME Typed, SInv
  PROVE  Keeps(rec, rec) /\ rec \in Rec /\ Stands(rec, Idle) /\ Idle.kind \notin Locked
BY IdleStands DEF SInv, Keeps, Same, Typed, Recording, Idle, Locked

(* A request goes on to x, or ends.                                                        *)
LEMMA StandingMoves ==
  ASSUME Typed, SInv, NEW q \in Request, NEW x, Go(q, x), UNCHANGED <<rec, seen, sessions>>, tracked' \subseteq tracked,
         x.kind \in {req[q].kind, "none", "suspended"}, Stands(rec, x)
  PROVE  SInv'
<1>1. x.kind \in Locked => setup \in {None, q}
  BY DEF SInv, Locked
<1>2. Keeps(rec, rec) /\ Counts(rec, seen.owed, seen.refused)
  BY Unchanging DEF SInv
<1> QED BY <1>1, <1>2, StandingGoes

(* A request comes in; one that presents nothing holds nothing yet.                        *)
LEMMA StandingComes ==
  ASSUME Typed, SInv, NEW q \in Request, NEW kind, Receive(q, kind), NEW x, Go(q, x) \/ Go(q, Idle),
         x.kind = kind, x.secret = 0, x.at \in {"verifier", "deriving", "checked", "presented"},
         UNCHANGED <<rec, seen, sessions, tracked>>
  PROVE  SInv'
<1>1. Keeps(rec, rec) /\ Counts(rec, seen.owed, seen.refused) /\ rec \in Rec /\ Stands(rec, Idle) /\ Idle.kind \notin Locked
  BY Unchanging DEF SInv
<1>2. Stands(rec, x)
  BY <1>1, RecordFields DEF Stands
<1>3. x.kind \in Locked => setup \in {None, q}
  BY DEF Receive
<1> QED BY <1>1, <1>2, <1>3, StandingGoes

LEMMA ReceivedHolds ==
  ASSUME Typed, NEW kind \in CeremonyKinds, NEW at \in Places, NEW ticket, NEW gen, NEW mark,
         NEW x \in {Received(kind, at), [Received(kind, at) EXCEPT !.mark = mark], [Received(kind, at) EXCEPT !.gen = gen],
                    [Received(kind, at) EXCEPT !.ticket = ticket, !.gen = gen, !.mark = mark]}
  PROVE  x.kind = kind /\ x.at = at /\ x.secret = 0
<1> DEFINE n == received + 1
           r == [Idle EXCEPT !.kind = kind, !.at = at, !.n = n]
<1>1. Received(kind, at) = r
  BY DEF Received
<1> HIDE DEF n
<1>2. Idle \in Req /\ Idle.secret = 0 /\ n \in Nat
  BY IdleRequest DEF Idle, Typed, n
<1>3. r \in Req /\ r.kind = kind /\ r.at = at /\ r.secret = 0
  BY <1>2 DEF r, Req
<1>4. /\ \A f \in {"kind", "at", "secret"} : [r EXCEPT !.mark = mark][f] = r[f] /\ [r EXCEPT !.gen = gen][f] = r[f]
      /\ \A f \in {"kind", "at", "secret"} : [r EXCEPT !.ticket = ticket, !.gen = gen, !.mark = mark][f] = r[f]
  BY <1>3 DEF Req
<1>5. x \in {r, [r EXCEPT !.mark = mark], [r EXCEPT !.gen = gen], [r EXCEPT !.ticket = ticket, !.gen = gen, !.mark = mark]}
  BY <1>1
<1> QED BY <1>3, <1>4, <1>5

LEMMA NewRequestsStand ==
  ASSUME Typed, SInv, NEW q \in Request,
         Setup(q) \/ Login(q) \/ \E s \in tracked : Offer(q, s) \/ BeginRegistration(q, s)
  PROVE  SInv'
<1>1. UNCHANGED <<rec, seen, sessions, tracked>>
  BY DEF Setup, Login, Offer, BeginRegistration, memory
<1>2. CASE Setup(q)
  <2>1. PICK at \in {"verifier", "deriving"} : Go(q, Received("setup", at)) \/ Go(q, Idle)
    BY <1>2, BeginsOne DEF Setup
  <2> DEFINE x == Received("setup", at)
  <2>2. x.kind = "setup" /\ x.at = at /\ x.secret = 0
    BY ReceivedHolds DEF Places, CeremonyKinds
  <2>3. Receive(q, "setup") /\ (Go(q, x) \/ Go(q, Idle))
    BY <1>2, <2>1 DEF Setup
  <2> HIDE DEF x
  <2> QED BY <1>1, <2>2, <2>3, StandingComes
<1>3. CASE Login(q)
  <2> DEFINE mark == IF AuthState(rec) = "configured" THEN 1 ELSE 0
             x == [Received("login", "deriving") EXCEPT !.mark = mark]
  <2>1. Receive(q, "login") /\ (Go(q, x) \/ Go(q, Idle))
    BY <1>3, BeginsOne DEF Login
  <2> HIDE DEF mark
  <2>2. x.kind = "login" /\ x.at = "deriving" /\ x.secret = 0
    BY ReceivedHolds DEF Places, CeremonyKinds
  <2> HIDE DEF x
  <2> QED BY <1>1, <2>1, <2>2, StandingComes
<1>4. CASE \E s \in tracked : Offer(q, s)
  <2> DEFINE x == [Received("offer", "deriving") EXCEPT !.mark = 1]
  <2>1. Receive(q, "offer") /\ (Go(q, x) \/ Go(q, Idle))
    BY <1>4, BeginsOne DEF Offer
  <2>2. x.kind = "offer" /\ x.at = "deriving" /\ x.secret = 0
    BY ReceivedHolds DEF Places, CeremonyKinds
  <2> HIDE DEF x
  <2> QED BY <1>1, <2>1, <2>2, StandingComes
<1>5. CASE \E s \in tracked : BeginRegistration(q, s)
  <2>1. PICK s \in tracked : BeginRegistration(q, s)
    BY <1>5
  <2> DEFINE x == [Received("register", "checked") EXCEPT !.mark = s]
  <2>2. Receive(q, "register") /\ (Go(q, x) \/ Go(q, Idle))
    BY <2>1 DEF BeginRegistration
  <2>3. x.kind = "register" /\ x.at = "checked" /\ x.secret = 0
    BY ReceivedHolds DEF Places, CeremonyKinds
  <2> HIDE DEF x
  <2> QED BY <1>1, <2>2, <2>3, StandingComes
<1> QED BY <1>2, <1>3, <1>4, <1>5

LEMMA PresentedStand ==
  ASSUME Typed, SInv, NEW q \in Request,
         (\E kind \in CeremonyKinds : Present(q, kind)) \/ \E s \in tracked : CompleteRegistration(q, s)
  PROVE  SInv'
<1>1. CASE \E kind \in CeremonyKinds : Present(q, kind)
  <2>1. PICK kind \in CeremonyKinds : Present(q, kind)
    BY <1>1
  <2>2. PICK ticket, gen, mark :
          Go(q, [Received(kind, "presented") EXCEPT !.ticket = ticket, !.gen = gen, !.mark = mark]) \/ Go(q, Idle)
    BY <2>1 DEF Present
  <2> DEFINE x == [Received(kind, "presented") EXCEPT !.ticket = ticket, !.gen = gen, !.mark = mark]
  <2>3. x.kind = kind /\ x.at = "presented" /\ x.secret = 0
    BY ReceivedHolds DEF Places
  <2>4. Receive(q, kind) /\ (Go(q, x) \/ Go(q, Idle)) /\ UNCHANGED <<rec, seen, sessions, tracked>>
    BY <2>1, <2>2 DEF Present
  <2> HIDE DEF x
  <2> QED BY <2>3, <2>4, StandingComes
<1>2. CASE \E s \in tracked : CompleteRegistration(q, s)
  <2>1. PICK gen : Go(q, [Received("registered", "presented") EXCEPT !.gen = gen]) \/ Go(q, Idle)
    BY <1>2 DEF CompleteRegistration
  <2> DEFINE x == [Received("registered", "presented") EXCEPT !.gen = gen]
  <2>2. x.kind = "registered" /\ x.at = "presented" /\ x.secret = 0
    BY ReceivedHolds DEF Places, CeremonyKinds
  <2>3. Receive(q, "registered") /\ (Go(q, x) \/ Go(q, Idle)) /\ UNCHANGED <<rec, seen, sessions, tracked>>
    BY <1>2, <2>1 DEF CompleteRegistration
  <2> HIDE DEF x
  <2> QED BY <2>2, <2>3, StandingComes
<1> QED BY <1>1, <1>2

(* A sign-out ends every session with the secret it rotates.                               *)
LEMMA LogoutStands ==
  ASSUME Typed, SInv, NEW q \in Request, NEW s \in tracked, Logout(q, s)
  PROVE  SInv'
<1>1. /\ rec' = Rotated(rec) /\ AuthState(rec) = "configured" /\ Go(q, Received("logout", "rotated"))
      /\ UNCHANGED <<seen, sessions, tracked>>
  BY DEF Logout, Current, memory
<1>2. /\ rec \in Rec /\ Sound(rec) /\ rec.password /\ rec.totp.status \in {"pending", "active"}
      /\ Counts(rec, seen.owed, seen.refused)
  BY <1>1, HasPassword DEF Typed, Recording, SInv, Sound
<1>3. /\ rec' \in Rec /\ Sound(rec') /\ Same(rec, rec') /\ rec'.since = rec.since /\ rec'.unack = rec.unack
  <2>1. /\ rec.secret = rec.secret /\ (rec.passkey # "none" => rec.codes.set > 0)
        /\ rec.since <= MaxFailures /\ rec.unack <= MaxFailures
    BY <1>2 DEF Sound
  <2> QED BY <1>1, <1>2, <2>1, RotatedTakes
<1>4. Counts(rec', seen'.owed, seen'.refused)
  BY <1>1, <1>2, <1>3 DEF Counts
<1> DEFINE x == Received("logout", "rotated")
<1>5. x.kind = "logout" /\ x.secret = 0
  BY ReceivedHolds DEF Places, CeremonyKinds
<1> HIDE DEF x
<1>6. Stands(rec', x) /\ x.kind \notin Locked
  BY <1>3, <1>5, RecordFields DEF Stands, ByPasskey, Locked
<1> QED BY <1>1, <1>3, <1>4, <1>6, StandingGoes DEF Keeps, x

(* Where a request goes that holds no more than it did.                                    *)
MayGo(x, at) ==
  x.kind \in ByPasskey =>
    \/ at \notin {"accepted", "derived", "confirmed", "replacing", "rotated", "ended", "secret"}
    \/ at \in {"rotated", "ended", "secret"} /\ x.at \in {"rotated", "ended", "secret"}

(* A request that goes on keeps what it was issued, and stands where it stood.             *)
LEMMA GoesStanding ==
  ASSUME NEW r, NEW x \in Req, Stands(r, x), NEW at,
         MayGo(x, at)
  PROVE  [x EXCEPT !.at = at].kind = x.kind /\ Stands(r, [x EXCEPT !.at = at])
<1> DEFINE y == [x EXCEPT !.at = at]
<1>1. y.kind = x.kind /\ y.at = at /\ y.secret = x.secret /\ y.mark = x.mark
  BY DEF Req
<1> HIDE DEF y
<1>2. Stands(r, y)
  BY <1>1 DEF Stands, MayGo
<1> QED BY <1>1, <1>2 DEF y

LEMMA OthersStand ==
  ASSUME Typed, SInv, NEW q \in Request,
         \/ Settle(q) \/ ReadGeneration(q) \/ Issue(q) \/ Derive(q) \/ Confirm(q)
         \/ EndAll(q) \/ FactorChanged(q) \/ ReadSecret(q)
  PROVE  SInv'
<1> DEFINE r == req[q]
<1>1. r \in Req /\ Stands(rec, r) /\ rec \in Rec /\ rec.secret \in Nat /\ Stands(rec, Idle) /\ Idle.kind = "none"
  BY Unchanging, RecordFields DEF Typed, SInv, Idle
<1>2. UNCHANGED <<rec, seen, sessions>> /\ tracked' \subseteq tracked
  BY DEF Settle, ReadGeneration, Issue, Derive, Confirm, EndAll, FactorChanged, ReadSecret, memory, outside, Unmoved
<1>3. ASSUME NEW x, Go(q, x), x.kind \in {r.kind, "none"}, Stands(rec, x)
      PROVE  SInv'
  BY <1>2, <1>3, StandingMoves
<1>4. CASE Go(q, Idle)
  BY <1>1, <1>3, <1>4
<1>5. ASSUME NEW at, Go(q, [r EXCEPT !.at = at]),
             MayGo(r, at)
      PROVE  SInv'
  <2>1. [r EXCEPT !.at = at].kind = r.kind /\ Stands(rec, [r EXCEPT !.at = at])
    BY <1>1, <1>5, GoesStanding
  <2> HIDE DEF r
  <2> QED BY <1>3, <1>5, <2>1
<1>c. CASE Go(q, [r EXCEPT !.at = "checked"])
  <2>1. MayGo(r, "checked")
    BY DEF MayGo
  <2> QED BY <1>5, <1>c, <2>1
<1>6. CASE Settle(q)
  <2>1. Go(q, [r EXCEPT !.at = "checked"]) \/ Go(q, Idle)
    BY <1>6 DEF Settle
  <2> QED BY <1>4, <1>c, <2>1
<1>7. CASE Issue(q)
  BY <1>4, <1>7 DEF Issue
<1>8. CASE Confirm(q)
  <2>1. Go(q, [r EXCEPT !.at = "replacing"]) \/ Go(q, Idle)
    BY <1>8 DEF Confirm
  <2>2. MayGo(r, "replacing")
    BY <1>1, <1>8 DEF Confirm, Stands, MayGo
  <2> QED BY <1>4, <1>5, <2>1, <2>2
<1>9. CASE EndAll(q)
  <2>1. Go(q, [r EXCEPT !.at = "ended"]) \/ Go(q, Idle)
    BY <1>9 DEF EndAll
  <2>2. MayGo(r, "ended")
    BY <1>9 DEF EndAll, MayGo
  <2> QED BY <1>4, <1>5, <2>1, <2>2
<1>10. CASE FactorChanged(q)
  <2>1. \/ r.kind = "login_recovery" /\ Go(q, [r EXCEPT !.at = "checked"])
        \/ r.kind \in {"setup_totp", "recovery_totp"} /\ Go(q, [r EXCEPT !.at = "accepted"])
        \/ Go(q, [r EXCEPT !.at = "secret"])
        \/ Go(q, Idle)
    BY <1>10 DEF FactorChanged
  <2>2. MayGo(r, "secret") /\ (r.kind \in {"setup_totp", "recovery_totp"} => MayGo(r, "accepted"))
    BY <1>10 DEF FactorChanged, MayGo, ByPasskey
  <2>3. CASE r.kind = "login_recovery" /\ Go(q, [r EXCEPT !.at = "checked"])
    BY <1>c, <2>3
  <2>4. CASE r.kind \in {"setup_totp", "recovery_totp"} /\ Go(q, [r EXCEPT !.at = "accepted"])
    BY <1>5, <2>2, <2>4
  <2>5. CASE Go(q, [r EXCEPT !.at = "secret"])
    BY <1>5, <2>2, <2>5
  <2> QED BY <1>4, <2>1, <2>3, <2>4, <2>5
<1>11. CASE ReadGeneration(q)
  <2> DEFINE x == [r EXCEPT !.at = "generation", !.gen = rec.gen]
  <2>1. Go(q, x)
    BY <1>11 DEF ReadGeneration
  <2>2. x.kind = r.kind /\ x.secret = r.secret /\ x.at = "generation"
    BY <1>1 DEF Req
  <2> HIDE DEF x
  <2> QED BY <1>1, <1>3, <2>1, <2>2 DEF Stands
<1>12. CASE Derive(q)
  <2> DEFINE x == [r EXCEPT !.at = "derived", !.mark = rec.codes.set]
  <2>1. (Go(q, x) \/ Go(q, Idle)) /\ r.kind = "login_recovery"
    BY <1>12 DEF Derive
  <2>2. x.kind = r.kind /\ x.secret = r.secret
    BY <1>1 DEF Req
  <2> HIDE DEF x
  <2>3. Stands(rec, x)
    BY <1>1, <2>1, <2>2 DEF Stands, ByPasskey
  <2> QED BY <1>3, <1>4, <2>1, <2>2, <2>3
<1>13. CASE ReadSecret(q)
  <2> DEFINE x == [r EXCEPT !.at = "secret", !.secret = rec.secret]
  <2>1. Go(q, x) /\ r.at = "accepted"
    BY <1>13 DEF ReadSecret
  <2>2. x.kind = r.kind /\ x.secret = rec.secret
    BY <1>1 DEF Req
  <2> HIDE DEF x
  <2>3. Stands(rec, x)
    BY <1>1, <2>1, <2>2 DEF Stands
  <2> QED BY <1>3, <2>1, <2>2, <2>3
<1> QED BY <1>6, <1>7, <1>8, <1>9, <1>10, <1>11, <1>12, <1>13

LEMMA EnrollStands == ASSUME Typed, SInv, NEW q \in Request, Enroll(q) PROVE SInv'
<1>1. /\ rec \in Rec /\ Recording(rec) /\ Sound(rec) /\ req[q] \in Req /\ Stands(rec, req[q]) /\ req[q].kind = "setup"
      /\ Counts(rec, seen.owed, seen.refused) /\ UNCHANGED <<seen, sessions, tracked>>
      /\ (req[q].kind \in Locked => setup = q)
  BY DEF Typed, Recording, SInv, Enroll, memory
<1> DEFINE x == [req[q] EXCEPT !.at = "enrolled"]
<1>2. /\ rec' \in {BeginSetup(rec)[2], Resume(rec)[2]}
      /\ Go(q, x) \/ Go(q, Idle)
  BY DEF Enroll
<1>3. Sound(rec') /\ Same(rec, rec') /\ Told(rec, rec', FALSE) /\ rec' \in Rec
  <2>1. BeginSetup(rec)[2] \in Rec /\ Resume(rec)[2] \in Rec
    BY <1>1, EnrollDoes DEF Answers, Recording
  <2> QED BY <1>1, <1>2, <2>1, EnrollTakes
<1>4. Counts(rec', seen'.owed, seen'.refused)
  BY <1>1, <1>3, ToldCounts
<1>5. x.kind = "setup" /\ Stands(rec, x) /\ x \in Req
  BY <1>1, GoesStanding DEF MayGo, ByPasskey, Req, Places
<1> HIDE DEF x
<1>6. Stands(rec', x) /\ Stands(rec', Idle) /\ Idle.kind \notin Locked
  BY <1>1, <1>3, <1>5, StillStands, IdleStands, Unchanging
<1>7. x.kind \in Locked => setup \in {None, q}
  BY <1>1, <1>5
<1> QED BY <1>1, <1>2, <1>3, <1>4, <1>6, <1>7, StandingGoes DEF Keeps

(* What an answer leaves a request with stands on the record the answer is of.             *)
LEMMA AnsweredStands ==
  ASSUME NEW r \in Rec, NEW answer, answer[2] \in Rec, Same(r, answer[2]), NEW x \in Req, Stands(r, x),
         x.kind \in ByPasskey /\ answer[1] = "accepted" => answer[2].passkey = "active"
  PROVE  /\ Stands(answer[2], Answered(x, answer))
         /\ Answered(x, answer).kind \in {x.kind, "none", "suspended"}
<1> DEFINE n == answer[2]
           y == Answered(x, answer)
<1>1. n \in Rec /\ Stands(n, x) /\ Stands(n, Idle) /\ Idle.kind = "none" /\ n.secret \in Nat /\ n.totp.seed \in Nat
  BY StillStands, IdleStands, RecordFields DEF Idle
<1>2. ASSUME NEW at, y = [x EXCEPT !.at = at], x.kind \notin ByPasskey \/ at = "generation"
      PROVE  Stands(n, y) /\ y.kind = x.kind
  <2> HIDE DEF n, y
  <2>1. MayGo(x, at)
    BY <1>2 DEF MayGo
  <2> QED BY <1>1, <1>2, <2>1, GoesStanding
<1>3. CASE answer[1] = "accepted" /\ x.kind \in {"login_totp", "setup_totp", "recovery_totp", "login_recovery", "operation", "operation_passkey"}
  <2>1. \E at \in {"accepted", "rotated", "confirmed", "ended"} : y = [x EXCEPT !.at = at]
    BY <1>3 DEF Answered
  <2>2. x.kind \notin ByPasskey
    BY <1>3 DEF ByPasskey
  <2> QED BY <1>2, <2>1, <2>2
<1>4. CASE answer[1] = "accepted" /\ x.kind \in ByPasskey
  <2>1. PICK at \in {"rotated", "secret"} : y = [x EXCEPT !.at = at, !.secret = n.secret, !.mark = n.totp.seed]
    BY <1>4 DEF Answered, ByPasskey
  <2>2. y.kind = x.kind /\ y.at = at /\ y.secret = n.secret /\ y.mark = n.totp.seed /\ n.passkey = "active"
    BY <1>4, <2>1 DEF Req
  <2> HIDE DEF n, y
  <2>3. n.secret <= n.secret
    BY <1>1
  <2>4. Stood(n, y.secret, y.mark)
    BY <2>2, <2>3 DEF Stood
  <2>5. Stands(n, y)
    BY <2>2, <2>3, <2>4 DEF Stands
  <2> QED BY <2>2, <2>5 DEF n, y
<1>5. CASE answer[1] = "accepted" /\ x.kind \notin ByPasskey \cup
             {"login_totp", "setup_totp", "recovery_totp", "login_recovery", "operation", "operation_passkey"}
  <2>1. y = Idle
    BY <1>5 DEF Answered, ByPasskey
  <2> QED BY <1>1, <2>1
<1>6. CASE answer[1] = "suspended"
  <2>1. y = [x EXCEPT !.at = "rotated", !.kind = "suspended"]
    BY <1>6 DEF Answered
  <2>2. y.kind = "suspended" /\ y.secret = x.secret
    BY <2>1 DEF Req
  <2> HIDE DEF n, y
  <2>3. Stands(n, y)
    BY <1>1, <2>2 DEF Stands, ByPasskey
  <2> QED BY <2>2, <2>3 DEF n, y
<1>7. CASE answer[1] = "invalid" /\ x.kind = "recovery_totp"
  <2>1. y = [x EXCEPT !.at = "generation"]
    BY <1>7 DEF Answered
  <2> QED BY <1>2, <2>1
<1>8. CASE answer[1] \notin {"accepted", "suspended"} /\ ~(answer[1] = "invalid" /\ x.kind = "recovery_totp")
  <2>1. y = Idle
    BY <1>8 DEF Answered
  <2> QED BY <1>1, <2>1
<1> QED BY <1>3, <1>4, <1>5, <1>6, <1>7, <1>8

(* A transaction of a request, written or not.                                             *)
LEMMA MutatedStands ==
  ASSUME Typed, SInv, NEW q \in Request, NEW answer, Takes(rec, answer), answer[2] \in Rec,
         req[q].kind \in ByPasskey /\ answer[1] = "accepted" => answer[2].passkey = "active",
         NEW code, Mutate(q, answer, code), Unmoved
  PROVE  SInv'
<1>1. PICK refused, written \in BOOLEAN : Recorded(q, answer, code, refused, written)
  BY DEF Mutate
<1>2. /\ sessions' = sessions /\ tracked' \subseteq tracked /\ rec \in Rec /\ req[q] \in Req /\ Stands(rec, req[q])
      /\ Counts(rec, seen.owed, seen.refused) /\ (req[q].kind \in Locked => setup = q)
  BY DEF Unmoved, memory, Typed, Recording, SInv
<1>3. Sound(answer[2]) /\ Same(rec, answer[2]) /\ Told(rec, answer[2], answer[1] \in {"invalid", "locked"})
  BY DEF Takes
<1> DEFINE x == Answered(req[q], answer)
           refusal == IF written /\ answer[1] \in {"invalid", "locked"} THEN 1 ELSE 0
<1>4. Stands(answer[2], x) /\ x.kind \in {req[q].kind, "none", "suspended"}
  BY <1>2, <1>3, AnsweredStands
<1>5. /\ rec' = IF written THEN answer[2] ELSE rec
      /\ Go(q, IF written THEN x ELSE Idle)
      /\ seen'.owed = seen.owed + refusal /\ seen'.refused = seen.refused + refusal
  BY <1>1 DEF Recorded
<1> HIDE DEF x
<1>6. CASE ~written
  <2>1. Go(q, Idle) /\ rec' = rec /\ refusal = 0 /\ seen.owed + 0 = seen.owed /\ seen.refused + 0 = seen.refused
    BY <1>2, <1>5, <1>6 DEF Counts
  <2>2. Keeps(rec, rec) /\ Stands(rec, Idle) /\ Idle.kind \notin Locked
    BY Unchanging
  <2>3. Counts(rec', seen'.owed, seen'.refused)
    BY <1>2, <1>5, <2>1
  <2> QED BY <1>2, <2>1, <2>2, <2>3, StandingGoes
<1>7. CASE written
  <2>1. Go(q, x) /\ rec' = answer[2]
    BY <1>5, <1>7
  <2>2. Keeps(rec, rec')
    BY <1>3, <2>1 DEF Keeps
  <2>3. x.kind \in Locked => setup \in {None, q}
    BY <1>2, <1>4 DEF Locked
  <2>4. Counts(rec', seen'.owed, seen'.refused)
    <3>1. CASE answer[1] \in {"invalid", "locked"}
      <4>1. seen'.owed = seen.owed + 1 /\ seen'.refused = seen.refused + 1 /\ Told(rec, rec', TRUE)
        BY <1>3, <1>5, <1>7, <2>1, <3>1 DEF Told
      <4> QED BY <1>2, <2>1, <4>1, ToldCounts
    <3>2. CASE answer[1] \notin {"invalid", "locked"}
      <4>1. seen'.owed = seen.owed /\ seen'.refused = seen.refused
        BY <1>2, <1>5, <3>2 DEF Counts
      <4>2. Told(rec, rec', FALSE)
        BY <1>3, <2>1, <3>2 DEF Told
      <4> QED BY <1>2, <2>1, <4>1, <4>2, ToldCounts
    <3> QED BY <3>1, <3>2
  <2> QED BY <1>2, <1>4, <2>1, <2>2, <2>3, <2>4, StandingGoes
<1> QED BY <1>6, <1>7

LEMMA TransactionsStand ==
  ASSUME Typed, SInv, NEW q \in Request,
         CompleteTotp(q) \/ Assertion(q) \/ SpendCode(q) \/ RegisterPasskey(q) \/ Regenerate(q)
  PROVE  SInv'
<1> DEFINE kind == req[q].kind
           gen == req[q].gen
           mark == req[q].mark
<1>1. /\ Recording(rec) /\ Sound(rec) /\ gen \in Nat /\ mark \in Nat
      /\ kind \in ByPasskey => req[q].at \notin {"derived", "replacing"}
  BY TypedFields DEF Typed, SInv, Stands
<1>2. Unmoved
  BY DEF CompleteTotp, Assertion, SpendCode, RegisterPasskey, Regenerate
<1>3. ASSUME NEW answer, NEW code, Mutate(q, answer, code), Takes(rec, answer), Answers(rec, answer),
             kind \in ByPasskey /\ answer[1] = "accepted" => answer[2].passkey = "active"
      PROVE  SInv'
  BY <1>2, <1>3, MutatedStands DEF Answers, Recording
<1>4. CASE CompleteTotp(q)
  <2>1. PICK code \in Nat : Mutate(q, VerifyTotp(rec, code, kind, gen), <<"totp", rec.totp.seed, code>>)
    BY <1>4 DEF CompleteTotp
  <2>2. kind \in {"setup_totp", "recovery_totp", "login_totp", "operation"}
    BY <1>4 DEF CompleteTotp
  <2>3. kind \notin ByPasskey
    BY <2>2 DEF ByPasskey
  <2> HIDE DEF kind, gen
  <2>4. Takes(rec, VerifyTotp(rec, code, kind, gen)) /\ Answers(rec, VerifyTotp(rec, code, kind, gen))
    BY <1>1, <2>2, TotpTakes, VerifyTotpDoes
  <2> QED BY <1>3, <2>1, <2>3, <2>4
<1>5. CASE Assertion(q)
  <2>1. PICK regressed \in BOOLEAN : Mutate(q, Commit(rec, gen, regressed, kind = "login_passkey"), <<"passkey", req[q].n>>)
    BY <1>5 DEF Assertion
  <2> DEFINE signIn == kind = "login_passkey"
  <2>2. signIn \in BOOLEAN /\ Mutate(q, Commit(rec, gen, regressed, signIn), <<"passkey", req[q].n>>)
    BY <2>1
  <2> HIDE DEF kind, gen, signIn
  <2>3. /\ Takes(rec, Commit(rec, gen, regressed, signIn)) /\ Answers(rec, Commit(rec, gen, regressed, signIn))
        /\ Commit(rec, gen, regressed, signIn)[1] = "accepted" => Commit(rec, gen, regressed, signIn)[2].passkey = "active"
    BY <1>1, <2>2, CommitTakes, CommitDoes
  <2> QED BY <1>3, <2>2, <2>3
<1>6. CASE SpendCode(q)
  <2>1. PICK code \in RecoveryCode \cup {None} : Mutate(q, Spend(rec, code, mark, gen), <<"recovery", mark, code>>)
    BY <1>6 DEF SpendCode
  <2>2. kind \notin ByPasskey
    BY <1>1, <1>6 DEF SpendCode
  <2> HIDE DEF kind, gen, mark
  <2>3. Takes(rec, Spend(rec, code, mark, gen)) /\ Answers(rec, Spend(rec, code, mark, gen))
    BY <1>1, SpendTakes, SpendDoes
  <2> QED BY <1>3, <2>1, <2>2, <2>3
<1>7. CASE RegisterPasskey(q)
  <2>1. Mutate(q, AddPasskey(rec, gen), <<"registered", req[q].n>>)
    BY <1>7 DEF RegisterPasskey
  <2> HIDE DEF kind, gen
  <2>2. /\ Takes(rec, AddPasskey(rec, gen)) /\ Answers(rec, AddPasskey(rec, gen))
        /\ AddPasskey(rec, gen)[1] = "accepted" => AddPasskey(rec, gen)[2].passkey = "active"
    BY <1>1, AddTakes, AddPasskeyDoes
  <2> QED BY <1>3, <2>1, <2>2
<1>8. CASE Regenerate(q)
  <2>1. Mutate(q, ReplaceCodes(rec), <<"codes", req[q].n>>) /\ req[q].at = "replacing"
    BY <1>8 DEF Regenerate
  <2>2. Takes(rec, ReplaceCodes(rec)) /\ Answers(rec, ReplaceCodes(rec)) /\ kind \notin ByPasskey
    BY <1>1, <2>1, ReplaceTakes, ReplaceCodesDoes
  <2> QED BY <1>3, <2>1, <2>2
<1> QED BY <1>4, <1>5, <1>6, <1>7, <1>8

(* The session is issued under the secret its request holds.                               *)
LEMMA SessionStands == ASSUME Typed, SInv, NEW q \in Request, SetSession(q) PROVE SInv'
<1> DEFINE r == req[q]
           s == [secret |-> r.secret, ticket |-> r.ticket, seed |-> IF r.kind \in ByPasskey THEN r.mark ELSE 0]
<1>1. /\ r \in Req /\ r.at = "secret" /\ Stands(rec, r) /\ Len(sessions) \in Nat /\ DOMAIN sessions = 1..Len(sessions)
      /\ sessions \in Seq(Issued) /\ tracked \subseteq DOMAIN sessions
  BY TypedFields DEF Typed, SInv, SetSession
<1>2. /\ UNCHANGED <<rec, seen>> /\ sessions' = Append(sessions, s) /\ tracked' = tracked \cup {Len(sessions) + 1}
      /\ Go(q, Idle)
  BY DEF SetSession, ByPasskey
<1>3. s \in Issued /\ Stood(rec, s.secret, s.seed)
  <2>1. s.secret = r.secret /\ s.seed = IF r.kind \in ByPasskey THEN r.mark ELSE 0
    OBVIOUS
  <2>2. s \in Issued
    BY <1>1 DEF Req, Issued
  <2> HIDE DEF s
  <2> QED BY <1>1, <2>1, <2>2 DEF Stands, Stood
<1> HIDE DEF s
<1>4. /\ DOMAIN sessions' = 1..(Len(sessions) + 1)
      /\ \A i \in DOMAIN sessions' : sessions'[i] = IF i = Len(sessions) + 1 THEN s ELSE sessions[i]
      /\ \A i \in DOMAIN sessions' : i # Len(sessions) + 1 => i \in DOMAIN sessions
  BY <1>1, <1>2, <1>3, AppendProperties
<1>5. \A i \in DOMAIN sessions' : Stood(rec', sessions'[i].secret, sessions'[i].seed)
  BY <1>2, <1>3, <1>4 DEF SInv
<1>6. tracked' \subseteq DOMAIN sessions'
  BY <1>1, <1>2, <1>4
<1>7. \A p \in Request : req'[p] = IF p = q THEN Idle ELSE req[p]
  BY <1>2, OneRequest DEF Go, Typed
<1>8. \A p \in Request : Stands(rec', req'[p])
  BY <1>2, <1>7, Unchanging DEF SInv
<1>9. setup' \in Request \cup {None} /\ \A p \in Request : req'[p].kind \in Locked => setup' = p
  <2>1. setup' = IF setup = q THEN None ELSE setup
    BY <1>2, Unchanging DEF Go
  <2> QED BY <1>7, <2>1, Unchanging DEF SInv
<1> QED BY <1>2, <1>5, <1>6, <1>8, <1>9 DEF SInv

(* The steps of no request.                                                                *)
LEMMA RecordStands ==
  ASSUME Typed, SInv, Keeps(rec, rec'), Counts(rec', seen'.owed, seen'.refused), UNCHANGED <<sessions, tracked, setup, req>>
  PROVE  SInv'
<1>1. rec \in Rec /\ rec' \in Rec /\ Same(rec, rec') /\ \A p \in Request : req[p] \in Req
  BY DEF Typed, Recording, Keeps
<1>2. \A i \in DOMAIN sessions : sessions[i].secret \in Nat
  <2>1. sessions \in Seq(Issued) /\ DOMAIN sessions = 1..Len(sessions)
    BY TypedFields DEF Typed
  <2>2. \A i \in DOMAIN sessions : sessions[i] \in Issued
    BY <2>1, ElementOfSeq
  <2> QED BY <2>2 DEF Issued
<1>3. \A i \in DOMAIN sessions : Stood(rec', sessions[i].secret, sessions[i].seed)
  BY <1>1, <1>2, StillStood DEF SInv
<1>4. \A p \in Request : Stands(rec', req[p])
  BY <1>1, StillStands DEF SInv
<1> QED BY <1>3, <1>4 DEF SInv, Keeps

LEMMA AsideStands ==
  ASSUME Typed, SInv, (\E count \in 1..2 : Acknowledge(count)) \/ Tick \/ Lapse
  PROVE  SInv'
<1>1. /\ rec \in Rec /\ Recording(rec) /\ Sound(rec) /\ Counts(rec, seen.owed, seen.refused) /\ Keeps(rec, rec)
      /\ rec.totp \in Factor
  BY Unchanging, RecordFields DEF Typed, Recording, SInv
<1>2. CASE rec' = rec /\ seen' = seen /\ UNCHANGED <<sessions, tracked, setup, req>>
  BY <1>1, <1>2, RecordStands
<1>3. CASE Tick
  BY <1>2, <1>3 DEF Tick, memory
<1>4. CASE \E count \in 1..2 : Acknowledge(count)
  <2>1. PICK count \in 1..2 : Acknowledge(count)
    BY <1>4
  <2> DEFINE left == IF count > rec.unack THEN 0 ELSE rec.unack - count
             n == [rec EXCEPT !.unack = left]
  <2>2. rec.unack \in Nat /\ rec.since \in Nat
    BY <1>1, RecordFields
  <2>3. left \in Nat /\ left <= rec.unack
    BY <2>2
  <2>4. /\ rec' = n /\ seen' = [seen EXCEPT !.owed = @ - (rec.unack - rec'.unack)] /\ UNCHANGED <<sessions, tracked, setup, req>>
    BY <1>1, <2>1 DEF Acknowledge, Acknowledged, Unmoved, memory, Rec
  <2> HIDE DEF left
  <2>5. /\ n \in Rec /\ n.unack = left
        /\ \A f \in {"password", "totp", "codes", "gen", "secret", "passkey", "since"} : n[f] = rec[f]
    BY <1>1, <2>3 DEF Rec
  <2>6. rec.password
    BY <1>1, <2>1, HasPassword DEF Acknowledge
  <2>7. seen'.owed = seen.owed - (rec.unack - left) /\ seen'.refused = seen.refused
    <3>1. rec'.unack = left
      BY <2>4, <2>5
    <3> QED BY <2>4, <3>1 DEF Typed
  <2> HIDE DEF n
  <2>8. Keeps(rec, n)
    <3>1. n.unack <= MaxFailures
      BY <1>1, <2>2, <2>3, <2>5, SignInAssumption DEF Sound
    <3>2. n.since <= MaxFailures
      BY <1>1, <2>5 DEF Sound
    <3>3. n.password /\ n.secret > 0 /\ n.totp.status \in {"pending", "active"} /\ (n.passkey # "none" => n.codes.set > 0)
      BY <1>1, <2>5, <2>6 DEF Sound
    <3> QED BY <2>5, <3>1, <3>2, <3>3 DEF Keeps, Sound, Same
  <2>9. Counts(n, seen'.owed, seen'.refused)
    <3> DEFINE a == rec.since
               b == rec.unack
    <3>1. n.since = a /\ n.unack = left
      BY <2>5
    <3>2. /\ seen.owed \in Nat /\ seen.refused \in Nat /\ seen.owed <= seen.refused /\ a + b <= seen.owed
          /\ seen.refused <= MaxFailures => seen.owed = a + b
      BY <1>1 DEF Counts
    <3> HIDE DEF a, b
    <3>3. a \in Nat /\ b \in Nat /\ left <= b
      BY <2>2, <2>3 DEF a, b
    <3>4. seen'.owed = seen.owed - (b - left)
      BY <2>7 DEF b
    <3> QED BY <2>3, <2>7, <3>1, <3>2, <3>3, <3>4, SignInAssumption DEF Counts
  <2> QED BY <2>4, <2>8, <2>9, RecordStands
<1>5. CASE Lapse
  <2>1. UNCHANGED <<sessions, tracked, setup, req, seen>>
    BY <1>5 DEF Lapse
  <2> DEFINE open == [rec.totp EXCEPT !.locked = FALSE]
             late == [rec.totp EXCEPT !.expired = TRUE]
  <2>2. /\ open \in Factor /\ open.seed = rec.totp.seed /\ open.status = rec.totp.status
        /\ late \in Factor /\ late.seed = rec.totp.seed /\ late.status = rec.totp.status
    BY <1>1 DEF Factor
  <2>3. \/ rec' = rec
        \/ rec.totp.locked /\ rec' = [rec EXCEPT !.totp = open]
        \/ rec.totp.status = "pending" /\ rec' = [rec EXCEPT !.totp = late]
    <3>1. [rec EXCEPT !.totp.locked = FALSE] = [rec EXCEPT !.totp = open] /\ [rec EXCEPT !.totp.expired = TRUE] = [rec EXCEPT !.totp = late]
      OBVIOUS
    <3> HIDE DEF open, late
    <3> QED BY <1>5, <3>1 DEF Lapse
  <2>4. rec.totp.locked \/ rec.totp.status = "pending" => rec.password /\ rec.totp.status \in {"pending", "active"}
    <3>1. CASE rec.password
      BY <1>1, <3>1 DEF Sound
    <3>2. CASE ~rec.password
      <4>1. rec = Fresh
        BY <1>1, <3>2 DEF Sound
      <4>2. Fresh.totp.locked = FALSE /\ Fresh.totp.status = "none"
        BY DEF Fresh, NoTotp
      <4> QED BY <4>1, <4>2
    <3> QED BY <3>1, <3>2
  <2> HIDE DEF open, late
  <2>5. CASE rec' = rec
    BY <1>2, <2>1, <2>5
  <2>6. ASSUME NEW t \in Factor, t.seed = rec.totp.seed, t.status = rec.totp.status, rec' = [rec EXCEPT !.totp = t],
               rec.totp.locked \/ rec.totp.status = "pending"
        PROVE  SInv'
    <3> DEFINE n == [rec EXCEPT !.totp = t]
    <3>1. n \in Rec /\ Sound(n) /\ Same(rec, n) /\ Told(rec, n, FALSE)
      BY <1>1, <2>4, <2>6, FactorMoves
    <3> HIDE DEF n
    <3>2. Counts(n, seen.owed, seen.refused)
      BY <1>1, <3>1, ToldCounts
    <3>3. rec' = n /\ Keeps(rec, n)
      BY <2>6, <3>1 DEF Keeps, n
    <3> QED BY <2>1, <3>2, <3>3, RecordStands
  <2> QED BY <2>2, <2>3, <2>5, <2>6
<1> QED BY <1>3, <1>4, <1>5

LEMMA CrashStands == ASSUME Typed, SInv, Crash PROVE SInv'
<1>1. /\ UNCHANGED <<rec, sessions, seen>> /\ tracked' = {} /\ setup' = None /\ \A q \in Request : req'[q] = Idle
  BY DEF Crash
<1>2. Stands(rec, Idle) /\ Idle.kind \notin Locked
  BY Unchanging
<1> QED BY <1>1, <1>2 DEF SInv

LEMMA StartsStanding == ASSUME Init PROVE SInv
<1> DEFINE configured == [password |-> TRUE, totp |-> [NewTotp(1) EXCEPT !.status = "active"],
                          codes |-> [set |-> 1, unused |-> RecoveryCode], gen |-> 3, secret |-> 3,
                          passkey |-> "active", since |-> 0, unack |-> 0]
<1>1. /\ rec \in {Fresh, configured} /\ sessions = <<>> /\ tracked = {} /\ setup = None
      /\ \A q \in Request : req[q] = Idle
      /\ seen = [accepted |-> {}, uses |-> 0, owed |-> 0, refused |-> 0]
  BY DEF Init
<1>2. Sound(Fresh) /\ Fresh.since = 0 /\ Fresh.unack = 0
  BY SignInAssumption DEF Sound, Fresh
<1>3. Sound(configured) /\ configured.since = 0 /\ configured.unack = 0
  <2>1. [NewTotp(1) EXCEPT !.status = "active"].status = "active"
    BY DEF NewTotp, NoTotp
  <2>2. /\ configured.password = TRUE /\ configured.totp.status = "active" /\ configured.secret = 3
        /\ configured.codes.set = 1 /\ configured.since = 0 /\ configured.unack = 0
    BY <2>1
  <2> HIDE DEF configured
  <2> QED BY <2>2, SignInAssumption DEF Sound
<1>4. seen.owed = 0 /\ seen.refused = 0
  BY <1>1
<1> HIDE DEF configured
<1>5. Counts(rec, seen.owed, seen.refused) /\ Sound(rec)
  BY <1>1, <1>2, <1>3, <1>4 DEF Counts
<1>6. DOMAIN sessions = {}
  BY <1>1
<1>7. rec \in Rec
  BY SignInStarts DEF IInv, Typed, Recording
<1>8. Stands(rec, Idle) /\ Idle.kind \notin Locked
  BY <1>7, IdleStands DEF Idle, Locked
<1> QED BY <1>1, <1>5, <1>6, <1>8 DEF SInv

LEMMA StepsStand == ASSUME Typed, SInv, [Next]_vars PROVE SInv'
<1>1. CASE UNCHANGED vars
  BY <1>1 DEF vars, SInv
<1>2. ASSUME NEW q \in Request, Setup(q) \/ Login(q) \/ \E s \in tracked : Offer(q, s) \/ BeginRegistration(q, s)
      PROVE  SInv'
  BY <1>2, NewRequestsStand
<1>3. ASSUME NEW q \in Request,
             \/ ConfirmSetup(q) \/ ConfirmLoginTotp(q) \/ ConfirmLoginPasskey(q) \/ ConfirmLoginRecovery(q)
             \/ ConfirmRecoveryEnrollment(q) \/ ConfirmOperation(q)
      PROVE  SInv'
  <2>1. \E kind \in CeremonyKinds : Present(q, kind)
    BY <1>3 DEF ConfirmSetup, ConfirmLoginTotp, ConfirmLoginPasskey, ConfirmLoginRecovery,
       ConfirmRecoveryEnrollment, ConfirmOperation, CeremonyKinds
  <2> QED BY <2>1, PresentedStand
<1>4. ASSUME NEW q \in Request, NEW s \in tracked, CompleteRegistration(q, s) \/ Logout(q, s)
      PROVE  SInv'
  BY <1>4, PresentedStand, LogoutStands
<1>5. ASSUME NEW q \in Request,
             \/ Settle(q) \/ ReadGeneration(q) \/ Issue(q) \/ Derive(q) \/ Confirm(q)
             \/ EndAll(q) \/ FactorChanged(q) \/ ReadSecret(q) \/ Enroll(q) \/ SetSession(q)
      PROVE  SInv'
  BY <1>5, OthersStand, EnrollStands, SessionStands
<1>6. ASSUME NEW q \in Request,
             CompleteTotp(q) \/ Assertion(q) \/ SpendCode(q) \/ RegisterPasskey(q) \/ Regenerate(q)
      PROVE  SInv'
  BY <1>6, TransactionsStand
<1>7. CASE (\E count \in 1..2 : Acknowledge(count)) \/ Tick \/ Lapse
  BY <1>7, AsideStands
<1>8. CASE Crash
  BY <1>8, CrashStands
<1> QED BY <1>1, <1>2, <1>3, <1>4, <1>5, <1>6, <1>7, <1>8 DEF Next

-----------------------------------------------------------------------------
(* The three invariants together.                                                          *)
LEMMA AllKept == Spec => [](IInv /\ DInv /\ SInv)
<1>1. Init => DInv /\ SInv
  BY StartsOne, StartsStanding
<1>2. IInv /\ DInv /\ SInv /\ [Next]_vars => DInv' /\ SInv'
  BY StepsKeepOne, StepsStand DEF IInv
<1> QED BY <1>1, <1>2, Invariant, PTL DEF Spec

LEMMA OneRuns == ASSUME DInv PROVE OneDerivation
<1> DEFINE running == {q \in Request : req[q].at = "deriving"}
<1>1. Cardinality(running) <= 1
  <2>1. CASE running = {}
    BY <2>1, FS_EmptySet
  <2>2. CASE running # {}
    <3>1. PICK q : running = {q}
      BY <2>2 DEF DInv
    <3>2. Cardinality({q}) = 1
      BY FS_Singleton
    <3> QED BY <3>1, <3>2
  <2> QED BY <2>1, <2>2
<1> QED BY <1>1 DEF DInv, OneDerivation

LEMMA RecordTyped ==
  ASSUME NEW r, Recording(r), Sound(r)
  PROVE  /\ r.gen \in Nat /\ r.secret \in Nat /\ (r.password <=> r.secret > 0)
         /\ r.since \in 0..MaxFailures /\ r.unack \in 0..MaxFailures
         /\ AuthState(r) \in {"uninitialized", "enrollment", "recovery", "configured"}
         /\ (r.passkey # "none" => r.codes.set > 0)
<1>1. /\ r \in Rec /\ r.gen \in Nat /\ r.secret \in Nat /\ r.since \in Nat /\ r.unack \in Nat /\ r.codes.set \in Nat
      /\ r.password \in BOOLEAN
  BY RecordFields DEF Recording
<1>2. r.since \in 0..MaxFailures /\ r.unack \in 0..MaxFailures /\ (r.passkey # "none" => r.codes.set > 0)
  BY <1>1, SignInAssumption DEF Sound
<1>3. CASE ~r.password
  <2>1. r = Fresh
    BY <1>3 DEF Sound
  <2>2. r.secret = 0 /\ AuthState(r) = "uninitialized"
    BY <2>1 DEF Fresh, AuthState
  <2> QED BY <1>1, <1>2, <1>3, <2>2
<1>4. CASE r.password
  <2>1. r.secret > 0 /\ r.totp.status \in {"pending", "active"}
    BY <1>4 DEF Sound
  <2>2. AuthState(r) \in {"enrollment", "recovery", "configured"}
    <3>1. CASE r.codes.set = 0
      BY <1>4, <3>1 DEF AuthState
    <3>2. CASE r.codes.set > 0 /\ r.totp.status = "pending"
      BY <1>4, <3>2 DEF AuthState
    <3>3. CASE r.codes.set > 0 /\ r.totp.status = "active"
      BY <1>4, <3>3 DEF AuthState
    <3> QED BY <1>1, <2>1, <3>1, <3>2, <3>3
  <2> QED BY <1>1, <1>2, <1>4, <2>1, <2>2
<1> QED BY <1>1, <1>3, <1>4

(* What a sign-in or a step-up used is used once, one password is looked at at a time, and *)
(* a session a passkey completed ends with the TOTP factor and the passkey it stood on:    *)
(* for any number of requests, codes and restarts.                                         *)
THEOREM CeremoniesAlwaysOnce == Spec => []CeremoniesOnce
<1>1. IInv /\ DInv /\ SInv => TypeOK
  <2> SUFFICES ASSUME IInv, DInv, SInv PROVE TypeOK
    OBVIOUS
  <2>1. Recording(rec) /\ Sound(rec)
    BY DEF IInv, Typed, SInv
  <2>2. limiter.failures \in 0..LoginLimit /\ limiter.lock \in {"open", "locked", "over"}
    BY SignInAssumption DEF DInv
  <2>3. setup \in Request \cup {None} /\ tracked \subseteq DOMAIN sessions /\ \A q \in Request : req[q].kind \in Locked => setup = q
    BY DEF SInv
  <2> QED BY <2>1, <2>2, <2>3, RecordTyped DEF TypeOK
<1>2. IInv => OneUse
  BY DEF IInv, Apart, Counted, OneUse
<1>3. DInv => OneDerivation
  BY OneRuns
<1>4. SInv => PasskeySessionEnds
  BY DEF SInv, Stood, PasskeySessionEnds
<1>5. IInv /\ DInv /\ SInv => CeremoniesOnce
  BY <1>1, <1>2, <1>3, <1>4 DEF CeremoniesOnce
<1> QED BY <1>5, AllKept, PTL

(* Every refused second factor is counted until it is acknowledged, as far as the counters *)
(* go, and every factor that was accepted is in the journal, whichever of the two writes   *)
(* fails and whenever the process stops.                                                   *)
THEOREM NothingEverUnrecorded == Spec => []NothingUnrecorded
<1>1. IInv /\ SInv => NothingUnrecorded
  BY DEF IInv, SInv, Counts, FailuresReported, NothingUnrecorded
<1> QED BY <1>1, AllKept, PTL

-----------------------------------------------------------------------------
(* The Integrations.                                                                       *)
Mode == {"loopback", "local-domain", "out-of-band"}
HandoffRecord == [session : Sessions, challenge : Challenges, mode : Mode, at : {"pending", "used", "gone"},
                  authorized : BOOLEAN, shown : BOOLEAN]

HandoffsTyped ==
  /\ start \in Starts
  /\ handoffs \in Seq(HandoffRecord)
  /\ cookies \in [Sessions -> Nat]
  /\ connected \subseteq Nat
  /\ calls \subseteq [kind : {"authorize", "complete", "cancel"}, handoff : Handoff, at : {"asked", "yes", "lost"}]

(* A handoff that was given away: its address was shown, and it was used.                  *)
Used(h) == h \in Handoff /\ handoffs[h].shown /\ handoffs[h].at = "used"

(* What was given names a handoff that was used.                                           *)
GivenWasUsed ==
  /\ \A h \in Handoff : handoffs[h].authorized => handoffs[h].shown
  /\ \A call \in calls : call.kind = "complete" => Used(call.handoff)
  /\ \A s \in Sessions : cookies[s] # 0 => Used(cookies[s])
  /\ \A h \in connected \ {0} : Used(h)

HandoffsInv == HandoffsTyped /\ GivenWasUsed /\ OnePending /\ ReservedIsAsked

-----------------------------------------------------------------------------
(* How a handoff may look after a step: as before, authorized, or taken out.               *)
Becomes(h, r) ==
  \/ r = handoffs[h]
  \/ Pending(h) /\ r = [handoffs[h] EXCEPT !.authorized = TRUE, !.shown = TRUE]
  \/ Pending(h) /\ \E how \in {"used", "gone"} : r = [handoffs[h] EXCEPT !.at = how]

(* The handoffs after a step that issues none.                                             *)
Goes(hs) ==
  /\ hs \in Seq(HandoffRecord) /\ Len(hs) = Len(handoffs)
  /\ \A h \in Handoff : Becomes(h, hs[h])

LEMMA HandoffFacts ==
  ASSUME handoffs \in Seq(HandoffRecord), NEW h \in Handoff
  PROVE  handoffs[h] \in HandoffRecord
BY ElementOfSeq DEF Handoff

(* One handoff that waits becomes r.                                                       *)
LEMMA OneGoes ==
  ASSUME handoffs \in Seq(HandoffRecord), NEW h \in Handoff, NEW r \in HandoffRecord, Becomes(h, r)
  PROVE  Goes([handoffs EXCEPT ![h] = r])
<1>1. /\ [handoffs EXCEPT ![h] = r] \in Seq(HandoffRecord)
      /\ Len([handoffs EXCEPT ![h] = r]) = Len(handoffs)
      /\ \A i \in 1..Len(handoffs) : [handoffs EXCEPT ![h] = r][i] = IF i = h THEN r ELSE handoffs[i]
  BY ExceptSeq DEF Handoff
<1> QED BY <1>1 DEF Goes, Becomes, Handoff

LEMMA LeaveGoes ==
  ASSUME handoffs \in Seq(HandoffRecord), NEW h \in Handoff, Pending(h), NEW how \in {"used", "gone"}
  PROVE  Goes(Leave(h, how)) /\ Leave(h, how)[h] = [handoffs[h] EXCEPT !.at = how]
<1> DEFINE r == [handoffs[h] EXCEPT !.at = how]
<1>1. r \in HandoffRecord
  BY HandoffFacts DEF HandoffRecord
<1>2. Leave(h, how) = [handoffs EXCEPT ![h] = r]
  BY DEF Leave
<1>3. Becomes(h, r)
  BY DEF Becomes
<1>4. [handoffs EXCEPT ![h] = r][h] = r
  BY ExceptSeq DEF Handoff
<1> HIDE DEF r
<1>5. Goes([handoffs EXCEPT ![h] = r])
  BY <1>1, <1>3, OneGoes
<1> QED BY <1>2, <1>4, <1>5 DEF r

LEMMA StaysGoes == ASSUME handoffs \in Seq(HandoffRecord) PROVE Goes(handoffs)
BY DEF Goes, Becomes

LEMMA DiscardGoes ==
  ASSUME handoffs \in Seq(HandoffRecord), NEW h \in Handoff
  PROVE  Goes(Discard(h)) /\ Discard(h)[h].at # "pending"
<1>1. CASE Pending(h)
  <2>1. [handoffs[h] EXCEPT !.at = "gone"].at = "gone"
    BY HandoffFacts DEF HandoffRecord
  <2> QED BY <1>1, <2>1, LeaveGoes DEF Discard
<1>2. CASE ~Pending(h)
  BY <1>2, StaysGoes DEF Discard, Pending
<1> QED BY <1>1, <1>2

LEMMA ConsumeGoes ==
  ASSUME handoffs \in Seq(HandoffRecord), NEW h \in Handoff, NEW mode
  PROVE  /\ Goes(ConsumeHandoff(h, mode))
         /\ Pending(h) => ConsumeHandoff(h, mode)[h] = [handoffs[h] EXCEPT !.at = "used"]
<1>1. CASE Pending(h)
  BY <1>1, LeaveGoes DEF ConsumeHandoff
<1>2. CASE ~Pending(h)
  BY <1>2, StaysGoes DEF ConsumeHandoff
<1> QED BY <1>1, <1>2

(* What a call for an authorization ends with is not left waiting without one.             *)
LEMMA PublishGoes ==
  ASSUME handoffs \in Seq(HandoffRecord), NEW h \in Handoff
  PROVE  Goes(Publish(h)) /\ (Publish(h)[h].at # "pending" \/ Publish(h)[h].authorized)
<1>1. CASE Pending(h) /\ ~handoffs[h].authorized
  <2> DEFINE r == [handoffs[h] EXCEPT !.authorized = TRUE, !.shown = TRUE]
  <2>1. r \in HandoffRecord /\ r.authorized
    BY HandoffFacts DEF HandoffRecord
  <2>2. Publish(h) = [handoffs EXCEPT ![h] = r]
    <3>1. Publish(h) = [handoffs EXCEPT ![h].authorized = TRUE, ![h].shown = TRUE]
      BY <1>1 DEF Publish
    <3>2. [handoffs EXCEPT ![h].authorized = TRUE, ![h].shown = TRUE] = [handoffs EXCEPT ![h] = r]
      OBVIOUS
    <3> QED BY <3>1, <3>2
  <2>3. Becomes(h, r)
    BY <1>1 DEF Becomes
  <2> HIDE DEF r
  <2>4. [handoffs EXCEPT ![h] = r][h] = r
    BY <2>1, ExceptSeq DEF Handoff
  <2>5. Goes([handoffs EXCEPT ![h] = r])
    BY <2>1, <2>3, OneGoes
  <2> QED BY <2>1, <2>2, <2>4, <2>5
<1>2. CASE ~(Pending(h) /\ ~handoffs[h].authorized)
  BY <1>2, DiscardGoes DEF Publish
<1> QED BY <1>1, <1>2

-----------------------------------------------------------------------------
(* What a step that issues none keeps.                                                     *)
LEMMA GoesFacts ==
  ASSUME HandoffsInv, Goes(handoffs'), NEW h \in Handoff
  PROVE  /\ h \in Handoff' /\ handoffs'[h] \in HandoffRecord
         /\ handoffs'[h].session = handoffs[h].session /\ handoffs'[h].challenge = handoffs[h].challenge
         /\ Pending(h)' => Pending(h) /\ (handoffs[h].authorized => handoffs'[h].authorized)
         /\ handoffs'[h].authorized => handoffs'[h].shown
         /\ Used(h) => Used(h)'
<1>1. handoffs[h] \in HandoffRecord /\ Len(handoffs') = Len(handoffs) /\ Becomes(h, handoffs'[h])
  BY HandoffFacts DEF HandoffsInv, HandoffsTyped, Goes
<1>2. handoffs[h].authorized => handoffs[h].shown
  BY DEF HandoffsInv, GivenWasUsed
<1>3. h \in Handoff' /\ handoffs'[h] \in HandoffRecord
  BY <1>1, ElementOfSeq DEF Goes, Handoff
<1> DEFINE a == handoffs[h]
           b == handoffs'[h]
<1>4. /\ b.session = a.session /\ b.challenge = a.challenge
      /\ b.at = "pending" => a.at = "pending" /\ (a.authorized => b.authorized)
      /\ b.authorized => b.shown
      /\ a.at = "used" /\ a.shown => b.at = "used" /\ b.shown
  <2>1. CASE b = a
    BY <1>2, <2>1
  <2>2. CASE a.at = "pending" /\ b = [a EXCEPT !.authorized = TRUE, !.shown = TRUE]
    BY <1>1, <2>2 DEF HandoffRecord
  <2>3. CASE a.at = "pending" /\ \E how \in {"used", "gone"} : b = [a EXCEPT !.at = how]
    BY <1>1, <1>2, <2>3 DEF HandoffRecord
  <2> QED BY <1>1, <2>1, <2>2, <2>3 DEF Becomes, Pending
<1> QED BY <1>3, <1>4 DEF Pending, Used

Waiting == {h \in Handoff : Pending(h)}

LEMMA WaitingFinite == ASSUME HandoffsTyped PROVE IsFiniteSet(Waiting) /\ Cardinality(Waiting) \in Nat
<1>1. Len(handoffs) \in Nat
  BY LenProperties DEF HandoffsTyped
<1>2. IsFiniteSet(Handoff) /\ Waiting \subseteq Handoff
  BY <1>1, FS_Interval DEF Handoff, Waiting
<1> QED BY <1>2, FS_Subset, FS_CardinalityType

LEMMA GoesOnePending ==
  ASSUME HandoffsInv, Goes(handoffs'), start' = start
  PROVE  OnePending'
<1>1. Waiting' \subseteq Waiting
  BY GoesFacts DEF Waiting, Goes, Handoff
<1>2. IsFiniteSet(Waiting) /\ Cardinality(Waiting) \in Nat
  BY WaitingFinite DEF HandoffsInv
<1>3. IsFiniteSet(Waiting') /\ Cardinality(Waiting') \in Nat /\ Cardinality(Waiting') <= Cardinality(Waiting)
  BY <1>1, <1>2, FS_Subset, FS_CardinalityType
<1>4. Cardinality(Waiting) <= start.capacity /\ start.capacity \in Nat
  BY IntegrationsAssumption DEF HandoffsInv, OnePending, Waiting, HandoffsTyped
<1>5. Cardinality(Waiting') <= start'.capacity
  BY <1>2, <1>3, <1>4
<1>6. \A g, h \in Handoff' :
        Pending(g)' /\ Pending(h)' /\ handoffs'[g].session = handoffs'[h].session
          /\ handoffs'[g].challenge = handoffs'[h].challenge => g = h
  <2> SUFFICES ASSUME NEW g \in Handoff', NEW h \in Handoff', Pending(g)', Pending(h)',
                      handoffs'[g].session = handoffs'[h].session,
                      handoffs'[g].challenge = handoffs'[h].challenge
               PROVE  g = h
    OBVIOUS
  <2>1. g \in Handoff /\ h \in Handoff
    BY DEF Goes, Handoff
  <2> QED BY <2>1, GoesFacts DEF HandoffsInv, OnePending
<1> QED BY <1>5, <1>6 DEF OnePending, Waiting

(* A step that issues no handoff keeps the invariant, if what it gives away was used and   *)
(* it leaves every reservation its call.                                                   *)
LEMMA GoesKeeps ==
  ASSUME HandoffsInv, Goes(handoffs'), start' = start,
         cookies' \in [Sessions -> Nat], connected' \subseteq Nat,
         calls' \subseteq [kind : {"authorize", "complete", "cancel"}, handoff : Handoff, at : {"asked", "yes", "lost"}],
         \A call \in calls' : call.kind = "complete" => Used(call.handoff)' \/ call \in calls,
         \A s \in Sessions : cookies'[s] \in {0, cookies[s]} \/ Used(cookies[s])',
         \A h \in connected' \ {0} : h \in connected \/ Used(h)',
         \A h \in Handoff :
            /\ Pending(h)' /\ ~handoffs'[h].authorized
            /\ \E call \in calls : call.kind = "authorize" /\ call.handoff = h
            => \E call \in calls' : call.kind = "authorize" /\ call.handoff = h
  PROVE  HandoffsInv'
<1>1. Handoff' = Handoff
  BY DEF Goes, Handoff
<1>2. HandoffsTyped'
  BY <1>1 DEF HandoffsTyped, HandoffsInv, Goes
<1>3. GivenWasUsed'
  <2>1. \A h : Used(h) => Used(h)'
    BY GoesFacts DEF Used
  <2>2. \A h \in Handoff' : handoffs'[h].authorized => handoffs'[h].shown
    BY <1>1, GoesFacts
  <2>3. \A call \in calls' : call.kind = "complete" => Used(call.handoff)'
    BY <2>1 DEF HandoffsInv, GivenWasUsed
  <2>4. \A s \in Sessions : cookies'[s] # 0 => Used(cookies[s])'
    BY <2>1 DEF HandoffsInv, GivenWasUsed
  <2>5. \A h \in connected' \ {0} : Used(h)'
    BY <2>1 DEF HandoffsInv, GivenWasUsed
  <2> QED BY <2>2, <2>3, <2>4, <2>5 DEF GivenWasUsed
<1>4. ReservedIsAsked'
  BY <1>1, GoesFacts DEF HandoffsInv, ReservedIsAsked
<1> QED BY <1>2, <1>3, <1>4, GoesOnePending DEF HandoffsInv

-----------------------------------------------------------------------------
Call == [kind : {"authorize", "complete", "cancel"}, handoff : Handoff, at : {"asked", "yes", "lost"}]

LEMMA CallFacts ==
  ASSUME HandoffsInv, NEW call \in calls
  PROVE  /\ call \in Call /\ call.handoff \in Handoff
         /\ call.kind = "complete" => Used(call.handoff)
         /\ calls \subseteq Call /\ handoffs \in Seq(HandoffRecord) /\ cookies \in [Sessions -> Nat]
         /\ connected \subseteq Nat
BY DEF HandoffsInv, HandoffsTyped, Call, GivenWasUsed

LEMMA Bases ==
  ASSUME HandoffsInv
  PROVE  /\ calls \subseteq Call /\ handoffs \in Seq(HandoffRecord) /\ cookies \in [Sessions -> Nat]
         /\ connected \subseteq Nat /\ Goes(handoffs)
BY StaysGoes DEF HandoffsInv, HandoffsTyped, Call

LEMMA AuthorizeKeeps ==
  ASSUME HandoffsInv, NEW s \in Sessions, NEW c \in Challenges,
         NEW mode \in Mode \cup {"refused"}, Authorize(s, c, mode)
  PROVE  HandoffsInv'
<1> DEFINE r == [session |-> s, challenge |-> c, mode |-> mode, at |-> "pending", authorized |-> FALSE, shown |-> FALSE]
           n == Len(handoffs) + 1
           asked == [kind |-> "authorize", handoff |-> n, at |-> "asked"]
<1>1. /\ Issuable(s, c) /\ handoffs' = Append(handoffs, r) /\ calls' = calls \cup {asked}
      /\ mode \in Mode /\ UNCHANGED <<held, connected, cookies, signedOut, start>>
  BY DEF Authorize
<1>2. r \in HandoffRecord
  BY <1>1 DEF HandoffRecord
<1>3. /\ handoffs' \in Seq(HandoffRecord) /\ Len(handoffs') = n /\ Len(handoffs) \in Nat
      /\ \A h \in Handoff : handoffs'[h] = handoffs[h]
      /\ handoffs'[n] = r /\ n \in Nat
  <2>1. Len(handoffs) \in Nat
    BY Bases, LenProperties
  <2> HIDE DEF r
  <2> QED BY <1>1, <1>2, <2>1, Bases, AppendProperties DEF Handoff
<1>4. Handoff' = Handoff \cup {n} /\ n \notin Handoff
  BY <1>3 DEF Handoff
<1>5. HandoffsTyped'
  <2>1. calls' \subseteq Call'
    BY <1>1, <1>4, Bases DEF Call
  <2> QED BY <1>1, <1>3, <2>1 DEF HandoffsTyped, HandoffsInv, Call
<1>6. \A h : Used(h) => Used(h)'
  BY <1>3, <1>4 DEF Used
<1>7. GivenWasUsed'
  <2>1. \A h \in Handoff' : handoffs'[h].authorized => handoffs'[h].shown
    BY <1>3, <1>4 DEF HandoffsInv, GivenWasUsed
  <2>2. \A call \in calls' : call.kind = "complete" => Used(call.handoff)'
    BY <1>1, <1>6 DEF HandoffsInv, GivenWasUsed
  <2>3. \A x \in Sessions : cookies[x] # 0 => Used(cookies[x])'
    BY <1>1, <1>6 DEF HandoffsInv, GivenWasUsed
  <2>4. \A h \in connected \ {0} : Used(h)'
    BY <1>6 DEF HandoffsInv, GivenWasUsed
  <2> QED BY <1>1, <2>1, <2>2, <2>3, <2>4 DEF GivenWasUsed
<1>8. ReservedIsAsked'
  <2>1. asked.kind = "authorize" /\ asked.handoff = n /\ asked \in calls' /\ calls \subseteq calls'
    BY <1>1
  <2>2. \A h \in Handoff : Pending(h) /\ ~handoffs[h].authorized =>
          \E call \in calls' : call.kind = "authorize" /\ call.handoff = h
    BY <2>1 DEF HandoffsInv, ReservedIsAsked
  <2>3. \E call \in calls' : call.kind = "authorize" /\ call.handoff = n
    BY <2>1
  <2> HIDE DEF asked, r, n
  <2> QED BY <1>3, <1>4, <2>2, <2>3 DEF ReservedIsAsked, Pending
<1>9. Cardinality(Waiting') <= start'.capacity
  <2>1. Waiting' = Waiting \cup {n} /\ n \notin Waiting
    BY <1>3, <1>4 DEF Waiting, Pending
  <2>2. IsFiniteSet(Waiting) /\ Cardinality(Waiting) \in Nat /\ Cardinality(Waiting') = Cardinality(Waiting) + 1
    BY <2>1, WaitingFinite, FS_AddElement DEF HandoffsInv
  <2>3. Cardinality(Waiting) < start.capacity /\ start.capacity \in Nat
    BY <1>1, IntegrationsAssumption DEF Issuable, Waiting, HandoffsInv, HandoffsTyped
  <2> QED BY <1>1, <2>2, <2>3
<1>10. \A g, h \in Handoff' :
         Pending(g)' /\ Pending(h)' /\ handoffs'[g].session = handoffs'[h].session
           /\ handoffs'[g].challenge = handoffs'[h].challenge => g = h
  <2>1. r.session = s /\ r.challenge = c
    OBVIOUS
  <2>2. \A g, h \in Handoff :
         Pending(g) /\ Pending(h) /\ handoffs[g].session = handoffs[h].session
           /\ handoffs[g].challenge = handoffs[h].challenge => g = h
    BY DEF HandoffsInv, OnePending
  <2>3. \A h \in Handoff : Pending(h) => ~(handoffs[h].session = s /\ handoffs[h].challenge = c)
    BY <1>1 DEF Issuable
  <2> HIDE DEF r, n
  <2> QED BY <1>3, <1>4, <2>1, <2>2, <2>3 DEF Pending
<1> QED BY <1>5, <1>7, <1>8, <1>9, <1>10 DEF HandoffsInv, OnePending, Waiting

(* Team answers the call of an authorization: its handoff stays asked for.                 *)
LEMMA TeamAuthorizesKeeps ==
  ASSUME HandoffsInv, NEW call \in calls, TeamAuthorizes(call)
  PROVE  HandoffsInv'
<1>1. PICK answer \in {"yes", "lost"} :
        /\ calls' = (calls \ {call}) \cup {[call EXCEPT !.at = answer]}
        /\ UNCHANGED <<handoffs, connected, cookies, signedOut, start>>
  BY DEF TeamAuthorizes
<1> DEFINE answered == [call EXCEPT !.at = answer]
<1>2. /\ answered \in Call /\ answered.kind = call.kind /\ answered.handoff = call.handoff
      /\ call.kind = "authorize"
  BY CallFacts DEF Call, TeamAuthorizes
<1> HIDE DEF answered
<1>3. calls' = (calls \ {call}) \cup {answered}
  BY <1>1 DEF answered
<1>4. calls' \subseteq Call
  BY <1>2, <1>3, Bases
<1>5. \A k \in calls' : k.kind = "complete" => k \in calls
  BY <1>2, <1>3
<1>6. \A h : (\E k \in calls : k.kind = "authorize" /\ k.handoff = h)
        => (\E k \in calls' : k.kind = "authorize" /\ k.handoff = h)
  BY <1>2, <1>3
<1> QED BY <1>1, <1>4, <1>5, <1>6, Bases, GoesKeeps DEF Call

LEMMA AuthorizedKeeps ==
  ASSUME HandoffsInv, NEW call \in calls, Authorized(call)
  PROVE  HandoffsInv'
<1>1. /\ calls' = calls \ {call} /\ UNCHANGED <<connected, cookies, start>>
      /\ handoffs' = Publish(call.handoff) \/ handoffs' = Discard(call.handoff)
  BY DEF Authorized
<1>2. Goes(handoffs') /\ (handoffs'[call.handoff].at # "pending" \/ handoffs'[call.handoff].authorized)
  BY <1>1, CallFacts, PublishGoes, DiscardGoes
<1>3. \A h \in Handoff : Pending(h)' /\ ~handoffs'[h].authorized => h # call.handoff
  BY <1>2 DEF Pending
<1> QED BY <1>1, <1>2, <1>3, Bases, GoesKeeps DEF Call

LEMMA OauthStartKeeps ==
  ASSUME HandoffsInv, NEW s \in Sessions, NEW h \in Handoff, NEW host, OauthStart(s, h, host)
  PROVE  HandoffsInv'
<1>1. /\ handoffs' = (IF host = "none" THEN Discard(h) ELSE ConsumeHandoff(h, host))
      /\ cookies' = (IF Usable(h, host) THEN [cookies EXCEPT ![s] = h] ELSE cookies)
      /\ handoffs[h].shown /\ UNCHANGED <<calls, connected, start>>
  BY DEF OauthStart
<1>2. Goes(handoffs')
  BY <1>1, Bases, DiscardGoes, ConsumeGoes
<1>3. ASSUME Usable(h, host)
      PROVE  Used(h)'
  <2>1. handoffs[h] \in HandoffRecord /\ Pending(h) /\ handoffs[h].mode = host
    BY <1>3, Bases, HandoffFacts DEF Usable
  <2>2. host # "none"
    BY <2>1 DEF HandoffRecord, Mode
  <2>3. handoffs'[h] = [handoffs[h] EXCEPT !.at = "used"]
    BY <1>1, <2>1, <2>2, Bases, ConsumeGoes
  <2>4. handoffs'[h].at = "used" /\ handoffs'[h].shown
    BY <1>1, <2>1, <2>3 DEF HandoffRecord
  <2> QED BY <1>2, <2>4 DEF Used, Goes, Handoff
<1>4. cookies' \in [Sessions -> Nat] /\ \A x \in Sessions : cookies'[x] \in {0, cookies[x]} \/ Used(cookies[x])'
  <2>1. CASE Usable(h, host)
    <3>1. h \in Nat /\ cookies' = [cookies EXCEPT ![s] = h] /\ cookies \in [Sessions -> Nat]
      BY <1>1, <2>1, Bases DEF Handoff
    <3>2. cookies' \in [Sessions -> Nat] /\ \A x \in Sessions : cookies'[x] = IF x = s THEN h ELSE cookies[x]
      BY <3>1
    <3>3. \A x \in Sessions : cookies'[x] = h => Used(cookies[x])'
      BY <1>3, <2>1 DEF Used
    <3> QED BY <3>2, <3>3
  <2>2. CASE ~Usable(h, host)
    BY <1>1, <2>2, Bases
  <2> QED BY <2>1, <2>2
<1> QED BY <1>1, <1>2, <1>4, Bases, GoesKeeps DEF Call

(* What Team connects is what it was given.                                                *)
LEMMA ConnectsOnly ==
  ASSUME HandoffsInv, NEW binding, TeamConnects(binding)
  PROVE  connected' \subseteq connected \cup {binding} /\ (binding = 0 => connected' = connected)
BY DEF TeamConnects

LEMMA OauthCallbackKeeps ==
  ASSUME HandoffsInv, NEW s \in Sessions, OauthCallback(s)
  PROVE  HandoffsInv'
<1>1. cookies' = [cookies EXCEPT ![s] = 0] /\ cookies[s] # 0 /\ UNCHANGED <<calls, handoffs, start>>
  BY DEF OauthCallback
<1>2. cookies[s] \in Nat /\ Used(cookies[s])
  BY <1>1, Bases DEF HandoffsInv, GivenWasUsed
<1>3. connected' \subseteq connected \cup {cookies[s]}
  BY ConnectsOnly DEF OauthCallback
<1>4. \A h \in connected' \ {0} : h \in connected \/ Used(h)'
  BY <1>1, <1>2, <1>3 DEF Used, Handoff
<1>5. cookies' \in [Sessions -> Nat] /\ \A x \in Sessions : cookies'[x] \in {0, cookies[x]}
  BY <1>1, Bases
<1>6. connected' \subseteq Nat
  BY <1>2, <1>3, Bases
<1> QED BY <1>1, <1>4, <1>5, <1>6, Bases, GoesKeeps DEF Call

LEMMA CompleteKeeps ==
  ASSUME HandoffsInv, NEW s \in Sessions, NEW c \in Challenges, Complete(s, c)
  PROVE  HandoffsInv'
<1>1. PICK h \in Handoff :
        /\ Usable(h, "out-of-band") /\ handoffs' = Leave(h, "used")
        /\ calls' = calls \cup {[kind |-> "complete", handoff |-> h, at |-> "asked"]}
        /\ UNCHANGED <<connected, cookies, start>>
  BY DEF Complete
<1>2. Goes(handoffs') /\ handoffs'[h] = [handoffs[h] EXCEPT !.at = "used"]
  BY <1>1, Bases, LeaveGoes DEF Usable
<1>3. Used(h)'
  <2>1. handoffs[h] \in HandoffRecord /\ handoffs[h].shown
    BY <1>1, Bases, HandoffFacts DEF Usable, HandoffsInv, GivenWasUsed
  <2> QED BY <1>2, <2>1 DEF Used, HandoffRecord, Goes, Handoff
<1>4. calls' \subseteq Call /\ \A k \in calls' : k.kind = "complete" => Used(k.handoff)' \/ k \in calls
  BY <1>1, <1>3, Bases DEF Call
<1> QED BY <1>1, <1>2, <1>4, Bases, GoesKeeps DEF Call

(* Team's part of a completion or a cancellation: the call is over.                        *)
LEMMA TeamCompletesKeeps ==
  ASSUME HandoffsInv, NEW call \in calls, TeamCompletes(call)
  PROVE  HandoffsInv'
<1>1. call.kind = "complete" /\ calls' = calls \ {call} /\ UNCHANGED <<handoffs, cookies, start>>
  BY DEF TeamCompletes
<1>2. Used(call.handoff) /\ call.handoff \in Nat
  BY <1>1, CallFacts DEF Handoff
<1>3. connected' \subseteq connected \cup {call.handoff}
  BY ConnectsOnly DEF TeamCompletes
<1>4. \A h \in connected' \ {0} : h \in connected \/ Used(h)'
  BY <1>1, <1>2, <1>3 DEF Used, Handoff
<1>5. connected' \subseteq Nat
  BY <1>2, <1>3, Bases
<1> QED BY <1>1, <1>4, <1>5, Bases, GoesKeeps DEF Call

LEMMA TeamCancelsKeeps ==
  ASSUME HandoffsInv, NEW call \in calls, TeamCancels(call)
  PROVE  HandoffsInv'
<1>1. call.kind = "cancel" /\ calls' = calls \ {call} /\ UNCHANGED <<handoffs, connected, cookies, start>>
  BY DEF TeamCancels
<1> QED BY <1>1, Bases, GoesKeeps DEF Call

LEMMA CancelKeeps ==
  ASSUME HandoffsInv, NEW s \in Sessions, NEW c \in Challenges, Cancel(s, c)
  PROVE  HandoffsInv'
<1>1. PICK h \in Handoff :
        /\ Pending(h) /\ handoffs' = Leave(h, "gone")
        /\ calls' = calls \cup {[kind |-> "cancel", handoff |-> h, at |-> "asked"]}
        /\ UNCHANGED <<connected, cookies, start>>
  BY DEF Cancel
<1>2. Goes(handoffs')
  BY <1>1, Bases, LeaveGoes
<1>3. calls' \subseteq Call /\ \A k \in calls' : k.kind = "complete" => k \in calls
  BY <1>1, Bases DEF Call
<1> QED BY <1>1, <1>2, <1>3, Bases, GoesKeeps DEF Call

LEMMA SignOutKeeps ==
  ASSUME HandoffsInv, NEW s \in Sessions, SignOut(s)
  PROVE  HandoffsInv'
<1>1. /\ handoffs' = [h \in Handoff |->
           IF Pending(h) /\ handoffs[h].session = s THEN [handoffs[h] EXCEPT !.at = "gone"] ELSE handoffs[h]]
      /\ UNCHANGED <<calls, connected, cookies, start>>
  BY DEF SignOut
<1>2. Goes(handoffs')
  <2>1. \A h \in Handoff : handoffs[h] \in HandoffRecord /\ [handoffs[h] EXCEPT !.at = "gone"] \in HandoffRecord
    BY Bases, HandoffFacts DEF HandoffRecord
  <2>2. handoffs' \in [1..Len(handoffs) -> HandoffRecord] /\ Len(handoffs) \in Nat
    BY <1>1, <2>1, Bases, LenProperties DEF Handoff
  <2>3. handoffs' \in Seq(HandoffRecord) /\ Len(handoffs') = Len(handoffs)
    BY <2>2
  <2> QED BY <1>1, <2>3 DEF Goes, Becomes
<1> QED BY <1>1, <1>2, Bases, GoesKeeps DEF Call

LEMMA ExpireKeeps ==
  ASSUME HandoffsInv, NEW h \in Handoff, Expire(h)
  PROVE  HandoffsInv'
<1>1. Pending(h) /\ handoffs' = Leave(h, "gone") /\ UNCHANGED <<calls, connected, cookies, start>>
  BY DEF Expire
<1> QED BY <1>1, Bases, LeaveGoes, GoesKeeps DEF Call

LEMMA HandoffsBegin == HandoffsInit => HandoffsInv
<1> SUFFICES ASSUME HandoffsInit PROVE HandoffsInv
  OBVIOUS
<1>1. handoffs = <<>> /\ Handoff = {} /\ calls = {} /\ connected = {} /\ start \in Starts
      /\ cookies = [s \in Sessions |-> 0]
  BY EmptySeq DEF HandoffsInit, Handoff
<1>2. HandoffsTyped
  BY <1>1, EmptySeq DEF HandoffsTyped
<1>3. Waiting = {} /\ Cardinality(Waiting) = 0
  BY <1>1, FS_EmptySet DEF Waiting
<1>4. OnePending
  BY <1>1, <1>3, IntegrationsAssumption DEF OnePending, Waiting
<1> QED BY <1>1, <1>2, <1>4 DEF HandoffsInv, GivenWasUsed, ReservedIsAsked

LEMMA HandoffSteps == ASSUME HandoffsInv, [HandoffsNext]_handoffVars PROVE HandoffsInv'
<1>1. CASE UNCHANGED handoffVars
  BY <1>1, Bases, GoesKeeps DEF handoffVars, Call
<1>2. ASSUME NEW s \in Sessions, NEW c \in Challenges,
             (\E mode \in {"loopback", "local-domain", "out-of-band", "refused"} : Authorize(s, c, mode))
               \/ Complete(s, c) \/ Cancel(s, c)
      PROVE  HandoffsInv'
  BY <1>2, AuthorizeKeeps, CompleteKeeps, CancelKeeps DEF Mode
<1>3. ASSUME NEW s \in Sessions,
             (\E h \in Handoff, host \in {"loopback", "local-domain", "none"} : OauthStart(s, h, host))
               \/ OauthCallback(s) \/ SignOut(s)
      PROVE  HandoffsInv'
  BY <1>3, OauthStartKeeps, OauthCallbackKeeps, SignOutKeeps
<1>4. ASSUME NEW call \in calls,
             TeamAuthorizes(call) \/ Authorized(call) \/ TeamCompletes(call) \/ TeamCancels(call)
      PROVE  HandoffsInv'
  BY <1>4, TeamAuthorizesKeeps, AuthorizedKeeps, TeamCompletesKeeps, TeamCancelsKeeps
<1>5. ASSUME NEW c \in Challenges, Approve(c)
      PROVE  HandoffsInv'
  <2>1. UNCHANGED <<handoffs, calls, connected, cookies, start>>
    BY <1>5 DEF Approve
  <2> QED BY <2>1, Bases, GoesKeeps DEF Call
<1>6. ASSUME NEW h \in Handoff, Expire(h)
      PROVE  HandoffsInv'
  BY <1>6, ExpireKeeps
<1> QED BY <1>1, <1>2, <1>3, <1>4, <1>5, <1>6 DEF HandoffsNext

(* The invariant holds in every state the handoffs reach.                                  *)
THEOREM HandoffsInvariant == HandoffsSpec => []HandoffsInv
BY HandoffsBegin, HandoffSteps, PTL DEF HandoffsSpec

(* However calls, answers, routes and sign-outs cross: one authorization of a session for a *)
(* challenge waits at a time, a reservation that waits is being asked for, and only a      *)
(* handoff that was used connects.                                                         *)
THEOREM HandoffsAlwaysHeld == HandoffsSpec => []HandoffsHeld
<1>1. ASSUME HandoffsInv
      PROVE  ConnectedWasUsed
  <2>1. ASSUME NEW h \in (connected \cup {cookies[s] : s \in Sessions}) \ {0}
        PROVE  Used(h)
    BY <1>1 DEF HandoffsInv, GivenWasUsed
  <2> QED BY <2>1 DEF ConnectedWasUsed, Used
<1>2. HandoffsInv => HandoffsHeld
  BY <1>1 DEF HandoffsInv, HandoffsHeld
<1> QED BY <1>2, HandoffsInvariant, PTL

(* A binding leaves the store by the one use of a handoff that waited.                     *)
THEOREM GivenAtMostOnce == HandoffsSpec => GivenOnce
<1> DEFINE Gives(h) == Given(h) => Pending(h) /\ handoffs'[h].at = "used"
<1>1. ASSUME HandoffsInv, [HandoffsNext]_handoffVars, NEW h \in Handoff, Given(h)
      PROVE  Pending(h) /\ handoffs'[h].at = "used"
  <2>1. h \in Nat /\ h # 0
    BY DEF Handoff
  <2>2. CASE cookies' = cookies /\ calls' \subseteq calls
    BY <1>1, <2>2 DEF Given
  <2>3. ASSUME NEW s \in Sessions, NEW c \in Challenges, NEW mode, Authorize(s, c, mode)
        PROVE  FALSE
    <3>1. cookies' = cookies /\ \E n : calls' = calls \cup {[kind |-> "authorize", handoff |-> n, at |-> "asked"]}
      BY <2>3 DEF Authorize
    <3> QED BY <1>1, <3>1 DEF Given
  <2>4. ASSUME NEW s \in Sessions, NEW c \in Challenges, Complete(s, c)
        PROVE  Pending(h) /\ handoffs'[h].at = "used"
    <3>1. PICK g \in Handoff :
            /\ Usable(g, "out-of-band") /\ handoffs' = Leave(g, "used") /\ cookies' = cookies
            /\ calls' = calls \cup {[kind |-> "complete", handoff |-> g, at |-> "asked"]}
      BY <2>4 DEF Complete
    <3>2. g = h
      BY <1>1, <3>1 DEF Given
    <3>3. handoffs'[h] = [handoffs[h] EXCEPT !.at = "used"] /\ handoffs[h] \in HandoffRecord
      BY <1>1, <3>1, <3>2, Bases, LeaveGoes, HandoffFacts DEF Usable
    <3> QED BY <3>1, <3>2, <3>3 DEF Usable, HandoffRecord
  <2>5. ASSUME NEW s \in Sessions, NEW c \in Challenges, Cancel(s, c)
        PROVE  FALSE
    <3>1. cookies' = cookies /\ \E n : calls' = calls \cup {[kind |-> "cancel", handoff |-> n, at |-> "asked"]}
      BY <2>5 DEF Cancel
    <3> QED BY <1>1, <3>1 DEF Given
  <2>6. ASSUME NEW s \in Sessions, NEW g \in Handoff, NEW host, OauthStart(s, g, host)
        PROVE  Pending(h) /\ handoffs'[h].at = "used"
    <3>1. /\ calls' = calls /\ handoffs' = (IF host = "none" THEN Discard(g) ELSE ConsumeHandoff(g, host))
          /\ cookies' = (IF Usable(g, host) THEN [cookies EXCEPT ![s] = g] ELSE cookies)
      BY <2>6 DEF OauthStart
    <3>2. cookies \in [Sessions -> Nat]
      BY <1>1, Bases
    <3>3. g = h /\ Usable(g, host)
      BY <1>1, <3>1, <3>2 DEF Given
    <3>4. handoffs[h] \in HandoffRecord /\ Pending(h) /\ handoffs[h].mode = host
      BY <1>1, <3>3, Bases, HandoffFacts DEF Usable
    <3>5. host # "none"
      BY <3>4 DEF HandoffRecord, Mode
    <3>6. handoffs'[h] = [handoffs[h] EXCEPT !.at = "used"]
      BY <1>1, <3>1, <3>3, <3>4, <3>5, Bases, ConsumeGoes
    <3> QED BY <3>4, <3>6 DEF HandoffRecord
  <2>7. ASSUME NEW s \in Sessions, OauthCallback(s)
        PROVE  FALSE
    <3>1. calls' = calls /\ cookies' = [cookies EXCEPT ![s] = 0] /\ cookies \in [Sessions -> Nat]
      BY <1>1, <2>7, Bases DEF OauthCallback
    <3> QED BY <1>1, <2>1, <3>1 DEF Given
  <2>8. ASSUME NEW call \in calls, TeamAuthorizes(call)
        PROVE  FALSE
    <3>1. cookies' = cookies /\ \A k \in calls' \ calls : k.kind = "authorize"
      <4>1. PICK answer \in {"yes", "lost"} : calls' = (calls \ {call}) \cup {[call EXCEPT !.at = answer]}
        BY <2>8 DEF TeamAuthorizes
      <4>2. [call EXCEPT !.at = answer].kind = "authorize"
        BY <1>1, <2>8, CallFacts DEF Call, TeamAuthorizes
      <4> QED BY <2>8, <4>1, <4>2 DEF TeamAuthorizes
    <3> QED BY <1>1, <3>1 DEF Given
  <2>9. ASSUME \/ \E call \in calls : Authorized(call) \/ TeamCompletes(call) \/ TeamCancels(call)
               \/ \E s \in Sessions : SignOut(s)
               \/ \E c \in Challenges : Approve(c)
               \/ \E g \in Handoff : Expire(g)
               \/ UNCHANGED handoffVars
        PROVE  cookies' = cookies /\ calls' \subseteq calls
    BY <2>9 DEF Authorized, TeamCompletes, TeamCancels, SignOut, Approve, Expire, handoffVars
  <2> QED BY <1>1, <2>2, <2>3, <2>4, <2>5, <2>6, <2>7, <2>8, <2>9 DEF HandoffsNext
<1>2. HandoffsInv /\ [HandoffsNext]_handoffVars => [\A h \in Handoff : Gives(h)]_handoffVars
  BY <1>1
<1> QED BY <1>2, HandoffsInvariant, PTL DEF HandoffsSpec, GivenOnce

-----------------------------------------------------------------------------
(* The rows of a transcript.                                                              *)
(* What each writer shapes, the reader admits, at whatever size.                           *)
Read(p) ==
  CASE p.kind = "message"             -> StoredMessage(p)
    [] p.kind = "assistant-install"   -> StoredInstall(p)
    [] p.kind = "assistant-uninstall" -> StoredUninstall(p)
    [] p.kind = "guidance"            -> StoredGuidance(p)
    [] p.kind = "routine-run"         -> StoredNotice(p)
    [] p.kind = "routine-answer"      -> StoredAnswer(p)
    [] p.kind = "status"              -> StoredStatus(p)
    [] OTHER                          -> FALSE

LEMMA InstallRead ==
  ASSUME NEW e, InstallPayload(e) # Invalid
  PROVE  InstallPayload(e).kind = "assistant-install" /\ StoredInstall(InstallPayload(e))
<1> DEFINE D == {"kind"} \cup (DOMAIN e \cap {"state", "assistants", "status", "code", "outcome"})
           p == [name \in D |-> IF name = "kind" THEN "assistant-install" ELSE e[name]]
<1>1. /\ e.state \in {"installed", "failed", "stopped"} /\ DOMAIN e = InstallExpected(e)
      /\ InstallAssistants(e.assistants) /\ InstallResultValid(e)
      /\ InstallPayload(e) = p
  BY DEF InstallPayload
<1>2. {"state", "assistants"} \subseteq DOMAIN e /\ "kind" \in D /\ {"state", "assistants"} \subseteq D
  BY <1>1 DEF InstallExpected
<1>3. p.kind = "assistant-install" /\ p.state = e.state /\ p.assistants = e.assistants
  BY <1>2
<1>4. \A n \in {"status", "code", "outcome"} : (n \in D <=> n \in DOMAIN e) /\ (n \in D => p[n] = e[n])
  OBVIOUS
<1>5. DOMAIN p = D
  OBVIOUS
<1> HIDE DEF D
<1> HIDE DEF p
<1>6. CASE e.state = "installed"
  <2>1. DOMAIN e = {"type", "state", "plan_id", "team_id", "assistants", "continuation"} \cup (DOMAIN e \cap {"outcome"})
    BY <1>1, <1>6 DEF InstallExpected
  <2>2. D = {"kind", "state", "assistants"} \cup (D \cap {"outcome"}) /\ "code" \notin D
    BY <2>1 DEF D
  <2>3. AllInstalled(e.assistants) /\ ("outcome" \in DOMAIN e => e.outcome = "already-installed")
    BY <1>1, <1>6 DEF InstallResultValid
  <2> QED BY <1>1, <1>3, <1>4, <1>5, <1>6, <2>2, <2>3 DEF StoredInstall
<1>7. CASE e.state = "failed"
  <2>1. DOMAIN e = {"type", "state", "plan_id", "team_id", "assistants", "status"} \cup (DOMAIN e \cap {"code"})
    BY <1>1, <1>7 DEF InstallExpected
  <2>2. D = {"kind", "state", "assistants", "status"} \cup (D \cap {"code"}) /\ "outcome" \notin D
    BY <2>1 DEF D
  <2>3. StatusCode(e) /\ CodeValid(e)
    BY <1>1, <1>7 DEF InstallResultValid
  <2>4. StatusCode(p) /\ p.status = e.status
    BY <1>4, <1>5, <2>2, <2>3 DEF StatusCode
  <2> QED BY <1>1, <1>3, <1>4, <1>5, <1>7, <2>2, <2>3, <2>4 DEF StoredInstall, CodeValid
<1>8. CASE e.state = "stopped"
  <2>1. DOMAIN e = {"type", "state", "plan_id", "team_id", "assistants"}
    BY <1>1, <1>8 DEF InstallExpected
  <2>2. D = {"kind", "state", "assistants"}
    BY <2>1 DEF D
  <2> QED BY <1>1, <1>3, <1>5, <1>8, <2>2 DEF StoredInstall
<1> QED BY <1>1, <1>6, <1>7, <1>8

LEMMA UninstallRead ==
  ASSUME NEW e, UninstallPayload(e) # Invalid
  PROVE  UninstallPayload(e).kind = "assistant-uninstall" /\ StoredUninstall(UninstallPayload(e))
<1> DEFINE F == {"type", "state", "proposal_id", "assistant_id", "assistant"}
                \cup (CASE e.state = "uninstalled" -> {"team_id", "uninstalled"} [] e.state = "failed" -> {"status"} [] OTHER -> {})
           D == {"kind"} \cup (DOMAIN e \cap {"state", "assistant", "uninstalled", "status"})
           p == [name \in D |-> IF name = "kind" THEN "assistant-uninstall" ELSE e[name]]
<1>1. /\ e.state \in {"uninstalled", "failed", "cancelled", "expired"} /\ DOMAIN e = F
      /\ UninstallAssistant(e.assistant)
      /\ e.state = "uninstalled" => e.uninstalled \in BOOLEAN
      /\ e.state = "failed" => StatusCode(e)
      /\ UninstallPayload(e) = p
  BY DEF UninstallPayload
<1>2. {"state", "assistant"} \subseteq DOMAIN e
  BY <1>1
<1>3. p.kind = "assistant-uninstall" /\ p.state = e.state /\ p.assistant = e.assistant
  BY <1>2
<1>4. \A n \in {"uninstalled", "status"} : (n \in D <=> n \in DOMAIN e) /\ (n \in D => p[n] = e[n])
  OBVIOUS
<1>5. DOMAIN p = D
  OBVIOUS
<1>6. D = {"kind", "state", "assistant"}
          \cup (CASE e.state = "uninstalled" -> {"uninstalled"} [] e.state = "failed" -> {"status"} [] OTHER -> {})
  <2>1. CASE e.state = "uninstalled"
    BY <1>1, <2>1
  <2>2. CASE e.state = "failed"
    BY <1>1, <2>2
  <2>3. CASE e.state \in {"cancelled", "expired"}
    BY <1>1, <2>3
  <2> QED BY <1>1, <2>1, <2>2, <2>3
<1> HIDE DEF D
<1> HIDE DEF p
<1>7. e.state = "uninstalled" => p.uninstalled \in BOOLEAN
  BY <1>1, <1>4, <1>6
<1>8. e.state = "failed" => StatusCode(p)
  BY <1>1, <1>4, <1>5, <1>6 DEF StatusCode
<1> QED BY <1>1, <1>3, <1>5, <1>6, <1>7, <1>8 DEF StoredUninstall

(* A reply's row: the parts it has, and that a receipt may be left out of it.              *)
Parts(e) == (DOMAIN e \cap (OPTIONAL_DONE_FIELDS \cup {"receipt"})) \cup (IF e.clarification = "null" THEN {} ELSE {"clarification"})
Entry(e) ==
  [name \in Parts(e) \cup {"kind", "role", "text", "author"} |->
     CASE name = "kind" -> "message" [] name = "role" -> "assistant"
       [] name = "text" -> e.reply [] name = "author" -> e.team_name [] OTHER -> e[name]]
Whole(e) ==
  /\ DoneShape(e) /\ PublicText(e.team_name) /\ ReplyText(e.reply, e) /\ ReplyExtras(e)
  /\ RoutineReply(e, e.clarification) /\ ("receipt" \in DOMAIN e => Receipt(e.receipt))

LEMMA ReplyIs == ASSUME NEW e PROVE ReplyEntry(e) = IF Whole(e) THEN Fitted(Entry(e)) ELSE Invalid
BY DEF ReplyEntry, Whole, Entry, Parts

LEMMA EntryFields ==
  ASSUME NEW e
  PROVE  /\ DOMAIN Entry(e) = Parts(e) \cup {"kind", "role", "text", "author"}
         /\ Entry(e).kind = "message" /\ Entry(e).role = "assistant"
         /\ Entry(e).text = e.reply /\ Entry(e).author = e.team_name
         /\ \A n \in Parts(e) : Entry(e)[n] = e[n]
         /\ "receipt" \in Parts(e) <=> "receipt" \in DOMAIN e
         /\ DOMAIN Entry(e) \cap ROUTINE_FIELDS = DOMAIN e \cap ROUTINE_FIELDS
         /\ DOMAIN Entry(e) \cap ROUTINE_FIELDS \subseteq Parts(e)
         /\ "clarification" \in Parts(e) <=> e.clarification # "null"
<1>1. DOMAIN Entry(e) = Parts(e) \cup {"kind", "role", "text", "author"}
  BY DEF Entry
<1>2. \A n \in {"kind", "role", "text", "author"} : n \notin Parts(e)
  BY DEF Parts, OPTIONAL_DONE_FIELDS, ROUTINE_FIELDS
<1>3. /\ Entry(e).kind = "message" /\ Entry(e).role = "assistant"
      /\ Entry(e).text = e.reply /\ Entry(e).author = e.team_name
  BY DEF Entry
<1>4. \A n \in Parts(e) : Entry(e)[n] = e[n]
  BY <1>2 DEF Entry
<1>5. \A n \in OPTIONAL_DONE_FIELDS \cup {"receipt"} : n # "clarification" /\ (n \in Parts(e) <=> n \in DOMAIN e)
  BY DEF Parts, OPTIONAL_DONE_FIELDS, ROUTINE_FIELDS
<1>6. \A n \in ROUTINE_FIELDS : n \in OPTIONAL_DONE_FIELDS /\ n \notin {"kind", "role", "text", "author"}
  BY DEF OPTIONAL_DONE_FIELDS, ROUTINE_FIELDS
<1>7. "clarification" \in Parts(e) <=> e.clarification # "null"
  BY DEF Parts, OPTIONAL_DONE_FIELDS, ROUTINE_FIELDS
<1> QED BY <1>1, <1>3, <1>4, <1>5, <1>6, <1>7

(* What the reader asks of a row, of any row that has a reply's parts.                     *)
LEMMA LikeItsReply ==
  ASSUME NEW e, Whole(e), NEW p, DOMAIN p = Parts(e) \cup {"kind", "role", "text", "author"}
                                 \/ DOMAIN p = (Parts(e) \ {"receipt"}) \cup {"kind", "role", "text", "author"},
         \A n \in DOMAIN p : p[n] = Entry(e)[n]
  PROVE  p.kind = "message" /\ StoredMessage(p)
<1> DEFINE B == {"kind", "role", "text", "author"}
<1>0. /\ DOMAIN Entry(e) = Parts(e) \cup B /\ Entry(e).kind = "message" /\ Entry(e).role = "assistant"
      /\ Entry(e).text = e.reply /\ Entry(e).author = e.team_name
      /\ \A n \in Parts(e) : Entry(e)[n] = e[n]
      /\ DOMAIN Entry(e) \cap ROUTINE_FIELDS = DOMAIN e \cap ROUTINE_FIELDS
      /\ DOMAIN Entry(e) \cap ROUTINE_FIELDS \subseteq Parts(e)
      /\ "clarification" \in Parts(e) <=> e.clarification # "null"
  BY EntryFields
<1>1. B \subseteq DOMAIN p /\ DOMAIN p \subseteq DOMAIN Entry(e) /\ DOMAIN Entry(e) \ {"receipt"} \subseteq DOMAIN p
  BY <1>0
<1>2. p.kind = "message" /\ p.role = "assistant" /\ p.text = e.reply /\ p.author = e.team_name
  BY <1>0, <1>1
<1>3. "receipt" \notin ROUTINE_FIELDS /\ "receipt" \notin B /\ "receipt" \notin {"clarification", "usage", "browser"}
  BY DEF ROUTINE_FIELDS
<1>4. DOMAIN p \cap ROUTINE_FIELDS = DOMAIN e \cap ROUTINE_FIELDS
  BY <1>0, <1>1, <1>3
<1>5. \A n \in ROUTINE_FIELDS \cap DOMAIN p : p[n] = e[n]
  BY <1>0, <1>4
<1>6. "clarification" \in DOMAIN p <=> e.clarification # "null"
  BY <1>0, <1>1, <1>3
<1>7. "clarification" \in DOMAIN p => p.clarification = e.clarification
  BY <1>0, <1>6
<1>8. \A n \in DOMAIN p \cap {"usage", "browser", "receipt"} : n \in DOMAIN e /\ p[n] = e[n]
  <2>1. \A n \in {"usage", "browser", "receipt"} : n \notin B /\ n # "clarification"
    OBVIOUS
  <2>2. \A n \in {"usage", "browser", "receipt"} : n \in DOMAIN p => n \in Parts(e)
    BY <1>0, <1>1, <2>1
  <2>3. \A n \in Parts(e) : n # "clarification" => n \in DOMAIN e
    BY DEF Parts
  <2> QED BY <1>0, <2>1, <2>2, <2>3
<1>9. AssistantExtras(p)
  <2>1. "clarification" \in DOMAIN p => p.clarification = "asks" /\ p.text = Rendered(p.clarification)
    BY <1>2, <1>6, <1>7 DEF Whole, ReplyExtras
  <2>2. \A n \in DOMAIN p \cap {"usage", "browser"} : p[n] = "ok"
    BY <1>8 DEF Whole, ReplyExtras
  <2>3. "receipt" \in DOMAIN p => Receipt(p.receipt)
    BY <1>8 DEF Whole
  <2>4. (IF "clarification" \in DOMAIN p THEN p.clarification ELSE "null") = e.clarification
    BY <1>6, <1>7
  <2>5. RoutineReply(p, e.clarification)
    BY <1>4, <1>5 DEF Whole, RoutineReply
  <2> QED BY <2>1, <2>2, <2>3, <2>4, <2>5 DEF AssistantExtras
<1>10. DOMAIN p \ ({"clarification", "receipt"} \cup OPTIONAL_DONE_FIELDS) = B
  <2>1. \A n \in B : n \notin {"clarification", "receipt"} \cup OPTIONAL_DONE_FIELDS
    BY DEF OPTIONAL_DONE_FIELDS, ROUTINE_FIELDS
  <2>2. Parts(e) \subseteq {"clarification", "receipt"} \cup OPTIONAL_DONE_FIELDS
    BY DEF Parts
  <2> QED BY <2>1, <2>2
<1>11. ReplyText(p.text, p)
  BY <1>2, <1>4 DEF Whole, ReplyText
<1>12. PublicText(p.author)
  BY <1>2 DEF Whole
<1> QED BY <1>2, <1>9, <1>10, <1>11, <1>12 DEF StoredMessage

LEMMA FittedIs ==
  ASSUME NEW e
  PROVE  /\ DOMAIN Fitted(Entry(e)) \in {DOMAIN Entry(e), DOMAIN Entry(e) \ {"receipt"}}
         /\ \A n \in DOMAIN Fitted(Entry(e)) : Fitted(Entry(e))[n] = Entry(e)[n]
BY DEF Fitted, Only

LEMMA ReplyRead ==
  ASSUME NEW e, ReplyEntry(e) # Invalid
  PROVE  ReplyEntry(e).kind = "message" /\ StoredMessage(ReplyEntry(e))
<1>1. Whole(e) /\ ReplyEntry(e) = Fitted(Entry(e))
  BY ReplyIs
<1>2. DOMAIN Entry(e) = Parts(e) \cup {"kind", "role", "text", "author"}
  BY EntryFields
<1>3. DOMAIN Entry(e) \ {"receipt"} = (Parts(e) \ {"receipt"}) \cup {"kind", "role", "text", "author"}
  BY <1>2
<1> DEFINE p == Fitted(Entry(e))
<1>4. /\ \/ DOMAIN p = Parts(e) \cup {"kind", "role", "text", "author"}
         \/ DOMAIN p = (Parts(e) \ {"receipt"}) \cup {"kind", "role", "text", "author"}
      /\ \A n \in DOMAIN p : p[n] = Entry(e)[n]
  BY <1>2, <1>3, FittedIs
<1> HIDE DEF p
<1>5. p.kind = "message" /\ StoredMessage(p)
  BY <1>1, <1>4, LikeItsReply
<1> QED BY <1>1, <1>5 DEF p

LEMMA StatusRead ==
  ASSUME NEW e, StatusPayload(e) # Invalid
  PROVE  StatusPayload(e).kind = "status" /\ StoredStatus(StatusPayload(e))
<1>1. CASE e.type = "stopped"
  <2>1. StatusPayload(e) = [kind |-> "status", state |-> "stopped"]
    BY <1>1 DEF StatusPayload
  <2> QED BY <2>1 DEF StoredStatus
<1>2. CASE e.type # "stopped"
  <2> DEFINE p == [kind |-> "status", state |-> "failed", status |-> e.status, detail |-> StatusDetail(e.detail)]
  <2>1. StoredStatus(p) /\ StatusPayload(e) = p
    BY <1>2 DEF StatusPayload
  <2> QED BY <2>1
<1> QED BY <1>1, <1>2

LEMMA UserRead ==
  ASSUME NEW e, UserPayload(e) # Invalid
  PROVE  UserPayload(e).kind = "message" /\ StoredMessage(UserPayload(e))
<1> DEFINE D == {"kind", "role", "text"} \cup (IF e.files = <<>> THEN {} ELSE {"files"})
           p == [name \in D |-> CASE name = "kind" -> "message" [] name = "role" -> "user" [] OTHER -> e[name]]
<1>1. ChatText(e.text) /\ (e.files # <<>> => FileReferences(e.files)) /\ UserPayload(e) = p
  BY DEF UserPayload
<1>2. DOMAIN p = D /\ p.kind = "message" /\ p.role = "user" /\ p.text = e.text
  OBVIOUS
<1>3. "files" \in D => e.files # <<>> /\ p.files = e.files
  OBVIOUS
<1>4. D \ {"files"} = {"kind", "role", "text"}
  OBVIOUS
<1> HIDE DEF p, D
<1> QED BY <1>1, <1>2, <1>3, <1>4 DEF StoredMessage

LEMMA GuidanceRead ==
  ASSUME NEW e, GuidancePayload(e) # Invalid
  PROVE  GuidancePayload(e).kind = "guidance" /\ StoredGuidance(GuidancePayload(e))
BY DEF GuidancePayload, StoredGuidance

LEMMA NoticeRead ==
  ASSUME NEW e, NOTICE_FIELDS \subseteq DOMAIN e, e.outcome \in STORED_OUTCOMES, NoticePayload(e) # Invalid
  PROVE  NoticePayload(e).kind = "routine-run" /\ StoredNotice(NoticePayload(e))
<1> DEFINE D == {"kind"} \cup (DOMAIN e \ {"type"})
           p == [name \in D |-> IF name = "kind" THEN "routine-run" ELSE e[name]]
<1>1. CanonicalNotice(e) /\ NoticePayload(e) = p
  BY DEF NoticePayload
<1>2. \A n \in NOTICE_FIELDS : n \in D /\ p[n] = e[n]
  BY DEF NOTICE_FIELDS
<1>3. p.kind = "routine-run"
  OBVIOUS
<1>4. /\ p.notice_id = e.notice_id /\ p.run_id = e.run_id /\ p.names = e.names /\ p.outcome = e.outcome /\ p.detail = e.detail
      /\ p.usage = e.usage /\ p.version = e.version /\ p.protection_lost = e.protection_lost
  BY <1>2 DEF NOTICE_FIELDS
<1> HIDE DEF p
<1> QED BY <1>1, <1>3, <1>4 DEF StoredNotice, CanonicalNotice

(* What is shaped, is admitted by the reader when it is not too large.                     *)
LEMMA ShapedRead ==
  ASSUME NEW e, e.type \in EVENT_TYPES \ {"notice", "answer"}, Shaped(e) # Invalid
  PROVE  Read(Shaped(e))
<1>1. CASE e.type = "assistant-install-plan"
  <2>1. Shaped(e) = InstallPayload(e)
    BY <1>1 DEF Shaped
  <2> QED BY <2>1, InstallRead DEF Read
<1>2. CASE e.type = "assistant-uninstall"
  <2>1. Shaped(e) = UninstallPayload(e)
    BY <1>2 DEF Shaped
  <2> QED BY <2>1, UninstallRead DEF Read
<1>3. CASE e.type = "done"
  <2>1. Shaped(e) = ReplyEntry(e)
    BY <1>3 DEF Shaped
  <2> QED BY <2>1, ReplyRead DEF Read
<1>4. CASE e.type \in {"stopped", "error"}
  <2>1. Shaped(e) = StatusPayload(e)
    BY <1>4 DEF Shaped
  <2> QED BY <2>1, StatusRead DEF Read
<1>5. CASE e.type = "user"
  <2>1. Shaped(e) = UserPayload(e)
    BY <1>5 DEF Shaped
  <2> QED BY <2>1, UserRead DEF Read
<1>6. CASE e.type = "guidance"
  <2>1. Shaped(e) = GuidancePayload(e)
    BY <1>6 DEF Shaped
  <2> QED BY <2>1, GuidanceRead DEF Read
<1> QED BY <1>1, <1>2, <1>3, <1>4, <1>5, <1>6 DEF EVENT_TYPES

(* Every card of the transcript has the name its answer repeats.                           *)
Named(p) == \A card \in CardOf(p) : card.name = "ok"

LEMMA ReplyNamed ==
  ASSUME EventsShaped, NEW e \in Events, ReplyEntry(e) # Invalid
  PROVE  Named(ReplyEntry(e))
<1> DEFINE p == ReplyEntry(e)
<1>1. Whole(e) /\ p = Fitted(Entry(e))
  BY ReplyIs
<1>2. \A n \in DOMAIN e \cap ROUTINE_FIELDS : e[n].valid
  BY <1>1 DEF Whole, RoutineReply
<1>3. \A n \in {"routine_proposal", "routine_refinement"} : n \in ROUTINE_FIELDS
  BY DEF ROUTINE_FIELDS
<1>4. \A n \in DOMAIN e \cap {"routine_proposal", "routine_refinement"} : e[n].name = "ok"
  BY <1>2, <1>3 DEF EventsShaped
<1>5. /\ DOMAIN Entry(e) \cap ROUTINE_FIELDS = DOMAIN e \cap ROUTINE_FIELDS
      /\ DOMAIN Entry(e) \cap ROUTINE_FIELDS \subseteq Parts(e)
      /\ \A n \in Parts(e) : Entry(e)[n] = e[n]
  BY EntryFields
<1>6. DOMAIN p \subseteq DOMAIN Entry(e) /\ \A n \in DOMAIN p : p[n] = Entry(e)[n]
  BY <1>1, FittedIs
<1> HIDE DEF p
<1>7. \A n \in DOMAIN p \cap {"routine_proposal", "routine_refinement"} : p[n].name = "ok"
  BY <1>3, <1>4, <1>5, <1>6
<1>8. \A card \in CardOf(p) : card.name = "ok"
  BY <1>7 DEF CardOf
<1> QED BY <1>8 DEF Named, p

LEMMA ShapedNamed ==
  ASSUME EventsShaped, NEW e \in Events, e.type \notin {"notice", "answer"}, Shaped(e) # Invalid
  PROVE  Named(Shaped(e))
<1>0. e.type \in EVENT_TYPES \ {"notice", "answer"}
  BY DEF EventsShaped
<1>1. CASE e.type = "done"
  <2>1. Shaped(e) = ReplyEntry(e)
    BY <1>1 DEF Shaped
  <2> QED BY <2>1, ReplyNamed
<1>2. CASE e.type = "user"
  <2>1. Shaped(e) = UserPayload(e)
    BY <1>2 DEF Shaped
  <2>2. DOMAIN UserPayload(e) \subseteq {"kind", "role", "text", "files"}
    BY <2>1 DEF UserPayload
  <2>3. DOMAIN Shaped(e) \cap {"routine_proposal", "routine_refinement"} = {}
    BY <2>1, <2>2
  <2> QED BY <2>3 DEF Named, CardOf
<1>3. CASE e.type \notin {"done", "user"}
  <2>1. Shaped(e).kind # "message"
    <3>1. CASE e.type = "assistant-install-plan"
      BY <3>1, InstallRead DEF Shaped
    <3>2. CASE e.type = "assistant-uninstall"
      BY <3>2, UninstallRead DEF Shaped
    <3>3. CASE e.type \in {"stopped", "error"}
      BY <3>3, StatusRead DEF Shaped
    <3>4. CASE e.type = "guidance"
      BY <3>4, GuidanceRead DEF Shaped
    <3> QED BY <1>0, <1>3, <3>1, <3>2, <3>3, <3>4 DEF EVENT_TYPES
  <2> QED BY <2>1 DEF Named, CardOf
<1> QED BY <1>1, <1>2, <1>3

-----------------------------------------------------------------------------
(* Of an ending: a status has four parts, and a reply without its receipt is its row.      *)
LEMMA OneMore ==
  ASSUME NEW S, IsFiniteSet(S), NEW n \in Nat, Cardinality(S) <= n, NEW x
  PROVE  IsFiniteSet(S \cup {x}) /\ Cardinality(S \cup {x}) <= n + 1
<1>1. IsFiniteSet(S \cup {x}) /\ Cardinality(S \cup {x}) = IF x \in S THEN Cardinality(S) ELSE Cardinality(S) + 1
  BY FS_AddElement
<1>2. Cardinality(S) \in Nat
  BY FS_CardinalityType
<1> QED BY <1>1, <1>2

LEMMA AtMostFour ==
  ASSUME NEW a, NEW b, NEW c, NEW d
  PROVE  IsFiniteSet({a, b, c, d}) /\ Cardinality({a, b, c, d}) \in Nat /\ Cardinality({a, b, c, d}) <= 4
<1>1. IsFiniteSet({}) /\ Cardinality({}) <= 0
  BY FS_EmptySet
<1>2. IsFiniteSet({} \cup {a}) /\ Cardinality({} \cup {a}) <= 1
  BY <1>1, OneMore, 0 + 1 = 1
<1>3. IsFiniteSet({} \cup {a} \cup {b}) /\ Cardinality({} \cup {a} \cup {b}) <= 2
  BY <1>2, OneMore, 1 + 1 = 2
<1>4. IsFiniteSet({} \cup {a} \cup {b} \cup {c}) /\ Cardinality({} \cup {a} \cup {b} \cup {c}) <= 3
  BY <1>3, OneMore, 2 + 1 = 3
<1>5. IsFiniteSet({} \cup {a} \cup {b} \cup {c} \cup {d}) /\ Cardinality({} \cup {a} \cup {b} \cup {c} \cup {d}) <= 4
  BY <1>4, OneMore, 3 + 1 = 4
<1>6. {} \cup {a} \cup {b} \cup {c} \cup {d} = {a, b, c, d}
  OBVIOUS
<1> QED BY <1>5, <1>6, FS_CardinalityType

LEMMA StatusSize ==
  ASSUME NEW e, e.type \in {"stopped", "error"}
  PROVE  /\ StatusPayload(e) # Invalid => RowSize(StatusPayload(e)) \in Nat /\ RowSize(StatusPayload(e)) <= 4
         /\ e.type = "stopped" \/ StatusCode(e) => StatusPayload(e) # Invalid
<1>1. CASE e.type = "stopped"
  <2>1. StatusPayload(e) = [kind |-> "status", state |-> "stopped"]
    BY <1>1 DEF StatusPayload
  <2>2. DOMAIN StatusPayload(e) = {"kind", "state"} /\ StatusPayload(e).kind = "status"
    BY <2>1
  <2>3. Cardinality({"kind", "state", "kind", "state"}) \in Nat /\ Cardinality({"kind", "state", "kind", "state"}) <= 4
    BY AtMostFour
  <2>4. {"kind", "state", "kind", "state"} = {"kind", "state"}
    OBVIOUS
  <2> QED BY <1>1, <2>2, <2>3, <2>4 DEF RowSize, Invalid
<1>2. CASE e.type = "error"
  <2> DEFINE p == [kind |-> "status", state |-> "failed", status |-> e.status, detail |-> StatusDetail(e.detail)]
  <2>1. StatusPayload(e) = IF StoredStatus(p) THEN p ELSE Invalid
    BY <1>2 DEF StatusPayload
  <2>2. StatusCode(e) => StoredStatus(p)
    BY DEF StoredStatus, StatusCode, PublicText, StatusDetail
  <2>3. p.kind = "status" /\ DOMAIN p = {"kind", "state", "status", "detail"} /\ "receipt" \notin DOMAIN p
    OBVIOUS
  <2>4. Cardinality({"kind", "state", "status", "detail"}) \in Nat /\ Cardinality({"kind", "state", "status", "detail"}) <= 4
    BY AtMostFour
  <2>5. RowSize(p) = Cardinality({"kind", "state", "status", "detail"})
    BY <2>3, <2>4 DEF RowSize
  <2>6. p # Invalid
    BY <2>3 DEF Invalid
  <2> HIDE DEF p
  <2> QED BY <1>2, <2>1, <2>2, <2>4, <2>5, <2>6
<1> QED BY <1>1, <1>2

LEMMA BareReply ==
  ASSUME NEW e, "receipt" \in DOMAIN e, Receipt(e.receipt),
         NEW bare, bare = Only(e, DOMAIN e \ {"receipt"})
  PROVE  /\ Whole(bare) <=> Whole(e)
         /\ Whole(bare) => Fitted(Entry(bare)) = Only(Entry(e), DOMAIN Entry(e) \ {"receipt"})
<1>1. DOMAIN bare = DOMAIN e \ {"receipt"} /\ \A n \in DOMAIN bare : bare[n] = e[n]
  BY DEF Only
<1>2. \A n \in ROUTINE_FIELDS : n # "receipt"
  BY DEF ROUTINE_FIELDS
<1>3. DOMAIN bare \cap ROUTINE_FIELDS = DOMAIN e \cap ROUTINE_FIELDS
  BY <1>1, <1>2
<1>4. DoneShape(bare) <=> DoneShape(e)
  <2>1. DOMAIN bare \ (OPTIONAL_DONE_FIELDS \cup {"receipt"}) = DOMAIN e \ (OPTIONAL_DONE_FIELDS \cup {"receipt"})
    BY <1>1
  <2>2. "team_id" \in DOMAIN e => "team_id" \in DOMAIN bare /\ bare.team_id = e.team_id
    BY <1>1
  <2>3. {"type", "team_id", "team_name", "reply", "clarification"} \subseteq DOMAIN e => "team_id" \in DOMAIN e
    OBVIOUS
  <2>4. DOMAIN e \ (OPTIONAL_DONE_FIELDS \cup {"receipt"}) \subseteq DOMAIN e
    OBVIOUS
  <2> QED BY <2>1, <2>2, <2>3, <2>4 DEF DoneShape
<1>5. ASSUME DoneShape(e)
      PROVE  /\ bare.team_name = e.team_name /\ bare.reply = e.reply /\ bare.clarification = e.clarification
             /\ ReplyText(bare.reply, bare) <=> ReplyText(e.reply, e)
             /\ ReplyExtras(bare) <=> ReplyExtras(e)
             /\ RoutineReply(bare, bare.clarification) <=> RoutineReply(e, e.clarification)
  <2>1. {"team_name", "reply", "clarification"} \subseteq DOMAIN e
    BY <1>5 DEF DoneShape
  <2>2. bare.team_name = e.team_name /\ bare.reply = e.reply /\ bare.clarification = e.clarification
    BY <1>1, <2>1
  <2>3. ReplyText(bare.reply, bare) <=> ReplyText(e.reply, e)
    BY <1>3, <2>2 DEF ReplyText
  <2>4. ReplyExtras(bare) <=> ReplyExtras(e)
    <3>1. DOMAIN bare \cap {"usage", "browser"} = DOMAIN e \cap {"usage", "browser"}
      BY <1>1
    <3> QED BY <1>1, <2>2, <3>1 DEF ReplyExtras
  <2>5. \A n \in DOMAIN e \cap ROUTINE_FIELDS : bare[n] = e[n]
    BY <1>1, <1>3
  <2>6. RoutineReply(bare, bare.clarification) <=> RoutineReply(e, e.clarification)
    BY <1>3, <2>2, <2>5 DEF RoutineReply
  <2> QED BY <2>2, <2>3, <2>4, <2>6
<1>6. Whole(bare) <=> Whole(e)
  BY <1>1, <1>4, <1>5 DEF Whole
<1>7. ASSUME Whole(bare) PROVE Fitted(Entry(bare)) = Only(Entry(e), DOMAIN Entry(e) \ {"receipt"})
  <2>1. DoneShape(e)
    BY <1>4, <1>7 DEF Whole
  <2>2. bare.team_name = e.team_name /\ bare.reply = e.reply /\ bare.clarification = e.clarification
    BY <1>5, <2>1
  <2>3. Parts(bare) = Parts(e) \ {"receipt"}
    BY <1>1, <2>2 DEF Parts, OPTIONAL_DONE_FIELDS, ROUTINE_FIELDS
  <2>4. \A n \in Parts(bare) : bare[n] = e[n]
    BY <1>1, <2>2 DEF Parts
  <2> DEFINE without == Only(Entry(e), DOMAIN Entry(e) \ {"receipt"})
  <2>5. /\ DOMAIN Entry(e) = Parts(e) \cup {"kind", "role", "text", "author"}
        /\ DOMAIN Entry(bare) = Parts(bare) \cup {"kind", "role", "text", "author"}
    BY EntryFields
  <2>6. DOMAIN without = DOMAIN Entry(bare)
    BY <2>3, <2>5 DEF Only
  <2>7. \A n \in DOMAIN Entry(bare) : Entry(bare)[n] = without[n]
    <3>1. ASSUME NEW n \in DOMAIN Entry(bare) PROVE Entry(bare)[n] = Entry(e)[n]
      <4>1. CASE n \in {"kind", "role", "text", "author"}
        <5>1. /\ Entry(e)["kind"] = "message" /\ Entry(bare)["kind"] = "message"
              /\ Entry(e)["role"] = "assistant" /\ Entry(bare)["role"] = "assistant"
          BY EntryFields, Zenon
        <5>2. Entry(e)["text"] = e.reply /\ Entry(bare)["text"] = bare.reply
          BY EntryFields, Zenon
        <5>3. Entry(e)["author"] = e.team_name /\ Entry(bare)["author"] = bare.team_name
          BY EntryFields, Zenon
        <5> QED BY <2>2, <4>1, <5>1, <5>2, <5>3
      <4>2. CASE n \in Parts(bare)
        <5>1. n \in Parts(e)
          BY <2>3, <4>2
        <5>2. Entry(bare)[n] = bare[n] /\ Entry(e)[n] = e[n]
          BY <4>2, <5>1, EntryFields
        <5> QED BY <2>4, <4>2, <5>2
      <4> QED BY <2>5, <4>1, <4>2
    <3>2. \A n \in DOMAIN without : without[n] = Entry(e)[n]
      BY DEF Only
    <3> QED BY <2>6, <3>1, <3>2
  <2>8. Entry(bare) = [n \in DOMAIN Entry(bare) |-> Entry(bare)[n]] /\ without = [n \in DOMAIN without |-> without[n]]
    BY DEF Entry, Only
  <2>9. Entry(bare) = without
    BY <2>6, <2>7, <2>8
  <2>10. "receipt" \notin DOMAIN Entry(bare)
    BY <2>3, <2>5
  <2>11. Only(Entry(bare), DOMAIN Entry(bare) \ {"receipt"}) = Entry(bare)
    <3>1. DOMAIN Entry(bare) \cap (DOMAIN Entry(bare) \ {"receipt"}) = DOMAIN Entry(bare)
      BY <2>10
    <3> QED BY <2>8, <3>1 DEF Only
  <2>12. Fitted(Entry(bare)) = Entry(bare)
    BY <2>11 DEF Fitted
  <2> QED BY <2>9, <2>12
<1> QED BY <1>6, <1>7

LEMMA ReplySize ==
  ASSUME NEW e, Whole(e)
  PROVE  RowSize(Entry(e)) \in Nat /\ RowSize(Only(Entry(e), DOMAIN Entry(e) \ {"receipt"})) \in Nat
<1> DEFINE All == {"usage", "browser"} \cup {"routine_proposal", "routine_refinement", "routine_refusal", "routine_question"}
                  \cup {"receipt"} \cup {"clarification"} \cup {"kind", "role", "text", "author"}
           without == Only(Entry(e), DOMAIN Entry(e) \ {"receipt"})
<1>1. IsFiniteSet(All)
  <2>1. \A a, b, c, d : IsFiniteSet({a, b, c, d})
    BY AtMostFour
  <2>2. /\ IsFiniteSet({"usage", "browser"}) /\ IsFiniteSet({"receipt"}) /\ IsFiniteSet({"clarification"})
        /\ IsFiniteSet({"routine_proposal", "routine_refinement", "routine_refusal", "routine_question"})
        /\ IsFiniteSet({"kind", "role", "text", "author"})
    <3>1. {"usage", "browser"} = {"usage", "browser", "usage", "browser"}
      OBVIOUS
    <3>2. IsFiniteSet({"usage", "browser", "usage", "browser"})
      BY <2>1
    <3>3. IsFiniteSet({"routine_proposal", "routine_refinement", "routine_refusal", "routine_question"})
      BY <2>1
    <3>4. IsFiniteSet({"kind", "role", "text", "author"})
      BY <2>1
    <3>5. IsFiniteSet({"receipt"}) /\ IsFiniteSet({"clarification"})
      BY FS_Singleton
    <3> QED BY <3>1, <3>2, <3>3, <3>4, <3>5
  <2> QED BY <2>2, FS_Union
<1>2. DOMAIN Entry(e) \subseteq All
  <2>1. DOMAIN Entry(e) = Parts(e) \cup {"kind", "role", "text", "author"}
    BY EntryFields
  <2>2. Parts(e) \subseteq {"usage", "browser"} \cup {"routine_proposal", "routine_refinement", "routine_refusal", "routine_question"}
                           \cup {"receipt"} \cup {"clarification"}
    BY DEF Parts, OPTIONAL_DONE_FIELDS, ROUTINE_FIELDS
  <2> QED BY <2>1, <2>2
<1>3. DOMAIN without \subseteq All /\ "receipt" \notin DOMAIN without
  BY <1>2 DEF Only
<1>4. /\ IsFiniteSet(DOMAIN Entry(e)) /\ Cardinality(DOMAIN Entry(e)) \in Nat
      /\ IsFiniteSet(DOMAIN without) /\ Cardinality(DOMAIN without) \in Nat
  BY <1>1, <1>2, <1>3, FS_Subset, FS_CardinalityType
<1>5. "receipt" \in DOMAIN Entry(e) => Len(Entry(e).receipt) \in Nat
  <2>1. ASSUME "receipt" \in DOMAIN Entry(e) PROVE Len(Entry(e).receipt) \in Nat
    <3>1. "receipt" \in Parts(e) /\ Entry(e).receipt = e.receipt /\ "receipt" \in DOMAIN e
      BY <2>1, EntryFields
    <3>2. Len(e.receipt) \in 1..MAX_PUBLIC_PROGRESS_EVENTS
      BY <3>1 DEF Whole, Receipt
    <3> QED BY <3>1, <3>2
  <2> QED BY <2>1
<1> HIDE DEF without
<1> QED BY <1>3, <1>4, <1>5 DEF RowSize, without

-----------------------------------------------------------------------------
(* Every row is one the reader admits, every card is named, and an ending is lost only as  *)
(* EndingsKept says.                                                                       *)
RowsInv == (\A p \in transcript : Decoded(p) /\ Named(p)) /\ EndingsKept

LEMMA DecodedIs == ASSUME NEW p PROVE Decoded(p) <=> RowSize(p) <= MAX_ENTRY /\ Read(p)
BY DEF Decoded, Read

LEMMA EndingKept ==
  ASSUME EventsShaped, NEW e \in Events, e.type \notin {"notice", "answer"},
         Shaped(e) = Invalid \/ ~(RowSize(Shaped(e)) <= MAX_ENTRY)
  PROVE  /\ e.type # "stopped" /\ (e.type = "error" => ~StatusCode(e))
         /\ e.type = "done" /\ "receipt" \in DOMAIN e /\ Receipt(e.receipt) =>
              LET bare == ReplyEntry(Only(e, DOMAIN e \ {"receipt"}))
              IN bare = Invalid \/ RowSize(bare) > MAX_ENTRY
<1>0. MAX_ENTRY \in Nat /\ MAX_ENTRY >= 4
  BY DEF EventsShaped
<1>1. ASSUME e.type \in {"stopped", "error"} PROVE e.type # "stopped" /\ ~StatusCode(e)
  <2>1. Shaped(e) = StatusPayload(e)
    BY <1>1 DEF Shaped
  <2> QED BY <1>0, <1>1, <2>1, StatusSize
<1>2. ASSUME e.type = "done", "receipt" \in DOMAIN e, Receipt(e.receipt),
             NEW bare, bare = Only(e, DOMAIN e \ {"receipt"}), ReplyEntry(bare) # Invalid
      PROVE  RowSize(ReplyEntry(bare)) > MAX_ENTRY
  <2>1. Shaped(e) = ReplyEntry(e)
    BY <1>2 DEF Shaped
  <2>2. Whole(bare) /\ ReplyEntry(bare) = Fitted(Entry(bare))
    BY <1>2, ReplyIs
  <2>3. Whole(e) /\ Fitted(Entry(bare)) = Only(Entry(e), DOMAIN Entry(e) \ {"receipt"})
    BY <1>2, <2>2, BareReply
  <2>4. ReplyEntry(e) = Fitted(Entry(e)) /\ ReplyEntry(e) # Invalid
    <3>1. ReplyEntry(e) = Fitted(Entry(e))
      BY <2>3, ReplyIs
    <3>2. "kind" \in DOMAIN Entry(e) /\ Entry(e).kind = "message"
      BY EntryFields
    <3>3. "kind" \in DOMAIN Fitted(Entry(e)) /\ Fitted(Entry(e)).kind = "message"
      BY <3>2, FittedIs
    <3> QED BY <3>1, <3>3 DEF Invalid
  <2>5. RowSize(Entry(e)) \in Nat /\ RowSize(Only(Entry(e), DOMAIN Entry(e) \ {"receipt"})) \in Nat
    BY <2>3, ReplySize
  <2>6. ~(RowSize(Fitted(Entry(e))) <= MAX_ENTRY)
    BY <2>1, <2>4
  <2>7. Fitted(Entry(e)) = IF RowSize(Entry(e)) > MAX_ENTRY THEN Only(Entry(e), DOMAIN Entry(e) \ {"receipt"}) ELSE Entry(e)
    BY DEF Fitted
  <2> QED BY <1>0, <2>2, <2>3, <2>5, <2>6, <2>7
<1> QED BY <1>1, <1>2

LEMMA WriteKeeps == ASSUME EventsShaped, RowsInv, Write PROVE RowsInv'
<1>1. PICK e \in Events : e.type \notin {"notice", "answer"} /\ keeping' = e /\ Keep(Shaped(e))
  BY DEF Write
<1>2. e.type \in EVENT_TYPES \ {"notice", "answer"}
  BY <1>1 DEF EventsShaped
<1>3. CASE Shaped(e) # Invalid /\ RowSize(Shaped(e)) <= MAX_ENTRY
  <2>1. kept' /\ transcript' = transcript \cup {Shaped(e)}
    BY <1>1, <1>3 DEF Keep
  <2>2. Decoded(Shaped(e)) /\ Named(Shaped(e))
    BY <1>1, <1>2, <1>3, ShapedRead, ShapedNamed, DecodedIs
  <2>3. EndingsKept'
    BY <2>1 DEF EndingsKept
  <2>4. \A p \in transcript' : Decoded(p) /\ Named(p)
    BY <2>1, <2>2 DEF RowsInv
  <2> QED BY <2>3, <2>4 DEF RowsInv
<1>4. CASE Shaped(e) = Invalid \/ ~(RowSize(Shaped(e)) <= MAX_ENTRY)
  <2>1. ~kept' /\ transcript' = transcript
    BY <1>1, <1>4 DEF Keep
  <2>2. EndingsKept'
    BY <1>1, <1>4, EndingKept DEF EndingsKept
  <2> QED BY <2>1, <2>2 DEF RowsInv
<1> QED BY <1>3, <1>4

LEMMA NoticeKeeps == ASSUME EventsShaped, RowsInv, WriteNoticeRow PROVE RowsInv'
<1> DEFINE Rows(e) == {p \in transcript : p.kind = "routine-run" /\ p.notice_id = e.notice_id}
           NoticeRow(e) == IF RowSize(NoticePayload(e)) <= MAX_ENTRY THEN NoticePayload(e) ELSE Invalid
<1>1. PICK e \in Events :
        /\ e.type = "notice" /\ keeping' = e
        /\ IF NoticeRow(e) # Invalid /\ e.outcome \in STORED_OUTCOMES /\ \A row \in Rows(e) : row.version < e.version
           THEN kept' = TRUE /\ transcript' = (transcript \ Rows(e)) \cup {NoticeRow(e)}
           ELSE kept' = (NoticeRow(e) # Invalid) /\ UNCHANGED transcript
  BY DEF WriteNoticeRow
<1>2. EndingsKept'
  BY <1>1 DEF EndingsKept
<1>3. CASE transcript' = transcript
  BY <1>2, <1>3 DEF RowsInv
<1>4. CASE NoticeRow(e) # Invalid /\ e.outcome \in STORED_OUTCOMES /\ transcript' = (transcript \ Rows(e)) \cup {NoticeRow(e)}
  <2>1. NoticeRow(e) = NoticePayload(e) /\ RowSize(NoticePayload(e)) <= MAX_ENTRY /\ NoticePayload(e) # Invalid
    BY <1>4
  <2>2. NOTICE_FIELDS \subseteq DOMAIN e
    BY <1>1 DEF EventsShaped
  <2>3. NoticePayload(e).kind = "routine-run" /\ StoredNotice(NoticePayload(e))
    BY <1>4, <2>1, <2>2, NoticeRead
  <2>4. Decoded(NoticePayload(e)) /\ Named(NoticePayload(e))
    BY <2>1, <2>3, DecodedIs DEF Read, Named, CardOf
  <2>5. \A p \in transcript' : p \in transcript \/ p = NoticePayload(e)
    BY <1>4, <2>1
  <2> QED BY <1>2, <2>4, <2>5 DEF RowsInv
<1> HIDE DEF NoticeRow, Rows
<1> QED BY <1>1, <1>3, <1>4

LEMMA AnswerKeeps == ASSUME EventsShaped, RowsInv, WriteAnswer PROVE RowsInv'
<1>1. PICK e \in Events :
        /\ e.type = "answer" /\ keeping' = e
        /\ \/ UNCHANGED transcript
           \/ \E p \in transcript : \E card \in CardOf(p) : CanonicalAnswer(e) /\ Keep(AnswerPayload(e, card))
  BY DEF WriteAnswer
<1>2. EndingsKept'
  BY <1>1 DEF EndingsKept
<1>3. CASE transcript' = transcript
  BY <1>2, <1>3 DEF RowsInv
<1>4. CASE \E p \in transcript : \E card \in CardOf(p) : CanonicalAnswer(e) /\ Keep(AnswerPayload(e, card))
  <2>0. PICK p \in transcript : \E card \in CardOf(p) : CanonicalAnswer(e) /\ Keep(AnswerPayload(e, card))
    BY <1>4
  <2>1. PICK card \in CardOf(p) : CanonicalAnswer(e) /\ Keep(AnswerPayload(e, card))
    BY <2>0
  <2> DEFINE row == AnswerPayload(e, card)
  <2>2. card.name = "ok"
    BY <2>1 DEF RowsInv, Named
  <2>3. row.kind = "routine-answer" /\ StoredAnswer(row)
    BY <2>1, <2>2 DEF AnswerPayload, StoredAnswer, CanonicalAnswer
  <2>4. Read(row) /\ Named(row)
    BY <2>3 DEF Read, Named, CardOf
  <2>5. transcript' = transcript \/ (transcript' = transcript \cup {row} /\ RowSize(row) <= MAX_ENTRY)
    BY <2>1 DEF Keep
  <2> HIDE DEF row
  <2>6. \A q \in transcript' : Decoded(q) /\ Named(q)
    BY <2>4, <2>5, DecodedIs DEF RowsInv
  <2> QED BY <1>2, <2>6 DEF RowsInv
<1> QED BY <1>1, <1>3, <1>4

(* Every row a writer stored is one the reader admits, whatever is asked to be kept and in *)
(* whatever order, and no ending is lost for what surrounds it (history/store/{mod,        *)
(* validate,rows,routine}.rs).                                                             *)
THEOREM RowsAlwaysKept == RowsSpec => []RowsKept
<1>1. RowsInit => RowsInv
  BY DEF RowsInit, RowsInv, EndingsKept
<1>2. RowsInv /\ [RowsNext]_rowVars => RowsInv'
  <2> SUFFICES ASSUME RowsInv, [RowsNext]_rowVars PROVE RowsInv'
    OBVIOUS
  <2>1. CASE UNCHANGED rowVars
    BY <2>1 DEF RowsInv, rowVars, EndingsKept
  <2> QED BY <2>1, RowsAssumption, WriteKeeps, NoticeKeeps, AnswerKeeps DEF RowsNext
<1>3. RowsInv => RowsKept
  BY DEF RowsInv, RowsKept, RowsReadable
<1> QED BY <1>1, <1>2, <1>3, PTL DEF RowsSpec

-----------------------------------------------------------------------------
(* The catalog of the Store: what is read of it.                                           *)

Items(n, l) == Publications[n][l].items
Valid(n, l) == ValidateCatalog(Publications[n][l], l).ok
Published(snap, l, upto) == \E n \in 1..upto : Valid(n, l) /\ snap.items = Items(n, l)

ReadFields == {"ask", "at", "snap", "got", "next", "digest", "restarts"}
LocaleOfAsk(ask) == IF ask.kind = "icon" THEN PLANNING_LOCALE ELSE ask.locale

(* The pages read so far are the beginning of one catalog the Store published.             *)
Joined(read, upto) ==
  \/ read.next = 0 /\ read.got = <<>> /\ read.at # "done"
  \/ \E n \in 1..upto :
       LET items == Items(n, read.ask.locale)
       IN /\ Valid(n, read.ask.locale) /\ read.digest = items
          /\ read.next \in 0..Len(items) /\ read.got = SubSeq(items, 1, read.next)
          /\ read.at = "done" => read.next = Len(items)
ReadSound(read, upto) ==
  /\ DOMAIN read = ReadFields
  /\ LocaleOfAsk(read.ask) \in Locales
  /\ read.at = "have" /\ read.snap.ok => Published(read.snap, LocaleOfAsk(read.ask), upto)
  /\ read.ask.kind = "pages" => Joined(read, upto)
  /\ read.at = "icon" => read.ask.kind = "icon"
EntrySound(l) ==
  /\ DOMAIN entries[l] = {"kept", "fresh"}
  /\ entries[l].kept.ok => Published(entries[l].kept, l, store)
CatalogSound ==
  /\ store \in 1..Len(Publications) /\ DOMAIN entries = Locales /\ \A l \in Locales : EntrySound(l)
  /\ 0 \notin DOMAIN reads /\ \A r \in DOMAIN reads : ReadSound(reads[r], store)

LEMMA OneLocale == ASSUME NEW r PROVE LocaleOf(r) = LocaleOfAsk(reads[r].ask)
BY DEF LocaleOf, LocaleOfAsk

LEMMA ValidIs ==
  ASSUME NEW n, NEW l
  PROVE  /\ Valid(n, l) <=> ValidateCatalog(Publications[n][l], l) # Unavailable
         /\ Valid(n, l) => ValidateCatalog(Publications[n][l], l) = [ok |-> TRUE, items |-> Items(n, l)]
         /\ Valid(n, l) => Ascending([k \in DOMAIN Items(n, l) |-> Items(n, l)[k].id])
BY DEF Valid, ValidateCatalog, Unavailable, Items

LEMMA StoredItems ==
  ASSUME CatalogShaped, NEW n \in 1..Len(Publications), NEW l \in Locales
  PROVE  /\ Items(n, l) \in Seq({Items(n, l)[k] : k \in DOMAIN Items(n, l)})
         /\ Len(Items(n, l)) \in Nat /\ DOMAIN Items(n, l) = 1..Len(Items(n, l))
         /\ \A k \in 1..Len(Items(n, l)) : Items(n, l)[k].id \in Nat
<1>1. /\ Items(n, l) \in Seq({Items(n, l)[k] : k \in DOMAIN Items(n, l)})
      /\ \A k \in DOMAIN Items(n, l) : Items(n, l)[k].id \in Nat
  BY DEF CatalogShaped, Items
<1> DEFINE s == Items(n, l)  T == {s[k] : k \in DOMAIN s}
<1>2. s \in Seq(T)
  BY <1>1
<1> HIDE DEF s, T
<1>3. Len(s) \in Nat /\ DOMAIN s = 1..Len(s)
  BY <1>2, LenProperties
<1> QED BY <1>1, <1>3 DEF s

(* Ascending ids are different.                                                            *)
LEMMA AscendingApart ==
  ASSUME NEW f, NEW n \in Nat, f \in [1..n -> Nat], \A k \in 1..n - 1 : f[k] < f[k + 1]
  PROVE  \A i, j \in 1..n : i # j => f[i] # f[j]
<1>1. ASSUME NEW i \in 1..n PROVE \A j \in 1..n : i < j => f[i] < f[j]
  <2> DEFINE T == {d \in Nat : i + d + 1 <= n => f[i] < f[i + d + 1]}
  <2>1. 0 \in T
    OBVIOUS
  <2>2. ASSUME NEW d \in Nat, d \in T PROVE d + 1 \in T
    <3> SUFFICES ASSUME i + (d + 1) + 1 <= n PROVE f[i] < f[i + (d + 1) + 1]
      OBVIOUS
    <3>1. f[i] < f[i + d + 1]
      BY <2>2
    <3>2. i + d + 1 \in 1..n - 1 /\ (i + d + 1) + 1 = i + (d + 1) + 1
      OBVIOUS
    <3>3. f[i + d + 1] < f[i + (d + 1) + 1]
      BY <3>2
    <3>4. f[i] \in Nat /\ f[i + d + 1] \in Nat /\ f[i + (d + 1) + 1] \in Nat
      BY <3>2
    <3> QED BY <3>1, <3>3, <3>4
  <2> HIDE DEF T
  <2>3. Nat \subseteq T
    BY <2>1, <2>2, Inductive
  <2>4. ASSUME NEW j \in 1..n, i < j PROVE f[i] < f[j]
    <3>1. j - i - 1 \in Nat /\ i + (j - i - 1) + 1 = j
      BY <2>4
    <3>2. j - i - 1 \in T
      BY <2>3, <3>1
    <3> QED BY <3>1, <3>2 DEF T
  <2> QED BY <2>4
<1>2. ASSUME NEW i \in 1..n, NEW j \in 1..n, i # j PROVE f[i] # f[j]
  <2>1. i < j \/ j < i
    BY <1>2
  <2>2. f[i] \in Nat /\ f[j] \in Nat
    OBVIOUS
  <2> QED BY <1>1, <2>1, <2>2
<1> QED BY <1>2

LEMMA IdsApart ==
  ASSUME CatalogShaped, NEW n \in 1..Len(Publications), NEW l \in Locales, Valid(n, l)
  PROVE  \A i, j \in 1..Len(Items(n, l)) : i # j => Items(n, l)[i].id # Items(n, l)[j].id
<1> DEFINE s == Items(n, l)  f == [k \in DOMAIN s |-> s[k].id]
<1>1. Len(s) \in Nat /\ DOMAIN s = 1..Len(s) /\ \A k \in 1..Len(s) : s[k].id \in Nat
  BY StoredItems
<1>2. f \in [1..Len(s) -> Nat]
  BY <1>1
<1>3. Ascending(f)
  BY ValidIs
<1>4. f \in Seq(Nat) /\ Len(f) = Len(s)
  BY <1>1, <1>2
<1>5. \A k \in 1..Len(s) - 1 : f[k] < f[k + 1]
  BY <1>3, <1>4 DEF Ascending
<1>6. \A k \in 1..Len(s) : f[k] = s[k].id
  BY <1>1
<1> HIDE DEF f
<1>7. \A i, j \in 1..Len(s) : i # j => f[i] # f[j]
  BY <1>1, <1>2, <1>5, AscendingApart
<1> QED BY <1>6, <1>7

LEMMA PrefixLonger ==
  ASSUME NEW T, NEW s \in Seq(T), NEW m \in 0..Len(s), NEW n \in m..Len(s)
  PROVE  SubSeq(s, 1, m) \o SubSeq(s, m + 1, n) = SubSeq(s, 1, n)
<1> DEFINE a == SubSeq(s, 1, m)  b == SubSeq(s, m + 1, n)  c == SubSeq(s, 1, n)
<1>0. Len(s) \in Nat /\ \A i \in 1..Len(s) : s[i] \in T
  OBVIOUS
<1>1. a \in Seq(T) /\ Len(a) = m /\ \A i \in 1..m : a[i] = s[i]
  <2>1. \A i \in 1..m : s[i] \in T
    BY <1>0
  <2> QED BY <2>1, <1>0, SubSeqProperties
<1>2. b \in Seq(T) /\ Len(b) = n - m /\ \A i \in 1..n - m : b[i] = s[m + i]
  <2>1. \A i \in m + 1..n : s[i] \in T
    BY <1>0
  <2> QED BY <2>1, <1>0, SubSeqProperties
<1>3. c \in Seq(T) /\ Len(c) = n /\ \A i \in 1..n : c[i] = s[i]
  <2>1. \A i \in 1..n : s[i] \in T
    BY <1>0
  <2> QED BY <2>1, <1>0, SubSeqProperties
<1> HIDE DEF a, b, c
<1>4. a \o b \in Seq(T) /\ Len(a \o b) = n
  BY <1>0, <1>1, <1>2
<1>5. ASSUME NEW i \in 1..n PROVE (a \o b)[i] = c[i]
  <2>1. (a \o b)[i] = IF i <= Len(a) THEN a[i] ELSE b[i - Len(a)]
    <3>1. i \in 1..Len(a) + Len(b)
      BY <1>0, <1>1, <1>2
    <3> QED BY <1>1, <1>2, <3>1, ConcatProperties
  <2>2. CASE i <= m
    BY <1>0, <1>1, <1>3, <2>1, <2>2
  <2>3. CASE ~(i <= m)
    <3>1. i - m \in 1..n - m /\ m + (i - m) = i
      BY <1>0, <2>3
    <3> QED BY <1>0, <1>1, <1>2, <1>3, <2>1, <2>3, <3>1
  <2> QED BY <2>2, <2>3
<1> QED BY <1>3, <1>4, <1>5, SeqEqual DEF a, b, c

(* A greatest number exists among some up to m.                                            *)
LEMMA Greatest ==
  ASSUME NEW m \in Nat, NEW S, S \subseteq 0..m, S # {}
  PROVE  Max(S) \in S
<1> DEFINE T == {m - x : x \in S}
<1>1. T \subseteq Nat /\ T # {}
  <2>1. \A x \in S : x \in 0..m
    OBVIOUS
  <2>2. \A x \in 0..m : m - x \in Nat
    OBVIOUS
  <2>3. PICK x : x \in S
    OBVIOUS
  <2>4. m - x \in T
    BY <2>3
  <2> QED BY <2>1, <2>2, <2>4
<1>2. PICK t \in T : \A y \in T : t <= y
  BY <1>1, Least
<1>3. PICK x \in S : t = m - x
  OBVIOUS
<1>4. \A y \in S : x >= y
  <2> SUFFICES ASSUME NEW y \in S PROVE x >= y
    OBVIOUS
  <2>1. m - x <= m - y
    BY <1>2, <1>3
  <2> QED BY <2>1
<1> QED BY <1>3, <1>4 DEF Max

LEMMA EndIs ==
  ASSUME NEW items, Len(items) \in Nat, NEW first \in 0..Len(items)
  PROVE  PageEnd(items, first) \in first..Len(items)
<1> DEFINE S == {n \in first..Len(items) : \A m \in first + 1..n : Fitting(items, first, m)}
<1>1. S \subseteq first..Len(items) /\ S \subseteq 0..Len(items)
  OBVIOUS
<1>2. first \in S
  OBVIOUS
<1>3. PageEnd(items, first) = Max(S)
  BY DEF PageEnd
<1> HIDE DEF S
<1> QED BY <1>1, <1>2, <1>3, Greatest

-----------------------------------------------------------------------------
(* The steps of the reads.                                                                 *)
LEMMA SoundLater ==
  ASSUME NEW upto \in Nat, NEW later \in Nat, upto <= later, NEW read, ReadSound(read, upto)
  PROVE  ReadSound(read, later)
<1>1. 1..upto \subseteq 1..later
  OBVIOUS
<1>2. Published(read.snap, LocaleOfAsk(read.ask), upto) => Published(read.snap, LocaleOfAsk(read.ask), later)
  BY <1>1 DEF Published
<1>3. Joined(read, upto) => Joined(read, later)
  BY <1>1 DEF Joined
<1> QED BY <1>2, <1>3 DEF ReadSound

LEMMA OneReads ==
  ASSUME CatalogSound, UNCHANGED store, NEW r \in DOMAIN reads, NEW read,
         reads' = [reads EXCEPT ![r] = read], ReadSound(read, store)
  PROVE  0 \notin DOMAIN reads' /\ \A b \in DOMAIN reads' : ReadSound(reads'[b], store')
<1>1. DOMAIN reads' = DOMAIN reads /\ 0 \notin DOMAIN reads
  BY DEF CatalogSound
<1> QED BY <1>1 DEF CatalogSound

LEMMA SoundAgain ==
  ASSUME CatalogSound, store' \in store..Len(Publications), Len(Publications) \in Nat,
         DOMAIN entries' = Locales, \A l \in Locales : entries'[l] = entries[l] \/ EntrySound(l)',
         0 \notin DOMAIN reads', \A b \in DOMAIN reads' : ReadSound(reads'[b], store')
  PROVE  CatalogSound'
<1>1. store' \in 1..Len(Publications) /\ 1..store \subseteq 1..store'
  BY DEF CatalogSound
<1>2. ASSUME NEW l \in Locales PROVE EntrySound(l)'
  <2>1. CASE entries'[l] = entries[l]
    BY <1>1, <2>1 DEF CatalogSound, EntrySound, Published
  <2> QED BY <2>1
<1> QED BY <1>1, <1>2 DEF CatalogSound

LEMMA StorePublishesSound == ASSUME CatalogShaped, CatalogSound, StorePublishes PROVE CatalogSound'
<1>1. store \in Nat /\ Len(Publications) \in Nat /\ store' = store + 1 /\ store' <= Len(Publications) /\ UNCHANGED <<entries, reads>>
  BY DEF StorePublishes, CatalogShaped, CatalogSound
<1>2. \A b \in DOMAIN reads : ReadSound(reads[b], store')
  BY <1>1, SoundLater DEF CatalogSound
<1> QED BY <1>1, <1>2, SoundAgain DEF CatalogSound

LEMMA SameStore ==
  ASSUME CatalogShaped, CatalogSound, UNCHANGED <<store, entries>>,
         0 \notin DOMAIN reads', \A b \in DOMAIN reads' : ReadSound(reads'[b], store')
  PROVE  CatalogSound'
<1>1. Len(Publications) \in Nat /\ store' \in store..Len(Publications)
  BY DEF CatalogShaped, CatalogSound
<1> QED BY <1>1, SoundAgain DEF CatalogSound

LEMMA OutdatedSound == ASSUME CatalogShaped, CatalogSound, NEW l \in Locales, Outdated(l) PROVE CatalogSound'
<1>1. UNCHANGED <<store, reads>> /\ entries' = [entries EXCEPT ![l].fresh = FALSE]
  BY DEF Outdated
<1>2. Len(Publications) \in Nat /\ store' \in store..Len(Publications)
  BY <1>1 DEF CatalogShaped, CatalogSound
<1>3. DOMAIN entries' = Locales /\ \A m \in Locales : m # l => entries'[m] = entries[m]
  BY <1>1 DEF CatalogSound
<1>4. entries'[l] = [entries[l] EXCEPT !.fresh = FALSE] /\ DOMAIN entries[l] = {"kept", "fresh"}
  BY <1>1 DEF CatalogSound, EntrySound
<1>5. EntrySound(l)'
  <2>1. entries'[l].kept = entries[l].kept /\ DOMAIN entries'[l] = {"kept", "fresh"}
    BY <1>4
  <2> QED BY <1>1, <2>1 DEF CatalogSound, EntrySound, Published
<1> QED BY <1>1, <1>2, <1>3, <1>5, SoundAgain DEF CatalogSound

LEMMA GetSound == ASSUME CatalogShaped, CatalogSound, NEW r \in DOMAIN reads, Get(r) PROVE CatalogSound'
<1> DEFINE read == [reads[r] EXCEPT !.at = IF IsFresh(LocaleOf(r)) THEN "have" ELSE "wait", !.snap = entries[LocaleOf(r)].kept]
<1>1. UNCHANGED <<store, entries>> /\ reads' = [reads EXCEPT ![r] = read]
  BY DEF Get
<1>2. ReadSound(reads[r], store) /\ LocaleOf(r) = LocaleOfAsk(reads[r].ask)
  BY OneLocale DEF CatalogSound
<1>3. /\ DOMAIN read = ReadFields /\ read.ask = reads[r].ask /\ read.snap = entries[LocaleOf(r)].kept
      /\ read.at \in {"have", "wait"} /\ read.got = reads[r].got /\ read.next = reads[r].next /\ read.digest = reads[r].digest
  BY <1>2 DEF ReadSound, ReadFields
<1> HIDE DEF read
<1>4. EntrySound(LocaleOf(r))
  BY <1>2 DEF CatalogSound, ReadSound
<1>5. ReadSound(read, store)
  BY <1>2, <1>3, <1>4 DEF ReadSound, EntrySound, Joined
<1> QED BY <1>1, <1>5, OneReads, SameStore

LEMMA RefreshSound == ASSUME CatalogShaped, CatalogSound, NEW r \in DOMAIN reads, Refresh(r) PROVE CatalogSound'
<1>0. UNCHANGED <<store, entries>>
  BY DEF Refresh
<1>2. ReadSound(reads[r], store) /\ LocaleOf(r) = LocaleOfAsk(reads[r].ask)
  BY OneLocale DEF CatalogSound
<1>4. EntrySound(LocaleOf(r))
  BY <1>2 DEF CatalogSound, ReadSound
<1>5. CASE IsFresh(LocaleOf(r))
  <2> DEFINE read == [reads[r] EXCEPT !.at = "have", !.snap = entries[LocaleOf(r)].kept]
  <2>1. reads' = [reads EXCEPT ![r] = read]
    BY <1>5 DEF Refresh
  <2>3. /\ DOMAIN read = ReadFields /\ read.ask = reads[r].ask /\ read.snap = entries[LocaleOf(r)].kept
        /\ read.at = "have" /\ read.got = reads[r].got /\ read.next = reads[r].next /\ read.digest = reads[r].digest
    BY <1>2 DEF ReadSound, ReadFields
  <2> HIDE DEF read
  <2>5. ReadSound(read, store)
    BY <1>2, <2>3, <1>4 DEF ReadSound, EntrySound, Joined
  <2> QED BY <1>0, <2>1, <2>5, OneReads, SameStore
<1>6. CASE ~IsFresh(LocaleOf(r))
  <2> DEFINE read == [reads[r] EXCEPT !.at = "fetch"]
  <2>1. reads' = [reads EXCEPT ![r] = read]
    BY <1>6 DEF Refresh
  <2>3. /\ DOMAIN read = ReadFields /\ read.ask = reads[r].ask
        /\ read.at = "fetch" /\ read.got = reads[r].got /\ read.next = reads[r].next /\ read.digest = reads[r].digest
    BY <1>2 DEF ReadSound, ReadFields
  <2> HIDE DEF read
  <2>5. ReadSound(read, store)
    BY <1>2, <2>3 DEF ReadSound, Joined
  <2> QED BY <1>0, <2>1, <2>5, OneReads, SameStore
<1> QED BY <1>5, <1>6

LEMMA FetchedSound == ASSUME CatalogShaped, CatalogSound, NEW r \in DOMAIN reads, Fetched(r) PROVE CatalogSound'
<1> DEFINE l == LocaleOf(r)
<1>1. PICK loaded \in {ValidateCatalog(Publications[store][LocaleOf(r)], LocaleOf(r)), Unavailable} :
         /\ entries' = [entries EXCEPT ![LocaleOf(r)] = [kept |-> loaded, fresh |-> TRUE]]
         /\ reads' = [reads EXCEPT ![r].at = "have", ![r].snap = loaded]
  BY DEF Fetched
<1>2. ReadSound(reads[r], store) /\ LocaleOf(r) = LocaleOfAsk(reads[r].ask) /\ LocaleOf(r) \in Locales
      /\ UNCHANGED store /\ store \in 1..Len(Publications)
  BY OneLocale DEF CatalogSound, ReadSound, Fetched
<1>3. loaded.ok => Published(loaded, LocaleOf(r), store)
  <2>1. SUFFICES ASSUME loaded.ok PROVE Published(loaded, LocaleOf(r), store)
    OBVIOUS
  <2>2. loaded = ValidateCatalog(Publications[store][LocaleOf(r)], LocaleOf(r))
    BY <1>1, <2>1 DEF Unavailable
  <2>3. Valid(store, LocaleOf(r))
    BY <2>1, <2>2 DEF Valid
  <2>4. loaded.items = Items(store, LocaleOf(r))
    BY <2>1, <2>2 DEF ValidateCatalog, Items, Unavailable
  <2> QED BY <1>2, <2>3, <2>4 DEF Published
<1> DEFINE read == [reads[r] EXCEPT !.at = "have", !.snap = loaded]
<1>4. reads' = [reads EXCEPT ![r] = read]
  BY <1>1
<1>5. /\ DOMAIN read = ReadFields /\ read.ask = reads[r].ask /\ read.snap = loaded
      /\ read.at = "have" /\ read.got = reads[r].got /\ read.next = reads[r].next /\ read.digest = reads[r].digest
  BY <1>2 DEF ReadSound, ReadFields
<1> HIDE DEF read
<1>6. ReadSound(read, store)
  BY <1>2, <1>3, <1>5 DEF ReadSound, Joined
<1>7. 0 \notin DOMAIN reads' /\ \A b \in DOMAIN reads' : ReadSound(reads'[b], store')
  BY <1>2, <1>4, <1>6, OneReads
<1>8. DOMAIN entries' = Locales /\ \A m \in Locales : m # LocaleOf(r) => entries'[m] = entries[m]
  BY <1>1 DEF CatalogSound
<1>9. entries'[LocaleOf(r)] = [kept |-> loaded, fresh |-> TRUE]
  BY <1>1, <1>2 DEF CatalogSound
<1>10. ASSUME NEW m \in Locales PROVE entries'[m] = entries[m] \/ EntrySound(m)'
  <2>1. CASE m # LocaleOf(r)
    BY <1>8, <2>1
  <2>2. CASE m = LocaleOf(r)
    BY <1>2, <1>3, <1>9, <2>2 DEF EntrySound
  <2> QED BY <2>1, <2>2
<1>11. Len(Publications) \in Nat /\ store' \in store..Len(Publications)
  BY <1>2 DEF CatalogShaped
<1> QED BY <1>7, <1>8, <1>10, <1>11, SoundAgain

LEMMA IconReads ==
  ASSUME CatalogShaped, CatalogSound, NEW r \in DOMAIN reads, reads[r].ask.kind = "icon", UNCHANGED <<store, entries>>,
         NEW read, reads' = [reads EXCEPT ![r] = read], DOMAIN read = ReadFields, read.ask = reads[r].ask, read.at # "have"
  PROVE  CatalogSound'
<1>1. ReadSound(read, store)
  BY DEF CatalogSound, ReadSound
<1> QED BY <1>1, OneReads, SameStore

LEMMA IconSound == ASSUME CatalogShaped, CatalogSound, NEW r \in DOMAIN reads, Icon(r) PROVE CatalogSound'
<1>1. UNCHANGED <<store, entries>> /\ reads[r].ask.kind = "icon" /\ DOMAIN reads[r] = ReadFields
  BY DEF Icon, CatalogSound, ReadSound
<1>2. CASE reads' = [reads EXCEPT ![r].at = "failed"]
  <2> DEFINE read == [reads[r] EXCEPT !.at = "failed"]
  <2>1. reads' = [reads EXCEPT ![r] = read] /\ DOMAIN read = ReadFields /\ read.ask = reads[r].ask /\ read.at = "failed"
    BY <1>1, <1>2 DEF ReadFields
  <2> HIDE DEF read
  <2> QED BY <1>1, <2>1, IconReads
<1>3. ASSUME NEW at \in {"done", "icon"}, NEW key, reads' = [reads EXCEPT ![r].at = at, ![r].got = <<key>>]
      PROVE CatalogSound'
  <2> DEFINE read == [reads[r] EXCEPT !.at = at, !.got = <<key>>]
  <2>1. reads' = [reads EXCEPT ![r] = read] /\ DOMAIN read = ReadFields /\ read.ask = reads[r].ask /\ read.at = at
    BY <1>1, <1>3 DEF ReadFields
  <2> HIDE DEF read
  <2> QED BY <1>1, <1>3, <2>1, IconReads
<1>4. \/ reads' = [reads EXCEPT ![r].at = "failed"]
      \/ \E at \in {"done", "icon"} : \E key : reads' = [reads EXCEPT ![r].at = at, ![r].got = <<key>>]
  <2> DEFINE found == {n \in DOMAIN reads[r].snap.items : reads[r].snap.items[n].id = reads[r].ask.id}
             key == reads[r].snap.items[Min(found)].icon
             at == IF key \in icons.kept THEN "done" ELSE "icon"
  <2>1. \/ reads' = [reads EXCEPT ![r].at = "failed"]
        \/ reads' = [reads EXCEPT ![r].at = at, ![r].got = <<key>>]
    BY DEF Icon
  <2>2. at \in {"done", "icon"}
    OBVIOUS
  <2> HIDE DEF at, key
  <2> QED BY <2>1, <2>2
<1> QED BY <1>2, <1>3, <1>4

LEMMA FetchedIconSound == ASSUME CatalogShaped, CatalogSound, NEW r \in DOMAIN reads, FetchedIcon(r) PROVE CatalogSound'
<1>1. UNCHANGED <<store, entries>> /\ reads[r].ask.kind = "icon" /\ DOMAIN reads[r] = ReadFields
  BY DEF FetchedIcon, CatalogSound, ReadSound
<1>2. PICK at \in {"done", "failed"} : reads' = [reads EXCEPT ![r].at = at]
  BY DEF FetchedIcon
<1> DEFINE read == [reads[r] EXCEPT !.at = at]
<1>3. reads' = [reads EXCEPT ![r] = read] /\ DOMAIN read = ReadFields /\ read.ask = reads[r].ask /\ read.at = at
  BY <1>1, <1>2 DEF ReadFields
<1> HIDE DEF read
<1> QED BY <1>1, <1>2, <1>3, IconReads

LEMMA PageSound == ASSUME CatalogShaped, CatalogSound, NEW r \in DOMAIN reads, CatalogPage(r) PROVE CatalogSound'
<1> DEFINE old == reads[r]  items == old.snap.items  end == PageEnd(items, old.next)  l == old.ask.locale
<1>0. UNCHANGED <<store, entries>> /\ old.at = "have" /\ old.ask.kind = "pages" /\ store \in 1..Len(Publications)
  BY DEF CatalogPage, CatalogSound
<1>1. ReadSound(old, store) /\ DOMAIN old = ReadFields /\ Joined(old, store) /\ LocaleOfAsk(old.ask) = l /\ l \in Locales
  BY <1>0 DEF CatalogSound, ReadSound, LocaleOfAsk
<1>2. ASSUME NEW read, reads' = [reads EXCEPT ![r] = read], DOMAIN read = ReadFields, read.ask = old.ask,
             read.at \notin {"have", "icon"}, Joined(read, store)
      PROVE  CatalogSound'
  <2>1. ReadSound(read, store)
    BY <1>1, <1>2 DEF ReadSound
  <2> QED BY <1>0, <1>2, <2>1, OneReads, SameStore
<1>3. ASSUME reads' = [reads EXCEPT ![r] = [old EXCEPT !.at = "failed"]]
      PROVE  CatalogSound'
  <2> DEFINE read == [old EXCEPT !.at = "failed"]
  <2>1. /\ DOMAIN read = ReadFields /\ read.ask = old.ask /\ read.at = "failed"
        /\ read.got = old.got /\ read.next = old.next /\ read.digest = old.digest
    BY <1>1 DEF ReadFields
  <2>2. reads' = [reads EXCEPT ![r] = read]
    BY <1>3
  <2> HIDE DEF read, old
  <2>3. Joined(read, store)
    BY <1>1, <2>1 DEF Joined
  <2> QED BY <1>2, <2>1, <2>2, <2>3
<1>4. CASE ~old.snap.ok
  <2>1. reads' = [reads EXCEPT ![r].at = "failed"]
    BY <1>4 DEF CatalogPage
  <2> QED BY <1>3, <2>1
<1>5. CASE old.snap.ok /\ Start(old)
  <2>1. CASE reads[r].restarts = MAX_CATALOG_RESTARTS
    <3>1. reads' = [reads EXCEPT ![r] = [old EXCEPT !.at = "failed"]]
      BY <1>5, <2>1 DEF CatalogPage, Again
    <3> QED BY <1>3, <3>1
  <2>2. CASE reads[r].restarts # MAX_CATALOG_RESTARTS
    <3> DEFINE read == [NoRead(old.ask) EXCEPT !.restarts = old.restarts + 1]
    <3>1. reads' = [reads EXCEPT ![r] = read]
      BY <1>5, <2>2 DEF CatalogPage, Again
    <3>2. DOMAIN read = ReadFields /\ read.ask = old.ask /\ read.at = "new" /\ read.next = 0 /\ read.got = <<>>
      BY DEF NoRead, ReadFields
    <3> HIDE DEF read, old
    <3>3. Joined(read, store)
      BY <3>2 DEF Joined
    <3> QED BY <1>2, <3>1, <3>2, <3>3
  <2> QED BY <2>1, <2>2
<1>6. CASE old.snap.ok /\ ~Start(old)
  <2>1. PICK n \in 1..store : Valid(n, l) /\ items = Items(n, l)
    BY <1>0, <1>1, <1>6 DEF ReadSound, Published
  <2>2. /\ items \in Seq({items[k] : k \in DOMAIN items}) /\ Len(items) \in Nat /\ n \in 1..Len(Publications)
    <3>1. Len(Publications) \in Nat /\ n \in 1..Len(Publications)
      BY <1>0, <2>1 DEF CatalogShaped
    <3> HIDE DEF items, l, old
    <3> QED BY <1>1, <2>1, <3>1, StoredItems
  <2>3. old.next \in 0..Len(items) /\ old.got = SubSeq(items, 1, old.next)
    <3>1. CASE old.next = 0 /\ old.got = <<>>
      <4>1. SubSeq(items, 1, 0) = <<>>
        BY SubSeqEmpty
      <4> QED BY <2>2, <3>1, <4>1
    <3>2. CASE old.next # 0 \/ old.got # <<>>
      <4>1. PICK m \in 1..store :
              /\ Valid(m, l) /\ old.digest = Items(m, l)
              /\ old.next \in 0..Len(Items(m, l)) /\ old.got = SubSeq(Items(m, l), 1, old.next)
        <5> HIDE DEF l, items, end
        <5>1. Joined(old, store)
          BY <1>1
        <5> QED BY <3>2, <5>1 DEF Joined, l
      <4>2. CASE old.next # 0
        <5>1. old.digest = items
          BY <1>6, <4>2 DEF Start, Digest
        <5> QED BY <4>1, <5>1
      <4>3. CASE old.next = 0
        <5>1. SubSeq(items, 1, 0) = <<>> /\ SubSeq(Items(m, l), 1, 0) = <<>>
          BY SubSeqEmpty
        <5> QED BY <2>2, <4>1, <4>3, <5>1
      <4> QED BY <4>2, <4>3
    <3> QED BY <3>1, <3>2
  <2>4. end \in old.next..Len(items)
    BY <2>2, <2>3, EndIs
  <2>5. CASE end = old.next /\ end < Len(items)
    <3>1. reads' = [reads EXCEPT ![r] = [old EXCEPT !.at = "failed"]]
      BY <1>6, <2>5 DEF CatalogPage
    <3> QED BY <1>3, <3>1
  <2>6. CASE ~(end = old.next /\ end < Len(items))
    <3> DEFINE at == IF end < Len(items) THEN "new" ELSE "done"
               more == old.got \o SubSeq(items, old.next + 1, end)
               read == [old EXCEPT !.at = at, !.got = more, !.next = end, !.digest = items]
    <3>1. reads' = [reads EXCEPT ![r] = read]
      BY <1>6, <2>6 DEF CatalogPage, Digest
    <3>2. at \in {"new", "done"} /\ (at = "done" => end = Len(items))
      BY <2>2, <2>3, <2>4
    <3>3. more = SubSeq(items, 1, end)
      <4> DEFINE T == {items[k] : k \in DOMAIN items}
      <4>1. items \in Seq(T)
        BY <2>2
      <4> HIDE DEF items, end, T, old
      <4> QED BY <2>3, <2>4, <4>1, PrefixLonger
    <3>4. end \in 0..Len(items)
      BY <2>2, <2>3, <2>4
    <3>5. /\ DOMAIN read = ReadFields /\ read.ask = old.ask /\ read.at = at
          /\ read.got = more /\ read.next = end /\ read.digest = items
      BY <1>1 DEF ReadFields
    <3> HIDE DEF read, at, more, end
    <3>6. Joined(read, store)
      <4>1. l = read.ask.locale
        BY <3>5
      <4> HIDE DEF l, items
      <4> QED BY <2>1, <3>2, <3>3, <3>4, <3>5, <4>1 DEF Joined
    <3> QED BY <1>2, <3>1, <3>2, <3>5, <3>6
  <2> QED BY <2>5, <2>6
<1> QED BY <1>4, <1>5, <1>6

-----------------------------------------------------------------------------
(* Who asks the Store.                                                                     *)
ReadMoves(r, ats) ==
  /\ DOMAIN reads' = DOMAIN reads /\ \A b \in DOMAIN reads : b # r => reads'[b] = reads[b]
  /\ reads'[r].ask = reads[r].ask /\ reads'[r].at \in ats

LEMMA StillAsked ==
  ASSUME AskedWhenStale, NEW r \in DOMAIN reads, ReadMoves(r, {"new", "wait", "have", "done", "failed", "icon"}), UNCHANGED <<entries, refresh>>
  PROVE  AskedWhenStale'
<1> SUFFICES ASSUME NEW b \in DOMAIN reads, reads'[b].at = "fetch" PROVE refresh' = b /\ ~IsFresh(LocaleOf(b))'
  BY DEF AskedWhenStale, ReadMoves
<1>1. b # r /\ reads'[b] = reads[b]
  BY DEF ReadMoves
<1> QED BY <1>1 DEF AskedWhenStale, IsFresh, LocaleOf

LEMMA AskedStays ==
  ASSUME CatalogSound, AskedWhenStale, NEW r \in DOMAIN reads, Get(r) \/ CatalogPage(r) \/ Icon(r) \/ FetchedIcon(r)
  PROVE  AskedWhenStale'
<1>0. UNCHANGED <<entries, refresh>> /\ DOMAIN reads[r] = ReadFields
  BY DEF Get, CatalogPage, Icon, FetchedIcon, CatalogSound, ReadSound
<1>1. CASE Get(r)
  <2>1. ReadMoves(r, {"wait", "have"})
    BY <1>0, <1>1 DEF Get, ReadMoves, ReadFields
  <2> QED BY <1>0, <2>1, StillAsked DEF ReadMoves
<1>2. CASE CatalogPage(r)
  <2> DEFINE old == reads[r]
  <2>1. \E read : reads' = [reads EXCEPT ![r] = read] /\ read.ask = old.ask /\ read.at \in {"failed", "new", "done"}
    <3>1. CASE ~old.snap.ok
      <4> DEFINE read == [old EXCEPT !.at = "failed"]
      <4>1. reads' = [reads EXCEPT ![r] = read] /\ read.ask = old.ask /\ read.at = "failed"
        BY <1>0, <1>2, <3>1 DEF CatalogPage, ReadFields
      <4> HIDE DEF read
      <4> QED BY <4>1
    <3>2. CASE old.snap.ok /\ Start(old)
      <4> DEFINE read == IF old.restarts = MAX_CATALOG_RESTARTS THEN [old EXCEPT !.at = "failed"]
                         ELSE [NoRead(old.ask) EXCEPT !.restarts = old.restarts + 1]
      <4>1. reads' = [reads EXCEPT ![r] = read]
        BY <1>2, <3>2 DEF CatalogPage, Again
      <4>2. read.ask = old.ask /\ read.at \in {"failed", "new"}
        BY <1>0 DEF NoRead, ReadFields
      <4> HIDE DEF read
      <4> QED BY <4>1, <4>2
    <3>3. CASE old.snap.ok /\ ~Start(old)
      <4> DEFINE items == old.snap.items  end == PageEnd(items, old.next)
                 read == IF end = old.next /\ end < Len(items) THEN [old EXCEPT !.at = "failed"]
                         ELSE [old EXCEPT !.at = IF end < Len(items) THEN "new" ELSE "done",
                                          !.got = @ \o SubSeq(items, old.next + 1, end),
                                          !.next = end, !.digest = Digest(old.snap)]
      <4>1. reads' = [reads EXCEPT ![r] = read]
        BY <1>2, <3>3 DEF CatalogPage
      <4>2. read.ask = old.ask /\ read.at \in {"failed", "new", "done"}
        BY <1>0 DEF ReadFields
      <4> HIDE DEF read
      <4> QED BY <4>1, <4>2
    <3> QED BY <3>1, <3>2, <3>3
  <2>2. ReadMoves(r, {"failed", "new", "done"})
    BY <2>1 DEF ReadMoves
  <2> QED BY <1>0, <2>2, StillAsked DEF ReadMoves
<1>3. CASE Icon(r)
  <2> DEFINE found == {n \in DOMAIN reads[r].snap.items : reads[r].snap.items[n].id = reads[r].ask.id}
             key == reads[r].snap.items[Min(found)].icon
             at == IF key \in icons.kept THEN "done" ELSE "icon"
             failed1 == [reads[r] EXCEPT !.at = "failed"]
             got == [reads[r] EXCEPT !.at = at, !.got = <<key>>]
  <2>2. reads' = [reads EXCEPT ![r] = failed1] \/ reads' = [reads EXCEPT ![r] = got]
    BY <1>3 DEF Icon
  <2>3. at \in {"done", "icon"}
    OBVIOUS
  <2>4. failed1.ask = reads[r].ask /\ failed1.at = "failed" /\ got.ask = reads[r].ask /\ got.at = at
    BY <1>0 DEF ReadFields
  <2> HIDE DEF at, key, failed1, got
  <2>1. ReadMoves(r, {"failed", "done", "icon"})
    BY <2>2, <2>3, <2>4 DEF ReadMoves
  <2> QED BY <1>0, <2>1, StillAsked DEF ReadMoves
<1>4. CASE FetchedIcon(r)
  <2>1. ReadMoves(r, {"failed", "done"})
    BY <1>0, <1>4 DEF FetchedIcon, ReadMoves, ReadFields
  <2> QED BY <1>0, <2>1, StillAsked DEF ReadMoves
<1> QED BY <1>1, <1>2, <1>3, <1>4

LEMMA RefreshAsked ==
  ASSUME CatalogSound, AskedWhenStale, NEW r \in DOMAIN reads, Refresh(r)
  PROVE  AskedWhenStale'
<1>0. UNCHANGED entries /\ DOMAIN reads[r] = ReadFields /\ refresh = 0 /\ 0 \notin DOMAIN reads
  BY DEF Refresh, CatalogSound, ReadSound
<1>1. CASE IsFresh(LocaleOf(r))
  <2>1. ReadMoves(r, {"have"}) /\ UNCHANGED refresh
    BY <1>0, <1>1 DEF Refresh, ReadMoves, ReadFields
  <2> QED BY <1>0, <2>1, StillAsked DEF ReadMoves
<1>2. CASE ~IsFresh(LocaleOf(r))
  <2>1. ReadMoves(r, {"fetch"}) /\ refresh' = r
    BY <1>0, <1>2 DEF Refresh, ReadMoves, ReadFields
  <2>2. \A b \in DOMAIN reads : reads[b].at # "fetch"
    BY <1>0 DEF AskedWhenStale
  <2>3. ASSUME NEW b \in DOMAIN reads', reads'[b].at = "fetch" PROVE refresh' = b /\ ~IsFresh(LocaleOf(b))'
    <3>1. b = r
      BY <2>1, <2>2, <2>3 DEF ReadMoves
    <3>2. LocaleOf(r)' = LocaleOf(r)
      BY <2>1 DEF ReadMoves, LocaleOf
    <3> QED BY <1>0, <1>2, <2>1, <3>1, <3>2 DEF IsFresh
  <2> QED BY <2>3 DEF AskedWhenStale
<1> QED BY <1>1, <1>2

LEMMA FetchedAsked ==
  ASSUME CatalogSound, AskedWhenStale, NEW r \in DOMAIN reads, Fetched(r)
  PROVE  AskedWhenStale'
<1>0. DOMAIN reads[r] = ReadFields /\ reads[r].at = "fetch"
  BY DEF Fetched, CatalogSound, ReadSound
<1>1. ReadMoves(r, {"have"})
  BY <1>0 DEF Fetched, ReadMoves, ReadFields
<1>2. \A b \in DOMAIN reads : b # r => reads[b].at # "fetch"
  BY <1>0 DEF AskedWhenStale
<1> QED BY <1>1, <1>2 DEF AskedWhenStale, ReadMoves

LEMMA StaleStays ==
  ASSUME CatalogSound, AskedWhenStale, UNCHANGED <<reads, refresh>>,
         entries' = entries \/ \E l \in Locales : entries' = [entries EXCEPT ![l].fresh = FALSE]
  PROVE  AskedWhenStale'
<1> SUFFICES ASSUME NEW b \in DOMAIN reads, reads[b].at = "fetch" PROVE refresh = b /\ ~IsFresh(LocaleOf(b))'
  BY DEF AskedWhenStale
<1>1. refresh = b /\ ~IsFresh(LocaleOf(b)) /\ LocaleOf(b)' = LocaleOf(b) /\ LocaleOf(b) \in Locales
  BY OneLocale DEF AskedWhenStale, LocaleOf, CatalogSound, ReadSound
<1>2. DOMAIN entries = Locales /\ DOMAIN entries[LocaleOf(b)] = {"kept", "fresh"}
  BY <1>1 DEF CatalogSound, EntrySound
<1>3. entries'[LocaleOf(b)].fresh = FALSE \/ entries'[LocaleOf(b)] = entries[LocaleOf(b)]
  BY <1>1, <1>2
<1> QED BY <1>1, <1>3 DEF IsFresh

-----------------------------------------------------------------------------
(* The icons.                                                                              *)
BytesOf(keys) == UNION {{key} \X (1..key.size) : key \in keys}
BytesCounted(keys) == /\ IsFiniteSet(keys) /\ IsFiniteSet(BytesOf(keys))
                 /\ \A key \in keys : key.size \in Nat
OrderOf(order, cached) == order \in Seq(cached) /\ ToSet(order) = cached /\ IsInjective(order)

LEMMA ByteIn == ASSUME NEW keys, NEW x PROVE x \in BytesOf(keys) <=> \E key \in keys : x \in {key} \X (1..key.size)
BY DEF BytesOf

LEMMA BytesApart ==
  ASSUME NEW S, NEW T
  PROVE  /\ BytesOf(S \cup T) = BytesOf(S) \cup BytesOf(T)
         /\ BytesOf(S) \cap BytesOf(T) = BytesOf(S \cap T)
         /\ BytesOf(S \ T) = BytesOf(S) \ BytesOf(T)
<1>1. \A x : x \in BytesOf(S) <=> \E key \in S : x \in {key} \X (1..key.size)
  BY ByteIn
<1>2. \A x : x \in BytesOf(T) <=> \E key \in T : x \in {key} \X (1..key.size)
  BY ByteIn
<1>3. \A x : x \in BytesOf(S \cup T) <=> \E key \in S \cup T : x \in {key} \X (1..key.size)
  BY ByteIn
<1>4. \A x : x \in BytesOf(S \cap T) <=> \E key \in S \cap T : x \in {key} \X (1..key.size)
  BY ByteIn
<1>5. \A x : x \in BytesOf(S \ T) <=> \E key \in S \ T : x \in {key} \X (1..key.size)
  BY ByteIn
<1>6. ASSUME NEW x, NEW k, x \in {k} \X (1..k.size) PROVE x[1] = k
  BY <1>6
<1>7. ASSUME NEW x
      PROVE /\ x \in BytesOf(S \cup T) <=> x \in BytesOf(S) \/ x \in BytesOf(T)
            /\ x \in BytesOf(S \cap T) <=> x \in BytesOf(S) /\ x \in BytesOf(T)
            /\ x \in BytesOf(S \ T) <=> x \in BytesOf(S) /\ x \notin BytesOf(T)
  <2> DEFINE In(k) == x \in {k} \X (1..k.size)
  <2>1. \A k, l : In(k) /\ In(l) => k = l
    <3>1. ASSUME NEW k, NEW l, In(k), In(l) PROVE k = l
      <4>1. x[1] = k
        BY <3>1, <1>6
      <4>2. x[1] = l
        BY <3>1, <1>6
      <4> QED BY <4>1, <4>2
    <3> QED BY <3>1
  <2>2. /\ x \in BytesOf(S) <=> \E key \in S : In(key)
        /\ x \in BytesOf(T) <=> \E key \in T : In(key)
        /\ x \in BytesOf(S \cup T) <=> \E key \in S \cup T : In(key)
        /\ x \in BytesOf(S \cap T) <=> \E key \in S \cap T : In(key)
        /\ x \in BytesOf(S \ T) <=> \E key \in S \ T : In(key)
    BY <1>1, <1>2, <1>3, <1>4, <1>5
  <2> HIDE DEF In
  <2> QED BY <2>1, <2>2
<1> QED BY <1>7

LEMMA BytesOfOne ==
  ASSUME NEW key, key.size \in Nat
  PROVE  IsFiniteSet(BytesOf({key})) /\ Cardinality(BytesOf({key})) = key.size
<1>1. BytesOf({key}) = {key} \X (1..key.size)
  BY DEF BytesOf
<1>2. IsFiniteSet({key}) /\ Cardinality({key}) = 1
  BY FS_Singleton
<1>3. IsFiniteSet(1..key.size) /\ Cardinality(1..key.size) = key.size
  BY FS_Interval
<1> DEFINE n == key.size  I == 1..key.size
<1>4. IsFiniteSet({key} \X I) /\ Cardinality({key} \X I) = Cardinality({key}) * Cardinality(I)
  BY <1>2, <1>3, FS_Product
<1>5. n \in Nat /\ Cardinality(I) = n /\ Cardinality({key}) = 1
  BY <1>2, <1>3
<1> HIDE DEF n, I
<1>6. Cardinality({key} \X I) = n
  BY <1>4, <1>5
<1> QED BY <1>1, <1>4, <1>6 DEF n, I

LEMMA BytesLess ==
  ASSUME NEW keys, BytesCounted(keys), NEW out, out \subseteq keys
  PROVE  /\ BytesCounted(keys \ out) /\ IconBytes(keys \ out) = IconBytes(keys) - IconBytes(out)
         /\ IconBytes(keys) \in Nat /\ IconBytes(out) \in Nat
<1>1. BytesOf(keys \ out) = BytesOf(keys) \ BytesOf(out) /\ BytesOf(keys) \cap BytesOf(out) = BytesOf(out)
  <2>1. keys \cap out = out
    OBVIOUS
  <2> QED BY <2>1, BytesApart
<1>2. IsFiniteSet(BytesOf(keys))
  BY DEF BytesCounted
<1>3. /\ IsFiniteSet(BytesOf(keys \ out))
      /\ Cardinality(BytesOf(keys \ out)) = Cardinality(BytesOf(keys)) - Cardinality(BytesOf(out))
  BY <1>1, <1>2, FS_Difference
<1>4. IsFiniteSet(keys \ out)
  BY FS_Difference DEF BytesCounted
<1>5. IsFiniteSet(BytesOf(out))
  <2>1. BytesOf(out) \subseteq BytesOf(keys)
    BY <1>1
  <2> QED BY <1>2, <2>1, FS_Subset
<1>6. \A S : IconBytes(S) = Cardinality(BytesOf(S))
  BY DEF IconBytes, BytesOf
<1>7. Cardinality(BytesOf(keys)) \in Nat /\ Cardinality(BytesOf(out)) \in Nat
  BY <1>2, <1>5, FS_CardinalityType
<1> QED BY <1>3, <1>4, <1>6, <1>7 DEF BytesCounted

LEMMA BytesMore ==
  ASSUME NEW keys, BytesCounted(keys), NEW key, key.size \in Nat
  PROVE  /\ BytesCounted(keys \cup {key})
         /\ IconBytes(keys \cup {key}) = IF key \in keys THEN IconBytes(keys) ELSE IconBytes(keys) + key.size
<1>1. CASE key \in keys
  <2>1. keys \cup {key} = keys
    BY <1>1
  <2> QED BY <1>1, <2>1
<1>2. CASE key \notin keys
  <2> DEFINE A == BytesOf(keys)  B == BytesOf({key})
  <2>1. BytesOf(keys \cup {key}) = A \cup B /\ A \cap B = BytesOf(keys \cap {key})
    BY BytesApart
  <2>2. keys \cap {key} = {} /\ BytesOf({}) = {}
    BY <1>2 DEF BytesOf
  <2>3. IsFiniteSet(A) /\ IsFiniteSet(B) /\ Cardinality(B) = key.size
    BY BytesOfOne DEF BytesCounted
  <2> HIDE DEF A, B
  <2>4. A \cap B = {} /\ Cardinality({}) = 0
    BY <2>1, <2>2, FS_EmptySet
  <2>5. IsFiniteSet(A \cup B) /\ Cardinality(A \cup B) = Cardinality(A) + key.size
    <3> DEFINE n == key.size
    <3>1. IsFiniteSet(A \cup B) /\ Cardinality(A \cup B) = Cardinality(A) + Cardinality(B) - Cardinality(A \cap B)
      BY <2>3, FS_Union
    <3>2. Cardinality(A) \in Nat /\ n \in Nat
      BY <2>3, FS_CardinalityType
    <3>3. Cardinality(B) = n /\ Cardinality(A \cap B) = 0
      BY <2>3, <2>4
    <3> HIDE DEF n
    <3>4. Cardinality(A \cup B) = Cardinality(A) + n
      BY <3>1, <3>2, <3>3
    <3> QED BY <3>1, <3>4 DEF n
  <2>6. IsFiniteSet(keys \cup {key})
    BY FS_AddElement DEF BytesCounted
  <2>7. \A S : IconBytes(S) = Cardinality(BytesOf(S))
    BY DEF IconBytes, BytesOf
  <2> QED BY <1>2, <2>1, <2>5, <2>6, <2>7 DEF BytesCounted, A
<1> QED BY <1>1, <1>2

(* A least number exists.                                                                  *)
LEMMA LeastIs ==
  ASSUME NEW S, S \subseteq Nat, S # {}
  PROVE  Min(S) \in S
<1>1. PICK x \in S : \A y \in S : x <= y
  BY Least
<1> QED BY <1>1 DEF Min

LEMMA OrderIs ==
  ASSUME NEW cached, NEW order
  PROVE  OrderOf(order, cached) <=>
           /\ order \in Seq(cached)
           /\ \A k \in cached : \E i \in 1..Len(order) : order[i] = k
           /\ \A i, j \in 1..Len(order) : order[i] = order[j] => i = j
<1>1. SUFFICES ASSUME order \in Seq(cached)
               PROVE  /\ ToSet(order) = cached <=> \A k \in cached : \E i \in 1..Len(order) : order[i] = k
                      /\ IsInjective(order) <=> \A i, j \in 1..Len(order) : order[i] = order[j] => i = j
  BY DEF OrderOf
<1>2. DOMAIN order = 1..Len(order) /\ \A i \in 1..Len(order) : order[i] \in cached
  BY <1>1
<1>3. ToSet(order) = {order[i] : i \in 1..Len(order)}
  BY <1>2 DEF ToSet
<1> QED BY <1>2, <1>3 DEF IsInjective

OldestOf(order, n) == {order[i] : i \in 1..n}

LEMMA OldestGone ==
  ASSUME NEW cached, NEW order, OrderOf(order, cached), NEW n \in 0..Len(order)
  PROVE  /\ OrderOf(SubSeq(order, n + 1, Len(order)), cached \ OldestOf(order, n)) /\ OldestOf(order, n) \subseteq cached
         /\ n = Len(order) => cached \ OldestOf(order, n) = {}
<1> DEFINE oldest == {order[i] : i \in 1..n}
<1>0. oldest = OldestOf(order, n)
  BY DEF OldestOf
<1> DEFINE t == SubSeq(order, n + 1, Len(order))
<1>1. /\ order \in Seq(cached) /\ Len(order) \in Nat /\ \A i \in 1..Len(order) : order[i] \in cached
      /\ \A k \in cached : \E i \in 1..Len(order) : order[i] = k
      /\ \A i, j \in 1..Len(order) : order[i] = order[j] => i = j
  BY OrderIs
<1>2. t \in Seq(cached) /\ Len(t) = Len(order) - n /\ \A i \in 1..Len(order) - n : t[i] = order[n + i]
  <2>1. \A i \in n + 1..Len(order) : order[i] \in cached
    BY <1>1
  <2> QED BY <2>1, <1>1, SubSeqProperties
<1>3. ASSUME NEW i \in 1..Len(order) PROVE order[i] \in oldest <=> i \in 1..n
  <2>1. order[i] \in oldest <=> \E j \in 1..n : order[j] = order[i]
    OBVIOUS
  <2>2. \A j \in 1..n : j \in 1..Len(order)
    BY <1>1
  <2> QED BY <1>1, <2>1, <2>2
<1>4. oldest \subseteq cached
  BY <1>1
<1> HIDE DEF oldest, t
<1>5. ASSUME NEW i \in 1..Len(t) PROVE n + i \in 1..Len(order) /\ n + i \notin 1..n
  <2>1. Len(order) \in Nat /\ Len(t) = Len(order) - n
    BY <1>1, <1>2
  <2> DEFINE most == Len(order)
  <2>2. most \in Nat /\ n \in 0..most /\ i \in 1..most - n
    BY <2>1
  <2> HIDE DEF most
  <2>3. n + i \in 1..most /\ n + i \notin 1..n
    BY <2>2
  <2> QED BY <2>3 DEF most
<1>6. \A i \in 1..Len(t) : t[i] \in cached \ oldest
  BY <1>1, <1>2, <1>3, <1>5
<1>7. t \in Seq(cached \ oldest)
  <2>1. Len(t) \in Nat /\ t \in [1..Len(t) -> cached]
    BY <1>2
  <2>2. t \in [1..Len(t) -> cached \ oldest]
    BY <2>1, <1>6
  <2> QED BY <2>1, <2>2
<1>8. \A k \in cached \ oldest : \E i \in 1..Len(t) : t[i] = k
  <2> TAKE k \in cached \ oldest
  <2>1. PICK i \in 1..Len(order) : order[i] = k
    BY <1>1
  <2>2. i \notin 1..n
    BY <1>3, <2>1
  <2>3. i - n \in 1..Len(t) /\ n + (i - n) = i
    BY <1>1, <1>2, <2>2
  <2> QED BY <1>2, <2>1, <2>3
<1>9. \A i, j \in 1..Len(t) : t[i] = t[j] => i = j
  <2> TAKE i, j \in 1..Len(t)
  <2>1. t[i] = order[n + i] /\ t[j] = order[n + j] /\ n + i \in 1..Len(order) /\ n + j \in 1..Len(order)
    BY <1>2, <1>5
  <2>2. n + i = n + j => i = j
    BY <1>2
  <2> QED BY <1>1, <2>1, <2>2
<1>10. OrderOf(t, cached \ oldest)
  BY <1>7, <1>8, <1>9, OrderIs
<1>11. n = Len(order) => cached \ oldest = {}
  BY <1>1, <1>3
<1> QED BY <1>0, <1>4, <1>10, <1>11 DEF t

LEMMA ButIs ==
  ASSUME NEW cached, NEW order, OrderOf(order, cached), NEW key
  PROVE  OrderOf(But(order, key), cached \ {key})
<1> DEFINE I == {i \in DOMAIN order : order[i] # key}  p == Picked(order, I)
<1>1. But(order, key) = p
  BY DEF But, Select
<1>2. /\ order \in Seq(cached) /\ DOMAIN order = 1..Len(order) /\ \A i \in 1..Len(order) : order[i] \in cached
      /\ \A k \in cached : \E i \in 1..Len(order) : order[i] = k
      /\ \A i, j \in 1..Len(order) : order[i] = order[j] => i = j
  BY OrderIs
<1>3. \A i : i \in I <=> i \in 1..Len(order) /\ order[i] # key
  BY <1>2
<1> HIDE DEF I
<1>4. p \in Seq(cached)
  BY <1>2, PickedIs
<1>5. PICK at \in [1..Len(p) -> DOMAIN order] :
        /\ \A k \in DOMAIN p : at[k] \in I /\ p[k] = order[at[k]]
        /\ \A k, l \in DOMAIN p : k < l => at[k] < at[l]
        /\ \A i \in DOMAIN order : i \in I => \E k \in DOMAIN p : at[k] = i
  <2>1. order \in Seq(cached)
    BY <1>2
  <2> QED BY ONLY <2>1, PickedIs
<1> HIDE DEF p
<1>6. Len(p) \in Nat /\ DOMAIN p = 1..Len(p)
  BY <1>4
<1>7. \A k \in 1..Len(p) : p[k] \in cached \ {key} /\ at[k] \in 1..Len(order)
  BY <1>2, <1>3, <1>5, <1>6
<1>8. p \in Seq(cached \ {key})
  <2>1. p \in [1..Len(p) -> cached \ {key}]
    BY <1>4, <1>7
  <2> QED BY <1>6, <2>1
<1>9. \A k \in cached \ {key} : \E i \in 1..Len(p) : p[i] = k
  <2> TAKE k \in cached \ {key}
  <2>1. PICK i \in 1..Len(order) : order[i] = k
    BY <1>2
  <2>2. PICK j \in 1..Len(p) : at[j] = i
    BY <1>2, <1>3, <1>5, <1>6, <2>1
  <2> QED BY <1>5, <1>6, <2>1, <2>2
<1>10. \A i, j \in 1..Len(p) : p[i] = p[j] => i = j
  <2> SUFFICES ASSUME NEW i \in 1..Len(p), NEW j \in 1..Len(p), p[i] = p[j] PROVE i = j
    OBVIOUS
  <2>5. p[i] = order[at[i]] /\ p[j] = order[at[j]]
    BY <1>5, <1>6
  <2>6. at[i] \in 1..Len(order) /\ at[j] \in 1..Len(order)
    BY <1>7
  <2>1. at[i] = at[j]
    BY <1>2, <2>5, <2>6
  <2>2. i < j \/ j < i \/ i = j
    BY <1>6
  <2>3. (i < j => at[i] < at[j]) /\ (j < i => at[j] < at[i])
    BY <1>5, <1>6
  <2>4. at[i] \in Nat /\ at[j] \in Nat
    BY <1>7
  <2> QED BY <2>1, <2>2, <2>3, <2>4
<1>11. OrderOf(p, cached \ {key})
  BY <1>8, <1>9, <1>10, OrderIs
<1> QED BY <1>1, <1>11

LEMMA AppendedLast ==
  ASSUME NEW cached, NEW order, OrderOf(order, cached), NEW key, key \notin cached
  PROVE  OrderOf(Append(order, key), cached \cup {key})
<1> DEFINE p == Append(order, key)
<1>1. /\ order \in Seq(cached) /\ Len(order) \in Nat /\ \A i \in 1..Len(order) : order[i] \in cached
      /\ \A k \in cached : \E i \in 1..Len(order) : order[i] = k
      /\ \A i, j \in 1..Len(order) : order[i] = order[j] => i = j
  BY OrderIs
<1>2. order \in Seq(cached \cup {key})
  BY <1>1
<1>3. /\ p \in Seq(cached \cup {key}) /\ Len(p) = Len(order) + 1
      /\ \A i \in 1..Len(order) : p[i] = order[i]
      /\ p[Len(order) + 1] = key
  BY <1>2, AppendProperties
<1> HIDE DEF p
<1>4. \A k \in cached \cup {key} : \E i \in 1..Len(p) : p[i] = k
  <2> TAKE k \in cached \cup {key}
  <2>1. CASE k = key
    <3>1. Len(order) + 1 \in 1..Len(p)
      BY <1>1, <1>3
    <3> QED BY <1>3, <2>1, <3>1
  <2>2. CASE k \in cached
    <3>1. PICK i \in 1..Len(order) : order[i] = k
      BY <1>1, <2>2
    <3>2. i \in 1..Len(p)
      BY <1>1, <1>3
    <3> QED BY <1>3, <3>1, <3>2
  <2> QED BY <2>1, <2>2
<1>5. \A i, j \in 1..Len(p) : p[i] = p[j] => i = j
  <2>1. \A i \in 1..Len(p) : i \in 1..Len(order) \/ i = Len(order) + 1
    BY <1>1, <1>3
  <2>2. \A i \in 1..Len(order) : p[i] # key
    BY <1>1, <1>3
  <2> QED BY <1>1, <1>3, <2>1, <2>2
<1>6. OrderOf(p, cached \cup {key})
  BY <1>3, <1>4, <1>5, OrderIs
<1> QED BY <1>6 DEF p

LEMMA MovedLast ==
  ASSUME NEW cached, NEW order, OrderOf(order, cached), NEW key \in cached
  PROVE  OrderOf(Append(But(order, key), key), cached)
<1>1. OrderOf(But(order, key), cached \ {key})
  BY ButIs
<1>2. key \notin cached \ {key} /\ (cached \ {key}) \cup {key} = cached
  OBVIOUS
<1> HIDE DEF OrderOf
<1>3. OrderOf(Append(But(order, key), key), (cached \ {key}) \cup {key})
  BY <1>1, <1>2, AppendedLast
<1> QED BY <1>2, <1>3

(* A cache that counts what it keeps, within its bounds or not.                            *)
CacheSound(cache) ==
  /\ DOMAIN cache = {"order", "kept", "bytes"} /\ BytesCounted(cache.kept) /\ OrderOf(cache.order, cache.kept)
  /\ cache.bytes = IconBytes(cache.kept)

LEMMA OldestCounted ==
  ASSUME NEW cache, CacheSound(cache), NEW n \in 0..Len(cache.order)
  PROVE  /\ CacheSound(WithoutOldest(cache, n))
         /\ n = Len(cache.order) => WithoutOldest(cache, n).kept = {}
<1> DEFINE oldest == {cache.order[i] : i \in 1..n}  w == WithoutOldest(cache, n)
<1>1. /\ OrderOf(SubSeq(cache.order, n + 1, Len(cache.order)), cache.kept \ oldest) /\ oldest \subseteq cache.kept
      /\ n = Len(cache.order) => cache.kept \ oldest = {}
  <2>1. OrderOf(cache.order, cache.kept)
    BY DEF CacheSound
  <2> DEFINE order == cache.order  cached == cache.kept
  <2>2. OrderOf(order, cached) /\ n \in 0..Len(order) /\ oldest = OldestOf(order, n)
    BY <2>1 DEF OldestOf
  <2> HIDE DEF OrderOf, order, cached, oldest
  <2>3. /\ OrderOf(SubSeq(order, n + 1, Len(order)), cached \ oldest) /\ oldest \subseteq cached
        /\ n = Len(order) => cached \ oldest = {}
    BY <2>2, OldestGone
  <2> QED BY <2>3 DEF order, cached
<1>2. cache.kept \cap oldest = oldest
  BY <1>1
<1>3. /\ DOMAIN w = {"order", "kept", "bytes"} /\ w.order = SubSeq(cache.order, n + 1, Len(cache.order))
      /\ w.kept = cache.kept \ oldest /\ w.bytes = cache.bytes - IconBytes(cache.kept \cap oldest)
  BY DEF WithoutOldest
<1> HIDE DEF w, oldest
<1>4. BytesCounted(cache.kept \ oldest) /\ IconBytes(cache.kept \ oldest) = IconBytes(cache.kept) - IconBytes(oldest)
  BY <1>1, BytesLess DEF CacheSound
<1> QED BY <1>1, <1>2, <1>3, <1>4 DEF CacheSound, w

LEMMA NothingWithin ==
  ASSUME CatalogShaped, NEW cache, CacheSound(cache), cache.kept = {}
  PROVE  WithinBounds(cache)
<1>1. IconBytes({}) = 0 /\ Cardinality({}) = 0
  <2>1. UNION {{key} \X (1..key.size) : key \in {}} = {}
    OBVIOUS
  <2> QED BY <2>1, FS_EmptySet DEF IconBytes
<1>2. MAX_CACHED_ICONS \in Nat /\ MAX_CACHED_ICON_BYTES \in Nat
  BY DEF CatalogShaped
<1> QED BY <1>1, <1>2 DEF WithinBounds, CacheSound

LEMMA EvictedSound ==
  ASSUME CatalogShaped, NEW cache, CacheSound(cache)
  PROVE  CacheSound(Evicted(cache)) /\ WithinBounds(Evicted(cache))
<1> DEFINE S == {n \in 0..Len(cache.order) : WithinBounds(WithoutOldest(cache, n)) \/ n = Len(cache.order)}
           n == Min(S)
<1>1. Len(cache.order) \in Nat
  BY OrderIs DEF CacheSound
<1>2. S \subseteq Nat /\ Len(cache.order) \in S
  BY <1>1
<1> HIDE DEF S
<1>3. n \in S
  BY <1>2, LeastIs
<1>4. Evicted(cache) = WithoutOldest(cache, n)
  BY DEF Evicted, S
<1>5. n \in 0..Len(cache.order) /\ (WithinBounds(WithoutOldest(cache, n)) \/ n = Len(cache.order))
  BY <1>3 DEF S
<1> HIDE DEF n
<1>6. /\ CacheSound(WithoutOldest(cache, n))
      /\ n = Len(cache.order) => WithoutOldest(cache, n).kept = {}
  BY <1>5, OldestCounted
<1> QED BY <1>4, <1>5, <1>6, NothingWithin

LEMMA RememberSound ==
  ASSUME CatalogShaped, NEW cache, CacheSound(cache), NEW key, key.size \in Nat
  PROVE  CacheSound(Remember(cache, key)) /\ WithinBounds(Remember(cache, key))
<1> DEFINE order == Append(IF key \in cache.kept THEN But(cache.order, key) ELSE cache.order, key)
           cached == cache.kept \cup {key}
           bytes == IF key \in cache.kept THEN cache.bytes ELSE cache.bytes + key.size
           grown == [order |-> order, kept |-> cached, bytes |-> bytes]
<1>1. Remember(cache, key) = Evicted(grown)
  BY DEF Remember
<1>2. OrderOf(order, cached)
  <2> HIDE DEF OrderOf
  <2>1. CASE key \in cache.kept
    <3>1. cached = cache.kept /\ order = Append(But(cache.order, key), key)
      BY <2>1
    <3> HIDE DEF cached, order
    <3> QED BY <2>1, <3>1, MovedLast DEF CacheSound
  <2>2. CASE key \notin cache.kept
    <3>1. order = Append(cache.order, key)
      BY <2>2
    <3> HIDE DEF order
    <3> QED BY <2>2, <3>1, AppendedLast DEF CacheSound
  <2> QED BY <2>1, <2>2
<1>3. BytesCounted(cached) /\ bytes = IconBytes(cached)
  <2>1. BytesCounted(cached) /\ IconBytes(cached) = IF key \in cache.kept THEN IconBytes(cache.kept) ELSE IconBytes(cache.kept) + key.size
    BY BytesMore DEF CacheSound
  <2> QED BY <2>1 DEF CacheSound
<1>4. CacheSound(grown)
  <2>1. DOMAIN grown = {"order", "kept", "bytes"} /\ grown.order = order /\ grown.kept = cached /\ grown.bytes = bytes
    OBVIOUS
  <2> HIDE DEF grown, order, cached, bytes
  <2> QED BY <1>2, <1>3, <2>1 DEF CacheSound
<1> HIDE DEF grown
<1> QED BY <1>1, <1>4, EvictedSound

CacheWithin == CacheSound(icons) /\ WithinBounds(icons)

LEMMA IconKeepsCache ==
  ASSUME CacheWithin, NEW r \in DOMAIN reads, Icon(r)
  PROVE  CacheWithin'
<1>1. CASE UNCHANGED icons
  BY <1>1 DEF CacheWithin, CacheSound, WithinBounds
<1>2. CASE ~UNCHANGED icons
  <2> DEFINE found == {n \in DOMAIN reads[r].snap.items : reads[r].snap.items[n].id = reads[r].ask.id}
             k == reads[r].snap.items[Min(found)].icon
  <2>1. k \in icons.kept /\ icons' = [icons EXCEPT !.order = Append(But(@, k), k)]
    BY <1>2 DEF Icon
  <2> HIDE DEF k
  <2>2. PICK key \in icons.kept : icons' = [icons EXCEPT !.order = Append(But(@, key), key)]
    BY <2>1
  <2> DEFINE order == icons.order  cached == icons.kept
  <2>3. DOMAIN icons = {"order", "kept", "bytes"} /\ OrderOf(order, cached)
    BY DEF CacheWithin, CacheSound
  <2>4. /\ DOMAIN icons' = {"order", "kept", "bytes"} /\ icons'.order = Append(But(order, key), key)
        /\ icons'.kept = cached /\ icons'.bytes = icons.bytes
    BY <2>2, <2>3
  <2>5. OrderOf(Append(But(order, key), key), cached)
    <3> HIDE DEF OrderOf, order
    <3> QED BY <2>2, <2>3, MovedLast DEF cached
  <2> QED BY <2>4, <2>5 DEF CacheWithin, CacheSound, WithinBounds
<1> QED BY <1>1, <1>2

LEMMA FetchedKeepsCache ==
  ASSUME CatalogShaped, CacheWithin, NEW r \in DOMAIN reads, FetchedIcon(r)
  PROVE  CacheWithin'
<1>1. CASE UNCHANGED icons
  BY <1>1 DEF CacheWithin, CacheSound, WithinBounds
<1>2. CASE ~UNCHANGED icons
  <2>1. PICK key : key.size \in 1..MAX_ICON_BYTES /\ icons' = Remember(icons, key)
    BY <1>2 DEF FetchedIcon
  <2>2. key.size \in Nat
    BY <2>1 DEF CatalogShaped
  <2>3. CacheSound(Remember(icons, key)) /\ WithinBounds(Remember(icons, key))
    BY <2>2, RememberSound DEF CacheWithin
  <2> QED BY <2>1, <2>3 DEF CacheWithin
<1> QED BY <1>1, <1>2

-----------------------------------------------------------------------------
(* The inductive invariant.                                                                *)
CatalogInv == CatalogSound /\ AskedWhenStale /\ CacheWithin

LEMMA CatalogStarts == ASSUME CatalogShaped, CatalogInit PROVE CatalogInv
<1>1. PICK asked \in PageReads : reads = [r \in DOMAIN asked |-> NoRead(asked[r])]
  BY DEF CatalogInit
<1>2. DOMAIN reads = DOMAIN asked /\ \A r \in DOMAIN reads : reads[r] = NoRead(asked[r])
  BY <1>1
<1>3. 0 \notin DOMAIN reads /\ \A r \in DOMAIN reads : LocaleOfAsk(asked[r]) \in Locales
  BY <1>2 DEF CatalogShaped, LocaleOfAsk
<1>4. ASSUME NEW r \in DOMAIN reads PROVE ReadSound(reads[r], store) /\ reads[r].at # "fetch"
  <2>1. /\ DOMAIN reads[r] = ReadFields /\ reads[r].ask = asked[r] /\ reads[r].at = "new"
        /\ reads[r].next = 0 /\ reads[r].got = <<>>
    BY <1>2 DEF NoRead, ReadFields
  <2> QED BY <1>3, <2>1 DEF ReadSound, Joined
<1>5. store = 1 /\ store \in 1..Len(Publications) /\ entries = [l \in Locales |-> NoEntry]
  BY DEF CatalogInit, CatalogShaped
<1>6. \A l \in Locales : EntrySound(l)
  BY <1>5 DEF EntrySound, NoEntry, Unavailable
<1>7. CacheSound(icons) /\ icons.kept = {}
  <2>1. icons = [order |-> <<>>, kept |-> {}, bytes |-> 0]
    BY DEF CatalogInit
  <2>2. IconBytes({}) = 0 /\ BytesCounted({})
    <3>1. BytesOf({}) = {} /\ IsFiniteSet({}) /\ Cardinality({}) = 0
      BY FS_EmptySet DEF BytesOf
    <3> QED BY <3>1 DEF BytesCounted, IconBytes, BytesOf
  <2>3. OrderOf(<<>>, {})
    <3>1. <<>> \in Seq({}) /\ Len(<<>>) = 0 /\ 1..0 = {}
      OBVIOUS
    <3> DEFINE none == <<>>
    <3>2. none \in Seq({}) /\ \A i : i \notin 1..Len(none)
      BY <3>1
    <3> HIDE DEF none
    <3>3. OrderOf(none, {})
      BY <3>2, OrderIs
    <3> QED BY <3>3 DEF none
  <2> QED BY <2>1, <2>2, <2>3 DEF CacheSound
<1>8. WithinBounds(icons)
  BY <1>7, NothingWithin
<1> QED BY <1>3, <1>4, <1>5, <1>6, <1>7, <1>8 DEF CatalogInv, CatalogSound, AskedWhenStale, CacheWithin

LEMMA CatalogStep == ASSUME CatalogShaped, CatalogInv, [CatalogNext]_catalogVars PROVE CatalogInv'
<1>0. CatalogSound /\ AskedWhenStale /\ CacheWithin
  BY DEF CatalogInv
<1> DEFINE SameIcons == UNCHANGED icons
<1>1. SameIcons => CacheWithin'
  BY <1>0 DEF CacheWithin, CacheSound, WithinBounds
<1>2. CASE StorePublishes
  <2>1. UNCHANGED <<entries, refresh, reads>> /\ SameIcons
    BY <1>2 DEF StorePublishes
  <2>2. AskedWhenStale'
    BY <1>0, <2>1, StaleStays
  <2> QED BY <1>0, <1>1, <1>2, <2>1, <2>2, StorePublishesSound DEF CatalogInv
<1>3. ASSUME NEW l \in Locales, Outdated(l) PROVE CatalogInv'
  <2>1. UNCHANGED <<reads, refresh>> /\ SameIcons /\ entries' = [entries EXCEPT ![l].fresh = FALSE]
    BY <1>3 DEF Outdated
  <2>2. AskedWhenStale'
    BY <1>0, <2>1, StaleStays
  <2> QED BY <1>0, <1>1, <1>3, <2>1, <2>2, OutdatedSound DEF CatalogInv
<1>4. ASSUME NEW r \in DOMAIN reads, Get(r) PROVE CatalogInv'
  BY <1>0, <1>1, <1>4, GetSound, AskedStays DEF CatalogInv, Get
<1>5. ASSUME NEW r \in DOMAIN reads, Refresh(r) PROVE CatalogInv'
  BY <1>0, <1>1, <1>5, RefreshSound, RefreshAsked DEF CatalogInv, Refresh
<1>6. ASSUME NEW r \in DOMAIN reads, Fetched(r) PROVE CatalogInv'
  BY <1>0, <1>1, <1>6, FetchedSound, FetchedAsked DEF CatalogInv, Fetched
<1>7. ASSUME NEW r \in DOMAIN reads, CatalogPage(r) PROVE CatalogInv'
  BY <1>0, <1>1, <1>7, PageSound, AskedStays DEF CatalogInv, CatalogPage
<1>8. ASSUME NEW r \in DOMAIN reads, Icon(r) PROVE CatalogInv'
  BY <1>0, <1>8, IconSound, AskedStays, IconKeepsCache DEF CatalogInv
<1>9. ASSUME NEW r \in DOMAIN reads, FetchedIcon(r) PROVE CatalogInv'
  BY <1>0, <1>9, FetchedIconSound, AskedStays, FetchedKeepsCache DEF CatalogInv
<1>10. CASE UNCHANGED catalogVars
  <2>1. UNCHANGED <<store, entries, refresh, icons, reads>>
    BY <1>10 DEF catalogVars
  <2>2. CatalogSound'
    BY <1>0, <2>1, SameStore DEF CatalogSound
  <2>3. AskedWhenStale'
    BY <1>0, <2>1, StaleStays
  <2> QED BY <1>1, <2>1, <2>2, <2>3 DEF CatalogInv
<1> QED BY <1>2, <1>3, <1>4, <1>5, <1>6, <1>7, <1>8, <1>9, <1>10 DEF CatalogNext

LEMMA WholeCatalog == ASSUME CatalogShaped, CatalogInv PROVE CatalogWhole
<1>0. CatalogSound /\ AskedWhenStale /\ CacheWithin /\ store \in 1..Len(Publications) /\ Len(Publications) \in Nat
  BY DEF CatalogInv, CatalogSound, CatalogShaped
<1>1. JoinedIsPublished
  <2> SUFFICES ASSUME NEW r \in DOMAIN reads, reads[r].ask.kind = "pages", reads[r].at = "done"
               PROVE  \E n \in 1..store : Publications[n][reads[r].ask.locale].items = reads[r].got
    BY DEF JoinedIsPublished
  <2> DEFINE l == reads[r].ask.locale
  <2>1. Joined(reads[r], store) /\ l \in Locales
    BY <1>0 DEF CatalogSound, ReadSound, LocaleOfAsk
  <2>2. PICK n \in 1..store :
           /\ reads[r].next = Len(Items(n, l)) /\ reads[r].got = SubSeq(Items(n, l), 1, reads[r].next)
    BY <2>1 DEF Joined
  <2> HIDE DEF l
  <2>3. n \in 1..Len(Publications)
    BY <1>0
  <2> DEFINE s == Items(n, l)  T == {s[k] : k \in DOMAIN s}
  <2>4. s \in Seq(T)
    BY <2>1, <2>3, StoredItems
  <2> HIDE DEF s, T
  <2>5. SubSeq(s, 1, Len(s)) = s
    BY <2>4, SubSeqFull
  <2>6. s = reads[r].got
    BY <2>2, <2>5 DEF s
  <2> QED BY <2>6 DEF s, Items, l
<1>2. ShownOnce
  <2> SUFFICES ASSUME NEW r \in DOMAIN reads, reads[r].ask.kind = "pages",
                      NEW i \in DOMAIN reads[r].got, NEW j \in DOMAIN reads[r].got, i # j
               PROVE  reads[r].got[i].id # reads[r].got[j].id
    BY DEF ShownOnce
  <2> DEFINE l == reads[r].ask.locale  got == reads[r].got
  <2>1. Joined(reads[r], store) /\ l \in Locales
    BY <1>0 DEF CatalogSound, ReadSound, LocaleOfAsk
  <2>2. got # <<>>
    OBVIOUS
  <2>3. PICK n \in 1..store :
           /\ Valid(n, l) /\ reads[r].next \in 0..Len(Items(n, l))
           /\ got = SubSeq(Items(n, l), 1, reads[r].next)
    BY <2>1, <2>2 DEF Joined
  <2> HIDE DEF l
  <2>4. n \in 1..Len(Publications)
    BY <1>0
  <2> DEFINE s == Items(n, l)  m == reads[r].next
  <2>5. /\ s \in Seq({s[k] : k \in DOMAIN s}) /\ Len(s) \in Nat /\ m \in 0..Len(s) /\ DOMAIN s = 1..Len(s)
        /\ \A a, b \in 1..Len(s) : a # b => s[a].id # s[b].id
    BY <2>1, <2>3, <2>4, StoredItems, IdsApart
  <2>6. DOMAIN got = 1..m /\ \A a \in 1..m : got[a] = s[a]
    <3>1. \A a \in 1..m : s[a] \in {s[k] : k \in DOMAIN s}
      BY <2>5
    <3>2. got = SubSeq(s, 1, m)
      BY <2>3
    <3> HIDE DEF s, m, got
    <3>3. got \in Seq({s[k] : k \in DOMAIN s}) /\ Len(got) = m - 1 + 1 /\ \A a \in 1..m - 1 + 1 : got[a] = s[1 + a - 1]
      BY <2>5, <3>1, <3>2, SubSeqProperties
    <3> QED BY <2>5, <3>3
  <2> HIDE DEF s, m
  <2>7. i \in 1..Len(s) /\ j \in 1..Len(s) /\ got[i] = s[i] /\ got[j] = s[j]
    BY <2>5, <2>6
  <2> QED BY <2>5, <2>7
<1>3. IconsAccounted
  BY <1>0 DEF CacheWithin, CacheSound, OrderOf, IconsAccounted
<1> QED BY <1>0, <1>1, <1>2, <1>3 DEF CatalogWhole

(* A catalog joined from pages is one the Store published, whole and in order and each      *)
(* Assistant shown once, the Store is asked only while the locale's snapshot is stale and   *)
(* by one read at a time, and the icon cache is within its bounds and counts what it keeps  *)
(* (chat/catalog/store.rs, catalog_page of chat/assets.rs, catalogPages of api.js).         *)
THEOREM CatalogAlwaysWhole == CatalogSpec => []CatalogWhole
<1>1. CatalogInit => CatalogInv
  BY CatalogStarts, CatalogAssumption
<1>2. CatalogInv /\ [CatalogNext]_catalogVars => CatalogInv'
  BY CatalogStep, CatalogAssumption
<1>3. CatalogInv => CatalogWhole
  BY WholeCatalog, CatalogAssumption
<1> QED BY <1>1, <1>2, <1>3, PTL DEF CatalogSpec
=============================================================================
