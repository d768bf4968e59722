-------------------------- MODULE DiscoveryProofs --------------------------
(***************************************************************************)
(* Proofs about Discovery for any proposals, history of the database,      *)
(* number of classes and budget of steps.  What makes a fresh artifact     *)
(* proved is that the database only moves on: a claim was proved at or     *)
(* after the version the artifact is bound to and at or before the live    *)
(* one, so that when the two are equal it was proved on that version.      *)
(***************************************************************************)
EXTENDS Discovery, SequenceTheorems, FiniteSetTheorems, TLAPS

LEMMA PositionsFinite == \A n \in Nat : IsFiniteSet(1..n)
  BY FS_Interval

USE DiscoveryAssumption, AnswersAssumption

(* The proof of a claim is of a shape that can fail. *)
CanFail(p) ==
  /\ p.sql = "select" /\ p.tables # {} /\ p.discriminates
  /\ p.columns = {} \/ p.columns \cap p.words # {}

(* A number its proof returned on a version between the one bound and the
   live one. *)
ProvedSince(p, evidence, at) ==
  /\ at \in Versions /\ bound <= at /\ at <= db
  /\ evidence = p.answer[at].value /\ evidence > 0

ClaimProved(c) ==
  c.status = "verified" => CanFail(c.proof) /\ ProvedSince(c.proof, c.evidence, c.at)

(* The claims kept, and the one being verified. *)
ProofInv ==
  /\ bound <= db
  /\ pc = "start" => claims = <<>>
  /\ \A i \in DOMAIN claims : ClaimProved(claims[i])
  /\ pc \in {"run", "flag"} => props # <<>> /\ CanFail(Head(props))
  /\ pc = "flag" => ProvedSince(Head(props), value.evidence, value.at)

(* What is flagged is a yes or a no. *)
LEMMA FlaggedType == \A p, counted : Flagged(p, counted) \in BOOLEAN
  BY DEF Flagged

(* A proposal that is settled leaves the types as they are. *)
LEMMA SettleType ==
  ASSUME TypeOK, props # <<>>, NEW status \in {"verified", "rejected"},
         NEW evidence \in Int, NEW at \in Versions, NEW flagged \in BOOLEAN,
         Settle(status, evidence, at, flagged)
  PROVE  /\ claims' \in Seq(Claim) /\ props' \in Seq(Proposals)
         /\ pc' = "settle" /\ value' = NoValue
<1> DEFINE c == [key |-> Head(props).key, proof |-> Head(props), status |-> status,
                 evidence |-> evidence, at |-> at, flagged |-> flagged]
<1>1. Head(props) \in Proposals /\ Tail(props) \in Seq(Proposals)
  BY DEF TypeOK
<1>2. c \in Claim
  BY <1>1 DEF Claim
<1>3. claims' = Append(claims, c) /\ props' = Tail(props) /\ pc' = "settle" /\ value' = NoValue
  BY DEF Settle
<1>4. claims' \in Seq(Claim)
  BY <1>2, <1>3 DEF TypeOK
<1> QED BY <1>1, <1>3, <1>4

(* The claims after a proposal was settled are proved if the new one is. *)
LEMMA SettleProved ==
  ASSUME TypeOK, ProofInv, props # <<>>, NEW status \in {"verified", "rejected"},
         NEW evidence, NEW at, NEW flagged, Settle(status, evidence, at, flagged),
         UNCHANGED <<db, bound>>,
         status = "verified" => CanFail(Head(props)) /\ ProvedSince(Head(props), evidence, at)
  PROVE  (\A i \in DOMAIN claims : ClaimProved(claims[i]))' /\ pc' = "settle"
<1> DEFINE c == [key |-> Head(props).key, proof |-> Head(props), status |-> status,
                 evidence |-> evidence, at |-> at, flagged |-> flagged]
<1>1. claims' = Append(claims, c) /\ claims \in Seq(Claim) /\ pc' = "settle"
  BY DEF Settle, TypeOK
<1>2. \A i \in DOMAIN claims' : claims'[i] = c \/ (i \in DOMAIN claims /\ claims'[i] = claims[i])
  BY <1>1
<1>3. ClaimProved(c)
  BY DEF ClaimProved
<1>4. \A x : ClaimProved(x) => ClaimProved(x)'
  BY DEF ClaimProved, ProvedSince
<1>5. ASSUME NEW i \in DOMAIN claims' PROVE ClaimProved(claims[i])'
  <2>1. CASE claims'[i] = c
    BY <2>1, <1>3 DEF ClaimProved, ProvedSince
  <2>2. CASE i \in DOMAIN claims /\ claims'[i] = claims[i]
    BY <2>2 DEF ProofInv, ClaimProved, ProvedSince
  <2> QED BY <1>2, <2>1, <2>2
<1> QED BY <1>1, <1>5

Counters == {"proposed", "verified", "rejected", "duplicate"}

(* Counting keeps the counters numbers. *)
LEMMA CountType ==
  ASSUME TypeOK, NEW k \in Counters
  PROVE  /\ [totals EXCEPT ![k] = @ + 1] \in [Counters -> Nat]
         /\ \A l \in Counters : Count(k, l) => totals' \in [Counters -> Nat]
<1>1. totals \in [Counters -> Nat]
  BY DEF TypeOK, Counters
<1>2. [totals EXCEPT ![k] = @ + 1] \in [Counters -> Nat]
  BY <1>1
<1>3. ASSUME NEW l \in Counters, Count(k, l) PROVE totals' \in [Counters -> Nat]
  <2>1. totals[k] + 1 \in Nat /\ totals[l] + 1 \in Nat
    BY <1>1, <1>3
  <2> QED BY <1>1, <1>3, <2>1 DEF Count
<1> QED BY <1>2, <1>3

(* The audit starts in its types. *)
LEMMA InitType == Init => TypeOK
<1> SUFFICES ASSUME Init PROVE TypeOK
  OBVIOUS
<1>1. props \in Seq(Proposals) /\ claims \in Seq(Claim)
  BY DEF Init
<1> QED BY <1>1 DEF Init, TypeOK, NoValue

(* No step of the audit leaves them; the version a proof ran on is known from
   ProofInv. *)
LEMMA StepKeepsType == TypeOK /\ ProofInv /\ [Next]_vars => TypeOK'
<1> SUFFICES ASSUME TypeOK, ProofInv, [Next]_vars PROVE TypeOK'
  OBVIOUS
<1>1. CASE Reseed
  BY <1>1 DEF Reseed, TypeOK, audit
<1>2. CASE Start
  BY <1>2 DEF Start, Bind, Taxonomy, TypeOK
<1>3. CASE Crash
  BY <1>3 DEF Crash, TypeOK, audit
<1>4. CASE Reply
  <2>1. PICK calls \in Recorded : props' = props \o calls
    BY <1>4 DEF Reply
  <2>2. calls \in Seq(Proposals)
    BY <2>1 DEF Recorded
  <2>3. props' \in Seq(Proposals)
    BY <2>1, <2>2 DEF TypeOK
  <2> QED BY <1>4, <2>3 DEF Reply, TypeOK
<1>5. CASE BadArguments \/ EndPass
  BY <1>5 DEF BadArguments, EndPass, TypeOK, audit
<1>6. CASE Duplicate
  <2>1. totals' \in [{"proposed", "verified", "rejected", "duplicate"} -> Nat]
    BY <1>6, CountType DEF Duplicate, Counters
  <2>2. props' \in Seq(Proposals)
    BY <1>6 DEF Duplicate, TypeOK
  <2> QED BY <1>6, <2>1, <2>2 DEF Duplicate, TypeOK, audit
<1>7. CASE CheckProof
  <2>0. props # <<>> /\ Head(props) \in Proposals
    BY <1>7 DEF CheckProof, TypeOK
  <2>1. seen' \subseteq {p.key : p \in Proposals}
    BY <1>7, <2>0 DEF CheckProof, TypeOK
  <2>a. totals' \in [{"proposed", "verified", "rejected", "duplicate"} -> Nat]
    BY <1>7, CountType DEF CheckProof, Counters
  <2>2. CASE Plausible(Head(props))
    BY <1>7, <2>1, <2>a, <2>2 DEF CheckProof, TypeOK, audit
  <2>3. CASE ~Plausible(Head(props))
    <3>1. Settle("rejected", 0, db, FALSE)
      BY <1>7, <2>3 DEF CheckProof
    <3>2. db \in Versions /\ 0 \in Int /\ "rejected" \in {"verified", "rejected"}
      BY DEF TypeOK
    <3>3. claims' \in Seq(Claim) /\ props' \in Seq(Proposals) /\ pc' = "settle" /\ value' = NoValue
      BY <2>0, <3>1, <3>2, SettleType, Zenon
    <3>4. UNCHANGED <<db, class, step, bound>>
      BY <1>7 DEF CheckProof, audit
    <3> QED BY <2>1, <2>a, <3>3, <3>4 DEF TypeOK, NoValue
  <2> QED BY <2>2, <2>3
<1>8. CASE RunProof
  <2>1. props # <<>> /\ Head(props) \in Proposals
    BY <1>8 DEF RunProof, ProofInv, TypeOK
  <2>2. CASE Settle("rejected", 0, db, FALSE) /\ totals' = [totals EXCEPT !.rejected = @ + 1]
    <3>0. db \in Versions /\ 0 \in Int /\ "rejected" \in {"verified", "rejected"}
      BY DEF TypeOK
    <3>1. claims' \in Seq(Claim) /\ props' \in Seq(Proposals) /\ pc' = "settle" /\ value' = NoValue
      BY <2>1, <2>2, <3>0, SettleType, Zenon
    <3>2. totals' \in [{"proposed", "verified", "rejected", "duplicate"} -> Nat]
      BY <2>2, CountType DEF Counters
    <3> QED BY <1>8, <2>2, <3>1, <3>2 DEF RunProof, TypeOK, NoValue, audit
  <2>3. CASE pc' = "flag" /\ value' = [evidence |-> Head(props).answer[db].value, at |-> db]
             /\ UNCHANGED <<props, claims, totals>>
    <3>1. value' \in [evidence : Int, at : Versions \cup {0}]
      BY <2>1, <2>3 DEF TypeOK
    <3> QED BY <1>8, <2>3, <3>1 DEF RunProof, TypeOK, audit
  <2> QED BY <1>8, <2>2, <2>3 DEF RunProof
<1>9. CASE FlagProof
  <2>1. props # <<>> /\ value.evidence \in Int /\ value.at \in Versions
    BY <1>9 DEF FlagProof, ProofInv, ProvedSince, TypeOK
  <2>2. PICK counted : Settle("verified", value.evidence, value.at, Flagged(Head(props), counted))
    BY <1>9 DEF FlagProof
  <2>3. claims' \in Seq(Claim) /\ props' \in Seq(Proposals) /\ pc' = "settle" /\ value' = NoValue
    BY <2>1, <2>2, FlaggedType, SettleType
  <2>4. totals' \in [{"proposed", "verified", "rejected", "duplicate"} -> Nat]
    BY <1>9, CountType DEF FlagProof, Counters
  <2> QED BY <1>9, <2>3, <2>4 DEF FlagProof, TypeOK, NoValue, audit
<1>10. CASE NextClass
  BY <1>10 DEF NextClass, Taxonomy, TypeOK
<1>11. CASE UNCHANGED vars
  BY <1>11 DEF vars, TypeOK
<1> QED BY <1>1, <1>2, <1>3, <1>4, <1>5, <1>6, <1>7, <1>8, <1>9, <1>10, <1>11
        DEF Next, Discover

(* A proposal that is proved there and then is one that can fail. *)
LEMMA PlausibleCanFail == \A p : Plausible(p) => CanFail(p)
  BY DEF Plausible, CanFail, ReadOnly, TouchesTable, Discriminates, AboutItsColumns

(* The audit starts with nothing proved. *)
LEMMA InitProof == Init => ProofInv
<1> SUFFICES ASSUME Init PROVE ProofInv
  OBVIOUS
<1>1. DOMAIN claims = {} /\ bound <= db
  BY DEF Init
<1> QED BY <1>1 DEF Init, ProofInv

(* What was proved stays proved: no step moves the version bound but the
   first, when there is no claim, and the database only moves on. *)
LEMMA StepKeepsProof == TypeOK /\ ProofInv /\ [Next]_vars => ProofInv'
<1> SUFFICES ASSUME TypeOK, ProofInv, [Next]_vars PROVE ProofInv'
  OBVIOUS
<1>0. db \in Int /\ bound \in Int
  BY DEF TypeOK
<1>1. CASE Reseed
  <2>1. db' = db + 1 /\ UNCHANGED <<pc, bound, props, claims, value>>
    BY <1>1 DEF Reseed, audit
  <2>2. \A p, e, at : ProvedSince(p, e, at) => ProvedSince(p, e, at)'
    BY <1>0, <2>1 DEF ProvedSince
  <2>3. \A i \in DOMAIN claims : ClaimProved(claims[i])'
    BY <2>1, <2>2 DEF ProofInv, ClaimProved
  <2> QED BY <1>0, <2>1, <2>2, <2>3 DEF ProofInv
<1>2. CASE Start
  <2>1. pc' \in {"done", "audit"} /\ bound' = db /\ db' = db /\ claims' = <<>>
    BY <1>2 DEF Start, Bind, ProofInv
  <2>2. DOMAIN claims' = {}
    BY <2>1
  <2> QED BY <1>0, <2>1, <2>2 DEF ProofInv
<1>3. CASE Crash \/ BadArguments \/ EndPass
  <2>1. UNCHANGED <<db, bound, claims>> /\ pc' \in {"crashed", "settle"}
    BY <1>3 DEF Crash, BadArguments, EndPass, audit
  <2> QED BY <2>1 DEF ProofInv, ClaimProved, ProvedSince
<1>4. CASE Reply \/ Duplicate \/ NextClass
  <2>1. UNCHANGED <<db, bound, claims>> /\ pc' \in {"audit", "settle", "done"}
    BY <1>4 DEF Reply, Duplicate, NextClass, audit
  <2> QED BY <2>1 DEF ProofInv, ClaimProved, ProvedSince
<1>5. CASE CheckProof
  <2>1. props # <<>> /\ UNCHANGED <<db, bound>>
    BY <1>5 DEF CheckProof, audit
  <2>2. CASE Plausible(Head(props)) /\ pc' = "run" /\ UNCHANGED <<props, claims, value>>
    BY <2>1, <2>2, PlausibleCanFail DEF ProofInv, ClaimProved, ProvedSince, CanFail
  <2>3. CASE Settle("rejected", 0, db, FALSE)
    <3>1. (\A i \in DOMAIN claims : ClaimProved(claims[i]))' /\ pc' = "settle"
      BY <2>1, <2>3, SettleProved
    <3> QED BY <2>1, <3>1 DEF ProofInv
  <2> QED BY <1>5, <2>2, <2>3 DEF CheckProof
<1>6. CASE RunProof
  <2>1. props # <<>> /\ CanFail(Head(props)) /\ UNCHANGED <<db, bound>>
    BY <1>6 DEF RunProof, ProofInv, audit
  <2>2. CASE Settle("rejected", 0, db, FALSE)
    <3>1. (\A i \in DOMAIN claims : ClaimProved(claims[i]))' /\ pc' = "settle"
      BY <2>1, <2>2, SettleProved
    <3> QED BY <2>1, <3>1 DEF ProofInv
  <2>3. CASE /\ Proves(Head(props).answer[db]) /\ pc' = "flag"
             /\ value' = [evidence |-> Head(props).answer[db].value, at |-> db]
             /\ UNCHANGED <<props, claims>>
    <3>1. ProvedSince(Head(props), value.evidence, value.at)'
      BY <1>0, <2>1, <2>3 DEF ProvedSince, Proves, ProofInv, TypeOK
    <3> QED BY <2>1, <2>3, <3>1 DEF ProofInv, ClaimProved, ProvedSince, CanFail
  <2> QED BY <1>6, <2>2, <2>3 DEF RunProof
<1>7. CASE FlagProof
  <2>1. /\ props # <<>> /\ CanFail(Head(props)) /\ UNCHANGED <<db, bound>>
        /\ ProvedSince(Head(props), value.evidence, value.at)
    BY <1>7 DEF FlagProof, ProofInv, audit
  <2>2. PICK counted : Settle("verified", value.evidence, value.at, Flagged(Head(props), counted))
    BY <1>7 DEF FlagProof
  <2>3. (\A i \in DOMAIN claims : ClaimProved(claims[i]))' /\ pc' = "settle"
    BY <2>1, <2>2, SettleProved
  <2> QED BY <2>1, <2>3 DEF ProofInv
<1>8. CASE UNCHANGED vars
  BY <1>8 DEF vars, ProofInv, ClaimProved, ProvedSince, CanFail
<1> QED BY <1>1, <1>2, <1>3, <1>4, <1>5, <1>6, <1>7, <1>8 DEF Next, Discover

(* The types and what was proved hold together in every reachable state. *)
LEMMA AlwaysProved == Spec => [](TypeOK /\ ProofInv)
<1>1. Init => TypeOK /\ ProofInv
  BY InitType, InitProof
<1>2. TypeOK /\ ProofInv /\ [Next]_vars => TypeOK' /\ ProofInv'
  BY StepKeepsType, StepKeepsProof
<1> QED BY <1>1, <1>2, PTL DEF Spec

(* Every variable of the audit keeps its type, for any set of proposals. *)
THEOREM TypeCorrect == Spec => []TypeOK
  BY AlwaysProved, PTL

(* An artifact whose fingerprint is the live database's holds, for every claim
   it calls verified, the number its proof returns on that database, whatever
   was seeded while discover ran. *)
THEOREM FreshIsProved == Spec => []FreshMeansProved
<1>1. TypeOK /\ ProofInv => FreshMeansProved
  <2> SUFFICES ASSUME TypeOK, ProofInv, bound = db, NEW c \in Verified
               PROVE c.evidence = c.proof.answer[db].value /\ c.evidence > 0
    BY DEF FreshMeansProved
  <2>1. PICK i \in DOMAIN claims : c = claims[i] /\ c.status = "verified"
    BY DEF Verified
  <2>2. ProvedSince(c.proof, c.evidence, c.at)
    BY <2>1 DEF ProofInv, ClaimProved
  <2>3. c.at = db
    BY <2>2 DEF ProvedSince, TypeOK
  <2> QED BY <2>2, <2>3 DEF ProvedSince
<1> QED BY <1>1, AlwaysProved, PTL

(* No proof that verify_claim's checks should stop is behind a verified claim,
   for any set of proofs the model may write. *)
THEOREM SurvivorsChecked == Spec => []SurvivorsAreChecked
<1>1. ProofInv => SurvivorsAreChecked
  <2> SUFFICES ASSUME ProofInv, NEW c \in Verified PROVE CanFail(c.proof)
    BY DEF SurvivorsAreChecked, CanFail
  <2>1. PICK i \in DOMAIN claims : c = claims[i] /\ c.status = "verified"
    BY DEF Verified
  <2> QED BY <2>1 DEF ProofInv, ClaimProved
<1> QED BY <1>1, AlwaysProved, PTL

-----------------------------------------------------------------------------
(* The books.  What the counters say of the claims kept; while a proof runs its
   key is taken, it is proposed, and it is neither kept nor counted yet. *)
VerifiedAt == {i \in DOMAIN claims : claims[i].status = "verified"}

Balanced(under) == totals.proposed = totals.verified + totals.rejected + totals.duplicate + under

Kept ==
  /\ totals.verified + totals.rejected = Len(claims)
  /\ totals.verified = Cardinality(VerifiedAt)
  /\ \A i \in DOMAIN claims : claims[i].key \in seen
  /\ \A i, j \in DOMAIN claims : claims[i].key = claims[j].key => i = j

BooksInv ==
  /\ Kept
  /\ pc \in {"start", "audit", "settle", "done"} => Balanced(0)
  /\ pc \in {"run", "flag"} => /\ Balanced(1) /\ Head(props).key \in seen
                               /\ \A i \in DOMAIN claims : claims[i].key # Head(props).key

(* A proposal that is settled under a key nobody holds adds to the claims, and
   to the verified ones if it is. *)
LEMMA SettleKeeps ==
  ASSUME TypeOK, Kept, NEW status \in {"verified", "rejected"},
         NEW evidence, NEW at, NEW flagged, Settle(status, evidence, at, flagged),
         seen \subseteq seen', Head(props).key \in seen',
         \A i \in DOMAIN claims : claims[i].key # Head(props).key,
         totals'.verified = totals.verified + (IF status = "verified" THEN 1 ELSE 0),
         totals'.rejected = totals.rejected + (IF status = "verified" THEN 0 ELSE 1)
  PROVE  Kept' /\ pc' = "settle"
<1> DEFINE c == [key |-> Head(props).key, proof |-> Head(props), status |-> status,
                 evidence |-> evidence, at |-> at, flagged |-> flagged]
           n == Len(claims) + 1
<1>1. claims' = Append(claims, c) /\ claims \in Seq(Claim) /\ pc' = "settle"
  BY DEF Settle, TypeOK
<1>2. /\ Len(claims) \in Nat /\ Len(claims') = n /\ DOMAIN claims = 1..Len(claims)
      /\ DOMAIN claims' = 1..n /\ claims'[n] = c
      /\ \A i \in DOMAIN claims : claims'[i] = claims[i] /\ i # n
  BY <1>1
<1>3. c.key = Head(props).key /\ c.status = status
  OBVIOUS
<1> HIDE DEF c, n
<1>4. DOMAIN claims' = DOMAIN claims \cup {n} /\ n \notin DOMAIN claims
  BY <1>2 DEF n
<1>5. Cardinality(VerifiedAt)' = Cardinality(VerifiedAt) + (IF status = "verified" THEN 1 ELSE 0)
  <2>1. IsFiniteSet(VerifiedAt) /\ n \notin VerifiedAt
    <3>1. IsFiniteSet(1..Len(claims)) /\ VerifiedAt \subseteq 1..Len(claims)
      BY <1>2, PositionsFinite DEF VerifiedAt
    <3>2. QED
      BY <1>4, <3>1, FS_Subset DEF VerifiedAt
  <2>2. VerifiedAt' = IF status = "verified" THEN VerifiedAt \cup {n} ELSE VerifiedAt
    BY <1>2, <1>3, <1>4 DEF VerifiedAt
  <2>3. Cardinality(VerifiedAt) \in Nat /\ Cardinality(VerifiedAt \cup {n}) = Cardinality(VerifiedAt) + 1
    BY <2>1, FS_AddElement, FS_CardinalityType
  <2>4. QED
    BY <2>2, <2>3
<1>6. \A i \in DOMAIN claims' : claims'[i].key \in seen'
  BY <1>2, <1>3, <1>4 DEF Kept
<1>7. \A i, j \in DOMAIN claims' : claims'[i].key = claims'[j].key => i = j
  <2>1. \A i \in DOMAIN claims : claims'[i].key = claims[i].key /\ claims'[i].key # claims'[n].key
    BY <1>2, <1>3
  <2>2. \A i, j \in DOMAIN claims : claims[i].key = claims[j].key => i = j
    BY DEF Kept
  <2>3. QED
    BY <1>4, <2>1, <2>2
<1>8. totals.verified \in Nat /\ totals.rejected \in Nat
  BY DEF TypeOK
<1>9. totals'.verified + totals'.rejected = Len(claims')
  BY <1>2, <1>8 DEF Kept, n
<1>10. totals'.verified = Cardinality(VerifiedAt')
  BY <1>5 DEF Kept
<1>11. QED
  BY <1>1, <1>6, <1>7, <1>9, <1>10 DEF Kept

LEMMA InitBooks == Init => BooksInv
<1> SUFFICES ASSUME Init PROVE BooksInv
  OBVIOUS
<1>1. DOMAIN claims = {} /\ Len(claims) = 0 /\ VerifiedAt = {}
  BY DEF Init, VerifiedAt
<1>2. QED
  BY <1>1, FS_EmptySet DEF Init, BooksInv, Kept, Balanced

LEMMA StepKeepsBooks == TypeOK /\ ProofInv /\ BooksInv /\ [Next]_vars => BooksInv'
<1> SUFFICES ASSUME TypeOK, ProofInv, BooksInv, [Next]_vars PROVE BooksInv'
  OBVIOUS
<1>1. /\ totals \in [Counters -> Nat]
      /\ totals.proposed \in Nat /\ totals.verified \in Nat /\ totals.rejected \in Nat /\ totals.duplicate \in Nat
  BY DEF TypeOK, Counters
<1>2. UNCHANGED <<claims, seen, totals>> => Kept'
  BY DEF BooksInv, Kept, VerifiedAt
<1>3. CASE UNCHANGED vars \/ Reseed \/ Start \/ Crash \/ Reply \/ BadArguments \/ EndPass \/ NextClass
  <2>1. UNCHANGED <<claims, seen, totals>> /\ (pc' \in {"run", "flag"} => UNCHANGED <<pc, props>>)
    BY <1>3 DEF vars, Reseed, Start, Crash, Reply, BadArguments, EndPass, NextClass, audit
  <2>2. pc' \in {"start", "audit", "settle", "done"} => pc \in {"start", "audit", "settle", "done"}
    BY <1>3 DEF vars, Reseed, Start, Crash, Reply, BadArguments, EndPass, NextClass
  <2>3. QED
    BY <1>2, <2>1, <2>2 DEF BooksInv, Balanced
<1>4. CASE Duplicate
  <2>1. /\ totals'.verified = totals.verified /\ totals'.rejected = totals.rejected
        /\ totals'.proposed = totals.proposed + 1 /\ totals'.duplicate = totals.duplicate + 1
    BY <1>1, <1>4 DEF Duplicate, Count, Counters
  <2>2. pc = "settle" /\ pc' = pc /\ UNCHANGED <<claims, seen>>
    BY <1>4 DEF Duplicate
  <2>3. Kept'
    BY <2>1, <2>2 DEF BooksInv, Kept, VerifiedAt
  <2>4. QED
    BY <1>1, <2>1, <2>2, <2>3 DEF BooksInv, Balanced
<1>5. CASE CheckProof
  <2>1. /\ seen' = seen \cup {Head(props).key} /\ Balanced(0)
        /\ \A i \in DOMAIN claims : claims[i].key # Head(props).key
    BY <1>5 DEF CheckProof, BooksInv, Kept
  <2>2. CASE pc' = "run" /\ totals' = [totals EXCEPT !.proposed = @ + 1] /\ UNCHANGED <<props, claims, value>>
    BY <1>1, <2>1, <2>2 DEF BooksInv, Kept, VerifiedAt, Balanced, Counters
  <2>3. CASE Settle("rejected", 0, db, FALSE) /\ Count("proposed", "rejected")
    <3>1. /\ totals'.verified = totals.verified /\ totals'.rejected = totals.rejected + 1
          /\ totals'.proposed = totals.proposed + 1 /\ totals'.duplicate = totals.duplicate
      BY <1>1, <2>3 DEF Count, Counters
    <3>2. /\ totals'.verified = totals.verified + (IF "rejected" = "verified" THEN 1 ELSE 0)
          /\ totals'.rejected = totals.rejected + (IF "rejected" = "verified" THEN 0 ELSE 1)
      BY <1>1, <3>1
    <3>3. Kept /\ seen \subseteq seen' /\ Head(props).key \in seen'
      BY <2>1 DEF BooksInv
    <3>4. Kept' /\ pc' = "settle"
      BY <2>1, <2>3, <3>2, <3>3, SettleKeeps, Zenon
    <3>5. QED
      BY <1>1, <2>1, <3>1, <3>4 DEF BooksInv, Balanced
  <2>4. QED
    BY <1>5, <2>2, <2>3 DEF CheckProof
<1>6. CASE RunProof
  <2>1. /\ Balanced(1) /\ Head(props).key \in seen /\ seen' = seen
        /\ \A i \in DOMAIN claims : claims[i].key # Head(props).key
    BY <1>6 DEF RunProof, BooksInv
  <2>2. CASE pc' = "flag" /\ UNCHANGED <<props, claims, totals>>
    BY <1>2, <2>1, <2>2 DEF BooksInv, Balanced
  <2>3. CASE Settle("rejected", 0, db, FALSE) /\ totals' = [totals EXCEPT !.rejected = @ + 1]
    <3>1. /\ totals'.verified = totals.verified /\ totals'.rejected = totals.rejected + 1
          /\ totals'.proposed = totals.proposed /\ totals'.duplicate = totals.duplicate
      BY <1>1, <2>3 DEF Counters
    <3>2. /\ totals'.verified = totals.verified + (IF "rejected" = "verified" THEN 1 ELSE 0)
          /\ totals'.rejected = totals.rejected + (IF "rejected" = "verified" THEN 0 ELSE 1)
      BY <1>1, <3>1
    <3>3. Kept /\ seen \subseteq seen' /\ Head(props).key \in seen'
      BY <2>1 DEF BooksInv
    <3>4. Kept' /\ pc' = "settle"
      BY <2>1, <2>3, <3>2, <3>3, SettleKeeps, Zenon
    <3>5. QED
      BY <1>1, <2>1, <3>1, <3>4 DEF BooksInv, Balanced
  <2>4. QED
    BY <1>6, <2>2, <2>3 DEF RunProof
<1>7. CASE FlagProof
  <2>1. /\ Balanced(1) /\ Head(props).key \in seen /\ seen' = seen
        /\ \A i \in DOMAIN claims : claims[i].key # Head(props).key
    BY <1>7 DEF FlagProof, BooksInv
  <2>2. PICK counted : Settle("verified", value.evidence, value.at, Flagged(Head(props), counted))
    BY <1>7 DEF FlagProof
  <2>3. /\ totals'.verified = totals.verified + 1 /\ totals'.rejected = totals.rejected
        /\ totals'.proposed = totals.proposed /\ totals'.duplicate = totals.duplicate
    BY <1>1, <1>7 DEF FlagProof, Counters
  <2>4. Kept' /\ pc' = "settle"
    BY <1>1, <2>1, <2>2, <2>3, SettleKeeps DEF BooksInv
  <2>5. QED
    BY <1>1, <2>1, <2>3, <2>4 DEF BooksInv, Balanced
<1>8. QED
  BY <1>3, <1>4, <1>5, <1>6, <1>7 DEF Next, Discover

(* Whatever is proposed, reseeded or lost on the way, the counters printed
   beside the artifact add up to its claims, and no key is held twice. *)
THEOREM BooksAreBalanced == Spec => []BooksBalance
<1>1. TypeOK /\ BooksInv => BooksBalance
  <2> SUFFICES ASSUME TypeOK, BooksInv PROVE BooksBalance
    OBVIOUS
  <2>1. totals.verified \in Nat /\ totals.rejected \in Nat /\ totals.duplicate \in Nat
    BY DEF TypeOK
  <2>2. QED
    BY <2>1 DEF BooksInv, Kept, VerifiedAt, Balanced, BooksBalance
<1>2. Spec => []BooksInv
  BY InitBooks, StepKeepsBooks, AlwaysProved, PTL DEF Spec
<1>3. QED
  BY <1>1, <1>2, AlwaysProved, PTL
=============================================================================
