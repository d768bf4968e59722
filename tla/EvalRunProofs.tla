---------------------------- MODULE EvalRunProofs ----------------------------
(* Proofs about EvalRun and Results, for any questions, defects, selections,
   tags and number of calls, and then about Grade, for any results and number
   of significant digits. *)
EXTENDS Results, Grade, FiniteSetTheorems, WellFoundedInduction, TLAPS

Whole(name) == files[name] \notin {NoFile, Broken}

(* recs are records of the first questions of qs, with their defects. *)
RecordsOf(recs, qs) ==
  \A i \in 1..Len(recs) : recs[i].id = qs[i] /\ recs[i].tags = TagsOf[qs[i]]

(* The call under way has records of a prefix of what it asks. *)
CallInv ==
  /\ run \in Nat /\ asked \in Seq(DOMAIN TagsOf) /\ records \in Seq(Record)
  /\ status # "idle" =>
       asked \in Selections /\ Len(records) <= Len(asked) /\ RecordsOf(records, asked)
  /\ status = "answering" => Len(records) < Len(asked)
  /\ status = "writing" => Len(records) = Len(asked)

(* A file that parses is of one call up to this one, complete, with its sums. *)
WholeFile(f) ==
  /\ f.run \in Nat /\ f.run <= run /\ f.records \in Seq(Record)
  /\ f.summary = Summarize(f.records)
  /\ \E s \in Selections : Len(f.records) = Len(s) /\ RecordsOf(f.records, s)

(* That of the call under way is of what it asks. *)
OfThisCall(f) ==
  status # "idle" /\ f.run = run =>
    Len(f.records) = Len(asked) /\ RecordsOf(f.records, asked)

SameQuestionsIn(f, g) ==
  /\ Len(f.records) = Len(g.records)
  /\ \A i \in 1..Len(f.records) : /\ f.records[i].id = g.records[i].id
                                  /\ f.records[i].tags = g.records[i].tags

FileInv ==
  /\ DOMAIN files = Names
  /\ \A name \in Names : Whole(name) => WholeFile(files[name]) /\ OfThisCall(files[name])
  /\ \A a, b \in Names : Whole(a) /\ Whole(b) /\ files[a].run = files[b].run
       => SameQuestionsIn(files[a], files[b])

EvalInv == CallInv /\ FileInv

-----------------------------------------------------------------------------
LEMMA InitKeepsEval == InitEval => EvalInv
<1> SUFFICES ASSUME InitEval PROVE EvalInv
  OBVIOUS
<1>1. <<>> \in Seq(Record) /\ <<>> \in Seq(DOMAIN TagsOf)
  OBVIOUS
<1>2. CallInv
  BY <1>1 DEF InitEval, CallInv
<1>3. FileInv
  BY DEF InitEval, FileInv, Whole
<1>4. QED
  BY <1>2, <1>3 DEF EvalInv

(* Another record leaves a prefix of what is asked. *)
LEMMA AnotherRecord ==
  ASSUME EvalInv, status # "idle", Len(records) < Len(asked),
         NEW rec, rec.id = Question, rec.tags = TagsOf[Question], rec \in Record,
         records' = Append(records, rec), UNCHANGED <<run, asked, files>>, status' = "asking"
  PROVE  EvalInv'
<1>1. /\ records' \in Seq(Record) /\ Len(records') = Len(records) + 1
      /\ records'[Len(records) + 1] = rec
      /\ \A i \in 1..Len(records) : records'[i] = records[i]
  BY DEF EvalInv, CallInv
<1>2. \A i \in 1..Len(records') : i \in 1..Len(records) \/ i = Len(records) + 1
  BY <1>1 DEF EvalInv, CallInv
<1>3. RecordsOf(records', asked')
  BY <1>1, <1>2 DEF EvalInv, CallInv, RecordsOf, Question
<1>4. Len(records') <= Len(asked')
  BY <1>1 DEF EvalInv, CallInv
<1>5. CallInv'
  BY <1>1, <1>3, <1>4 DEF EvalInv, CallInv
<1>6. FileInv'
  BY DEF EvalInv, FileInv, Whole, WholeFile, OfThisCall, SameQuestionsIn
<1>7. QED
  BY <1>5, <1>6 DEF EvalInv

(* A call that ends, or is about to answer or to leave, keeps the files. *)
LEMMA StepEval == EvalInv /\ [Evaluate]_eval => EvalInv'
<1> SUFFICES ASSUME EvalInv, [Evaluate]_eval PROVE EvalInv'
  OBVIOUS
<1>1. CASE UNCHANGED eval
  BY <1>1 DEF eval, EvalInv, CallInv, FileInv, Whole, WholeFile, OfThisCall, SameQuestionsIn
<1>2. CASE Start
  <2>1. asked' \in Seq(DOMAIN TagsOf) /\ records' = <<>> /\ run' = run + 1
    BY <1>2, EvalAssumption DEF Start, EvalAssumption
  <2>2. CallInv'
    BY <1>2, <2>1 DEF Start, EvalInv, CallInv, RecordsOf
  <2>3. ASSUME NEW name \in Names, Whole(name)'
        PROVE  (WholeFile(files[name]) /\ OfThisCall(files[name]))'
    BY <1>2, <2>1, <2>3 DEF Start, EvalInv, CallInv, FileInv, Whole, WholeFile, OfThisCall
  <2>4. FileInv'
    BY <1>2, <2>3 DEF Start, EvalInv, FileInv, Whole, SameQuestionsIn
  <2>5. QED
    BY <2>2, <2>4 DEF EvalInv
<1>3. ASSUME status # "idle", Len(records) < Len(asked)
      PROVE  Question \in DOMAIN TagsOf /\ TagsOf[Question] \in SUBSET Tags
  <2>1. Len(records) + 1 \in 1..Len(asked) /\ asked \in Seq(DOMAIN TagsOf)
    BY <1>3 DEF EvalInv, CallInv
  <2>2. Question \in DOMAIN TagsOf
    BY <2>1 DEF Question
  <2>3. QED
    BY <2>2, EvalAssumption DEF EvalAssumption
<1>4. CASE GoldQueryFails
  <2>1. Question \in DOMAIN TagsOf /\ TagsOf[Question] \in SUBSET Tags
    BY <1>3, <1>4 DEF GoldQueryFails, Asking
  <2>2. GoldFailed(Question) \in Record
    BY <2>1 DEF GoldFailed, Record
  <2>3. QED
    BY <1>4, <2>2, AnotherRecord DEF GoldQueryFails, Asking, GoldFailed
<1>5. CASE GoldQuery
  BY <1>5 DEF GoldQuery, Asking, EvalInv, CallInv, FileInv, Whole, WholeFile, OfThisCall,
              SameQuestionsIn
<1>6. CASE ArmAnswers
  <2>1. PICK res : records' = Append(records, Graded(Question, res))
    BY <1>6 DEF ArmAnswers
  <2>2. status # "idle" /\ Len(records) < Len(asked)
    BY <1>6 DEF ArmAnswers, EvalInv, CallInv
  <2>3. Question \in DOMAIN TagsOf /\ TagsOf[Question] \in SUBSET Tags
    BY <1>3, <2>2
  <2>4. Graded(Question, res) \in Record
    BY <2>3 DEF Graded, Correct, Record
  <2>5. Graded(Question, res).id = Question /\ Graded(Question, res).tags = TagsOf[Question]
    BY DEF Graded
  <2>6. status' = "asking" /\ UNCHANGED <<run, asked, files>>
    BY <1>6 DEF ArmAnswers
  <2>7. QED
    BY <2>1, <2>2, <2>4, <2>5, <2>6, AnotherRecord
<1>7. ASSUME Over, UNCHANGED <<run, asked, files>> PROVE EvalInv'
  <2>1. records' \in Seq(Record)
    BY <1>7 DEF Over
  <2>2. CallInv'
    BY <1>7, <2>1 DEF Over, EvalInv, CallInv
  <2>3. FileInv'
    BY <1>7 DEF Over, EvalInv, FileInv, Whole, WholeFile, OfThisCall, SameQuestionsIn
  <2>4. QED
    BY <2>2, <2>3 DEF EvalInv
<1>8. CASE ArmRaises
  BY <1>7, <1>8 DEF ArmRaises
<1>9. CASE OpenFile
  <2>1. CallInv'
    BY <1>9 DEF OpenFile, EvalInv, CallInv
  <2>2. FileInv'
    BY <1>9 DEF OpenFile, EvalInv, FileInv, Whole, WholeFile, OfThisCall, SameQuestionsIn
  <2>3. QED
    BY <2>1, <2>2 DEF EvalInv
<1>10. CASE WriteArm
  <2>1. PICK new : new = [run |-> run, records |-> records, summary |-> Summarize(records)]
    OBVIOUS
  <2>2. /\ status = "writing" /\ status' = "asking" /\ UNCHANGED <<run, asked>>
        /\ files' = [files EXCEPT ![<<Head(plan), suffix>>] = new] /\ records' = <<>>
    BY <1>10, <2>1 DEF WriteArm
  <2>3. CallInv'
    <3>1. records' \in Seq(Record)
      BY <2>2
    <3>2. QED
      BY <2>2, <3>1 DEF EvalInv, CallInv, RecordsOf
  <2>4. /\ DOMAIN files' = Names
        /\ \A name \in Names : files'[name] = files[name] \/ files'[name] = new
    BY <2>2 DEF EvalInv, FileInv
  <2>5. /\ new.run = run /\ new.records = records /\ new.summary = Summarize(records)
        /\ run \in Nat /\ records \in Seq(Record)
        /\ asked \in Selections /\ Len(records) = Len(asked) /\ RecordsOf(records, asked)
    BY <2>1, <2>2 DEF EvalInv, CallInv
  <2>6. WholeFile(new)' /\ OfThisCall(new)'
    <3>1. RecordsOf(new.records, asked)'
      BY <2>2, <2>5 DEF RecordsOf
    <3>2. QED
      BY <2>2, <2>5, <3>1 DEF WholeFile, OfThisCall
  <2>7. ASSUME NEW name \in Names, Whole(name)'
        PROVE  (WholeFile(files[name]) /\ OfThisCall(files[name]))'
    <3>1. CASE files'[name] = new
      BY <2>6, <3>1
    <3>2. CASE files'[name] = files[name]
      BY <2>2, <2>7, <3>2 DEF EvalInv, FileInv, Whole, WholeFile, OfThisCall
    <3>3. QED
      BY <2>4, <3>1, <3>2
  <2>8. ASSUME NEW a \in Names, NEW b \in Names, Whole(a)', Whole(b)',
               files'[a].run = files'[b].run
        PROVE  SameQuestionsIn(files[a], files[b])'
    <3>1. CASE files'[a].run = run
      BY <2>2, <2>7, <2>8, <3>1 DEF OfThisCall, RecordsOf, SameQuestionsIn
    <3>2. CASE files'[a].run # run
      <4>1. files'[a] = files[a] /\ files'[b] = files[b]
        BY <2>4, <2>5, <2>8, <3>2
      <4>2. QED
        BY <2>8, <4>1 DEF EvalInv, FileInv, Whole, SameQuestionsIn
    <3>3. QED
      BY <3>1, <3>2
  <2>9. FileInv'
    BY <2>4, <2>7, <2>8 DEF FileInv
  <2>10. QED
    BY <2>3, <2>9 DEF EvalInv
<1>11. CASE Dies
  BY <1>7, <1>11 DEF Dies
<1>12. CASE Exit
  BY <1>7, <1>12 DEF Exit
<1>13. QED
  BY <1>1, <1>2, <1>4, <1>5, <1>6, <1>8, <1>9, <1>10, <1>11, <1>12 DEF Evaluate

(* Only an evaluation touches what EvalInv is about. *)
LEMMA StepKeepsEval == EvalInv /\ [Next]_<<eval, results>> => EvalInv'
  BY StepEval DEF Next, Evaluating, Bake, Check, Report, results

-----------------------------------------------------------------------------
(* Each file eval/out holds has one record per question of the selection it was
   written for, in order, whatever failed and however often main was called. *)
THEOREM RecordPerQuestion == Spec => []OneRecordPerQuestion
<1>1. Init => EvalInv
  BY InitKeepsEval DEF Init
<1>2. EvalInv /\ [Next]_<<eval, results>> => EvalInv'
  BY StepKeepsEval
<1>3. EvalInv => OneRecordPerQuestion
  <2> SUFFICES ASSUME EvalInv, NEW name \in Written
               PROVE  \E s \in Selections : /\ Len(files[name].records) = Len(s)
                                            /\ \A i \in DOMAIN s : files[name].records[i].id = s[i]
    BY DEF OneRecordPerQuestion
  <2>1. PICK s \in Selections : /\ Len(files[name].records) = Len(s)
                                /\ RecordsOf(files[name].records, s)
    BY DEF Written, EvalInv, FileInv, Whole, WholeFile
  <2>2. s \in Seq(DOMAIN TagsOf)
    BY EvalAssumption DEF EvalAssumption
  <2>3. DOMAIN s = 1..Len(files[name].records)
    BY <2>1, <2>2
  <2>4. QED
    BY <2>1, <2>3 DEF RecordsOf
<1>4. QED
  BY <1>1, <1>2, <1>3, PTL DEF Spec

-----------------------------------------------------------------------------
LEMMA StepKeepsPage ==
  EvalInv /\ PageIsEarned /\ [Next]_<<eval, results>> => PageIsEarned'
<1> SUFFICES ASSUME EvalInv, PageIsEarned, [Next]_<<eval, results>>, page' # Unbaked
             PROVE  /\ \A name \in DOMAIN page' :
                         page'[name] # Broken /\ page'[name].summary = Summarize(page'[name].records)
                    /\ verdict' = "current" => \A name \in Written' :
                         /\ name \in DOMAIN page'
                         /\ page'[name].summary.correct = files'[name].summary.correct
                         /\ page'[name].summary.total = files'[name].summary.total
  BY DEF PageIsEarned
<1>1. CASE UNCHANGED <<eval, results>>
  BY <1>1 DEF eval, results, PageIsEarned, Written
<1>2. CASE Evaluating
  BY <1>2 DEF Evaluating, PageIsEarned, Written
<1>3. CASE Bake
  <2>1. DOMAIN page' = Runs /\ \A name \in Runs : page'[name] = files[name]
    BY <1>3 DEF Bake
  <2>2. \A name \in Runs : files[name] # Broken /\ files[name].summary = Summarize(files[name].records)
    BY DEF Runs, EvalInv, FileInv, Whole, WholeFile
  <2>3. QED
    BY <1>3, <2>1, <2>2 DEF Bake
<1>4. CASE Check
  <2>1. verdict' = "current" => StaleNames = {}
    BY <1>4 DEF Check
  <2>2. StaleNames = {} => \A name \in Runs :
          /\ name \in DOMAIN page
          /\ page[name].summary.correct = files[name].summary.correct
          /\ page[name].summary.total = files[name].summary.total
    BY DEF StaleNames
  <2>3. Written' = Runs
    BY <1>4 DEF Check, eval, Written, Runs
  <2>4. QED
    BY <1>4, <2>1, <2>2, <2>3 DEF Check, eval, PageIsEarned
<1>5. CASE Report
  BY <1>5 DEF Report, eval, PageIsEarned, Written
<1>6. QED
  BY <1>1, <1>2, <1>3, <1>4, <1>5 DEF Next

(* The published page holds whole arms with their own sums, however bakes fall
   among writers that die; found current, it has the score of every file. *)
THEOREM PageHoldsWholeArms == Spec => []PageIsEarned
<1>1. Init => EvalInv /\ PageIsEarned
  BY InitKeepsEval DEF Init, PageIsEarned
<1>2. EvalInv /\ PageIsEarned /\ [Next]_<<eval, results>> => (EvalInv /\ PageIsEarned)'
  BY StepKeepsEval, StepKeepsPage
<1>3. QED
  BY <1>1, <1>2, PTL DEF Spec

-----------------------------------------------------------------------------
(* How many questions have a defect is known from the questions. *)
LEMMA EqualSums ==
  ASSUME NEW f, NEW g, f.records \in Seq(Record), g.records \in Seq(Record), SameQuestionsIn(f, g)
  PROVE  /\ Summarize(f.records).n = Summarize(g.records).n
         /\ Summarize(f.records).total = Summarize(g.records).total
<1>1. \A t \in Tags : {i \in DOMAIN f.records : t \in f.records[i].tags}
                        = {i \in DOMAIN g.records : t \in g.records[i].tags}
  BY DEF SameQuestionsIn
<1>2. QED
  BY <1>1 DEF Summarize, SameQuestionsIn

LEMMA StepKeepsLifts == EvalInv /\ Comparable /\ [Next]_<<eval, results>> => Comparable'
<1> SUFFICES ASSUME EvalInv, Comparable, [Next]_<<eval, results>>, NEW row \in table'
             PROVE  /\ row.base.summary.n[row.tag] # 0 /\ row.harness.summary.n[row.tag] # 0
                    /\ row.base.run = row.harness.run =>
                         /\ row.base.summary.n = row.harness.summary.n
                         /\ row.base.summary.total = row.harness.summary.total
  BY DEF Comparable
<1>1. CASE row \in table
  BY <1>1 DEF Comparable
<1>2. CASE Report /\ row \notin table
  <2> DEFINE b == Load("baseline")  h == Load("harness")
  <2>1. b # Broken /\ h # Broken /\ b # NoFile /\ h # NoFile
    BY <1>2 DEF Report, Arms, NoLift
  <2>2. PICK t \in Lifted(b.summary, h.summary) : row = [tag |-> t, base |-> b, harness |-> h]
    BY <1>2, <2>1 DEF Report
  <2>3. b.summary.n[t] # 0 /\ h.summary.n[t] # 0
    BY <2>2 DEF Lifted
  <2>4. <<"baseline", "">> \in Names /\ <<"harness", "">> \in Names
    BY EvalAssumption DEF EvalAssumption, Names, Arms
  <2>5. WholeFile(b) /\ WholeFile(h) /\ (b.run = h.run => SameQuestionsIn(b, h))
    BY <2>1, <2>4 DEF EvalInv, FileInv, Whole, Load
  <2>6. b.run = h.run => b.summary.n = h.summary.n /\ b.summary.total = h.summary.total
    BY <2>5, EqualSums DEF WholeFile
  <2>7. row.base = b /\ row.harness = h /\ row.tag = t
    BY <2>2
  <2>8. QED
    BY <2>3, <2>6, <2>7
<1>3. QED
  BY <1>1, <1>2 DEF Next, Evaluating, Bake, Check, results

(* A lift of files one call wrote is over the same number of questions on both
   sides, in all and with the defect, though gold queries failed in one arm. *)
THEOREM LiftsCompareLike == Spec => []Comparable
<1>1. Init => EvalInv /\ Comparable
  BY InitKeepsEval DEF Init, Comparable, NoLift
<1>2. EvalInv /\ Comparable /\ [Next]_<<eval, results>> => (EvalInv /\ Comparable)'
  BY StepKeepsEval, StepKeepsLifts
<1>3. QED
  BY <1>1, <1>2, PTL DEF Spec

-----------------------------------------------------------------------------
(* Grading.  A set of numbers has a least one. *)
LEMMA NatMin == ASSUME NEW T, T \subseteq Nat, T # {} PROVE \E x \in T : \A y \in T : x <= y
<1> DEFINE U == {0..m : m \in T}
<1>1. U \subseteq FiniteSubsetsOf(Nat) /\ U # {}
  <2>1. \A m \in Nat : IsFiniteSet(0..m) /\ 0..m \subseteq Nat
    BY FS_Interval
  <2>2. QED
    BY <2>1 DEF FiniteSubsetsOf
<1>2. PICK S \in U : \A R \in U : <<R, S>> \notin StrictSubsetOrdering(Nat)
  <2> HIDE DEF U
  <2>1. QED
    BY <1>1, FS_StrictSubsetOrderingWellFounded, WFMin, Zenon
<1>3. PICK x \in T : S = 0..x
  OBVIOUS
<1>4. ASSUME NEW y \in T, y < x PROVE FALSE
  <2>1. 0..y \in U /\ 0..y \subseteq 0..x /\ x \in 0..x /\ x \notin 0..y
    BY <1>4
  <2>2. 0..y \in SUBSET Nat /\ 0..x \in SUBSET Nat
    BY <1>4
  <2>3. <<0..y, 0..x>> \in StrictSubsetOrdering(Nat)
    BY <2>1, <2>2 DEF StrictSubsetOrdering
  <2>4. QED
    BY <2>1, <2>3, <1>2, <1>3
<1>5. QED
  BY <1>4

-----------------------------------------------------------------------------
(* Bags of sequences. *)

Places(s, e) == {i \in DOMAIN s : s[i] = e}

LEMMA PlacesFinite ==
  ASSUME NEW s, NEW m \in Nat, DOMAIN s = 1..m, NEW e
  PROVE  IsFiniteSet(Places(s, e)) /\ Cardinality(Places(s, e)) \in Nat
<1>1. IsFiniteSet(1..m) /\ Places(s, e) \in SUBSET (1..m)
  BY FS_Interval DEF Places
<1>2. QED
  BY <1>1, FS_Subset, FS_CardinalityType

(* The places of s and t are paired one to one, equal with equal. *)
Paired(s, t) == \E h \in Bijection(DOMAIN s, DOMAIN t) : \A k \in DOMAIN s : s[k] = t[h[k]]

(* Two sequences have one bag exactly when their places can be paired one to
   one, equal with equal. *)
LEMMA BagsPair ==
  ASSUME NEW s, NEW t, NEW m \in Nat, NEW n \in Nat, DOMAIN s = 1..m, DOMAIN t = 1..n
  PROVE  BagOf(s) = BagOf(t) <=> Paired(s, t)
<1>1. ASSUME BagOf(s) = BagOf(t)
      PROVE  \E h \in Bijection(1..m, 1..n) : \A k \in 1..m : s[k] = t[h[k]]
  <2> DEFINE Pairs(e) == Bijection(Places(s, e), Places(t, e))
             h == [k \in 1..m |-> (CHOOSE b : b \in Pairs(s[k]))[k]]
  <2>1. \A j \in 1..n : \E k \in 1..m : t[j] = s[k]
    <3>1. DOMAIN BagOf(s) = {s[k] : k \in 1..m} /\ DOMAIN BagOf(t) = {t[j] : j \in 1..n}
      BY DEF BagOf
    <3>2. QED
      BY <1>1, <3>1
  <2>2. ASSUME NEW k \in 1..m PROVE \E b : b \in Pairs(s[k])
    <3>1. s[k] \in DOMAIN BagOf(s) /\ s[k] \in DOMAIN BagOf(t)
      BY <1>1 DEF BagOf
    <3>2. BagOf(s)[s[k]] = Cardinality(Places(s, s[k])) /\ BagOf(t)[s[k]] = Cardinality(Places(t, s[k]))
      BY <3>1 DEF BagOf, Places
    <3>3. ExistsBijection(Places(s, s[k]), Places(t, s[k]))
      BY <1>1, <3>2, PlacesFinite, FS_SameCardinalityBij
    <3>4. QED
      BY <3>3 DEF ExistsBijection
  <2> HIDE DEF Pairs
  <2>3. ASSUME NEW k \in 1..m PROVE \E b \in Pairs(s[k]) : b = (CHOOSE x : x \in Pairs(s[k]))
    BY <2>2
  <2>4. ASSUME NEW k \in 1..m PROVE h[k] \in 1..n /\ t[h[k]] = s[k]
    <3>1. PICK b \in Pairs(s[k]) : b = (CHOOSE x : x \in Pairs(s[k]))
      BY <2>3
    <3>2. h[k] = b[k]
      BY <3>1
    <3> HIDE DEF h
    <3>3. b \in [Places(s, s[k]) -> Places(t, s[k])] /\ k \in Places(s, s[k])
      BY DEF Pairs, Bijection, Injection, Surjection, Places
    <3>4. b[k] \in Places(t, s[k])
      BY <3>3
    <3>5. QED
      BY <3>2, <3>4 DEF Places
  <2>5. ASSUME NEW k \in 1..m, NEW l \in 1..m, h[k] = h[l] PROVE k = l
    <3>1. s[k] = s[l]
      <4> HIDE DEF h
      <4>1. QED
        BY <2>4, <2>5
    <3>2. PICK b \in Pairs(s[k]) : b = (CHOOSE x : x \in Pairs(s[k]))
      BY <2>3
    <3>3. h[k] = b[k] /\ h[l] = b[l]
      BY <3>1, <3>2
    <3> HIDE DEF h
    <3>4. k \in Places(s, s[k]) /\ l \in Places(s, s[k])
      BY <3>1 DEF Places
    <3>5. \A x, y \in Places(s, s[k]) : b[x] = b[y] => x = y
      BY DEF Pairs, Bijection, Injection, IsInjective
    <3>6. QED
      BY <2>5, <3>3, <3>4, <3>5
  <2>6. ASSUME NEW j \in 1..n PROVE \E k \in 1..m : h[k] = j
    <3>1. PICK l \in 1..m : t[j] = s[l]
      BY <2>1
    <3>2. PICK b \in Pairs(s[l]) : b = (CHOOSE x : x \in Pairs(s[l]))
      BY <2>3
    <3>3. j \in Places(t, s[l])
      BY <3>1 DEF Places
    <3>4. PICK k \in Places(s, s[l]) : b[k] = j
      BY <3>3 DEF Pairs, Bijection, Surjection
    <3>5. k \in 1..m /\ s[k] = s[l]
      BY DEF Places
    <3>6. h[k] = b[k]
      BY <3>2, <3>5
    <3> HIDE DEF h
    <3>7. QED
      BY <3>4, <3>5, <3>6
  <2>7. h \in [1..m -> 1..n]
    <3>1. h = [k \in 1..m |-> h[k]]
      OBVIOUS
    <3> HIDE DEF h
    <3>2. QED
      BY <2>4, <3>1
  <2> HIDE DEF h
  <2>8. h \in Bijection(1..m, 1..n)
    BY <2>5, <2>6, <2>7 DEF Bijection, Injection, Surjection, IsInjective
  <2>9. QED
    BY <2>4, <2>8
<1>2. ASSUME NEW h \in Bijection(1..m, 1..n), \A k \in 1..m : s[k] = t[h[k]]
      PROVE  BagOf(s) = BagOf(t)
  <2>1. h \in [1..m -> 1..n] /\ (\A x, y \in 1..m : h[x] = h[y] => x = y) /\ \A j \in 1..n : \E k \in 1..m : h[k] = j
    BY DEF Bijection, Injection, Surjection, IsInjective
  <2>2. {s[i] : i \in DOMAIN s} = {t[i] : i \in DOMAIN t}
    <3>1. \A i \in 1..m : h[i] \in 1..n /\ s[i] = t[h[i]]
      BY <1>2, <2>1
    <3>2. \A j \in 1..n : \E i \in 1..m : t[j] = s[i]
      BY <2>1, <3>1
    <3>3. \A e : (\E i \in 1..m : e = s[i]) <=> \E j \in 1..n : e = t[j]
      BY <3>1, <3>2
    <3>4. QED
      BY <3>3
  <2>3. ASSUME NEW e PROVE Cardinality(Places(s, e)) = Cardinality(Places(t, e))
    <3> DEFINE b == [k \in Places(s, e) |-> h[k]]
    <3>1. \A k \in Places(s, e) : b[k] = h[k] /\ h[k] \in Places(t, e) /\ k \in 1..m
      BY <1>2, <2>1 DEF Places
    <3>2. ASSUME NEW j \in Places(t, e) PROVE \E k \in Places(s, e) : h[k] = j
      <4>1. j \in 1..n /\ t[j] = e
        BY DEF Places
      <4>2. PICK k \in 1..m : h[k] = j
        BY <2>1, <4>1
      <4>3. s[k] = e
        BY <1>2, <4>1, <4>2
      <4>4. k \in Places(s, e)
        BY <4>3 DEF Places
      <4>5. QED
        BY <4>2, <4>4
    <3>3. b \in [Places(s, e) -> Places(t, e)] /\ DOMAIN b = Places(s, e)
      BY <3>1
    <3> HIDE DEF b
    <3>4. b \in Injection(Places(s, e), Places(t, e))
      BY <2>1, <3>1, <3>3 DEF Injection, IsInjective
    <3>5. b \in Surjection(Places(s, e), Places(t, e))
      BY <3>1, <3>2, <3>3 DEF Surjection
    <3>6. ExistsBijection(Places(s, e), Places(t, e))
      BY <3>4, <3>5 DEF ExistsBijection, Bijection
    <3>7. QED
      BY <3>6, PlacesFinite, FS_Bijection
  <2>4. QED
    BY <2>2, <2>3 DEF BagOf, Places
<1>3. QED
  BY <1>1, <1>2 DEF Paired

SameRow(r, q) ==
  \E h \in Bijection(DOMAIN r, DOMAIN q) : \A k \in DOMAIN r : Scalarize(r[k]) = Scalarize(q[h[k]])

(* Rows match exactly when they present the same values. *)
LEMMA RowMatches ==
  ASSUME NEW S, NEW g \in Seq(S), NEW c \in Seq(S)
  PROVE  NormalizeRow(g) = NormalizeRow(c) <=> SameRow(g, c)
<1> DEFINE x == [k \in DOMAIN g |-> Scalarize(g[k])]
           y == [k \in DOMAIN c |-> Scalarize(c[k])]
<1>1. PICK m \in Nat : DOMAIN g = 1..m
  OBVIOUS
<1>2. PICK n \in Nat : DOMAIN c = 1..n
  OBVIOUS
<1>3. DOMAIN x = 1..m /\ DOMAIN y = 1..n /\ (\A k \in 1..m : x[k] = Scalarize(g[k])) /\ \A k \in 1..n : y[k] = Scalarize(c[k])
  BY <1>1, <1>2
<1>4. NormalizeRow(g) = BagOf(x) /\ NormalizeRow(c) = BagOf(y)
  BY DEF NormalizeRow
<1> HIDE DEF x, y
<1>5. BagOf(x) = BagOf(y) <=> Paired(x, y)
  BY <1>3, BagsPair
<1>6. \A h \in Bijection(1..m, 1..n) : \A k \in 1..m : h[k] \in 1..n
  BY DEF Bijection, Injection
<1>7. Paired(x, y) <=> SameRow(g, c)
  BY <1>1, <1>2, <1>3, <1>6 DEF Paired, SameRow
<1>8. QED
  BY <1>4, <1>5, <1>7

LEMMA RowsMatch ==
  ASSUME NEW S, NEW g \in Seq(Seq(S)), NEW c \in Seq(Seq(S))
  PROVE  Matches(g, c) <=> PresentsSame(g, c)
<1> DEFINE x == [i \in DOMAIN g |-> NormalizeRow(g[i])]
           y == [i \in DOMAIN c |-> NormalizeRow(c[i])]
<1>1. PICK m \in Nat : DOMAIN g = 1..m
  OBVIOUS
<1>2. PICK n \in Nat : DOMAIN c = 1..n
  OBVIOUS
<1>3. DOMAIN x = 1..m /\ DOMAIN y = 1..n /\ (\A i \in 1..m : x[i] = NormalizeRow(g[i])) /\ \A i \in 1..n : y[i] = NormalizeRow(c[i])
  BY <1>1, <1>2
<1>4. Matches(g, c) <=> BagOf(x) = BagOf(y)
  BY DEF Matches, Normalize
<1> HIDE DEF x, y
<1>5. BagOf(x) = BagOf(y) <=> Paired(x, y)
  BY <1>3, BagsPair
<1>6. \A f \in Bijection(1..m, 1..n) : \A i \in 1..m : f[i] \in 1..n
  BY DEF Bijection, Injection
<1>7. \A i \in 1..m, j \in 1..n : NormalizeRow(g[i]) = NormalizeRow(c[j]) <=> SameRow(g[i], c[j])
  <2> SUFFICES ASSUME NEW i \in 1..m, NEW j \in 1..n PROVE NormalizeRow(g[i]) = NormalizeRow(c[j]) <=> SameRow(g[i], c[j])
    OBVIOUS
  <2>1. g[i] \in Seq(S) /\ c[j] \in Seq(S)
    BY <1>1, <1>2
  <2>2. QED
    BY <2>1, RowMatches
<1>8. PresentsSame(g, c) <=> \E f \in Bijection(1..m, 1..n) : \A i \in 1..m : SameRow(g[i], c[f[i]])
  BY <1>1, <1>2 DEF PresentsSame, SameRow
<1>9. \A f \in Bijection(1..m, 1..n) :
        (\A i \in 1..m : x[i] = y[f[i]]) <=> \A i \in 1..m : SameRow(g[i], c[f[i]])
  BY <1>3, <1>6, <1>7
<1>10. Paired(x, y) <=> \E f \in Bijection(1..m, 1..n) : \A i \in 1..m : x[i] = y[f[i]]
  BY <1>3 DEF Paired
<1>11. QED
  BY <1>4, <1>5, <1>8, <1>9, <1>10

-----------------------------------------------------------------------------
(* Numbers. *)

Powers(n, f) == f = [i \in 0..n |-> IF i = 0 THEN 1 ELSE 10 * f[i - 1]]

LEMMA PowByPowers ==
  ASSUME NEW n
  PROVE  Pow10(n) = (CHOOSE f : Powers(n, f))[n]
BY DEF Pow10, Powers

LEMMA PowersExist ==
  ASSUME NEW n \in Nat
  PROVE  \E f : Powers(n, f)
<1> DEFINE T == {m \in Nat : ~ \E f : Powers(m, f)}
<1>1. SUFFICES ASSUME T # {} PROVE FALSE
  OBVIOUS
<1>2. PICK m \in T : \A y \in T : m <= y
  <2> HIDE DEF T
  <2>1. T \subseteq Nat
    BY DEF T
  <2>2. QED
    BY <1>1, <2>1, NatMin
<1>3. m # 0
  <2> DEFINE zero == [i \in 0..0 |-> 1]
  <2>1. Powers(0, zero)
    BY DEF Powers
  <2>2. QED
    BY <2>1
<1>4. PICK f : Powers(m - 1, f)
  <2>1. m - 1 \in Nat /\ ~(m <= m - 1)
    BY <1>3
  <2>2. m - 1 \notin T
    BY <1>2, <2>1
  <2>3. QED
    BY <2>1, <2>2
<1> DEFINE more == [i \in 0..m |-> IF i = m THEN 10 * f[m - 1] ELSE f[i]]
<1>5. \A i \in 0..m : more[i] = IF i = 0 THEN 1 ELSE 10 * more[i - 1]
  <2> SUFFICES ASSUME NEW i \in 0..m
               PROVE  more[i] = IF i = 0 THEN 1 ELSE 10 * more[i - 1]
    OBVIOUS
  <2>1. CASE i = m
    <3>1. more[i - 1] = f[i - 1] /\ more[i] = 10 * f[m - 1] /\ i # 0
      BY <1>3, <2>1
    <3> HIDE DEF more
    <3>2. QED
      BY <2>1, <3>1
  <2>2. CASE i # m
    <3>1. i \in 0..m - 1 /\ more[i] = f[i] /\ (i # 0 => more[i - 1] = f[i - 1])
      BY <2>2
    <3>2. f[i] = IF i = 0 THEN 1 ELSE 10 * f[i - 1]
      BY <1>4, <3>1 DEF Powers
    <3> HIDE DEF more
    <3>3. QED
      BY <3>1, <3>2
  <2>3. QED
    BY <2>1, <2>2
<1>6. Powers(m, more)
  <2>1. more = [i \in 0..m |-> more[i]]
    OBVIOUS
  <2> HIDE DEF more
  <2>2. QED
    BY <1>5, <2>1 DEF Powers
<1>7. QED
  BY <1>6

LEMMA PowersAgree ==
  ASSUME NEW m \in Nat, NEW n \in Nat, m <= n, NEW f, Powers(m, f), NEW g, Powers(n, g)
  PROVE  f[m] = g[m]
<1> DEFINE T == {i \in Nat : i <= m /\ f[i] # g[i]}
<1>1. SUFFICES ASSUME T # {} PROVE FALSE
  OBVIOUS
<1>2. PICK k \in T : \A y \in T : k <= y
  <2> HIDE DEF T
  <2>1. T \subseteq Nat
    BY DEF T
  <2>2. QED
    BY <1>1, <2>1, NatMin
<1>3. k \in 0..m /\ k \in 0..n
  OBVIOUS
<1>4. k # 0
  BY <1>3 DEF Powers
<1>5. f[k - 1] = g[k - 1]
  <2>1. k - 1 \in Nat /\ k - 1 <= m /\ ~(k <= k - 1)
    BY <1>4
  <2>2. QED
    BY <1>2, <2>1
<1>6. f[k] = g[k]
  <2>1. f[k] = 10 * f[k - 1]
    BY <1>3, <1>4 DEF Powers
  <2>2. g[k] = 10 * g[k - 1]
    BY <1>3, <1>4 DEF Powers
  <2>3. QED
    BY <1>5, <2>1, <2>2
<1>7. QED
  BY <1>6

LEMMA PowZero == Pow10(0) = 1
<1>1. PICK f : f = CHOOSE a : Powers(0, a)
  OBVIOUS
<1>2. Powers(0, f)
  BY <1>1, PowersExist
<1>3. QED
  BY <1>1, <1>2, PowByPowers DEF Powers

LEMMA PowNext ==
  ASSUME NEW n \in Nat
  PROVE  Pow10(n + 1) = 10 * Pow10(n)
<1>0. n + 1 \in Nat
  OBVIOUS
<1>1. PICK f : f = CHOOSE a : Powers(n, a)
  OBVIOUS
<1>2. PICK g : g = CHOOSE a : Powers(n + 1, a)
  OBVIOUS
<1>3. Powers(n, f)
  BY <1>1, PowersExist
<1>4. Powers(n + 1, g)
  BY <1>0, <1>2, PowersExist
<1>5. f[n] = g[n]
  <2>1. n <= n + 1
    OBVIOUS
  <2>2. QED
    BY <1>0, <1>3, <1>4, <2>1, PowersAgree
<1>6. g[n + 1] = 10 * g[n]
  <2>1. n + 1 \in 0..n + 1 /\ n + 1 # 0 /\ (n + 1) - 1 = n
    OBVIOUS
  <2>2. g[n + 1] = 10 * g[(n + 1) - 1]
    BY <1>4, <2>1 DEF Powers
  <2>3. QED
    BY <2>1, <2>2
<1>7. QED
  BY <1>1, <1>2, <1>5, <1>6, PowByPowers

(* Induction over the numbers, for a set. *)
LEMMA NatGrows ==
  ASSUME NEW P, P \subseteq Nat, 0 \in P, \A n \in P : n + 1 \in P
  PROVE  P = Nat
<1> DEFINE T == {m \in Nat : m \notin P}
<1>1. SUFFICES ASSUME T # {} PROVE FALSE
  OBVIOUS
<1>2. PICK m \in T : \A y \in T : m <= y
  <2> HIDE DEF T
  <2>1. T \subseteq Nat
    BY DEF T
  <2>2. QED
    BY <1>1, <2>1, NatMin
<1>3. m - 1 \in Nat /\ ~(m <= m - 1) /\ m = (m - 1) + 1
  OBVIOUS
<1>4. m - 1 \in P
  BY <1>2, <1>3
<1>5. QED
  BY <1>3, <1>4

LEMMA PowBig ==
  ASSUME NEW n \in Nat
  PROVE  Pow10(n) \in Nat /\ Pow10(n) > n
<1> DEFINE P == {k \in Nat : Pow10(k) \in Nat /\ Pow10(k) > k}
<1>1. 0 \in P
  BY PowZero
<1>2. ASSUME NEW k \in P PROVE k + 1 \in P
  <2>1. k \in Nat /\ Pow10(k) \in Nat /\ Pow10(k) > k /\ k + 1 \in Nat
    OBVIOUS
  <2>2. PICK x \in Nat : x = Pow10(k)
    BY <2>1
  <2>3. Pow10(k + 1) = 10 * x
    BY <2>1, <2>2, PowNext
  <2>4. 10 * x \in Nat /\ 10 * x > k + 1
    BY <2>1, <2>2
  <2>5. QED
    BY <2>1, <2>3, <2>4
<1>3. P = Nat
  <2> HIDE DEF P
  <2>1. P \subseteq Nat
    BY DEF P
  <2>2. QED
    BY <1>1, <1>2, <2>1, NatGrows
<1>4. QED
  BY <1>3

LEMMA PowMono ==
  ASSUME NEW m \in Nat, NEW n \in Nat, m <= n
  PROVE  Pow10(m) <= Pow10(n)
<1> DEFINE P == {k \in Nat : Pow10(m) <= Pow10(m + k)}
<1>1. 0 \in P
  <2>1. m + 0 = m
    OBVIOUS
  <2>2. QED
    BY <2>1, PowBig
<1>2. ASSUME NEW k \in P PROVE k + 1 \in P
  <2>1. k \in Nat /\ m + k \in Nat /\ k + 1 \in Nat /\ m + (k + 1) = (m + k) + 1 /\ Pow10(m) <= Pow10(m + k)
    OBVIOUS
  <2>2. PICK x \in Nat : x = Pow10(m + k)
    BY <2>1, PowBig
  <2>3. PICK y \in Nat : y = Pow10(m)
    BY PowBig
  <2>4. Pow10(m + (k + 1)) = 10 * x
    BY <2>1, <2>2, PowNext
  <2>5. QED
    BY <2>1, <2>2, <2>3, <2>4
<1>3. P = Nat
  <2> HIDE DEF P
  <2>1. P \subseteq Nat
    BY DEF P
  <2>2. QED
    BY <1>1, <1>2, <2>1, NatGrows
<1>4. n - m \in Nat /\ m + (n - m) = n
  OBVIOUS
<1>5. n - m \in P
  BY <1>3, <1>4
<1>6. QED
  BY <1>4, <1>5

LEMMA DigitsOf ==
  ASSUME NEW x \in Nat, x > 0
  PROVE  /\ Digits(x) \in Nat /\ Digits(x) >= 1
         /\ Pow10(Digits(x) - 1) <= x /\ x < Pow10(Digits(x))
<1> DEFINE T == {d \in Nat : x < Pow10(d)}
<1>1. x \in T
  BY PowBig
<1>2. PICK d \in T : \A y \in T : d <= y
  <2> HIDE DEF T
  <2>1. T \subseteq Nat /\ T # {}
    BY <1>1 DEF T
  <2>2. QED
    BY <2>1, NatMin
<1>3. d <= x /\ d # 0
  BY <1>1, <1>2, PowZero
<1>4. d - 1 \in Nat /\ d - 1 \notin T
  BY <1>2, <1>3
<1>5. Pow10(d - 1) <= x
  BY <1>4, PowBig
<1>6. d \in 1..x /\ Pow10(d - 1) <= x /\ x < Pow10(d)
  BY <1>3, <1>5
<1>7. Digits(x) \in 1..x /\ Pow10(Digits(x) - 1) <= x /\ x < Pow10(Digits(x))
  BY <1>6 DEF Digits
<1>8. QED
  BY <1>7

LEMMA Division ==
  ASSUME NEW x \in Nat, NEW unit \in Nat, unit > 0
  PROVE  /\ x \div unit \in Nat /\ x % unit \in Nat
         /\ x = unit * (x \div unit) + (x % unit) /\ x % unit < unit
OBVIOUS

(* Rounding to a multiple moves a number by half a unit at most. *)
LEMMA RoundToClose ==
  ASSUME NEW x \in Nat, NEW unit \in Nat, unit > 0, unit <= x
  PROVE  /\ RoundTo(x, unit) \in Nat /\ RoundTo(x, unit) > 0
         /\ 2 * (x - RoundTo(x, unit)) <= unit /\ 2 * (RoundTo(x, unit) - x) <= unit
<1>1. PICK q \in Nat : q = x \div unit
  BY Division
<1>2. PICK r \in Nat : r = x % unit
  BY Division
<1>3. PICK u \in Nat : u = unit * q
  BY Division
<1>4. x = u + r /\ r < unit
  BY <1>1, <1>2, <1>3, Division
<1>5. q # 0
  BY <1>3, <1>4
<1>6. u > 0
  BY <1>3, <1>5
<1>7. unit * (q + 1) = u + unit
  BY <1>3
<1>8. RoundTo(x, unit) = IF 2 * r > unit \/ (2 * r = unit /\ q % 2 = 1) THEN u + unit ELSE u
  BY <1>1, <1>2, <1>3, <1>7 DEF RoundTo
<1>9. QED
  BY <1>4, <1>6, <1>8

(* A number longer than SigDigits is moved by half a unit of its last digit
   that counts, no other is. *)
LEMMA RoundSigClose ==
  ASSUME NEW x \in Nat, x > 0
  PROVE  /\ RoundSig(x) \in Nat /\ RoundSig(x) > 0
         /\ Digits(x) <= SigDigits => RoundSig(x) = x
         /\ Digits(x) > SigDigits =>
              LET unit == Pow10(Digits(x) - SigDigits) IN
                2 * (x - RoundSig(x)) <= unit /\ 2 * (RoundSig(x) - x) <= unit
<1>1. Digits(x) \in Nat /\ Digits(x) >= 1 /\ Pow10(Digits(x) - 1) <= x
  BY DigitsOf
<1>2. SigDigits \in Nat /\ SigDigits >= 1
  BY GradeAssumption
<1>3. CASE Digits(x) <= SigDigits
  <2>1. RoundSig(x) = x
    BY <1>3 DEF RoundSig
  <2>2. QED
    BY <1>1, <1>2, <1>3, <2>1
<1>4. CASE Digits(x) > SigDigits
  <2>1. PICK d \in Nat : d = Digits(x) - SigDigits
    BY <1>1, <1>2, <1>4
  <2>2. PICK e \in Nat : e = Digits(x) - 1
    BY <1>1
  <2>3. d <= e
    BY <1>1, <1>2, <2>1, <2>2
  <2>4. Pow10(d) <= Pow10(e) /\ Pow10(e) <= x
    BY <1>1, <2>2, <2>3, PowMono
  <2>5. PICK unit \in Nat : unit = Pow10(d) /\ unit > 0
    BY PowBig
  <2>6. unit <= x
    BY <2>4, <2>5, PowBig
  <2>7. RoundSig(x) = RoundTo(x, unit)
    BY <1>1, <1>2, <1>4, <2>1, <2>5 DEF RoundSig
  <2>8. QED
    BY <1>1, <1>2, <1>4, <2>1, <2>5, <2>6, <2>7, RoundToClose
<1>5. QED
  BY <1>1, <1>2, <1>3, <1>4

(* Two numbers that round to one are equal, or close at the longer one's scale. *)
LEMMA SameRounded ==
  ASSUME NEW g \in Nat, NEW c \in Nat, RoundSig(g) = RoundSig(c), g # c,
         NEW digits, digits = IF Digits(g) < Digits(c) THEN Digits(c) ELSE Digits(g)
  PROVE  digits > SigDigits /\ (IF g < c THEN c - g ELSE g - c) <= Pow10(digits - SigDigits)
<1>1. g > 0 /\ c > 0
  <2>1. RoundSig(0) = 0
    BY DEF RoundSig
  <2>2. \A x \in Nat : x > 0 => RoundSig(x) > 0
    BY RoundSigClose
  <2>3. QED
    BY <2>1, <2>2
<1>2. SigDigits \in Nat /\ Digits(g) \in Nat /\ Digits(c) \in Nat
  BY <1>1, DigitsOf, GradeAssumption
<1>3. PICK R \in Nat : R = RoundSig(g) /\ R = RoundSig(c)
  BY <1>1, RoundSigClose
<1>4. digits \in Nat /\ Digits(g) <= digits /\ Digits(c) <= digits
  BY <1>2
<1>5. digits > SigDigits
  <2>1. Digits(g) <= SigDigits => R = g
    BY <1>1, <1>3, RoundSigClose
  <2>2. Digits(c) <= SigDigits => R = c
    BY <1>1, <1>3, RoundSigClose
  <2>3. QED
    BY <1>2, <1>4, <2>1, <2>2
<1>6. PICK unit \in Nat : unit = Pow10(digits - SigDigits)
  BY <1>2, <1>4, <1>5, PowBig
<1>7. ASSUME NEW x \in {g, c} PROVE 2 * (x - R) <= unit /\ 2 * (R - x) <= unit
  <2>1. x \in Nat /\ x > 0 /\ R = RoundSig(x) /\ Digits(x) \in Nat /\ Digits(x) <= digits
    BY <1>1, <1>2, <1>3, <1>4
  <2>2. CASE Digits(x) <= SigDigits
    <3>1. R = x
      BY <2>1, <2>2, RoundSigClose
    <3>2. QED
      BY <3>1
  <2>3. CASE Digits(x) > SigDigits
    <3>1. PICK d \in Nat : d = Digits(x) - SigDigits
      BY <1>2, <2>1, <2>3
    <3>2. PICK e \in Nat : e = digits - SigDigits
      BY <1>2, <1>4, <1>5
    <3>3. d <= e
      BY <1>2, <1>4, <2>1, <3>1, <3>2
    <3>4. Pow10(d) <= Pow10(e) /\ Pow10(d) \in Nat
      BY <3>3, PowMono, PowBig
    <3>5. 2 * (x - R) <= Pow10(d) /\ 2 * (R - x) <= Pow10(d)
      BY <2>1, <2>3, <3>1, RoundSigClose
    <3>6. QED
      BY <1>6, <2>1, <3>2, <3>4, <3>5
  <2>4. QED
    BY <1>2, <2>1, <2>2, <2>3
<1>8. 2 * (g - R) <= unit /\ 2 * (R - g) <= unit /\ 2 * (c - R) <= unit /\ 2 * (R - c) <= unit
  BY <1>7
<1>9. (IF g < c THEN c - g ELSE g - c) <= unit
  BY <1>8
<1>10. QED
  BY <1>5, <1>6, <1>9

-----------------------------------------------------------------------------
(* A pair of results is graded once, on what it holds. *)
GradeInv ==
  /\ goldRows \in Seq(Seq(Nat \cup {Null})) /\ candRows \in Seq(Seq(Nat \cup {Null}))
  /\ graded \in {"correct", "wrong"} =>
       /\ graded = "correct" <=> candRows # <<>> /\ Matches(goldRows, candRows)
       /\ why = IF graded = "correct" THEN "none" ELSE Explain(goldRows, candRows)

LEMMA GradeKept == GradeSpec => []GradeInv
<1>1. InitGrade => GradeInv
  BY GradeAssumption DEF InitGrade, GradeInv
<1>2. GradeInv /\ [GradeRows]_grade => GradeInv'
  <2> SUFFICES ASSUME GradeInv, [GradeRows]_grade PROVE GradeInv'
    OBVIOUS
  <2>1. CASE GradeRows
    BY <2>1 DEF GradeInv, GradeRows
  <2>2. CASE UNCHANGED grade
    BY <2>2 DEF GradeInv, grade
  <2>3. QED
    BY <2>1, <2>2
<1>3. QED
  BY <1>1, <1>2, PTL DEF GradeSpec

LEMMA OneNumberMatch ==
  ASSUME NEW g \in Seq(Seq(Nat \cup {Null})), NEW c \in Seq(Seq(Nat \cup {Null})),
         PresentsSame(g, c), OneNumber(g), OneNumber(c)
  PROVE  g[1][1] \in Nat /\ c[1][1] \in Nat /\ RoundSig(g[1][1]) = RoundSig(c[1][1])
<1>1. DOMAIN g = {1} /\ DOMAIN c = {1} /\ DOMAIN g[1] = {1} /\ DOMAIN c[1] = {1}
  BY DEF OneNumber
<1>2. PICK f \in Bijection({1}, {1}) :
        \E h \in Bijection(DOMAIN g[1], DOMAIN c[f[1]]) : Scalarize(g[1][1]) = Scalarize(c[f[1]][h[1]])
  BY <1>1 DEF PresentsSame
<1>3. f[1] = 1
  BY DEF Bijection, Injection
<1>4. PICK h \in Bijection({1}, {1}) : Scalarize(g[1][1]) = Scalarize(c[1][h[1]])
  BY <1>1, <1>2, <1>3
<1>5. h[1] = 1
  BY DEF Bijection, Injection
<1>6. g[1] \in Seq(Nat \cup {Null}) /\ c[1] \in Seq(Nat \cup {Null})
  <2> DEFINE S == Seq(Nat \cup {Null})
  <2>1. g \in Seq(S) /\ c \in Seq(S)
    OBVIOUS
  <2> HIDE DEF S
  <2>2. g[1] \in S /\ c[1] \in S
    BY <1>1, <2>1
  <2>3. QED
    BY <2>2 DEF S
<1>7. g[1][1] \in Nat /\ c[1][1] \in Nat
  BY <1>1, <1>6 DEF OneNumber
<1>8. QED
  BY <1>4, <1>5, <1>7, GradeAssumption DEF Scalarize

(* Grading is strict on values and lenient on presentation, numbers of one
   length are never confused beyond the last digit that counts, and a wrong
   answer's text fits it: for any results and number of digits. *)
THEOREM GradingIsExact == GradeSpec => []GradesAreExact
<1>1. GradeInv => StrictOnValues
  BY RowsMatch DEF GradeInv, StrictOnValues
<1>2. GradeInv => CountsStayDistinct
  <2> SUFFICES ASSUME GradeInv, graded = "correct", OneNumber(goldRows), OneNumber(candRows)
               PROVE  LET g == goldRows[1][1]  c == candRows[1][1]
                          digits == IF Digits(g) < Digits(c) THEN Digits(c) ELSE Digits(g)
                      IN  g # c => /\ digits > SigDigits
                                   /\ (IF g < c THEN c - g ELSE g - c) <= Pow10(digits - SigDigits)
    BY DEF CountsStayDistinct
  <2>1. PresentsSame(goldRows, candRows)
    BY RowsMatch DEF GradeInv
  <2>2. PICK g \in Nat : g = goldRows[1][1] /\ RoundSig(g) = RoundSig(candRows[1][1])
    BY <2>1, OneNumberMatch DEF GradeInv
  <2>3. PICK c \in Nat : c = candRows[1][1]
    BY <2>1, OneNumberMatch DEF GradeInv
  <2>4. QED
    BY <2>2, <2>3, SameRounded
<1>3. GradeInv => ExplanationFits
  <2> SUFFICES ASSUME GradeInv, graded \in {"correct", "wrong"}
               PROVE  /\ graded = "correct" <=> why = "none"
                      /\ why = "match" => goldRows = <<>> /\ candRows = <<>>
                      /\ why = "row count" => Len(goldRows) # Len(candRows) /\ candRows # <<>>
                      /\ why = "no rows" => goldRows # <<>> /\ candRows = <<>>
    BY DEF ExplanationFits
  <2>1. why = IF graded = "correct" THEN "none" ELSE Explain(goldRows, candRows)
    BY DEF GradeInv
  <2>2. goldRows = candRows => Matches(goldRows, candRows)
    BY DEF Matches
  <2>3. Matches(goldRows, <<>>) => goldRows = <<>>
    <3>1. <<>> \in Seq(Seq(Nat \cup {Null}))
      OBVIOUS
    <3>2. Matches(goldRows, <<>>) => PresentsSame(goldRows, <<>>)
      BY <3>1, RowsMatch DEF GradeInv
    <3>3. PresentsSame(goldRows, <<>>) => DOMAIN goldRows = {}
      BY DEF PresentsSame, Bijection, Injection
    <3>4. QED
      BY <3>2, <3>3 DEF GradeInv
  <2>4. QED
    BY <2>1, <2>2, <2>3 DEF GradeInv, Explain
<1>4. QED
  BY <1>1, <1>2, <1>3, GradeKept, PTL DEF GradesAreExact
=============================================================================
