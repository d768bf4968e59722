--------------------------- MODULE SchemaCardProofs ---------------------------
(* Proofs about SchemaCard, for any threads, tables and reseeds. *)
EXTENDS SchemaCard, JoinGraph, FiniteSetTheorems, WellFoundedInduction, TLAPS

(* The types the proof needs: those of the getters. *)
GetterTypes ==
  /\ runner \subseteq Fields
  /\ builds \in [Fields -> Nat]
  /\ pc \in [Workers -> Places]
  /\ todo \in [Workers -> Seq(Fields)]

(* The lock is held by exactly the worker that builds, and what it builds is
   missing; what is there was built once, what is not there never. *)
LockInv ==
  \A w \in Workers :
    /\ pc[w] = "build" <=> lock = w
    /\ pc[w] = "build" => todo[w] # <<>> /\ Wants(w) \notin runner

CountInv == \A f \in Fields : builds[f] = (IF f \in runner THEN 1 ELSE 0)

GetterInv == GetterTypes /\ LockInv /\ CountInv

LEMMA InitGetters == Init => GetterInv
<1> SUFFICES ASSUME Init PROVE GetterInv
  OBVIOUS
<1>1. <<>> \in Seq(Fields)
  OBVIOUS
<1>2. GetterTypes
  <2>1. runner \subseteq Fields
    BY DEF Init
  <2>2. builds \in [Fields -> Nat]
    BY DEF Init
  <2>3. pc \in [Workers -> Places]
    BY DEF Init, Places
  <2>4. todo \in [Workers -> Seq(Fields)]
    BY <1>1 DEF Init
  <2>5. QED
    BY <2>1, <2>2, <2>3, <2>4 DEF GetterTypes
<1>3. LockInv
  BY CardAssumption DEF Init, LockInv, CardAssumption
<1>4. CountInv
  BY DEF Init, CountInv
<1>5. QED
  BY <1>2, <1>3, <1>4 DEF GetterInv

(* What leaves the lock, its fields and every getter alone. *)
LEMMA Elsewhere ==
  ASSUME GetterInv, NEW w \in Workers, pc[w] # "build", pc'[w] # "build",
         pc' \in [Workers -> Places], \A o \in Workers \ {w} : pc'[o] = pc[o],
         todo' = todo, UNCHANGED <<lock, runner, builds>>
  PROVE  GetterInv'
  BY DEF GetterInv, GetterTypes, LockInv, CountInv, Wants

LEMMA StepGetters == GetterInv /\ [Next]_vars => GetterInv'
<1> SUFFICES ASSUME GetterInv, [Next]_vars PROVE GetterInv'
  OBVIOUS
<1>1. CASE UNCHANGED vars
  BY <1>1 DEF vars, GetterInv, GetterTypes, LockInv, CountInv, Wants
<1>2. CASE Reseed
  BY <1>2 DEF Reseed, GetterInv, GetterTypes, LockInv, CountInv, Wants
<1>3. ASSUME NEW w \in Workers, Begin(w) PROVE GetterInv'
  <2>1. PICK ask \in Asks : todo' = [todo EXCEPT ![w] = <<"llm">> \o ask]
    BY <1>3 DEF Begin
  <2>2. <<"llm">> \o ask \in Seq(Fields)
    <3>1. \A f, g \in Fields : <<f>> \in Seq(Fields) /\ <<f, g>> \in Seq(Fields)
      OBVIOUS
    <3>2. /\ {"llm", "ddl", "toolbox"} \subseteq Fields
          /\ ask = <<"ddl">> \/ ask = <<"toolbox">> \/ ask = <<"ddl", "toolbox">>
      BY DEF Asks, Fields
    <3>3. ask \in Seq(Fields) /\ <<"llm">> \in Seq(Fields)
      BY <3>1, <3>2
    <3>4. QED
      BY <3>3
  <2>3. QED
    BY <1>3, <2>1, <2>2 DEF Begin, Places, GetterInv, GetterTypes, LockInv, CountInv, Wants
<1>4. ASSUME NEW w \in Workers, Leave(w) PROVE GetterInv'
  BY <1>4 DEF Leave, GetterInv, GetterTypes, LockInv, CountInv, Wants
<1>5. ASSUME NEW w \in Workers, Work(w) PROVE GetterInv'
  <2>1. CASE Enter(w)
    BY <2>1, CardAssumption
       DEF Enter, Places, GetterInv, GetterTypes, LockInv, CountInv, Wants, CardAssumption
  <2>2. CASE Get(w)
    BY <2>2 DEF Get, Obtained, Places, GetterInv, GetterTypes, LockInv, CountInv, Wants
  <2>3. CASE Build(w)
    <3>1. /\ todo[w] \in Seq(Fields) /\ todo[w] # <<>> /\ pc[w] = "build" /\ lock = w
          /\ Wants(w) \notin runner
      BY <2>3 DEF Build, GetterInv, GetterTypes, LockInv
    <3>2. Wants(w) \in Fields /\ Tail(todo[w]) \in Seq(Fields)
      BY <3>1 DEF Wants
    <3>3. GetterTypes'
      BY <2>3, <3>2 DEF Build, Obtained, Places, GetterInv, GetterTypes
    <3>4. LockInv'
      BY <2>3, <3>1, CardAssumption
         DEF Build, Obtained, GetterInv, GetterTypes, LockInv, Wants, CardAssumption
    <3>5. CountInv'
      BY <2>3, <3>1, <3>2 DEF Build, GetterInv, GetterTypes, CountInv
    <3>6. QED
      BY <3>3, <3>4, <3>5 DEF GetterInv
  <2>4. CASE BuildRaises(w)
    <3>1. /\ todo[w] \in Seq(Fields) /\ todo[w] # <<>> /\ pc[w] = "build" /\ lock = w
      BY <2>4 DEF BuildRaises, GetterInv, GetterTypes, LockInv
    <3>2. Tail(todo[w]) \in Seq(Fields) /\ <<>> \in Seq(Fields)
      BY <3>1
    <3>3. GetterTypes'
      BY <2>4, <3>2 DEF BuildRaises, Places, GetterInv, GetterTypes
    <3>4. LockInv'
      BY <2>4, <3>1, CardAssumption
         DEF BuildRaises, GetterInv, GetterTypes, LockInv, Wants, CardAssumption
    <3>5. QED
      BY <2>4, <3>3, <3>4 DEF BuildRaises, GetterInv, CountInv
  <2>5. CASE Finish(w)
    BY <2>5, Elsewhere DEF Finish, Places, GetterInv, GetterTypes
  <2>6. CASE LookAtCard(w)
    BY <2>6, Elsewhere DEF LookAtCard, Goto, Places, GetterInv, GetterTypes
  <2>7. CASE LookAtJoins(w)
    BY <2>7, Elsewhere DEF LookAtJoins, Goto, Places, GetterInv, GetterTypes
  <2>8. CASE Infer(w)
    BY <2>8, Elsewhere DEF Infer, Goto, Places, GetterInv, GetterTypes
  <2>9. CASE InferRaises(w)
    BY <2>9, Elsewhere DEF InferRaises, Goto, Places, GetterInv, GetterTypes
  <2>10. CASE Count(w)
    BY <2>10, Elsewhere DEF Count, Goto, Places, GetterInv, GetterTypes
  <2>11. CASE Enumerate(w)
    BY <2>11, Elsewhere DEF Enumerate, Goto, Places, GetterInv, GetterTypes
  <2>12. CASE Sample(w)
    BY <2>12, Elsewhere DEF Sample, Goto, Places, GetterInv, GetterTypes
  <2>13. CASE StoreCard(w)
    BY <2>13, Elsewhere DEF StoreCard, Goto, Places, GetterInv, GetterTypes
  <2>14. CASE RenderRaises(w) \/ ArmEnds(w)
    BY <2>14, Elsewhere DEF RenderRaises, ArmEnds, Goto, Places, GetterInv, GetterTypes
  <2>15. QED
    BY <1>5, <2>1, <2>2, <2>3, <2>4, <2>5, <2>6, <2>7, <2>8, <2>9, <2>10, <2>11, <2>12, <2>13, <2>14
       DEF Work
<1>6. QED
  BY <1>1, <1>2, <1>3, <1>4, <1>5 DEF Next

(* _Runner's lock: whatever is built is built once, by one thread, for any
   number of threads that ask at once and any builds that raise in between;
   so there is one toolbox for the gate to protect. *)
THEOREM SharedOnce == Spec => []BuiltOnce
<1>1. GetterInv => BuiltOnce
  BY DEF GetterInv, GetterTypes, CountInv, BuiltOnce
<1>2. QED
  BY InitGetters, StepGetters, <1>1, PTL DEF Spec

-----------------------------------------------------------------------------
(* What is read of a table's column. *)

(* A finite set of numbers has a smallest and a greatest member: of the
   members up to a given one, or from it on, there is a smallest set. *)
LEMMA MinMax ==
  ASSUME NEW S, S \subseteq Int, IsFiniteSet(S), S # {}
  PROVE  Min(S) \in S /\ Max(S) \in S
<1>1. \A R : R \in SUBSET S => R \in FiniteSubsetsOf(S)
  BY FS_Subset DEF FiniteSubsetsOf
<1>2. \E x \in S : \A y \in S : x <= y
  <2> DEFINE U == {{y \in S : y <= x} : x \in S}
  <2>1. U \subseteq FiniteSubsetsOf(S) /\ U # {}
    BY <1>1
  <2>2. PICK R \in U : \A Q \in U : <<Q, R>> \notin StrictSubsetOrdering(S)
    <3> HIDE DEF U
    <3>1. QED
      BY <2>1, FS_StrictSubsetOrderingWellFounded, WFMin, Zenon
  <2>3. PICK x \in S : R = {y \in S : y <= x}
    OBVIOUS
  <2>4. ASSUME NEW z \in S, z < x PROVE FALSE
    <3> DEFINE Q == {y \in S : y <= z}
    <3> z \in Int /\ x \in Int /\ \A y \in S : y \in Int
      OBVIOUS
    <3> Q \in U
      OBVIOUS
    <3>0. \A y \in S : y <= z => y <= x
      BY <2>4
    <3>1. Q \subseteq R /\ x \in R /\ x \notin Q
      <4> HIDE DEF U
      <4>1. ~(x <= z) /\ x <= x
        BY <2>4
      <4>2. QED
        BY <3>0, <2>3, <4>1
    <3>2. <<Q, R>> \in StrictSubsetOrdering(S)
      BY <2>3, <3>1 DEF StrictSubsetOrdering
    <3>3. QED
      BY <2>2, <3>1, <3>2
  <2>5. QED
    BY <2>4
<1>3. \E x \in S : \A y \in S : x >= y
  <2> DEFINE U == {{y \in S : y >= x} : x \in S}
  <2>1. U \subseteq FiniteSubsetsOf(S) /\ U # {}
    BY <1>1
  <2>2. PICK R \in U : \A Q \in U : <<Q, R>> \notin StrictSubsetOrdering(S)
    <3> HIDE DEF U
    <3>1. QED
      BY <2>1, FS_StrictSubsetOrderingWellFounded, WFMin, Zenon
  <2>3. PICK x \in S : R = {y \in S : y >= x}
    OBVIOUS
  <2>4. ASSUME NEW z \in S, z > x PROVE FALSE
    <3> DEFINE Q == {y \in S : y >= z}
    <3> z \in Int /\ x \in Int /\ \A y \in S : y \in Int
      OBVIOUS
    <3> Q \in U
      OBVIOUS
    <3>0. \A y \in S : y >= z => y >= x
      BY <2>4
    <3>1. Q \subseteq R /\ x \in R /\ x \notin Q
      <4> HIDE DEF U
      <4>1. ~(x >= z) /\ x >= x
        BY <2>4
      <4>2. QED
        BY <3>0, <2>3, <4>1
    <3>2. <<Q, R>> \in StrictSubsetOrdering(S)
      BY <2>3, <3>1 DEF StrictSubsetOrdering
    <3>3. QED
      BY <2>2, <3>1, <3>2
  <2>5. QED
    BY <2>4
<1>4. QED
  BY <1>2, <1>3 DEF Min, Max

(* A line says of a table what a version of the database holds. *)
LineOf(t, rows, kind, values) == [table |-> t, rows |-> rows, kind |-> kind, values |-> values]

LEMMA TableData ==
  ASSUME version \in 1..Versions, NEW i \in DOMAIN Tables
  PROVE  /\ Now(Tables[i]).rows \in Nat
         /\ Now(Tables[i]).values \subseteq Int /\ IsFiniteSet(Now(Tables[i]).values)
BY DataAssumption DEF DataAssumption, Now

(* What a list of all values says is so. *)
LEMMA ListedIsTrue ==
  ASSUME version \in 1..Versions, NEW i \in DOMAIN Tables, NEW rows \in Nat,
         NEW vs \in SmallDomains(Tables[i]), vs # {}
  PROVE  /\ LineOf(Tables[i], rows, "all", vs) \in CardLine
         /\ TrueLine(LineOf(Tables[i], rows, "all", vs), version)
BY TableData DEF SmallDomains, LineOf, CardLine, TrueLine, Now

(* So is what a sample says, or it says nothing. *)
LEMMA SampledIsTrue ==
  ASSUME version \in 1..Versions, NEW i \in DOMAIN Tables, NEW rows \in Nat,
         NEW what \in Samples(Tables[i]) \cup {Unknown}
  PROVE  /\ LineOf(Tables[i], rows, what.kind, what.values) \in CardLine
         /\ TrueLine(LineOf(Tables[i], rows, what.kind, what.values), version)
<1> DEFINE vs == Now(Tables[i]).values
<1>1. vs \subseteq Int /\ IsFiniteSet(vs) /\ vs = Data[version][Tables[i]].values
  BY TableData DEF Now
<1>2. CASE what = Unknown
  BY <1>2 DEF Unknown, LineOf, CardLine, TrueLine
<1>3. CASE what \in Samples(Tables[i]) /\ vs = {}
  <2>1. what = [kind |-> "all NULL", values |-> {}]
    BY <1>3 DEF Samples
  <2>2. QED
    BY <1>1, <1>3, <2>1 DEF LineOf, CardLine, TrueLine
<1>4. CASE what \in Samples(Tables[i]) /\ vs # {} /\ Tables[i] \in Ranged
  <2>1. what = [kind |-> "range", values |-> {Min(vs), Max(vs)}]
    BY <1>4 DEF Samples
  <2>2. Min(vs) \in vs /\ Max(vs) \in vs
    BY <1>1, <1>4, MinMax
  <2>3. QED
    BY <1>1, <1>4, <2>1, <2>2 DEF LineOf, CardLine, TrueLine
<1>5. CASE what \in Samples(Tables[i]) /\ vs # {} /\ Tables[i] \notin Ranged
  <2> DEFINE n == IF Cardinality(vs) < SampleSize THEN Cardinality(vs) ELSE SampleSize
  <2>1. PICK s \in kSubset(n, vs) : what = [kind |-> "examples", values |-> s]
    BY <1>5 DEF Samples
  <2>2. n # 0
    BY <1>1, <1>5, FS_EmptySet, CardAssumption DEF CardAssumption
  <2>3. s \subseteq vs /\ s # {}
    BY <2>1, <2>2, FS_EmptySet DEF kSubset
  <2>4. QED
    BY <1>1, <2>1, <2>3 DEF LineOf, CardLine, TrueLine
<1>6. QED
  BY <1>2, <1>3, <1>4, <1>5

-----------------------------------------------------------------------------
(* The card, line by line. *)

Joins == SUBSET UNION {Graph[v] : v \in 1..Versions} \cup {None}
Cards == [lines : Seq(CardLine), joins : Joins, since : Nat, until : Nat]
Locals == [since : Nat, joins : Joins, lines : Seq(CardLine), rows : Nat, card : Cards \cup {None}]

CardTypes ==
  /\ version \in 1..Versions
  /\ pc \in [Workers -> Places]
  /\ box \in [joins : Joins, card : Cards \cup {None}]
  /\ local \in [Workers -> Locals]

(* The line at place i is of the table at place i, whose size it tells, and
   of whose values it tells something true, each at some moment from a to b. *)
TrueAt(line, i, a, b) ==
  /\ line.table = Tables[i]
  /\ \E v \in a..b : Data[v][line.table].rows = line.rows
  /\ \E v \in a..b : TrueLine(line, v)

TrueCard(card) ==
  /\ DOMAIN card.lines = DOMAIN Tables
  /\ \A i \in DOMAIN card.lines : TrueAt(card.lines[i], i, card.since, card.until)

(* A card under way: its lines are those of the first tables, each true at
   some moment since it was begun, and so is the size it has just read. *)
Making(w) ==
  pc[w] \in {"infer", "count", "domain", "sample"} =>
    /\ local[w].since \in 1..version
    /\ Len(local[w].lines) <= Len(Tables)
    /\ \A i \in DOMAIN local[w].lines :
         TrueAt(local[w].lines[i], i, local[w].since, version)
    /\ pc[w] \in {"domain", "sample"} =>
         /\ Missing(w)
         /\ \E v \in local[w].since..version : Data[v][Table(w)].rows = local[w].rows

(* The joins loop starts over at "joins", so nothing holds of a card there. *)
Kept == box.card # None => TrueCard(box.card)
Told(w) == pc[w] = "told" => local[w].card # None /\ TrueCard(local[w].card)

CardInv ==
  /\ CardTypes
  /\ Kept
  /\ \A w \in Workers : Making(w) /\ Told(w)

LEMMA InitCard == Init => CardInv
<1> SUFFICES ASSUME Init PROVE CardInv
  OBVIOUS
<1>1. None \in Joins /\ <<>> \in Seq(CardLine)
  BY DEF Joins
<1>2. CardTypes
  BY <1>1, CardAssumption DEF Init, CardTypes, CardAssumption, Places, NoBox, NoWork, Locals
<1>3. QED
  BY <1>2 DEF Init, CardInv, Kept, Making, Told, NoBox

(* A worker's card stays true while the database and it go on. *)
LEMMA MakingKept ==
  ASSUME CardInv, NEW o \in Workers, CardTypes', version' >= version,
         pc'[o] = pc[o], local'[o] = local[o]
  PROVE  Making(o)' /\ Told(o)'
<1>1. version \in Nat /\ version' \in Nat
  BY DEF CardInv, CardTypes
<1>2. Making(o) /\ Told(o) /\ local[o] \in Locals
  BY DEF CardInv, CardTypes
<1>3. Told(o)'
  BY <1>2 DEF Told
<1>4. ASSUME pc[o] \in {"infer", "count", "domain", "sample"} PROVE Making(o)'
  <2>1. local[o].since \in 1..version /\ local[o].since \in Nat
    BY <1>2, <1>4 DEF Making, Locals
  <2>2. \A v \in local[o].since..version : v \in local'[o].since..version'
    BY <1>1, <2>1
  <2>3. \A i \in DOMAIN local'[o].lines :
           TrueAt(local'[o].lines[i], i, local'[o].since, version')
    BY <1>2, <1>4, <2>2 DEF Making, TrueAt
  <2>4. local'[o].since \in 1..version' /\ Len(local'[o].lines) <= Len(Tables)
    BY <1>1, <1>2, <1>4, <2>1 DEF Making
  <2>5. ASSUME pc'[o] \in {"domain", "sample"}
        PROVE  /\ Missing(o)'
               /\ \E v \in local'[o].since..version' : Data[v][Table(o)'].rows = local'[o].rows
    BY <1>2, <2>2, <2>5 DEF Making, Missing, Table
  <2>6. QED
    BY <2>3, <2>4, <2>5 DEF Making
<1>5. QED
  BY <1>3, <1>4 DEF Making

(* So a step of one worker is about its own card and about the stored one. *)
LEMMA CardStep ==
  ASSUME CardInv, NEW w \in Workers, CardTypes', version' = version,
         \A o \in Workers \ {w} : pc'[o] = pc[o] /\ local'[o] = local[o],
         Kept', Making(w)', Told(w)'
  PROVE  CardInv'
<1>1. version' >= version
  BY DEF CardInv, CardTypes
<1>2. \A o \in Workers \ {w} : Making(o)' /\ Told(o)'
  BY <1>1, MakingKept
<1>3. QED
  BY <1>2 DEF CardInv

(* What leads away from the cards leaves them true. *)
LEMMA CardAside ==
  ASSUME CardInv, NEW w \in Workers, pc' \in [Workers -> Places],
         pc'[w] \notin {"infer", "count", "domain", "sample", "told"},
         \A o \in Workers \ {w} : pc'[o] = pc[o],
         version' = version, local' = local, box' = box
  PROVE  CardInv'
<1>1. CardTypes'
  BY DEF CardInv, CardTypes
<1>2. Kept' /\ Making(w)' /\ Told(w)'
  BY DEF CardInv, Kept, Making, Told
<1>3. QED
  BY <1>1, <1>2, CardStep

LEMMA LookAtCardKeeps ==
  ASSUME CardInv, NEW w \in Workers, LookAtCard(w)
  PROVE  CardInv'
<1>1. CASE box.card = None
  <2>1. pc'[w] = "joins" /\ pc' \in [Workers -> Places] /\ local' = local
    BY <1>1 DEF LookAtCard, Goto, CardInv, CardTypes, Places
  <2>2. QED
    BY <2>1, CardAside DEF LookAtCard, Goto, CardInv, CardTypes
<1>2. CASE box.card # None
  <2>1. local' = [local EXCEPT ![w].card = box.card] /\ pc' = [pc EXCEPT ![w] = "told"]
    BY <1>2 DEF LookAtCard, Goto
  <2>2. CardTypes'
    BY <2>1 DEF LookAtCard, CardInv, CardTypes, Places, Locals
  <2>3. pc'[w] = "told" /\ local'[w].card = box.card /\ TrueCard(box.card)
    BY <1>2, <2>1 DEF CardInv, CardTypes, Kept, Locals
  <2>4. Making(w)' /\ Told(w)'
    BY <1>2, <2>3 DEF Making, Told
  <2>5. Kept' /\ version' = version
    BY DEF LookAtCard, CardInv, Kept
  <2>6. QED
    BY <2>1, <2>2, <2>4, <2>5, CardStep DEF CardInv, CardTypes
<1>3. QED
  BY <1>1, <1>2

LEMMA LookAtJoinsKeeps ==
  ASSUME CardInv, NEW w \in Workers, LookAtJoins(w)
  PROVE  CardInv'
<1>1. PICK where \in {"infer", "count"} : pc' = [pc EXCEPT ![w] = where]
  BY DEF LookAtJoins, Goto
<1>2. local' = [local EXCEPT ![w].since = version, ![w].joins = box.joins, ![w].lines = <<>>]
  BY DEF LookAtJoins
<1>3. <<>> \in Seq(CardLine) /\ Len(<<>>) = 0 /\ DOMAIN <<>> = {} /\ Len(Tables) \in Nat
  BY DataAssumption DEF DataAssumption
<1>4. CardTypes'
  <2>1. local[w] \in Locals /\ box.joins \in Joins /\ version \in Nat
    BY DEF CardInv, CardTypes
  <2>2. [local[w] EXCEPT !.since = version, !.joins = box.joins, !.lines = <<>>] \in Locals
    BY <1>3, <2>1 DEF Locals
  <2>3. local' \in [Workers -> Locals]
    BY <1>2, <2>2 DEF CardInv, CardTypes
  <2>4. QED
    BY <1>1, <2>3 DEF LookAtJoins, CardInv, CardTypes, Places
<1>5. local'[w].since = version /\ local'[w].lines = <<>> /\ pc'[w] = where
  BY <1>1, <1>2 DEF CardInv, CardTypes, Locals
<1>6. version' = version /\ version \in 1..version
  BY DEF LookAtJoins, CardInv, CardTypes
<1>7. Making(w)' /\ Told(w)'
  BY <1>3, <1>5, <1>6 DEF Making, Told
<1>8. Kept'
  BY DEF LookAtJoins, CardInv, Kept
<1>9. QED
  BY <1>1, <1>2, <1>4, <1>6, <1>7, <1>8, CardStep DEF CardInv, CardTypes

LEMMA InferKeeps ==
  ASSUME CardInv, NEW w \in Workers, Infer(w)
  PROVE  CardInv'
<1>1. PICK pairs \in SUBSET UNION {Graph[v] : v \in local[w].since..version} :
        box' = [box EXCEPT !.joins = pairs]
  BY DEF Infer
<1>2. local[w].since \in 1..version /\ version \in 1..Versions /\ Versions \in Nat
  BY CardAssumption DEF Infer, CardInv, CardTypes, Making, CardAssumption
<1>3. local[w].since..version \subseteq 1..Versions
  BY <1>2
<1>4. pairs \in Joins
  BY <1>3 DEF Joins
<1>5. pc' = [pc EXCEPT ![w] = "joins"] /\ local' = local /\ version' = version
  BY DEF Infer, Goto
<1>6. CardTypes'
  BY <1>1, <1>4, <1>5 DEF CardInv, CardTypes, Places
<1>7. box'.card = box.card
  BY <1>1 DEF CardInv, CardTypes
<1>8. Kept'
  BY <1>7 DEF CardInv, Kept
<1>9. pc'[w] = "joins"
  BY <1>5 DEF CardInv, CardTypes
<1>10. Making(w)' /\ Told(w)'
  BY <1>9 DEF Making, Told
<1>11. QED
  BY <1>5, <1>6, <1>8, <1>10, CardStep DEF CardInv, CardTypes

LEMMA CountKeeps ==
  ASSUME CardInv, NEW w \in Workers, Count(w)
  PROVE  CardInv'
<1> DEFINE ls == local[w].lines
           rows == Now(Table(w)).rows
<1>1. pc[w] = "count" /\ local[w] \in Locals /\ ls \in Seq(CardLine) /\ Making(w)
  BY DEF Count, CardInv, CardTypes, Locals
<1>2. Len(ls) < Len(Tables) /\ Len(ls) + 1 \in DOMAIN Tables /\ Table(w) = Tables[Len(ls) + 1]
  BY <1>1, DataAssumption DEF Count, Missing, Table, DataAssumption
<1>3. rows \in Nat /\ rows = Data[version][Table(w)].rows
  BY <1>2, TableData DEF CardInv, CardTypes, Now
<1>4. /\ local' = [local EXCEPT ![w].rows = rows]
      /\ pc' = [pc EXCEPT ![w] = "domain"]
      /\ version' = version /\ box' = box
  BY DEF Count, Goto
<1> HIDE DEF rows
<1>5. CardTypes'
  <2>1. [local[w] EXCEPT !.rows = rows] \in Locals
    BY <1>1, <1>3 DEF Locals
  <2>2. local' \in [Workers -> Locals]
    BY <1>4, <2>1 DEF CardInv, CardTypes
  <2>3. QED
    BY <1>4, <2>2 DEF CardInv, CardTypes, Places
<1>6. /\ pc'[w] = "domain" /\ local'[w].rows = rows
      /\ local'[w].lines = ls /\ local'[w].since = local[w].since
  BY <1>4 DEF CardInv, CardTypes, Locals
<1>7. local[w].since \in 1..version /\ version \in local[w].since..version
  BY <1>1 DEF Making, CardInv, CardTypes
<1>8. Table(w)' = Table(w) /\ Missing(w)'
  BY <1>2, <1>6 DEF Table, Missing
<1>9. \A i \in DOMAIN ls : TrueAt(ls[i], i, local[w].since, version)
  BY <1>1 DEF Making
<1>10. Making(w)'
  BY <1>2, <1>3, <1>4, <1>6, <1>7, <1>8, <1>9 DEF Making
<1>11. Told(w)' /\ Kept'
  BY <1>4, <1>6 DEF Told, Kept, CardInv
<1>12. QED
  BY <1>4, <1>5, <1>10, <1>11, CardStep DEF CardInv, CardTypes

(* Where a line is added, the one it adds is true. *)
LEMMA LineKeeps ==
  ASSUME CardInv, NEW w \in Workers, pc[w] \in {"domain", "sample"}, NEW what,
         Line(w, what), pc' = [pc EXCEPT ![w] = "count"], UNCHANGED <<version, box>>,
         LineOf(Table(w), local[w].rows, what.kind, what.values) \in CardLine,
         TrueLine(LineOf(Table(w), local[w].rows, what.kind, what.values), version)
  PROVE  CardInv'
<1> DEFINE ls == local[w].lines
           line == LineOf(Table(w), local[w].rows, what.kind, what.values)
<1>1. local[w] \in Locals /\ ls \in Seq(CardLine) /\ Making(w) /\ version \in Nat
  BY DEF CardInv, CardTypes, Locals
<1>2. /\ local[w].since \in 1..version /\ Missing(w)
      /\ \E v \in local[w].since..version : Data[v][Table(w)].rows = local[w].rows
      /\ \A i \in DOMAIN ls : TrueAt(ls[i], i, local[w].since, version)
  BY <1>1 DEF Making
<1>3. Len(ls) + 1 <= Len(Tables) /\ Table(w) = Tables[Len(ls) + 1]
  BY <1>1, <1>2, DataAssumption DEF Missing, Table, DataAssumption
<1>4. line.table = Table(w) /\ line.rows = local[w].rows
  BY DEF LineOf
<1>5. TrueAt(line, Len(ls) + 1, local[w].since, version)
  <2>1. version \in local[w].since..version
    BY <1>1, <1>2
  <2>2. \E v \in local[w].since..version : TrueLine(line, v)
    BY <2>1
  <2>3. QED
    BY <1>2, <1>3, <1>4, <2>2 DEF TrueAt
<1>6. local' = [local EXCEPT ![w].lines = Append(@, line)]
  BY DEF Line, LineOf
<1>7. line \in CardLine
  OBVIOUS
<1> HIDE DEF line
<1>8. CardTypes'
  <2>1. Append(ls, line) \in Seq(CardLine)
    BY <1>1, <1>7
  <2>2. [local[w] EXCEPT !.lines = Append(ls, line)] \in Locals
    BY <1>1, <2>1 DEF Locals
  <2>3. local' \in [Workers -> Locals]
    BY <1>6, <2>2 DEF CardInv, CardTypes
  <2>4. QED
    BY <2>3 DEF CardInv, CardTypes, Places
<1>9. /\ pc'[w] = "count" /\ local'[w].lines = Append(ls, line)
      /\ local'[w].since = local[w].since
  BY <1>6 DEF CardInv, CardTypes, Locals
<1>10. \A i \in DOMAIN Append(ls, line) :
         TrueAt(Append(ls, line)[i], i, local[w].since, version)
  <2>1. \A i \in DOMAIN Append(ls, line) :
          \/ i \in DOMAIN ls /\ Append(ls, line)[i] = ls[i]
          \/ i = Len(ls) + 1 /\ Append(ls, line)[i] = line
    BY <1>1, <1>7
  <2>2. QED
    BY <1>2, <1>5, <2>1
<1>11. Len(Append(ls, line)) <= Len(Tables)
  BY <1>1, <1>3, <1>7
<1>12. Making(w)'
  BY <1>2, <1>9, <1>10, <1>11 DEF Making
<1>13. Told(w)' /\ Kept'
  BY <1>9 DEF Told, Kept, CardInv
<1>14. QED
  BY <1>6, <1>8, <1>12, <1>13, CardStep DEF CardInv, CardTypes

(* The table whose line is next. *)
LEMMA NextTable ==
  ASSUME CardInv, NEW w \in Workers, pc[w] \in {"domain", "sample"}
  PROVE  /\ version \in 1..Versions /\ local[w].rows \in Nat
         /\ \E i \in DOMAIN Tables : Table(w) = Tables[i]
<1>1. Missing(w) /\ local[w].lines \in Seq(CardLine)
  BY DEF CardInv, CardTypes, Making, Locals
<1>2. Len(local[w].lines) + 1 \in DOMAIN Tables
  BY <1>1, DataAssumption DEF Missing, DataAssumption
<1>3. QED
  BY <1>2 DEF Table, CardInv, CardTypes, Locals

LEMMA EnumerateKeeps ==
  ASSUME CardInv, NEW w \in Workers, Enumerate(w)
  PROVE  CardInv'
<1>1. PICK vs \in SmallDomains(Table(w)) \cup {{}} :
        IF vs = {} THEN Goto(w, "sample") /\ UNCHANGED local
        ELSE Goto(w, "count") /\ Line(w, [kind |-> "all", values |-> vs])
  BY DEF Enumerate
<1>2. CASE vs = {}
  <2>1. /\ pc' = [pc EXCEPT ![w] = "sample"] /\ pc[w] = "domain"
        /\ local' = local /\ version' = version /\ box' = box
    BY <1>1, <1>2 DEF Enumerate, Goto
  <2>2. CardTypes' /\ Kept'
    BY <2>1 DEF CardInv, CardTypes, Places, Kept
  <2>3. pc'[w] = "sample" /\ Making(w)
    BY <2>1 DEF CardInv, CardTypes
  <2>4. Making(w)' /\ Told(w)'
    BY <2>1, <2>3 DEF Making, Told, Missing, Table
  <2>5. QED
    BY <2>1, <2>2, <2>4, CardStep DEF CardInv, CardTypes
<1>3. CASE vs # {}
  <2>1. PICK i \in DOMAIN Tables : Table(w) = Tables[i]
    BY NextTable DEF Enumerate
  <2>2. vs \in SmallDomains(Tables[i]) /\ version \in 1..Versions /\ local[w].rows \in Nat
    BY <1>3, <2>1, NextTable DEF Enumerate
  <2>3. LineOf(Table(w), local[w].rows, "all", vs) \in CardLine
        /\ TrueLine(LineOf(Table(w), local[w].rows, "all", vs), version)
    BY <1>3, <2>1, <2>2, ListedIsTrue
  <2> DEFINE what == [kind |-> "all", values |-> vs]
  <2>4. what.kind = "all" /\ what.values = vs /\ Line(w, what)
    BY <1>1, <1>3
  <2>5. pc[w] = "domain" /\ pc' = [pc EXCEPT ![w] = "count"] /\ UNCHANGED <<version, box>>
    BY <1>1, <1>3 DEF Enumerate, Goto
  <2> HIDE DEF what
  <2>6. QED
    BY <2>3, <2>4, <2>5, LineKeeps
<1>4. QED
  BY <1>2, <1>3

LEMMA SampleKeeps ==
  ASSUME CardInv, NEW w \in Workers, Sample(w)
  PROVE  CardInv'
<1>1. PICK what \in Samples(Table(w)) \cup {Unknown} : Line(w, what)
  BY DEF Sample
<1>2. pc[w] = "sample" /\ pc' = [pc EXCEPT ![w] = "count"] /\ UNCHANGED <<version, box>>
  BY DEF Sample, Goto
<1>3. PICK i \in DOMAIN Tables : Table(w) = Tables[i]
  BY <1>2, NextTable
<1>4. version \in 1..Versions /\ local[w].rows \in Nat
  BY <1>2, NextTable
<1>5. LineOf(Table(w), local[w].rows, what.kind, what.values) \in CardLine
      /\ TrueLine(LineOf(Table(w), local[w].rows, what.kind, what.values), version)
  BY <1>3, <1>4, SampledIsTrue
<1>6. QED
  BY <1>1, <1>2, <1>5, LineKeeps

LEMMA StoreCardKeeps ==
  ASSUME CardInv, NEW w \in Workers, StoreCard(w)
  PROVE  CardInv'
<1> DEFINE card == [lines |-> local[w].lines, joins |-> local[w].joins,
                    since |-> local[w].since, until |-> version]
<1>1. /\ box' = [box EXCEPT !.card = card] /\ local' = [local EXCEPT ![w] = NoWork]
      /\ pc' = [pc EXCEPT ![w] = "card"] /\ version' = version
      /\ pc[w] = "count" /\ ~Missing(w)
  BY DEF StoreCard, Goto
<1>2. local[w] \in Locals /\ Making(w) /\ version \in Nat
  BY DEF CardInv, CardTypes
<1>3. card \in Cards
  BY <1>2 DEF Cards, Locals
<1>4. NoWork \in Locals
  BY DEF NoWork, Locals, Joins
<1>5. CardTypes'
  BY <1>1, <1>3, <1>4 DEF CardInv, CardTypes, Places
<1>6. TrueCard(card)
  <2>1. Len(local[w].lines) = Len(Tables)
    BY <1>1, <1>2, DataAssumption DEF Making, Missing, Locals, DataAssumption
  <2>2. DOMAIN local[w].lines = DOMAIN Tables
    BY <1>2, <2>1, DataAssumption DEF Locals, DataAssumption
  <2>3. QED
    BY <1>1, <1>2, <2>2 DEF Making, TrueCard
<1>7. box'.card = card
  BY <1>1 DEF CardInv, CardTypes
<1> HIDE DEF card
<1>8. Kept'
  BY <1>6, <1>7 DEF Kept
<1>9. pc'[w] = "card"
  BY <1>1 DEF CardInv, CardTypes
<1>10. Making(w)' /\ Told(w)'
  BY <1>9 DEF Making, Told
<1>11. QED
  BY <1>1, <1>5, <1>8, <1>10, CardStep DEF CardInv, CardTypes

LEMMA ArmEndsKeeps ==
  ASSUME CardInv, NEW w \in Workers, ArmEnds(w)
  PROVE  CardInv'
<1>1. /\ local' = [local EXCEPT ![w] = NoWork] /\ pc' = [pc EXCEPT ![w] = "get"]
      /\ version' = version /\ box' = box
  BY DEF ArmEnds, Goto
<1>2. NoWork \in Locals
  BY DEF NoWork, Locals, Joins
<1>3. CardTypes'
  BY <1>1, <1>2 DEF CardInv, CardTypes, Places
<1>4. Kept'
  BY <1>1 DEF CardInv, Kept
<1>5. pc'[w] = "get"
  BY <1>1 DEF CardInv, CardTypes
<1>6. Making(w)' /\ Told(w)'
  BY <1>5 DEF Making, Told
<1>7. QED
  BY <1>1, <1>3, <1>4, <1>6, CardStep DEF CardInv, CardTypes

(* A toolbox is new when it is handed out: it holds no card. *)
LEMMA BuildKeeps ==
  ASSUME CardInv, NEW w \in Workers, Build(w)
  PROVE  CardInv'
<1>1. /\ box' = NoBox \/ box' = box
      /\ local' = local /\ version' = version
  BY DEF Build
<1>2. PICK where \in {"card", "get"} : pc' = [pc EXCEPT ![w] = where]
  BY DEF Build, Obtained
<1>3. CardTypes'
  BY <1>1, <1>2 DEF CardInv, CardTypes, Places, NoBox, Joins
<1>4. Kept'
  BY <1>1 DEF CardInv, Kept, NoBox
<1>5. pc'[w] \in {"card", "get"}
  BY <1>2 DEF CardInv, CardTypes
<1>6. Making(w)' /\ Told(w)'
  BY <1>5 DEF Making, Told
<1>7. QED
  BY <1>1, <1>2, <1>3, <1>4, <1>6, CardStep DEF CardInv, CardTypes

LEMMA StepCard == CardInv /\ [Next]_vars => CardInv'
<1> SUFFICES ASSUME CardInv, [Next]_vars PROVE CardInv'
  OBVIOUS
<1>1. ASSUME pc' = pc, local' = local, box' = box, version' \in 1..Versions, version' >= version
      PROVE  CardInv'
  <2>1. CardTypes'
    BY <1>1 DEF CardInv, CardTypes
  <2>2. \A o \in Workers : Making(o)' /\ Told(o)'
    BY <1>1, <2>1, MakingKept
  <2>3. Kept'
    BY <1>1 DEF CardInv, Kept
  <2>4. QED
    BY <2>1, <2>2, <2>3 DEF CardInv
<1>2. version \in 1..Versions /\ version <= version /\ Versions \in Nat
  BY CardAssumption DEF CardInv, CardTypes, CardAssumption
<1>3. CASE UNCHANGED vars
  BY <1>1, <1>2, <1>3 DEF vars
<1>4. CASE Reseed
  BY <1>1, <1>2, <1>4 DEF Reseed
<1>5. ASSUME NEW w \in Workers, Begin(w) \/ Leave(w) PROVE CardInv'
  <2>1. CASE Begin(w)
    BY <2>1, CardAside DEF Begin, CardInv, CardTypes, Places
  <2>2. CASE Leave(w)
    BY <1>1, <1>2, <2>2 DEF Leave
  <2>3. QED
    BY <1>5, <2>1, <2>2
<1>6. ASSUME NEW w \in Workers, Work(w) PROVE CardInv'
  <2>1. CASE Enter(w) \/ Finish(w) \/ BuildRaises(w)
    BY <2>1, CardAside DEF Enter, Finish, BuildRaises, CardInv, CardTypes, Places
  <2>2. CASE Get(w)
    BY <2>2, CardAside DEF Get, Obtained, CardInv, CardTypes, Places
  <2>3. CASE InferRaises(w) \/ RenderRaises(w)
    BY <2>3, CardAside DEF InferRaises, RenderRaises, Goto, CardInv, CardTypes, Places
  <2>4. QED
    BY <1>6, <2>1, <2>2, <2>3, BuildKeeps, LookAtCardKeeps, LookAtJoinsKeeps, InferKeeps,
       CountKeeps, EnumerateKeeps, SampleKeeps, StoreCardKeeps, ArmEndsKeeps
       DEF Work
<1>7. QED
  BY <1>3, <1>4, <1>5, <1>6 DEF Next

(* harness/schema_card.py: whatever a worker is told of a table was so in the
   database at some moment while the card was made, for any number of threads
   that make it at once, any reseeds meanwhile and any queries that fail. *)
THEOREM CardsAreTrue == Spec => []CardIsTrue
<1>1. CardInv => CardIsTrue
  <2> SUFFICES ASSUME CardInv, NEW w \in Workers, pc[w] = "told"
               PROVE  LET card == local[w].card IN
                      /\ [i \in DOMAIN card.lines |-> card.lines[i].table] = Tables
                      /\ \A i \in DOMAIN card.lines :
                           /\ \E v \in card.since..card.until :
                                Data[v][card.lines[i].table].rows = card.lines[i].rows
                           /\ \E v \in card.since..card.until : TrueLine(card.lines[i], v)
    BY DEF CardIsTrue
  <2> DEFINE card == local[w].card
  <2>1. TrueCard(card)
    BY DEF CardInv, Told
  <2> HIDE DEF card
  <2>2. DOMAIN card.lines = DOMAIN Tables
        /\ \A i \in DOMAIN card.lines : TrueAt(card.lines[i], i, card.since, card.until)
    BY <2>1 DEF TrueCard
  <2>3. \A i \in DOMAIN Tables : card.lines[i].table = Tables[i]
    BY <2>2 DEF TrueAt
  <2>4. Tables = [i \in DOMAIN Tables |-> Tables[i]]
    BY DataAssumption DEF DataAssumption
  <2>5. [i \in DOMAIN card.lines |-> card.lines[i].table] = Tables
    BY <2>2, <2>3, <2>4
  <2>6. QED
    BY <2>2, <2>5 DEF TrueAt, card
<1>2. QED
  BY InitCard, StepCard, <1>1, PTL DEF Spec

-----------------------------------------------------------------------------
(* One join graph. *)

Alone == \A v, w \in Workers : Active(v) /\ Active(w) => v = w
Agree == box.card # None => box.card.joins = box.joins

(* While a card is made there is none, and it is made of the joins there are. *)
Agreed(w) ==
  /\ pc[w] \in {"joins", "infer", "count", "domain", "sample"} => box.card = None
  /\ pc[w] \in {"count", "domain", "sample"} => local[w].joins = box.joins
  /\ pc[w] = "told" => local[w].card.joins = box.joins

JoinInv == ~met => Alone /\ Agree /\ \A w \in Workers : Agreed(w)

LEMMA InitAgreement == Init => JoinInv
BY DEF Init, JoinInv, Alone, Agree, Agreed, Active, NoBox

(* A step of a worker that runs alone is about no other. *)
LEMMA JoinStep ==
  ASSUME JoinInv, NEW w \in Workers, Active(w), met' = met,
         \A o \in Workers \ {w} : pc'[o] = pc[o],
         ~met /\ Agree /\ Agreed(w) => Agree' /\ Agreed(w)'
  PROVE  JoinInv'
<1> SUFFICES ASSUME ~met PROVE Alone' /\ Agree' /\ \A o \in Workers : Agreed(o)'
  BY DEF JoinInv
<1>1. Alone /\ Agree /\ Agreed(w)
  BY DEF JoinInv
<1>2. \A o \in Workers \ {w} : pc'[o] \in {"idle", "done"}
  BY <1>1 DEF Alone, Active
<1>3. Alone'
  BY <1>2 DEF Alone, Active
<1>4. \A o \in Workers \ {w} : Agreed(o)'
  BY <1>2 DEF Agreed
<1>5. QED
  BY <1>1, <1>3, <1>4

LEMMA StepAgreement == CardInv /\ JoinInv /\ [Next]_vars => JoinInv'
<1> SUFFICES ASSUME CardInv, JoinInv, [Next]_vars PROVE JoinInv'
  OBVIOUS
<1> USE DEF CardInv, CardTypes
<1>1. ASSUME pc' = pc, local' = local, box' = box, met' = met PROVE JoinInv'
  BY <1>1 DEF JoinInv, Alone, Agree, Agreed, Active
<1>2. CASE UNCHANGED vars
  BY <1>1, <1>2 DEF vars
<1>3. CASE Reseed
  BY <1>1, <1>3 DEF Reseed
<1>4. ASSUME NEW w \in Workers, Begin(w) PROVE JoinInv'
  <2> SUFFICES ASSUME ~met' PROVE JoinInv'
    BY DEF JoinInv
  <2>1. ~met /\ \A o \in Workers : ~Active(o)
    BY <1>4 DEF Begin
  <2>2. /\ pc' = [pc EXCEPT ![w] = "get"] /\ local' = local /\ box' = box
    BY <1>4 DEF Begin
  <2>3. pc'[w] = "get" /\ \A o \in Workers \ {w} : pc'[o] = pc[o]
    BY <2>2
  <2>4. \A o \in Workers \ {w} : pc'[o] \in {"idle", "done"}
    BY <2>1, <2>3 DEF Active
  <2>5. Alone'
    BY <2>4 DEF Alone, Active
  <2>6. Agree'
    BY <2>1, <2>2 DEF JoinInv, Agree
  <2>7. \A o \in Workers : Agreed(o)'
    BY <2>3, <2>4 DEF Agreed
  <2>8. QED
    BY <2>5, <2>6, <2>7 DEF JoinInv
<1>5. ASSUME NEW w \in Workers, Leave(w) PROVE JoinInv'
  BY <1>1, <1>5 DEF Leave
<1>6. ASSUME NEW w \in Workers, Work(w) PROVE JoinInv'
  <2>1. ASSUME Active(w), box' = box, met' = met,
               NEW where \in {"get", "build", "card", "raised", "done"},
               pc' = [pc EXCEPT ![w] = where]
        PROVE  JoinInv'
    <3>1. pc'[w] = where /\ \A o \in Workers \ {w} : pc'[o] = pc[o]
      BY <2>1
    <3>2. Agree => Agree' /\ Agreed(w)'
      BY <2>1, <3>1 DEF Agree, Agreed
    <3>3. QED
      BY <2>1, <3>1, <3>2, JoinStep
  <2>2. CASE Enter(w) \/ Finish(w) \/ BuildRaises(w)
    BY <2>1, <2>2 DEF Enter, Finish, BuildRaises, Active
  <2>3. CASE Get(w)
    BY <2>1, <2>3 DEF Get, Obtained, Active
  <2>4. CASE InferRaises(w) \/ RenderRaises(w) \/ ArmEnds(w)
    BY <2>1, <2>4 DEF InferRaises, RenderRaises, ArmEnds, Goto, Active
  <2>5. CASE Build(w)
    <3>1. PICK where \in {"card", "get"} : pc' = [pc EXCEPT ![w] = where]
      BY <2>5 DEF Build, Obtained
    <3>2. pc'[w] = where /\ Active(w) /\ met' = met /\ (box' = NoBox \/ box' = box)
      BY <2>5, <3>1 DEF Build, Active
    <3>3. Agree => Agree' /\ Agreed(w)'
      BY <3>1, <3>2 DEF Agree, Agreed, NoBox
    <3>4. QED
      BY <3>1, <3>2, <3>3, JoinStep
  <2>6. CASE LookAtCard(w)
    <3>1. /\ Active(w) /\ met' = met /\ box' = box
          /\ \A o \in Workers \ {w} : pc'[o] = pc[o]
      BY <2>6 DEF LookAtCard, Goto, Active
    <3>2. CASE box.card = None
      <4>1. pc'[w] = "joins"
        BY <2>6, <3>2 DEF LookAtCard, Goto
      <4>2. Agree => Agree' /\ Agreed(w)'
        BY <3>1, <3>2, <4>1 DEF Agree, Agreed
      <4>3. QED
        BY <3>1, <4>2, JoinStep
    <3>3. CASE box.card # None
      <4>1. pc'[w] = "told" /\ local'[w].card = box.card
        BY <2>6, <3>3 DEF LookAtCard, Goto, Locals
      <4>2. Agree => Agree' /\ Agreed(w)'
        BY <3>1, <3>3, <4>1 DEF Agree, Agreed
      <4>3. QED
        BY <3>1, <4>2, JoinStep
    <3>4. QED
      BY <3>2, <3>3
  <2>7. CASE LookAtJoins(w)
    <3>1. /\ Active(w) /\ met' = met /\ box' = box /\ pc[w] = "joins"
          /\ \A o \in Workers \ {w} : pc'[o] = pc[o]
          /\ pc'[w] \in {"infer", "count"}
      BY <2>7 DEF LookAtJoins, Goto, Active
    <3>2. local'[w].joins = box.joins
      BY <2>7 DEF LookAtJoins, Locals
    <3>3. Agree /\ Agreed(w) => Agree' /\ Agreed(w)'
      BY <3>1, <3>2 DEF Agree, Agreed
    <3>4. QED
      BY <3>1, <3>3, JoinStep
  <2>8. CASE Infer(w)
    <3>1. /\ Active(w) /\ met' = met /\ pc[w] = "infer" /\ pc'[w] = "joins"
          /\ \A o \in Workers \ {w} : pc'[o] = pc[o]
          /\ box'.card = box.card
      BY <2>8 DEF Infer, Goto, Active
    <3>2. Agree /\ Agreed(w) => Agree' /\ Agreed(w)'
      BY <3>1 DEF Agree, Agreed
    <3>3. QED
      BY <3>1, <3>2, JoinStep
  <2>9. CASE Count(w)
    <3>1. /\ Active(w) /\ met' = met /\ box' = box /\ pc[w] = "count" /\ pc'[w] = "domain"
          /\ \A o \in Workers \ {w} : pc'[o] = pc[o]
      BY <2>9 DEF Count, Goto, Active
    <3>2. local'[w].joins = local[w].joins
      BY <2>9 DEF Count, Locals
    <3>3. Agree /\ Agreed(w) => Agree' /\ Agreed(w)'
      BY <3>1, <3>2 DEF Agree, Agreed
    <3>4. QED
      BY <3>1, <3>3, JoinStep
  <2>10. CASE Enumerate(w) \/ Sample(w)
    <3>1. /\ Active(w) /\ met' = met /\ box' = box /\ pc[w] \in {"domain", "sample"}
          /\ pc'[w] \in {"count", "sample"}
          /\ \A o \in Workers \ {w} : pc'[o] = pc[o]
      BY <2>10 DEF Enumerate, Sample, Goto, Active
    <3>2. local'[w].joins = local[w].joins
      BY <2>10 DEF Enumerate, Sample, Line, Locals
    <3>3. Agree /\ Agreed(w) => Agree' /\ Agreed(w)'
      BY <3>1, <3>2 DEF Agree, Agreed
    <3>4. QED
      BY <3>1, <3>3, JoinStep
  <2>11. CASE StoreCard(w)
    <3>1. /\ Active(w) /\ met' = met /\ pc[w] = "count" /\ pc'[w] = "card"
          /\ \A o \in Workers \ {w} : pc'[o] = pc[o]
      BY <2>11 DEF StoreCard, Goto, Active
    <3>2. box'.card.joins = local[w].joins /\ box'.joins = box.joins
      BY <2>11 DEF StoreCard
    <3>3. Agree /\ Agreed(w) => Agree' /\ Agreed(w)'
      BY <3>1, <3>2 DEF Agree, Agreed
    <3>4. QED
      BY <3>1, <3>3, JoinStep
  <2>12. QED
    BY <1>6, <2>2, <2>3, <2>4, <2>5, <2>6, <2>7, <2>8, <2>9, <2>10, <2>11 DEF Work
<1>7. QED
  BY <1>2, <1>3, <1>4, <1>5, <1>6 DEF Next

(* _ToolBox.joins and .card: the joins that a question's card lists are those
   its infer_joins tool returns, for any sequence of questions, builds that
   raise and queries that fail, as long as no two workers ever ran together. *)
THEOREM OneGraphWhenAlone == Spec => []OneJoinGraph
<1>1. JoinInv => OneJoinGraph
  BY DEF JoinInv, Agreed, OneJoinGraph
<1>2. QED
  BY InitCard, StepCard, InitAgreement, StepAgreement, <1>1, PTL DEF Spec
-----------------------------------------------------------------------------
(***************************************************************************)
(* How the joins a card shows were inferred: JoinGraph.                     *)
(***************************************************************************)

(* The parents whose turn has come. *)
Tried == {Parents[i] : i \in 1..(next - 1)}

DataTypes ==
  /\ Present \subseteq Values /\ child \in [Present -> 1..MaxCount] /\ keys \in [Keys -> SUBSET Values] /\ keylike \in BOOLEAN
  /\ sizes \in [Keys -> Nat] /\ next \in 1..Len(Parents) + 1

SizesInv ==
  /\ progress \in {"sizes", "pairs", "kept", "raised"}
  /\ progress \in {"sizes", "raised"} => next = 1
  /\ progress \in {"pairs", "kept"} => sizes = [p \in Keys |-> Cardinality(keys[p])]
  /\ progress = "kept" => next \notin DOMAIN Parents

CandsInv ==
  /\ missed \subseteq Tried
  /\ cands = {Candidate(p) : p \in {q \in Tried \ missed : Taken(q)}}
  /\ cands # {} => \E c \in cands : Leads(c, cands)

Chosen(w) ==
  /\ Leads(w, cands)
  /\ \E edge \in SUBSET cands : winner = <<Flagged(w, edge)>>

WinnerInv ==
  /\ progress # "kept" \/ cands = {} => winner = <<>>
  /\ progress = "kept" /\ cands # {} => \E w \in cands : Chosen(w)

JoinGraphInv == DataTypes /\ SizesInv /\ CandsInv /\ WinnerInv


-----------------------------------------------------------------------------
(* Counting. *)

(* The counts a candidate carries are natural numbers, and no more values
   match than there are. *)
LEMMA Counts ==
  ASSUME JoinAssumption, DataTypes, NEW p \in Keys
  PROVE  /\ IsFiniteSet(Present) /\ IsFiniteSet(keys[p])
         /\ Cardinality(Present) \in Nat /\ Cardinality(keys[p]) \in Nat
         /\ Matched(p) \in Nat /\ Matched(p) <= Cardinality(Present)
         /\ Cardinality(Present) - Matched(p) = 0 => Present \subseteq keys[p]
<1>1. /\ IsFiniteSet(Values) /\ Present \subseteq Values /\ keys[p] \subseteq Values
  BY DEF JoinAssumption, DataTypes
<1>2. IsFiniteSet(Present) /\ IsFiniteSet(keys[p]) /\ IsFiniteSet(Present \cap keys[p])
  BY <1>1, FS_Subset
<1>3. /\ Cardinality(Present) \in Nat /\ Cardinality(keys[p]) \in Nat
      /\ Cardinality(Present \cap keys[p]) \in Nat
  BY <1>2, FS_CardinalityType
<1>4. /\ Cardinality(Present \cap keys[p]) <= Cardinality(Present)
      /\ Cardinality(Present \cap keys[p]) = Cardinality(Present) => Present \cap keys[p] = Present
  BY <1>2, FS_Subset
<1> QED BY <1>2, <1>3, <1>4 DEF Matched

(* The rows an INNER JOIN returns and those without a parent are all there are. *)
LEMMA RowsSplit ==
  ASSUME JoinAssumption, DataTypes, NEW p \in Keys
  PROVE  /\ OrphanRows(p) \in Nat
         /\ OrphanRows(p) = Cardinality(ChildRows) - Cardinality(Joined(p))
<1> DEFINE Orphans == {r \in ChildRows : r[1] \notin keys[p]}
<1>1. IsFiniteSet(ChildRows)
  <2>1. IsFiniteSet(Present) /\ IsFiniteSet(1..MaxCount)
    <3>1. IsFiniteSet(Values) /\ Present \subseteq Values
      BY DEF JoinAssumption, DataTypes
    <3> QED BY <3>1, FS_Interval, FS_Subset DEF JoinAssumption
  <2>2. IsFiniteSet(Present \X (1..MaxCount))
    BY <2>1, FS_Product
  <2> QED BY <2>2, FS_Subset DEF ChildRows
<1>2. /\ IsFiniteSet(Orphans) /\ IsFiniteSet(Joined(p))
      /\ Orphans \cup Joined(p) = ChildRows /\ Orphans \cap Joined(p) = {}
  <2>1. Orphans \subseteq ChildRows /\ Joined(p) \subseteq ChildRows
    BY DEF Joined
  <2>2. Orphans \cup Joined(p) = ChildRows /\ Orphans \cap Joined(p) = {}
    BY DEF Joined
  <2> QED BY <1>1, <2>1, <2>2, FS_Subset
<1>3. /\ Cardinality(Orphans) \in Nat /\ Cardinality(Joined(p)) \in Nat
      /\ Cardinality(ChildRows) = Cardinality(Orphans) + Cardinality(Joined(p))
  <2>1. /\ Cardinality(Orphans) \in Nat /\ Cardinality(Joined(p)) \in Nat
    BY <1>2, FS_CardinalityType
  <2>2. Cardinality(Orphans \cup Joined(p))
          = Cardinality(Orphans) + Cardinality(Joined(p)) - Cardinality(Orphans \cap Joined(p))
    BY <1>2, FS_Union
  <2>3. Cardinality(Orphans \cap Joined(p)) = 0
    BY <1>2, FS_EmptySet
  <2>4. Cardinality(Orphans \cup Joined(p)) = Cardinality(ChildRows)
    BY <1>2
  <2> HIDE DEF Orphans
  <2> QED BY <2>1, <2>2, <2>3, <2>4
<1> HIDE DEF Orphans
<1>4. OrphanRows(p) = Cardinality(Orphans)
  BY DEF OrphanRows, Orphans
<1> QED BY <1>3, <1>4

-----------------------------------------------------------------------------
(* Fractions, and the order of the candidates. *)

(* Fractions compared by cross-multiplication are compared transitively. *)
LEMMA CrossTransitive ==
  ASSUME NEW a \in Nat, NEW b \in Nat, NEW c \in Nat,
         NEW x \in Nat \ {0}, NEW y \in Nat \ {0}, NEW z \in Nat \ {0},
         a * y >= b * x, b * z >= c * y
  PROVE  /\ a * z >= c * x
         /\ (a * y > b * x \/ b * z > c * y) => a * z > c * x
         /\ (a * y = b * x /\ b * z = c * y) => a * z = c * x
<1>1. \A m, n \in Int, k \in Nat \ {0} : /\ m >= n <=> k * m >= k * n
                                         /\ m > n <=> k * m > k * n
                                         /\ m = n <=> k * m = k * n
  OBVIOUS
<1>2. z * (a * y) = y * (a * z) /\ z * (b * x) = x * (b * z) /\ x * (c * y) = y * (c * x)
  OBVIOUS
<1>3. /\ a * y \in Nat /\ b * x \in Nat /\ a * z \in Nat /\ b * z \in Nat /\ c * y \in Nat /\ c * x \in Nat
  OBVIOUS
<1>4. PICK ay, bx, az, bz, cy, cx \in Nat :
        /\ ay = a * y /\ bx = b * x /\ az = a * z /\ bz = b * z /\ cy = c * y /\ cx = c * x
  BY <1>3
<1>5. /\ z * ay >= z * bx /\ x * bz >= x * cy
      /\ ay > bx => z * ay > z * bx
      /\ bz > cy => x * bz > x * cy
  BY <1>1, <1>4
<1>6. z * ay = y * az /\ z * bx = x * bz /\ x * cy = y * cx
  BY <1>2, <1>4
<1>7. /\ y * az >= y * cx
      /\ (ay > bx \/ bz > cy) => y * az > y * cx
      /\ (ay = bx /\ bz = cy) => y * az = y * cx
  <2>1. z * ay \in Nat /\ z * bx \in Nat /\ x * bz \in Nat /\ x * cy \in Nat /\ y * az \in Nat /\ y * cx \in Nat
    OBVIOUS
  <2> QED BY <1>5, <1>6, <2>1
<1>8. /\ az >= cx
      /\ (ay > bx \/ bz > cy) => az > cx
      /\ (ay = bx /\ bz = cy) => az = cx
  BY <1>1, <1>7
<1> QED BY <1>4, <1>8

(* What the order of the candidates reads of one. *)
Scored(c) == /\ c.parent \in Keys
             /\ ScoreN(c) \in Nat /\ ScoreD(c) \in Nat \ {0}

(* Who is above or equal is compared transitively, ... *)
LEMMA AboveTransitive ==
  ASSUME NEW c, NEW d, NEW e, Scored(c), Scored(d), Scored(e),
         Above(c, d) \/ SameCounts(c, d), Above(d, e) \/ SameCounts(d, e)
  PROVE  /\ (Above(c, d) \/ Above(d, e)) => Above(c, e)
         /\ (SameCounts(c, d) /\ SameCounts(d, e)) => SameCounts(c, e)
<1>1. PICK a, b, n \in Nat, x, y, z \in Nat \ {0} :
        /\ a = ScoreN(c) /\ b = ScoreN(d) /\ n = ScoreN(e)
        /\ x = ScoreD(c) /\ y = ScoreD(d) /\ z = ScoreD(e)
  BY DEF Scored
<1>2. /\ SameCounts(c, d) => a = b /\ x = y
      /\ SameCounts(d, e) => b = n /\ y = z
  BY <1>1 DEF SameCounts, ScoreN, ScoreD
<1>3. PICK ay, bx, bz, ny \in Nat : ay = a * y /\ bx = b * x /\ bz = b * z /\ ny = n * y
  OBVIOUS
<1>4. ay >= bx /\ bz >= ny /\ (Above(c, d) <=> ay > bx) /\ (Above(d, e) <=> bz > ny)
  <2>1. (Above(c, d) <=> ay > bx) /\ (Above(d, e) <=> bz > ny)
    BY <1>1, <1>3 DEF Above
  <2>2. (SameCounts(c, d) => ay = bx) /\ (SameCounts(d, e) => bz = ny)
    BY <1>2, <1>3
  <2> QED BY <2>1, <2>2
<1>5. (ay > bx \/ bz > ny) => a * z > n * x
  BY <1>3, <1>4, CrossTransitive
<1>6. (Above(c, d) \/ Above(d, e)) => Above(c, e)
  BY <1>1, <1>4, <1>5 DEF Above
<1> QED BY <1>6 DEF SameCounts

(* ... and the order with it: score, echo and name are compared in turn. *)
LEMMA BeforeTransitive ==
  ASSUME JoinAssumption, NEW c, NEW d, NEW e, Scored(c), Scored(d), Scored(e),
         Before(c, d), Before(d, e)
  PROVE  Before(c, e)
<1>1. /\ Above(c, d) \/ SameCounts(c, d)
      /\ Above(d, e) \/ SameCounts(d, e)
  BY DEF Before
<1>2. CASE Above(c, d) \/ Above(d, e)
  BY <1>1, <1>2, AboveTransitive DEF Before
<1>3. CASE ~(Above(c, d) \/ Above(d, e))
  <2>1. SameCounts(c, e)
    BY <1>1, <1>3, AboveTransitive
  <2>2. (Echo(c) /\ ~Echo(d)) \/ (Echo(c) <=> Echo(d))
    BY <1>3 DEF Before
  <2>3. (Echo(d) /\ ~Echo(e)) \/ (Echo(d) <=> Echo(e))
    BY <1>3 DEF Before
  <2>4. CASE Echo(c) /\ ~Echo(e)
    BY <2>1, <2>4 DEF Before
  <2>5. CASE ~(Echo(c) /\ ~Echo(e))
    <3>1. (Echo(c) <=> Echo(d)) /\ (Echo(d) <=> Echo(e))
      BY <2>2, <2>3, <2>5
    <3>2. PICK i \in DOMAIN Parents, j \in DOMAIN Parents :
            i < j /\ Parents[i] = c.parent /\ Parents[j] = d.parent
      BY <1>3, <3>1 DEF Before
    <3>3. PICK k \in DOMAIN Parents, l \in DOMAIN Parents :
            k < l /\ Parents[k] = d.parent /\ Parents[l] = e.parent
      BY <1>3, <3>1 DEF Before
    <3>4. j = k /\ DOMAIN Parents = 1..Len(Parents)
      BY <3>2, <3>3 DEF JoinAssumption
    <3>5. i < l
      BY <3>2, <3>3, <3>4
    <3> QED BY <2>1, <3>1, <3>2, <3>3, <3>5 DEF Before
  <2> QED BY <2>4, <2>5
<1> QED BY <1>2, <1>3

(* None comes before itself. *)
LEMMA BeforeIrreflexive ==
  ASSUME JoinAssumption, NEW c, Scored(c)
  PROVE  ~Before(c, c)
<1>1. ~Above(c, c)
  <2>1. ScoreN(c) * ScoreD(c) \in Nat
    BY DEF Scored
  <2> QED BY <2>1 DEF Above
<1>2. \A i, j \in DOMAIN Parents : i < j => ~(Parents[i] = c.parent /\ Parents[j] = c.parent)
  <2>1. DOMAIN Parents = 1..Len(Parents) /\ \A i, j \in DOMAIN Parents : Parents[i] = Parents[j] => i = j
    BY DEF JoinAssumption
  <2> QED BY <2>1
<1> QED BY <1>1, <1>2 DEF Before

(* With one more candidate there is still one that none comes before. *)
LEMMA LeaderStays ==
  ASSUME JoinAssumption, NEW cs, NEW e, \A c \in cs \cup {e} : Scored(c),
         cs # {} => \E c \in cs : Leads(c, cs)
  PROVE  \E c \in cs \cup {e} : Leads(c, cs \cup {e})
<1>1. CASE cs = {}
  BY <1>1, BeforeIrreflexive DEF Leads
<1>2. CASE cs # {}
  <2>1. PICK c \in cs : Leads(c, cs)
    BY <1>2
  <2>2. CASE ~Before(e, c)
    BY <2>1, <2>2 DEF Leads
  <2>3. CASE Before(e, c)
    <3>1. \A d \in cs : ~Before(d, e)
      BY <2>1, <2>3, BeforeTransitive DEF Leads
    <3> QED BY <3>1, BeforeIrreflexive DEF Leads
  <2> QED BY <2>2, <2>3
<1> QED BY <1>1, <1>2

-----------------------------------------------------------------------------
(* The invariant. *)

(* A parent taken makes a candidate with a score. *)
LEMMA TakenScored ==
  ASSUME JoinAssumption, DataTypes, NEW p \in Keys, Taken(p)
  PROVE  Scored(Candidate(p)) /\ Candidate(p).parent = p
<1>1. /\ Matched(p) \in Nat /\ Cardinality(Present) \in Nat
  BY Counts
<1>2. Cardinality(Present) # 0 /\ sizes[p] \in Nat /\ sizes[p] # 0
  <2>1. Cardinality(Present) >= MinDistinct /\ MinDistinct \in Nat \ {0} /\ sizes[p] > 0 /\ sizes[p] \in Nat
    BY DEF Taken, JoinAssumption, DataTypes
  <2> QED BY <1>1, <2>1
<1>3. /\ Candidate(p).parent = p /\ Candidate(p).matched = Matched(p)
      /\ Candidate(p).distinct = Cardinality(Present) /\ Candidate(p).size = sizes[p]
  BY DEF Candidate
<1>4. \A m \in Nat, k, l \in Nat \ {0} : m * m \in Nat /\ k * l \in Nat \ {0}
  OBVIOUS
<1> QED BY <1>1, <1>2, <1>3, <1>4 DEF Scored, ScoreN, ScoreD

LEMMA InitJoinGraph == ASSUME JoinAssumption PROVE InitJoins => JoinGraphInv
<1> SUFFICES ASSUME InitJoins PROVE JoinGraphInv
  OBVIOUS
<1>1. DataTypes
  <2>1. Len(Parents) \in Nat
    BY DEF JoinAssumption
  <2>2. PICK d \in Datasets : child = d.child /\ keys = d.keys
    BY DEF InitJoins
  <2>3. /\ DOMAIN child \subseteq Values /\ child \in [DOMAIN child -> 1..MaxCount]
        /\ keys \in [Keys -> SUBSET Values]
    BY <2>2, DatasetsAssumption
  <2> QED BY <2>1, <2>3 DEF InitJoins, DataTypes, Present
<1>2. SizesInv /\ WinnerInv
  BY DEF InitJoins, SizesInv, WinnerInv
<1>3. CandsInv
  <2>1. Tried = {}
    BY DEF Tried, InitJoins
  <2> QED BY <2>1 DEF InitJoins, CandsInv
<1> QED BY <1>1, <1>2, <1>3 DEF JoinGraphInv

(* Measuring the next pair adds its parent, new to those tried. *)
LEMMA TriedNext ==
  ASSUME JoinAssumption, DataTypes, next \in DOMAIN Parents, next' = next + 1
  PROVE  /\ Parents[next] \in Keys /\ Parents[next] \notin Tried
         /\ Tried' = Tried \cup {Parents[next]} /\ Tried \subseteq Keys
<1>1. DOMAIN Parents = 1..Len(Parents) /\ Len(Parents) \in Nat /\ next \in 1..Len(Parents)
  BY DEF JoinAssumption
<1>2. 1..((next + 1) - 1) = 1..(next - 1) \cup {next} /\ next \notin 1..(next - 1)
      /\ 1..(next - 1) \subseteq DOMAIN Parents
  BY <1>1
<1>3. Parents[next] \notin Tried
  BY <1>1, <1>2 DEF Tried, JoinAssumption
<1>4. Tried' = {Parents[i] : i \in 1..((next + 1) - 1)}
  BY DEF Tried
<1> QED BY <1>2, <1>3, <1>4 DEF Tried, Keys

(* What is known of the candidates outlasts the step that chooses among them. *)
LEMMA CandsKept ==
  ASSUME JoinAssumption, DataTypes, CandsInv, UNCHANGED <<child, keys, keylike, sizes, next, cands, missed>>
  PROVE  CandsInv'
<1>1. /\ \A q \in Keys : Candidate(q)' = Candidate(q)
      /\ \A q \in Keys : Taken(q)' <=> Taken(q)
      /\ Tried' = Tried
  BY DEF Candidate, Taken, Accepted, AtLeast, Present, Matched, OrphanRows, ChildRows, Tried
<1>2. Tried \subseteq Keys
  BY DEF Tried, Keys, DataTypes, JoinAssumption
<1>3. cands' = {Candidate(q)' : q \in {o \in Tried' \ missed' : Taken(o)'}}
  BY <1>1, <1>2 DEF CandsInv
<1>4. cands' # {} => \E c \in cands' : c \in cands' /\ \A d \in cands' : ~Before(d, c)
  BY DEF CandsInv, Leads
<1>5. missed' \subseteq Tried'
  BY <1>1 DEF CandsInv
<1> QED BY <1>3, <1>4, <1>5 DEF CandsInv, Leads, Before, Above, SameCounts, Echo, ScoreN, ScoreD

LEMMA StepJoinGraph ==
  ASSUME JoinAssumption, JoinGraphInv, [InferJoins]_joins
  PROVE  JoinGraphInv'
<1> USE DEF JoinGraphInv, data
<1>1. CASE ReadSizes
  <2> USE <1>1 DEF ReadSizes
  <2>1. DataTypes'
    BY Counts DEF DataTypes, Present
  <2>2. Tried = {} /\ Tried' = {}
    BY DEF Tried, SizesInv
  <2>3. SizesInv' /\ CandsInv' /\ WinnerInv'
    BY <2>2 DEF SizesInv, CandsInv, WinnerInv
  <2> QED BY <2>1, <2>3
<1>2. CASE ReadSizesFails
  <2> USE <1>2 DEF ReadSizesFails
  <2>1. Tried = {} /\ Tried' = {}
    BY DEF Tried, SizesInv
  <2> QED BY <2>1 DEF DataTypes, SizesInv, CandsInv, WinnerInv, Present
<1>3. CASE Measure
  <2> DEFINE p == Parents[next]
  <2>1. /\ p \in Keys /\ p \notin Tried /\ Tried' = Tried \cup {p} /\ Tried \subseteq Keys
    BY <1>3, TriedNext DEF Measure
  <2>2. DataTypes' /\ SizesInv' /\ WinnerInv'
    <3>1. DOMAIN Parents = 1..Len(Parents) /\ Len(Parents) \in Nat
      BY DEF JoinAssumption
    <3> QED BY <1>3, <3>1 DEF Measure, DataTypes, SizesInv, WinnerInv, Present
  <2>3. /\ \A q \in Keys : Candidate(q)' = Candidate(q)
        /\ \A q \in Keys : Taken(q)' <=> Taken(q)
    BY <1>3 DEF Measure, Candidate, Taken, Accepted, AtLeast, Present, Matched, OrphanRows, ChildRows
  <2>4. cands' = IF Taken(p) THEN cands \cup {Candidate(p)} ELSE cands
    BY <1>3 DEF Measure
  <2> HIDE DEF p
  <2>5. missed' = missed /\ missed \subseteq Tried
    BY <1>3 DEF Measure, CandsInv
  <2>6. cands' = {Candidate(q) : q \in {o \in Tried' \ missed' : Taken(o)}}
    BY <2>1, <2>4, <2>5 DEF CandsInv
  <2>7. cands' = {Candidate(q)' : q \in {o \in Tried' \ missed' : Taken(o)'}}
    BY <2>1, <2>3, <2>6
  <2>8. cands' # {} => \E c \in cands' : c \in cands' /\ \A d \in cands' : ~Before(d, c)
    <3>1. CASE ~Taken(p)
      BY <2>4, <3>1 DEF CandsInv, Leads
    <3>2. CASE Taken(p)
      <4>1. \A c \in cands : Scored(c)
        <5> TAKE c \in cands
        <5>1. PICK q \in Tried : Taken(q) /\ c = Candidate(q)
          BY DEF CandsInv
        <5> QED BY <2>1, <5>1, TakenScored
      <4>2. Scored(Candidate(p)) /\ Candidate(p).parent = p
        BY <2>1, <3>2, TakenScored
      <4>3. /\ \A c \in cands \cup {Candidate(p)} : Scored(c)
            /\ cands # {} => \E c \in cands : Leads(c, cands)
        BY <4>1, <4>2 DEF CandsInv
      <4>4. \E c \in cands \cup {Candidate(p)} : Leads(c, cands \cup {Candidate(p)})
        BY <4>3, LeaderStays
      <4> QED BY <2>4, <3>2, <4>4 DEF Leads
    <3> QED BY <3>1, <3>2
  <2>9. CandsInv'
    BY <2>1, <2>5, <2>7, <2>8 DEF CandsInv, Leads, Before, Above, SameCounts, Echo, ScoreN, ScoreD
  <2> QED BY <2>2, <2>9
<1>4. CASE MeasureFails
  <2> DEFINE p == Parents[next]
  <2>1. /\ p \in Keys /\ p \notin Tried /\ Tried' = Tried \cup {p} /\ Tried \subseteq Keys
    BY <1>4, TriedNext DEF MeasureFails
  <2>2. DataTypes' /\ SizesInv' /\ WinnerInv'
    <3>1. DOMAIN Parents = 1..Len(Parents) /\ Len(Parents) \in Nat
      BY DEF JoinAssumption
    <3> QED BY <1>4, <3>1 DEF MeasureFails, DataTypes, SizesInv, WinnerInv, Present
  <2>3. /\ \A q \in Keys : Candidate(q)' = Candidate(q)
        /\ \A q \in Keys : Taken(q)' <=> Taken(q)
    BY <1>4 DEF MeasureFails, Candidate, Taken, Accepted, AtLeast, Present, Matched, OrphanRows, ChildRows
  <2>4. missed' = missed \cup {p} /\ cands' = cands
    BY <1>4 DEF MeasureFails
  <2> HIDE DEF p
  <2>5. Tried' \ missed' = Tried \ missed /\ missed' \subseteq Tried'
    BY <2>1, <2>4 DEF CandsInv
  <2>6. cands' = {Candidate(q)' : q \in {o \in Tried' \ missed' : Taken(o)'}}
    BY <2>1, <2>3, <2>4, <2>5 DEF CandsInv
  <2>7. CandsInv'
    BY <2>4, <2>5, <2>6 DEF CandsInv, Leads, Before, Above, SameCounts, Echo, ScoreN, ScoreD
  <2> QED BY <2>2, <2>7
<1>5. CASE Keep
  <2>1. DataTypes' /\ SizesInv'
    BY <1>5 DEF Keep, DataTypes, SizesInv, Present
  <2>2. CandsInv'
    BY <1>5, CandsKept DEF Keep
  <2>3. WinnerInv'
    <3>1. cands' = cands /\ progress' = "kept" /\ (cands = {} => winner' = <<>>)
      BY <1>5 DEF Keep
    <3>2. ASSUME cands # {} PROVE \E w \in cands' : Chosen(w)'
      <4>1. PICK w \in cands, edge \in SUBSET cands : Leads(w, cands) /\ winner' = <<Flagged(w, edge)>>
        BY <1>5, <3>2 DEF Keep
      <4>2. Chosen(w)'
        BY <3>1, <4>1 DEF Chosen, Leads, Before, Above, SameCounts, Echo, ScoreN, ScoreD, Flagged, Within, OnEdge, Gap, Band
      <4> QED BY <3>1, <4>2
    <3> QED BY <3>1, <3>2 DEF WinnerInv
  <2> QED BY <2>1, <2>2, <2>3
<1>6. CASE UNCHANGED joins
  <2> USE <1>6 DEF joins
  <2>1. DataTypes' /\ SizesInv' /\ WinnerInv'
    <3>1. DataTypes' /\ SizesInv'
      BY DEF DataTypes, SizesInv, Present
    <3>2. \A w \in cands : Chosen(w)' <=> Chosen(w)
      BY DEF Chosen, Leads, Before, Above, SameCounts, Echo, ScoreN, ScoreD, Flagged, Within, OnEdge, Gap, Band
    <3> QED BY <3>1, <3>2 DEF WinnerInv
  <2>2. CandsInv'
    BY CandsKept
  <2> QED BY <2>1, <2>2
<1> QED BY <1>1, <1>2, <1>3, <1>4, <1>5, <1>6 DEF InferJoins

-----------------------------------------------------------------------------
(* What the invariant says of the candidate kept. *)

(* A parent fits the data by the property's bars if it is taken by the code's,
   and only then. *)
LEMMA FitsTaken ==
  ASSUME JoinAssumption, DataTypes, SizesInv, progress = "kept", NEW p \in Keys
  PROVE  (Fits(p) <=> Taken(p)) /\ sizes[p] = Cardinality(keys[p])
<1>1. sizes[p] = Cardinality(keys[p])
  BY DEF SizesInv
<1>2. /\ IsFiniteSet(keys[p]) /\ Cardinality(keys[p]) \in Nat
      /\ Matched(p) \in Nat /\ Cardinality(Present) \in Nat
  BY Counts
<1>3. keys[p] # {} <=> Cardinality(keys[p]) > 0
  BY <1>2, FS_EmptySet
<1>4. PICK n, m, k \in Nat : n = Cardinality(Present) /\ m = Matched(p) /\ k = Cardinality(keys[p])
  BY <1>2
<1>5. Fits(p) <=> /\ k > 0 /\ n >= MinDistinct
                  /\ IF keylike THEN 10 * m >= 6 * n /\ 10 * m >= k ELSE 50 * m >= 49 * n /\ 20 * m >= 17 * k
  BY <1>3, <1>4 DEF Fits, Matched
<1>6. Taken(p) <=> /\ k > 0 /\ n >= MinDistinct
                   /\ IF keylike THEN 100 * m >= 60 * n /\ 100 * m >= 10 * k
                      ELSE 100 * m >= 98 * n /\ 100 * m >= 85 * k
  BY <1>1, <1>4 DEF Taken, Accepted, AtLeast
<1>7. /\ 10 * m >= 6 * n <=> 100 * m >= 60 * n
      /\ 10 * m >= k <=> 100 * m >= 10 * k
      /\ 50 * m >= 49 * n <=> 100 * m >= 98 * n
      /\ 20 * m >= 17 * k <=> 100 * m >= 85 * k
  OBVIOUS
<1> QED BY <1>1, <1>5, <1>6, <1>7

(* The winner is a candidate of a parent measured, with its rivals beside it,
   that no other candidate comes before. *)
LEMMA WinnerLeads ==
  ASSUME JoinAssumption, JoinGraphInv, winner # <<>>
  PROVE  \E q \in Keys, edge \in SUBSET cands :
            /\ Taken(q) /\ progress = "kept"
            /\ Leads(Candidate(q), cands) /\ winner = <<Flagged(Candidate(q), edge)>>
<1>1. progress = "kept" /\ cands # {}
  BY DEF JoinGraphInv, WinnerInv
<1>2. PICK w \in cands : Chosen(w)
  BY <1>1 DEF JoinGraphInv, WinnerInv
<1>3. Tried \subseteq Keys
  BY DEF Tried, Keys, JoinGraphInv, DataTypes, JoinAssumption
<1>4. PICK q \in Keys : Taken(q) /\ w = Candidate(q)
  BY <1>3 DEF JoinGraphInv, CandsInv
<1> QED BY <1>1, <1>2, <1>4 DEF Chosen

LEMMA JoinsClean == ASSUME JoinAssumption, JoinGraphInv PROVE CleanLosesNothing
<1> SUFFICES ASSUME NEW i \in DOMAIN winner
             PROVE  Described(winner[i]).orphans
                      = Cardinality(ChildRows) - Cardinality(Joined(winner[i].parent))
  BY DEF CleanLosesNothing
<1>1. winner # <<>>
  OBVIOUS
<1>2. PICK q \in Keys, edge \in SUBSET cands : winner = <<Flagged(Candidate(q), edge)>>
  BY <1>1, WinnerLeads
<1>3. winner[i] = Flagged(Candidate(q), edge)
  BY <1>2
<1>4. /\ winner[i].parent = q /\ winner[i].orphanRows = OrphanRows(q)
      /\ winner[i].orphanValues = Cardinality(Present) - Matched(q)
  BY <1>3 DEF Flagged, Candidate
<1>5. OrphanRows(q) = Cardinality(ChildRows) - Cardinality(Joined(q))
  BY RowsSplit DEF JoinGraphInv
<1>6. CASE IsClean(winner[i])
  <2>1. Present \subseteq keys[q]
    BY <1>4, <1>6, Counts DEF IsClean, JoinGraphInv
  <2>2. {r \in ChildRows : r[1] \notin keys[q]} = {}
    <3> SUFFICES ASSUME NEW r \in ChildRows PROVE r[1] \in keys[q]
      OBVIOUS
    <3>1. r[1] \in Present
      BY DEF ChildRows
    <3> QED BY <2>1, <3>1
  <2>3. OrphanRows(q) = 0
    BY <2>2, FS_EmptySet DEF OrphanRows
  <2> QED BY <1>4, <1>5, <1>6, <2>3 DEF Described
<1>7. CASE ~IsClean(winner[i])
  BY <1>4, <1>5, <1>7 DEF Described
<1> QED BY <1>6, <1>7

(* The code's comparison of two scores is the property's, of the one kept and
   of a parent's counts. *)
LEMMA GapsAgree ==
  ASSUME JoinAssumption, JoinGraphInv, progress = "kept", NEW w, NEW q \in Keys, NEW p \in Keys,
         Taken(q), Taken(p), w.matched = Candidate(q).matched, w.distinct = Candidate(q).distinct,
         w.size = Candidate(q).size
  PROVE  /\ ~Above(Candidate(p), Candidate(q)) <=> GapN(w, p) >= 0
         /\ Within(Candidate(q), Candidate(p)) <=> 20 * GapN(w, p) < 3 * GapD(w, p)
         /\ OnEdge(Candidate(q), Candidate(p)) <=> 20 * GapN(w, p) = 3 * GapD(w, p)
<1> DEFINE c == Candidate(p)
           d == Candidate(q)
<1>1. Scored(c) /\ Scored(d)
  BY TakenScored DEF JoinGraphInv
<1>2. ScoreN(w) = ScoreN(d) /\ ScoreD(w) = ScoreD(d)
  BY DEF ScoreN, ScoreD
<1>3. ScoreN(c) = Matched(p) * Matched(p) /\ ScoreD(c) = Cardinality(Present) * Cardinality(keys[p])
  <2>1. sizes[p] = Cardinality(keys[p])
    BY FitsTaken DEF JoinGraphInv
  <2> QED BY <2>1 DEF Candidate, ScoreN, ScoreD
<1> HIDE DEF c, d
<1>4. PICK a, b \in Nat, x, y \in Nat \ {0} :
        a = ScoreN(d) /\ b = ScoreN(c) /\ x = ScoreD(d) /\ y = ScoreD(c)
  BY <1>1 DEF Scored
<1>5. PICK ay, bx, xy \in Nat : ay = a * y /\ bx = b * x /\ xy = x * y
  OBVIOUS
<1>6. GapN(w, p) = ay - bx /\ GapD(w, p) = xy
  BY <1>2, <1>3, <1>4, <1>5 DEF GapN, GapD
<1>7. 15 * x * y = 15 * xy
  BY <1>5
<1>8. Gap(d, c) = 100 * (ay - bx) /\ Band(d, c) = 15 * xy
  BY <1>4, <1>5, <1>7 DEF Gap, Band
<1>9. ~Above(c, d) <=> GapN(w, p) >= 0
  <2>1. Above(c, d) <=> bx > ay
    BY <1>4, <1>5 DEF Above
  <2>2. bx > ay <=> ~(ay - bx >= 0)
    OBVIOUS
  <2> QED BY <1>6, <2>1, <2>2, Zenon
<1>10. /\ Within(d, c) <=> 100 * (ay - bx) < 15 * xy
       /\ OnEdge(d, c) <=> 100 * (ay - bx) = 15 * xy
  BY <1>8, Zenon DEF Within, OnEdge
<1>11. /\ 100 * (ay - bx) < 15 * xy <=> 20 * (ay - bx) < 3 * xy
       /\ 100 * (ay - bx) = 15 * xy <=> 20 * (ay - bx) = 3 * xy
  OBVIOUS
<1>12. /\ Within(d, c) <=> 20 * GapN(w, p) < 3 * GapD(w, p)
       /\ OnEdge(d, c) <=> 20 * GapN(w, p) = 3 * GapD(w, p)
  BY <1>6, <1>10, <1>11, Zenon
<1> QED BY <1>9, <1>12 DEF c, d

LEMMA JoinsFlagged == ASSUME JoinAssumption, JoinGraphInv PROVE AmbiguityIsFlagged
<1> SUFFICES ASSUME progress = "kept", NEW p \in Keys \ missed, Fits(p)
             PROVE  /\ winner # <<>>
                    /\ GapN(winner[1], p) >= 0
                    /\ p # winner[1].parent /\ 20 * GapN(winner[1], p) < 3 * GapD(winner[1], p)
                         => p \in Described(winner[1]).rivals
  BY DEF AmbiguityIsFlagged, FlaggedAmong
<1>1. Taken(p)
  BY FitsTaken DEF JoinGraphInv
<1>2. p \in Tried
  <2>1. next = Len(Parents) + 1 /\ DOMAIN Parents = 1..Len(Parents) /\ Len(Parents) \in Nat
    BY DEF JoinGraphInv, SizesInv, DataTypes, JoinAssumption
  <2>2. 1..(next - 1) = DOMAIN Parents
    BY <2>1
  <2> QED BY <2>2 DEF Tried, Keys
<1>3. Candidate(p) \in cands
  BY <1>1, <1>2 DEF JoinGraphInv, CandsInv
<1>4. winner # <<>>
  BY <1>3 DEF JoinGraphInv, WinnerInv, Chosen
<1>5. PICK q \in Keys, edge \in SUBSET cands :
        Taken(q) /\ Leads(Candidate(q), cands) /\ winner = <<Flagged(Candidate(q), edge)>>
  BY <1>4, WinnerLeads
<1>6. /\ winner[1].parent = q /\ winner[1].matched = Candidate(q).matched
      /\ winner[1].distinct = Candidate(q).distinct /\ winner[1].size = Candidate(q).size
      /\ Described(winner[1]).rivals = {c.parent : c \in {d \in cands \ {Candidate(q)} :
             Within(Candidate(q), d) \/ (OnEdge(Candidate(q), d) /\ d \in edge)}}
  BY <1>5 DEF Flagged, Candidate, Described
<1>7. /\ ~Above(Candidate(p), Candidate(q)) <=> GapN(winner[1], p) >= 0
      /\ Within(Candidate(q), Candidate(p)) <=> 20 * GapN(winner[1], p) < 3 * GapD(winner[1], p)
  BY <1>1, <1>5, <1>6, GapsAgree
<1>8. ~Above(Candidate(p), Candidate(q))
  BY <1>3, <1>5 DEF Leads, Before
<1>9. ASSUME p # q, Within(Candidate(q), Candidate(p))
      PROVE  p \in Described(winner[1]).rivals
  <2>1. Candidate(p).parent = p /\ Candidate(q).parent = q
    BY DEF Candidate
  <2> QED BY <1>3, <1>6, <1>9, <2>1
<1> QED BY <1>4, <1>6, <1>7, <1>8, <1>9

(* Who is named fits, and scores almost as well. *)
LEMMA RivalsNamed == ASSUME JoinAssumption, JoinGraphInv PROVE RivalsFit
<1> SUFFICES ASSUME NEW i \in DOMAIN winner, NEW p \in Described(winner[i]).rivals
             PROVE  /\ p # winner[i].parent /\ Fits(p)
                    /\ 20 * GapN(winner[i], p) <= 3 * GapD(winner[i], p)
  BY DEF RivalsFit
<1>1. winner # <<>>
  OBVIOUS
<1>2. PICK q \in Keys, edge \in SUBSET cands :
        Taken(q) /\ progress = "kept" /\ winner = <<Flagged(Candidate(q), edge)>>
  BY <1>1, WinnerLeads
<1>3. winner[i] = Flagged(Candidate(q), edge)
  BY <1>2
<1>4. /\ winner[i].parent = q /\ winner[i].matched = Candidate(q).matched
      /\ winner[i].distinct = Candidate(q).distinct /\ winner[i].size = Candidate(q).size
      /\ Described(winner[i]).rivals = {c.parent : c \in {d \in cands \ {Candidate(q)} :
             Within(Candidate(q), d) \/ (OnEdge(Candidate(q), d) /\ d \in edge)}}
  BY <1>3 DEF Flagged, Candidate, Described
<1>5. PICK d \in cands \ {Candidate(q)} :
        p = d.parent /\ (Within(Candidate(q), d) \/ OnEdge(Candidate(q), d))
  BY <1>4
<1>6. Tried \subseteq Keys
  BY DEF Tried, Keys, JoinGraphInv, DataTypes, JoinAssumption
<1>7. PICK o \in Keys : Taken(o) /\ d = Candidate(o)
  BY <1>5, <1>6 DEF JoinGraphInv, CandsInv
<1>8. d.parent = o
  BY <1>7 DEF Candidate
<1>9. p \in Keys /\ Taken(p) /\ d = Candidate(p) /\ p # q
  BY <1>5, <1>7, <1>8
<1>10. Fits(p)
  BY <1>2, <1>9, FitsTaken DEF JoinGraphInv
<1>11. /\ ~Above(Candidate(p), Candidate(q)) <=> GapN(winner[i], p) >= 0
       /\ Within(Candidate(q), Candidate(p)) <=> 20 * GapN(winner[i], p) < 3 * GapD(winner[i], p)
       /\ OnEdge(Candidate(q), Candidate(p)) <=> 20 * GapN(winner[i], p) = 3 * GapD(winner[i], p)
  BY <1>2, <1>4, <1>9, GapsAgree
<1>12. GapN(winner[i], p) \in Int /\ GapD(winner[i], p) \in Int
  <2>1. ScoreN(winner[i]) \in Int /\ ScoreD(winner[i]) \in Int
    <3>1. Scored(Candidate(q))
      BY <1>2, TakenScored DEF JoinGraphInv
    <3>2. ScoreN(winner[i]) = ScoreN(Candidate(q)) /\ ScoreD(winner[i]) = ScoreD(Candidate(q))
      BY <1>4 DEF ScoreN, ScoreD
    <3> QED BY <3>1, <3>2 DEF Scored
  <2>2. Cardinality(Present) \in Int /\ Cardinality(keys[p]) \in Int /\ Matched(p) \in Int
    BY <1>9, Counts DEF JoinGraphInv
  <2> QED BY <2>1, <2>2 DEF GapN, GapD
<1>13. 20 * GapN(winner[i], p) <= 3 * GapD(winner[i], p)
  BY <1>5, <1>9, <1>11, <1>12
<1> QED BY <1>4, <1>9, <1>10, <1>13

(* Whatever was measured, one of the candidates can be kept: infer_joins does
   not stop for want of a first. *)
LEMMA SomeoneLeads ==
  ASSUME JoinGraphInv, cands # {}
  PROVE  \E w \in cands : Leads(w, cands)
BY DEF JoinGraphInv, CandsInv

(* JoinsAreHonest: the parent kept is outranked by none of those measured that
   fit the data, each whose score is less than 0.15 lower is named beside it
   and none that is more, and the rows said to be lost are those an INNER JOIN
   loses: joins.infer_joins. *)
THEOREM JoinsHonest == JoinSpec => []JoinsAreHonest
<1>1. InitJoins => JoinGraphInv
  BY JoinAssumption, InitJoinGraph
<1>2. JoinGraphInv /\ [InferJoins]_joins => JoinGraphInv'
  BY JoinAssumption, StepJoinGraph
<1>3. JoinGraphInv => JoinsAreHonest
  BY JoinAssumption, JoinsClean, JoinsFlagged, RivalsNamed DEF JoinsAreHonest
<1> QED BY <1>1, <1>2, <1>3, PTL DEF JoinSpec
=============================================================================
