------------------------------ MODULE JoinGraph ------------------------------
(***************************************************************************)
(* harness/joins.py infer_joins for one child column: the size of every    *)
(* primary key is read, then every pair of the column and a key is         *)
(* measured with a query of its own, and the best parent is kept, with     *)
(* those that score almost as well as its alternatives.                    *)
(*                                                                         *)
(* Parents are the keys the column is compared with: those of its kind of  *)
(* type, the column itself excepted.                                       *)
(*                                                                         *)
(* Data: a column is the number of its rows holding each of its values     *)
(* (NULLs are not counted), a key the set of its values.  A share is one   *)
(* division, as exact in the code as the fraction compared here.  A score  *)
(* is a product of two, and the gap of two scores a difference: where they *)
(* are equal as fractions their floats may not be, and either outcome of   *)
(* the comparison may be the program's.                                    *)
(***************************************************************************)
EXTENDS Integers, Sequences, FiniteSets

CONSTANTS Values,      \* values of the columns
          MaxCount,    \* bound: rows of the child that hold one value
          Datasets,    \* [child, keys]: the columns considered, with the keys beside them
          Parents,     \* primary keys, in the order of their tables' names
          Echoes,      \* parents whose table's name the child column echoes
          MinDistinct, \* _MIN_DISTINCT
          CanFail      \* BOOLEAN: may the query about a pair fail?

Keys == {Parents[i] : i \in DOMAIN Parents}

\* A key is known by the names of its table and column, which are its own.
ASSUME JoinAssumption ==
  /\ IsFiniteSet(Values) /\ MaxCount \in Nat /\ MinDistinct \in Nat \ {0} /\ CanFail \in BOOLEAN
  /\ Parents \in Seq(Keys) /\ \A i, j \in DOMAIN Parents : Parents[i] = Parents[j] => i = j
  /\ Echoes \subseteq Keys

ASSUME DatasetsAssumption ==
  \A d \in Datasets :
    /\ DOMAIN d.child \subseteq Values /\ d.child \in [DOMAIN d.child -> 1..MaxCount]
    /\ d.keys \in [Keys -> SUBSET Values]

VARIABLES child,   \* value of the child column -> rows with it
          keys,    \* parent -> its values
          keylike, \* does the column's name look like a key?
          sizes,   \* parent_sizes
          next,    \* the pair to measure
          cands,   \* candidates of the child so far
          winner,  \* the candidate kept, as a sequence of at most one
          missed,  \* history: the parents whose query failed
          progress \* "sizes", "pairs", "kept", "raised"

joins == <<child, keys, keylike, sizes, next, cands, winner, missed, progress>>
data == <<child, keys, keylike>>

-----------------------------------------------------------------------------
(* What the query about a pair returns. *)

Present == DOMAIN child
Matched(p) == Cardinality(Present \cap keys[p])

(* The rows of the child whose column is not NULL: a value and a number each. *)
ChildRows == {r \in Present \X (1..MaxCount) : r[2] <= child[r[1]]}
OrphanRows(p) == Cardinality({r \in ChildRows : r[1] \notin keys[p]})

(* n/d is at least pct percent. *)
AtLeast(n, d, pct) == 100 * n >= pct * d

Accepted(matched, distinct, size) ==
  IF keylike THEN AtLeast(matched, distinct, 60) /\ AtLeast(matched, size, 10)
  ELSE AtLeast(matched, distinct, 98) /\ AtLeast(matched, size, 85)

Candidate(p) ==
  [parent |-> p, matched |-> Matched(p), distinct |-> Cardinality(Present),
   size |-> sizes[p], orphanValues |-> Cardinality(Present) - Matched(p),
   orphanRows |-> OrphanRows(p), alternatives |-> {}]

(* What the model is told of a join: the orphan rows unless it is clean, and
   the parents that fit almost as well. *)
IsClean(c) == c.orphanValues = 0
Described(c) == [orphans |-> IF IsClean(c) THEN 0 ELSE c.orphanRows, rivals |-> c.alternatives]

(* score = containment * coverage, as a fraction *)
ScoreN(c) == c.matched * c.matched
ScoreD(c) == c.distinct * c.size
Above(c, d) == ScoreN(c) * ScoreD(d) > ScoreN(d) * ScoreD(c)
(* Equal in every count, and so in their floats. *)
SameCounts(c, d) == c.matched = d.matched /\ c.distinct = d.distinct /\ c.size = d.size

(* _AMBIGUITY_BAND: strictly within it, or on its edge. *)
Gap(c, d) == 100 * (ScoreN(c) * ScoreD(d) - ScoreN(d) * ScoreD(c))
Band(c, d) == 15 * ScoreD(c) * ScoreD(d)
Within(c, d) == Gap(c, d) < Band(c, d)
OnEdge(c, d) == Gap(c, d) = Band(c, d)

Echo(c) == c.parent \in Echoes
(* Faulty: the name is looked at before the score. *)
BeforeByName(c, d) ==
  \/ Echo(c) /\ ~Echo(d)
  \/ (Echo(c) <=> Echo(d)) /\ Above(c, d)

(* The sort key: score, then the echo of the name, then the name.  Of scores
   that are equal by different counts either may come out above. *)
Before(c, d) ==
  \/ Above(c, d)
  \/ SameCounts(c, d) /\ Echo(c) /\ ~Echo(d)
  \/ /\ SameCounts(c, d) /\ (Echo(c) <=> Echo(d))
     /\ \E i, j \in DOMAIN Parents : i < j /\ Parents[i] = c.parent /\ Parents[j] = d.parent

-----------------------------------------------------------------------------
InitJoins ==
  /\ \E d \in Datasets : child = d.child /\ keys = d.keys
  /\ keylike \in BOOLEAN
  /\ sizes = [p \in Keys |-> 0] /\ next = 1 /\ cands = {} /\ winner = <<>>
  /\ missed = {} /\ progress = "sizes"

ReadSizes ==
  /\ progress = "sizes"
  /\ sizes' = [p \in Keys |-> Cardinality(keys[p])]
  /\ progress' = "pairs"
  /\ UNCHANGED <<data, next, cands, winner, missed>>

(* The query about a size is in no try: infer_joins raises. *)
ReadSizesFails ==
  /\ progress = "sizes" /\ CanFail
  /\ progress' = "raised"
  /\ UNCHANGED <<data, sizes, next, cands, winner, missed>>

(* An empty key, a column with too few values and a pair below the bars are
   passed over. *)
Taken(p) == /\ sizes[p] > 0 /\ Cardinality(Present) >= MinDistinct
            /\ Accepted(Matched(p), Cardinality(Present), sizes[p])

Measure ==
  /\ progress = "pairs" /\ next \in DOMAIN Parents
  /\ cands' = IF Taken(Parents[next]) THEN cands \cup {Candidate(Parents[next])} ELSE cands
  /\ next' = next + 1
  /\ UNCHANGED <<data, sizes, winner, missed, progress>>

(* The query raises: the pair is passed over, like one that did not fit. *)
MeasureFails ==
  /\ progress = "pairs" /\ next \in DOMAIN Parents
  /\ CanFail /\ sizes[Parents[next]] > 0
  /\ next' = next + 1
  /\ missed' = missed \cup {Parents[next]}
  /\ UNCHANGED <<data, sizes, cands, winner, progress>>

Leads(c, cs) == c \in cs /\ \A d \in cs : ~Before(d, c)

(* The others within the band, and of those on its edge some, by their counts. *)
Flagged(w, edge) ==
  [w EXCEPT !.alternatives = {c.parent : c \in {d \in cands \ {w} : Within(w, d) \/ (OnEdge(w, d) /\ d \in edge)}}]

Keep ==
  /\ progress = "pairs" /\ next \notin DOMAIN Parents
  /\ \/ cands = {} /\ winner' = <<>>
     \/ \E w \in cands, edge \in SUBSET cands :
          /\ Leads(w, cands)
          /\ \A c, d \in cands : SameCounts(c, d) => (c \in edge <=> d \in edge)
          /\ winner' = <<Flagged(w, edge)>>
  /\ progress' = "kept"
  /\ UNCHANGED <<data, sizes, next, cands, missed>>

InferJoins == ReadSizes \/ ReadSizesFails \/ Measure \/ MeasureFails \/ Keep

JoinSpec == InitJoins /\ [][InferJoins]_joins

-----------------------------------------------------------------------------
(* Properties. *)

JoinTypeOK ==
  /\ sizes \in [Keys -> Nat] /\ next \in 1..Len(Parents) + 1
  /\ \A c \in cands : c.parent \in Keys /\ c.orphanValues \in Nat /\ c.orphanRows \in Nat
  /\ Len(winner) <= 1 /\ missed \subseteq Keys /\ progress \in {"sizes", "pairs", "kept", "raised"}

(* The rows an INNER JOIN with a parent returns. *)
Joined(p) == {r \in ChildRows : r[1] \in keys[p]}

(* What the model is told agrees with the data: the orphan rows it reads are
   those an INNER JOIN would drop, and a join described as clean drops none,
   though it is called clean by counting values and the rows are counted by
   another part of the query. *)
CleanLosesNothing ==
  \A i \in DOMAIN winner :
    Described(winner[i]).orphans = Cardinality(ChildRows) - Cardinality(Joined(winner[i].parent))

Fits(p) ==
  /\ keys[p] # {} /\ Cardinality(Present) >= MinDistinct
  /\ LET n == Cardinality(Present)  m == Cardinality(Present \cap keys[p])
         k == Cardinality(keys[p])
     IN  IF keylike THEN 10 * m >= 6 * n /\ 10 * m >= k
         ELSE 50 * m >= 49 * n /\ 20 * m >= 17 * k

(* How far the score of the one kept is above a parent's, as a fraction. *)
GapN(w, p) == ScoreN(w) * (Cardinality(Present) * Cardinality(keys[p])) - Matched(p) * Matched(p) * ScoreD(w)
GapD(w, p) == ScoreD(w) * (Cardinality(Present) * Cardinality(keys[p]))

(* Rather than guess: of the parents that fit the data and were measured the
   one kept is no worse than any, a name cannot outrank evidence, and every
   other one whose score is less than 0.15 lower is named beside it. *)
FlaggedAmong(parents) ==
  progress = "kept" => \A p \in parents : Fits(p) =>
    /\ winner # <<>>
    /\ LET w == winner[1] IN
       /\ GapN(w, p) >= 0
       /\ p # w.parent /\ 20 * GapN(w, p) < 3 * GapD(w, p) => p \in Described(w).rivals

(* A parent named beside the one kept is another that fits the data, and its
   score is at most 0.15 lower. *)
RivalsFit ==
  \A i \in DOMAIN winner : \A p \in Described(winner[i]).rivals :
    p # winner[i].parent /\ Fits(p) /\ 20 * GapN(winner[i], p) <= 3 * GapD(winner[i], p)

AmbiguityIsFlagged == FlaggedAmong(Keys \ missed)

(* The model's INNER JOIN loses what it was told it would lose, to a parent no
   measured one outranks, and the rivals named are those there are: what describe says of a pair,
   scored and counted by different expressions, is so in the data. *)
JoinsAreHonest == AmbiguityIsFlagged /\ RivalsFit /\ CleanLosesNothing

(* "Genuinely ambiguous cases flagged rather than silently resolved": the same
   of every parent, measured or not. *)
AmbiguityIsNeverSilent == FlaggedAmong(Keys)
=============================================================================
