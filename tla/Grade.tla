-------------------------------- MODULE Grade --------------------------------
(***************************************************************************)
(* Grading by execution match, eval/grade.py and its use in run_arm: both  *)
(* result sets are normalized (every number rounded to SigDigits           *)
(* significant digits, every row sorted, the rows sorted) and compared,    *)
(* unless the candidate returned nothing, which is wrong.                  *)
(*                                                                         *)
(* Data: a value is a natural number in units of the last digit it is      *)
(* computed with, and Null stands for everything _scalarize leaves apart   *)
(* from numbers.  Sorting a row, or the rows, forgets an order: a sorted   *)
(* row is the bag of its values, the sorted rows the bag of those.         *)
(***************************************************************************)
EXTENDS Naturals, Sequences, Functions, FiniteSets

CONSTANTS SigDigits,  \* SIG_DIGITS, scaled to the values at hand
          Results,    \* the results graded: sequences of rows, sequences of
                      \* cells that hold a number or Null
          Null        \* a value that is no number

ASSUME GradeAssumption ==
  /\ SigDigits \in Nat \ {0} /\ Null \notin Nat
  /\ \A result \in Results : result \in Seq(Seq(Nat \cup {Null}))

VARIABLES goldRows,  \* what the gold query returned
          candRows,  \* res.rows
          graded,    \* "none" until it is, then "correct" or "wrong"
          why        \* the kind of text kept as "mismatch"

grade == <<goldRows, candRows, graded, why>>

-----------------------------------------------------------------------------
Pow10(n) ==
  LET pow[i \in 0..n] == IF i = 0 THEN 1 ELSE 10 * pow[i - 1] IN pow[n]

(* The number of digits of x > 0. *)
Digits(x) == CHOOSE d \in 1..x : Pow10(d - 1) <= x /\ x < Pow10(d)

(* round() to a multiple of unit, ties to even. *)
RoundTo(x, unit) ==
  LET q == x \div unit
      r == x % unit
  IN  unit * (IF 2 * r > unit \/ (2 * r = unit /\ q % 2 = 1) THEN q + 1 ELSE q)

RoundSig(x) ==
  IF x = 0 \/ Digits(x) <= SigDigits THEN x ELSE RoundTo(x, Pow10(Digits(x) - SigDigits))

Scalarize(v) == IF v = Null THEN Null ELSE RoundSig(v)

(* The bag of the members of a sequence. *)
BagOf(s) == [e \in {s[i] : i \in DOMAIN s} |-> Cardinality({i \in DOMAIN s : s[i] = e})]

(* Faulty: the columns are not sorted. *)
NormalizeRowInOrder(row) == [c \in DOMAIN row |-> Scalarize(row[c])]

NormalizeRow(row) == BagOf([c \in DOMAIN row |-> Scalarize(row[c])])
Normalize(rows) == BagOf([i \in DOMAIN rows |-> NormalizeRow(rows[i])])

Matches(g, c) == Normalize(g) = Normalize(c)

Explain(g, c) ==
  IF Matches(g, c) THEN "match"
  ELSE IF c = <<>> THEN "no rows"
  ELSE IF Len(g) # Len(c) THEN "row count"
  ELSE "rows differ"

-----------------------------------------------------------------------------
InitGrade ==
  /\ goldRows \in Results /\ candRows \in Results
  /\ graded = "none" /\ why = "none"

GradeRows ==
  /\ graded = "none"
  /\ graded' = (IF candRows # <<>> /\ Matches(goldRows, candRows) THEN "correct" ELSE "wrong")
  /\ why' = (IF graded' = "correct" THEN "none" ELSE Explain(goldRows, candRows))
  /\ UNCHANGED <<goldRows, candRows>>

GradeSpec == InitGrade /\ [][GradeRows]_grade

-----------------------------------------------------------------------------
(* Properties. *)

GradeTypeOK ==
  /\ goldRows \in Results /\ candRows \in Results
  /\ graded \in {"none", "correct", "wrong"}
  /\ why \in {"none", "match", "no rows", "row count", "rows differ"}

(* Strict on values, lenient on presentation: an answer is graded correct
   exactly when it has rows and they can be paired one to one with the gold ones,
   and in each pair the columns can be paired one to one, so that what is paired
   is one number after rounding.  Neither order nor column order decides;
   duplicates and extra columns do. *)
PresentsSame(g, c) ==
  \E f \in Bijection(DOMAIN g, DOMAIN c) : \A i \in DOMAIN g :
    \E h \in Bijection(DOMAIN g[i], DOMAIN c[f[i]]) :
      \A k \in DOMAIN g[i] : Scalarize(g[i][k]) = Scalarize(c[f[i]][h[k]])

StrictOnValues ==
  graded \in {"correct", "wrong"} =>
    (graded = "correct" <=> candRows # <<>> /\ PresentsSame(goldRows, candRows))

OneNumber(result) == Len(result) = 1 /\ Len(result[1]) = 1 /\ result[1][1] # Null

(* No number of the right magnitude that differs in a digit that counts is
   taken for the gold one: numbers of at most SigDigits digits are compared
   exactly, and others to within a unit of the last digit that counts, of the
   longer of the two (996 is 1040 to two digits: both are 1000). *)
CountsStayDistinct ==
  graded = "correct" /\ OneNumber(goldRows) /\ OneNumber(candRows) =>
    LET g == goldRows[1][1]  c == candRows[1][1]
        digits == IF Digits(g) < Digits(c) THEN Digits(c) ELSE Digits(g)
    IN  g # c => /\ digits > SigDigits
                 /\ (IF g < c THEN c - g ELSE g - c) <= Pow10(digits - SigDigits)

(* The text kept for a wrong answer, which another call of the comparison
   reached, says why: it is not "match" but for an empty answer to a question
   that has none, and where it names a number of rows the numbers differ. *)
ExplanationFits ==
  graded \in {"correct", "wrong"} =>
    /\ graded = "correct" <=> why = "none"
    /\ why = "match" => goldRows = <<>> /\ candRows = <<>>
    /\ why = "row count" => Len(goldRows) # Len(candRows) /\ candRows # <<>>
    /\ why = "no rows" => goldRows # <<>> /\ candRows = <<>>

(* What is graded correct is correct, and the run's file says why the rest is
   not: eval/grade.py as a whole against its docstring. *)
GradesAreExact == StrictOnValues /\ CountsStayDistinct /\ ExplanationFits

(* "Loose enough to absorb 'gold applied ROUND(), the candidate did not'":
   numbers closer than the tolerance of 1 in 10^SigDigits match. *)
AbsorbsNoise ==
  graded = "wrong" /\ OneNumber(goldRows) /\ OneNumber(candRows) => LET g == goldRows[1][1]  c == candRows[1][1] IN
       (IF g < c THEN c - g ELSE g - c) * Pow10(SigDigits) > g
=============================================================================
