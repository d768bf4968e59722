------------------------------- MODULE EvalRun -------------------------------
(***************************************************************************)
(* eval/run.py: main and run_arm, called again and again.  A call puts the *)
(* questions it selects to one arm after the other; every question is      *)
(* graded against its gold query, the records of an arm are kept in memory *)
(* and written over an earlier file of the name when the arm is over.      *)
(*                                                                         *)
(* Data: what an arm returns is whether its rows are empty, the gold rows  *)
(* or others, and whether an error came with them (a harness run may hand  *)
(* over rows AND an error).  There is one provider.  Timings, usage, SQL   *)
(* texts and printing are left out.                                        *)
(***************************************************************************)
EXTENDS Naturals, Sequences, FiniteSets

CONSTANTS Selections,  \* what --limit and --only leave: sequences of questions
          Tags,        \* defect ids, and "control" for a question with none
          TagsOf,      \* question -> its tags
          Suffixes,    \* values of --tag; "" is none
          MaxRuns,     \* bound: calls of main
          NoFile, Broken

ASSUME EvalAssumption ==
  /\ Selections \subseteq Seq(DOMAIN TagsOf)
  /\ \A q \in DOMAIN TagsOf : TagsOf[q] \in (SUBSET Tags) \ {{}}
  /\ "" \in Suffixes /\ MaxRuns \in Nat

VARIABLES status,    \* "idle", "asking", "answering", "writing"
          run,       \* the number of the call
          asked,     \* the questions it selected
          suffix,    \* its --tag
          plan,      \* the arms still to run, the current one first
          gold,      \* gold rows of the question being asked: "none", "empty" or "rows"
          records,   \* the current arm's records, in memory
          files,     \* name -> what eval/out holds
          lost       \* history: has a call ended with records in memory?

eval == <<status, run, asked, suffix, plan, gold, records, files, lost>>

Arms == {"dry", "baseline", "harness"}
Plans == {<<"dry">>, <<"baseline">>, <<"harness">>, <<"baseline", "harness">>}
Names == Arms \X Suffixes
Answer == [rows : {"empty", "gold", "other"}, error : BOOLEAN]

(* bool(res.rows) and matches(gold, res.rows) *)
Correct(res) == res.rows = "gold"

(* What an arm can return for gold rows of the given kind: an empty candidate
   equals empty gold rows, but is never called "gold" since bool([]) is
   false; the baseline has rows or an error, never both. *)
Answers(a, kind) ==
  CASE a = "dry" -> {[rows |-> IF kind = "rows" THEN "gold" ELSE "empty", error |-> FALSE]}
    [] a = "baseline" -> {res \in Answer : /\ res.rows = "gold" => kind = "rows"
                                           /\ res.error => res.rows = "empty"}
    [] a = "harness" -> {res \in Answer : res.rows = "gold" => kind = "rows"}

(* Faulty: the record of a failed gold query has no defect ids. *)
GoldFailedUntagged(q) == [id |-> q, correct |-> FALSE, tags |-> {}]

GoldFailed(q) == [id |-> q, correct |-> FALSE, tags |-> TagsOf[q]]

Graded(q, res) == [id |-> q, correct |-> Correct(res), tags |-> TagsOf[q]]

Summarize(recs) ==
  [total |-> Len(recs),
   correct |-> Cardinality({i \in DOMAIN recs : recs[i].correct}),
   n |-> [t \in Tags |-> Cardinality({i \in DOMAIN recs : t \in recs[i].tags})],
   ok |-> [t \in Tags |-> Cardinality({i \in DOMAIN recs : t \in recs[i].tags /\ recs[i].correct})]]

-----------------------------------------------------------------------------
InitEval ==
  /\ status = "idle" /\ run = 0 /\ asked = <<>> /\ suffix = "" /\ plan = <<>>
  /\ gold = "none" /\ records = <<>> /\ files = [name \in Names |-> NoFile] /\ lost = FALSE

(* main: a call that selects no question, or finds no healthy model, returns
   before it has done anything. *)
Start ==
  /\ status = "idle" /\ run < MaxRuns
  /\ run' = run + 1
  /\ asked' \in Selections /\ suffix' \in Suffixes /\ plan' \in Plans
  /\ status' = "asking" /\ records' = <<>>
  /\ UNCHANGED <<gold, files, lost>>

Question == asked[Len(records) + 1]
Asking == status = "asking" /\ plan # <<>> /\ Len(records) < Len(asked)

(* Faulty: "continue" without a record of its own. *)
GoldQueryFailsAgain ==
  /\ Asking
  /\ records' = Append(records, GoldFailed(asked[1]))
  /\ UNCHANGED <<status, run, asked, suffix, plan, gold, files, lost>>

GoldQueryFails ==
  /\ Asking
  /\ records' = Append(records, GoldFailed(Question))
  /\ UNCHANGED <<status, run, asked, suffix, plan, gold, files, lost>>

GoldQuery ==
  /\ Asking
  /\ gold' \in {"empty", "rows"}
  /\ status' = "answering"
  /\ UNCHANGED <<run, asked, suffix, plan, records, files, lost>>

ArmAnswers ==
  /\ status = "answering"
  /\ \E res \in Answers(Head(plan), gold) : records' = Append(records, Graded(Question, res))
  /\ gold' = "none"
  /\ status' = "asking"
  /\ UNCHANGED <<run, asked, suffix, plan, files, lost>>

(* The call is over; what it had in memory is gone. *)
Over ==
  /\ status' = "idle" /\ plan' = <<>> /\ records' = <<>> /\ gold' = "none"
  /\ lost' = (lost \/ records # <<>>)

(* box.card, or execute_sql outside a try, raises through run_arm and main:
   the traceback ends the process. *)
ArmRaises ==
  /\ status = "answering" /\ Head(plan) # "dry"
  /\ Over
  /\ UNCHANGED <<run, asked, suffix, files>>

(* write_text truncates the file, then writes it ... *)
OpenFile ==
  /\ status = "asking" /\ plan # <<>> /\ Len(records) = Len(asked)
  /\ files' = [files EXCEPT ![<<Head(plan), suffix>>] = Broken]
  /\ status' = "writing"
  /\ UNCHANGED <<run, asked, suffix, plan, gold, records, lost>>

WriteArm ==
  /\ status = "writing"
  /\ files' = [files EXCEPT ![<<Head(plan), suffix>>] =
                 [run |-> run, records |-> records, summary |-> Summarize(records)]]
  /\ plan' = Tail(plan) /\ records' = <<>>
  /\ status' = "asking"
  /\ UNCHANGED <<run, asked, suffix, gold, lost>>

(* ... or dies between: no prefix of the JSON parses. *)
Dies ==
  /\ status = "writing"
  /\ Over
  /\ UNCHANGED <<run, asked, suffix, files>>

Exit ==
  /\ status = "asking" /\ plan = <<>>
  /\ Over
  /\ UNCHANGED <<run, asked, suffix, files>>

Evaluate ==
  \/ Start \/ GoldQueryFails \/ GoldQuery \/ ArmAnswers \/ ArmRaises \/ OpenFile \/ WriteArm
  \/ Dies \/ Exit

-----------------------------------------------------------------------------
(* Properties. *)

Record == [id : DOMAIN TagsOf, correct : BOOLEAN, tags : SUBSET Tags]

EvalTypeOK ==
  /\ status \in {"idle", "asking", "answering", "writing"} /\ run \in 0..MaxRuns
  /\ records \in Seq(Record) /\ gold \in {"none", "empty", "rows"} /\ suffix \in Suffixes
  /\ \A name \in Names : files[name] \in {NoFile, Broken} \/ files[name].records \in Seq(Record)

Written == {name \in Names : files[name] \notin {NoFile, Broken}}

(* Every arm written holds one record per question selected, in the order
   asked, and no other: a gold query that fails still leaves a record, and
   none is graded twice. *)
OneRecordPerQuestion ==
  \A name \in Written : \E s \in Selections :
    /\ Len(files[name].records) = Len(s)
    /\ \A i \in DOMAIN s : files[name].records[i].id = s[i]

(* "A crash on question 7 must not discard the six results already earned". *)
EarnedIsKept == ~lost
=============================================================================
