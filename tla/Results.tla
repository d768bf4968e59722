------------------------------- MODULE Results -------------------------------
(***************************************************************************)
(* What is made of the files eval/run.py writes, while it may be writing   *)
(* them: the report (eval/report.py), the data the dashboard shows without *)
(* a server (web/build_data.py, from web/server.py dashboard_payload), and *)
(* the check that these are those of eval/out                              *)
(* (scripts/check_dashboard_data.py).                                      *)
(*                                                                         *)
(* Data: of a baked run its content matters, of the report the two files   *)
(* it compares.  Questions, defects and their titles do not change.        *)
(***************************************************************************)
EXTENDS EvalRun

CONSTANT Unbaked       \* data.js was not generated yet

VARIABLES page,        \* the runs data.js holds: name -> file
          verdict,     \* of the last check, until something is written
          table        \* the last report's lift: the summaries compared, or none

results == <<page, verdict, table>>

(* _runs: what is unreadable is skipped. *)
Runs == {name \in Names : files[name] \notin {NoFile, Broken}}

Bake ==
  /\ page' = [name \in Runs |-> files[name]]
  /\ verdict' = "none"
  /\ UNCHANGED <<eval, table>>

(* Faulty: a file that was not baked is passed over. *)
StaleNamesOfBaked ==
  {name \in Runs \cap DOMAIN page :
     <<page[name].summary.correct, page[name].summary.total>>
       # <<files[name].summary.correct, files[name].summary.total>>}

(* A file that is baked and not in eval/out, or cannot be read, is a note. *)
StaleNames ==
  {name \in Runs : \/ name \notin DOMAIN page
                   \/ <<page[name].summary.correct, page[name].summary.total>>
                        # <<files[name].summary.correct, files[name].summary.total>>}

Check ==
  /\ verdict' = IF page = Unbaked \/ StaleNames # {} THEN "stale" ELSE "current"
  /\ UNCHANGED <<eval, page, table>>

(* report.py main: the untagged files of both arms, whoever wrote them when;
   a file that does not parse ends it. *)
Load(arm) == files[<<arm, "">>]
NoLift == {}
Lifted(b, h) == {t \in Tags : b.n[t] > 0 /\ h.n[t] > 0}

Report ==
  /\ \A arm \in Arms : Load(arm) # Broken
  /\ LET b == Load("baseline")  h == Load("harness") IN
     table' = IF NoFile \in {b, h} THEN NoLift
              ELSE {[tag |-> t, base |-> b, harness |-> h] : t \in Lifted(b.summary, h.summary)}
  /\ UNCHANGED <<eval, page, verdict>>

(* What was printed is printed, what was checked may be so no more. *)
Evaluating ==
  /\ Evaluate
  /\ verdict' = IF files' = files THEN verdict ELSE "none"
  /\ UNCHANGED <<page, table>>

Init == InitEval /\ page = Unbaked /\ verdict = "none" /\ table = NoLift
Next == Evaluating \/ Bake \/ Check \/ Report
Spec == Init /\ [][Next]_<<eval, results>>

-----------------------------------------------------------------------------
(* Properties. *)
TypeOK ==
  /\ EvalTypeOK
  /\ page = Unbaked \/ DOMAIN page \subseteq Names
  /\ verdict \in {"none", "current", "stale"}

(* The page shows arms that were evaluated to their end, in full, whatever
   was being written while it was baked; and when the check finds it current,
   every arm on disk is there with its score. *)
PageIsEarned ==
  page # Unbaked =>
    /\ \A name \in DOMAIN page : page[name] # Broken /\ page[name].summary = Summarize(page[name].records)
    /\ verdict = "current" => \A name \in Written :
         name \in DOMAIN page /\ page[name].summary.correct = files[name].summary.correct
                              /\ page[name].summary.total = files[name].summary.total

(* Both sides of a lift are over questions with the defect, and over as many
   of them when one call wrote both, whatever failed in it. *)
Comparable ==
  \A row \in table :
    /\ row.base.summary.n[row.tag] # 0 /\ row.harness.summary.n[row.tag] # 0
    /\ row.base.run = row.harness.run =>
         /\ row.base.summary.n = row.harness.summary.n
         /\ row.base.summary.total = row.harness.summary.total

(* "Same model, same questions": both sides are, whoever wrote them. *)
SameQuestions ==
  \A row \in table : [i \in DOMAIN row.base.records |-> row.base.records[i].id]
                       = [i \in DOMAIN row.harness.records |-> row.harness.records[i].id]

(* "Verify web/static/data.js still matches the source data it was baked
   from": a page found current shows the arms on disk. *)
CurrentIsSame ==
  verdict = "current" => \A name \in Written : page[name].records = files[name].records
=============================================================================
