------------------------------ MODULE GradedRun ------------------------------
(***************************************************************************)
(* What run_harness promises its callers (eval/run.py, web/server.py):     *)
(* whatever the model does, the answer handed over for a question is the   *)
(* last query that succeeded while THAT question was being worked on, or   *)
(* nothing at all.  `latest` is that query's result, `answer` what the     *)
(* caller sees when the question is over.                                  *)
(***************************************************************************)
EXTENDS Naturals

CONSTANTS ResultsFor(_),    \* the results that belong to question number q
          NoResult

VARIABLES phase, question, latest, answer

vars == <<phase, question, latest, answer>>

Init == /\ phase = "over"
        /\ question = 0
        /\ latest = NoResult
        /\ answer = NoResult

Begin == /\ phase = "over"
         /\ phase' = "working"
         /\ question' = question + 1
         /\ latest' = NoResult
         /\ answer' = NoResult

Succeed == /\ phase = "working"
           /\ latest' \in ResultsFor(question)
           /\ UNCHANGED <<phase, question, answer>>

HandOver == /\ phase = "working"
            /\ phase' = "over"
            /\ answer' = latest
            /\ UNCHANGED <<question, latest>>

\* The call raised: nothing is handed over, whatever had been found.
Raise == /\ phase = "working"
         /\ phase' = "over"
         /\ UNCHANGED <<question, latest, answer>>

Next == Begin \/ Succeed \/ HandOver \/ Raise

Spec == Init /\ [][Next]_vars
=============================================================================
