------------------------------ MODULE MCEvalRun ------------------------------
(* TLC instances of EvalRun and Results: a question with two defects and a
   control question; all questions, or the first. *)
EXTENDS Results
MCTags == {"D1", "D2", "control"}
MCTagsOf == <<{"D1", "D2"}, {"control"}>>
MCSelections == {<<1, 2>>, <<1>>}
=============================================================================
