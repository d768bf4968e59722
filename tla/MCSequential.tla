---------------------------- MODULE MCSequential ----------------------------
(* TLC instances of the parts that run alone and share nothing: generator and
   profiler, inference of joins, grading.  One run checks them side by side. *)
EXTENDS Profile, JoinGraph, Grade

Nothing == [customers |-> 0, duplicates |-> 0, bases |-> {"Labs"}, tiers |-> {"growth"}, starts |-> {0},
            billed |-> FALSE, events |-> 0, tickets |-> 0, deals |-> 0, skus |-> 0, churn |-> FALSE,
            columns |-> {}]
With(fields) == [f \in DOMAIN Nothing |-> IF f \in DOMAIN fields THEN fields[f] ELSE Nothing[f]]

\* One part of the data at a time, beside the customers it needs.
MCSizes ==
  {With([customers |-> 2, duplicates |-> 1, bases |-> {"Labs", "Group"}, columns |-> {<<"customers", "company_name">>}]),
   With([customers |-> 2, tiers |-> {"free", "growth"},
         columns |-> {<<"customers", "plan_tier">>, <<"subscriptions", "ended_on">>}]),
   With([customers |-> 1, tiers |-> {"free", "growth"}, starts |-> {0, 1}, billed |-> TRUE,
         columns |-> {<<"invoices", "paid_at">>}]),
   With([customers |-> 2, churn |-> TRUE, columns |-> {<<"churn_log", "reason_code">>}]),
   With([events |-> 3, columns |-> {<<"usage_events", "event_value">>}]),
   With([tickets |-> 3, columns |-> {<<"support_tickets", "csat">>}]),
   With([deals |-> 3, columns |-> {<<"deals", "close_dt">>}]),
   With([skus |-> 2, columns |-> {<<"product_catalog", "is_current">>}])}

MCColumns == {<<"customers", "company_name">>, <<"customers", "plan_tier">>, <<"subscriptions", "ended_on">>,
              <<"invoices", "paid_at">>, <<"usage_events", "event_value">>, <<"support_tickets", "csat">>,
              <<"deals", "close_dt">>, <<"product_catalog", "is_current">>, <<"churn_log", "reason_code">>}
MCText == {<<"customers", "company_name">>, <<"customers", "plan_tier">>, <<"usage_events", "event_value">>}
MCNames == {<<"customers", "company_name">>}
\* "Numeric magnitude, stored as text.", "1-5, ...", "1=price ... 4=competitor"
MCComment ==
  [c \in MCColumns |->
     CASE c[2] \in {"plan_tier", "event_value"} -> {}
       [] c[2] = "csat" -> {1, 5}
       [] c[2] = "reason_code" -> 1..4
       [] OTHER -> NULL]
MCStatusLike ==
  [t \in TableNames |-> CASE t \in {"subscriptions", "invoices"} -> {"status"}
                          [] t = "deals" -> {"status", "stage"}
                          [] OTHER -> {}]
MCLetters == (NULL :> "") @@ (", Inc." :> "inc") @@ (" Inc" :> "inc") @@ (" LLC" :> "llc")

\* Every column of up to four values (values are alike: the first ones) against two keys ...
MCValues == 1..50
Keyed(a, b) == [key \in {"accounts", "customers"} |-> IF key = "accounts" THEN a ELSE b]
MCSmall ==
  UNION {{[child |-> c, keys |-> Keyed(a, b)] : c \in [1..k -> 1..2], a, b \in SUBSET (1..4)} : k \in 0..4}

\* ... and what falls on a bar, with its neighbour below: k values, and two keys.
Edge(k, a, b) == [child |-> [v \in 1..k |-> 1], keys |-> Keyed(a, b)]
MCEdges ==
  {Edge(50, 1..49, 1..48),                     \* containment 98% and 96%
   Edge(17, 1..20, 1..21),                     \* coverage 85% and 81%
   Edge(5, 1..3, 1..2),                        \* containment 60% and 40%
   Edge(5, (1..3) \cup (6..32), (1..3) \cup (6..33)),  \* coverage 10%, and less
   Edge(17, 1..17, 1..20),                     \* scores 1 and 0.85
   Edge(17, 1..17, 1..21),                     \* scores 1 and 0.81
   Edge(6, 1..9, 1..4)}                        \* scores 2/3 by different counts
MCDatasets == MCSmall \cup MCEdges

MCParents == <<"accounts", "customers">>
MCEchoes == {"customers"}

GradeRow(values, width) == [1..width -> values \cup {Null}]
GradeTables(values, rows, width) ==
  UNION {[1..k -> GradeRow(values, w)] : k \in 0..rows, w \in 1..width}

\* Small tables of three numbers, two of which round to the same, and single
\* numbers on both sides of the limit of digits, and of one more digit.
MCResults == GradeTables({0, 128, 132}, 2, 2)
             \cup GradeTables(0..120 \cup 985..1015 \cup {1040, 1049, 1050, 1051}, 1, 1)
\* Numbers around a boundary of rounding.
MCBoundary == GradeTables(1030..1070, 1, 1)

NoProfiling == /\ n = Nothing /\ stage = "none" /\ tables = <<>> /\ seed = <<>> /\ InitProfile
NoJoins == /\ child = <<>> /\ keys = <<>> /\ keylike = FALSE /\ sizes = <<>> /\ next = 0 /\ cands = {}
           /\ winner = <<>> /\ missed = {} /\ progress = "none"
NoGrading == goldRows = <<>> /\ candRows = <<>> /\ graded = "idle" /\ why = "none"

Init ==
  \/ InitDataset /\ InitProfile /\ NoJoins /\ NoGrading
  \/ NoProfiling /\ InitJoins /\ NoGrading
  \/ NoProfiling /\ NoJoins /\ InitGrade

Next ==
  \/ GenerateThenProfile /\ UNCHANGED <<joins, grade>>
  \/ InferJoins /\ UNCHANGED <<dataset, profile, grade>>
  \/ GradeRows /\ UNCHANGED <<dataset, profile, joins>>

Spec == Init /\ [][Next]_<<dataset, profile, joins, grade>>
=============================================================================
