---------------------------- MODULE MCDiscovery ----------------------------
(* TLC instances of Discovery: a proof, one that stops holding, and the shapes verify_claim rejects. *)
EXTENDS Discovery

A(v, columns) == [rows |-> 1, columns |-> columns, number |-> TRUE, value |-> v]
P(key, columns, words, answer) ==
  [key |-> key, sql |-> "select", tables |-> {"customers"}, discriminates |-> TRUE,
   columns |-> columns, words |-> words, answer |-> answer]
E1 == {"evidence"}

Proof == P("tier", {"plan_tier"}, {"plan_tier"}, <<A(1, E1), A(3, E1)>>)
Vanishes == [Proof EXCEPT !.key = "tz", !.answer = <<A(2, E1), A(0, E1)>>]
Constant == [Proof EXCEPT !.tables = {}, !.answer = <<A(1, E1), A(1, E1)>>]
Tautology == [Proof EXCEPT !.discriminates = FALSE]
OffTopic == [Proof EXCEPT !.words = {"name"}]
Deletes == [Proof EXCEPT !.sql = "delete"]
Wide == [Proof EXCEPT !.key = "wide", !.answer = <<A(1, E1 \cup {"n"}), A(1, E1 \cup {"n"})>>]

MCRowsIn == <<[customers |-> 2], [customers |-> 3]>>
MCProposals == {Proof, Vanishes, Constant, Tautology, OffTopic, Deletes}
MCWide == {Proof, Wide}
=============================================================================
