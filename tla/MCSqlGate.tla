---------------------------- MODULE MCSqlGate ----------------------------
(* TLC instances of SqlGate: one query of every shape the gate tells apart. *)
EXTENDS SqlGate

Query == [statements |-> 1, kind |-> "select", mutates |-> FALSE, blocked |-> FALSE,
          limit |-> NoLimit, columns |-> {"a", "b"}]

MCQueries ==
  {Query, [Query EXCEPT !.limit = 0], [Query EXCEPT !.limit = 1], [Query EXCEPT !.limit = 3, !.columns = {"b"}],
   [Query EXCEPT !.statements = 2], [Query EXCEPT !.statements = 0],
   [Query EXCEPT !.kind = "write"], [Query EXCEPT !.mutates = TRUE],
   [Query EXCEPT !.blocked = TRUE], [Query EXCEPT !.kind = "union"],
   [Query EXCEPT !.columns = {}]}
MCUnion == {Query, [Query EXCEPT !.kind = "union"]}

\* Claims on one column, on both, on a column no query mentions.
MCTermLists ==
  {<<>>} \cup UNION {[1..n -> {<<"a">>, <<"a", "b">>, <<"b", "a">>, <<"c">>}] : n \in 1..3}
=============================================================================
