---------------------------- MODULE MCSchemaCard ----------------------------
(* TLC instances of SchemaCard: a column of dates that a reseed empties, and
   one of codes that has too many values to list until it is seeded again. *)
EXTENDS SchemaCard

MCTables == <<"codes", "dates">>
MCData == <<[codes |-> [rows |-> 2, values |-> {1, 2}],
             dates |-> [rows |-> 2, values |-> {5, 6}]],
            [codes |-> [rows |-> 2, values |-> {1}],
             dates |-> [rows |-> 0, values |-> {}]]>>
MCGraph == <<{"j1"}, {"j1"}>>
=============================================================================
