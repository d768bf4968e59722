------------------------------- MODULE SqlGate -------------------------------
(***************************************************************************)
(* The one way a query reaches the database: harness/execute.py            *)
(* execute_sql (pre-flight, run, notes) over harness/db.py assert_read_only*)
(* and run_query.  Every step opens its own connection, so the database    *)
(* may be away for one and back for the next, and may grow in between.     *)
(*                                                                         *)
(* The process runs with HARNESS_KNOWLEDGE=discovered: notes come from the *)
(* artifact's claims and not from the hand-written list.                   *)
(*                                                                         *)
(* Data: a query is what the gate can tell of it: how many statements it   *)
(* parses to (0 also when it does not parse), their kind, whether a        *)
(* mutation or a blocked function hides inside, the LIMIT the model wrote, *)
(* if any, and the columns it mentions.  A note is what it is about and the*)
(* claim whose text it gives, by its place among the active claims.        *)
(***************************************************************************)
EXTENDS Integers, Sequences, SequencesExt

CONSTANTS Queries,    \* the queries asked
          MaxRows,    \* cfg.max_rows
          ShownRows,  \* rows of an answer the model is shown (max_rows)
          RowBound,   \* bound: rows a query has in the database
          TermLists,  \* the lists of active claims, each as its list of columns
          CanSkip     \* BOOLEAN: may callers pass skip_explain (run_baseline does)?

NoLimit == -1

ASSUME GateAssumption ==
  /\ Queries # {} /\ MaxRows \in Nat \ {0} /\ ShownRows \in Nat /\ RowBound \in Nat /\ CanSkip \in BOOLEAN
  /\ \A q \in Queries : q.limit \in Nat \cup {NoLimit} /\ q.statements \in Nat

ASSUME NotesAssumption == TermLists \subseteq Seq(Seq(STRING))

VARIABLES pc,       \* "idle", "explain", "run", "notes", "done", "raised"
          query,    \* the query asked
          skip,     \* skip_explain
          sent,     \* history: what this call sent to the database
          matching, \* rows the query has in the database, when it was run
          learned,  \* learned_terms() of the process
          result    \* the dict handed back

vars == <<pc, query, skip, sent, matching, learned, result>>

-----------------------------------------------------------------------------
(* db.py *)

(* Faulty: only the outermost statement is looked at. *)
ReadOnlyTop(q) == q.statements = 1 /\ q.kind \in {"select", "union", "show"}

ReadOnly(q) ==
  /\ q.statements = 1
  /\ q.kind \in {"select", "union", "show"}
  /\ ~q.mutates /\ ~q.blocked

(* _apply_row_cap: a plain SELECT without a LIMIT gets one. *)
Limit(q) == IF q.kind = "select" /\ q.limit = NoLimit THEN MaxRows ELSE q.limit

Rows(q, n) == IF Limit(q) \in 0..(n - 1) THEN Limit(q) ELSE n

Failure == [ok |-> FALSE, rows |-> 0, null |-> FALSE, truncated |-> FALSE, error |-> TRUE,
            notes |-> <<>>]

(* n rows found; null: the answer is a single value, and it is NULL. *)
Answer(q, n, null) == [ok |-> TRUE, rows |-> Rows(q, n), null |-> null,
                       truncated |-> Rows(q, n) >= MaxRows, error |-> FALSE, notes |-> <<>>]

-----------------------------------------------------------------------------
(* execute.py: the notes. *)

Note(about, claim) == [about |-> about, claim |-> claim]
General(about) == Note(about, 0)    \* of no claim

(* Faulty: a claim is over at its first column in the query, noted before or not. *)
NoteFirst(noted, k, columns, q) ==
  LET touched == {i \in DOMAIN columns : columns[i] \in q.columns}
  IN  IF \/ touched = {}
         \/ \E j \in DOMAIN noted : noted[j].about = columns[Min(touched)]
      THEN noted ELSE Append(noted, Note(columns[Min(touched)], k))

(* _defect_notes over the claims: the k-th gives its text once, for the first
   column of its own that the query mentions and no earlier claim noted; it
   gives none when there is no such column. *)
NoteTerm(noted, k, columns, q) ==
  LET fresh == {i \in DOMAIN columns : /\ columns[i] \in q.columns
                                       /\ \A j \in DOMAIN noted : noted[j].about # columns[i]}
  IN  IF fresh = {} THEN noted ELSE Append(noted, Note(columns[Min(fresh)], k))

ColumnNotes(terms, q) ==
  LET noted[i \in 0..Len(terms)] ==
        IF i = 0 THEN <<>> ELSE NoteTerm(noted[i - 1], i, terms[i], q)
  IN  noted[Len(terms)]

(* sanity_check *)
Notes(r, terms, q) ==
  (IF r.rows = 0 THEN <<General("zero rows")>> ELSE <<>>)
    \o (IF r.null THEN <<General("null")>> ELSE <<>>)
    \o ColumnNotes(terms, q)
    \o (IF r.truncated THEN <<General("truncated")>> ELSE <<>>)

(* format_result_for_model: the first rows, how many more there are, the notes. *)
FormatForModel(r) ==
  LET shown == Min({r.rows, ShownRows})
  IN  [shown |-> shown, unseen |-> r.rows - shown, notes |-> r.notes]

-----------------------------------------------------------------------------
NoQuery == CHOOSE q \in Queries : TRUE

Init ==
  /\ pc = "idle" /\ query = NoQuery /\ skip = FALSE
  /\ sent = {} /\ matching = 0 /\ result = Failure
  /\ learned \in TermLists

Call ==
  /\ pc \in {"idle", "done", "raised"}
  /\ query' \in Queries
  /\ skip' \in (IF CanSkip THEN BOOLEAN ELSE {FALSE})
  /\ pc' = (IF skip' THEN "run" ELSE "explain")
  /\ sent' = {} /\ result' = Failure
  /\ UNCHANGED <<matching, learned>>

(* explain: refused before it is sent; or sent, and then failed or estimated
   above the row limit ("done"), or approved ("run"). *)
Explain ==
  /\ pc = "explain"
  /\ \/ ~ReadOnly(query) /\ pc' = "done" /\ UNCHANGED sent
     \/ /\ ReadOnly(query)
        /\ sent' = sent \cup {<<"explain", query>>}
        /\ pc' \in {"done", "run"}
  /\ UNCHANGED <<query, skip, matching, learned, result>>

(* An EXPLAIN that fails without a message is no reason to stop. *)
ExplainFailsSilently ==
  /\ pc = "explain" /\ ReadOnly(query)
  /\ sent' = sent \cup {<<"explain", query>>}
  /\ pc' = "run"
  /\ UNCHANGED <<query, skip, matching, learned, result>>

RunRefused ==
  /\ pc = "run" /\ ~ReadOnly(query)
  /\ pc' = "notes"
  /\ UNCHANGED <<query, skip, sent, matching, learned, result>>

(* run_query: the capped text is sent, and an answer or an error comes back. *)
Run ==
  /\ pc = "run" /\ ReadOnly(query)
  /\ sent' = sent \cup {<<"run", query>>}
  /\ \/ UNCHANGED <<matching, result>>
     \/ \E n \in 0..RowBound, null \in BOOLEAN :
          /\ null => Rows(query, n) = 1
          /\ matching' = n /\ result' = Answer(query, n, null)
  /\ pc' = "notes"
  /\ UNCHANGED <<query, skip, learned>>

SanityCheck ==
  /\ pc = "notes"
  /\ result' = (IF result.ok
                THEN [result EXCEPT !.notes = Notes(result, learned, query)] ELSE result)
  /\ pc' = "done"
  /\ UNCHANGED <<query, skip, sent, matching, learned>>

(* learned_terms raises on an artifact it cannot load: the rows are lost. *)
SanityCheckRaises ==
  /\ pc = "notes" /\ result.ok
  /\ pc' = "raised"
  /\ UNCHANGED <<query, skip, sent, matching, learned, result>>

Next == Call \/ Explain \/ ExplainFailsSilently \/ RunRefused \/ Run
        \/ SanityCheck \/ SanityCheckRaises

Spec == Init /\ [][Next]_vars

-----------------------------------------------------------------------------
(* Properties. *)

Columns == UNION {q.columns : q \in Queries}

TypeOK ==
  /\ pc \in {"idle", "explain", "run", "notes", "done", "raised"}
  /\ query \in Queries /\ skip \in BOOLEAN
  /\ sent \subseteq {"explain", "run"} \X Queries
  /\ matching \in 0..RowBound /\ learned \in TermLists
  /\ result.rows \in 0..RowBound
  /\ result.notes \in Seq([about : Columns \cup {"zero rows", "null", "truncated"}, claim : Nat])

(* Nothing that could change the data is ever sent, by any path: not as the
   text of an EXPLAIN, not after an EXPLAIN that was skipped or failed. *)
OnlyReadsAreSent ==
  \A s \in sent : LET q == s[2] IN
    q.statements = 1 /\ ~q.mutates /\ ~q.blocked /\ q.kind # "write"

(* The model never takes a part of an answer for the whole: whenever the rows
   it is shown and the rows it is told are not shown are fewer than the query
   has, a note says that the answer was cut. *)
CutAnswersSaySo ==
  pc = "done" /\ result.ok /\ query.limit = NoLimit =>
    LET text == FormatForModel(result) IN
      text.shown + text.unseen < matching => Contains(text.notes, General("truncated"))

(* What the artifact knows of the columns of an answer is told within a budget:
   one text for a column and one for a claim, each under the claim it is from.
   So a claim about a column of the query is told, or that column has been noted
   for an EARLIER claim, and then the text of the later one is not: what a
   reader can count on is some claim about each column, the first that got it. *)
EveryColumnOnce ==
  pc = "done" /\ result.ok =>
    LET told == {n \in Range(result.notes) : n.claim # 0}
        Touched(k) == {c \in query.columns : Contains(learned[k], c)}
    IN /\ \A i, j \in DOMAIN result.notes : result.notes[i] = result.notes[j] => i = j
       /\ \A m, n \in told : m.about = n.about \/ m.claim = n.claim => m = n
       /\ \A n \in told : n.claim \in DOMAIN learned /\ n.about \in Touched(n.claim)
       /\ \A k \in DOMAIN learned : \A c \in Touched(k) :
            \E n \in told : n.claim = k \/ (n.claim < k /\ n.about = c)

(* An answer comes with what is wrong with it: that it was cut, and what the
   artifact's first claim knows of each column it is computed from. *)
AnswersCarryNotes == CutAnswersSaySo /\ EveryColumnOnce

(* "Add a LIMIT if the model did not write one": an answer to a query
   without one is never longer than the cap. *)
NoLimitIsCapped ==
  pc = "done" /\ result.ok /\ query.limit = NoLimit => result.rows <= MaxRows
=============================================================================
