------------------------------ MODULE SchemaCard ------------------------------
(***************************************************************************)
(* The prompts a server builds once and serves for ever: the getters of    *)
(* web/server.py _Runner, which build under a lock, the lazy caches of     *)
(* harness/agent.py _ToolBox, which have none, and the schema card of      *)
(* harness/schema_card.py, read table by table from a database that may be *)
(* seeded again between two queries and may fail in any of them.           *)
(*                                                                         *)
(* Data: a table has one column; of its contents the card tells the number *)
(* of rows and values.  The join graph is a set of pairs.  What a question *)
(* does with its prompt is AgentLoop's.                                    *)
(***************************************************************************)
EXTENDS Integers, Sequences, FiniteSetsExt

CONSTANTS Workers,     \* threads, each answering one question
          Leavers,     \* those whose clients may leave before the end
          Tables,      \* sequence of tables, in the order of their names
          Versions,    \* how often the database is seeded
          Data,        \* version -> table -> [rows, values]
          Ranged,      \* tables whose column has one of _RANGE_TYPES
          Graph,       \* version -> pairs infer_joins finds when no query fails
          DomainLimit, \* `limit` of _enumerate_small_domains
          SampleSize,  \* `n` of _sample_values
          Nobody, None

ASSUME CardAssumption ==
  /\ Leavers \subseteq Workers /\ Nobody \notin Workers
  /\ Versions \in Nat \ {0} /\ DomainLimit \in Nat /\ SampleSize \in Nat \ {0}

(* A table holds finitely many rows, and of its column finitely many values. *)
ASSUME DataAssumption ==
  /\ Tables \in Seq(STRING)
  /\ \A v \in 1..Versions : \A i \in DOMAIN Tables :
       /\ Data[v][Tables[i]].rows \in Nat
       /\ Data[v][Tables[i]].values \subseteq Int /\ IsFiniteSet(Data[v][Tables[i]].values)

VARIABLES version,  \* of the database
          lock,     \* _Runner._lock: its holder, or Nobody
          runner,   \* the fields of _Runner that are not None
          builds,   \* history: how often each field was assigned
          box,      \* _joins and _card of the toolbox
          pc,       \* worker -> where it is
          todo,     \* worker -> the getters it will still call
          local,    \* worker -> what it holds of a card under way
          left,     \* workers whose client has left
          met       \* history: have two workers run together?

vars == <<version, lock, runner, builds, box, pc, todo, local, left, met>>

Fields == {"llm", "ddl", "toolbox"}
Asks == {<<"ddl">>, <<"toolbox">>, <<"ddl", "toolbox">>}
Active(w) == pc[w] \notin {"idle", "done"}

NoBox == [joins |-> None, card |-> None]
NoWork == [since |-> 0, joins |-> None, lines |-> <<>>, rows |-> 0, card |-> None]

-----------------------------------------------------------------------------
(* What the queries of a card return. *)

Now(t) == Data[version][t]

(* GROUP BY ... LIMIT limit + 1, and nothing when there are more than limit. *)
(* Faulty: LIMIT limit, so that a cut list looks complete. *)
SmallDomainsCut(t) ==
  IF Cardinality(Now(t).values) <= DomainLimit THEN {Now(t).values}
  ELSE kSubset(DomainLimit, Now(t).values)

SmallDomains(t) ==
  IF Cardinality(Now(t).values) <= DomainLimit THEN {Now(t).values} ELSE {{}}

Samples(t) ==
  LET vs == Now(t).values IN
  IF vs = {} THEN {[kind |-> "all NULL", values |-> {}]}
  ELSE IF t \in Ranged THEN {[kind |-> "range", values |-> {Min(vs), Max(vs)}]}
  ELSE {[kind |-> "examples", values |-> s] :
          s \in kSubset(IF Cardinality(vs) < SampleSize THEN Cardinality(vs) ELSE SampleSize, vs)}

Unknown == [kind |-> "?", values |-> {}]

-----------------------------------------------------------------------------
Init ==
  /\ version = 1 /\ lock = Nobody /\ runner = {} /\ builds = [f \in Fields |-> 0]
  /\ box = NoBox /\ pc = [w \in Workers |-> "idle"] /\ todo = [w \in Workers |-> <<>>]
  /\ local = [w \in Workers |-> NoWork] /\ left = {} /\ met = FALSE

Reseed ==
  /\ version < Versions
  /\ version' = version + 1
  /\ UNCHANGED <<lock, runner, builds, box, pc, todo, local, left, met>>

(* The gate lets a question in when none is open; one whose client left is
   not, though its worker runs on. *)
Begin(w) ==
  /\ pc[w] = "idle"
  /\ \A o \in Workers : Active(o) => o \in left
  /\ \E ask \in Asks : todo' = [todo EXCEPT ![w] = <<"llm">> \o ask]
  /\ pc' = [pc EXCEPT ![w] = "get"]
  /\ met' = (met \/ \E o \in Workers : Active(o))
  /\ UNCHANGED <<version, lock, runner, builds, box, local, left>>

Leave(w) ==
  /\ w \in Leavers \ left /\ Active(w)
  /\ left' = left \cup {w}
  /\ UNCHANGED <<version, lock, runner, builds, box, pc, todo, local, met>>

Finish(w) ==
  /\ pc[w] = "get" /\ todo[w] = <<>>
  /\ pc' = [pc EXCEPT ![w] = "done"]
  /\ UNCHANGED <<version, lock, runner, builds, box, todo, local, left, met>>

-----------------------------------------------------------------------------
(* _Runner.llm, .ddl, .toolbox: `with self._lock: if None: build; return`. *)

Wants(w) == Head(todo[w])

(* With the toolbox in hand the worker turns to its card, otherwise to the
   next getter. *)
Obtained(w) ==
  /\ pc' = [pc EXCEPT ![w] = IF Wants(w) = "toolbox" THEN "card" ELSE "get"]
  /\ todo' = [todo EXCEPT ![w] = Tail(@)]

(* Faulty: the field is looked at before the lock is taken. *)
EnterUnlocked(w) ==
  /\ pc[w] = "get" /\ todo[w] # <<>> /\ Wants(w) \notin runner
  /\ lock' = w
  /\ pc' = [pc EXCEPT ![w] = "build"]
  /\ UNCHANGED <<version, runner, builds, box, todo, local, left, met>>

Enter(w) ==
  /\ pc[w] = "get" /\ todo[w] # <<>> /\ Wants(w) \notin runner
  /\ lock = Nobody
  /\ lock' = w
  /\ pc' = [pc EXCEPT ![w] = "build"]
  /\ UNCHANGED <<version, runner, builds, box, todo, local, left, met>>

Get(w) ==
  /\ pc[w] = "get" /\ todo[w] # <<>> /\ Wants(w) \in runner
  /\ lock = Nobody
  /\ Obtained(w)
  /\ UNCHANGED <<version, lock, runner, builds, box, local, left, met>>

Build(w) ==
  /\ pc[w] = "build"
  /\ runner' = runner \cup {Wants(w)}
  /\ builds' = [builds EXCEPT ![Wants(w)] = @ + 1]
  /\ box' = IF Wants(w) = "toolbox" THEN NoBox ELSE box
  /\ lock' = Nobody
  /\ Obtained(w)
  /\ UNCHANGED <<version, local, left, met>>

(* A frozen provider, a database that is away: no model ends the question
   (fatal), no DDL ends its arm.  The field stays None. *)
(* Faulty: the lock is not given back. *)
BuildRaisesLocked(w) ==
  /\ pc[w] = "build" /\ Wants(w) # "toolbox"
  /\ pc' = [pc EXCEPT ![w] = "get"]
  /\ todo' = [todo EXCEPT ![w] = IF Wants(w) = "llm" THEN <<>> ELSE Tail(@)]
  /\ UNCHANGED <<version, lock, runner, builds, box, local, left, met>>

BuildRaises(w) ==
  /\ pc[w] = "build" /\ Wants(w) # "toolbox"
  /\ lock' = Nobody
  /\ pc' = [pc EXCEPT ![w] = "get"]
  /\ todo' = [todo EXCEPT ![w] = IF Wants(w) = "llm" THEN <<>> ELSE Tail(@)]
  /\ UNCHANGED <<version, runner, builds, box, local, left, met>>

-----------------------------------------------------------------------------
(* _ToolBox.card and .joins: each looks at its field, fills it when it is None
   and returns what is in it then. *)

Goto(w, where) == pc' = [pc EXCEPT ![w] = where]

LookAtCard(w) ==
  /\ pc[w] = "card"
  /\ IF box.card = None THEN Goto(w, "joins") /\ UNCHANGED local
     ELSE Goto(w, "told") /\ local' = [local EXCEPT ![w].card = box.card]
  /\ UNCHANGED <<version, lock, runner, builds, box, todo, left, met>>

(* The first query of a card follows: its connection, the list of columns. *)
LookAtJoins(w) ==
  /\ pc[w] = "joins"
  /\ IF box.joins = None THEN Goto(w, "infer") ELSE Goto(w, "count")
  /\ local' = [local EXCEPT ![w].since = version, ![w].joins = box.joins, ![w].lines = <<>>]
  /\ UNCHANGED <<version, lock, runner, builds, box, todo, left, met>>

(* infer_joins: any pair may be lost to a failed query. *)
Infer(w) ==
  /\ pc[w] = "infer"
  /\ \E pairs \in SUBSET UNION {Graph[v] : v \in local[w].since..version} :
       box' = [box EXCEPT !.joins = pairs]
  /\ Goto(w, "joins")
  /\ UNCHANGED <<version, lock, runner, builds, todo, local, left, met>>

Table(w) == Tables[Len(local[w].lines) + 1]
Missing(w) == Len(local[w].lines) < Len(Tables)

Count(w) ==
  /\ pc[w] = "count" /\ Missing(w)
  /\ local' = [local EXCEPT ![w].rows = Now(Table(w)).rows]
  /\ Goto(w, "domain")
  /\ UNCHANGED <<version, lock, runner, builds, box, todo, left, met>>

Line(w, what) ==
  local' = [local EXCEPT ![w].lines =
    Append(@, [table |-> Table(w), rows |-> local[w].rows, kind |-> what.kind, values |-> what.values])]

(* An empty list, also that of a failed query, leads to a sample. *)
Enumerate(w) ==
  /\ pc[w] = "domain"
  /\ \E vs \in SmallDomains(Table(w)) \cup {{}} :
       IF vs = {} THEN Goto(w, "sample") /\ UNCHANGED local
       ELSE Goto(w, "count") /\ Line(w, [kind |-> "all", values |-> vs])
  /\ UNCHANGED <<version, lock, runner, builds, box, todo, left, met>>

Sample(w) ==
  /\ pc[w] = "sample"
  /\ \E what \in Samples(Table(w)) \cup {Unknown} : Line(w, what)
  /\ Goto(w, "count")
  /\ UNCHANGED <<version, lock, runner, builds, box, todo, left, met>>

(* Faulty: the join graph is dropped once it is in the card. *)
StoreCardOnly(w) ==
  /\ pc[w] = "count" /\ ~Missing(w)
  /\ box' = [joins |-> None,
             card |-> [lines |-> local[w].lines, joins |-> local[w].joins,
                       since |-> local[w].since, until |-> version]]
  /\ local' = [local EXCEPT ![w] = NoWork]
  /\ Goto(w, "card")
  /\ UNCHANGED <<version, lock, runner, builds, todo, left, met>>

StoreCard(w) ==
  /\ pc[w] = "count" /\ ~Missing(w)
  /\ box' = [box EXCEPT !.card = [lines |-> local[w].lines, joins |-> local[w].joins,
                                  since |-> local[w].since, until |-> version]]
  /\ local' = [local EXCEPT ![w] = NoWork]
  /\ Goto(w, "card")
  /\ UNCHANGED <<version, lock, runner, builds, todo, left, met>>

(* The tables' keys are counted outside of any try: the arm ends. *)
InferRaises(w) ==
  /\ pc[w] = "infer"
  /\ Goto(w, "raised")
  /\ UNCHANGED <<version, lock, runner, builds, box, todo, local, left, met>>

(* So are a card's connection, its list of columns and the size of a table:
   nothing of it is stored. *)
RenderRaises(w) ==
  /\ pc[w] = "count" /\ Missing(w)
  /\ Goto(w, "raised")
  /\ UNCHANGED <<version, lock, runner, builds, box, todo, local, left, met>>

(* The arm has run, its tools reading the caches as they went, or raised. *)
ArmEnds(w) ==
  /\ pc[w] \in {"told", "raised"}
  /\ local' = [local EXCEPT ![w] = NoWork]
  /\ Goto(w, "get")
  /\ UNCHANGED <<version, lock, runner, builds, box, todo, left, met>>

Work(w) ==
  \/ Enter(w) \/ Get(w) \/ Build(w) \/ BuildRaises(w) \/ Finish(w)
  \/ LookAtCard(w) \/ LookAtJoins(w) \/ Infer(w) \/ Count(w) \/ Enumerate(w) \/ Sample(w)
  \/ InferRaises(w) \/ StoreCard(w) \/ RenderRaises(w) \/ ArmEnds(w)

Next == Reseed \/ \E w \in Workers : Begin(w) \/ Leave(w) \/ Work(w)

(* Threads are scheduled and their queries time out. *)
Spec == Init /\ [][Next]_vars /\ \A w \in Workers : WF_vars(Work(w))

-----------------------------------------------------------------------------
(* Properties. *)

CardLine == [table : {Tables[i] : i \in DOMAIN Tables}, rows : Nat,
          kind : {"all", "examples", "range", "all NULL", "?"}, values : SUBSET Int]

Places == {"idle", "get", "build", "card", "joins", "infer", "count", "domain", "sample",
           "told", "raised", "done"}

TypeOK ==
  /\ version \in 1..Versions /\ lock \in Workers \cup {Nobody} /\ runner \subseteq Fields
  /\ builds \in [Fields -> Nat] /\ left \subseteq Workers /\ met \in BOOLEAN
  /\ pc \in [Workers -> Places]
  /\ \A w \in Workers : local[w].lines \in Seq(CardLine) /\ todo[w] \in Seq(Fields)

(* Each of the server's shared things is built once, however many threads ask
   for it at once: there is one toolbox, whose results the gate protects. *)
BuiltOnce == \A f \in Fields : builds[f] <= (IF f \in runner THEN 1 ELSE 0)

(* What a worker is told of a table was so in the database at some moment of
   the card's making: its size; all values, when it says all; values of it,
   when it says examples; no value, when it says there is none. *)
TrueLine(line, v) ==
  LET vs == Data[v][line.table].values IN
  CASE line.kind = "all" -> line.values = vs
    [] line.kind = "examples" -> line.values # {} /\ line.values \subseteq vs
    [] line.kind = "range" -> vs # {} /\ line.values = {Min(vs), Max(vs)}
    [] line.kind = "all NULL" -> vs = {}
    [] line.kind = "?" -> TRUE

CardIsTrue ==
  \A w \in Workers : pc[w] = "told" =>
    LET card == local[w].card IN
    /\ [i \in DOMAIN card.lines |-> card.lines[i].table] = Tables
    /\ \A i \in DOMAIN card.lines :
         /\ \E v \in card.since..card.until : Data[v][card.lines[i].table].rows = card.lines[i].rows
         /\ \E v \in card.since..card.until : TrueLine(card.lines[i], v)

(* The joins a question's card lists are those its infer_joins tool returns,
   as long as no two workers ever ran together. *)
OneJoinGraph ==
  ~met => \A w \in Workers : pc[w] = "told" => local[w].card.joins = box.joins

(* The same when a worker is left behind. *)
OneJoinGraphAlways ==
  \A w \in Workers : pc[w] = "told" => local[w].card.joins = box.joins

(* Nobody waits for the lock for ever, whatever raises while it is held. *)
EveryCallerReturns == \A w \in Workers : Active(w) ~> pc[w] = "done"

(* "A schema card must never be the thing that breaks the run." *)
CardNeverBreaksRun == \A w \in Workers : pc[w] # "raised" \/ local[w].joins = None
=============================================================================
