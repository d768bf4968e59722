------------------------------- MODULE Profile -------------------------------
(***************************************************************************)
(* harness/profile.py profile_column, the tool that looks at a column of   *)
(* the database data/generate.py made: a query counts, a query or two for  *)
(* each check finds what to warn of.  The database may be seeded again     *)
(* between two queries: its tables are made anew at once and their rows    *)
(* appear together, with the COMMIT of seed.sql.  A query may fail.        *)
(*                                                                         *)
(* Data: a profile is its counts and its warnings; of a comment only what  *)
(* it mentions matters, of a name what is left of it once it is lowered    *)
(* and stripped of all but letters.  Samples and statistics are left out.  *)
(***************************************************************************)
EXTENDS Dataset

CONSTANTS Columns,    \* the columns profiled: <<table, name>>
          TextColumns,\* those of _TEXT_TYPES
          NameColumns,\* those whose name tells of a name
          Comment,    \* column -> values whose text its comment contains, or NULL
          StatusLike, \* table -> its columns among status, state, stage
          Letters,    \* suffix of a company's name -> what is left of it
          DomainMax,  \* most values _check_low_cardinality enumerates
          NameMin,    \* least values _check_duplicate_entities looks at
          Curated     \* BOOLEAN: curated_hints_enabled

ASSUME ProfileAssumption ==
  /\ TextColumns \subseteq Columns /\ NameColumns \subseteq Columns
  /\ DomainMax \in Nat /\ NameMin \in Nat /\ Curated \in BOOLEAN

(* What schema.sql declares of the columns that the generator fills. *)
ASSUME SchemaAssumption ==
  /\ \A size \in Sizes : size.columns \subseteq Columns
  /\ \A c \in Columns : c[1] \in TableNames
  /\ TextColumns \subseteq {<<"customers", "company_name">>, <<"customers", "plan_tier">>,
                            <<"subscriptions", "tier">>, <<"subscriptions", "status">>,
                            <<"invoices", "status">>, <<"usage_events", "event_value">>,
                            <<"deals", "stage">>, <<"deals", "status">>}
  /\ <<"usage_events", "event_value">> \in Columns => <<"usage_events", "event_value">> \in TextColumns
  /\ <<"churn_log", "reason_code">> \in Columns => Comment[<<"churn_log", "reason_code">>] = 1..4 /\ 1..4 # NULL
  /\ StatusLike["invoices"] = {"status"}

VARIABLES db,       \* what the tables hold: "rows", or "none" while they are loaded
          reloaded, \* history: was it "none" since the profile began?
          p,        \* the ColumnProfile
          at        \* "idle", the check that is next, "told", "failed"

profile == <<db, reloaded, p, at>>

NoProfile == [column |-> <<>>, total |-> 0, nulls |-> 0, distinct |-> 0, warnings |-> {}]

(* What was seeded, and what a query sees of it. *)
Seeded(t) == FlattenSeq([k \in DOMAIN seed |-> IF seed[k][1] = t THEN seed[k][2] ELSE <<>>])
Rows(t) == IF db = "rows" THEN Seeded(t) ELSE <<>>

ValuesOf(rows, c) == {rows[i][c[2]] : i \in DOMAIN rows} \ {NULL}

Normal(name) == <<name.base, Letters[name.suffix]>>

-----------------------------------------------------------------------------
InitProfile ==
  /\ db = "rows" /\ reloaded = FALSE /\ p = NoProfile /\ at = "idle"

(* The DDL of seed.sql takes effect at once, its rows at the COMMIT. *)
Reload ==
  /\ at \notin {"idle", "told", "failed"}
  /\ \/ db = "rows" /\ ~reloaded /\ db' = "none"
     \/ db = "none" /\ db' = "rows"
  /\ reloaded' = TRUE
  /\ UNCHANGED <<dataset, p, at>>

ProfileColumn ==
  /\ stage = "written" /\ at = "idle"
  /\ \E c \in n.columns : p' = [NoProfile EXCEPT !.column = c]
  /\ at' = "count"
  /\ UNCHANGED <<dataset, db, reloaded>>

Asks(check) == at = check /\ UNCHANGED <<dataset, db, reloaded>>

Column == p.column
Table == Rows(Column[1])
Cell(row) == row[Column[2]]

CountRows ==
  /\ Asks("count")
  /\ p' = [p EXCEPT !.total = Len(Table),
                    !.nulls = Cardinality({i \in DOMAIN Table : Cell(Table[i]) = NULL}),
                    !.distinct = Cardinality(ValuesOf(Table, Column))]
  /\ at' = "drift"

(* The check is over, and warns if it has found something. *)
Warned(found, kind, about, then) ==
  /\ p' = [p EXCEPT !.warnings = IF found THEN @ \cup {[kind |-> kind, about |-> about]} ELSE @]
  /\ at' = then

(* D5 *)
CheckTypeDrift ==
  /\ Asks("drift")
  /\ LET vs == ValuesOf(Table, Column)
         numbers == Column \in TextColumns /\ vs \cap Numbers # {}
     IN  IF vs \subseteq Numbers THEN Warned(numbers, "all numeric", {}, "nulls")
         ELSE Warned(numbers, "type drift", {}, "nulls")

(* D4: the first column like a status that the server lists, in no order. *)
StatusesOfNull(sc) == {Table[i][sc] : i \in {j \in DOMAIN Table : Cell(Table[j]) = NULL}}

CheckNullSemantics ==
  /\ Asks("nulls")
  /\ IF p.nulls = 0 \/ StatusLike[Column[1]] = {} THEN Warned(FALSE, "", {}, "domain")
     ELSE \E sc \in StatusLike[Column[1]] :
            Warned(Cardinality(StatusesOfNull(sc)) > 1, "ambiguous null", {sc}, "domain")

(* Faulty: the list is cut one value early. *)
HasSmallDomainLess == p.distinct > 0 /\ p.distinct < DomainMax

(* D2, D9 *)
HasSmallDomain == p.distinct > 0 /\ p.distinct <= DomainMax

CheckLowCardinality ==
  /\ Asks("domain")
  /\ LET undocumented == ValuesOf(Table, Column) \ Comment[Column] IN
     Warned(HasSmallDomain /\ Comment[Column] # NULL /\ undocumented # {}, "undocumented", undocumented, "duplicates")

(* D6 *)
Repeated ==
  {Normal(Cell(Table[i])) : i \in {k \in DOMAIN Table :
     \E j \in DOMAIN Table \ {k} : Normal(Cell(Table[j])) = Normal(Cell(Table[k]))}}

CheckDuplicateEntities ==
  /\ Asks("duplicates")
  /\ IF Column \in TextColumns \cap NameColumns /\ p.distinct >= NameMin
     THEN Warned(Repeated # {}, "duplicates", Repeated, "staleness")
     ELSE Warned(FALSE, "", {}, "staleness")

(* Faulty: subscriptions that have ended are compared as well. *)
StaleTiersOfAll ==
  {a \in Range(Rows("customers")) : \E b \in Range(Rows("subscriptions")) :
     /\ b.customer_id = a.customer_id
     /\ a.plan_tier # NULL /\ a.plan_tier # b.tier}

(* D3 *)
StaleTiers ==
  {a \in Range(Rows("customers")) : \E b \in Range(Rows("subscriptions")) :
     /\ b.customer_id = a.customer_id /\ b.ended_on = NULL
     /\ a.plan_tier # NULL /\ a.plan_tier # b.tier}

StaleFlags == {r \in Range(Rows("product_catalog")) : r.is_current # (r.effective_to = NULL)}

Stale ==
  CASE Column = <<"customers", "plan_tier">> -> StaleTiers # {}
    [] Column = <<"product_catalog", "is_current">> -> StaleFlags # {}
    [] OTHER -> FALSE

(* The share of NULLs follows, of the rows counted at first. *)
CheckStaleness ==
  /\ Asks("staleness")
  /\ p' = [p EXCEPT !.warnings = @ \cup (IF Curated /\ Stale THEN {[kind |-> "stale", about |-> {}]} ELSE {})
                                   \cup (IF 10 * p.nulls > 3 * p.total THEN {[kind |-> "mostly null", about |-> {}]} ELSE {})]
  /\ at' = "told"

(* The tool's error is the model's to read. *)
QueryFails ==
  /\ at \in {"count", "drift", "nulls", "domain", "duplicates", "staleness"}
  /\ at' = "failed"
  /\ UNCHANGED <<dataset, db, reloaded, p>>

NextProfile ==
  \/ Reload \/ ProfileColumn \/ CountRows \/ CheckTypeDrift \/ CheckNullSemantics \/ CheckLowCardinality
  \/ CheckDuplicateEntities \/ CheckStaleness \/ QueryFails

GenerateThenProfile == (Generate /\ UNCHANGED profile) \/ NextProfile

ProfileSpec == InitDataset /\ InitProfile /\ [][GenerateThenProfile]_<<dataset, profile>>

-----------------------------------------------------------------------------
(* Properties. *)

ProfileTypeOK ==
  /\ db \in {"rows", "none"} /\ reloaded \in BOOLEAN
  /\ p.nulls <= p.total /\ p.distinct <= p.total
  /\ at \in {"idle", "count", "drift", "nulls", "domain", "duplicates", "staleness", "told", "failed"}

Warns(kind) == \E w \in p.warnings : w.kind = kind

(* Is a warning about this column true of its rows, beside these subscriptions? *)
IsTrue(w, rows, subscriptions, c) ==
  LET vs == ValuesOf(rows, c)
      nulls == {r \in Range(rows) : r[c[2]] = NULL}
  IN CASE w.kind = "type drift" -> vs \cap Numbers # {} /\ vs \cap Junk # {}
       [] w.kind = "all numeric" -> vs # {} /\ vs \cap Junk = {}
       [] w.kind = "ambiguous null" -> \E sc \in w.about : \E r, s \in nulls : r[sc] # s[sc]
       [] w.kind = "undocumented" -> w.about # {} /\ w.about \subseteq vs \ Comment[c]
       [] w.kind = "duplicates" -> \A norm \in w.about : \E i, j \in DOMAIN rows :
            i # j /\ Normal(rows[i][c[2]]) = norm /\ Normal(rows[j][c[2]]) = norm
       [] w.kind = "stale" ->
            IF c[1] = "customers"
            THEN \E r \in Range(rows) : \E s \in Range(subscriptions) :
                   s.customer_id = r.customer_id /\ s.status # "cancelled" /\ r.plan_tier \notin {NULL, s.tier}
            ELSE \E r \in Range(rows) : r.sku \in Broken
       [] w.kind = "mostly null" -> 10 * Cardinality({i \in DOMAIN rows : rows[i][c[2]] = NULL}) > 3 * Len(rows)

(* A profile warns of nothing that is not so in the data, also when its
   queries fall on both sides of a reload: "overstating the danger trains the
   model to distrust everything". *)
WarningsAreTrue ==
  at = "told" => \A w \in p.warnings : IsTrue(w, Seeded(Column[1]), Seeded("subscriptions"), Column)

(* What the generator plants is found where it was planted: an undocumented
   code (D9), a payment without its time (D4), text among numbers (D5) and,
   in the curated mode (D3), a price flagged wrongly and a tier that is not
   the one of a subscription still running.  A reload in between may hide
   it. *)
PlantedIsReported ==
  at = "told" /\ ~reloaded =>
    LET rows == Range(Seeded(Column[1])) IN
    CASE Column = <<"churn_log", "reason_code">> ->
           LET codes == {r.reason_code : r \in rows} IN
           (\E k \in codes : k > 4) /\ Cardinality(codes) <= DomainMax =>
             \E w \in p.warnings : w.kind = "undocumented" /\ w.about = {k \in codes : k > 4}
      [] Column = <<"invoices", "paid_at">> ->
           {"paid"} \subseteq {r.status : r \in {x \in rows : x.paid_at = NULL}}
             /\ (\E r \in rows : r.status # "paid") => Warns("ambiguous null")
      [] Column = <<"usage_events", "event_value">> ->
           (\E r \in rows : r.event_value \in Junk) /\ (\E r \in rows : r.event_value \in Numbers) => Warns("type drift")
      [] Column = <<"customers", "plan_tier">> ->
           Curated /\ (\E r \in rows, s \in Range(Seeded("subscriptions")) :
                         /\ s.customer_id = r.customer_id /\ s.status # "cancelled"
                         /\ r.plan_tier \notin {NULL, s.tier}) => Warns("stale")
      [] Column = <<"product_catalog", "is_current">> ->
           Curated /\ (\E r \in rows : r.sku \in Broken) => Warns("stale")
      [] OTHER -> TRUE

(* "D6: the same real-world entity under two surrogate keys": the second key
   the generator gives a company is among the duplicates reported ... *)
DuplicatesAreReported ==
  at = "told" /\ ~reloaded /\ Column = <<"customers", "company_name">> /\ p.distinct >= NameMin =>
    \A r \in Range(Seeded("customers")) : r.company_name.suffix # NULL =>
      \E w \in p.warnings : w.kind = "duplicates" /\ Normal(r.company_name) \in w.about

(* ... and "the same organisation exists under multiple keys" is not said of
   two that share a name. *)
NamesakesAreNotDuplicates ==
  at = "told" => \A w \in p.warnings : w.kind = "duplicates" =>
    \A norm \in w.about : \E r \in Range(Seeded("customers")) :
      Normal(r.company_name) = norm /\ r.company_name.suffix # NULL

(* A survey answer "1-5" documents what lies between. *)
RangesAreUnderstood ==
  at = "told" /\ Column = <<"support_tickets", "csat">> => ~Warns("undocumented")
=============================================================================
