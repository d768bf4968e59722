-------------------------------- MODULE Dataset --------------------------------
(***************************************************************************)
(* data/generate.py: the builders of the tables, in the order generate     *)
(* calls them, and the statements of seed.sql.  The generator's random     *)
(* numbers are choices, so what holds here holds for every seed.           *)
(*                                                                         *)
(* Data: a table is the sequence of its rows, a row its cells that a       *)
(* planted defect or a check of harness/profile.py is about.  Dates count  *)
(* half-months since EPOCH: 2m is the first day of month m, 2m + 1 a later *)
(* day of it, so that a comparison with a month's first day is the code's. *)
(* A company's name is a base and a legal suffix.  The sizes (N_CUSTOMERS  *)
(* and the like) are chosen among a few, with 0 for a table left empty,    *)
(* and with them what names, tiers and dates are drawn from.               *)
(***************************************************************************)
EXTENDS Integers, Sequences, SequencesExt, FiniteSets, FiniteSetsExt, Functions

CONSTANTS Sizes,      \* the sizes considered: records as `n` below
          LegalForms, \* what a duplicate's name ends in
          Codes,      \* reason codes drawn; those above 4 are not documented
          Today,      \* TODAY, the first day of a month
          Cutover,    \* BILLER_CUTOVER, the first day of a month
          LastReturn, \* the last day a customer who came back had left on
          MaxVersions,\* bound: most versions of a price
          Broken,     \* SKUs, by number, whose flag the backfill botched
          MinReturned,\* the least number of returned customers, where there are as many
          Numbers,    \* texts of magnitudes: '12', '12.0'
          Junk,       \* 'N/A' and ''
          Batch,      \* rows per INSERT
          NULL

ASSUME DatasetAssumption ==
  /\ Today \in Nat \ {0} /\ Cutover \in 0..Today /\ LastReturn \in 0..Today - 1
  /\ Today % 2 = 0 /\ Cutover % 2 = 0
  /\ MinReturned \in Nat /\ MaxVersions \in Nat /\ MaxVersions >= 2 /\ Batch \in Nat \ {0}

(* The words of the vocabularies, and whatever is drawn for a name or a tier,
   are no magnitudes; NULL is neither a number nor a date. *)
Words == {"active", "paused", "cancelled", "unpaid", "void", "paid", "won", "lost", "open", "closed",
          "discovery", "demo"}

ASSUME ValuesAssumption ==
  /\ NULL \notin Int /\ NULL \notin Numbers \cup Junk
  /\ Codes \subseteq Nat \ {0}
  /\ Numbers \cap Junk = {} /\ Numbers \cap Words = {}
  /\ \A size \in Sizes :
       /\ {size.customers, size.duplicates, size.events, size.tickets, size.deals, size.skus} \subseteq Nat
       /\ size.starts \subseteq Nat /\ size.tiers \cap Numbers = {}
       /\ \A base \in size.bases, suffix \in LegalForms \cup {NULL} :
            [base |-> base, suffix |-> suffix] \notin Numbers

VARIABLES n,      \* sizes: [customers, duplicates, bases, tiers, starts, billed, events, tickets, deals, skus, churn]
          stage,  \* what is built next
          tables, \* name -> rows
          seed    \* the INSERTs of seed.sql: <<table, rows>>

dataset == <<n, stage, tables, seed>>

CustomerBase == 1000
GhostBase == 1900
TableNames == {"customers", "subscriptions", "invoices", "usage_events", "support_tickets",
               "deals", "product_catalog", "churn_log"}

(* rand_date: a window that ends before it begins is its first day. *)
RandDate(from, to) == IF to < from THEN {from} ELSE from..to

Month(d) == d \div 2
FirstOf(month) == 2 * month

Lesser(a, b) == IF a <= b THEN a ELSE b

(* A sample of k members, sorted. *)
Samples(k, S) == {s \in [1..k -> S] : \A i \in 2..k : s[i - 1] < s[i]}

RowsOf(t) == {tables[t][i] : i \in DOMAIN tables[t]}
CustomerIds == {r.customer_id : r \in RowsOf("customers")}

Built(t, rows, then) ==
  /\ tables' = [tables EXCEPT ![t] = rows]
  /\ stage' = then
  /\ UNCHANGED <<n, seed>>

-----------------------------------------------------------------------------
InitDataset ==
  /\ n \in Sizes
  /\ stage = "customers"
  /\ tables = [t \in TableNames |-> <<>>]
  /\ seed = <<>>

(* Base companies, then duplicates of some of them: a key of their own, and
   the original's name with a suffix (D6).  plan_tier comes later. *)
BuildCustomers ==
  /\ stage = "customers"
  /\ \E base \in [1..n.customers -> n.bases], sources \in Samples(n.duplicates, 1..n.customers),
        suffix \in [1..n.duplicates -> LegalForms] :
       LET names == [i \in 1..n.customers |-> [base |-> base[i], suffix |-> NULL]]
                      \o [i \in 1..n.duplicates |-> [base |-> base[sources[i]], suffix |-> suffix[i]]]
       IN  Built("customers",
                 [i \in DOMAIN names |-> [customer_id |-> CustomerBase + i, company_name |-> names[i],
                                          plan_tier |-> NULL]],
                 "subscriptions")

(* Sixty days after the first of a month can be a later day of the next. *)
Terms(started) ==
  {[status |-> s, ended_on |-> NULL] : s \in {"active", "paused"}}
    \cup {[status |-> "cancelled", ended_on |-> d] : d \in RandDate(FirstOf(Month(started)) + 3, Today)}

Contracts ==
  UNION {{[tier |-> t, started_on |-> d, ended_on |-> e.ended_on, status |-> e.status] :
            t \in n.tiers, e \in Terms(d)} : d \in n.starts}

(* One subscription for each customer. *)
BuildSubscriptions ==
  /\ stage = "subscriptions"
  /\ LET cs == tables["customers"]
     IN  \E sub \in [DOMAIN cs -> Contracts] :
           Built("subscriptions",
                 [i \in DOMAIN cs |-> [customer_id |-> cs[i].customer_id, tier |-> sub[i].tier,
                                       started_on |-> sub[i].started_on,
                                       ended_on |-> sub[i].ended_on, status |-> sub[i].status]],
                 "plan_tier")

(* D3: the cached tier is another one, none, or right. *)
ApplyStalePlanTier ==
  /\ stage = "plan_tier"
  /\ \E tier \in [DOMAIN tables["customers"] -> n.tiers \cup {NULL}] :
       Built("customers",
             [i \in DOMAIN tables["customers"] |-> [tables["customers"][i] EXCEPT !.plan_tier = tier[i]]],
             "invoices")

Stop(sub) == IF sub.ended_on = NULL THEN Today ELSE sub.ended_on

(* Faulty: `while cursor <= stop`. *)
MonthsBilledThrough(sub) ==
  IF sub.tier = "free" THEN <<>>
  ELSE LET first == Month(sub.started_on)
       IN  [k \in 1..Month(Stop(sub)) + 1 - first |-> [sub |-> sub, month |-> first + k - 1]]

(* One invoice for each month a paid subscription ran, the one it ended in
   with them unless it ended on the first: `while cursor < stop`. *)
MonthsBilled(sub) ==
  IF sub.tier = "free" THEN <<>>
  ELSE LET first == Month(sub.started_on)
       IN  [k \in 1..Month(Stop(sub) + 1) - first |-> [sub |-> sub, month |-> first + k - 1]]

(* D10: cents before the cutover, and a flag that says so or is lost.
   D4: no timestamp on what is not paid, nor on some of what is. *)
Settled == {<<"unpaid", NULL>>, <<"void", NULL>>, <<"paid", NULL>>, <<"paid", "later">>}

BuildInvoices ==
  /\ stage = "invoices"
  /\ LET subs == tables["subscriptions"]
         due == IF n.billed THEN FlattenSeq([i \in DOMAIN subs |-> MonthsBilled(subs[i])]) ELSE <<>>
     IN  \E lost \in SUBSET DOMAIN due, how \in [DOMAIN due -> Settled] :
           Built("invoices",
                 [i \in DOMAIN due |->
                    [cust_id |-> due[i].sub.customer_id, issued_at |-> due[i].month,
                     unit |-> IF FirstOf(due[i].month) < Cutover THEN "cents" ELSE "dollars",
                     currency_minor |-> IF i \in lost THEN NULL
                                        ELSE IF FirstOf(due[i].month) < Cutover THEN 1 ELSE 0,
                     status |-> how[i][1], paid_at |-> how[i][2]]],
                 "usage_events")

(* D5: a magnitude as text, or junk, or nothing. *)
EventValues == Numbers \cup Junk \cup {NULL}

BuildUsageEvents ==
  /\ stage = "usage_events"
  /\ \E row \in [1..n.events -> [event_value : EventValues]] :
       Built("usage_events", row, "support_tickets")

(* D8: some tickets are of customers that are gone. *)
BuildSupportTickets ==
  /\ stage = "support_tickets"
  /\ \E row \in [1..n.tickets -> [cust_id : CustomerIds \cup {GhostBase + 1}, csat : {NULL, 1, 3, 5}]] :
       Built("support_tickets", row, "deals")

(* A deal that is not open is closed, and dated. *)
BuildDeals ==
  /\ stage = "deals"
  /\ LET Deals == {[stage |-> "closed", status |-> s, close_dt |-> "dated"] : s \in {"won", "lost"}}
                    \cup {[stage |-> s, status |-> "open", close_dt |-> NULL] : s \in {"discovery", "demo"}}
     IN  \E row \in [1..n.deals -> Deals] : Built("deals", row, "product_catalog")

(* A version begins when the one before it ends, 180 to 400 days on. *)
Begins(lengths) ==
  LET begin[v \in 1..Len(lengths) + 1] == IF v = 1 THEN 0 ELSE begin[v - 1] + lengths[v - 1]
  IN  begin

(* SCD-2: the versions of a price follow one another, the last is open.  D3:
   of the broken SKUs the first is flagged instead. *)
Versions(sku, lengths) ==
  [v \in 1..Len(lengths) + 1 |->
     [sku |-> sku, effective_from |-> Begins(lengths)[v],
      effective_to |-> IF v = Len(lengths) + 1 THEN NULL ELSE Begins(lengths)[v] + lengths[v],
      is_current |-> IF sku \in Broken THEN v = 1 ELSE v = Len(lengths) + 1]]

BuildProductCatalog ==
  /\ stage = "product_catalog"
  /\ \E lengths \in [1..n.skus -> UNION {[1..k - 1 -> {13, 26}] : k \in 2..MaxVersions}] :
       Built("product_catalog", FlattenSeq([sku \in 1..n.skus |-> Versions(sku, lengths[sku])]), "churn_log")

(* A log: who is cancelled now, and some of the others as having left before
   and come back.  D9: codes above 4 are not documented. *)
Cancelled == {r.customer_id : r \in {s \in RowsOf("subscriptions") : s.status = "cancelled"}}

Eligible == CustomerIds \ Cancelled

BuildChurnLog ==
  /\ stage = "churn_log"
  /\ LET Returned == Lesser(Max({MinReturned, Cardinality(Eligible) \div 3}), Cardinality(Eligible))
     IN  \E gone \in Samples(IF n.churn THEN Cardinality(Cancelled) ELSE 0, Cancelled),
            back \in Samples(IF n.churn THEN Returned ELSE 0, Eligible) :
         LET who == gone \o back IN
         \E code \in [DOMAIN who -> Codes], left \in [DOMAIN gone -> 0..Today],
            stay \in [DOMAIN who \ DOMAIN gone ->
                       UNION {{<<d, r>> : r \in RandDate(d + 1, Today)} : d \in 0..LastReturn}] :
           Built("churn_log",
                 [i \in DOMAIN who |->
                    [customer_id |-> who[i], reason_code |-> code[i],
                     churned_on |-> IF i \in DOMAIN gone THEN left[i] ELSE stay[i][1],
                     recovered_on |-> IF i \in DOMAIN gone THEN NULL ELSE stay[i][2]]],
                 "emit")

-----------------------------------------------------------------------------
(* insert_stmts: the rows in chunks, the last of what is left. *)
Chunks(rows) ==
  [k \in 1..(Len(rows) + Batch - 1) \div Batch |->
     SubSeq(rows, (k - 1) * Batch + 1, Lesser(k * Batch, Len(rows)))]

TableOrder == <<"customers", "subscriptions", "invoices", "usage_events", "support_tickets", "deals",
                "product_catalog", "churn_log">>

Emit ==
  /\ stage = "emit"
  /\ seed' = FlattenSeq([i \in DOMAIN TableOrder |->
               LET chunks == Chunks(tables[TableOrder[i]]) IN
               [k \in DOMAIN chunks |-> <<TableOrder[i], chunks[k]>>]])
  /\ stage' = "written"
  /\ UNCHANGED <<n, tables>>

Generate ==
  \/ BuildCustomers \/ BuildSubscriptions \/ ApplyStalePlanTier \/ BuildInvoices \/ BuildUsageEvents
  \/ BuildSupportTickets \/ BuildDeals \/ BuildProductCatalog \/ BuildChurnLog \/ Emit

-----------------------------------------------------------------------------
(* Properties. *)

DatasetTypeOK ==
  /\ n \in Sizes /\ DOMAIN tables = TableNames
  /\ \A i \in DOMAIN seed : seed[i][1] \in TableNames /\ Len(seed[i][2]) \in 1..Batch

(* A date has one price of each SKU, and only the broken SKUs flag another
   version than the open one. *)
PricesTile ==
  \A sku \in {r.sku : r \in RowsOf("product_catalog")} :
    LET vs == {r \in RowsOf("product_catalog") : r.sku = sku} IN
    /\ \A d \in 0..26 * MaxVersions :
         Cardinality({r \in vs : r.effective_from <= d /\ (r.effective_to = NULL \/ d < r.effective_to)}) = 1
    /\ sku \in Broken <=> \E r \in vs : r.is_current # (r.effective_to = NULL)

(* The log's open rows are the cancelled customers, once each; who has come
   back left before, and there are MinReturned of those, or else everyone who
   is not cancelled. *)
ChurnMirrors ==
  LET log == tables["churn_log"] IN
  /\ n.churn => Cancelled = {r.customer_id : r \in {x \in RowsOf("churn_log") : x.recovered_on = NULL}}
  /\ \A i, j \in DOMAIN log : log[i].customer_id = log[j].customer_id => i = j
  /\ \A r \in RowsOf("churn_log") :
       r.recovered_on # NULL => r.churned_on < r.recovered_on
  /\ n.churn => Cardinality({i \in DOMAIN log : log[i].recovered_on # NULL})
                  >= Lesser(MinReturned, Cardinality(Eligible))

(* Each month of a paid subscription is invoiced once, to its customer: from
   the month it started in, as long as the first of the month is before its
   end.  What the flag says of the unit is right unless it is lost. *)
BilledOnce ==
  \A s \in RowsOf("subscriptions") : \A m \in 0..Month(Today) :
    LET bills == {i \in DOMAIN tables["invoices"] :
                    /\ tables["invoices"][i].cust_id = s.customer_id
                    /\ tables["invoices"][i].issued_at = m}
    IN  /\ Cardinality(bills) =
              (IF /\ n.billed /\ s.tier # "free" /\ Month(s.started_on) <= m
                  /\ s.ended_on # NULL => FirstOf(m) < s.ended_on
                  /\ FirstOf(m) < Today THEN 1 ELSE 0)
        /\ \A i \in bills : LET r == tables["invoices"][i] IN
             r.currency_minor # NULL =>
               (r.currency_minor = 1 <=> r.unit = "cents") /\ (r.unit = "cents" <=> FirstOf(m) < Cutover)

(* The statements hold the tables: no row is lost or repeated by chunking. *)
SeedIsWhole ==
  \A t \in TableNames :
    LET of == SelectSeq(seed, LAMBDA st : st[1] = t) IN
    FlattenSeq([k \in DOMAIN of |-> of[k][2]]) = tables[t]

(* The dataset as it is written: prices, churn log and invoices say one thing
   of each date, customer and month, and the statements hold every row. *)
DatasetSound ==
  stage = "written" => PricesTile /\ ChurnMirrors /\ BilledOnce /\ SeedIsWhole

(* "Their subscription row reads 'active'." *)
ReturnedAreActive ==
  stage = "written" => \A r \in RowsOf("churn_log") : r.recovered_on # NULL =>
    \E s \in RowsOf("subscriptions") : s.customer_id = r.customer_id /\ s.status = "active"
=============================================================================
