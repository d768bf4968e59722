------------------------------ MODULE Discovery ------------------------------
(***************************************************************************)
(* The question-blind audit: harness/discover.py discover, which makes one *)
(* pass of _run_class per defect class and hands each claim the model      *)
(* records to harness/verify.py verify_claim.                              *)
(*                                                                         *)
(* Data: a proposal is a key (its name and columns), the features of its   *)
(* proof that verify_claim looks at, and what the proof returns on each    *)
(* version of the database.  The database may be seeded again at any       *)
(* moment: the audit takes minutes and opens a connection per question.    *)
(***************************************************************************)
EXTENDS Integers, Sequences, FiniteSets

CONSTANTS Proposals, \* record_claim calls the model can make
          RowsIn,    \* version -> table -> its number of rows
          Classes,   \* defect classes audited
          MaxSteps,  \* DISCOVER_MAX_STEPS
          MaxCalls   \* bound: tool calls in one reply

Versions == DOMAIN RowsIn
Taxonomy == 1..Classes   \* the defect classes, in the order they are audited

ASSUME DiscoveryAssumption ==
  /\ Versions = 1..Len(RowsIn) /\ RowsIn # <<>>
  /\ Classes \in Nat /\ MaxSteps \in Nat /\ MaxCalls \in Nat
ASSUME AnswersAssumption ==
  \A p \in Proposals : \A v \in Versions : p.answer[v].value \in Int

VARIABLES db,      \* version of the live database
          pc,      \* "start", "audit", "settle", "run", "flag", "done", "crashed"
          class,   \* the class being audited
          step,    \* replies taken in its pass
          props,   \* its proposals not settled yet
          seen,    \* keys settled before
          claims,  \* art.claims: key, proof, status, evidence, flags
          bound,   \* art.db_fingerprint, as the version it stands for
          totals,  \* the counters of the run
          value    \* evidence of the claim being verified, and where it ran

vars == <<db, pc, class, step, props, seen, claims, bound, totals, value>>
audit == <<class, step, bound>>

-----------------------------------------------------------------------------
(* verify_claim: the checks before the proof is run. *)

ReadOnly(p) == p.sql = "select"
ListTables == DOMAIN RowsIn[db]
TouchesTable(p) == p.tables \cap ListTables # {}
Discriminates(p) == p.discriminates
AboutItsColumns(p) == p.columns = {} \/ p.columns \cap p.words # {}

(* Faulty: a count of the whole table is let through. *)
PlausibleAnyCount(p) == ReadOnly(p) /\ TouchesTable(p) /\ AboutItsColumns(p)

Plausible(p) ==
  ReadOnly(p) /\ TouchesTable(p) /\ Discriminates(p) /\ AboutItsColumns(p)

(* One row, a column named evidence among those it has, a positive number. *)
Proves(answer) ==
  answer.rows = 1 /\ "evidence" \in answer.columns /\ answer.number /\ answer.value > 0

(* Evidence that covers a whole table is flagged, for the tables that could
   be counted; the count is a query of its own. *)
Flagged(p, counted) ==
  \E t \in counted : /\ RowsIn[db][t] > 0
                     /\ value.evidence >= RowsIn[db][t]

(* The artifact is bound to the database as it is when the audit begins. *)
Bind == db

-----------------------------------------------------------------------------
NoValue == [evidence |-> 0, at |-> 0]

Init ==
  /\ db \in Versions
  /\ pc = "start" /\ class = 0 /\ step = 0 /\ props = <<>>
  /\ seen = {} /\ claims = <<>> /\ bound = 0
  /\ totals = [proposed |-> 0, verified |-> 0, rejected |-> 0, duplicate |-> 0]
  /\ value = NoValue

Reseed ==
  /\ db + 1 \in Versions
  /\ db' = db + 1
  /\ UNCHANGED <<pc, audit, props, seen, claims, totals, value>>

(* The schema card and the fingerprint are read; the first pass starts. *)
Start ==
  /\ pc = "start"
  /\ bound' = Bind
  /\ class' = 1 /\ pc' = (IF Taxonomy = {} THEN "done" ELSE "audit")
  /\ UNCHANGED <<db, step, props, seen, claims, totals, value>>

(* Where nothing catches it, a lost database ends the run and its claims:
   at the start, and at list_tables in verify_claim. *)
Crash ==
  /\ \/ pc = "start"
     \/ /\ pc = "settle" /\ props # <<>>
        /\ ReadOnly(Head(props)) /\ Head(props).key \notin seen
  /\ pc' = "crashed"   \* the key in "seen" and the count die with it
  /\ UNCHANGED <<db, audit, props, seen, claims, totals, value>>

-----------------------------------------------------------------------------
(* _run_class *)

(* The claims recorded by the tool calls of one reply, probes left out. *)
Recorded == UNION {[1..n -> Proposals] : n \in 0..MaxCalls}

(* A reply with tool calls: a claim recorded is only kept for later. *)
Reply ==
  /\ pc = "audit" /\ step < MaxSteps
  /\ \E calls \in Recorded : props' = props \o calls
  /\ step' = step + 1
  /\ UNCHANGED <<db, pc, class, seen, claims, bound, totals, value>>

(* A tool call whose arguments are JSON but no object, which _safe_json lets
   through: args.get raises, and nothing in the pass catches it. *)
BadArguments ==
  /\ pc = "audit" /\ step < MaxSteps
  /\ pc' = "crashed"
  /\ UNCHANGED <<db, audit, props, seen, claims, totals, value>>

(* The pass ends: the chat fails, the model stops, or the steps are gone. *)
EndPass ==
  /\ pc = "audit"
  /\ pc' = "settle"
  /\ UNCHANGED <<db, audit, props, seen, claims, totals, value>>

-----------------------------------------------------------------------------
(* discover: the proposals of the pass, one after the other. *)

Count(k1, k2) == totals' = [totals EXCEPT ![k1] = @ + 1, ![k2] = @ + 1]

Settle(status, evidence, at, flagged) ==
  /\ claims' = Append(claims, [key |-> Head(props).key, proof |-> Head(props),
                               status |-> status, evidence |-> evidence,
                               at |-> at, flagged |-> flagged])
  /\ props' = Tail(props)
  /\ pc' = "settle" /\ value' = NoValue

(* Faulty: a duplicate is only counted as proposed. *)
DuplicateUncounted ==
  /\ pc = "settle" /\ props # <<>> /\ Head(props).key \in seen
  /\ totals' = [totals EXCEPT !.proposed = @ + 1]
  /\ props' = Tail(props)
  /\ UNCHANGED <<db, pc, audit, seen, claims, value>>

(* A key settled before is not looked at again, whatever became of it. *)
Duplicate ==
  /\ pc = "settle" /\ props # <<>> /\ Head(props).key \in seen
  /\ Count("proposed", "duplicate")
  /\ props' = Tail(props)
  /\ UNCHANGED <<db, pc, audit, seen, claims, value>>

CheckProof ==
  /\ pc = "settle" /\ props # <<>> /\ Head(props).key \notin seen
  /\ seen' = seen \cup {Head(props).key}
  /\ \/ /\ Plausible(Head(props))
        /\ pc' = "run"
        /\ totals' = [totals EXCEPT !.proposed = @ + 1]
        /\ UNCHANGED <<props, claims, value>>
     \/ /\ ~Plausible(Head(props))
        /\ Settle("rejected", 0, db, FALSE)
        /\ Count("proposed", "rejected")
  /\ UNCHANGED <<db, audit>>

(* The proof runs, or fails to. *)
RunProof ==
  /\ pc = "run"
  /\ LET answer == Head(props).answer[db] IN
       \/ /\ Proves(answer)
          /\ pc' = "flag"
          /\ value' = [evidence |-> answer.value, at |-> db]
          /\ UNCHANGED <<props, claims, totals>>
       \/ /\ Settle("rejected", 0, db, FALSE)   \* also: the database is away
          /\ totals' = [totals EXCEPT !.rejected = @ + 1]
  /\ UNCHANGED <<db, audit, seen>>

(* The tables it touches are counted; a count that fails is passed over. *)
FlagProof ==
  /\ pc = "flag"
  /\ \E counted \in SUBSET (Head(props).tables \cap ListTables) :
       Settle("verified", value.evidence, value.at, Flagged(Head(props), counted))
  /\ totals' = [totals EXCEPT !.verified = @ + 1]
  /\ UNCHANGED <<db, audit, seen>>

(* Faulty: the fingerprint is taken again as the audit goes on. *)
NextClassRebinds ==
  /\ pc = "settle" /\ props = <<>>
  /\ \/ class + 1 \in Taxonomy /\ class' = class + 1 /\ step' = 0 /\ pc' = "audit"
     \/ class + 1 \notin Taxonomy /\ pc' = "done" /\ UNCHANGED <<class, step>>
  /\ bound' = db
  /\ UNCHANGED <<db, props, seen, claims, totals, value>>

NextClass ==
  /\ pc = "settle" /\ props = <<>>
  /\ \/ class + 1 \in Taxonomy /\ class' = class + 1 /\ step' = 0 /\ pc' = "audit"
     \/ class + 1 \notin Taxonomy /\ pc' = "done" /\ UNCHANGED <<class, step>>
  /\ UNCHANGED <<db, props, seen, claims, bound, totals, value>>

-----------------------------------------------------------------------------
Discover ==
  \/ Start \/ Crash \/ Reply \/ BadArguments \/ EndPass
  \/ Duplicate \/ CheckProof \/ RunProof \/ FlagProof \/ NextClass

Next == Reseed \/ Discover

Spec == Init /\ [][Next]_vars

-----------------------------------------------------------------------------
(* Properties. *)

Claim == [key : {p.key : p \in Proposals}, proof : Proposals,
          status : {"verified", "rejected"}, evidence : Int,
          at : Versions, flagged : BOOLEAN]

TypeOK ==
  /\ db \in Versions /\ bound \in Versions \cup {0}
  /\ pc \in {"start", "audit", "settle", "run", "flag", "done", "crashed"}
  /\ class \in 0..Classes \cup {1} /\ step \in 0..MaxSteps
  /\ props \in Seq(Proposals)
  /\ claims \in Seq(Claim)
  /\ seen \subseteq {p.key : p \in Proposals}
  /\ totals \in [{"proposed", "verified", "rejected", "duplicate"} -> Nat]
  /\ value \in [evidence : Int, at : Versions \cup {0}]

Verified == {claims[i] : i \in {j \in DOMAIN claims : claims[j].status = "verified"}}

(* An artifact that looks fresh is proved: while it is bound to the database
   that is live, every verified claim's evidence is what its proof returns
   there now, even if the database was seeded again during the audit. *)
FreshMeansProved ==
  bound = db => \A c \in Verified : /\ c.evidence = c.proof.answer[db].value
                                    /\ c.evidence > 0

(* No shape of self-serving proof survives: not a constant, not a count of a
   whole table, not a proof about something else. *)
SurvivorsAreChecked ==
  \A c \in Verified : /\ c.proof.sql = "select" /\ c.proof.tables # {}
                      /\ c.proof.discriminates
                      /\ \/ c.proof.columns = {}
                         \/ c.proof.columns \cap c.proof.words # {}

(* The artifact and the counters printed beside it tell one story: every
   proposal was verified, rejected or a duplicate, and no key is held twice. *)
BooksBalance ==
  /\ totals.verified + totals.rejected = Len(claims)
  /\ totals.verified = Cardinality({i \in DOMAIN claims : claims[i].status = "verified"})
  /\ pc \in {"settle", "audit", "done"} =>
       totals.proposed = totals.verified + totals.rejected + totals.duplicate
  /\ \A i, j \in DOMAIN claims : claims[i].key = claims[j].key => i = j

(* The contract of verify_claim: exactly one row with one column named
   evidence. *)
ContractHolds ==
  \A c \in Verified : c.proof.answer[c.at].rows = 1
                      /\ c.proof.answer[c.at].columns = {"evidence"}

(* Malformed arguments are reported back to the model: what a reply holds
   never ends the audit, and with it every claim proved so far. *)
RepliesNeverCrash == [][pc = "audit" => pc' # "crashed"]_vars
=============================================================================
