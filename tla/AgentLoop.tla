------------------------------ MODULE AgentLoop ------------------------------
(***************************************************************************)
(* harness/agent.py: run_harness and the _ToolBox it shares across         *)
(* questions.  A caller asks questions one after the other with ONE        *)
(* toolbox; each run renders the schema card, then alternates calls of the *)
(* model with dispatches of the tools it asked for, until the model        *)
(* answers in prose, its call fails, the step budget is used up, or an     *)
(* exception escapes.                                                      *)
(*                                                                         *)
(* Data: a query is its text and whether the row cap rewrote it            *)
(* (run_query returns the rewritten text); the rows of a result are named  *)
(* by the question and the query that produced them.  The lookup tools     *)
(* (get_schema, infer_joins, profile_column, resolve_term, an unknown      *)
(* name) return text and change nothing once the card is cached; token     *)
(* usage, wording and the event callback, which cannot influence the run   *)
(* (_emit swallows what it raises), are left out.                          *)
(***************************************************************************)
EXTENDS Integers, Sequences

CONSTANTS MaxSteps,      \* max_steps / AGENT_MAX_STEPS
          MaxQuestions,  \* bound: questions asked with one toolbox
          MaxCalls,      \* bound: tool calls in one reply of the model
          Text,          \* SQL texts the model writes
          None           \* Python's None, and the empty string

Query == [text : Text, capped : BOOLEAN]
Row == (1..MaxQuestions) \X Query
RowsFor(q) == {q} \X Query
Result == [rows : Row, sql : Query]
Errors == {"llm", "limit", "nothing"}

ASSUME StepsAssumption == MaxSteps \in Nat
ASSUME BoundAssumption == MaxQuestions \in Nat /\ MaxCalls \in Nat \ {0}
ASSUME NoneAssumption == /\ None \notin Query
                         /\ None \notin Result
                         /\ None \notin Errors
                         /\ None \notin Row

VARIABLES pc,        \* where the run stands
          asked,     \* questions begun so far; the current one's number
          box,       \* the shared _ToolBox
          res,       \* the AgentResult under construction
          messages,  \* the history sent to the model
          pending    \* tool calls of the last reply not dispatched yet

vars == <<pc, asked, box, res, messages, pending>>

ToolNames == {"lookup", "execute_sql"}
ToolCall == [id : 1..MaxCalls, name : ToolNames]
NoNudge == -1

\* A result dict of a successful query: its rows, and the text that ran.
Executed(q, query) == [rows |-> <<q, query>>, sql |-> query]

Message(role, calls, id, nudge) ==
  [role |-> role, calls |-> calls, id |-> id, nudge |-> nudge]

(* Faulty: the warning starts with the last step. *)
WarnAtEnd == MaxSteps

(* warn_at: from this step on, tool results carry "[n step(s) left ...]". *)
WarnAt == LET share == (6 * MaxSteps) \div 10
          IN  IF share > 2 THEN share ELSE 2

Nudge(step) == IF step >= WarnAt THEN MaxSteps - step ELSE NoNudge

(* Faulty: the last query survives into the next question. *)
ResetNothing(b) == b

(* Faulty: only one of the two fields is forgotten. *)
ResetSqlOnly(b) == [b EXCEPT !.last_sql = None]

(* toolbox.reset(): forget the last query, keep the card and the joins. *)
Reset(b) == [b EXCEPT !.last_result = None, !.last_sql = None]

(* Faulty: the rows are replaced and the SQL is not. *)
RememberRows(b, result, query) == [b EXCEPT !.last_result = result]

Remember(b, result, query) ==
  [b EXCEPT !.last_result = result, !.last_sql = query]

NewResult == [final_sql |-> None, rows |-> None, prose |-> FALSE,
              steps |-> 0, calls |-> 0, error |-> None]

Init ==
  /\ pc = "idle"
  /\ asked = 0
  /\ box = [joins |-> FALSE, card |-> FALSE,
            last_result |-> None, last_sql |-> None]
  /\ res = NewResult
  /\ messages = <<>>
  /\ pending = <<>>

(* The caller asks its next question, after an answer or an exception. *)
Ask ==
  /\ pc \in {"idle", "done", "raised"}
  /\ asked < MaxQuestions
  /\ asked' = asked + 1
  /\ box' = Reset(box)
  /\ res' = NewResult
  /\ messages' = <<>>
  /\ pending' = <<>>
  /\ pc' = "card"

(* box.card: infer_joins once, then the card once; both stay cached. *)
RenderCard ==
  /\ pc = "card"
  /\ box' = [box EXCEPT !.joins = TRUE, !.card = TRUE]
  /\ messages' = <<Message("system", 0, 0, NoNudge),
                   Message("user", 0, 0, NoNudge)>>
  /\ pc' = "chat"
  /\ UNCHANGED <<asked, res, pending>>

(* A database error while rendering escapes run_harness; the join graph may
   have been cached before the card failed. *)
RenderRaises ==
  /\ pc = "card" /\ ~box.card
  /\ \E j \in {box.joins, TRUE} : box' = [box EXCEPT !.joins = j]
  /\ pc' = "raised"
  /\ UNCHANGED <<asked, res, messages, pending>>

(* One iteration of the loop begins: res.steps = step + 1, then llm.chat. *)
CanStep == pc = "chat" /\ res.steps < MaxSteps
Stepped == [res EXCEPT !.steps = @ + 1]

ChatFails ==
  /\ CanStep
  /\ res' = [Stepped EXCEPT !.error = "llm"]
  /\ pc' = "finish"
  /\ UNCHANGED <<asked, box, messages, pending>>

(* Prose whose SQL, if it holds any, is not run or does not succeed. *)
ChatAnswers ==
  /\ CanStep
  /\ res' = [Stepped EXCEPT !.prose = TRUE]
  /\ pc' = "finish"
  /\ UNCHANGED <<asked, box, messages, pending>>

(* Prose holding SQL, when no tool call succeeded: the query is run and
   remembered under the text the model wrote, not the one that ran. *)
ChatAnswersWithSql ==
  /\ CanStep
  /\ box.last_sql = None
  /\ \E t \in Text, c \in BOOLEAN :
       box' = Remember(box, Executed(asked, [text |-> t, capped |-> c]),
                       [text |-> t, capped |-> FALSE])
  /\ res' = [Stepped EXCEPT !.prose = TRUE]
  /\ pc' = "finish"
  /\ UNCHANGED <<asked, messages, pending>>

(* The same path, but execute_sql lets an exception out. *)
ChatAnswersRaises ==
  /\ CanStep
  /\ box.last_sql = None
  /\ res' = [Stepped EXCEPT !.prose = TRUE]
  /\ pc' = "raised"
  /\ UNCHANGED <<asked, box, messages, pending>>

(* The reply asks for tools: the assistant message joins the history. *)
ChatWantsTools ==
  /\ CanStep
  /\ \E n \in 1..MaxCalls : \E names \in [1..n -> ToolNames] :
       /\ pending' = [k \in 1..n |-> [id |-> k, name |-> names[k]]]
       /\ messages' = Append(messages, Message("assistant", n, 0, NoNudge))
  /\ res' = Stepped
  /\ pc' = "dispatch"
  /\ UNCHANGED <<asked, box>>

(* Faulty: a tool call leaves no message. *)
AnsweredSilently ==
  /\ res' = [res EXCEPT !.calls = @ + 1]
  /\ pending' = Tail(pending)
  /\ pc' = IF Tail(pending) = <<>> THEN "chat" ELSE "dispatch"
  /\ UNCHANGED <<asked, messages>>

(* One call is dispatched; its answer, a crash's text included, is appended
   under the call's id, with the nudge when the budget runs low. *)
Answered ==
  /\ res' = [res EXCEPT !.calls = @ + 1]
  /\ messages' = Append(messages,
       Message("tool", 0, Head(pending).id, Nudge(res.steps)))
  /\ pending' = Tail(pending)
  /\ pc' = IF Tail(pending) = <<>> THEN "chat" ELSE "dispatch"
  /\ UNCHANGED asked

(* A lookup, or an execute_sql that is refused, fails or crashes. *)
DispatchText ==
  /\ pc = "dispatch"
  /\ UNCHANGED box
  /\ Answered

DispatchSucceeds ==
  /\ pc = "dispatch"
  /\ Head(pending).name = "execute_sql"
  /\ \E query \in Query : box' = Remember(box, Executed(asked, query), query)
  /\ Answered

(* Faulty: the budget is compared one step too late. *)
LimitMissed ==
  /\ pc = "chat" /\ res.steps > MaxSteps
  /\ res' = [res EXCEPT !.error = "limit"]
  /\ pc' = "finish"
  /\ UNCHANGED <<asked, box, messages, pending>>

(* The loop's else clause. *)
LimitHit ==
  /\ pc = "chat" /\ res.steps = MaxSteps
  /\ res' = [res EXCEPT !.error = "limit"]
  /\ pc' = "finish"
  /\ UNCHANGED <<asked, box, messages, pending>>

(* Faulty: no rows, and nothing said about it. *)
FinishSilently ==
  /\ pc = "finish"
  /\ res' = IF box.last_result # None
            THEN [res EXCEPT !.final_sql = box.last_sql,
                             !.rows = box.last_result.rows]
            ELSE res
  /\ pc' = "done"
  /\ UNCHANGED <<asked, box, messages, pending>>

Finish ==
  /\ pc = "finish"
  /\ res' = IF box.last_result # None
            THEN [res EXCEPT !.final_sql = box.last_sql,
                             !.rows = box.last_result.rows]
            ELSE IF res.error = None THEN [res EXCEPT !.error = "nothing"]
            ELSE res
  /\ pc' = "done"
  /\ UNCHANGED <<asked, box, messages, pending>>

RunStep ==
  \/ RenderCard \/ RenderRaises
  \/ ChatFails \/ ChatAnswers \/ ChatAnswersWithSql \/ ChatAnswersRaises
  \/ ChatWantsTools
  \/ DispatchText \/ DispatchSucceeds
  \/ LimitHit \/ Finish

Next == Ask \/ RunStep

Spec == Init /\ [][Next]_vars

(* Every call the run makes returns or raises (the HTTP client and MySQL
   have timeouts), so a run under way keeps going; nobody has to ask. *)
FairSpec == Spec /\ WF_vars(RunStep)

-----------------------------------------------------------------------------
(* Properties. *)

BoxType == [joins : BOOLEAN, card : BOOLEAN,
            last_result : Result \cup {None}, last_sql : Query \cup {None}]
ResType == [final_sql : Query \cup {None}, rows : Row \cup {None},
            prose : BOOLEAN, steps : 0..MaxSteps, calls : Nat,
            error : Errors \cup {None}]
MessageType == [role : {"system", "user", "assistant", "tool"},
                calls : 0..MaxCalls, id : 0..MaxCalls, nudge : -1..MaxSteps]

TypeOK ==
  /\ pc \in {"idle", "card", "chat", "dispatch", "finish", "done", "raised"}
  /\ asked \in 0..MaxQuestions
  /\ asked = 0 <=> pc = "idle"
  /\ box \in BoxType
  /\ res \in ResType
  /\ messages \in Seq(MessageType)
  /\ pending \in Seq(ToolCall)
  /\ pc = "dispatch" <=> pending # <<>>

(* The rows a run hands over were fetched while working on its own question,
   never left in the shared toolbox by an earlier one (_ToolBox.reset). *)
OwnQuestion == pc = "done" /\ res.rows # None => res.rows[1] = asked

(* The SQL shown and graded is the one whose rows are graded: the two fields
   of the toolbox are always written together and read together, though the
   prose path records the text the model wrote and the tool path the text
   that ran; and there are rows exactly when there is SQL. *)
SqlOfRows ==
  pc = "done" =>
    /\ res.rows = None <=> res.final_sql = None
    /\ res.rows # None => res.rows[2].text = res.final_sql.text

(* Whenever the history goes to the model, each reply that asked for tools is
   followed by one tool message per call, in the order and under the ids of
   the calls, whatever happened to the tool: every provider rejects the next
   request otherwise. *)
HistoryWellFormed ==
  pc = "chat" =>
    \A i \in 1..Len(messages) : messages[i].role = "assistant" =>
      \A k \in 1..messages[i].calls :
        /\ i + k <= Len(messages)
        /\ messages[i + k].role = "tool"
        /\ messages[i + k].id = k

(* A model about to spend its last step has been told so: with three steps or
   more the message it reads last carries the nudge, and the number of steps
   in it is the number it still has. *)
NudgedBeforeLast ==
  pc = "chat" /\ MaxSteps >= 3 /\ res.steps = MaxSteps - 1 =>
    messages[Len(messages)].nudge = 1

(* A finished run says why it has no rows; only a run that used its whole
   budget without prose reports the step limit; and a run that answered in
   prose has either rows or the error that no query ever succeeded. *)
HonestOutcome ==
  pc = "done" =>
    /\ res.rows = None => res.error # None
    /\ res.error = "limit" => res.steps = MaxSteps /\ ~res.prose
    /\ res.prose => (res.rows = None <=> res.error = "nothing")

(* Every question ends, with an answer, an error or an exception. *)
EveryQuestionEnds ==
  (pc \in {"card", "chat", "dispatch", "finish"}) ~> (pc \in {"done", "raised"})

(* The loop implements the promise made to its callers. *)
Graded == INSTANCE GradedRun WITH
  NoResult <- None,
  phase <- IF pc \in {"idle", "done", "raised"} THEN "over" ELSE "working",
  question <- asked,
  latest <- IF box.last_result = None THEN None ELSE box.last_result.rows,
  answer <- res.rows,
  ResultsFor <- RowsFor

(* Seen from the caller, run_harness hands over the last query that succeeded
   for the question asked, or nothing. *)
ImplementsGradedRun == Graded!Spec
=============================================================================
