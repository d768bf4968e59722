--------------------------- MODULE AgentLoopProofs ---------------------------
(***************************************************************************)
(* Proofs about AgentLoop for every step budget, number of questions and   *)
(* set of texts.  AnswerInv strengthens what a finished run promises to    *)
(* what holds of the toolbox and the result in the middle of a run; it     *)
(* carries OwnQuestion, SqlOfRows and HonestOutcome, and the refinement of *)
(* GradedRun.  HistoryInv strengthens HistoryWellFormed to a history whose *)
(* last reply is only partly answered.                                     *)
(*                                                                         *)
(* The second half is about a tool of the toolbox, profile_column, on the  *)
(* database the generator made.  DataInv says what rows the builders make  *)
(* and that the statements seeded hold them; ProfileInv that the counts    *)
(* and the warnings of a profile under way are true of these rows.         *)
(***************************************************************************)
EXTENDS AgentLoop, Profile, SequenceTheorems, FiniteSetTheorems, WellFoundedInduction, TLAPS

USE StepsAssumption, BoundAssumption, NoneAssumption

(* The nudge of a step within the budget is a number of steps left, or none. *)
LEMMA NudgeType == \A step \in 0..MaxSteps : Nudge(step) \in -1..MaxSteps
  BY DEF Nudge, WarnAt, NoNudge

(* Counting the step about to begin stays within the budget. *)
LEMMA SteppedType == ASSUME TypeOK, CanStep PROVE Stepped \in ResType
  BY DEF TypeOK, Stepped, ResType, CanStep

(* A successful query of the current question makes a result the toolbox can
   hold, whichever of its two texts is remembered beside it. *)
LEMMA RememberType ==
  ASSUME TypeOK, pc # "idle", NEW query \in Query, NEW text \in Query
  PROVE  Remember(box, Executed(asked, query), text) \in BoxType
<1>1. asked \in 1..MaxQuestions
  BY DEF TypeOK
<1>2. Executed(asked, query) \in Result
  BY <1>1 DEF Executed, Result, Row
<1> QED BY <1>2 DEF TypeOK, Remember, BoxType

(* Answering the first pending call keeps the types of the history, of the
   calls still pending and of the counters. *)
LEMMA AnsweredType ==
  ASSUME TypeOK, pc = "dispatch", Answered
  PROVE  /\ res' \in ResType
         /\ messages' \in Seq(MessageType)
         /\ pending' \in Seq(ToolCall)
         /\ pc' \in {"chat", "dispatch"}
         /\ pc' = "dispatch" <=> pending' # <<>>
         /\ asked' = asked
<1>1. Head(pending) \in ToolCall /\ Tail(pending) \in Seq(ToolCall)
  BY DEF TypeOK
<1>2. Nudge(res.steps) \in -1..MaxSteps
  BY NudgeType DEF TypeOK, ResType
<1>3. Message("tool", 0, Head(pending).id, Nudge(res.steps)) \in MessageType
  BY <1>1, <1>2 DEF Message, MessageType, ToolCall
<1>4. messages' \in Seq(MessageType)
  BY <1>3 DEF Answered, TypeOK
<1>5. res' \in ResType
  <2>1. res' = [res EXCEPT !.calls = @ + 1] /\ res \in ResType
    BY DEF Answered, TypeOK
  <2> QED BY <2>1 DEF ResType
<1>6. /\ pending' \in Seq(ToolCall)
      /\ pc' \in {"chat", "dispatch"}
      /\ pc' = "dispatch" <=> pending' # <<>>
  BY <1>1 DEF Answered
<1> QED BY <1>4, <1>5, <1>6 DEF Answered

(* The calls of one reply, numbered in order, can be left pending. *)
LEMMA CallsType ==
  ASSUME NEW count \in 1..MaxCalls, NEW names \in [1..count -> ToolNames]
  PROVE  /\ [k \in 1..count |-> [id |-> k, name |-> names[k]]] \in Seq(ToolCall)
         /\ [k \in 1..count |-> [id |-> k, name |-> names[k]]] # <<>>
         /\ Len([k \in 1..count |-> [id |-> k, name |-> names[k]]]) = count
<1> DEFINE calls == [k \in 1..count |-> [id |-> k, name |-> names[k]]]
<1>1. calls \in [1..count -> ToolCall]
  BY DEF ToolCall
<1>2. count \in Nat
  OBVIOUS
<1>3. calls \in Seq(ToolCall) /\ Len(calls) = count
  BY <1>1, <1>2
<1> QED BY <1>3

(* No operation, exception or failure of the model takes the run out of its
   types; in particular a run is dispatching exactly while calls are pending. *)
THEOREM TypeCorrect == Spec => []TypeOK
<1>1. Init => TypeOK
  BY DEF Init, TypeOK, NewResult, ResType, BoxType
<1>2. TypeOK /\ [Next]_vars => TypeOK'
  <2> SUFFICES ASSUME TypeOK, [Next]_vars PROVE TypeOK'
    OBVIOUS
  <2>1. CASE Ask
    <3>1. box' \in BoxType
      BY <2>1 DEF Ask, TypeOK, Reset, BoxType
    <3>2. res' \in ResType
      BY <2>1 DEF Ask, NewResult, ResType
    <3> QED BY <2>1, <3>1, <3>2 DEF Ask, TypeOK
  <2>2. CASE RenderCard
    <3>1. messages' \in Seq(MessageType)
      BY <2>2 DEF RenderCard, Message, NoNudge, MessageType
    <3>2. box' \in BoxType
      BY <2>2 DEF RenderCard, TypeOK, BoxType
    <3> QED BY <2>2, <3>1, <3>2 DEF RenderCard, TypeOK
  <2>3. CASE RenderRaises
    <3>1. box' \in BoxType
      BY <2>3 DEF RenderRaises, TypeOK, BoxType
    <3> QED BY <2>3, <3>1 DEF RenderRaises, TypeOK
  <2>4. CASE ChatFails
    <3>1. res' \in ResType
      BY <2>4, SteppedType DEF ChatFails, ResType, Errors
    <3> QED BY <2>4, <3>1 DEF ChatFails, CanStep, TypeOK
  <2>5. CASE ChatAnswers
    <3>1. res' \in ResType
      BY <2>5, SteppedType DEF ChatAnswers, ResType
    <3> QED BY <2>5, <3>1 DEF ChatAnswers, CanStep, TypeOK
  <2>6. CASE ChatAnswersWithSql
    <3>1. PICK t \in Text, c \in BOOLEAN :
            box' = Remember(box, Executed(asked, [text |-> t, capped |-> c]),
                            [text |-> t, capped |-> FALSE])
      BY <2>6 DEF ChatAnswersWithSql
    <3>2. /\ [text |-> t, capped |-> c] \in Query
          /\ [text |-> t, capped |-> FALSE] \in Query
      BY DEF Query
    <3>3. box' \in BoxType
      BY <2>6, <3>1, <3>2, RememberType DEF ChatAnswersWithSql, CanStep
    <3>4. res' \in ResType
      BY <2>6, SteppedType DEF ChatAnswersWithSql, ResType
    <3> QED BY <2>6, <3>3, <3>4 DEF ChatAnswersWithSql, CanStep, TypeOK
  <2>7. CASE ChatAnswersRaises
    <3>1. res' \in ResType
      BY <2>7, SteppedType DEF ChatAnswersRaises, ResType
    <3> QED BY <2>7, <3>1 DEF ChatAnswersRaises, CanStep, TypeOK
  <2>8. CASE ChatWantsTools
    <3>1. PICK count \in 1..MaxCalls : \E names \in [1..count -> ToolNames] :
            /\ pending' = [k \in 1..count |-> [id |-> k, name |-> names[k]]]
            /\ messages' = Append(messages, Message("assistant", count, 0, NoNudge))
      BY <2>8 DEF ChatWantsTools
    <3>2. pending' \in Seq(ToolCall) /\ pending' # <<>>
      BY <3>1, CallsType
    <3>3. Message("assistant", count, 0, NoNudge) \in MessageType
      BY DEF Message, MessageType, NoNudge
    <3>4. messages' \in Seq(MessageType)
      BY <3>1, <3>3 DEF TypeOK
    <3>5. res' \in ResType
      BY <2>8, SteppedType DEF ChatWantsTools
    <3> QED BY <2>8, <3>2, <3>4, <3>5 DEF ChatWantsTools, CanStep, TypeOK
  <2>9. CASE DispatchText
    BY <2>9, AnsweredType DEF DispatchText, TypeOK
  <2>10. CASE DispatchSucceeds
    <3>1. box' \in BoxType
      BY <2>10, RememberType DEF DispatchSucceeds
    <3>2. Answered /\ pc = "dispatch"
      BY <2>10 DEF DispatchSucceeds
    <3> QED BY <3>1, <3>2, AnsweredType DEF TypeOK
  <2>11. CASE LimitHit
    <3>1. res' \in ResType
      BY <2>11 DEF LimitHit, TypeOK, ResType, Errors
    <3> QED BY <2>11, <3>1 DEF LimitHit, TypeOK
  <2>12. CASE Finish
    <3>1. res' \in ResType
      BY <2>12 DEF Finish, TypeOK, ResType, BoxType, Errors, Result
    <3> QED BY <2>12, <3>1 DEF Finish, TypeOK
  <2>13. CASE UNCHANGED vars
    BY <2>13 DEF vars, TypeOK
  <2> QED BY <2>1, <2>2, <2>3, <2>4, <2>5, <2>6, <2>7, <2>8, <2>9, <2>10,
             <2>11, <2>12, <2>13 DEF Next, RunStep
<1> QED BY <1>1, <1>2, PTL DEF Spec

-----------------------------------------------------------------------------
(* What a finished run hands over. *)

(* The two fields of the toolbox are set and cleared together, and hold a
   query of the current question. *)
BoxInv ==
  /\ box.last_result = None <=> box.last_sql = None
  /\ box.last_result # None =>
       /\ box.last_result.rows[1] = asked
       /\ box.last_result.rows[2].text = box.last_sql.text

(* What is known of the result before and after the loop. *)
ProgressInv ==
  /\ pc # "done" => res.rows = None /\ res.final_sql = None
  /\ pc \in {"card", "chat", "dispatch"} => ~res.prose /\ res.error = None
  /\ pc = "finish" =>
       /\ res.error \in {None, "llm", "limit"}
       /\ res.error = "limit" => res.steps = MaxSteps
       /\ res.prose <=> res.error = None

AnswerInv == TypeOK /\ BoxInv /\ ProgressInv
             /\ OwnQuestion /\ SqlOfRows /\ HonestOutcome

(* A successful execution is remembered with its own question and text. *)
LEMMA RememberBoxInv ==
  ASSUME TypeOK, pc # "idle", NEW query \in Query, NEW text \in Query,
         text.text = query.text,
         box' = Remember(box, Executed(asked, query), text), asked' = asked
  PROVE  BoxInv'
<1>1. /\ box'.last_result = Executed(asked, query)
      /\ box'.last_sql = text
  BY DEF TypeOK, BoxType, Remember
<1>2. /\ Executed(asked, query).rows[1] = asked
      /\ Executed(asked, query).rows[2] = query
  BY DEF Executed
<1>3. text # None
  OBVIOUS
<1>4. Executed(asked, query) \in Result
  BY DEF Executed, Result, Row, TypeOK
<1>5. Executed(asked, query) # None
  BY <1>4
<1> QED BY <1>1, <1>2, <1>3, <1>5 DEF BoxInv

(* Every step keeps the strengthened invariant; what a finished run promises
   can only be broken by Finish, since pc is not "done" after the others. *)
LEMMA AnswerInvStep ==
  ASSUME AnswerInv, TypeOK', [Next]_vars PROVE AnswerInv'
<1> USE DEF AnswerInv
<1>1. CASE Ask
  <2>1. BoxInv'
    BY <1>1 DEF Ask, Reset, BoxInv, TypeOK, BoxType
  <2>2. ProgressInv'
    BY <1>1 DEF Ask, NewResult, ProgressInv
  <2>3. pc' # "done"
    BY <1>1 DEF Ask
  <2> QED BY <2>1, <2>2, <2>3 DEF OwnQuestion, SqlOfRows, HonestOutcome
<1>2. CASE RenderCard
  <2>1. BoxInv'
    BY <1>2 DEF RenderCard, BoxInv, TypeOK, BoxType
  <2>2. ProgressInv' /\ pc' # "done"
    BY <1>2 DEF RenderCard, ProgressInv
  <2> QED BY <2>1, <2>2 DEF OwnQuestion, SqlOfRows, HonestOutcome
<1>3. CASE RenderRaises
  <2>1. BoxInv'
    BY <1>3 DEF RenderRaises, BoxInv, TypeOK, BoxType
  <2>2. ProgressInv' /\ pc' # "done"
    BY <1>3 DEF RenderRaises, ProgressInv
  <2> QED BY <2>1, <2>2 DEF OwnQuestion, SqlOfRows, HonestOutcome
<1>4. CASE ChatFails
  <2>1. BoxInv'
    BY <1>4 DEF ChatFails, BoxInv
  <2>2. ProgressInv' /\ pc' # "done"
    BY <1>4, SteppedType
    DEF ChatFails, CanStep, Stepped, ProgressInv, TypeOK, ResType, Errors
  <2> QED BY <2>1, <2>2 DEF OwnQuestion, SqlOfRows, HonestOutcome
<1>5. CASE ChatAnswers
  <2>1. BoxInv'
    BY <1>5 DEF ChatAnswers, BoxInv
  <2>2. ProgressInv' /\ pc' # "done"
    BY <1>5 DEF ChatAnswers, CanStep, Stepped, ProgressInv, TypeOK, ResType, Errors
  <2> QED BY <2>1, <2>2 DEF OwnQuestion, SqlOfRows, HonestOutcome
<1>6. CASE ChatAnswersWithSql
  <2>1. PICK t \in Text, c \in BOOLEAN :
          box' = Remember(box, Executed(asked, [text |-> t, capped |-> c]),
                          [text |-> t, capped |-> FALSE])
    BY <1>6 DEF ChatAnswersWithSql
  <2>2. /\ [text |-> t, capped |-> c] \in Query
        /\ [text |-> t, capped |-> FALSE] \in Query
    BY DEF Query
  <2>3. BoxInv'
    BY <1>6, <2>1, <2>2, RememberBoxInv DEF ChatAnswersWithSql, CanStep
  <2>4. ProgressInv' /\ pc' # "done"
    BY <1>6 DEF ChatAnswersWithSql, CanStep, Stepped, ProgressInv, TypeOK, ResType, Errors
  <2> QED BY <2>3, <2>4 DEF OwnQuestion, SqlOfRows, HonestOutcome
<1>7. CASE ChatAnswersRaises
  <2>1. BoxInv'
    BY <1>7 DEF ChatAnswersRaises, BoxInv
  <2>2. ProgressInv' /\ pc' # "done"
    BY <1>7 DEF ChatAnswersRaises, CanStep, Stepped, ProgressInv, TypeOK, ResType
  <2> QED BY <2>1, <2>2 DEF OwnQuestion, SqlOfRows, HonestOutcome
<1>8. CASE ChatWantsTools
  <2>1. BoxInv'
    BY <1>8 DEF ChatWantsTools, BoxInv
  <2>2. ProgressInv' /\ pc' # "done"
    BY <1>8 DEF ChatWantsTools, CanStep, Stepped, ProgressInv, TypeOK, ResType
  <2> QED BY <2>1, <2>2 DEF OwnQuestion, SqlOfRows, HonestOutcome
<1>9. ASSUME pc = "dispatch", Answered PROVE ProgressInv' /\ pc' # "done"
  BY <1>9 DEF Answered, ProgressInv, TypeOK, ResType
<1>10. CASE DispatchText
  <2>1. BoxInv'
    BY <1>10 DEF DispatchText, Answered, BoxInv
  <2> QED BY <1>9, <1>10, <2>1
          DEF DispatchText, OwnQuestion, SqlOfRows, HonestOutcome
<1>11. CASE DispatchSucceeds
  <2>1. BoxInv'
    BY <1>11, RememberBoxInv DEF DispatchSucceeds, Answered
  <2> QED BY <1>9, <1>11, <2>1
          DEF DispatchSucceeds, OwnQuestion, SqlOfRows, HonestOutcome
<1>12. CASE LimitHit
  <2>1. BoxInv'
    BY <1>12 DEF LimitHit, BoxInv
  <2>2. ProgressInv' /\ pc' # "done"
    BY <1>12 DEF LimitHit, ProgressInv, TypeOK, ResType, Errors
  <2> QED BY <2>1, <2>2 DEF OwnQuestion, SqlOfRows, HonestOutcome
<1>13. CASE Finish
  <2>1. BoxInv' /\ ProgressInv'
    BY <1>13 DEF Finish, BoxInv, ProgressInv
  <2>2. CASE box.last_result # None
    <3>1. /\ res' = [res EXCEPT !.final_sql = box.last_sql,
                                !.rows = box.last_result.rows]
          /\ asked' = asked
      BY <1>13, <2>2 DEF Finish
    <3>2. /\ res'.final_sql = box.last_sql /\ res'.rows = box.last_result.rows
          /\ res'.error = res.error /\ res'.prose = res.prose
          /\ res'.steps = res.steps
      BY <3>1 DEF TypeOK, ResType
    <3>3. res'.rows # None /\ res'.final_sql # None
      BY <2>2, <3>2 DEF BoxInv, TypeOK, BoxType, Result
    <3>4. OwnQuestion' /\ SqlOfRows'
      BY <2>2, <3>1, <3>2, <3>3 DEF BoxInv, OwnQuestion, SqlOfRows
    <3>5. HonestOutcome'
      BY <1>13, <3>2, <3>3 DEF Finish, ProgressInv, HonestOutcome, Errors
    <3> QED BY <2>1, <3>4, <3>5
  <2>3. CASE box.last_result = None
    <3>1. res' = IF res.error = None THEN [res EXCEPT !.error = "nothing"]
                                     ELSE res
      BY <1>13, <2>3 DEF Finish
    <3>2. /\ res'.final_sql = None /\ res'.rows = None
          /\ res'.prose = res.prose /\ res'.steps = res.steps
          /\ res'.error = IF res.error = None THEN "nothing" ELSE res.error
      BY <1>13, <3>1 DEF Finish, ProgressInv, TypeOK, ResType
    <3>3. OwnQuestion' /\ SqlOfRows'
      BY <3>2 DEF OwnQuestion, SqlOfRows
    <3>4. HonestOutcome'
      BY <1>13, <3>2 DEF Finish, ProgressInv, HonestOutcome, Errors
    <3> QED BY <2>1, <3>3, <3>4
  <2> QED BY <2>2, <2>3
<1>14. CASE UNCHANGED vars
  BY <1>14 DEF vars, BoxInv, ProgressInv, OwnQuestion, SqlOfRows, HonestOutcome
<1> QED BY <1>1, <1>2, <1>3, <1>4, <1>5, <1>6, <1>7, <1>8, <1>10, <1>11,
           <1>12, <1>13, <1>14 DEF Next, RunStep

(* AnswerInv is inductive, so it holds throughout every run. *)
LEMMA AnswerInvariant == Spec => []AnswerInv
<1>1. Init => AnswerInv
  BY DEF Init, AnswerInv, TypeOK, NewResult, ResType, BoxType, BoxInv,
         ProgressInv, OwnQuestion, SqlOfRows, HonestOutcome
<1>2. AnswerInv /\ TypeOK' /\ [Next]_vars => AnswerInv'
  BY AnswerInvStep
<1> QED BY <1>1, <1>2, TypeCorrect, PTL DEF Spec

(* Whatever the model does and however its tools fail, a run never hands over
   rows that an earlier question left in the shared toolbox. *)
THEOREM GradedOnOwnQuestion == Spec => []OwnQuestion
<1>1. AnswerInv => OwnQuestion
  BY DEF AnswerInv
<1> QED BY <1>1, AnswerInvariant, PTL

(* The SQL handed over is always the text whose rows are handed over. *)
THEOREM GradedSqlMatchesRows == Spec => []SqlOfRows
<1>1. AnswerInv => SqlOfRows
  BY DEF AnswerInv
<1> QED BY <1>1, AnswerInvariant, PTL

(* A run without rows always says why, and says the right thing. *)
THEOREM OutcomeIsHonest == Spec => []HonestOutcome
<1>1. AnswerInv => HonestOutcome
  BY DEF AnswerInv
<1> QED BY <1>1, AnswerInvariant, PTL

-----------------------------------------------------------------------------
(* The history sent to the model. *)

(* Every assistant message is answered in order, call by call, as far as the
   history goes; only the last one can be answered in part, and then the
   pending calls are exactly its unanswered ones. *)
HistoryInv ==
  \A i \in 1..Len(messages) : messages[i].role = "assistant" =>
    \A k \in 1..messages[i].calls :
      IF i + k <= Len(messages)
      THEN messages[i + k].role = "tool" /\ messages[i + k].id = k
      ELSE /\ pc = "dispatch"
           /\ i + messages[i].calls = Len(messages) + Len(pending)
           /\ \A j \in 1..Len(pending) : pending[j].id = Len(messages) + j - i

(* Answering the first pending call extends the partly answered reply by the
   message it lacks next. *)
LEMMA AnsweredHistory ==
  ASSUME TypeOK, HistoryInv, pc = "dispatch", Answered
  PROVE  HistoryInv'
<1> DEFINE m == Message("tool", 0, Head(pending).id, Nudge(res.steps))
<1>1. /\ messages \in Seq(MessageType) /\ pending \in Seq(ToolCall)
      /\ pending # <<>>
  BY DEF TypeOK
<1>2. messages' = Append(messages, m) /\ pending' = Tail(pending)
  BY DEF Answered
<1>3. /\ Len(messages') = Len(messages) + 1
      /\ \A i \in 1..Len(messages) : messages'[i] = messages[i]
      /\ messages'[Len(messages) + 1] = m
  BY <1>1, <1>2
<1>4. /\ Len(pending) \in Nat /\ Len(pending) >= 1
      /\ Len(pending') = Len(pending) - 1
      /\ \A j \in 1..Len(pending') : pending'[j] = pending[j + 1]
      /\ Head(pending) = pending[1]
  BY <1>1, <1>2
<1>5. m.role = "tool" /\ m.id = pending[1].id
  BY <1>4 DEF Message
<1>6. SUFFICES ASSUME NEW i \in 1..Len(messages'), messages'[i].role = "assistant",
                      NEW k \in 1..messages'[i].calls
               PROVE  IF i + k <= Len(messages')
                      THEN messages'[i + k].role = "tool" /\ messages'[i + k].id = k
                      ELSE /\ pc' = "dispatch"
                           /\ i + messages'[i].calls = Len(messages') + Len(pending')
                           /\ \A j \in 1..Len(pending') :
                                pending'[j].id = Len(messages') + j - i
  BY DEF HistoryInv
<1>7. Len(messages) \in Nat /\ i \in 1..Len(messages) /\ messages'[i] = messages[i]
  BY <1>1, <1>3, <1>5, <1>6
<1>8. /\ messages[i].calls \in Nat /\ i \in Nat /\ k \in Nat
      /\ k \in 1..messages[i].calls
  <2>1. messages[i] \in MessageType
    BY <1>1, <1>7
  <2> QED BY <1>6, <1>7, <2>1 DEF MessageType
<1>9. CASE i + k <= Len(messages)
  <2>1. messages[i + k].role = "tool" /\ messages[i + k].id = k
    BY <1>6, <1>7, <1>8, <1>9 DEF HistoryInv
  <2>2. messages'[i + k] = messages[i + k] /\ i + k <= Len(messages')
    BY <1>3, <1>7, <1>8, <1>9
  <2> QED BY <2>1, <2>2
<1>10. CASE i + k > Len(messages)
  <2>1. /\ i + messages[i].calls = Len(messages) + Len(pending)
        /\ \A j \in 1..Len(pending) : pending[j].id = Len(messages) + j - i
    <3>1. messages[i].role = "assistant"
      BY <1>6, <1>7
    <3>2. IF i + k <= Len(messages)
          THEN messages[i + k].role = "tool" /\ messages[i + k].id = k
          ELSE /\ pc = "dispatch"
               /\ i + messages[i].calls = Len(messages) + Len(pending)
               /\ \A j \in 1..Len(pending) : pending[j].id = Len(messages) + j - i
      BY <3>1, <1>7, <1>8 DEF HistoryInv
    <3>3. ~(i + k <= Len(messages))
      BY <1>7, <1>8, <1>10
    <3> QED BY <3>2, <3>3
  <2>2. CASE i + k = Len(messages) + 1
    <3>1. pending[1].id = k
      <4>1. pending[1].id = Len(messages) + 1 - i
        BY <1>4, <2>1
      <4> QED BY <4>1, <1>7, <1>8, <2>2
    <3> QED BY <1>3, <1>5, <2>2, <3>1
  <2>3. CASE i + k > Len(messages) + 1
    <3>1. Len(pending') >= 1
      BY <1>4, <1>7, <1>8, <2>1, <2>3
    <3>2. pc' = "dispatch"
      <4>1. pending' # <<>>
        BY <3>1
      <4> QED BY <4>1 DEF Answered
    <3>3. ASSUME NEW j \in 1..Len(pending')
          PROVE  pending'[j].id = Len(messages') + j - i
      <4>1. pending[j + 1].id = Len(messages) + (j + 1) - i
        <5>1. j + 1 \in 1..Len(pending)
          BY <1>4
        <5> QED BY <5>1, <2>1
      <4> QED BY <4>1, <1>3, <1>4, <1>7, <1>8
    <3>4. i + messages'[i].calls = Len(messages') + Len(pending')
      BY <1>3, <1>4, <1>7, <1>8, <2>1
    <3>5. ~(i + k <= Len(messages'))
      BY <1>3, <1>7, <1>8, <2>3
    <3> QED BY <3>2, <3>3, <3>4, <3>5
  <2>4. i + k = Len(messages) + 1 \/ i + k > Len(messages) + 1
    BY <1>7, <1>8, <1>10
  <2> QED BY <2>2, <2>3, <2>4
<1> QED
  <2>1. i + k <= Len(messages) \/ i + k > Len(messages)
    BY <1>7, <1>8
  <2> QED BY <2>1, <1>9, <1>10

(* A new reply leaves all its calls pending, under the ids 1, 2, ... *)
LEMMA AskedHistory ==
  ASSUME TypeOK, HistoryInv, pc = "chat", ChatWantsTools
  PROVE  HistoryInv'
<1>0. PICK count \in 1..MaxCalls : \E names \in [1..count -> ToolNames] :
        /\ pending' = [k \in 1..count |-> [id |-> k, name |-> names[k]]]
        /\ messages' = Append(messages, Message("assistant", count, 0, NoNudge))
  BY DEF ChatWantsTools
<1>1. PICK names \in [1..count -> ToolNames] :
        /\ pending' = [k \in 1..count |-> [id |-> k, name |-> names[k]]]
        /\ messages' = Append(messages, Message("assistant", count, 0, NoNudge))
  BY <1>0
<1>2. messages \in Seq(MessageType) /\ Len(messages) \in Nat
  BY DEF TypeOK
<1>3. /\ Len(messages') = Len(messages) + 1
      /\ \A i \in 1..Len(messages) : messages'[i] = messages[i]
      /\ messages'[Len(messages) + 1] = Message("assistant", count, 0, NoNudge)
  BY <1>1, <1>2
<1>4. /\ pc' = "dispatch" /\ Len(pending') = count
      /\ \A j \in 1..count : pending'[j].id = j
  BY <1>1, CallsType DEF ChatWantsTools
<1>5. SUFFICES ASSUME NEW i \in 1..Len(messages'), messages'[i].role = "assistant",
                      NEW k \in 1..messages'[i].calls
               PROVE  IF i + k <= Len(messages')
                      THEN messages'[i + k].role = "tool" /\ messages'[i + k].id = k
                      ELSE /\ pc' = "dispatch"
                           /\ i + messages'[i].calls = Len(messages') + Len(pending')
                           /\ \A j \in 1..Len(pending') :
                                pending'[j].id = Len(messages') + j - i
  BY DEF HistoryInv
<1>6. CASE i <= Len(messages)
  <2>1. messages'[i] = messages[i] /\ i \in 1..Len(messages)
    BY <1>2, <1>3, <1>6
  <2>2. messages[i].calls \in Nat
    <3>1. messages[i] \in MessageType
      BY <1>2, <2>1
    <3> QED BY <3>1 DEF MessageType
  <2>3. i \in Nat /\ k \in Nat /\ k \in 1..messages[i].calls
    BY <2>1, <2>2
  <2>4. /\ i + k <= Len(messages)
        /\ messages[i + k].role = "tool" /\ messages[i + k].id = k
    BY <1>5, <2>1, <2>3 DEF HistoryInv
  <2> QED BY <1>2, <1>3, <2>3, <2>4
<1>7. CASE i = Len(messages) + 1
  <2>1. messages'[i].calls = count
    BY <1>3, <1>7 DEF Message
  <2>2. k \in 1..count /\ i \in Nat /\ k \in Nat /\ count \in Nat /\ Len(messages') = i
    BY <1>2, <1>3, <1>7, <2>1, BoundAssumption
  <2>3. ~(i + k <= Len(messages'))
    BY <2>2
  <2>4. i + messages'[i].calls = Len(messages') + Len(pending')
    BY <1>4, <2>1, <2>2
  <2>5. ASSUME NEW j \in 1..Len(pending') PROVE pending'[j].id = Len(messages') + j - i
    <3>1. pending'[j].id = j /\ j \in Nat
      BY <1>4, <2>2
    <3> QED BY <2>2, <3>1
  <2> QED BY <1>4, <2>3, <2>4, <2>5
<1> QED BY <1>2, <1>3, <1>6, <1>7

(* HistoryInv holds throughout: a reply is answered call by call, in order. *)
LEMMA HistoryInvariant == Spec => []HistoryInv
<1>1. Init => HistoryInv
  BY DEF Init, HistoryInv
<1>2. TypeOK /\ HistoryInv /\ [Next]_vars => HistoryInv'
  <2> SUFFICES ASSUME TypeOK, HistoryInv, [Next]_vars PROVE HistoryInv'
    OBVIOUS
  <2>1. CASE Ask
    BY <2>1 DEF Ask, HistoryInv
  <2>2. CASE RenderCard
    <3>1. /\ Len(messages') = 2
          /\ messages'[1].role = "system" /\ messages'[2].role = "user"
      BY <2>2 DEF RenderCard, Message
    <3> QED BY <3>1 DEF HistoryInv
  <2>3. ASSUME UNCHANGED <<messages, pending>>, pc # "dispatch"
        PROVE  HistoryInv'
    BY <2>3 DEF HistoryInv
  <2>4. CASE ChatWantsTools
    BY <2>4, AskedHistory DEF ChatWantsTools, CanStep
  <2>5. CASE DispatchText
    BY <2>5, AnsweredHistory DEF DispatchText
  <2>6. CASE DispatchSucceeds
    BY <2>6, AnsweredHistory DEF DispatchSucceeds
  <2>7. CASE UNCHANGED vars
    BY <2>7 DEF vars, HistoryInv
  <2> QED BY <2>1, <2>2, <2>3, <2>4, <2>5, <2>6, <2>7
          DEF Next, RunStep, RenderRaises, ChatFails, ChatAnswers,
              ChatAnswersWithSql, ChatAnswersRaises, LimitHit, Finish, CanStep
<1> QED BY <1>1, <1>2, TypeCorrect, PTL DEF Spec

(* For every budget and number of calls per reply: each request to the model
   carries a history in which every tool call has been answered, in order. *)
THEOREM HistoryAlwaysWellFormed == Spec => []HistoryWellFormed
<1>1. TypeOK /\ HistoryInv => HistoryWellFormed
  BY DEF TypeOK, HistoryInv, HistoryWellFormed
<1> QED BY <1>1, HistoryInvariant, TypeCorrect, PTL

(* The message read before a step is the last tool result, and it carries the
   nudge of the step it was fetched in. *)
NudgeInv ==
  /\ pc = "card" => res.steps = 0
  /\ pc = "chat" /\ res.steps > 0 =>
       messages[Len(messages)].nudge = Nudge(res.steps)

(* With a budget of three steps or more the model is always told, in the last
   message it reads, when one step is left. *)
THEOREM NudgedInTime == Spec => []NudgedBeforeLast
<1>1. Init => NudgeInv
  BY DEF Init, NudgeInv
<1>2. TypeOK /\ NudgeInv /\ [Next]_vars => NudgeInv'
  <2> SUFFICES ASSUME TypeOK, NudgeInv, [Next]_vars PROVE NudgeInv'
    OBVIOUS
  <2>1. CASE Ask
    BY <2>1 DEF Ask, NewResult, NudgeInv
  <2>2. CASE RenderCard
    BY <2>2 DEF RenderCard, NudgeInv
  <2>3. ASSUME pc = "dispatch", Answered PROVE NudgeInv'
    <3>1. /\ messages \in Seq(MessageType)
          /\ messages' = Append(messages,
                           Message("tool", 0, Head(pending).id, Nudge(res.steps)))
          /\ pc' # "card"
      BY <2>3 DEF Answered, TypeOK
    <3>2. messages'[Len(messages')].nudge = Nudge(res.steps)
      BY <3>1 DEF Message
    <3>3. res'.steps = res.steps
      BY <2>3 DEF Answered, TypeOK, ResType
    <3> QED BY <3>1, <3>2, <3>3 DEF NudgeInv
  <2>4. CASE UNCHANGED vars
    BY <2>4 DEF vars, NudgeInv
  <2> QED BY <2>1, <2>2, <2>3, <2>4
          DEF Next, RunStep, RenderRaises, ChatFails, ChatAnswers, ChatWantsTools,
              ChatAnswersWithSql, ChatAnswersRaises, DispatchText,
              DispatchSucceeds, LimitHit, Finish, NudgeInv
<1>3. TypeOK /\ NudgeInv => NudgedBeforeLast
  BY DEF TypeOK, ResType, NudgeInv, NudgedBeforeLast, Nudge, WarnAt
<1> QED BY <1>1, <1>2, <1>3, TypeCorrect, PTL DEF Spec

-----------------------------------------------------------------------------
(* run_harness implements GradedRun: each of its steps is a step of the
   promise, or leaves what the caller can see alone. *)
THEOREM AgentImplementsGradedRun == Spec => ImplementsGradedRun
<1>1. Init => Graded!Init
  BY DEF Init, NewResult, Graded!Init
<1>2. AnswerInv /\ [Next]_vars => [Graded!Next]_(Graded!vars)
  <2> SUFFICES ASSUME AnswerInv, [Next]_vars PROVE [Graded!Next]_(Graded!vars)
    OBVIOUS
  <2> USE DEF AnswerInv
  <2>1. CASE Ask
    <3>1. box'.last_result = None /\ res'.rows = None
      BY <2>1 DEF Ask, Reset, NewResult, TypeOK, BoxType
    <3> QED BY <2>1, <3>1 DEF Ask, Graded!Next, Graded!Begin
  <2>2. ASSUME pc \in {"card", "chat", "dispatch", "finish"}, pc' = "raised",
               UNCHANGED asked, box'.last_result = box.last_result,
               res'.rows = res.rows
        PROVE  Graded!Raise
    BY <2>2 DEF Graded!Raise
  <2>3. ASSUME pc \in {"card", "chat", "dispatch", "finish"},
               pc' \in {"card", "chat", "dispatch", "finish"},
               UNCHANGED asked, box'.last_result = box.last_result,
               res'.rows = res.rows
        PROVE  UNCHANGED Graded!vars
    BY <2>3 DEF Graded!vars
  <2>4. ASSUME NEW query \in Query, NEW text \in Query,
               pc \in {"chat", "dispatch"},
               pc' \in {"chat", "dispatch", "finish"},
               box' = Remember(box, Executed(asked, query), text),
               UNCHANGED asked, res'.rows = res.rows
        PROVE  Graded!Succeed
    <3>1. /\ box'.last_result = Executed(asked, query)
          /\ Executed(asked, query).rows = <<asked, query>>
      BY <2>4 DEF TypeOK, BoxType, Remember, Executed
    <3>2. Executed(asked, query) # None
      <4>1. Executed(asked, query) \in Result
        BY <2>4 DEF Executed, Result, Row, TypeOK
      <4> QED BY <4>1
    <3>3. <<asked, query>> \in RowsFor(asked)
      BY DEF RowsFor
    <3> QED BY <2>4, <3>1, <3>2, <3>3 DEF Graded!Succeed
  <2>5. CASE RenderCard
    <3>1. box'.last_result = box.last_result /\ UNCHANGED <<asked, res>>
      BY <2>5 DEF RenderCard, TypeOK, BoxType
    <3> QED BY <2>3, <2>5, <3>1 DEF RenderCard
  <2>6. CASE RenderRaises
    <3>1. box'.last_result = box.last_result /\ UNCHANGED <<asked, res>>
      BY <2>6 DEF RenderRaises, TypeOK, BoxType
    <3> QED BY <2>2, <2>6, <3>1 DEF RenderRaises, Graded!Next
  <2>8. CASE ChatFails
    <3>1. res'.rows = res.rows
      BY <2>8 DEF ChatFails, Stepped, TypeOK, ResType
    <3> QED BY <2>3, <2>8, <3>1 DEF ChatFails, CanStep
  <2>9. CASE ChatAnswers
    <3>1. res'.rows = res.rows
      BY <2>9 DEF ChatAnswers, Stepped, TypeOK, ResType
    <3> QED BY <2>3, <2>9, <3>1 DEF ChatAnswers, CanStep
  <2>10. CASE ChatAnswersWithSql
    <3>1. PICK t \in Text, c \in BOOLEAN :
            box' = Remember(box, Executed(asked, [text |-> t, capped |-> c]),
                            [text |-> t, capped |-> FALSE])
      BY <2>10 DEF ChatAnswersWithSql
    <3>2. /\ [text |-> t, capped |-> c] \in Query
          /\ [text |-> t, capped |-> FALSE] \in Query
      BY DEF Query
    <3>3. res'.rows = res.rows
      BY <2>10 DEF ChatAnswersWithSql, Stepped, TypeOK, ResType
    <3> QED BY <2>4, <2>10, <3>1, <3>2, <3>3
            DEF ChatAnswersWithSql, CanStep, Graded!Next
  <2>11. CASE ChatAnswersRaises
    <3>1. res'.rows = res.rows
      BY <2>11 DEF ChatAnswersRaises, Stepped, TypeOK, ResType
    <3> QED BY <2>2, <2>11, <3>1 DEF ChatAnswersRaises, CanStep, Graded!Next
  <2>12. CASE ChatWantsTools
    <3>1. res'.rows = res.rows
      BY <2>12 DEF ChatWantsTools, Stepped, TypeOK, ResType
    <3> QED BY <2>3, <2>12, <3>1 DEF ChatWantsTools, CanStep
  <2>13. ASSUME Answered PROVE /\ res'.rows = res.rows /\ UNCHANGED asked
                               /\ pc' \in {"chat", "dispatch"}
    BY <2>13 DEF Answered, TypeOK, ResType
  <2>14. CASE DispatchText
    BY <2>3, <2>13, <2>14 DEF DispatchText
  <2>15. CASE DispatchSucceeds
    BY <2>4, <2>13, <2>15 DEF DispatchSucceeds, Graded!Next
  <2>16. CASE LimitHit
    <3>1. res'.rows = res.rows
      BY <2>16 DEF LimitHit, TypeOK, ResType
    <3> QED BY <2>3, <2>16, <3>1 DEF LimitHit
  <2>17. CASE Finish
    <3>1. res'.rows = IF box.last_result = None THEN None
                                                ELSE box.last_result.rows
      BY <2>17 DEF Finish, ProgressInv, TypeOK, ResType
    <3> QED BY <2>17, <3>1 DEF Finish, Graded!Next, Graded!HandOver
  <2>18. CASE UNCHANGED vars
    BY <2>18 DEF vars, Graded!vars
  <2> QED BY <2>1, <2>2, <2>5, <2>6, <2>8, <2>9, <2>10, <2>11, <2>12, <2>14,
             <2>15, <2>16, <2>17, <2>18 DEF Next, RunStep, Graded!Next
<1> QED BY <1>1, <1>2, AnswerInvariant, PTL DEF Spec, Graded!Spec, ImplementsGradedRun

-----------------------------------------------------------------------------
(* A set of naturals has a least member. *)
LEMMA NatMin == ASSUME NEW T, T \subseteq Nat, T # {} PROVE \E x \in T : \A y \in T : x <= y
<1> DEFINE U == {0..m : m \in T}
<1>1. U \subseteq FiniteSubsetsOf(Nat) /\ U # {}
  <2>1. \A m \in Nat : IsFiniteSet(0..m) /\ 0..m \subseteq Nat
    BY FS_Interval
  <2>2. QED
    BY <2>1 DEF FiniteSubsetsOf
<1>2. PICK S \in U : \A R \in U : <<R, S>> \notin StrictSubsetOrdering(Nat)
  <2> HIDE DEF U
  <2>1. QED
    BY <1>1, FS_StrictSubsetOrderingWellFounded, WFMin, Zenon
<1>3. PICK x \in T : S = 0..x
  OBVIOUS
<1>4. ASSUME NEW y \in T, y < x PROVE FALSE
  <2>1. 0..y \in U /\ 0..y \subseteq 0..x /\ x \in 0..x /\ x \notin 0..y
    BY <1>4
  <2>2. 0..y \in SUBSET Nat /\ 0..x \in SUBSET Nat
    BY <1>4
  <2>3. <<0..y, 0..x>> \in StrictSubsetOrdering(Nat)
    BY <2>1, <2>2 DEF StrictSubsetOrdering
  <2>4. QED
    BY <2>1, <2>3, <1>2, <1>3
<1>5. QED
  BY <1>4

-----------------------------------------------------------------------------
(* FlattenSeq: the function its definition recurs with, for m sequences. *)
Flats(s, m, f) == f = [i \in 1..m |-> IF i = 1 THEN s[i] ELSE f[i - 1] \o s[i]]

(* There is such a function, by its least missing length ... *)
LEMMA FlatsExist ==
  ASSUME NEW s, NEW k \in Nat
  PROVE  \E f : Flats(s, k, f)
<1> DEFINE T == {m \in Nat : ~ \E f : Flats(s, m, f)}
<1>1. SUFFICES ASSUME T # {} PROVE FALSE
  OBVIOUS
<1>2. PICK m \in T : \A y \in T : m <= y
  <2> HIDE DEF T
  <2>1. T \subseteq Nat
    BY DEF T
  <2>2. QED
    BY <1>1, <2>1, NatMin
<1>3. m # 0
  <2> DEFINE none == [i \in 1..0 |-> {}]
  <2>1. Flats(s, 0, none)
    BY DEF Flats
  <2>2. QED
    BY <2>1
<1>4. PICK f : Flats(s, m - 1, f)
  <2>1. m - 1 \in Nat /\ ~(m <= m - 1)
    BY <1>3
  <2>2. m - 1 \notin T
    BY <1>2, <2>1
  <2>3. QED
    BY <2>1, <2>2
<1> DEFINE last == IF m = 1 THEN s[m] ELSE f[m - 1] \o s[m]
           more == [i \in 1..m |-> IF i = m THEN last ELSE f[i]]
<1>5. ASSUME NEW i \in 1..m
      PROVE  more[i] = IF i = 1 THEN s[i] ELSE more[i - 1] \o s[i]
  <2> HIDE DEF last
  <2>1. CASE i = m
    <3>1. more[i] = last /\ (i # 1 => more[i - 1] = f[i - 1])
      BY <2>1
    <3> HIDE DEF more
    <3>2. QED
      BY <2>1, <3>1 DEF last
  <2>2. CASE i # m
    <3>1. i \in 1..m - 1 /\ more[i] = f[i] /\ (i # 1 => more[i - 1] = f[i - 1])
      BY <2>2
    <3>2. f[i] = IF i = 1 THEN s[i] ELSE f[i - 1] \o s[i]
      BY <1>4, <3>1 DEF Flats
    <3> HIDE DEF more
    <3>3. QED
      BY <3>1, <3>2
  <2>3. QED
    BY <2>1, <2>2
<1>6. Flats(s, m, more)
  <2>1. more = [i \in 1..m |-> more[i]]
    BY Zenon
  <2> HIDE DEF more
  <2>2. QED
    BY <1>5, <2>1 DEF Flats
<1>7. QED
  BY <1>6

(* ... and FlattenSeq takes its last value. *)
LEMMA FlattenByFlats ==
  ASSUME NEW s
  PROVE  FlattenSeq(s) = IF Len(s) = 0 THEN s ELSE (CHOOSE f : Flats(s, Len(s), f))[Len(s)]
BY DEF FlattenSeq, Flats

(* Two sequences joined are one, of the members of both. *)
LEMMA JoinMembers ==
  ASSUME NEW A, NEW B, NEW a \in Seq(A), NEW b \in Seq(B)
  PROVE  /\ a \o b \in Seq(A \cup B)
         /\ Range(a \o b) = Range(a) \cup Range(b)
<1>1. a \in Seq(A \cup B) /\ b \in Seq(A \cup B)
  OBVIOUS
<1>2. a \o b \in Seq(A \cup B) /\ Len(a \o b) = Len(a) + Len(b)
  BY <1>1
<1>3. \A j \in 1..Len(a) : (a \o b)[j] = a[j]
  BY <1>1
<1>4. \A j \in 1..Len(b) : (a \o b)[Len(a) + j] = b[j]
  BY <1>1
<1>5. ASSUME NEW j \in DOMAIN (a \o b)
      PROVE  \/ \E k \in DOMAIN a : (a \o b)[j] = a[k]
             \/ \E k \in DOMAIN b : (a \o b)[j] = b[k]
  <2>1. CASE j \in 1..Len(a)
    BY <2>1, <1>3
  <2>2. CASE j \notin 1..Len(a)
    <3>1. j - Len(a) \in 1..Len(b)
      BY <2>2, <1>2
    <3>2. QED
      BY <3>1, <1>4
  <2>3. QED
    BY <2>1, <2>2
<1>6. ASSUME NEW j \in DOMAIN a PROVE j \in DOMAIN (a \o b) /\ (a \o b)[j] = a[j]
  BY <1>2, <1>3
<1>7. ASSUME NEW j \in DOMAIN b PROVE Len(a) + j \in DOMAIN (a \o b) /\ (a \o b)[Len(a) + j] = b[j]
  BY <1>2, <1>4
<1>8. ASSUME NEW x PROVE x \in Range(a \o b) <=> x \in Range(a) \cup Range(b)
  <2>1. ASSUME x \in Range(a \o b) PROVE x \in Range(a) \cup Range(b)
    <3>1. PICK j \in DOMAIN (a \o b) : (a \o b)[j] = x
      BY <2>1, Zenon DEF Range
    <3>2. QED
      BY <3>1, <1>5, Zenon DEF Range
  <2>2. ASSUME x \in Range(a) PROVE x \in Range(a \o b)
    BY <2>2, <1>6, Zenon DEF Range
  <2>3. ASSUME x \in Range(b) PROVE x \in Range(a \o b)
    BY <2>3, <1>7, Zenon DEF Range
  <2>4. QED
    BY <2>1, <2>2, <2>3
<1>9. QED
  BY <1>2, <1>8

(* What occurs in the first m of the sequences s. *)
Members(s, m) == UNION {Range(s[k]) : k \in 1..m}

(* Sequences of S, one after another, are a sequence of S of their members. *)
LEMMA FlatsMembers ==
  ASSUME NEW S, NEW s \in Seq(Seq(S)), NEW f, Flats(s, Len(s), f), NEW m \in 1..Len(s)
  PROVE  /\ f[m] \in Seq(S)
         /\ Range(f[m]) = Members(s, m)
<1> DEFINE Fine(i) == f[i] \in Seq(S) /\ Range(f[i]) = Members(s, i)
           T == {i \in Nat : i \in 1..Len(s) /\ ~Fine(i)}
<1>1. SUFFICES ASSUME T # {} PROVE FALSE
  <2>1. m \in Nat /\ (~Fine(m) => m \in T)
    <3> HIDE DEF Fine
    <3>1. QED
      OBVIOUS
  <2>2. T = {} => Fine(m)
    BY <2>1, Zenon
  <2>3. QED
    BY <2>2
<1>2. PICK i \in T : \A y \in T : i <= y
  <2> HIDE DEF T
  <2>1. T \subseteq Nat
    BY DEF T
  <2>2. QED
    BY <1>1, <2>1, NatMin
<1>3. i \in 1..Len(s) /\ s[i] \in Seq(S)
  OBVIOUS
<1>4. f[i] = IF i = 1 THEN s[i] ELSE f[i - 1] \o s[i]
  BY <1>3 DEF Flats
<1>5. i # 1
  <2>1. SUFFICES ASSUME i = 1 PROVE Fine(i)
    OBVIOUS
  <2>2. f[i] = s[i] /\ 1..i = {i}
    BY <1>4, <2>1
  <2>3. Members(s, i) = Range(s[i])
    BY <2>2 DEF Members
  <2>4. QED
    BY <1>3, <2>2, <2>3
<1>6. i - 1 \in 1..Len(s) /\ ~(i <= i - 1) /\ 1..i = (1..i - 1) \cup {i}
  BY <1>3, <1>5
<1>7. Fine(i - 1)
  <2>1. i - 1 \notin T
    BY <1>2, <1>6
  <2> HIDE DEF Fine
  <2>2. QED
    BY <1>6, <2>1
<1>8. Members(s, i) = Members(s, i - 1) \cup Range(s[i])
  BY <1>6 DEF Members
<1>9. f[i - 1] \o s[i] \in Seq(S \cup S) /\ Range(f[i - 1] \o s[i]) = Range(f[i - 1]) \cup Range(s[i])
  BY <1>3, <1>7, JoinMembers
<1>10. f[i] \in Seq(S) /\ Range(f[i]) = Members(s, i)
  <2>1. f[i] = f[i - 1] \o s[i] /\ S \cup S = S
    BY <1>4, <1>5
  <2>2. Range(f[i - 1]) = Members(s, i - 1)
    BY <1>7
  <2>3. QED
    BY <1>8, <1>9, <2>1, <2>2
<1>11. QED
  BY <1>10

(* So FlattenSeq keeps the type of the members, and loses none. *)
LEMMA FlattenMembers ==
  ASSUME NEW S, NEW s \in Seq(Seq(S))
  PROVE  /\ FlattenSeq(s) \in Seq(S)
         /\ Range(FlattenSeq(s)) = Members(s, Len(s))
<1>1. CASE Len(s) = 0
  <2>1. FlattenSeq(s) = <<>> /\ DOMAIN s = {} /\ DOMAIN FlattenSeq(s) = {}
    BY <1>1, FlattenByFlats
  <2>2. QED
    BY <1>1, <2>1 DEF Range, Members
<1>2. CASE Len(s) # 0
  <2>1. PICK f : f = CHOOSE g : Flats(s, Len(s), g)
    OBVIOUS
  <2>2. Flats(s, Len(s), f)
    <3>1. Len(s) \in Nat
      OBVIOUS
    <3>2. QED
      BY <2>1, <3>1, FlatsExist
  <2>3. FlattenSeq(s) = f[Len(s)] /\ Len(s) \in 1..Len(s) /\ DOMAIN s = 1..Len(s)
    BY <1>2, <2>1, FlattenByFlats
  <2>4. PICK l \in 1..Len(s) : l = Len(s)
    BY <2>3
  <2>5. f[l] \in Seq(S) /\ Range(f[l]) = Members(s, l)
    BY <2>2, FlatsMembers
  <2>6. /\ f[Len(s)] \in Seq(S)
        /\ Range(f[Len(s)]) = Members(s, Len(s))
    BY <2>4, <2>5
  <2>7. QED
    BY <2>3, <2>6
<1>3. QED
  BY <1>1, <1>2

-----------------------------------------------------------------------------
(* What the rows of each table are, whatever the sizes and the choices. *)
Names == UNION {{[base |-> base, suffix |-> suffix] : base \in size.bases, suffix \in LegalForms \cup {NULL}} :
                  size \in Sizes}
Tiers == UNION {size.tiers : size \in Sizes}
Dates == Int \cup {NULL}

Customer == [customer_id : Int, company_name : Names, plan_tier : Tiers \cup {NULL}]

Subscription ==
  {r \in [customer_id : Int, tier : Tiers, started_on : Nat, ended_on : Dates,
          status : {"active", "paused", "cancelled"}] :
     r.ended_on = NULL <=> r.status # "cancelled"}

Invoice ==
  {r \in [cust_id : Int, issued_at : Int, unit : {"cents", "dollars"}, currency_minor : {0, 1, NULL},
          status : {"unpaid", "void", "paid"}, paid_at : {"later", NULL}] :
     r.status # "paid" => r.paid_at = NULL}

UsageEvent == [event_value : EventValues]
Ticket == [cust_id : Int, csat : {NULL, 1, 3, 5}]
Deal == [stage : {"closed", "discovery", "demo"}, status : {"won", "lost", "open"},
         close_dt : {"dated", NULL}]

Version ==
  {r \in [sku : Nat, effective_from : Nat, effective_to : Dates, is_current : BOOLEAN] :
     r.is_current # (r.effective_to = NULL) => r.sku \in Broken}

Departure == [customer_id : Int, reason_code : Codes, churned_on : Int, recovered_on : Dates]

RowType ==
  [t \in TableNames |->
     CASE t = "customers" -> Customer
       [] t = "subscriptions" -> Subscription
       [] t = "invoices" -> Invoice
       [] t = "usage_events" -> UsageEvent
       [] t = "support_tickets" -> Ticket
       [] t = "deals" -> Deal
       [] t = "product_catalog" -> Version
       [] t = "churn_log" -> Departure]

TablesOK ==
  /\ tables = [t \in TableNames |-> tables[t]]
  /\ \A t \in TableNames : tables[t] \in Seq(RowType[t])

(* A table has the rows its builder is for. *)
LEMMA RowTypes ==
  /\ RowType["customers"] = Customer /\ RowType["subscriptions"] = Subscription
  /\ RowType["invoices"] = Invoice /\ RowType["usage_events"] = UsageEvent
  /\ RowType["support_tickets"] = Ticket /\ RowType["deals"] = Deal
  /\ RowType["product_catalog"] = Version /\ RowType["churn_log"] = Departure
  BY DEF RowType, TableNames

(* What a size says, once one is chosen. *)
LEMMA SizeTypes ==
  ASSUME n \in Sizes
  PROVE  /\ n.customers \in Nat /\ n.duplicates \in Nat /\ n.events \in Nat /\ n.tickets \in Nat
         /\ n.deals \in Nat /\ n.skus \in Nat
         /\ n.starts \subseteq Nat /\ n.tiers \subseteq Tiers
         /\ \A base \in n.bases, suffix \in LegalForms \cup {NULL} :
              [base |-> base, suffix |-> suffix] \in Names
<1>1. {n.customers, n.duplicates, n.events, n.tickets, n.deals, n.skus} \subseteq Nat /\ n.starts \subseteq Nat
  BY ValuesAssumption
<1>2. n.tiers \subseteq Tiers
  BY DEF Tiers
<1>3. ASSUME NEW base \in n.bases, NEW suffix \in LegalForms \cup {NULL}
      PROVE  [base |-> base, suffix |-> suffix] \in Names
  BY DEF Names
<1>4. QED
  BY <1>1, <1>2, <1>3

(* A builder replaces one table and leaves the others. *)
LEMMA BuiltKeeps ==
  ASSUME TablesOK, NEW t \in TableNames, NEW rows \in Seq(RowType[t]), NEW then, Built(t, rows, then)
  PROVE  /\ TablesOK' /\ tables'[t] = rows /\ \A u \in TableNames \ {t} : tables'[u] = tables[u]
         /\ stage' = then /\ n' = n /\ seed' = seed
  BY DEF TablesOK, Built

(* A function from 1 on is a sequence. *)
LEMMA FromOne ==
  ASSUME NEW S, NEW k \in Nat, NEW f \in [1..k -> S]
  PROVE  f \in Seq(S) /\ Len(f) = k /\ DOMAIN f = 1..k
  OBVIOUS

(* The builders, one by one: each fills its table with rows of its type. *)
LEMMA CustomersBuilt ==
  ASSUME n \in Sizes, TablesOK, BuildCustomers
  PROVE  TablesOK' /\ stage' = "subscriptions" /\ n' = n /\ seed' = seed
<1>1. PICK base \in [1..n.customers -> n.bases], sources \in Samples(n.duplicates, 1..n.customers),
           suffix \in [1..n.duplicates -> LegalForms] :
       LET names == [i \in 1..n.customers |-> [base |-> base[i], suffix |-> NULL]]
                      \o [i \in 1..n.duplicates |-> [base |-> base[sources[i]], suffix |-> suffix[i]]]
       IN  Built("customers",
                 [i \in DOMAIN names |-> [customer_id |-> CustomerBase + i, company_name |-> names[i],
                                          plan_tier |-> NULL]],
                 "subscriptions")
  BY DEF BuildCustomers
<1> DEFINE own == [i \in 1..n.customers |-> [base |-> base[i], suffix |-> NULL]]
           twice == [i \in 1..n.duplicates |-> [base |-> base[sources[i]], suffix |-> suffix[i]]]
           names == own \o twice
           row(i) == [customer_id |-> CustomerBase + i, company_name |-> names[i], plan_tier |-> NULL]
           rows == [i \in DOMAIN names |-> row(i)]
<1>2. own \in Seq(Names)
  <2>1. n.customers \in Nat /\ \A i \in 1..n.customers : [base |-> base[i], suffix |-> NULL] \in Names
    BY SizeTypes
  <2>2. own \in [1..n.customers -> Names]
    BY <2>1
  <2> HIDE DEF own
  <2>3. QED
    BY <2>1, <2>2, FromOne
<1>3. twice \in Seq(Names)
  <2>1. sources \in [1..n.duplicates -> 1..n.customers]
    BY DEF Samples
  <2>2. \A i \in 1..n.duplicates : base[sources[i]] \in n.bases /\ suffix[i] \in LegalForms \cup {NULL}
    BY <2>1
  <2>3. n.duplicates \in Nat
          /\ \A i \in 1..n.duplicates : [base |-> base[sources[i]], suffix |-> suffix[i]] \in Names
    BY <2>2, SizeTypes
  <2>4. twice \in [1..n.duplicates -> Names]
    BY <2>3
  <2> HIDE DEF twice
  <2>5. QED
    BY <2>3, <2>4, FromOne
<1>4. PICK all : all = names
  OBVIOUS
<1>5. all \in Seq(Names) /\ Len(all) \in Nat /\ DOMAIN all = 1..Len(all)
  <2> HIDE DEF own, twice
  <2>1. QED
    BY <1>2, <1>3, <1>4
<1>6. rows = [i \in 1..Len(all) |-> [customer_id |-> CustomerBase + i, company_name |-> all[i], plan_tier |-> NULL]]
  <2> HIDE DEF own, twice
  <2>1. QED
    BY <1>4, <1>5
<1>7. rows \in Seq(Customer)
  <2> HIDE DEF rows
  <2>1. \A i \in 1..Len(all) : rows[i] \in Customer
    BY <1>5, <1>6 DEF Customer, CustomerBase
  <2>2. QED
    BY <1>5, <1>6, <2>1, FromOne
<1>8. Built("customers", rows, "subscriptions") /\ "customers" \in TableNames
  BY <1>1 DEF TableNames
<1>9. QED
  <2> HIDE DEF rows
  <2>1. QED
    BY <1>7, <1>8, BuiltKeeps, RowTypes

(* A subscription has an end if it is cancelled, and only then. *)
LEMMA TermsFit ==
  ASSUME NEW d \in Nat, NEW e \in Terms(d)
  PROVE  /\ e.ended_on \in Dates /\ e.status \in {"active", "paused", "cancelled"}
         /\ e.ended_on = NULL <=> e.status # "cancelled"
<1>1. CASE e \in {[status |-> s, ended_on |-> NULL] : s \in {"active", "paused"}}
  BY <1>1 DEF Dates
<1>2. CASE e \in {[status |-> "cancelled", ended_on |-> x] : x \in RandDate(FirstOf(Month(d)) + 3, Today)}
  <2>1. RandDate(FirstOf(Month(d)) + 3, Today) \subseteq Int
    BY DatasetAssumption DEF RandDate, FirstOf, Month
  <2>2. PICK x \in RandDate(FirstOf(Month(d)) + 3, Today) : e = [status |-> "cancelled", ended_on |-> x]
    BY <1>2
  <2>3. x \in Int /\ x # NULL
    BY <2>1, ValuesAssumption
  <2>4. QED
    BY <2>2, <2>3 DEF Dates
<1>3. QED
  BY <1>1, <1>2 DEF Terms

LEMMA SubscriptionsBuilt ==
  ASSUME n \in Sizes, TablesOK, BuildSubscriptions
  PROVE  TablesOK' /\ stage' = "plan_tier" /\ n' = n /\ seed' = seed
<1> DEFINE cs == tables["customers"]
           rows(sub) == [i \in DOMAIN cs |->
                           [customer_id |-> cs[i].customer_id, tier |-> sub[i].tier,
                            started_on |-> sub[i].started_on,
                            ended_on |-> sub[i].ended_on, status |-> sub[i].status]]
<1>1. PICK sub \in [DOMAIN cs -> Contracts] : Built("subscriptions", rows(sub), "plan_tier")
  BY DEF BuildSubscriptions
<1>2. "customers" \in TableNames /\ "subscriptions" \in TableNames
  BY DEF TableNames
<1>3. cs \in Seq(Customer) /\ Len(cs) \in Nat /\ DOMAIN cs = 1..Len(cs)
  BY <1>2, RowTypes DEF TablesOK
<1>4. ASSUME NEW x \in Contracts
      PROVE  /\ x.tier \in Tiers /\ x.started_on \in Nat /\ x.ended_on \in Dates
             /\ x.status \in {"active", "paused", "cancelled"}
             /\ x.ended_on = NULL <=> x.status # "cancelled"
  <2>1. PICK d \in n.starts :
          x \in {[tier |-> t, started_on |-> d, ended_on |-> e.ended_on, status |-> e.status] :
                  t \in n.tiers, e \in Terms(d)}
    BY DEF Contracts
  <2>2. PICK t \in n.tiers, e \in Terms(d) :
          x = [tier |-> t, started_on |-> d, ended_on |-> e.ended_on, status |-> e.status]
    BY <2>1
  <2>3. d \in Nat /\ t \in Tiers
    BY SizeTypes
  <2>4. QED
    BY <2>2, <2>3, TermsFit
<1>5. \A i \in 1..Len(cs) : sub[i] \in Contracts /\ cs[i].customer_id \in Int
  <2>1. \A i \in 1..Len(cs) : cs[i] \in Customer
    BY <1>3
  <2>2. QED
    BY <1>3, <2>1 DEF Customer
<1>6. rows(sub) \in [1..Len(cs) -> Subscription]
  <2>1. ASSUME NEW i \in 1..Len(cs)
        PROVE  [customer_id |-> cs[i].customer_id, tier |-> sub[i].tier, started_on |-> sub[i].started_on,
                ended_on |-> sub[i].ended_on, status |-> sub[i].status] \in Subscription
    <3>1. PICK x \in Contracts : x = sub[i]
      BY <1>5
    <3>2. QED
      BY <1>4, <1>5, <3>1 DEF Subscription
  <2>2. QED
    BY <1>3, <2>1
<1>7. rows(sub) \in Seq(Subscription)
  <2> HIDE DEF rows
  <2>1. QED
    BY <1>3, <1>6, FromOne
<1>8. QED
  <2> HIDE DEF rows
  <2>1. QED
    BY <1>1, <1>2, <1>7, BuiltKeeps, RowTypes

LEMMA PlanTierApplied ==
  ASSUME n \in Sizes, TablesOK, ApplyStalePlanTier
  PROVE  TablesOK' /\ stage' = "invoices" /\ n' = n /\ seed' = seed
<1> DEFINE cs == tables["customers"]
           rows(tier) == [i \in DOMAIN cs |-> [cs[i] EXCEPT !.plan_tier = tier[i]]]
<1>1. PICK tier \in [DOMAIN cs -> n.tiers \cup {NULL}] : Built("customers", rows(tier), "invoices")
  BY DEF ApplyStalePlanTier
<1>2. "customers" \in TableNames
  BY DEF TableNames
<1>3. cs \in Seq(Customer) /\ Len(cs) \in Nat /\ DOMAIN cs = 1..Len(cs)
  BY <1>2, RowTypes DEF TablesOK
<1>4. ASSUME NEW i \in 1..Len(cs) PROVE [cs[i] EXCEPT !.plan_tier = tier[i]] \in Customer
  <2>1. cs[i] \in Customer /\ tier[i] \in Tiers \cup {NULL}
    BY <1>3, SizeTypes
  <2>2. QED
    BY <2>1 DEF Customer
<1>5. rows(tier) \in [1..Len(cs) -> Customer]
  BY <1>3, <1>4
<1>6. rows(tier) \in Seq(Customer)
  <2> HIDE DEF rows
  <2>1. QED
    BY <1>3, <1>5, FromOne
<1>7. QED
  <2> HIDE DEF rows
  <2>1. QED
    BY <1>1, <1>2, <1>6, BuiltKeeps, RowTypes

(* A subscription is billed by the month, from its start. *)
Bill == [sub : Subscription, month : Int]

(* The months of a subscription are bills of it. *)
LEMMA BillsOf ==
  ASSUME NEW sub \in Subscription
  PROVE  MonthsBilled(sub) \in Seq(Bill)
<1>1. CASE sub.tier = "free"
  BY <1>1 DEF MonthsBilled
<1>2. CASE sub.tier # "free"
  <2>1. sub.started_on \in Nat /\ sub.ended_on \in Dates
    BY DEF Subscription
  <2>2. PICK first, last \in Int : first = Month(sub.started_on) /\ last = Month(Stop(sub) + 1)
    <3>1. Stop(sub) \in Int
      BY <2>1, DatasetAssumption DEF Dates, Stop
    <3>2. QED
      BY <2>1, <3>1 DEF Month
  <2> DEFINE bills == [k \in 1..last - first |-> [sub |-> sub, month |-> first + k - 1]]
  <2>3. MonthsBilled(sub) = bills
    BY <1>2, <2>2 DEF MonthsBilled
  <2>4. PICK k \in Nat : 1..last - first = 1..k
    <3>1. CASE last - first \in Nat
      BY <3>1
    <3>2. CASE last - first \notin Nat
      <4>1. 1..last - first = 1..0
        BY <2>2, <3>2
      <4>2. QED
        BY <4>1
    <3>3. QED
      BY <3>1, <3>2
  <2>5. bills \in [1..k -> Bill]
    BY <2>2, <2>4 DEF Bill
  <2> HIDE DEF bills
  <2>6. QED
    BY <2>3, <2>4, <2>5, FromOne
<1>3. QED
  BY <1>1, <1>2

LEMMA InvoicesBuilt ==
  ASSUME n \in Sizes, TablesOK, BuildInvoices
  PROVE  TablesOK' /\ stage' = "usage_events" /\ n' = n /\ seed' = seed
<1> DEFINE subs == tables["subscriptions"]
           bills == [i \in DOMAIN subs |-> MonthsBilled(subs[i])]
           dues == IF n.billed THEN FlattenSeq(bills) ELSE <<>>
           row(due, i, lost, how) ==
             [cust_id |-> due[i].sub.customer_id, issued_at |-> due[i].month,
              unit |-> IF FirstOf(due[i].month) < Cutover THEN "cents" ELSE "dollars",
              currency_minor |-> IF i \in lost THEN NULL
                                 ELSE IF FirstOf(due[i].month) < Cutover THEN 1 ELSE 0,
              status |-> how[i][1], paid_at |-> how[i][2]]
           rows(due, lost, how) == [i \in DOMAIN due |-> row(due, i, lost, how)]
<1>0. \E lost \in SUBSET DOMAIN dues, how \in [DOMAIN dues -> Settled] :
        Built("invoices", rows(dues, lost, how), "usage_events")
  BY Zenon DEF BuildInvoices
<1>1. PICK due : due = dues
  OBVIOUS
<1>2. due \in Seq(Bill) /\ Len(due) \in Nat /\ DOMAIN due = 1..Len(due)
  <2>1. subs \in Seq(Subscription)
    BY RowTypes DEF TablesOK, TableNames
  <2>2. Len(subs) \in Nat /\ bills \in [1..Len(subs) -> Seq(Bill)]
    BY <2>1, BillsOf
  <2> HIDE DEF bills
  <2>3. bills \in Seq(Seq(Bill))
    BY <2>2
  <2>4. FlattenSeq(bills) \in Seq(Bill)
    BY <2>3, FlattenMembers
  <2>5. QED
    BY <1>1, <2>4
<1>3. PICK lost \in SUBSET DOMAIN due, how \in [DOMAIN due -> Settled] :
        Built("invoices", rows(due, lost, how), "usage_events")
  <2> HIDE DEF rows, dues
  <2>1. QED
    BY <1>0, <1>1
<1>4. ASSUME NEW i \in 1..Len(due) PROVE rows(due, lost, how)[i] \in Invoice
  <2>1. how[i] \in Settled /\ due[i] \in Bill
    BY <1>2
  <2>2. due[i].sub.customer_id \in Int /\ due[i].month \in Int
    BY <2>1 DEF Bill, Subscription
  <2>3. /\ how[i][1] \in {"unpaid", "void", "paid"} /\ how[i][2] \in {"later", NULL}
        /\ how[i][1] # "paid" => how[i][2] = NULL
    BY <2>1 DEF Settled
  <2>4. QED
    BY <1>2, <2>2, <2>3 DEF Invoice
<1>5. rows(due, lost, how) \in [1..Len(due) -> Invoice]
  BY <1>2, <1>4
<1>6. rows(due, lost, how) \in Seq(Invoice)
  <2> HIDE DEF rows
  <2>1. QED
    BY <1>2, <1>5, FromOne
<1>7. QED
  <2> HIDE DEF rows
  <2>1. "invoices" \in TableNames
    BY DEF TableNames
  <2>2. QED
    BY <1>3, <1>6, <2>1, BuiltKeeps, RowTypes

LEMMA EventsBuilt ==
  ASSUME n \in Sizes, TablesOK, BuildUsageEvents
  PROVE  TablesOK' /\ stage' = "support_tickets" /\ n' = n /\ seed' = seed
<1>1. PICK row \in [1..n.events -> UsageEvent] : Built("usage_events", row, "support_tickets")
  BY DEF BuildUsageEvents, UsageEvent
<1>2. row \in Seq(UsageEvent)
  BY SizeTypes, FromOne
<1>3. "usage_events" \in TableNames
  BY DEF TableNames
<1>4. QED
  BY <1>1, <1>2, <1>3, BuiltKeeps, RowTypes

LEMMA TicketsBuilt ==
  ASSUME n \in Sizes, TablesOK, BuildSupportTickets
  PROVE  TablesOK' /\ stage' = "deals" /\ n' = n /\ seed' = seed
<1>1. PICK row \in [1..n.tickets -> [cust_id : CustomerIds \cup {GhostBase + 1}, csat : {NULL, 1, 3, 5}]] :
        Built("support_tickets", row, "deals")
  BY DEF BuildSupportTickets
<1>2. CustomerIds \subseteq Int
  <2>1. tables["customers"] \in Seq(Customer)
    BY RowTypes DEF TablesOK, TableNames
  <2>2. RowsOf("customers") \subseteq Customer
    BY <2>1 DEF RowsOf
  <2>3. \A r \in Customer : r.customer_id \in Int
    BY DEF Customer
  <2>4. QED
    BY <2>2, <2>3 DEF CustomerIds
<1>3. \A i \in 1..n.tickets : row[i] \in Ticket
  <2>1. CustomerIds \cup {GhostBase + 1} \subseteq Int
    BY <1>2 DEF GhostBase
  <2> SUFFICES ASSUME NEW i \in 1..n.tickets PROVE row[i] \in Ticket
    OBVIOUS
  <2>2. row[i] \in [cust_id : CustomerIds \cup {GhostBase + 1}, csat : {NULL, 1, 3, 5}]
    OBVIOUS
  <2>3. QED
    BY <2>1, <2>2 DEF Ticket
<1>4. row \in [1..n.tickets -> Ticket]
  BY <1>3
<1>5. row \in Seq(Ticket)
  BY <1>4, SizeTypes, FromOne
<1>6. "support_tickets" \in TableNames
  BY DEF TableNames
<1>7. QED
  BY <1>1, <1>5, <1>6, BuiltKeeps, RowTypes

LEMMA DealsBuilt ==
  ASSUME n \in Sizes, TablesOK, BuildDeals
  PROVE  TablesOK' /\ stage' = "product_catalog" /\ n' = n /\ seed' = seed
<1> DEFINE Deals == {[stage |-> "closed", status |-> s, close_dt |-> "dated"] : s \in {"won", "lost"}}
                      \cup {[stage |-> s, status |-> "open", close_dt |-> NULL] : s \in {"discovery", "demo"}}
<1>1. PICK row \in [1..n.deals -> Deals] : Built("deals", row, "product_catalog")
  BY DEF BuildDeals
<1>2. \A x \in Deals : x \in Deal
  BY DEF Deal
<1> HIDE DEF Deals
<1>3. row \in [1..n.deals -> Deal]
  BY <1>2
<1>4. row \in Seq(Deal)
  BY <1>3, SizeTypes, FromOne
<1>5. "deals" \in TableNames
  BY DEF TableNames
<1>6. QED
  BY <1>1, <1>4, <1>5, BuiltKeeps, RowTypes

(* The months versions begin at, and the function that gives them. *)
Begun(lengths, f) ==
  f = [v \in 1..Len(lengths) + 1 |-> IF v = 1 THEN 0 ELSE f[v - 1] + lengths[v - 1]]

(* The days on which versions begin, by the function Begins recurs with. *)
LEMMA BeginsByBegun ==
  ASSUME NEW lengths
  PROVE  Begins(lengths) = CHOOSE f : Begun(lengths, f)
BY DEF Begins, Begun

(* There is one for any lengths ... *)
LEMMA BegunExists ==
  ASSUME NEW lengths, Len(lengths) \in Nat
  PROVE  \E f : Begun(lengths, f)
<1> DEFINE Till(m, f) == f = [v \in 1..m |-> IF v = 1 THEN 0 ELSE f[v - 1] + lengths[v - 1]]
           T == {m \in Nat : ~ \E f : Till(m, f)}
<1>1. SUFFICES ASSUME T # {} PROVE FALSE
  <2>1. Len(lengths) + 1 \in Nat
    OBVIOUS
  <2>2. T = {} => \E f : Till(Len(lengths) + 1, f)
    <3> HIDE DEF Till
    <3>1. QED
      BY <2>1
  <2>3. QED
    BY <2>2 DEF Begun
<1>2. PICK m \in T : \A y \in T : m <= y
  <2> HIDE DEF T
  <2>1. T \subseteq Nat
    BY DEF T
  <2>2. QED
    BY <1>1, <2>1, NatMin
<1>3. m # 0
  <2> DEFINE none == [i \in 1..0 |-> 0]
  <2>1. Till(0, none)
    OBVIOUS
  <2> HIDE DEF Till
  <2>2. QED
    BY <2>1
<1>4. PICK f : Till(m - 1, f)
  <2> HIDE DEF Till
  <2>1. m - 1 \in Nat /\ ~(m <= m - 1)
    BY <1>3
  <2>2. m - 1 \notin T
    BY <1>2, <2>1
  <2>3. QED
    BY <2>1, <2>2
<1> DEFINE last == IF m = 1 THEN 0 ELSE f[m - 1] + lengths[m - 1]
           more == [i \in 1..m |-> IF i = m THEN last ELSE f[i]]
<1>5. ASSUME NEW i \in 1..m
      PROVE  more[i] = IF i = 1 THEN 0 ELSE more[i - 1] + lengths[i - 1]
  <2> HIDE DEF last
  <2>1. CASE i = m
    <3>1. more[i] = last /\ (i # 1 => more[i - 1] = f[i - 1])
      BY <2>1
    <3> HIDE DEF more
    <3>2. QED
      BY <2>1, <3>1 DEF last
  <2>2. CASE i # m
    <3>1. i \in 1..m - 1 /\ more[i] = f[i] /\ (i # 1 => more[i - 1] = f[i - 1])
      BY <2>2
    <3>2. f[i] = IF i = 1 THEN 0 ELSE f[i - 1] + lengths[i - 1]
      BY <1>4, <3>1
    <3> HIDE DEF more
    <3>3. QED
      BY <3>1, <3>2
  <2>3. QED
    BY <2>1, <2>2
<1>6. Till(m, more)
  <2>1. more = [i \in 1..m |-> more[i]]
    BY Zenon
  <2> HIDE DEF more
  <2>2. QED
    BY <1>5, <2>1
<1>7. QED
  <2> HIDE DEF Till
  <2>1. QED
    BY <1>6

(* ... so a version begins on a day. *)
LEMMA BeginsType ==
  ASSUME NEW lengths \in Seq(Nat), NEW v \in 1..Len(lengths) + 1
  PROVE  Begins(lengths)[v] \in Nat
<1>1. PICK f : f = Begins(lengths)
  OBVIOUS
<1>2. Begun(lengths, f)
  BY <1>1, BeginsByBegun, BegunExists
<1> DEFINE T == {i \in Nat : i \in 1..Len(lengths) + 1 /\ f[i] \notin Nat}
<1>3. SUFFICES ASSUME T # {} PROVE FALSE
  BY <1>1
<1>4. PICK i \in T : \A y \in T : i <= y
  <2> HIDE DEF T
  <2>1. T \subseteq Nat
    BY DEF T
  <2>2. QED
    BY <1>3, <2>1, NatMin
<1>5. f[i] = IF i = 1 THEN 0 ELSE f[i - 1] + lengths[i - 1]
  BY <1>2 DEF Begun
<1>6. i # 1
  BY <1>5
<1>7. i - 1 \in 1..Len(lengths) /\ i - 1 \in 1..Len(lengths) + 1 /\ ~(i <= i - 1)
  BY <1>6
<1>8. f[i - 1] \in Nat /\ lengths[i - 1] \in Nat
  BY <1>4, <1>7
<1>9. QED
  BY <1>5, <1>6, <1>8

(* The versions of a price are rows of the catalog; of a botched SKU the first
   is flagged though it has ended. *)
Mismatch(r) == r.is_current # (r.effective_to = NULL)

(* These versions are rows, and of a botched SKU one is flagged wrongly. *)
LEMMA VersionsFit ==
  ASSUME NEW sku \in Nat, NEW lengths \in Seq(Nat)
  PROVE  /\ Versions(sku, lengths) \in Seq(Version)
         /\ \A r \in Range(Versions(sku, lengths)) : r.sku = sku
         /\ sku \in Broken /\ Len(lengths) # 0 => \E r \in Range(Versions(sku, lengths)) : Mismatch(r)
<1> DEFINE len == Len(lengths) + 1
           row(v) == [sku |-> sku, effective_from |-> Begins(lengths)[v],
                      effective_to |-> IF v = len THEN NULL ELSE Begins(lengths)[v] + lengths[v],
                      is_current |-> IF sku \in Broken THEN v = 1 ELSE v = len]
           rows == [v \in 1..len |-> row(v)]
<1>1. Versions(sku, lengths) = rows
  BY DEF Versions
<1>2. len \in Nat
  OBVIOUS
<1>3. ASSUME NEW v \in 1..len
      PROVE  /\ Begins(lengths)[v] \in Nat
             /\ v # len => Begins(lengths)[v] + lengths[v] \in Nat
  <2>1. Begins(lengths)[v] \in Nat
    BY BeginsType
  <2>2. v # len => lengths[v] \in Nat
    OBVIOUS
  <2>3. QED
    BY <2>1, <2>2
<1>4. ASSUME NEW v \in 1..len
      PROVE  row(v) \in Version /\ row(v).sku = sku /\ (sku \in Broken /\ v = 1 /\ v # len => Mismatch(row(v)))
  <2>1. PICK from \in Nat : from = Begins(lengths)[v]
    BY <1>3
  <2>2. PICK to : to = IF v = len THEN NULL ELSE Begins(lengths)[v] + lengths[v]
    OBVIOUS
  <2>3. to \in Dates /\ (to = NULL <=> v = len)
    BY <1>3, <2>2, ValuesAssumption DEF Dates
  <2>4. PICK flag : flag = IF sku \in Broken THEN v = 1 ELSE v = len
    OBVIOUS
  <2>5. flag \in BOOLEAN /\ (sku \in Broken => flag = (v = 1)) /\ (sku \notin Broken => flag = (v = len))
    BY <2>4, Zenon
  <2>6. row(v) = [sku |-> sku, effective_from |-> from, effective_to |-> to, is_current |-> flag]
    BY <2>1, <2>2, <2>4, Zenon
  <2> HIDE DEF row, len
  <2>7. /\ row(v) \in [sku : Nat, effective_from : Nat, effective_to : Dates, is_current : BOOLEAN]
        /\ row(v).sku = sku /\ row(v).effective_to = to /\ row(v).is_current = flag
    BY <2>3, <2>5, <2>6
  <2>8. sku \notin Broken => flag = (to = NULL)
    BY <2>3, <2>5, Zenon
  <2>9. sku \in Broken /\ v = 1 /\ v # len => flag # (to = NULL)
    BY <2>3, <2>5, Zenon
  <2>10. sku \in Broken /\ v = 1 /\ v # len => Mismatch(row(v))
    BY <2>7, <2>9, Zenon DEF Mismatch
  <2>11. Mismatch(row(v)) => row(v).sku \in Broken
    BY <2>7, <2>8, Zenon DEF Mismatch
  <2>12. row(v) \in Version
    BY <2>7, <2>11, Zenon DEF Version, Mismatch
  <2>13. QED
    BY <2>7, <2>10, <2>12
<1>5. rows \in [1..len -> Version] /\ \A v \in 1..len : rows[v] = row(v)
  <2> HIDE DEF row
  <2>1. QED
    BY <1>4
<1> HIDE DEF rows, row
<1>6. rows \in Seq(Version) /\ DOMAIN rows = 1..len
  BY <1>2, <1>5, FromOne
<1>7. \A r \in Range(rows) : r.sku = sku
  BY <1>4, <1>5, <1>6 DEF Range
<1>8. sku \in Broken /\ Len(lengths) # 0 => \E r \in Range(rows) : Mismatch(r)
  <2>1. 1 \in 1..len /\ (Len(lengths) # 0 => 1 # len)
    OBVIOUS
  <2>2. rows[1] = row(1) /\ rows[1] \in Range(rows)
    BY <1>5, <1>6, <2>1 DEF Range
  <2>3. QED
    BY <1>4, <2>1, <2>2
<1>9. QED
  BY <1>1, <1>6, <1>7, <1>8

(* Where a botched SKU is sold, a version is flagged wrongly. *)
BotchedShows(rows) == (\E r \in rows : r.sku \in Broken) => \E r \in rows : Mismatch(r)

LEMMA CatalogBuilt ==
  ASSUME n \in Sizes, TablesOK, BuildProductCatalog
  PROVE  /\ TablesOK' /\ stage' = "churn_log" /\ n' = n /\ seed' = seed
         /\ BotchedShows(RowsOf("product_catalog")')
<1> DEFINE Lengths == UNION {[1..k - 1 -> {13, 26}] : k \in 2..MaxVersions}
           of(lengths) == [sku \in 1..n.skus |-> Versions(sku, lengths[sku])]
<1>1. PICK lengths \in [1..n.skus -> Lengths] :
        Built("product_catalog", FlattenSeq(of(lengths)), "churn_log")
  BY DEF BuildProductCatalog
<1>2. ASSUME NEW x \in Lengths PROVE x \in Seq(Nat) /\ Len(x) # 0
  <2>1. PICK k \in 2..MaxVersions : x \in [1..k - 1 -> {13, 26}]
    OBVIOUS
  <2>2. k - 1 \in Nat /\ k - 1 # 0 /\ x \in [1..k - 1 -> Nat]
    BY <2>1, DatasetAssumption
  <2>3. QED
    BY <2>2, FromOne
<1> HIDE DEF Lengths
<1>3. ASSUME NEW sku \in 1..n.skus
      PROVE  /\ Versions(sku, lengths[sku]) \in Seq(Version)
             /\ \A r \in Range(Versions(sku, lengths[sku])) : r.sku = sku
             /\ sku \in Broken => \E r \in Range(Versions(sku, lengths[sku])) : Mismatch(r)
  <2>1. sku \in Nat /\ lengths[sku] \in Seq(Nat) /\ Len(lengths[sku]) # 0
    BY <1>2
  <2>2. QED
    BY <2>1, VersionsFit
<1>4. PICK all : all = of(lengths)
  OBVIOUS
<1>5. n.skus \in Nat /\ all \in [1..n.skus -> Seq(Version)] /\ \A sku \in 1..n.skus : all[sku] = Versions(sku, lengths[sku])
  BY <1>3, <1>4, SizeTypes
<1>6. all \in Seq(Seq(Version)) /\ Len(all) = n.skus
  BY <1>5, FromOne
<1>7. PICK rows : rows = FlattenSeq(all)
  OBVIOUS
<1>8. rows \in Seq(Version) /\ Range(rows) = Members(all, n.skus)
  BY <1>6, <1>7, FlattenMembers
<1>9. BotchedShows(Range(rows))
  <2>1. SUFFICES ASSUME NEW r \in Range(rows), r.sku \in Broken PROVE \E q \in Range(rows) : Mismatch(q)
    BY DEF BotchedShows
  <2>2. PICK sku \in 1..n.skus : r \in Range(all[sku])
    BY <1>8 DEF Members
  <2>3. PICK q \in Range(all[sku]) : Mismatch(q)
    BY <1>3, <1>5, <2>1, <2>2
  <2>4. q \in Range(rows)
    BY <1>8 DEF Members
  <2>5. QED
    BY <2>3, <2>4
<1>10. Built("product_catalog", rows, "churn_log") /\ "product_catalog" \in TableNames
  BY <1>1, <1>4, <1>7 DEF TableNames
<1>11. TablesOK' /\ tables'["product_catalog"] = rows /\ stage' = "churn_log" /\ n' = n /\ seed' = seed
  BY <1>8, <1>10, BuiltKeeps, RowTypes
<1>12. RowsOf("product_catalog")' = Range(rows)
  BY <1>11, Zenon DEF RowsOf, Range
<1>13. QED
  BY <1>9, <1>11, <1>12

(* A field of the rows of a table takes finitely many values. *)
LEMMA FiniteField ==
  ASSUME NEW k \in Nat, NEW f, DOMAIN f = 1..k
  PROVE  IsFiniteSet(Range(f))
<1> DEFINE g == [i \in 1..k |-> f[i]]
<1>1. g \in Surjection(1..k, Range(f))
  BY DEF Surjection, Range
<1>2. IsFiniteSet(1..k)
  BY FS_Interval
<1>3. QED
  BY <1>1, <1>2, FS_Surjection

(* Customers, cancelled or eligible, are finitely many. *)
LEMMA SomeCustomers ==
  ASSUME TablesOK
  PROVE  /\ Cancelled \subseteq Int /\ IsFiniteSet(Cancelled)
         /\ Eligible \subseteq Int /\ IsFiniteSet(Eligible)
<1> DEFINE cs == tables["customers"]
           subs == tables["subscriptions"]
<1>1. /\ cs \in Seq(Customer) /\ Len(cs) \in Nat /\ DOMAIN cs = 1..Len(cs)
      /\ subs \in Seq(Subscription) /\ Len(subs) \in Nat /\ DOMAIN subs = 1..Len(subs)
  BY RowTypes DEF TablesOK, TableNames
<1>2. \A i \in 1..Len(cs) : cs[i].customer_id \in Int
  <2>1. \A i \in 1..Len(cs) : cs[i] \in Customer
    BY <1>1
  <2>2. QED
    BY <2>1 DEF Customer
<1>3. \A i \in 1..Len(subs) : subs[i].customer_id \in Int
  <2>1. \A i \in 1..Len(subs) : subs[i] \in Subscription
    BY <1>1
  <2>2. QED
    BY <2>1 DEF Subscription
<1>4. PICK f : f = [i \in 1..Len(cs) |-> cs[i].customer_id]
  OBVIOUS
<1>5. PICK g : g = [i \in 1..Len(subs) |-> subs[i].customer_id]
  OBVIOUS
<1>6. IsFiniteSet(Range(f)) /\ IsFiniteSet(Range(g)) /\ Range(f) \subseteq Int /\ Range(g) \subseteq Int
  <2>1. IsFiniteSet(Range(f)) /\ IsFiniteSet(Range(g))
    BY <1>1, <1>4, <1>5, FiniteField
  <2>2. Range(f) \subseteq Int /\ Range(g) \subseteq Int
    BY <1>2, <1>3, <1>4, <1>5 DEF Range
  <2>3. QED
    BY <2>1, <2>2
<1>7. Cancelled \subseteq Range(g)
  BY <1>1, <1>5 DEF Cancelled, RowsOf, Range
<1>8. Eligible \subseteq Range(f)
  BY <1>1, <1>4 DEF Eligible, CustomerIds, RowsOf, Range
<1>9. QED
  BY <1>6, <1>7, <1>8, FS_Subset

(* A sample is a sequence of its size. *)
LEMMA Sampled ==
  ASSUME NEW k \in Nat, NEW S, S \subseteq Int, NEW s \in Samples(k, S)
  PROVE  s \in Seq(Int) /\ Len(s) = k
<1>1. s \in [1..k -> S]
  BY DEF Samples
<1>2. s \in [1..k -> Int]
  BY <1>1
<1>3. QED
  BY <1>2, FromOne

LEMMA ChurnBuilt ==
  ASSUME n \in Sizes, TablesOK, BuildChurnLog
  PROVE  /\ TablesOK' /\ stage' = "emit" /\ n' = n /\ seed' = seed
         /\ tables'["product_catalog"] = tables["product_catalog"]
<1> DEFINE Returned == Lesser(Max({MinReturned, Cardinality(Eligible) \div 3}), Cardinality(Eligible))
           Stays == UNION {{<<d, r>> : r \in RandDate(d + 1, Today)} : d \in 0..LastReturn}
           row(gone, who, code, leaves, stay, i) ==
             [customer_id |-> who[i], reason_code |-> code[i],
              churned_on |-> IF i \in DOMAIN gone THEN leaves[i] ELSE stay[i][1],
              recovered_on |-> IF i \in DOMAIN gone THEN NULL ELSE stay[i][2]]
           rows(gone, who, code, leaves, stay) ==
             [i \in DOMAIN who |-> row(gone, who, code, leaves, stay, i)]
<1>1. PICK gone \in Samples(IF n.churn THEN Cardinality(Cancelled) ELSE 0, Cancelled),
           back \in Samples(IF n.churn THEN Returned ELSE 0, Eligible) :
         \E code \in [DOMAIN (gone \o back) -> Codes], leaves \in [DOMAIN gone -> 0..Today],
            stay \in [DOMAIN (gone \o back) \ DOMAIN gone -> Stays] :
           Built("churn_log", rows(gone, gone \o back, code, leaves, stay), "emit")
  BY DEF BuildChurnLog
<1>2. Cardinality(Cancelled) \in Nat /\ Cardinality(Eligible) \in Nat
  BY SomeCustomers, FS_CardinalityType
<1>3. Returned \in Nat
  <2>1. PICK e, t \in Nat : e = Cardinality(Eligible) /\ t = Cardinality(Eligible) \div 3
    BY <1>2
  <2>2. Max({MinReturned, t}) \in Nat
    <3>1. PICK least \in Nat : least = MinReturned
      BY DatasetAssumption
    <3>2. \E x \in {least, t} : \A y \in {least, t} : x >= y
      <4>1. least >= t \/ t >= least
        OBVIOUS
      <4>2. QED
        BY <4>1
    <3>3. QED
      BY <3>1, <3>2 DEF Max
  <2>3. QED
    BY <2>1, <2>2 DEF Lesser
<1> HIDE DEF Returned, Stays
<1>4. gone \in Seq(Int) /\ back \in Seq(Int)
  <2>1. (IF n.churn THEN Cardinality(Cancelled) ELSE 0) \in Nat
    BY <1>2
  <2>2. (IF n.churn THEN Returned ELSE 0) \in Nat
    BY <1>3
  <2>3. QED
    BY <2>1, <2>2, SomeCustomers, Sampled
<1>5. PICK who : who = gone \o back
  OBVIOUS
<1>6. who \in Seq(Int) /\ Len(who) \in Nat /\ DOMAIN who = 1..Len(who)
  BY <1>4, <1>5
<1>7. PICK code \in [DOMAIN who -> Codes], leaves \in [DOMAIN gone -> 0..Today],
           stay \in [DOMAIN who \ DOMAIN gone -> Stays] :
        Built("churn_log", rows(gone, who, code, leaves, stay), "emit")
  <2> HIDE DEF rows
  <2>1. QED
    BY <1>1, <1>5
<1>8. ASSUME NEW x \in Stays PROVE x[1] \in Int /\ x[2] \in Int
  <2>1. PICK d \in 0..LastReturn : x \in {<<d, r>> : r \in RandDate(d + 1, Today)}
    BY DEF Stays
  <2>2. d \in Int /\ RandDate(d + 1, Today) \subseteq Int
    BY DatasetAssumption DEF RandDate
  <2>3. QED
    BY <2>1, <2>2
<1>9. ASSUME NEW i \in 1..Len(who) PROVE row(gone, who, code, leaves, stay, i) \in Departure
  <2>1. who[i] \in Int /\ code[i] \in Codes
    <3>1. i \in DOMAIN who
      BY <1>6
    <3>2. who[i] \in Int
      BY <1>6
    <3>3. QED
      BY <3>1, <3>2
  <2>2. CASE i \in DOMAIN gone
    <3>1. leaves[i] \in Int
      BY <2>2, DatasetAssumption
    <3>2. QED
      BY <2>1, <2>2, <3>1 DEF Departure, Dates
  <2>3. CASE i \notin DOMAIN gone
    <3>1. stay[i] \in Stays
      BY <2>3, <1>6
    <3>2. stay[i][1] \in Int /\ stay[i][2] \in Int
      BY <3>1, <1>8
    <3>3. QED
      BY <2>1, <2>3, <3>2 DEF Departure, Dates
  <2>4. QED
    BY <2>2, <2>3
<1>10. rows(gone, who, code, leaves, stay) \in [1..Len(who) -> Departure]
  <2> HIDE DEF row
  <2>1. QED
    BY <1>6, <1>9
<1> HIDE DEF rows
<1>11. rows(gone, who, code, leaves, stay) \in Seq(Departure)
  BY <1>6, <1>10, FromOne
<1>12. "churn_log" \in TableNames /\ "product_catalog" \in TableNames \ {"churn_log"}
  BY DEF TableNames
<1>13. QED
  BY <1>7, <1>11, <1>12, BuiltKeeps, RowTypes

-----------------------------------------------------------------------------
(* insert_stmts: the chunks hold the rows, all of them and nothing else. *)
LEMMA Chunking ==
  ASSUME NEW len \in Nat, NEW i \in 1..len
  PROVE  LET k == (i - 1) \div Batch + 1 IN
         /\ k \in 1..(len + Batch - 1) \div Batch
         /\ (k - 1) * Batch + 1 <= i /\ i <= Lesser(k * Batch, len)
<1>1. PICK b \in Nat : b = Batch /\ b > 0
  BY DatasetAssumption
<1>2. PICK q, r \in Nat : q = (i - 1) \div b /\ i - 1 = b * q + r /\ r < b
  <2>1. i - 1 \in Nat
    OBVIOUS
  <2>2. (i - 1) \div b \in Nat /\ (i - 1) % b \in Nat
        /\ i - 1 = b * ((i - 1) \div b) + ((i - 1) % b) /\ (i - 1) % b < b
    BY <1>1, <2>1
  <2>3. QED
    BY <2>2
<1>3. PICK m, s \in Nat : m = (len + b - 1) \div b /\ len + b - 1 = b * m + s /\ s < b
  <2>1. len + b - 1 \in Nat
    BY <1>1
  <2>2. \A x \in Nat : x \div b \in Nat /\ x % b \in Nat /\ x = b * (x \div b) + (x % b) /\ x % b < b
    BY <1>1
  <2>3. QED
    BY <2>1, <2>2
<1>4. PICK u, v \in Nat : u = b * q /\ v = b * m
  OBVIOUS
<1>5. q < m
  <2>1. SUFFICES ASSUME m <= q PROVE FALSE
    OBVIOUS
  <2>2. PICK d \in Nat : q = m + d
    <3>1. q - m \in Nat /\ q = m + (q - m)
      BY <2>1
    <3>2. QED
      BY <3>1
  <2>3. b * q = b * m + b * d /\ b * d >= 0
    BY <2>2
  <2>4. v <= u
    BY <1>4, <2>3
  <2>5. QED
    BY <1>2, <1>3, <1>4, <2>4
<1>6. q * b = u /\ (q + 1) * b = u + b
  BY <1>4
<1>7. q + 1 \in 1..m /\ u + 1 <= i /\ i <= u + b
  BY <1>2, <1>4, <1>5
<1>8. QED
  <2>1. (i - 1) \div Batch = q /\ (len + Batch - 1) \div Batch = m
    BY <1>1, <1>2, <1>3
  <2>2. (q + 1 - 1) * Batch + 1 <= i /\ i <= Lesser((q + 1) * Batch, len)
    BY <1>1, <1>6, <1>7 DEF Lesser
  <2>3. QED
    BY <1>7, <2>1, <2>2

(* The chunks of a table are sequences of its rows. *)
LEMMA Chunked ==
  ASSUME NEW S, NEW rows \in Seq(S)
  PROVE  /\ Chunks(rows) \in Seq(Seq(S))
         /\ Members(Chunks(rows), Len(Chunks(rows))) = Range(rows)
<1>1. PICK len \in Nat : len = Len(rows) /\ DOMAIN rows = 1..len
  OBVIOUS
<1>2. PICK b \in Nat : b = Batch /\ b > 0
  BY DatasetAssumption
<1>3. PICK m \in Nat : m = (len + Batch - 1) \div Batch
  <2>1. len + b - 1 \in Nat /\ \A x \in Nat : x \div b \in Nat
    BY <1>2
  <2>2. QED
    BY <1>2, <2>1
<1> DEFINE first(k) == (k - 1) * Batch + 1
           last(k) == Lesser(k * Batch, len)
<1>4. ASSUME NEW k \in 1..m
      PROVE  first(k) \in Nat /\ first(k) >= 1 /\ last(k) \in Nat /\ last(k) <= len
  <2>1. k - 1 \in Nat /\ k \in Nat
    OBVIOUS
  <2>2. (k - 1) * b \in Nat /\ k * b \in Nat
    BY <2>1
  <2>3. QED
    BY <1>2, <2>2 DEF Lesser
<1>5. PICK c : c = Chunks(rows)
  OBVIOUS
<1>6. c = [k \in 1..m |-> SubSeq(rows, first(k), last(k))]
  BY <1>1, <1>3, <1>5 DEF Chunks
<1> HIDE DEF first, last
<1>7. ASSUME NEW k \in 1..m
      PROVE  /\ c[k] \in Seq(S) /\ Range(c[k]) \subseteq Range(rows)
             /\ \A i \in 1..len : first(k) <= i /\ i <= last(k) => rows[i] \in Range(c[k])
  <2>1. PICK a, z \in Nat : a = first(k) /\ z = last(k) /\ a >= 1 /\ z <= len
    BY <1>4
  <2>2. PICK e : e = SubSeq(rows, a, z)
    OBVIOUS
  <2>3. c[k] = e
    BY <1>6, <2>1, <2>2
  <2>4. e \in Seq(S) /\ Len(e) = (IF a <= z THEN z - a + 1 ELSE 0)
        /\ \A j \in 1..Len(e) : e[j] = rows[a + j - 1] /\ a + j - 1 \in 1..len
    <3>1. \A j \in a..z : j \in 1..len /\ rows[j] \in S
      BY <1>1, <2>1
    <3>2. QED
      BY <1>1, <2>1, <2>2, <3>1
  <2>5. PICK l \in Nat : /\ l = Len(e) /\ DOMAIN e = 1..l /\ l = (IF a <= z THEN z - a + 1 ELSE 0)
                         /\ \A j \in 1..l : e[j] = rows[a + j - 1] /\ a + j - 1 \in 1..len
    <3>1. Len(e) \in Nat /\ DOMAIN e = 1..Len(e)
      BY <2>4
    <3>2. QED
      BY <2>4, <3>1
  <2>6. Range(e) \subseteq Range(rows)
    <3>1. SUFFICES ASSUME NEW x \in Range(e) PROVE x \in Range(rows)
      OBVIOUS
    <3>2. PICK j \in 1..l : e[j] = x
      BY <2>5 DEF Range
    <3>3. a + j - 1 \in DOMAIN rows /\ rows[a + j - 1] = x
      BY <1>1, <2>5, <3>2
    <3>4. QED
      BY <3>3 DEF Range
  <2>7. ASSUME NEW i \in 1..len, a <= i, i <= z PROVE rows[i] \in Range(e)
    <3>1. PICK j \in 1..l : a + j - 1 = i
      <4>1. i - a + 1 \in 1..l /\ a + (i - a + 1) - 1 = i
        BY <2>5, <2>1, <2>7
      <4>2. QED
        BY <4>1
    <3>2. e[j] = rows[i] /\ j \in DOMAIN e
      BY <2>5, <3>1
    <3>3. QED
      BY <3>2 DEF Range
  <2>8. QED
    BY <2>1, <2>3, <2>4, <2>6, <2>7
<1>8. c \in Seq(Seq(S)) /\ Len(c) = m
  <2>1. c \in [1..m -> Seq(S)]
    BY <1>6, <1>7
  <2>2. QED
    BY <2>1, FromOne
<1>9. Members(c, m) \subseteq Range(rows)
  BY <1>7 DEF Members
<1>10. ASSUME NEW x \in Range(rows) PROVE x \in Members(c, m)
  <2>1. PICK i \in 1..len : rows[i] = x
    BY <1>1 DEF Range
  <2>2. PICK k \in 1..m : first(k) <= i /\ i <= last(k)
    BY <1>3, Chunking DEF first, last
  <2>3. QED
    BY <1>7, <2>1, <2>2 DEF Members
<1>11. QED
  BY <1>5, <1>8, <1>9, <1>10

(* The statements of seed.sql: each is of rows of one table, and those of a
   table hold its rows. *)
Statement == UNION {{<<t, rows>> : rows \in Seq(RowType[t])} : t \in TableNames}

Holds(t, x) == \E st \in Range(seed) : st[1] = t /\ x \in Range(st[2])

SeedOK ==
  /\ seed \in Seq(Statement)
  /\ \A t \in TableNames : \A x : x \in RowsOf(t) <=> Holds(t, x)

(* The statements emitted hold what was built. *)
LEMMA Emitted ==
  ASSUME TablesOK, Emit
  PROVE  SeedOK' /\ stage' = "written" /\ n' = n /\ tables' = tables
<1> DEFINE of(t) == Chunks(tables[t])
           part(t) == [k \in DOMAIN of(t) |-> <<t, of(t)[k]>>]
           parts == [i \in DOMAIN TableOrder |-> part(TableOrder[i])]
<1>1. seed' = FlattenSeq(parts) /\ stage' = "written" /\ n' = n /\ tables' = tables
  BY DEF Emit
<1>2. DOMAIN TableOrder = 1..8 /\ (\A i \in 1..8 : TableOrder[i] \in TableNames)
      /\ \A t \in TableNames : \E i \in 1..8 : TableOrder[i] = t
  <2>1. DOMAIN TableOrder = 1..8 /\ \A i \in 1..8 : TableOrder[i] \in TableNames
    BY DEF TableOrder, TableNames
  <2>2. /\ TableOrder[1] = "customers" /\ TableOrder[2] = "subscriptions" /\ TableOrder[3] = "invoices"
        /\ TableOrder[4] = "usage_events" /\ TableOrder[5] = "support_tickets" /\ TableOrder[6] = "deals"
        /\ TableOrder[7] = "product_catalog" /\ TableOrder[8] = "churn_log"
    BY DEF TableOrder
  <2>3. \A t \in TableNames : \E i \in 1..8 : TableOrder[i] = t
    BY <2>2 DEF TableNames
  <2>4. QED
    BY <2>1, <2>3
<1>3. ASSUME NEW t \in TableNames
      PROVE  /\ part(t) \in Seq(Statement)
             /\ \A st \in Range(part(t)) : st[1] = t /\ Range(st[2]) \subseteq RowsOf(t)
             /\ \A x \in RowsOf(t) : \E st \in Range(part(t)) : x \in Range(st[2])
  <2>1. PICK c : c = of(t)
    OBVIOUS
  <2>2. PICK m \in Nat : c \in [1..m -> Seq(RowType[t])] /\ Members(c, m) = RowsOf(t)
    <3>1. tables[t] \in Seq(RowType[t])
      BY DEF TablesOK
    <3>2. c \in Seq(Seq(RowType[t])) /\ Members(c, Len(c)) = Range(tables[t])
      BY <2>1, <3>1, Chunked
    <3>3. Range(tables[t]) = RowsOf(t)
      BY Zenon DEF Range, RowsOf
    <3>4. Len(c) \in Nat /\ c \in [1..Len(c) -> Seq(RowType[t])]
      BY <3>2
    <3>5. QED
      BY <3>2, <3>3, <3>4
  <2>3. PICK q : q = part(t)
    OBVIOUS
  <2>4. q = [k \in 1..m |-> <<t, c[k]>>]
    BY <2>1, <2>2, <2>3
  <2>5. \A k \in 1..m : <<t, c[k]>> \in Statement
    BY <2>2 DEF Statement
  <2>6. q \in [1..m -> Statement]
    BY <2>4, <2>5
  <2>7. q \in Seq(Statement) /\ DOMAIN q = 1..m
    BY <2>6, FromOne
  <2>8. \A k \in 1..m : Range(c[k]) \subseteq RowsOf(t)
    BY <2>2 DEF Members
  <2>9. ASSUME NEW st \in Range(q) PROVE st[1] = t /\ Range(st[2]) \subseteq RowsOf(t)
    BY <2>4, <2>7, <2>8 DEF Range
  <2>10. ASSUME NEW x \in RowsOf(t) PROVE \E st \in Range(q) : x \in Range(st[2])
    <3>1. PICK k \in 1..m : x \in Range(c[k])
      BY <2>2 DEF Members
    <3>2. q[k] \in Range(q) /\ q[k][2] = c[k]
      BY <2>4, <2>7 DEF Range
    <3>3. QED
      BY <3>1, <3>2
  <2>11. QED
    BY <2>3, <2>7, <2>9, <2>10
<1> HIDE DEF part
<1>4. PICK all : all = parts
  OBVIOUS
<1>5. all \in [1..8 -> Seq(Statement)] /\ \A i \in 1..8 : all[i] = part(TableOrder[i])
  BY <1>2, <1>3, <1>4
<1>6. all \in Seq(Seq(Statement)) /\ Len(all) = 8
  BY <1>5, FromOne
<1>7. seed' \in Seq(Statement) /\ Range(seed') = Members(all, 8)
  BY <1>1, <1>4, <1>6, FlattenMembers
<1>8. ASSUME NEW t \in TableNames, NEW x PROVE x \in RowsOf(t)' <=> Holds(t, x)'
  <2>1. RowsOf(t)' = RowsOf(t)
    BY <1>1 DEF RowsOf
  <2>2. ASSUME x \in RowsOf(t) PROVE \E st \in Range(seed') : st[1] = t /\ x \in Range(st[2])
    <3>1. PICK st \in Range(part(t)) : x \in Range(st[2]) /\ st[1] = t
      BY <1>3, <2>2
    <3>2. PICK i \in 1..8 : TableOrder[i] = t
      BY <1>2
    <3>3. st \in Members(all, 8)
      BY <1>5, <3>1, <3>2 DEF Members
    <3>4. QED
      BY <1>7, <3>1, <3>3
  <2>3. ASSUME NEW st \in Range(seed'), st[1] = t, x \in Range(st[2]) PROVE x \in RowsOf(t)
    <3>1. PICK i \in 1..8 : st \in Range(all[i])
      BY <1>7 DEF Members
    <3>2. TableOrder[i] \in TableNames /\ all[i] = part(TableOrder[i])
      BY <1>2, <1>5
    <3>3. st[1] = TableOrder[i] /\ Range(st[2]) \subseteq RowsOf(TableOrder[i])
      BY <1>3, <3>1, <3>2
    <3>4. QED
      BY <2>3, <3>3
  <2>4. QED
    BY <2>1, <2>2, <2>3 DEF Holds
<1>9. QED
  BY <1>1, <1>7, <1>8 DEF SeedOK

(* What is seeded is what was built, table by table. *)
LEMMA SeededRows ==
  ASSUME SeedOK, NEW t \in TableNames
  PROVE  Seeded(t) \in Seq(RowType[t]) /\ Range(Seeded(t)) = RowsOf(t)
<1>1. PICK q : q = [k \in DOMAIN seed |-> IF seed[k][1] = t THEN seed[k][2] ELSE <<>>]
  OBVIOUS
<1>2. PICK m \in Nat : seed \in [1..m -> Statement]
  BY DEF SeedOK
<1>3. ASSUME NEW k \in 1..m PROVE seed[k][1] = t => seed[k][2] \in Seq(RowType[t])
  <2>1. seed[k] \in Statement
    BY <1>2
  <2>2. PICK u \in TableNames : seed[k] \in {<<u, rows>> : rows \in Seq(RowType[u])}
    BY <2>1 DEF Statement
  <2>3. QED
    BY <2>2
<1>4. q = [k \in 1..m |-> IF seed[k][1] = t THEN seed[k][2] ELSE <<>>]
  BY <1>1, <1>2
<1>5. q \in [1..m -> Seq(RowType[t])]
  <2>1. \A k \in 1..m : (q[k] = seed[k][2] /\ seed[k][1] = t) \/ q[k] = <<>>
    BY <1>4
  <2>2. \A k \in 1..m : q[k] \in Seq(RowType[t])
    <3>1. SUFFICES ASSUME NEW k \in 1..m PROVE q[k] \in Seq(RowType[t])
      OBVIOUS
    <3>2. CASE q[k] = <<>>
      BY <3>2
    <3>3. CASE q[k] = seed[k][2] /\ seed[k][1] = t
      BY <1>3, <3>3
    <3>4. QED
      BY <2>1, <3>2, <3>3
  <2>3. QED
    BY <1>4, <2>2
<1>6. q \in Seq(Seq(RowType[t])) /\ Len(q) = m
  BY <1>5, FromOne
<1>7. Seeded(t) \in Seq(RowType[t]) /\ Range(Seeded(t)) = Members(q, m)
  BY <1>1, <1>6, FlattenMembers DEF Seeded
<1>8. ASSUME NEW x PROVE x \in Members(q, m) <=> Holds(t, x)
  <2>1. ASSUME NEW k \in 1..m, x \in Range(q[k]) PROVE Holds(t, x)
    <3>1. seed[k][1] = t
      <4>1. SUFFICES ASSUME seed[k][1] # t PROVE FALSE
        OBVIOUS
      <4>2. q[k] = <<>>
        BY <1>4, <4>1
      <4>3. QED
        BY <2>1, <4>2 DEF Range
    <3>2. q[k] = seed[k][2] /\ seed[k] \in Range(seed)
      BY <1>2, <1>4, <3>1 DEF Range
    <3>3. QED
      BY <2>1, <3>1, <3>2 DEF Holds
  <2>2. ASSUME Holds(t, x) PROVE \E k \in 1..m : x \in Range(q[k])
    <3>1. PICK st \in Range(seed) : st[1] = t /\ x \in Range(st[2])
      BY <2>2 DEF Holds
    <3>2. PICK k \in 1..m : seed[k] = st
      BY <1>2 DEF Range
    <3>3. QED
      BY <1>4, <3>1, <3>2
  <2>3. QED
    BY <2>1, <2>2 DEF Members
<1>9. QED
  BY <1>7, <1>8 DEF SeedOK

-----------------------------------------------------------------------------
(* The generator's invariant. *)
DataInv ==
  /\ n \in Sizes /\ TablesOK
  /\ stage = "written" => SeedOK
  /\ stage \in {"churn_log", "emit", "written"} => BotchedShows(RowsOf("product_catalog"))

(* It holds before anything is built ... *)
LEMMA InitKeepsData == InitDataset => DataInv
<1> SUFFICES ASSUME InitDataset PROVE DataInv
  OBVIOUS
<1>1. TablesOK
  <2>1. \A t \in TableNames : tables[t] = <<>>
    BY DEF InitDataset
  <2>2. QED
    BY <2>1 DEF InitDataset, TablesOK
<1>2. QED
  BY <1>1 DEF InitDataset, DataInv

(* ... after each builder ... *)
LEMMA GenerateKeepsData ==
  ASSUME DataInv, Generate
  PROVE  DataInv'
<1>1. n \in Sizes /\ TablesOK
  BY DEF DataInv
<1>2. CASE BuildCustomers
  BY <1>1, <1>2, CustomersBuilt DEF DataInv
<1>3. CASE BuildSubscriptions
  BY <1>1, <1>3, SubscriptionsBuilt DEF DataInv
<1>4. CASE ApplyStalePlanTier
  BY <1>1, <1>4, PlanTierApplied DEF DataInv
<1>5. CASE BuildInvoices
  BY <1>1, <1>5, InvoicesBuilt DEF DataInv
<1>6. CASE BuildUsageEvents
  BY <1>1, <1>6, EventsBuilt DEF DataInv
<1>7. CASE BuildSupportTickets
  BY <1>1, <1>7, TicketsBuilt DEF DataInv
<1>8. CASE BuildDeals
  BY <1>1, <1>8, DealsBuilt DEF DataInv
<1>9. CASE BuildProductCatalog
  BY <1>1, <1>9, CatalogBuilt DEF DataInv
<1>10. CASE BuildChurnLog
  <2>1. /\ TablesOK' /\ stage' = "emit" /\ n' = n
        /\ tables'["product_catalog"] = tables["product_catalog"]
    BY <1>1, <1>10, ChurnBuilt
  <2>2. RowsOf("product_catalog")' = RowsOf("product_catalog") /\ stage = "churn_log"
    BY <1>10, <2>1 DEF RowsOf, BuildChurnLog
  <2>3. QED
    BY <1>1, <2>1, <2>2 DEF DataInv, BotchedShows
<1>11. CASE Emit
  <2>1. SeedOK' /\ stage' = "written" /\ n' = n /\ tables' = tables
    BY <1>1, <1>11, Emitted
  <2>2. stage = "emit" /\ TablesOK' /\ RowsOf("product_catalog")' = RowsOf("product_catalog")
    BY <1>1, <1>11, <2>1 DEF Emit, TablesOK, RowsOf
  <2>3. QED
    BY <1>1, <2>1, <2>2 DEF DataInv, BotchedShows
<1>12. QED
  BY <1>2, <1>3, <1>4, <1>5, <1>6, <1>7, <1>8, <1>9, <1>10, <1>11 DEF Generate

(* ... and while a column is profiled. *)
LEMMA StillData == ASSUME DataInv, UNCHANGED dataset PROVE DataInv'
<1>1. n' = n /\ stage' = stage /\ tables' = tables /\ seed' = seed
  BY DEF dataset
<1>2. \A t : RowsOf(t)' = RowsOf(t)
  BY <1>1 DEF RowsOf
<1>3. \A t, x : Holds(t, x)' <=> Holds(t, x)
  BY <1>1 DEF Holds
<1>4. TablesOK => TablesOK'
  BY <1>1 DEF TablesOK
<1>5. SeedOK => SeedOK'
  BY <1>1, <1>2, <1>3 DEF SeedOK
<1>6. BotchedShows(RowsOf("product_catalog"))' <=> BotchedShows(RowsOf("product_catalog"))
  BY <1>2 DEF BotchedShows
<1>7. QED
  BY <1>1, <1>4, <1>5, <1>6 DEF DataInv

(* The text of another column than event_value is no magnitude. *)
LEMMA TextCells ==
  ASSUME NEW c \in TextColumns, c # <<"usage_events", "event_value">>, NEW r \in RowType[c[1]],
         r[c[2]] # NULL
  PROVE  r[c[2]] \notin Numbers
<1>1. {"active", "paused", "cancelled", "unpaid", "void", "paid", "won", "lost", "open", "closed",
       "discovery", "demo"} \cap Numbers = {}
  BY ValuesAssumption DEF Words
<1>2. Tiers \cap Numbers = {}
  BY ValuesAssumption DEF Tiers
<1>3. Names \cap Numbers = {}
  <2>1. SUFFICES ASSUME NEW x \in Names PROVE x \notin Numbers
    OBVIOUS
  <2>2. PICK size \in Sizes : x \in {[base |-> base, suffix |-> suffix] :
                                     base \in size.bases, suffix \in LegalForms \cup {NULL}}
    BY DEF Names
  <2>3. QED
    BY <2>2, ValuesAssumption
<1>4. CASE c = <<"customers", "company_name">>
  <2>1. r \in Customer /\ c[2] = "company_name"
    BY <1>4, RowTypes
  <2>2. QED
    BY <1>3, <2>1 DEF Customer
<1>5. CASE c = <<"customers", "plan_tier">>
  <2>1. r \in Customer /\ c[2] = "plan_tier"
    BY <1>5, RowTypes
  <2>2. QED
    BY <1>2, <2>1 DEF Customer
<1>6. CASE c = <<"subscriptions", "tier">>
  <2>1. r \in Subscription /\ c[2] = "tier"
    BY <1>6, RowTypes
  <2>2. QED
    BY <1>2, <2>1 DEF Subscription
<1>7. CASE c = <<"subscriptions", "status">>
  <2>1. r \in Subscription /\ c[2] = "status"
    BY <1>7, RowTypes
  <2>2. QED
    BY <1>1, <2>1 DEF Subscription
<1>8. CASE c = <<"invoices", "status">>
  <2>1. r \in Invoice /\ c[2] = "status"
    BY <1>8, RowTypes
  <2>2. QED
    BY <1>1, <2>1 DEF Invoice
<1>9. CASE c = <<"deals", "stage">>
  <2>1. r \in Deal /\ c[2] = "stage"
    BY <1>9, RowTypes
  <2>2. QED
    BY <1>1, <2>1 DEF Deal
<1>10. CASE c = <<"deals", "status">>
  <2>1. r \in Deal /\ c[2] = "status"
    BY <1>10, RowTypes
  <2>2. QED
    BY <1>1, <2>1 DEF Deal
<1>11. QED
  BY <1>4, <1>5, <1>6, <1>7, <1>8, <1>9, <1>10, SchemaAssumption

-----------------------------------------------------------------------------
(* The profile of a column, from query to query.  Whole is what was seeded of
   its table, of which a query sees all or, during a reload, nothing. *)
Whole == Seeded(Column[1])
True(w) == IsTrue(w, Whole, Seeded("subscriptions"), Column)
NullRows(rows) == {i \in DOMAIN rows : Cell(rows[i]) = NULL}

IsProfile ==
  p = [column |-> p.column, total |-> p.total, nulls |-> p.nulls, distinct |-> p.distinct,
       warnings |-> p.warnings]

CountedAll ==
  /\ p.total = Len(Whole) /\ p.nulls = Cardinality(NullRows(Whole))
  /\ p.distinct = Cardinality(ValuesOf(Whole, Column))

Counted == (CountedAll \/ (p.total = 0 /\ p.nulls = 0)) /\ (~reloaded => CountedAll)

(* What was planted, and the check that has to find it. *)
Drifted ==
  /\ Column = <<"usage_events", "event_value">>
  /\ \E r \in Range(Whole) : r.event_value \in Junk
  /\ \E r \in Range(Whole) : r.event_value \in Numbers

Unclear ==
  /\ Column = <<"invoices", "paid_at">>
  /\ \E r \in Range(Whole) : r.status = "paid" /\ r.paid_at = NULL
  /\ \E r \in Range(Whole) : r.status # "paid"

ReasonCodes == {r.reason_code : r \in Range(Whole)}
NewCodes == {k \in ReasonCodes : k > 4}

Undocumented ==
  /\ Column = <<"churn_log", "reason_code">> /\ NewCodes # {}
  /\ Cardinality(ReasonCodes) <= DomainMax

Misflagged ==
  /\ Column = <<"product_catalog", "is_current">> /\ Curated
  /\ \E r \in Range(Whole) : r.sku \in Broken

Outdated ==
  /\ Column = <<"customers", "plan_tier">> /\ Curated
  /\ \E r \in Range(Whole), s \in Range(Seeded("subscriptions")) :
       s.customer_id = r.customer_id /\ s.status # "cancelled" /\ r.plan_tier \notin {NULL, s.tier}

SaysUndocumented == \E w \in p.warnings : w.kind = "undocumented" /\ w.about = NewCodes

Reported ==
  /\ at \in {"nulls", "domain", "duplicates", "staleness", "told"} /\ Drifted => Warns("type drift")
  /\ at \in {"domain", "duplicates", "staleness", "told"} /\ Unclear => Warns("ambiguous null")
  /\ at \in {"duplicates", "staleness", "told"} /\ Undocumented => SaysUndocumented
  /\ at = "told" /\ (Misflagged \/ Outdated) => Warns("stale")

ProfileInv ==
  /\ IsProfile
  /\ ~reloaded => db = "rows"
  /\ at # "idle" => stage = "written" /\ Column \in Columns
  /\ at \notin {"idle", "failed"} => \A w \in p.warnings : True(w)
  /\ at \notin {"idle", "failed", "count"} => Counted
  /\ ~reloaded => Reported

(* A check leaves what was counted, and adds only what is true. *)
Advances(then) ==
  /\ at' = then /\ IsProfile' /\ UNCHANGED <<dataset, db, reloaded>>
  /\ p'.column = p.column /\ p'.total = p.total /\ p'.nulls = p.nulls /\ p'.distinct = p.distinct
  /\ p.warnings \subseteq p'.warnings
  /\ \A w \in p'.warnings \ p.warnings : True(w)

(* A query sees a table as it was seeded, or nothing of it. *)
LEMMA SeenAll ==
  /\ Table = Whole \/ Table = <<>>
  /\ db = "rows" => Table = Whole
  /\ \A t : Rows(t) = Seeded(t) \/ Rows(t) = <<>>
  BY DEF Table, Whole, Rows

(* What is so of the column stays so while its data does. *)
LEMMA SameSeed ==
  ASSUME UNCHANGED dataset, p'.column = p.column
  PROVE  /\ Column' = Column /\ Whole' = Whole /\ \A t : Seeded(t)' = Seeded(t)
         /\ \A w : True(w)' <=> True(w)
         /\ (Drifted' <=> Drifted) /\ (Unclear' <=> Unclear) /\ (Undocumented' <=> Undocumented)
         /\ (Misflagged' <=> Misflagged) /\ (Outdated' <=> Outdated)
         /\ NewCodes' = NewCodes
<1>1. Column' = Column
  BY DEF Column
<1>2. \A t : Seeded(t)' = Seeded(t)
  BY DEF dataset, Seeded
<1>3. Whole' = Whole
  BY <1>1, <1>2 DEF Whole
<1>4. \A w : True(w)' <=> True(w)
  BY <1>1, <1>2, <1>3 DEF True
<1>5. ReasonCodes' = ReasonCodes
  BY <1>3 DEF ReasonCodes
<1>6. NewCodes' = NewCodes
  BY <1>5 DEF NewCodes
<1>7. QED
  BY <1>1, <1>2, <1>3, <1>4, <1>5, <1>6 DEF Drifted, Unclear, Undocumented, Misflagged, Outdated

(* A check that warns only of what is so. *)
LEMMA WarnedAdvances ==
  ASSUME IsProfile, UNCHANGED <<dataset, db, reloaded>>, NEW found \in BOOLEAN, NEW kind, NEW about, NEW then,
         Warned(found, kind, about, then), found => True([kind |-> kind, about |-> about])
  PROVE  Advances(then) /\ (found => [kind |-> kind, about |-> about] \in p'.warnings)
<1> DEFINE w == [kind |-> kind, about |-> about]
<1>1. w = [kind |-> kind, about |-> about]
  OBVIOUS
<1>2. /\ at' = then /\ IsProfile'
      /\ p'.column = p.column /\ p'.total = p.total /\ p'.nulls = p.nulls /\ p'.distinct = p.distinct
      /\ p'.warnings = IF found THEN p.warnings \cup {w} ELSE p.warnings
  BY DEF IsProfile, Warned
<1> HIDE DEF w
<1>3. p.warnings \subseteq p'.warnings /\ (found => w \in p'.warnings)
  BY <1>2
<1>4. \A v \in p'.warnings \ p.warnings : True(v)
  <2>1. ASSUME NEW v \in p'.warnings, v \notin p.warnings PROVE True(v)
    <3>1. found /\ v = w
      BY <1>2, <2>1
    <3>2. QED
      BY <1>1, <3>1
  <2>2. QED
    BY <2>1
<1>5. QED
  BY <1>1, <1>2, <1>3, <1>4 DEF Advances

(* The rows seeded are of the column's table. *)
LEMMA WholeRows ==
  ASSUME DataInv, stage = "written", Column \in Columns
  PROVE  /\ Whole \in Seq(RowType[Column[1]]) /\ Range(Whole) = RowsOf(Column[1])
         /\ Column[1] \in TableNames
         /\ \E m \in Nat : Whole \in [1..m -> RowType[Column[1]]] /\ m = Len(Whole)
<1>1. Column[1] \in TableNames /\ SeedOK
  BY SchemaAssumption DEF DataInv
<1>2. Whole \in Seq(RowType[Column[1]]) /\ Range(Whole) = RowsOf(Column[1])
  BY <1>1, SeededRows DEF Whole
<1>3. Len(Whole) \in Nat /\ Whole \in [1..Len(Whole) -> RowType[Column[1]]]
  BY <1>2
<1>4. QED
  BY <1>1, <1>2, <1>3

(* Text among numbers is warned of where there is both, and then always. *)
LEMMA DriftChecked ==
  ASSUME DataInv, stage = "written", Column \in Columns, IsProfile, CheckTypeDrift
  PROVE  /\ Advances("nulls")
         /\ db = "rows" /\ Drifted => \E w \in p'.warnings : w.kind = "type drift"
<1> DEFINE vs == ValuesOf(Table, Column)
           drift == [kind |-> "type drift", about |-> {}]
           numeric == [kind |-> "all numeric", about |-> {}]
           found == Column \in TextColumns /\ vs \cap Numbers # {}
<1>1. UNCHANGED <<dataset, db, reloaded>>
  BY DEF CheckTypeDrift, Asks
<1>2. /\ vs \subseteq Numbers => Warned(found, "all numeric", {}, "nulls")
      /\ ~(vs \subseteq Numbers) => Warned(found, "type drift", {}, "nulls")
  BY DEF CheckTypeDrift
<1>3. ASSUME found PROVE Table = Whole
  <2>1. Table # <<>>
    BY <1>3 DEF ValuesOf
  <2>2. QED
    BY <2>1, SeenAll
<1>4. PICK rows : rows = Whole
  OBVIOUS
<1> PICK m \in Nat : rows \in [1..m -> RowType[Column[1]]]
  BY <1>4, WholeRows
<1>5. ASSUME Column = <<"usage_events", "event_value">>, NEW v \in ValuesOf(rows, Column)
      PROVE  v \in Numbers \cup Junk
  <2>1. PICK i \in 1..m : v = rows[i][Column[2]] /\ v # NULL
    BY <1>4 DEF ValuesOf
  <2>2. rows[i] \in UsageEvent
    BY <1>4, <1>5, RowTypes
  <2>3. QED
    BY <1>5, <2>1, <2>2 DEF UsageEvent, EventValues
<1>6. ASSUME found PROVE Column = <<"usage_events", "event_value">>
  <2>1. SUFFICES ASSUME Column # <<"usage_events", "event_value">> PROVE FALSE
    OBVIOUS
  <2>2. PICK v \in ValuesOf(rows, Column) : v \in Numbers
    BY <1>3, <1>4, <1>6
  <2>3. PICK i \in 1..m : v = rows[i][Column[2]] /\ v # NULL
    BY <1>4 DEF ValuesOf
  <2>4. rows[i] \in RowType[Column[1]]
    BY <1>4
  <2>5. QED
    BY <1>6, <2>1, <2>2, <2>3, <2>4, TextCells
<1>7. ASSUME found, vs \subseteq Numbers PROVE True(numeric)
  <2>1. ValuesOf(Whole, Column) # {} /\ ValuesOf(Whole, Column) \cap Junk = {}
    BY <1>3, <1>7, ValuesAssumption
  <2>2. QED
    BY <2>1 DEF True, IsTrue
<1>8. ASSUME found, ~(vs \subseteq Numbers) PROVE True(drift)
  <2>1. ValuesOf(Whole, Column) \cap Numbers # {} /\ ValuesOf(Whole, Column) \cap Junk # {}
    BY <1>3, <1>4, <1>5, <1>6, <1>8
  <2>2. QED
    BY <2>1 DEF True, IsTrue
<1> HIDE DEF found, vs, drift, numeric
<1>9. Advances("nulls") /\ (found /\ ~(vs \subseteq Numbers) => drift \in p'.warnings)
  <2> found \in BOOLEAN
    BY DEF found
  <2>1. CASE vs \subseteq Numbers
    <3>1. found => True([kind |-> "all numeric", about |-> {}])
      BY <1>7, <2>1 DEF numeric
    <3>2. QED
      BY <1>1, <1>2, <2>1, <3>1, WarnedAdvances
  <2>2. CASE ~(vs \subseteq Numbers)
    <3>1. found => True([kind |-> "type drift", about |-> {}])
      BY <1>8, <2>2 DEF drift
    <3>2. QED
      BY <1>1, <1>2, <2>2, <3>1, WarnedAdvances DEF drift
  <2>3. QED
    BY <2>1, <2>2
<1>10. ASSUME db = "rows", Drifted PROVE \E w \in p'.warnings : w.kind = "type drift"
  <2>1. Table = Whole /\ Column[2] = "event_value" /\ Column \in TextColumns
    BY <1>10, SeenAll, SchemaAssumption DEF Drifted
  <2>2. PICK r \in Range(Whole) : r.event_value \in Junk
    BY <1>10 DEF Drifted
  <2>3. PICK s \in Range(Whole) : s.event_value \in Numbers
    BY <1>10 DEF Drifted
  <2>4. r.event_value \in vs /\ s.event_value \in vs
    <3>1. ASSUME NEW x \in Range(Whole), x.event_value # NULL PROVE x.event_value \in vs
      BY <2>1, <3>1 DEF vs, ValuesOf, Range
    <3>2. QED
      BY <2>2, <2>3, <3>1, ValuesAssumption
  <2>5. found /\ ~(vs \subseteq Numbers)
    BY <2>1, <2>2, <2>3, <2>4, ValuesAssumption DEF found
  <2>6. drift \in p'.warnings /\ drift.kind = "type drift"
    BY <1>9, <2>5 DEF drift
  <2>7. QED
    BY <2>6
<1>11. QED
  BY <1>9, <1>10

(* A finite set has more than one member when two differ. *)
LEMMA Several ==
  ASSUME NEW S, IsFiniteSet(S)
  PROVE  Cardinality(S) > 1 <=> \E x, y \in S : x # y
<1>1. ASSUME \A x, y \in S : x = y PROVE Cardinality(S) = 0 \/ Cardinality(S) = 1
  <2>1. S = {} \/ \E x : S = {x}
    BY <1>1
  <2>2. QED
    BY <2>1, FS_EmptySet, FS_Singleton
<1>2. ASSUME NEW x \in S, NEW y \in S, x # y PROVE Cardinality(S) > 1
  <2>1. Cardinality(S) \in Nat
    BY FS_CardinalityType
  <2>2. Cardinality(S) # 0
    BY FS_EmptySet
  <2>3. Cardinality(S) # 1
    BY <1>2, FS_Singleton
  <2>4. QED
    BY <2>1, <2>2, <2>3
<1>3. QED
  BY <1>1, <1>2

(* The values a column takes in some of the rows are finitely many. *)
ValuesIn(rows, f, I) == {rows[i][f] : i \in I}

LEMMA FewValues ==
  ASSUME NEW m \in Nat, NEW rows, DOMAIN rows = 1..m, NEW f, NEW I, I \subseteq 1..m
  PROVE  IsFiniteSet(ValuesIn(rows, f, I)) /\ IsFiniteSet(I)
<1>1. PICK g : g = [i \in 1..m |-> rows[i][f]]
  OBVIOUS
<1>2. IsFiniteSet(Range(g))
  BY <1>1, FiniteField
<1>3. ValuesIn(rows, f, I) \subseteq Range(g)
  BY <1>1 DEF Range, ValuesIn
<1>4. IsFiniteSet(1..m)
  BY FS_Interval
<1>5. IsFiniteSet(I)
  BY <1>4, FS_Subset
<1>6. IsFiniteSet(ValuesIn(rows, f, I))
  BY <1>2, <1>3, FS_Subset
<1>7. QED
  BY <1>5, <1>6

(* NULLs are called ambiguous when the statuses of their rows differ. *)
LEMMA NullsChecked ==
  ASSUME DataInv, stage = "written", Column \in Columns, IsProfile, CheckNullSemantics
  PROVE  /\ Advances("domain")
         /\ db = "rows" /\ CountedAll /\ Unclear => \E w \in p'.warnings : w.kind = "ambiguous null"
<1>1. UNCHANGED <<dataset, db, reloaded>>
  BY DEF CheckNullSemantics, Asks
<1>2. PICK rows : rows = Whole
  OBVIOUS
<1> PICK m \in Nat : rows \in [1..m -> RowType[Column[1]]]
  BY <1>2, WholeRows
<1>3. NullRows(rows) \subseteq 1..m /\ IsFiniteSet(NullRows(rows))
  BY FewValues DEF NullRows
<1>4. ASSUME NEW sc, Table = rows PROVE StatusesOfNull(sc) = {rows[i][sc] : i \in NullRows(rows)}
  BY <1>4 DEF StatusesOfNull, NullRows
<1>5. ASSUME NEW sc, Cardinality(StatusesOfNull(sc)) > 1 PROVE Table = rows
  <2>1. Table # <<>>
    <3>1. SUFFICES ASSUME Table = <<>> PROVE FALSE
      OBVIOUS
    <3>2. StatusesOfNull(sc) = {}
      BY <3>1 DEF StatusesOfNull
    <3>3. QED
      BY <1>5, <3>2, FS_EmptySet
  <2>2. QED
    BY <1>2, <2>1, SeenAll
<1>6. ASSUME NEW sc, Table = rows
      PROVE  Cardinality(StatusesOfNull(sc)) > 1 <=> \E x, y \in StatusesOfNull(sc) : x # y
  <2>1. IsFiniteSet(StatusesOfNull(sc))
    <3>1. DOMAIN rows = 1..m
      OBVIOUS
    <3>2. IsFiniteSet(ValuesIn(rows, sc, NullRows(rows)))
      BY <1>3, <3>1, FewValues
    <3>3. ValuesIn(rows, sc, NullRows(rows)) = StatusesOfNull(sc)
      BY <1>4, <1>6 DEF ValuesIn
    <3>4. QED
      BY <3>2, <3>3
  <2>2. QED
    BY <2>1, Several
<1>7. ASSUME NEW sc, Cardinality(StatusesOfNull(sc)) > 1
      PROVE  True([kind |-> "ambiguous null", about |-> {sc}])
  <2>1. PICK x, y \in StatusesOfNull(sc) : x # y
    BY <1>5, <1>6, <1>7
  <2>2. PICK i \in NullRows(rows), j \in NullRows(rows) : rows[i][sc] = x /\ rows[j][sc] = y
    BY <1>4, <1>5, <1>7
  <2>3. \A k \in NullRows(rows) : rows[k] \in {r \in Range(rows) : r[Column[2]] = NULL}
    BY <1>3 DEF NullRows, Range, Cell
  <2>4. \E r, s \in {x1 \in Range(Whole) : x1[Column[2]] = NULL} : r[sc] # s[sc]
    BY <1>2, <2>1, <2>2, <2>3
  <2>5. QED
    BY <2>4 DEF True, IsTrue
<1>8. CASE p.nulls = 0 \/ StatusLike[Column[1]] = {}
  <2>1. Warned(FALSE, "", {}, "domain")
    BY <1>8 DEF CheckNullSemantics
  <2>2. Advances("domain")
    BY <1>1, <2>1, WarnedAdvances
  <2>3. ASSUME CountedAll, Unclear PROVE FALSE
    <3>1. PICK r \in Range(Whole) : r.paid_at = NULL /\ Column = <<"invoices", "paid_at">>
      BY <2>3 DEF Unclear
    <3>2. NullRows(rows) # {}
      BY <1>2, <3>1 DEF NullRows, Range, Cell
    <3>3. Cardinality(NullRows(rows)) # 0
      BY <1>3, <3>2, FS_EmptySet
    <3>4. QED
      BY <1>2, <1>8, <2>3, <3>1, <3>3, SchemaAssumption DEF CountedAll
  <2>4. QED
    BY <2>2, <2>3
<1>9. CASE ~(p.nulls = 0 \/ StatusLike[Column[1]] = {})
  <2>1. PICK sc \in StatusLike[Column[1]] :
          Warned(Cardinality(StatusesOfNull(sc)) > 1, "ambiguous null", {sc}, "domain")
    BY <1>9 DEF CheckNullSemantics
  <2>2. PICK found \in BOOLEAN : found <=> Cardinality(StatusesOfNull(sc)) > 1
    OBVIOUS
  <2>3. Warned(found, "ambiguous null", {sc}, "domain")
    BY <2>1, <2>2 DEF Warned
  <2>4. Advances("domain") /\ (found => [kind |-> "ambiguous null", about |-> {sc}] \in p'.warnings)
    BY <1>1, <1>7, <2>2, <2>3, WarnedAdvances
  <2>5. ASSUME db = "rows", Unclear PROVE found
    <3>1. Table = rows /\ Column = <<"invoices", "paid_at">> /\ sc = "status"
      BY <1>2, <2>5, SeenAll, SchemaAssumption DEF Unclear
    <3>2. PICK i \in 1..m : rows[i].status = "paid" /\ rows[i].paid_at = NULL
      BY <1>2, <2>5 DEF Unclear, Range
    <3>3. PICK j \in 1..m : rows[j].status # "paid"
      BY <1>2, <2>5 DEF Unclear, Range
    <3>4. rows[j] \in Invoice
      BY <3>1, RowTypes
    <3>5. rows[j].paid_at = NULL
      BY <3>3, <3>4 DEF Invoice
    <3>6. i \in NullRows(rows) /\ j \in NullRows(rows)
      BY <3>1, <3>2, <3>5 DEF NullRows, Cell
    <3>7. rows[i][sc] \in StatusesOfNull(sc) /\ rows[j][sc] \in StatusesOfNull(sc)
          /\ rows[i][sc] # rows[j][sc]
      BY <1>4, <3>1, <3>2, <3>3, <3>6
    <3>8. QED
      BY <1>6, <2>2, <3>1, <3>7
  <2>6. QED
    BY <2>4, <2>5
<1>10. QED
  BY <1>8, <1>9

(* Codes called undocumented are those the comment does not mention. *)
LEMMA DomainChecked ==
  ASSUME DataInv, stage = "written", Column \in Columns, IsProfile, CheckLowCardinality
  PROVE  /\ Advances("duplicates")
         /\ db = "rows" /\ CountedAll /\ Undocumented =>
              \E w \in p'.warnings : w.kind = "undocumented" /\ w.about = NewCodes
<1>1. UNCHANGED <<dataset, db, reloaded>>
  BY DEF CheckLowCardinality, Asks
<1>2. PICK rows : rows = Whole
  OBVIOUS
<1> PICK m \in Nat : rows \in [1..m -> RowType[Column[1]]]
  BY <1>2, WholeRows
<1>3. PICK new : new = ValuesOf(Table, Column) \ Comment[Column]
  OBVIOUS
<1>4. PICK found \in BOOLEAN : found <=> HasSmallDomain /\ Comment[Column] # NULL /\ new # {}
  OBVIOUS
<1>5. Warned(found, "undocumented", new, "duplicates")
  BY <1>3, <1>4 DEF CheckLowCardinality, Warned
<1>6. ASSUME found PROVE True([kind |-> "undocumented", about |-> new])
  <2>1. Table # <<>>
    BY <1>3, <1>4, <1>6 DEF ValuesOf
  <2>2. Table = Whole /\ new # {}
    BY <1>4, <1>6, <2>1, SeenAll
  <2>3. QED
    BY <1>3, <2>2 DEF True, IsTrue
<1>7. Advances("duplicates") /\ (found => [kind |-> "undocumented", about |-> new] \in p'.warnings)
  BY <1>1, <1>5, <1>6, WarnedAdvances
<1>8. ASSUME db = "rows", CountedAll, Undocumented PROVE found /\ new = NewCodes
  <2>1. Table = rows /\ Column = <<"churn_log", "reason_code">>
    BY <1>2, <1>8, SeenAll DEF Undocumented
  <2>2. \A i \in 1..m : rows[i].reason_code \in Nat \ {0}
    <3>1. \A i \in 1..m : rows[i] \in Departure
      BY <2>1, RowTypes
    <3>2. QED
      BY <3>1, ValuesAssumption DEF Departure
  <2>3. ReasonCodes = {rows[i].reason_code : i \in 1..m}
    BY <1>2 DEF ReasonCodes, Range
  <2>4. ValuesOf(rows, Column) = ReasonCodes /\ ReasonCodes \subseteq Nat \ {0}
    <3>1. ReasonCodes \subseteq Nat \ {0} /\ NULL \notin ReasonCodes
      BY <2>2, <2>3, ValuesAssumption
    <3>2. ValuesOf(rows, Column) = ReasonCodes \ {NULL}
      <4>1. Column[2] = "reason_code" /\ DOMAIN rows = 1..m
        BY <2>1
      <4>2. ValuesOf(rows, Column) = {rows[i][Column[2]] : i \in 1..m} \ {NULL}
        BY <4>1 DEF ValuesOf
      <4>3. {rows[i][Column[2]] : i \in 1..m} = {rows[i].reason_code : i \in 1..m}
        BY <4>1
      <4>4. QED
        BY <2>3, <4>2, <4>3
    <3>3. QED
      BY <3>1, <3>2
  <2>5. Comment[Column] = 1..4 /\ Comment[Column] # NULL
    BY <2>1, SchemaAssumption
  <2>6. new = NewCodes
    <3>1. new = ReasonCodes \ 1..4
      BY <1>3, <2>1, <2>4, <2>5
    <3>2. ASSUME NEW k \in ReasonCodes PROVE k > 4 <=> k \notin 1..4
      <4>1. k \in Nat \ {0}
        BY <2>4
      <4>2. QED
        BY <4>1
    <3>3. QED
      BY <3>1, <3>2 DEF NewCodes
  <2>8. p.distinct = Cardinality(ReasonCodes) /\ p.distinct <= DomainMax
    BY <1>2, <1>8, <2>4 DEF CountedAll, Undocumented
  <2>9. IsFiniteSet(ReasonCodes) /\ ReasonCodes # {}
    <3>1. ReasonCodes # {}
      BY <1>8 DEF Undocumented, NewCodes
    <3>2. DOMAIN rows = 1..m /\ 1..m \subseteq 1..m
      OBVIOUS
    <3>3. IsFiniteSet(ValuesIn(rows, "reason_code", 1..m))
      BY <3>2, FewValues
    <3>4. ValuesIn(rows, "reason_code", 1..m) = ReasonCodes
      BY <2>3 DEF ValuesIn
    <3>5. QED
      BY <3>1, <3>3, <3>4
  <2>10. Cardinality(ReasonCodes) \in Nat \ {0}
    BY <2>9, FS_CardinalityType, FS_EmptySet
  <2>11. QED
    BY <1>4, <1>8, <2>5, <2>6, <2>8, <2>10 DEF HasSmallDomain, Undocumented
<1>9. QED
  BY <1>7, <1>8

(* A name called repeated is that of two rows. *)
LEMMA DuplicatesChecked ==
  ASSUME IsProfile, CheckDuplicateEntities
  PROVE  Advances("staleness")
<1>1. UNCHANGED <<dataset, db, reloaded>>
  BY DEF CheckDuplicateEntities, Asks
<1>2. PICK again : again = Repeated
  OBVIOUS
<1>3. PICK found \in BOOLEAN : found <=> again # {}
  OBVIOUS
<1>4. Warned(found, "duplicates", again, "staleness") \/ Warned(FALSE, "", {}, "staleness")
  BY <1>2, <1>3 DEF CheckDuplicateEntities, Warned
<1>5. ASSUME found PROVE True([kind |-> "duplicates", about |-> again])
  <2>1. Table # <<>>
    BY <1>2, <1>3, <1>5 DEF Repeated
  <2>2. Table = Whole
    BY <2>1, SeenAll
  <2>3. ASSUME NEW norm \in again
        PROVE  \E i, j \in DOMAIN Whole : /\ i # j /\ Normal(Whole[i][Column[2]]) = norm
                                          /\ Normal(Whole[j][Column[2]]) = norm
    BY <1>2, <2>2 DEF Repeated, Cell
  <2>4. QED
    BY <2>3 DEF True, IsTrue
<1>6. QED
  BY <1>1, <1>4, <1>5, WarnedAdvances

(* What is called stale is; a botched price is found, and so is an old tier. *)
LEMMA StalenessChecked ==
  ASSUME DataInv, stage = "written", Column \in Columns, IsProfile, Counted, CheckStaleness
  PROVE  /\ Advances("told")
         /\ db = "rows" /\ (Misflagged \/ Outdated) => \E w \in p'.warnings : w.kind = "stale"
<1>1. PICK stale : stale = [kind |-> "stale", about |-> {}]
  OBVIOUS
<1>2. PICK missing : missing = [kind |-> "mostly null", about |-> {}]
  OBVIOUS
<1>3. /\ at' = "told" /\ IsProfile' /\ UNCHANGED <<dataset, db, reloaded>>
      /\ p'.column = p.column /\ p'.total = p.total /\ p'.nulls = p.nulls /\ p'.distinct = p.distinct
      /\ p'.warnings = p.warnings \cup (IF Curated /\ Stale THEN {stale} ELSE {})
                         \cup (IF 10 * p.nulls > 3 * p.total THEN {missing} ELSE {})
  BY <1>1, <1>2 DEF CheckStaleness, Asks, IsProfile
<1>4. Range(Table) \subseteq Range(Whole) /\ \A t : Range(Rows(t)) \subseteq Range(Seeded(t))
  BY SeenAll DEF Range
<1>5. ASSUME Stale PROVE True(stale)
  <2>1. CASE Column = <<"customers", "plan_tier">>
    <3>1. StaleTiers # {}
      BY <1>5, <2>1 DEF Stale
    <3>2. PICK a \in Range(Rows("customers")), b \in Range(Rows("subscriptions")) :
            /\ b.customer_id = a.customer_id /\ b.ended_on = NULL
            /\ a.plan_tier # NULL /\ a.plan_tier # b.tier
      BY <3>1 DEF StaleTiers
    <3>3. Whole = Seeded("customers")
      BY <2>1 DEF Whole
    <3>4. a \in Range(Whole) /\ b \in Range(Seeded("subscriptions"))
      BY <1>4, <3>2, <3>3
    <3>5. Seeded("subscriptions") \in Seq(Subscription)
      <4>1. "subscriptions" \in TableNames /\ SeedOK
        BY DEF TableNames, DataInv
      <4>2. QED
        BY <4>1, SeededRows, RowTypes
    <3>6. b \in Subscription
      BY <3>4, <3>5 DEF Range
    <3>7. b.status # "cancelled"
      BY <3>2, <3>6 DEF Subscription
    <3>8. \E r \in Range(Whole) : \E s \in Range(Seeded("subscriptions")) :
            s.customer_id = r.customer_id /\ s.status # "cancelled" /\ r.plan_tier \notin {NULL, s.tier}
      BY <3>2, <3>4, <3>7
    <3>9. QED
      BY <1>1, <2>1, <3>8 DEF True, IsTrue
  <2>2. CASE Column = <<"product_catalog", "is_current">>
    <3>1. StaleFlags # {}
      BY <1>5, <2>2 DEF Stale
    <3>2. PICK r \in Range(Rows("product_catalog")) : Mismatch(r)
      BY <3>1 DEF StaleFlags, Mismatch
    <3>3. r \in Range(Whole)
      BY <1>4, <2>2 DEF Whole
    <3>4. r \in Version
      BY <2>2, <3>3, WholeRows, RowTypes DEF Range
    <3>5. r.sku \in Broken
      BY <3>2, <3>4 DEF Version, Mismatch
    <3>6. QED
      BY <1>1, <2>2, <3>3, <3>5 DEF True, IsTrue
  <2>3. QED
    BY <1>5, <2>1, <2>2 DEF Stale
<1>6. ASSUME 10 * p.nulls > 3 * p.total PROVE True(missing)
  <2>1. CountedAll
    BY <1>6 DEF Counted
  <2>2. 10 * Cardinality(NullRows(Whole)) > 3 * Len(Whole)
    BY <1>6, <2>1 DEF CountedAll
  <2>3. QED
    BY <1>2, <2>2 DEF True, IsTrue, NullRows, Cell
<1>7. Advances("told")
  BY <1>3, <1>5, <1>6 DEF Advances
<1>8. ASSUME db = "rows", Misflagged PROVE \E w \in p'.warnings : w.kind = "stale"
  <2>1. /\ Column = <<"product_catalog", "is_current">> /\ Curated
        /\ \E r \in Range(Whole) : r.sku \in Broken
    BY <1>8 DEF Misflagged
  <2>2. Range(Whole) = RowsOf("product_catalog") /\ Whole = Rows("product_catalog")
    BY <1>8, <2>1, WholeRows DEF Rows, Whole
  <2>3. PICK r \in Range(Whole) : Mismatch(r)
    BY <2>1, <2>2 DEF DataInv, BotchedShows
  <2>4. Stale
    BY <2>1, <2>2, <2>3 DEF Stale, StaleFlags, Mismatch
  <2>5. stale \in p'.warnings /\ stale.kind = "stale"
    BY <1>1, <1>3, <2>1, <2>4
  <2>6. QED
    BY <2>5
<1>9. ASSUME db = "rows", Outdated PROVE \E w \in p'.warnings : w.kind = "stale"
  <2>1. Column = <<"customers", "plan_tier">> /\ Curated
    BY <1>9 DEF Outdated
  <2>2. PICK r \in Range(Whole), s \in Range(Seeded("subscriptions")) :
          s.customer_id = r.customer_id /\ s.status # "cancelled" /\ r.plan_tier \notin {NULL, s.tier}
    BY <1>9 DEF Outdated
  <2>3. Whole = Rows("customers") /\ Seeded("subscriptions") = Rows("subscriptions")
    BY <1>9, <2>1 DEF Rows, Whole
  <2>4. s.ended_on = NULL
    <3>1. "subscriptions" \in TableNames /\ SeedOK
      BY DEF TableNames, DataInv
    <3>2. Seeded("subscriptions") \in Seq(Subscription)
      BY <3>1, SeededRows, RowTypes
    <3>3. s \in Subscription
      BY <3>2 DEF Range
    <3>4. QED
      BY <2>2, <3>3 DEF Subscription
  <2>5. r \in StaleTiers
    BY <2>2, <2>3, <2>4 DEF StaleTiers
  <2>6. Stale
    BY <2>1, <2>5 DEF Stale
  <2>7. stale \in p'.warnings /\ stale.kind = "stale"
    BY <1>1, <1>3, <2>1, <2>6
  <2>8. QED
    BY <2>7
<1>10. QED
  BY <1>7, <1>8, <1>9

(* The counts are of all rows, or of none that were there to see. *)
LEMMA RowsCounted ==
  ASSUME IsProfile, ~reloaded => db = "rows", CountRows
  PROVE  /\ at' = "drift" /\ IsProfile' /\ UNCHANGED <<dataset, db, reloaded>> /\ Counted'
         /\ p'.column = p.column /\ p'.warnings = p.warnings
<1>1. /\ at' = "drift" /\ IsProfile' /\ UNCHANGED <<dataset, db, reloaded>>
      /\ p'.column = p.column /\ p'.warnings = p.warnings /\ p'.total = Len(Table)
      /\ p'.nulls = Cardinality(NullRows(Table)) /\ p'.distinct = Cardinality(ValuesOf(Table, Column))
  BY DEF CountRows, Asks, IsProfile, NullRows
<1>2. Whole' = Whole /\ Column' = Column /\ NullRows(Whole)' = NullRows(Whole)
  BY <1>1, SameSeed DEF NullRows, Cell
<1>3. CASE Table = Whole
  <2>1. ValuesOf(Whole, Column)' = ValuesOf(Whole, Column)
    BY <1>2 DEF ValuesOf
  <2>2. CountedAll'
    BY <1>1, <1>2, <1>3, <2>1 DEF CountedAll
  <2>3. QED
    BY <1>1, <2>2 DEF Counted
<1>4. CASE Table # Whole
  <2>1. Table = <<>> /\ db # "rows"
    BY <1>4, SeenAll
  <2>2. NullRows(Table) = {}
    BY <2>1 DEF NullRows
  <2>3. p'.total = 0 /\ p'.nulls = 0 /\ reloaded' # FALSE
    BY <1>1, <2>1, <2>2, FS_EmptySet
  <2>4. QED
    BY <1>1, <2>3, <2>1 DEF Counted
<1>5. QED
  BY <1>1, <1>3, <1>4

Checks == {"drift", "nulls", "domain", "duplicates", "staleness"}

(* What a check leaves of the invariant, whatever it was about. *)
LEMMA CheckAdvances ==
  ASSUME DataInv, ProfileInv, at \in Checks, NEW then \in {"nulls", "domain", "duplicates", "staleness", "told"},
         Advances(then)
  PROVE  /\ DataInv' /\ IsProfile' /\ at' = then /\ Column' = Column /\ UNCHANGED <<db, reloaded>>
         /\ stage' = "written" /\ Column' \in Columns
         /\ \A w \in p'.warnings : True(w)'
         /\ Counted'
         /\ \A kind : Warns(kind) => Warns(kind)'
         /\ SaysUndocumented => SaysUndocumented'
<1>1. /\ at' = then /\ IsProfile' /\ UNCHANGED <<dataset, db, reloaded>>
      /\ p'.column = p.column /\ p'.total = p.total /\ p'.nulls = p.nulls /\ p'.distinct = p.distinct
      /\ p.warnings \subseteq p'.warnings /\ \A w \in p'.warnings \ p.warnings : True(w)
  BY DEF Advances
<1>2. /\ Column' = Column /\ Whole' = Whole /\ NewCodes' = NewCodes
      /\ \A w : True(w)' <=> True(w)
  BY <1>1, SameSeed
<1>3. stage = "written" /\ Column \in Columns /\ Counted /\ \A w \in p.warnings : True(w)
  BY DEF ProfileInv, Checks
<1>4. \A w \in p'.warnings : True(w)'
  BY <1>1, <1>2, <1>3
<1>5. Counted'
  <2>1. NullRows(Whole)' = NullRows(Whole) /\ ValuesOf(Whole, Column)' = ValuesOf(Whole, Column)
    BY <1>2 DEF NullRows, Cell, ValuesOf
  <2>2. CountedAll' <=> CountedAll
    BY <1>1, <1>2, <2>1 DEF CountedAll
  <2>3. QED
    BY <1>1, <1>3, <2>2 DEF Counted
<1>6. DataInv' /\ stage' = "written"
  BY <1>1, <1>3, StillData DEF dataset
<1>7. \A kind : Warns(kind) => Warns(kind)'
  BY <1>1 DEF Warns
<1>8. SaysUndocumented => SaysUndocumented'
  BY <1>1, <1>2 DEF SaysUndocumented
<1>9. QED
  BY <1>1, <1>2, <1>3, <1>4, <1>5, <1>6, <1>7, <1>8

(* A check that has found what was planted for it keeps the invariant. *)
LEMMA CheckKeeps ==
  ASSUME DataInv, ProfileInv, at \in Checks, NEW then \in {"nulls", "domain", "duplicates", "staleness", "told"},
         Advances(then),
         ~reloaded => /\ then \in {"nulls", "domain", "duplicates", "staleness", "told"} /\ Drifted => Warns("type drift")'
                      /\ then \in {"domain", "duplicates", "staleness", "told"} /\ Unclear => Warns("ambiguous null")'
                      /\ then \in {"duplicates", "staleness", "told"} /\ Undocumented => SaysUndocumented'
                      /\ then = "told" /\ (Misflagged \/ Outdated) => Warns("stale")'
  PROVE  DataInv' /\ ProfileInv'
<1>1. /\ DataInv' /\ IsProfile' /\ at' = then /\ Column' = Column /\ UNCHANGED <<db, reloaded>>
      /\ stage' = "written" /\ Column' \in Columns
      /\ \A w \in p'.warnings : True(w)'
      /\ Counted'
  BY CheckAdvances
<1>2. UNCHANGED dataset /\ p'.column = p.column
  BY DEF Advances
<1>3. /\ Drifted' <=> Drifted
      /\ Unclear' <=> Unclear
      /\ Undocumented' <=> Undocumented
      /\ Misflagged' <=> Misflagged
      /\ Outdated' <=> Outdated
  BY <1>2, SameSeed
<1>4. ~reloaded => Reported'
  BY <1>1, <1>3 DEF Reported
<1>5. ~reloaded => db = "rows"
  BY DEF ProfileInv
<1>6. QED
  BY <1>1, <1>4, <1>5 DEF ProfileInv

(* Each check finds what it is for, and what was found stays. *)
LEMMA ChecksKeep ==
  ASSUME DataInv, ProfileInv,
         CheckTypeDrift \/ CheckNullSemantics \/ CheckLowCardinality \/ CheckDuplicateEntities \/ CheckStaleness
  PROVE  DataInv' /\ ProfileInv'
<1>1. at \in Checks
  BY DEF Checks, CheckTypeDrift, CheckNullSemantics, CheckLowCardinality, CheckDuplicateEntities, CheckStaleness, Asks
<1>3. /\ stage = "written" /\ Column \in Columns /\ IsProfile /\ Counted
      /\ ~reloaded => db = "rows" /\ Reported /\ CountedAll
  BY <1>1 DEF ProfileInv, Checks, Counted
<1>4. CASE CheckTypeDrift
  <2>1. Advances("nulls") /\ (~reloaded /\ Drifted => Warns("type drift")')
    BY <1>3, <1>4, DriftChecked DEF Warns
  <2>2. QED
    BY <1>1, <2>1, CheckKeeps
<1>5. CASE CheckNullSemantics
  <2>1. Advances("domain") /\ (~reloaded /\ Unclear => Warns("ambiguous null")')
    BY <1>3, <1>5, NullsChecked DEF Warns
  <2>2. ~reloaded /\ Drifted => Warns("type drift")'
    BY <1>1, <1>3, <1>5, <2>1, CheckAdvances DEF Reported, CheckNullSemantics, Asks
  <2>3. QED
    BY <1>1, <2>1, <2>2, CheckKeeps
<1>6. CASE CheckLowCardinality
  <2>1. Advances("duplicates")
        /\ (~reloaded /\ Undocumented => \E w \in p'.warnings : w.kind = "undocumented" /\ w.about = NewCodes)
    BY <1>3, <1>6, DomainChecked
  <2>2. ~reloaded /\ Undocumented => SaysUndocumented'
    <3>1. NewCodes' = NewCodes
      BY <2>1, SameSeed DEF Advances
    <3>2. QED
      BY <2>1, <3>1 DEF SaysUndocumented
  <2>3. ~reloaded => (Drifted => Warns("type drift")') /\ (Unclear => Warns("ambiguous null")')
    BY <1>1, <1>3, <1>6, <2>1, CheckAdvances DEF Reported, CheckLowCardinality, Asks
  <2>4. QED
    BY <1>1, <2>1, <2>2, <2>3, CheckKeeps
<1>7. CASE CheckDuplicateEntities
  <2>1. Advances("staleness")
    BY <1>3, <1>7, DuplicatesChecked
  <2>2. ~reloaded => /\ Drifted => Warns("type drift")'
                     /\ Unclear => Warns("ambiguous null")'
                     /\ Undocumented => SaysUndocumented'
    BY <1>1, <1>3, <1>7, <2>1, CheckAdvances DEF Reported, CheckDuplicateEntities, Asks
  <2>3. QED
    BY <1>1, <2>1, <2>2, CheckKeeps
<1>8. CASE CheckStaleness
  <2>1. Advances("told") /\ (~reloaded /\ (Misflagged \/ Outdated) => Warns("stale")')
    BY <1>3, <1>8, StalenessChecked DEF Warns
  <2>2. ~reloaded => /\ Drifted => Warns("type drift")'
                     /\ Unclear => Warns("ambiguous null")'
                     /\ Undocumented => SaysUndocumented'
    BY <1>1, <1>3, <1>8, <2>1, CheckAdvances DEF Reported, CheckStaleness, Asks
  <2>3. QED
    BY <1>1, <2>1, <2>2, CheckKeeps
<1>9. QED
  BY <1>4, <1>5, <1>6, <1>7, <1>8

(* The invariant holds before a column is profiled ... *)
LEMMA InitKeepsProfile == ASSUME InitProfile PROVE ProfileInv
<1>1. db = "rows" /\ p = NoProfile /\ at = "idle"
  BY DEF InitProfile
<1>2. IsProfile
  BY <1>1 DEF IsProfile, NoProfile
<1>3. QED
  BY <1>1, <1>2 DEF ProfileInv, Reported

(* ... and after each step of the generator, a reload or the profile. *)
LEMMA ProfileStep ==
  ASSUME DataInv, ProfileInv, [GenerateThenProfile]_<<dataset, profile>>
  PROVE  DataInv' /\ ProfileInv'
<1>1. CASE Generate /\ UNCHANGED profile
  <2>1. stage # "written" /\ db' = db /\ reloaded' = reloaded /\ p' = p /\ at' = at
    BY <1>1 DEF profile, Generate, BuildCustomers, BuildSubscriptions, ApplyStalePlanTier, BuildInvoices,
                BuildUsageEvents, BuildSupportTickets, BuildDeals, BuildProductCatalog, BuildChurnLog, Emit
  <2>2. at' = "idle" /\ IsProfile' /\ (~reloaded' => db' = "rows")
    BY <2>1 DEF ProfileInv, IsProfile
  <2>3. ProfileInv'
    BY <2>2 DEF ProfileInv, Reported
  <2>4. QED
    BY <1>1, <2>3, GenerateKeepsData
<1>2. ASSUME UNCHANGED dataset, p' = p PROVE
        /\ DataInv' /\ stage' = stage /\ Column' = Column
        /\ \A w : True(w)' <=> True(w)
        /\ IsProfile' <=> IsProfile
        /\ CountedAll' <=> CountedAll
        /\ \A kind : Warns(kind)' <=> Warns(kind)
        /\ SaysUndocumented' <=> SaysUndocumented
        /\ (Drifted' <=> Drifted) /\ (Unclear' <=> Unclear)
        /\ (Undocumented' <=> Undocumented) /\ (Misflagged' <=> Misflagged) /\ (Outdated' <=> Outdated)
  <2>1. /\ Column' = Column /\ Whole' = Whole /\ NewCodes' = NewCodes
        /\ \A w : True(w)' <=> True(w)
        /\ (Drifted' <=> Drifted) /\ (Unclear' <=> Unclear)
        /\ (Undocumented' <=> Undocumented) /\ (Misflagged' <=> Misflagged) /\ (Outdated' <=> Outdated)
    BY <1>2, SameSeed
  <2>2. NullRows(Whole)' = NullRows(Whole) /\ ValuesOf(Whole, Column)' = ValuesOf(Whole, Column)
    BY <2>1 DEF NullRows, Cell, ValuesOf
  <2>3. CountedAll' <=> CountedAll
    BY <1>2, <2>1, <2>2 DEF CountedAll
  <2>4. SaysUndocumented' <=> SaysUndocumented
    BY <1>2, <2>1 DEF SaysUndocumented
  <2>5. DataInv' /\ stage' = stage
    BY <1>2, StillData DEF dataset
  <2>6. /\ IsProfile' <=> IsProfile
        /\ \A kind : Warns(kind)' <=> Warns(kind)
    BY <1>2 DEF IsProfile, Warns
  <2>7. QED
    BY <2>1, <2>3, <2>4, <2>5, <2>6
<1>3. CASE UNCHANGED <<dataset, profile>>
  <2>1. UNCHANGED dataset /\ p' = p /\ db' = db /\ reloaded' = reloaded /\ at' = at
    BY <1>3 DEF profile
  <2>2. QED
    BY <1>2, <2>1 DEF ProfileInv, Counted, Reported
<1>4. CASE Reload
  <2>1. UNCHANGED dataset /\ p' = p /\ reloaded' = TRUE /\ at' = at
    BY <1>4 DEF Reload
  <2>2. QED
    BY <1>2, <2>1 DEF ProfileInv, Counted
<1>5. CASE ProfileColumn
  <2>1. PICK c \in n.columns : p' = [NoProfile EXCEPT !.column = c]
    BY <1>5 DEF ProfileColumn
  <2>2. stage = "written" /\ at' = "count" /\ UNCHANGED <<dataset, db, reloaded>>
    BY <1>5 DEF ProfileColumn
  <2>3. c \in Columns
    BY <2>1, SchemaAssumption DEF DataInv
  <2>4. IsProfile' /\ Column' = c /\ p'.warnings = {}
    BY <2>1 DEF NoProfile, IsProfile, Column
  <2>5. DataInv' /\ stage' = "written"
    BY <2>2, StillData DEF dataset
  <2>6. ProfileInv'
    BY <2>2, <2>3, <2>4, <2>5 DEF ProfileInv, Reported
  <2>7. QED
    BY <2>5, <2>6
<1>6. CASE CountRows
  <2>1. at = "count" /\ IsProfile /\ (~reloaded => db = "rows")
    BY <1>6 DEF CountRows, Asks, ProfileInv
  <2>2. /\ at' = "drift" /\ IsProfile' /\ UNCHANGED <<dataset, db, reloaded>> /\ Counted'
        /\ p'.column = p.column /\ p'.warnings = p.warnings
    BY <1>6, <2>1, RowsCounted
  <2>3. Column' = Column /\ \A w : True(w)' <=> True(w)
    BY <2>2, SameSeed
  <2>4. DataInv' /\ stage' = stage
    BY <2>2, StillData DEF dataset
  <2>5. ProfileInv'
    BY <2>1, <2>2, <2>3, <2>4 DEF ProfileInv, Reported
  <2>6. QED
    BY <2>4, <2>5
<1>7. CASE QueryFails
  <2>1. UNCHANGED dataset /\ p' = p /\ db' = db /\ reloaded' = reloaded /\ at' = "failed" /\ at # "idle"
    BY <1>7 DEF QueryFails
  <2>2. QED
    BY <1>2, <2>1 DEF ProfileInv, Reported
<1>8. QED
  BY <1>1, <1>3, <1>4, <1>5, <1>6, <1>7, ChecksKeep DEF GenerateThenProfile, NextProfile

(* So it always holds. *)
LEMMA ProfileInvariant == ProfileSpec => [](DataInv /\ ProfileInv)
<1>1. InitDataset /\ InitProfile => DataInv /\ ProfileInv
  BY InitKeepsData, InitKeepsProfile
<1>2. DataInv /\ ProfileInv /\ [GenerateThenProfile]_<<dataset, profile>> => (DataInv /\ ProfileInv)'
  BY ProfileStep
<1>3. QED
  BY <1>1, <1>2, PTL DEF ProfileSpec

(* A profile says of a column only what is so in the data, also when the
   database is loaded anew between two of its queries: each check sees the
   whole table or nothing of it, and warns of nothing it has not seen. *)
THEOREM WarningsHold == ProfileSpec => []WarningsAreTrue
<1>1. ProfileInv => WarningsAreTrue
  BY DEF ProfileInv, WarningsAreTrue, True, Whole
<1>2. QED
  BY <1>1, ProfileInvariant, PTL

(* A profile that no reload disturbs tells of what the generator planted in
   the column: the codes without a meaning, the payments without their time,
   the text among the numbers and, where hints are curated, the prices
   flagged wrongly and the tiers that a running subscription contradicts. *)
THEOREM PlantedIsFound == ProfileSpec => []PlantedIsReported
<1>1. ProfileInv => PlantedIsReported
  <2> SUFFICES ASSUME ProfileInv, at = "told", ~reloaded PROVE PlantedIsReported
    BY DEF PlantedIsReported
  <2>1. Reported
    BY DEF ProfileInv
  <2>2. CASE Column = <<"churn_log", "reason_code">>
    <3>1. Undocumented => SaysUndocumented
      BY <2>1 DEF Reported
    <3>2. QED
      BY <2>2, <3>1 DEF PlantedIsReported, Undocumented, SaysUndocumented, NewCodes, ReasonCodes, Whole
  <2>3. CASE Column = <<"invoices", "paid_at">>
    <3>1. Unclear => Warns("ambiguous null")
      BY <2>1 DEF Reported
    <3>2. ASSUME {"paid"} \subseteq {r.status : r \in {x \in Range(Whole) : x.paid_at = NULL}},
                 \E r \in Range(Whole) : r.status # "paid"
          PROVE  Unclear
      BY <2>3, <3>2 DEF Unclear
    <3>3. QED
      BY <2>3, <3>1, <3>2 DEF PlantedIsReported, Whole
  <2>4. CASE Column = <<"usage_events", "event_value">>
    <3>1. Drifted => Warns("type drift")
      BY <2>1 DEF Reported
    <3>2. QED
      BY <2>4, <3>1 DEF PlantedIsReported, Drifted, Whole
  <2>5. CASE Column = <<"product_catalog", "is_current">>
    <3>1. Misflagged => Warns("stale")
      BY <2>1 DEF Reported
    <3>2. QED
      BY <2>5, <3>1 DEF PlantedIsReported, Misflagged, Whole
  <2>6. CASE Column = <<"customers", "plan_tier">>
    <3>1. Outdated => Warns("stale")
      BY <2>1 DEF Reported
    <3>2. QED
      BY <2>6, <3>1 DEF PlantedIsReported, Outdated, Whole
  <2>7. QED
    BY <2>2, <2>3, <2>4, <2>5, <2>6 DEF PlantedIsReported
<1>2. QED
  BY <1>1, ProfileInvariant, PTL
=============================================================================
