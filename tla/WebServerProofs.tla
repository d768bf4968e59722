--------------------------- MODULE WebServerProofs ---------------------------
(***************************************************************************)
(* Proofs about WebServer for any set of requests, arms and bound.  The    *)
(* gate is a mutex between generators whatever the clients do.  Between    *)
(* WORKERS it is one only as far as streams are read to their end:         *)
(* WorkerInv says that the stream of a running worker is still open,       *)
(* because the End that closes it has not been put yet, or was left by its *)
(* client.  While all stay the toolbox is therefore one worker's, and what  *)
(* a client is told is its own (AnswerInv).                                *)
(***************************************************************************)
EXTENDS WebServer, LiveView, SequenceTheorems, FiniteSetTheorems, WellFoundedInduction, TLAPS

USE ArmsAssumption, QueriesAssumption

(* Events without rows have the type of events. *)
LEMMA PlainType ==
  ASSUME NEW type \in {"arm_start", "progress", "arm_error", "done", "fatal", "end"}
  PROVE  /\ Plain(type) \in EventType /\ <<Plain(type)>> \in Seq(EventType)
         /\ Plain(type).type = type
<1>1. Plain(type) \in EventType /\ Plain(type).type = type
  BY DEF Plain, Event, EventType
<1> QED BY <1>1

(* A worker's step touches its own place and queue only. *)
LEMMA WorkType ==
  ASSUME TypeOK, NEW r \in Requests, NEW events \in Seq(EventType),
         NEW to \in Places, NEW from, Work(r, from, events, to)
  PROVE  /\ queue' \in [Requests -> Seq(EventType)]
         /\ pc' \in [Requests -> Places]
         /\ UNCHANGED <<gate, stream, sent, arms>>
<1>1. queue[r] \o events \in Seq(EventType)
  BY DEF TypeOK
<1> QED BY <1>1 DEF TypeOK, Work, Put, serverVars

(* A request runs the arms it asked for. *)
LEMMA ArmsType ==
  ASSUME TypeOK, NEW r \in Requests
  PROVE  arms[r] \in Seq({"baseline", "harness"}) /\ arm[r] \in Nat
<1>1. arms \in Asked /\ arm[r] \in Nat
  BY DEF TypeOK
<1>2. arms[r] \in ArmLists[r]
  BY <1>1 DEF Asked
<1> QED BY <1>1, <1>2

(* Types are kept by every step of generators, clients and workers. *)
THEOREM TypeCorrect == Spec => []TypeOK
<1>1. Init => TypeOK
  <2> SUFFICES ASSUME Init PROVE TypeOK
    OBVIOUS
  <2>1. <<>> \in Seq(EventType)
    OBVIOUS
  <2>2. queue \in [Requests -> Seq(EventType)] /\ sent \in [Requests -> Seq(EventType)]
    BY <2>1 DEF Init
  <2>3. gate \in Nat /\ arms \in Asked
    BY DEF Init
  <2>4. /\ box \in [last_result : Query \cup {None}, last_sql : Query \cup {None}]
        /\ got \in [Requests -> [sql : Query \cup {None}, rows : Query \cup {None}]]
    BY DEF Init, Nothing
  <2>5. /\ stream \in [Requests -> {"new", "waiting", "yielded", "closed", "left"}]
        /\ pc \in [Requests -> Places]
        /\ arm \in [Requests -> Nat] /\ count \in [Requests -> 0..MaxQueries]
    BY DEF Init, Places
  <2> QED BY <2>2, <2>3, <2>4, <2>5 DEF TypeOK
<1>2. TypeOK /\ [Next]_vars => TypeOK'
  <2> SUFFICES ASSUME TypeOK, [Next]_vars PROVE TypeOK'
    OBVIOUS
  <2>1. ASSUME NEW r \in Requests, Client(r) PROVE TypeOK'
    <3>1. CASE Resume(r)
      BY <3>1 DEF Resume, TypeOK, workerVars
    <3>2. CASE Disconnect(r)
      BY <3>2 DEF Disconnect, Release, TypeOK, workerVars
    <3> QED BY <2>1, <3>1, <3>2 DEF Client
  <2>2. ASSUME NEW r \in Requests, Open(r) PROVE TypeOK'
    BY <2>2 DEF Open, TypeOK, Places
  <2>3. ASSUME NEW r \in Requests, Refuse(r) PROVE TypeOK'
    BY <2>3, PlainType DEF Refuse, TypeOK, workerVars
  <2>4. ASSUME NEW r \in Requests, Relay(r) PROVE TypeOK'
    <3>1. /\ queue[r] \in Seq(EventType) /\ queue[r] # <<>>
          /\ sent[r] \in Seq(EventType)
      BY <2>4 DEF Relay, TypeOK
    <3>2. /\ Append(sent[r], Head(queue[r])) \in Seq(EventType)
          /\ Tail(queue[r]) \in Seq(EventType)
      BY <3>1
    <3> QED BY <2>4, <3>2 DEF Relay, TypeOK, workerVars
  <2>5. ASSUME NEW r \in Requests, KeepAlive(r) PROVE TypeOK'
    BY <2>5 DEF KeepAlive, TypeOK, workerVars
  <2>6. ASSUME NEW r \in Requests, Close(r) PROVE TypeOK'
    <3>1. Tail(queue[r]) \in Seq(EventType)
      BY <2>6 DEF Close, TypeOK
    <3> QED BY <2>6, <3>1 DEF Close, Release, TypeOK, workerVars
  <2>7. ASSUME NEW r \in Requests, Worker(r) PROVE TypeOK'
    <3> USE <2>7, PlainType, WorkType DEF Places
    <3>0. <<>> \in Seq(EventType)
      OBVIOUS
    <3>1. CASE BeginWork(r)
      BY <3>0, <3>1 DEF BeginWork, TypeOK
    <3>2. CASE CannotBegin(r)
      BY <3>2 DEF CannotBegin, TypeOK
    <3>3. CASE StartArm(r)
      <4>1. arms[r] \in Seq({"baseline", "harness"}) /\ arm[r] \in Nat
        BY ArmsType
      <4>2. arms[r][arm[r] + 1] \in {"baseline", "harness"}
        BY <3>3, <4>1 DEF StartArm
      <4>3. /\ queue' \in [Requests -> Seq(EventType)]
            /\ pc' \in [Requests -> Places]
            /\ UNCHANGED <<gate, stream, sent, arms>>
        BY <3>3, <4>2 DEF StartArm
      <4>4. got' \in [Requests -> [sql : Query \cup {None}, rows : Query \cup {None}]]
        BY <3>3 DEF StartArm, TypeOK, Nothing
      <4> QED BY <3>3, <4>3, <4>4 DEF StartArm, TypeOK
    <3>4. CASE AllArmsDone(r)
      BY <3>4 DEF AllArmsDone, TypeOK
    <3>5. CASE RunBaseline(r)
      <4>1. <<r, arm[r], 1>> \in Query
        BY DEF TypeOK, Query
      <4>2. got' \in [Requests -> [sql : Query \cup {None}, rows : Query \cup {None}]]
        <5>1. PICK sql \in {None, <<r, arm[r], 1>>} : \E rows \in {None, sql} :
                got' = [got EXCEPT ![r] = [sql |-> sql, rows |-> rows]]
          BY <3>5 DEF RunBaseline
        <5>2. PICK rows \in {None, sql} : got' = [got EXCEPT ![r] = [sql |-> sql, rows |-> rows]]
          BY <5>1
        <5>3. [sql |-> sql, rows |-> rows] \in [sql : Query \cup {None}, rows : Query \cup {None}]
          BY <4>1
        <5> QED BY <5>2, <5>3 DEF TypeOK
      <4> QED BY <3>5, <4>2 DEF RunBaseline, TypeOK
    <3>6. CASE ArmRaises(r)
      BY <3>6 DEF ArmRaises, TypeOK
    <3>7. CASE ResetResult(r)
      BY <3>0, <3>7 DEF ResetResult, TypeOK
    <3>8. CASE ResetSql(r)
      BY <3>8 DEF ResetSql, TypeOK
    <3>9. CASE StoreResult(r)
      <4>1. count' \in [Requests -> 0..MaxQueries]
        BY <3>9 DEF StoreResult, TypeOK
      <4>2. <<r, arm[r], count'[r]>> \in Query
        BY <4>1 DEF TypeOK, Query
      <4> QED BY <3>0, <3>9, <4>1, <4>2 DEF StoreResult, TypeOK
    <3>10. CASE StoreSql(r)
      <4>1. <<r, arm[r], count[r]>> \in Query
        BY DEF TypeOK, Query
      <4> QED BY <3>10, <4>1 DEF StoreSql, TypeOK
    <3>11. CASE NoResult(r)
      BY <3>0, <3>11 DEF NoResult, TypeOK
    <3>12. CASE SeeResult(r)
      BY <3>0, <3>12 DEF SeeResult, TypeOK
    <3>13. CASE ReadSql(r)
      BY <3>0, <3>13 DEF ReadSql, TypeOK
    <3>14. CASE ReadRows(r)
      BY <3>14 DEF ReadRows, TypeOK
    <3>15. CASE ReadNothing(r)
      BY <3>15 DEF ReadNothing, TypeOK
    <3>16. CASE Report(r)
      <4>1. Event("arm_done", got[r].sql, got[r].rows) \in EventType
        BY DEF TypeOK, Event, EventType
      <4>2. <<Event("arm_done", got[r].sql, got[r].rows)>> \in Seq(EventType)
        BY <4>1
      <4> QED BY <3>16, <4>2 DEF Report, TypeOK
    <3>17. CASE ReportRaises(r)
      BY <3>17 DEF ReportRaises, TypeOK
    <3>18. CASE Finally(r)
      BY <3>18 DEF Finally, TypeOK, End
    <3> QED BY <3>1, <3>2, <3>3, <3>4, <3>5, <3>6, <3>7, <3>8, <3>9, <3>10,
               <3>11, <3>12, <3>13, <3>14, <3>15, <3>16, <3>17, <3>18 DEF Worker
  <2>8. CASE UNCHANGED vars
    BY <2>8 DEF vars, TypeOK
  <2> QED BY <2>1, <2>2, <2>3, <2>4, <2>5, <2>6, <2>7, <2>8 DEF Next, Generator
<1> QED BY <1>1, <1>2, PTL DEF Spec

-----------------------------------------------------------------------------
(* The gate between generators. *)

(* A worker never touches the gate or a stream. *)
LEMMA WorkerLeavesGate ==
  ASSUME NEW r \in Requests, Worker(r) PROVE UNCHANGED <<gate, stream>>
  BY DEF Worker, BeginWork, CannotBegin, StartArm, AllArmsDone, RunBaseline,
         ArmRaises, ResetResult, ResetSql, StoreResult, StoreSql, NoResult,
         SeeResult, ReadSql, ReadRows, ReadNothing, Report, ReportRaises,
         Finally, Work, serverVars

(* Leaving the generator frees the gate and nobody holds it any more. *)
LEMMA ReleaseKeepsMutex ==
  ASSUME TypeOK, GateIsMutex, NEW r \in Requests, Held(r),
         NEW how \in {"closed", "left"}, Release(r, how)
  PROVE  GateIsMutex'
<1>1. gate = 0 /\ gate' = 1
  BY DEF GateIsMutex, Release
<1>2. \A s \in Requests : ~Held(s)'
  BY DEF GateIsMutex, Release, Held, TypeOK
<1> QED BY <1>1, <1>2 DEF GateIsMutex

(* Every step keeps the gate a mutex: only Open takes it, and only the closing
   of the stream that holds it gives it back. *)
LEMMA GateStep == TypeOK /\ GateIsMutex /\ [Next]_vars => GateIsMutex'
<1> SUFFICES ASSUME TypeOK, GateIsMutex, [Next]_vars PROVE GateIsMutex'
  OBVIOUS
<1>1. ASSUME NEW r \in Requests, Resume(r) PROVE GateIsMutex'
  BY <1>1 DEF Resume, GateIsMutex, Held, TypeOK
<1>2. ASSUME NEW r \in Requests, Disconnect(r) PROVE GateIsMutex'
  BY <1>2, ReleaseKeepsMutex DEF Disconnect, Held
<1>3. ASSUME NEW r \in Requests, Open(r) PROVE GateIsMutex'
  <2>1. gate = 1 /\ gate' = 0 /\ \A s \in Requests : ~Held(s)
    BY <1>3 DEF Open, GateIsMutex
  <2>2. \A s \in Requests : Held(s)' <=> s = r
    BY <1>3, <2>1 DEF Open, Held, TypeOK
  <2> QED BY <2>1, <2>2 DEF GateIsMutex
<1>4. ASSUME NEW r \in Requests, Refuse(r) PROVE GateIsMutex'
  BY <1>4 DEF Refuse, GateIsMutex, Held, TypeOK
<1>5. ASSUME NEW r \in Requests, Relay(r) \/ KeepAlive(r) PROVE GateIsMutex'
  BY <1>5 DEF Relay, KeepAlive, GateIsMutex, Held, TypeOK
<1>6. ASSUME NEW r \in Requests, Close(r) PROVE GateIsMutex'
  BY <1>6, ReleaseKeepsMutex DEF Close, Held
<1>7. ASSUME NEW r \in Requests, Worker(r) PROVE GateIsMutex'
  BY <1>7, WorkerLeavesGate DEF GateIsMutex, Held
<1>8. CASE UNCHANGED vars
  BY <1>8 DEF vars, GateIsMutex, Held
<1> QED BY <1>1, <1>2, <1>3, <1>4, <1>5, <1>6, <1>7, <1>8
        DEF Next, Client, Generator

(* For any number of requests, and whether clients leave or not: the gate is
   taken by exactly one open generator, or free. *)
THEOREM GateMutex == Spec => []GateIsMutex
<1>1. Init => GateIsMutex
  BY DEF Init, GateIsMutex, Held
<1> QED BY <1>1, GateStep, TypeCorrect, PTL DEF Spec

-----------------------------------------------------------------------------
(* The gate between workers. *)

NoEnd(r) == \A i \in 1..Len(queue[r]) : queue[r][i] # End

(* A running worker's stream is open and cannot be closed yet, unless its
   client has left; a request that has not begun has no worker and nothing
   queued. *)
WorkerInv ==
  \A r \in Requests :
    /\ Running(r) => stream[r] = "left" \/ (Held(r) /\ NoEnd(r))
    /\ stream[r] = "new" => pc[r] = "off" /\ queue[r] = <<>>

(* Events that are not the End leave a queue without it. *)
LEMMA PutNoEnd ==
  ASSUME TypeOK, NEW r \in Requests, NoEnd(r), NEW events \in Seq(EventType),
         \A i \in 1..Len(events) : events[i] # End, Put(r, events)
  PROVE  NoEnd(r)'
<1>1. queue'[r] = queue[r] \o events /\ queue[r] \in Seq(EventType)
  BY DEF Put, TypeOK
<1>2. ASSUME NEW i \in 1..Len(queue'[r]) PROVE queue'[r][i] # End
  <2>1. CASE i \in 1..Len(queue[r])
    <3>1. queue'[r][i] = queue[r][i]
      BY ONLY <1>1, <2>1
    <3> QED BY <2>1, <3>1 DEF NoEnd
  <2>2. CASE i \notin 1..Len(queue[r])
    <3>1. /\ i - Len(queue[r]) \in 1..Len(events)
          /\ queue'[r][i] = events[i - Len(queue[r])]
      BY <1>1, <2>2
    <3> QED BY <3>1
  <2> QED BY <2>1, <2>2
<1> QED BY <1>2 DEF NoEnd

(* A worker's step that does not put the End keeps the invariant. *)
LEMMA WorkKeepsInv ==
  ASSUME TypeOK, WorkerInv, NEW r \in Requests, NEW events \in Seq(EventType),
         \A i \in 1..Len(events) : events[i] # End,
         NEW from \in Places \ {"off", "ended"}, NEW to \in Places,
         Work(r, from, events, to)
  PROVE  WorkerInv'
<1>1. Running(r) /\ (stream[r] = "left" \/ (Held(r) /\ NoEnd(r)))
  BY DEF Work, Running, WorkerInv
<1>2. NoEnd(r) => NoEnd(r)'
  BY PutNoEnd DEF Work
<1>3. stream' = stream /\ stream[r] # "new"
  BY <1>1 DEF Work, serverVars, Held
<1>4. ASSUME NEW s \in Requests, s # r
      PROVE  queue'[s] = queue[s] /\ pc'[s] = pc[s]
  BY <1>4 DEF Work, Put, TypeOK
<1> QED BY <1>1, <1>2, <1>3, <1>4 DEF WorkerInv, Running, Held, NoEnd

(* Events other than the End are told apart from it by their type. *)
LEMMA NotEnd ==
  /\ \A type \in {"arm_start", "progress", "arm_error", "done", "fatal"} :
       \A i \in 1..Len(<<Plain(type)>>) : <<Plain(type)>>[i] # End
  /\ \A sql, rows :
       \A i \in 1..Len(<<Event("arm_done", sql, rows)>>) :
         <<Event("arm_done", sql, rows)>>[i] # End
  /\ \A i \in 1..Len(<<>>) : <<>>[i] # End
  BY DEF Plain, Event, End

(* The End is put by the step that ends the worker. *)
LEMMA FinallyKeepsInv ==
  ASSUME TypeOK, WorkerInv, NEW r \in Requests, Finally(r) PROVE WorkerInv'
<1>1. ~Running(r)' /\ stream' = stream /\ stream[r] # "new"
  <2>1. pc[r] = "finally" /\ pc'[r] = "ended" /\ stream' = stream
    BY DEF Finally, Work, serverVars, TypeOK
  <2> QED BY <2>1 DEF Running, WorkerInv
<1>2. ASSUME NEW s \in Requests, s # r
      PROVE  queue'[s] = queue[s] /\ pc'[s] = pc[s]
  BY <1>2 DEF Finally, Work, Put, TypeOK
<1> QED BY <1>1, <1>2 DEF WorkerInv, Running, Held, NoEnd

(* A step of a worker that adds events to its own queue, with no End unless it
   stops, keeps WorkerInv. *)
LEMMA WorkerStepKeepsInv ==
  ASSUME TypeOK, WorkerInv, NEW r \in Requests, Worker(r) PROVE WorkerInv'
<1> USE PlainType, NotEnd, WorkKeepsInv DEF Places
<1>0. <<>> \in Seq(EventType)
  OBVIOUS
<1>1. CASE BeginWork(r)
  BY <1>0, <1>1 DEF BeginWork
<1>2. CASE CannotBegin(r)
  BY <1>2 DEF CannotBegin
<1>3. CASE StartArm(r)
  <2>1. arms[r][arm[r] + 1] \in {"baseline", "harness"}
    <3>1. arms[r] \in Seq({"baseline", "harness"}) /\ arm[r] \in Nat
      BY ArmsType
    <3> QED BY <1>3, <3>1 DEF StartArm
  <2> QED BY <1>3, <2>1 DEF StartArm
<1>4. CASE AllArmsDone(r)
  BY <1>4 DEF AllArmsDone
<1>5. CASE RunBaseline(r)
  BY <1>5 DEF RunBaseline
<1>6. CASE ArmRaises(r)
  BY <1>6 DEF ArmRaises
<1>7. CASE ResetResult(r)
  BY <1>0, <1>7 DEF ResetResult
<1>8. CASE ResetSql(r)
  BY <1>8 DEF ResetSql
<1>9. CASE StoreResult(r)
  BY <1>0, <1>9 DEF StoreResult
<1>10. CASE StoreSql(r)
  BY <1>10 DEF StoreSql
<1>11. CASE NoResult(r)
  BY <1>0, <1>11 DEF NoResult
<1>12. CASE SeeResult(r)
  BY <1>0, <1>12 DEF SeeResult
<1>13. CASE ReadSql(r)
  BY <1>0, <1>13 DEF ReadSql
<1>14. CASE ReadRows(r)
  BY <1>14 DEF ReadRows
<1>15. CASE ReadNothing(r)
  BY <1>15 DEF ReadNothing
<1>16. CASE Report(r)
  <2>1. Event("arm_done", got[r].sql, got[r].rows) \in EventType
    BY DEF TypeOK, Event, EventType
  <2>2. <<Event("arm_done", got[r].sql, got[r].rows)>> \in Seq(EventType)
    BY <2>1
  <2> QED BY <1>16, <2>2 DEF Report
<1>17. CASE ReportRaises(r)
  BY <1>17 DEF ReportRaises
<1>18. CASE Finally(r)
  BY <1>18, FinallyKeepsInv
<1> QED BY <1>1, <1>2, <1>3, <1>4, <1>5, <1>6, <1>7, <1>8, <1>9, <1>10,
           <1>11, <1>12, <1>13, <1>14, <1>15, <1>16, <1>17, <1>18 DEF Worker

(* Every step keeps WorkerInv. *)
LEMMA WorkerInvStep ==
  ASSUME TypeOK, WorkerInv, [Next]_vars PROVE WorkerInv'
<1>1. ASSUME NEW r \in Requests, Resume(r) PROVE WorkerInv'
  BY <1>1 DEF Resume, WorkerInv, Running, Held, NoEnd, TypeOK, workerVars
<1>2. ASSUME NEW r \in Requests, Disconnect(r) PROVE WorkerInv'
  <2>1. stream'[r] = "left" /\ queue' = queue /\ pc' = pc
    BY <1>2 DEF Disconnect, Release, TypeOK, workerVars
  <2>2. ASSUME NEW s \in Requests, s # r PROVE stream'[s] = stream[s]
    BY <1>2, <2>2 DEF Disconnect, Release, TypeOK
  <2> QED BY <2>1, <2>2 DEF WorkerInv, Running, Held, NoEnd
<1>3. ASSUME NEW r \in Requests, Open(r) PROVE WorkerInv'
  <2>1. NoEnd(r)'
    BY <1>3 DEF Open, WorkerInv, NoEnd
  <2>2. Held(r)' /\ stream'[r] # "new"
    BY <1>3 DEF Open, Held, TypeOK
  <2>3. ASSUME NEW s \in Requests, s # r
        PROVE  stream'[s] = stream[s] /\ pc'[s] = pc[s] /\ queue'[s] = queue[s]
    BY <1>3, <2>3 DEF Open, TypeOK
  <2> QED BY <2>1, <2>2, <2>3 DEF WorkerInv, Running, Held, NoEnd
<1>4. ASSUME NEW r \in Requests, Refuse(r) PROVE WorkerInv'
  BY <1>4 DEF Refuse, WorkerInv, Running, Held, NoEnd, TypeOK, workerVars
<1>5. ASSUME NEW r \in Requests, Relay(r) PROVE WorkerInv'
  <2>1. /\ queue[r] \in Seq(EventType) /\ queue[r] # <<>>
        /\ queue'[r] = Tail(queue[r])
    BY <1>5 DEF Relay, TypeOK
  <2>2. NoEnd(r) => NoEnd(r)'
    BY <2>1 DEF NoEnd
  <2>3. Held(r)' /\ Held(r) /\ stream'[r] # "new" /\ pc' = pc
    BY <1>5 DEF Relay, Held, TypeOK, workerVars
  <2>4. ASSUME NEW s \in Requests, s # r
        PROVE  stream'[s] = stream[s] /\ queue'[s] = queue[s]
    BY <1>5, <2>4 DEF Relay, TypeOK
  <2> QED BY <2>2, <2>3, <2>4 DEF WorkerInv, Running, Held, NoEnd
<1>6. ASSUME NEW r \in Requests, KeepAlive(r) PROVE WorkerInv'
  BY <1>6 DEF KeepAlive, WorkerInv, Running, Held, NoEnd, TypeOK, workerVars
<1>7. ASSUME NEW r \in Requests, Close(r) PROVE WorkerInv'
  <2>1. queue[r] \in Seq(EventType) /\ queue[r] # <<>> /\ Head(queue[r]) = End
    BY <1>7 DEF Close, TypeOK
  <2>2. ~NoEnd(r)
    BY <2>1 DEF NoEnd
  <2>3. ~Running(r)' /\ stream'[r] # "new"
    BY <1>7, <2>2 DEF Close, Release, WorkerInv, Running, TypeOK, workerVars
  <2>4. ASSUME NEW s \in Requests, s # r
        PROVE  stream'[s] = stream[s] /\ queue'[s] = queue[s] /\ pc'[s] = pc[s]
    BY <1>7, <2>4 DEF Close, Release, TypeOK, workerVars
  <2> QED BY <2>3, <2>4 DEF WorkerInv, Running, Held, NoEnd
<1>8. ASSUME NEW r \in Requests, Worker(r) PROVE WorkerInv'
  BY <1>8, WorkerStepKeepsInv
<1>9. CASE UNCHANGED vars
  BY <1>9 DEF vars, WorkerInv, Running, Held, NoEnd
<1> QED BY <1>1, <1>2, <1>3, <1>4, <1>5, <1>6, <1>7, <1>8, <1>9
        DEF Next, Client, Generator

(* Whoever leaves and whenever: two workers run together only if the client of
   one of them has left; while all stay, one question at a time uses the model
   and the toolbox. *)
THEOREM OneWorkerAtATime == Spec => []OneQuestionAtATime
<1>1. Init => WorkerInv
  BY DEF Init, WorkerInv, Running
<1>2. TypeOK /\ WorkerInv /\ [Next]_vars => WorkerInv'
  BY WorkerInvStep
<1>3. WorkerInv /\ GateIsMutex => OneQuestionAtATime
  BY DEF WorkerInv, GateIsMutex, OneQuestionAtATime
<1> QED BY <1>1, <1>2, <1>3, GateMutex, TypeCorrect, PTL DEF Spec

-----------------------------------------------------------------------------
(* Whose answer a client is told. *)

AllStay == \A r \in Requests : stream[r] # "left"

Started(e, n) == CountTo(e, n, {"arm_start"})

(* A sequence of events tells, for each arm, of a query of that arm. *)
Told(r, list, e) ==
  \A i \in 1..Len(e) : e[i].type = "arm_done" => Own(r, list, Started(e, i), e[i])

Mine(r, q) == q = None \/ (q[1] = r /\ q[2] = arm[r])

(* What a worker finds in the toolbox, and has read from it, is its own. *)
OwnBox(r) ==
  /\ pc[r] = "reset" => box.last_result = None
  /\ pc[r] \in {"loop", "readSql"} => box.last_sql = box.last_result /\ Mine(r, box.last_result)
  /\ pc[r] = "store" => box.last_result = <<r, arm[r], count[r]>>
  /\ pc[r] \in {"baseline", "harness", "reset", "loop", "store", "readSql"} => got[r] = Nothing
  /\ pc[r] = "readRows" => got[r].sql = box.last_result /\ Mine(r, box.last_result)
  /\ pc[r] = "baseline" => arms[r][arm[r]] = "baseline"
  /\ pc[r] = "report" => Own(r, arms[r], arm[r], got[r])

(* The End is the last event of a queue, and the worker's last step; a stream
   that was not begun has told nothing. *)
EndInv ==
  \A r \in Requests :
    /\ \A i \in 1..Len(queue[r]) : queue[r][i] = End => i = Len(queue[r]) /\ pc[r] = "ended"
    /\ stream[r] = "new" => sent[r] = <<>>

AnswerInv ==
  AllStay => \A r \in Requests :
    /\ Told(r, arms[r], Events(r)) /\ arm[r] = Started(Events(r), Len(Events(r)))
    /\ OwnBox(r)

-----------------------------------------------------------------------------
(* Sequences of events. *)

(* What is counted up to a place is known from the events up to it. *)
Counted(e, n, types) == {i \in 1..n : e[i].type \in types}

SameTo(e, f, n) == \A i \in 1..n : e[i] = f[i]

LEMMA CountSame ==
  \A e, f, types : \A n \in Nat : SameTo(e, f, n) => CountTo(e, n, types) = CountTo(f, n, types)
<1> SUFFICES ASSUME NEW e, NEW f, NEW types, NEW n \in Nat, \A i \in 1..n : e[i] = f[i]
             PROVE  CountTo(e, n, types) = CountTo(f, n, types)
  BY DEF SameTo
<1>1. {i \in 1..n : e[i].type \in types} = {i \in 1..n : f[i].type \in types}
  OBVIOUS
<1> QED BY <1>1 DEF CountTo

LEMMA CountFinite ==
  ASSUME NEW e, NEW types, NEW n \in Nat
  PROVE  /\ IsFiniteSet(Counted(e, n, types)) /\ CountTo(e, n, types) = Cardinality(Counted(e, n, types))
         /\ CountTo(e, n, types) \in Nat
<1>1. IsFiniteSet(1..n)
  BY FS_Interval
<1>2. Counted(e, n, types) \in SUBSET (1..n)
  BY DEF Counted
<1>3. IsFiniteSet(Counted(e, n, types))
  BY <1>1, <1>2, FS_Subset
<1>4. CountTo(e, n, types) = Cardinality(Counted(e, n, types))
  BY DEF CountTo, Counted
<1> QED BY <1>3, <1>4, FS_CardinalityType

LEMMA CountNone == ASSUME NEW e, NEW types PROVE CountTo(e, 0, types) = 0
<1>1. Counted(e, 0, types) = {}
  BY DEF Counted
<1> QED BY <1>1, CountFinite, FS_EmptySet

LEMMA CountNext ==
  ASSUME NEW e, NEW types, NEW n \in Nat
  PROVE  CountTo(e, n + 1, types) = CountTo(e, n, types) + (IF e[n + 1].type \in types THEN 1 ELSE 0)
<1>1. /\ IsFiniteSet(Counted(e, n, types)) /\ CountTo(e, n, types) = Cardinality(Counted(e, n, types))
      /\ CountTo(e, n, types) \in Nat /\ CountTo(e, n + 1, types) = Cardinality(Counted(e, n + 1, types))
  BY CountFinite
<1>2. CASE e[n + 1].type \in types
  <2>1. Counted(e, n + 1, types) = Counted(e, n, types) \cup {n + 1} /\ n + 1 \notin Counted(e, n, types)
    BY <1>2 DEF Counted
  <2>2. Cardinality(Counted(e, n, types) \cup {n + 1}) = Cardinality(Counted(e, n, types)) + 1
    BY <1>1, <2>1, FS_AddElement
  <2> QED BY <1>1, <1>2, <2>1, <2>2
<1>3. CASE e[n + 1].type \notin types
  <2>1. Counted(e, n + 1, types) = Counted(e, n, types)
    BY <1>3 DEF Counted
  <2> QED BY <1>1, <1>3, <2>1
<1> QED BY <1>2, <1>3

LEMMA SamePrefix ==
  ASSUME NEW e, NEW f, NEW n \in Nat, \A i \in 1..n : e[i] = f[i]
  PROVE  Started(e, n) = Started(f, n)
BY CountSame DEF Started, SameTo

LEMMA StartedNone == ASSUME NEW e PROVE Started(e, 0) = 0
BY CountNone DEF Started

LEMMA StartedNext ==
  ASSUME NEW e, NEW n \in Nat
  PROVE  /\ Started(e, n + 1) = Started(e, n) + (IF e[n + 1].type = "arm_start" THEN 1 ELSE 0)
         /\ Started(e, n) \in Nat
<1>1. CountTo(e, n, {"arm_start"}) \in Nat
  BY CountFinite
<1>2. CountTo(e, n + 1, {"arm_start"})
        = CountTo(e, n, {"arm_start"}) + (IF e[n + 1].type \in {"arm_start"} THEN 1 ELSE 0)
  BY CountNext
<1> QED BY <1>1, <1>2 DEF Started

(* One more event. *)
LEMMA ToldMore ==
  ASSUME NEW r, NEW list, NEW e \in Seq(EventType), Told(r, list, e), NEW ev \in EventType,
         ev.type = "arm_done" => Own(r, list, Started(e, Len(e)), ev)
  PROVE  /\ Told(r, list, e \o <<ev>>)
         /\ Started(e \o <<ev>>, Len(e \o <<ev>>))
              = Started(e, Len(e)) + (IF ev.type = "arm_start" THEN 1 ELSE 0)
<1> DEFINE f == e \o <<ev>>
<1>1. /\ Len(f) = Len(e) + 1 /\ f[Len(e) + 1] = ev /\ Len(e) \in Nat
      /\ \A i \in 1..Len(e) : f[i] = e[i]
  OBVIOUS
<1> HIDE DEF f
<1>2. \A n \in 0..Len(e) : Started(f, n) = Started(e, n)
  <2> SUFFICES ASSUME NEW n \in 0..Len(e) PROVE Started(f, n) = Started(e, n)
    OBVIOUS
  <2>1. n \in Nat /\ \A i \in 1..n : f[i] = e[i]
    BY <1>1
  <2> QED BY <2>1, SamePrefix
<1>3. Started(f, Len(f)) = Started(e, Len(e)) + (IF ev.type = "arm_start" THEN 1 ELSE 0)
  <2>1. Started(f, Len(e) + 1) = Started(f, Len(e)) + (IF f[Len(e) + 1].type = "arm_start" THEN 1 ELSE 0)
    BY <1>1, StartedNext
  <2> QED BY <1>1, <1>2, <2>1
<1>4. Told(r, list, f)
  <2> SUFFICES ASSUME NEW i \in 1..Len(f), f[i].type = "arm_done"
               PROVE  Own(r, list, Started(f, i), f[i])
    BY DEF Told
  <2>1. CASE i \in 1..Len(e)
    BY <1>1, <1>2, <2>1 DEF Told
  <2>2. CASE i = Len(e) + 1
    <3>1. Started(f, i) = Started(e, Len(e))
      <4>1. Started(e, Len(e)) \in Nat
        BY <1>1, StartedNext
      <4> QED BY <1>1, <1>3, <2>2, <4>1
    <3> QED BY <1>1, <2>2, <3>1
  <2> QED BY <1>1, <2>1, <2>2
<1> QED BY <1>3, <1>4 DEF f

(* Relaying an event moves it, and adds none. *)
LEMMA RelayedEvents ==
  ASSUME NEW s \in Seq(EventType), NEW q \in Seq(EventType), q # <<>>
  PROVE  Append(s, Head(q)) \o Tail(q) = s \o q
<1>1. /\ Append(s, Head(q)) \in Seq(EventType) /\ Tail(q) \in Seq(EventType) /\ Len(q) > 0
      /\ Len(Append(s, Head(q))) = Len(s) + 1 /\ Len(Tail(q)) = Len(q) - 1
  OBVIOUS
<1>2. Len(Append(s, Head(q)) \o Tail(q)) = Len(s \o q)
  BY <1>1
<1>3. ASSUME NEW i \in 1..Len(s \o q) PROVE (Append(s, Head(q)) \o Tail(q))[i] = (s \o q)[i]
  BY <1>1, <1>3
<1> QED BY <1>1, <1>2, <1>3, SeqEqual

(* Taking the last event away. *)
LEMMA ToldLess ==
  ASSUME NEW r, NEW list, NEW e \in Seq(EventType), NEW ev \in EventType,
         Told(r, list, e \o <<ev>>), ev.type # "arm_start"
  PROVE  Told(r, list, e) /\ Started(e, Len(e)) = Started(e \o <<ev>>, Len(e \o <<ev>>))
<1> DEFINE f == e \o <<ev>>
<1>1. /\ Len(f) = Len(e) + 1 /\ f[Len(e) + 1] = ev /\ Len(e) \in Nat
      /\ \A i \in 1..Len(e) : f[i] = e[i]
  OBVIOUS
<1>2. Told(r, list, f)
  OBVIOUS
<1> HIDE DEF f
<1>3. ASSUME NEW n \in 0..Len(e) PROVE Started(f, n) = Started(e, n)
  <2>1. n \in Nat /\ \A i \in 1..n : f[i] = e[i]
    BY <1>1, <1>3
  <2> QED BY <2>1, SamePrefix
<1>4. Told(r, list, e)
  BY <1>1, <1>2, <1>3 DEF Told
<1>5. Started(f, Len(f)) = Started(e, Len(e))
  <2>1. Started(f, Len(e) + 1) = Started(f, Len(e)) + 0
    BY <1>1, StartedNext
  <2>2. Started(f, Len(e)) \in Nat
    BY <1>1, StartedNext
  <2> QED BY <1>1, <1>3, <2>1, <2>2
<1> QED BY <1>4, <1>5 DEF f

-----------------------------------------------------------------------------
(* What the steps do to the events. *)

LEMMA EventsType == ASSUME TypeOK, NEW r \in Requests PROVE Events(r) \in Seq(EventType)
<1>1. sent[r] \in Seq(EventType) /\ queue[r] \in Seq(EventType)
  BY DEF TypeOK
<1> QED BY <1>1, ConcatProperties DEF Events

LEMMA EventsTogether ==
  ASSUME NEW s \in Seq(EventType), NEW q \in Seq(EventType), NEW e \in Seq(EventType)
  PROVE  s \o (q \o e) = (s \o q) \o e
<1>1. s \o (q \o e) \in Seq(EventType) /\ (s \o q) \o e \in Seq(EventType)
  OBVIOUS
<1>2. Len(s \o (q \o e)) = Len((s \o q) \o e)
  OBVIOUS
<1>3. ASSUME NEW i \in 1..Len(s \o (q \o e)) PROVE (s \o (q \o e))[i] = ((s \o q) \o e)[i]
  BY <1>3
<1> QED BY <1>1, <1>2, <1>3, SeqEqual

(* A worker adds events to those of its own request. *)
LEMMA WorkEvents ==
  ASSUME TypeOK, NEW r \in Requests, NEW from, NEW to, NEW events \in Seq(EventType),
         Work(r, from, events, to)
  PROVE  /\ Events(r)' = Events(r) \o events
         /\ \A s \in Requests \ {r} : Events(s)' = Events(s)
<1>1. /\ sent[r] \in Seq(EventType) /\ queue[r] \in Seq(EventType) /\ sent' = sent
      /\ queue'[r] = queue[r] \o events /\ \A s \in Requests \ {r} : queue'[s] = queue[s]
  BY DEF TypeOK, Work, Put, serverVars
<1>2. sent[r] \o (queue[r] \o events) = (sent[r] \o queue[r]) \o events
  BY <1>1, EventsTogether
<1> QED BY <1>1, <1>2 DEF Events

(* A worker that adds nothing tells what it told. *)
LEMMA TellNothing ==
  ASSUME TypeOK, NEW r \in Requests, NEW from, NEW to, Work(r, from, <<>>, to),
         Told(r, arms[r], Events(r)), arm[r] = Started(Events(r), Len(Events(r))), arm'[r] = arm[r]
  PROVE  (Told(r, arms[r], Events(r)) /\ arm[r] = Started(Events(r), Len(Events(r))))'
<1>1. Events(r) \in Seq(EventType) /\ <<>> \in Seq(EventType)
  BY EventsType
<1>2. Events(r)' = Events(r) /\ arms' = arms
  BY <1>1, WorkEvents, ConcatEmptySeq DEF Work
<1> QED BY <1>2

(* One that adds an event may add what is its own. *)
LEMMA Tell ==
  ASSUME TypeOK, NEW r \in Requests, NEW from, NEW to, NEW ev \in EventType,
         Work(r, from, <<ev>>, to),
         Told(r, arms[r], Events(r)), arm[r] = Started(Events(r), Len(Events(r))),
         ev.type = "arm_done" => Own(r, arms[r], arm[r], ev),
         arm'[r] = arm[r] + (IF ev.type = "arm_start" THEN 1 ELSE 0)
  PROVE  (Told(r, arms[r], Events(r)) /\ arm[r] = Started(Events(r), Len(Events(r))))'
<1>1. Events(r) \in Seq(EventType) /\ <<ev>> \in Seq(EventType)
  BY EventsType
<1>2. Events(r)' = Events(r) \o <<ev>> /\ arms' = arms
  BY <1>1, WorkEvents DEF Work
<1>3. /\ Told(r, arms[r], Events(r) \o <<ev>>)
      /\ Started(Events(r) \o <<ev>>, Len(Events(r) \o <<ev>>))
           = Started(Events(r), Len(Events(r))) + (IF ev.type = "arm_start" THEN 1 ELSE 0)
  BY <1>1, ToldMore
<1> QED BY <1>2, <1>3

LEMMA TellPlain ==
  ASSUME TypeOK, NEW r \in Requests, NEW from, NEW to,
         NEW type \in {"arm_start", "progress", "arm_error", "done", "fatal", "end"},
         Work(r, from, <<Plain(type)>>, to),
         Told(r, arms[r], Events(r)), arm[r] = Started(Events(r), Len(Events(r))),
         arm'[r] = arm[r] + (IF type = "arm_start" THEN 1 ELSE 0)
  PROVE  (Told(r, arms[r], Events(r)) /\ arm[r] = Started(Events(r), Len(Events(r))))'
  BY PlainType, Tell

(* While all stay, the worker that takes a step runs alone, and the toolbox,
   its events and what it has read stay its own. *)
LEMMA WorkerTellsOwn ==
  ASSUME TypeOK, NEW r \in Requests, Worker(r), OwnBox(r), Told(r, arms[r], Events(r)),
         arm[r] = Started(Events(r), Len(Events(r)))
  PROVE  OwnBox(r)' /\ (Told(r, arms[r], Events(r)) /\ arm[r] = Started(Events(r), Len(Events(r))))'
<1> USE DEF OwnBox, Mine
<1>0. arm[r] \in Nat /\ arm[r] + 0 = arm[r] /\ count[r] \in Nat
  BY DEF TypeOK
<1>1. CASE BeginWork(r)
  BY <1>0, <1>1, TellNothing DEF BeginWork, Work, TypeOK
<1>2. CASE CannotBegin(r)
  BY <1>0, <1>2, TellPlain DEF CannotBegin, Work, TypeOK
<1>3. CASE StartArm(r)
  <2>1. arms[r][arm[r] + 1] \in {"baseline", "harness"}
    <3>1. arms[r] \in Seq({"baseline", "harness"})
      BY ArmsType
    <3> QED BY <1>0, <1>3, <3>1 DEF StartArm
  <2>2. OwnBox(r)'
    BY <1>3, <2>1 DEF StartArm, Work, TypeOK
  <2>3. Work(r, "arms", <<Plain("arm_start")>>, arms[r][arm[r] + 1]) /\ arm'[r] = arm[r] + 1
    BY <1>3 DEF StartArm, TypeOK
  <2> QED BY <2>2, <2>3, TellPlain
<1>4. CASE AllArmsDone(r)
  BY <1>0, <1>4, TellPlain DEF AllArmsDone, Work, TypeOK
<1>5. CASE RunBaseline(r)
  <2>1. OwnBox(r)'
    <3>1. /\ pc[r] = "baseline" /\ pc'[r] = "report" /\ arm' = arm /\ arms' = arms
          /\ arms[r][arm[r]] = "baseline"
      BY <1>5 DEF RunBaseline, Work, TypeOK
    <3>2. PICK sql \in {None, <<r, arm[r], 1>>} : \E rows \in {None, sql} :
            got' = [got EXCEPT ![r] = [sql |-> sql, rows |-> rows]]
      BY <1>5 DEF RunBaseline
    <3>3. PICK rows \in {None, sql} : got' = [got EXCEPT ![r] = [sql |-> sql, rows |-> rows]]
      BY <3>2
    <3>4. got'[r] = [sql |-> sql, rows |-> rows] /\ (sql = None \/ (sql[1] = r /\ sql[2] = arm[r]))
      BY <3>3 DEF TypeOK
    <3>5. Own(r, arms[r], arm[r], got'[r])
      BY <3>1, <3>4 DEF Own
    <3> QED BY <3>1, <3>5
  <2> QED BY <1>0, <1>5, <2>1, TellPlain DEF RunBaseline
<1>6. CASE ArmRaises(r)
  <2>1. OwnBox(r)'
    BY <1>6 DEF ArmRaises, Work, TypeOK
  <2> QED BY <1>0, <1>6, <2>1, TellPlain DEF ArmRaises
<1>7. CASE ResetResult(r)
  BY <1>0, <1>7, TellNothing DEF ResetResult, Work, TypeOK
<1>8. CASE ResetSql(r)
  BY <1>0, <1>8, TellPlain DEF ResetSql, Work, TypeOK
<1>9. CASE StoreResult(r)
  BY <1>0, <1>9, TellNothing DEF StoreResult, Work, TypeOK
<1>10. CASE StoreSql(r)
  <2> DEFINE q == <<r, arm[r], count[r]>>
  <2>1. pc[r] = "store" /\ pc'[r] = "loop" /\ arm' = arm /\ got' = got
    BY <1>10 DEF StoreSql, Work, TypeOK
  <2>2. box'.last_sql = q /\ box'.last_result = q /\ q[1] = r /\ q[2] = arm[r]
    BY <1>10, <2>1 DEF StoreSql, TypeOK
  <2>3. OwnBox(r)'
    BY <2>1, <2>2
  <2> QED BY <1>0, <1>10, <2>1, <2>3, TellPlain DEF StoreSql
<1>11. CASE NoResult(r)
  <2>1. pc[r] = "loop" /\ pc'[r] = "report" /\ UNCHANGED <<arm, got>>
    BY <1>11 DEF NoResult, Work, TypeOK
  <2>2. Own(r, arms[r], arm[r], Nothing) /\ arms' = arms /\ got[r] = Nothing
    BY <1>11, <2>1 DEF Own, Nothing, NoResult, Work
  <2>3. OwnBox(r)'
    BY <2>1, <2>2
  <2> QED BY <1>0, <1>11, <2>1, <2>3, TellNothing DEF NoResult
<1>12. CASE SeeResult(r)
  BY <1>0, <1>12, TellNothing DEF SeeResult, Work, TypeOK
<1>13. CASE ReadSql(r)
  BY <1>0, <1>13, TellNothing DEF ReadSql, Work, TypeOK
<1>14. CASE ReadRows(r)
  <2>1. /\ pc[r] = "readRows" /\ pc'[r] = "report" /\ arm' = arm /\ arms' = arms
        /\ got'[r].sql = got[r].sql /\ got'[r].rows = box.last_result
    BY <1>14 DEF ReadRows, Work, TypeOK
  <2>2. Own(r, arms[r], arm[r], got'[r])
    BY <2>1 DEF Own
  <2>3. OwnBox(r)'
    BY <2>1, <2>2
  <2> QED BY <1>0, <1>14, <2>3, TellPlain DEF ReadRows
<1>15. CASE ReadNothing(r)
  BY <1>0, <1>15, TellPlain DEF ReadNothing, Work, TypeOK
<1>16. CASE Report(r)
  <2>1. OwnBox(r)'
    BY <1>16 DEF Report, Work, TypeOK
  <2> DEFINE ev == Event("arm_done", got[r].sql, got[r].rows)
  <2>2. ev \in EventType /\ ev.type = "arm_done" /\ ev.sql = got[r].sql /\ ev.rows = got[r].rows
    BY DEF TypeOK, Event, EventType
  <2>3. Work(r, "report", <<ev>>, "arms") /\ arm' = arm /\ pc[r] = "report"
    BY <1>16 DEF Report, Work
  <2>4. Own(r, arms[r], arm[r], ev)
    BY <2>2, <2>3 DEF Own
  <2> HIDE DEF ev
  <2> QED BY <1>0, <2>1, <2>2, <2>3, <2>4, Tell
<1>17. CASE ReportRaises(r)
  BY <1>0, <1>17, TellPlain DEF ReportRaises, Work, TypeOK
<1>18. CASE Finally(r)
  BY <1>0, <1>18, TellPlain DEF Finally, Work, TypeOK, End
<1> QED BY <1>1, <1>2, <1>3, <1>4, <1>5, <1>6, <1>7, <1>8, <1>9, <1>10,
           <1>11, <1>12, <1>13, <1>14, <1>15, <1>16, <1>17, <1>18 DEF Worker

-----------------------------------------------------------------------------
(* Nobody who has left comes back. *)
LEMMA LeftStays ==
  ASSUME TypeOK, [Next]_vars, AllStay' PROVE AllStay
<1> SUFFICES ASSUME NEW s \in Requests, stream[s] = "left" PROVE stream'[s] = "left"
  BY DEF AllStay
<1>1. ASSUME NEW r \in Requests, Client(r) \/ Generator(r) PROVE stream'[s] = "left"
  BY <1>1 DEF Client, Generator, Resume, Disconnect, Open, Refuse, Relay, KeepAlive, Close, Release, TypeOK
<1>2. ASSUME NEW r \in Requests, Worker(r) PROVE stream'[s] = "left"
  BY <1>2, WorkerLeavesGate
<1> QED BY <1>1, <1>2 DEF Next, vars

(* A worker that has not put the End puts none but with its last step. *)
LEMMA PutsEnd ==
  ASSUME TypeOK, NEW r \in Requests, NEW from, NEW to, NEW events \in Seq(EventType),
         \A i \in 1..Len(events) : events[i] # End, from # "ended", EndInv, Work(r, from, events, to)
  PROVE  EndInv'
<1>1. pc[r] # "ended" /\ UNCHANGED <<stream, sent>>
  BY DEF Work, serverVars
<1>2. NoEnd(r)'
  BY <1>1, PutNoEnd DEF Work, EndInv, NoEnd
<1>3. \A s \in Requests \ {r} : queue'[s] = queue[s] /\ pc'[s] = pc[s]
  BY DEF Work, Put, TypeOK
<1> QED BY <1>1, <1>2, <1>3 DEF EndInv, NoEnd

LEMMA WorkerKeepsEnd == ASSUME TypeOK, EndInv, NEW r \in Requests, Worker(r) PROVE EndInv'
<1>1. CASE Finally(r)
  <2>1. /\ pc[r] = "finally" /\ pc'[r] = "ended" /\ queue[r] \in Seq(EventType)
        /\ queue'[r] = queue[r] \o <<End>> /\ UNCHANGED <<stream, sent>>
    BY <1>1 DEF Finally, Work, Put, serverVars, TypeOK
  <2>2. \A i \in 1..Len(queue'[r]) : queue'[r][i] = End => i = Len(queue'[r])
    BY <2>1 DEF EndInv
  <2>3. \A s \in Requests \ {r} : queue'[s] = queue[s] /\ pc'[s] = pc[s]
    BY <1>1 DEF Finally, Work, Put, TypeOK
  <2> QED BY <2>1, <2>2, <2>3 DEF EndInv
<1>2. CASE ~Finally(r)
  <2> USE PlainType, NotEnd, PutsEnd
  <2>0. <<>> \in Seq(EventType)
    OBVIOUS
  <2>1. CASE BeginWork(r) \/ ResetResult(r) \/ StoreResult(r) \/ NoResult(r) \/ SeeResult(r) \/ ReadSql(r)
    BY <2>0, <2>1 DEF BeginWork, ResetResult, StoreResult, NoResult, SeeResult, ReadSql
  <2>2. CASE CannotBegin(r) \/ StartArm(r) \/ AllArmsDone(r)
    BY <2>2 DEF CannotBegin, StartArm, AllArmsDone
  <2>3. CASE RunBaseline(r) \/ ArmRaises(r)
    BY <2>3 DEF RunBaseline, ArmRaises
  <2>4. CASE ResetSql(r) \/ StoreSql(r) \/ ReadRows(r)
    BY <2>4 DEF ResetSql, StoreSql, ReadRows
  <2>5. CASE ReadNothing(r) \/ ReportRaises(r)
    BY <2>5 DEF ReadNothing, ReportRaises
  <2>6. CASE Report(r)
    <3>1. Event("arm_done", got[r].sql, got[r].rows) \in EventType
      BY DEF TypeOK, Event, EventType
    <3>2. <<Event("arm_done", got[r].sql, got[r].rows)>> \in Seq(EventType)
      BY <3>1
    <3> QED BY <2>6, <3>2 DEF Report
  <2> QED BY <1>2, <2>1, <2>2, <2>3, <2>4, <2>5, <2>6 DEF Worker
<1> QED BY <1>1, <1>2

(* What is taken from a queue is its first event; an End that is last and first
   is the only one. *)
LEMMA TailPlaces ==
  ASSUME NEW q \in Seq(EventType), q # <<>>
  PROVE  /\ Len(q) \in Nat \ {0} /\ Head(q) = q[1] /\ Len(Tail(q)) = Len(q) - 1
         /\ \A i \in 1..Len(Tail(q)) : i + 1 \in 1..Len(q) /\ Tail(q)[i] = q[i + 1]
  BY SMTT(30)

LEMMA OnlyEnd ==
  ASSUME NEW q \in Seq(EventType), q # <<>>, Head(q) = End,
         \A i \in 1..Len(q) : q[i] = End => i = Len(q)
  PROVE  q = <<End>> /\ Tail(q) = <<>>
<1>1. Len(q) = 1 /\ q[1] = End
  <2>1. Len(q) \in Nat \ {0} /\ q[1] = End
    BY TailPlaces
  <2>2. 1 \in 1..Len(q)
    BY <2>1
  <2>3. 1 = Len(q)
    BY <2>1, <2>2, Zenon
  <2> QED BY <2>1, <2>3
<1>2. End \in EventType /\ <<End>> \in Seq(EventType) /\ Len(<<End>>) = 1 /\ <<End>>[1] = End
  BY PlainType DEF End
<1>3. q = <<End>>
  <2>1. Len(q) = Len(<<End>>) /\ \A i \in 1..Len(q) : q[i] = <<End>>[i]
    BY <1>1, <1>2
  <2> QED BY <1>2, <2>1, SeqEqual
<1> QED BY <1>3

LEMMA TakenKeepsEnd ==
  ASSUME TypeOK, EndInv, NEW r \in Requests, stream[r] # "new", stream'[r] # "new", queue[r] # <<>>,
         queue' = [queue EXCEPT ![r] = Tail(@)], pc' = pc,
         \A s \in Requests \ {r} : stream'[s] = stream[s] /\ sent'[s] = sent[s]
  PROVE  EndInv'
<1>1. queue[r] \in Seq(EventType) /\ queue'[r] = Tail(queue[r])
  BY DEF TypeOK
<1>2. ASSUME NEW i \in 1..Len(queue'[r])
      PROVE  i + 1 \in 1..Len(queue[r]) /\ queue'[r][i] = queue[r][i + 1] /\ Len(queue'[r]) = Len(queue[r]) - 1
  BY <1>1, <1>2, TailPlaces
<1>3. \A s \in Requests \ {r} : queue'[s] = queue[s]
  BY DEF TypeOK
<1> QED BY <1>1, <1>2, <1>3 DEF EndInv

LEMMA EndStep == ASSUME TypeOK, WorkerInv, EndInv, [Next]_vars PROVE EndInv'
<1>1. ASSUME NEW r \in Requests, Client(r) \/ Open(r) \/ Refuse(r) \/ KeepAlive(r) PROVE EndInv'
  <2>1. CASE Resume(r) \/ KeepAlive(r)
    BY <2>1 DEF Resume, KeepAlive, workerVars, EndInv, TypeOK
  <2>2. CASE Disconnect(r)
    BY <2>2 DEF Disconnect, Release, workerVars, EndInv, TypeOK
  <2>3. CASE Open(r)
    <3>1. queue[r] = <<>> /\ pc'[r] = "begin" /\ UNCHANGED <<queue, sent>>
      BY <2>3 DEF Open, WorkerInv, TypeOK
    <3>2. \A s \in Requests : s # r => pc'[s] = pc[s]
      BY <2>3 DEF Open, TypeOK
    <3>3. \A s \in Requests : stream'[s] = "new" => stream[s] = "new"
      BY <2>3 DEF Open, TypeOK
    <3> QED BY <3>1, <3>2, <3>3 DEF EndInv
  <2>4. CASE Refuse(r)
    BY <2>4 DEF Refuse, workerVars, EndInv, TypeOK
  <2> QED BY <1>1, <2>1, <2>2, <2>3, <2>4 DEF Client
<1>2. ASSUME NEW r \in Requests, Relay(r) PROVE EndInv'
  <2>1. /\ stream[r] # "new" /\ stream'[r] # "new" /\ queue[r] # <<>> /\ pc' = pc
        /\ queue' = [queue EXCEPT ![r] = Tail(@)]
        /\ \A s \in Requests \ {r} : stream'[s] = stream[s] /\ sent'[s] = sent[s]
    BY <1>2 DEF Relay, workerVars, TypeOK
  <2> QED BY <2>1, TakenKeepsEnd
<1>3. ASSUME NEW r \in Requests, Close(r) PROVE EndInv'
  <2>1. /\ stream[r] # "new" /\ stream'[r] # "new" /\ queue[r] # <<>> /\ pc' = pc
        /\ queue' = [queue EXCEPT ![r] = Tail(@)]
        /\ \A s \in Requests \ {r} : stream'[s] = stream[s] /\ sent'[s] = sent[s]
    BY <1>3 DEF Close, Release, workerVars, TypeOK
  <2> QED BY <2>1, TakenKeepsEnd
<1>4. ASSUME NEW r \in Requests, Worker(r) PROVE EndInv'
  BY <1>4, WorkerKeepsEnd
<1>5. CASE UNCHANGED vars
  BY <1>5 DEF vars, EndInv
<1> QED BY <1>1, <1>2, <1>3, <1>4, <1>5 DEF Next, Generator

-----------------------------------------------------------------------------
LEMMA RefusedIsTold ==
  ASSUME TypeOK, WorkerInv, EndInv, NEW r \in Requests, Refuse(r),
         Told(r, arms[r], Events(r)), arm[r] = Started(Events(r), Len(Events(r)))
  PROVE  (Told(r, arms[r], Events(r)) /\ arm[r] = Started(Events(r), Len(Events(r))))'
<1> DEFINE ev == Plain("fatal")
<1>1. ev \in EventType /\ ev.type = "fatal" /\ <<ev>> \in Seq(EventType)
  BY PlainType
<1>2. /\ sent[r] = <<>> /\ queue[r] = <<>> /\ sent'[r] = <<ev>> /\ queue'[r] = <<>>
      /\ arm'[r] = arm[r] /\ arms' = arms
  BY DEF Refuse, EndInv, WorkerInv, TypeOK, workerVars
<1> HIDE DEF ev
<1>3. Events(r) = <<>> /\ Events(r)' = <<ev>> /\ <<>> \o <<ev>> = <<ev>> /\ <<>> \in Seq(EventType)
  BY <1>1, <1>2 DEF Events
<1>4. Told(r, arms[r], <<>> \o <<ev>>) /\ Started(<<>> \o <<ev>>, Len(<<>> \o <<ev>>)) = Started(<<>>, Len(<<>>)) + 0
  BY <1>1, <1>3, ToldMore
<1>5. arm[r] + 0 = arm[r]
  BY DEF TypeOK
<1> QED BY <1>2, <1>3, <1>4, <1>5

LEMMA ClosedIsTold ==
  ASSUME TypeOK, EndInv, NEW r \in Requests, Close(r),
         Told(r, arms[r], Events(r)), arm[r] = Started(Events(r), Len(Events(r)))
  PROVE  (Told(r, arms[r], Events(r)) /\ arm[r] = Started(Events(r), Len(Events(r))))'
<1>1. /\ queue[r] \in Seq(EventType) /\ queue[r] # <<>> /\ Head(queue[r]) = End
      /\ queue'[r] = Tail(queue[r]) /\ sent' = sent /\ arm' = arm /\ sent[r] \in Seq(EventType)
      /\ arms' = arms
  BY DEF Close, TypeOK, workerVars
<1>2. \A i \in 1..Len(queue[r]) : queue[r][i] = End => i = Len(queue[r])
  BY DEF EndInv
<1>3. queue[r] = <<End>> /\ Tail(queue[r]) = <<>>
  BY <1>1, <1>2, OnlyEnd
<1>4. Events(r) = sent[r] \o <<End>> /\ Events(r)' = sent[r]
  BY <1>1, <1>3 DEF Events
<1>5. End \in EventType /\ End.type = "end"
  BY PlainType DEF End
<1>6. /\ Told(r, arms[r], sent[r])
      /\ Started(sent[r], Len(sent[r])) = Started(Events(r), Len(Events(r)))
  <2>1. Told(r, arms[r], sent[r] \o <<End>>)
    BY <1>4
  <2> QED BY <1>1, <1>4, <1>5, <2>1, ToldLess
<1>7. Told(r, arms'[r], Events(r)') /\ arm'[r] = Started(Events(r)', Len(Events(r)'))
  BY <1>1, <1>4, <1>6
<1> QED BY <1>7

LEMMA RelayedIsTold ==
  ASSUME TypeOK, NEW r \in Requests, Relay(r) PROVE Events(r)' = Events(r) /\ arm' = arm /\ arms' = arms
<1>1. /\ queue[r] \in Seq(EventType) /\ queue[r] # <<>> /\ sent[r] \in Seq(EventType)
      /\ sent'[r] = Append(sent[r], Head(queue[r])) /\ queue'[r] = Tail(queue[r]) /\ arm' = arm
      /\ arms' = arms
  BY DEF Relay, TypeOK, workerVars
<1> QED BY <1>1, RelayedEvents DEF Events

LEMMA AnswerStep ==
  ASSUME TypeOK, WorkerInv, OneQuestionAtATime, EndInv, AnswerInv, [Next]_vars PROVE AnswerInv'
<1> SUFFICES ASSUME AllStay', NEW s \in Requests
             PROVE  (Told(s, arms[s], Events(s)) /\ arm[s] = Started(Events(s), Len(Events(s))) /\ OwnBox(s))'
  BY DEF AnswerInv
<1>1. AllStay /\ Told(s, arms[s], Events(s)) /\ arm[s] = Started(Events(s), Len(Events(s))) /\ OwnBox(s)
  BY LeftStays DEF AnswerInv
<1>2. ASSUME UNCHANGED <<sent, queue, pc, arms, arm, got, count, box>>
      PROVE  (Told(s, arms[s], Events(s)) /\ arm[s] = Started(Events(s), Len(Events(s))) /\ OwnBox(s))'
  BY <1>1, <1>2 DEF Events, OwnBox, Mine
<1>3. ASSUME NEW r \in Requests, Resume(r) \/ KeepAlive(r) \/ Disconnect(r)
      PROVE  UNCHANGED <<sent, queue, pc, arms, arm, got, count, box>>
  BY <1>3 DEF Resume, KeepAlive, Disconnect, workerVars
<1>4. ASSUME NEW r \in Requests, Open(r)
      PROVE  (Told(s, arms[s], Events(s)) /\ arm[s] = Started(Events(s), Len(Events(s))) /\ OwnBox(s))'
  <2>1. UNCHANGED <<sent, queue, arms, arm, got, count, box>> /\ pc'[s] \in {pc[s], "begin"}
    BY <1>4 DEF Open, TypeOK
  <2> QED BY <1>1, <2>1 DEF Events, OwnBox, Mine
<1>5. ASSUME NEW r \in Requests, Refuse(r) \/ Relay(r) \/ Close(r)
      PROVE  (Told(s, arms[s], Events(s)) /\ arm[s] = Started(Events(s), Len(Events(s))) /\ OwnBox(s))'
  <2>1. UNCHANGED <<pc, arms, arm, got, count, box>>
    BY <1>5 DEF Refuse, Relay, Close, workerVars
  <2>2. OwnBox(s)'
    BY <1>1, <2>1 DEF OwnBox, Mine
  <2>3. CASE s = r
    BY <1>1, <1>5, <2>2, <2>3, RefusedIsTold, RelayedIsTold, ClosedIsTold
  <2>4. CASE s # r
    <3>1. sent'[s] = sent[s] /\ queue'[s] = queue[s]
      BY <1>5, <2>4 DEF Refuse, Relay, Close, TypeOK
    <3> QED BY <1>1, <2>1, <2>2, <3>1 DEF Events
  <2> QED BY <2>3, <2>4
<1>6. ASSUME NEW r \in Requests, Worker(r)
      PROVE  (Told(s, arms[s], Events(s)) /\ arm[s] = Started(Events(s), Len(Events(s))) /\ OwnBox(s))'
  <2>1. CASE s = r
    BY <1>1, <1>6, <2>1, WorkerTellsOwn
  <2>2. CASE s # r
    <3>1. Running(r)
      BY <1>6 DEF Worker, BeginWork, CannotBegin, StartArm, AllArmsDone, RunBaseline, ArmRaises, ResetResult,
         ResetSql, StoreResult, StoreSql, NoResult, SeeResult, ReadSql, ReadRows, ReadNothing, Report,
         ReportRaises, Finally, Work, Running
    <3>2. ~Running(s)
      BY <1>1, <2>2, <3>1 DEF OneQuestionAtATime, AllStay
    <3>3. UNCHANGED <<sent, arms>> /\ queue'[s] = queue[s] /\ pc'[s] = pc[s] /\ arm'[s] = arm[s]
      BY <1>6, <2>2 DEF Worker, BeginWork, CannotBegin, StartArm, AllArmsDone, RunBaseline, ArmRaises, ResetResult,
         ResetSql, StoreResult, StoreSql, NoResult, SeeResult, ReadSql, ReadRows, ReadNothing, Report,
         ReportRaises, Finally, Work, Put, serverVars, TypeOK
    <3> QED BY <1>1, <3>2, <3>3 DEF Events, OwnBox, Running
  <2> QED BY <2>1, <2>2
<1>7. CASE UNCHANGED vars
  BY <1>2, <1>7 DEF vars
<1> QED BY <1>2, <1>3, <1>4, <1>5, <1>6, <1>7 DEF Next, Client, Generator

(* While every client stays, what each is told of an arm is the SQL and the
   rows of one query of that arm of its own request, for any number of requests,
   arms and queries, though all of it passes through one toolbox. *)
THEOREM OwnAnswers == Spec => []OwnAnswerWhileAllStay
<1>1. Init => EndInv /\ AnswerInv
  <2> SUFFICES ASSUME Init PROVE EndInv /\ AnswerInv
    OBVIOUS
  <2>1. ASSUME NEW r \in Requests
        PROVE  /\ queue[r] = <<>> /\ sent[r] = <<>> /\ pc[r] = "off" /\ arm[r] = 0
    BY DEF Init
  <2>2. ASSUME NEW r \in Requests PROVE Events(r) = <<>>
    BY <2>1 DEF Events
  <2>3. ASSUME NEW r \in Requests PROVE Told(r, arms[r], Events(r)) /\ arm[r] = Started(Events(r), Len(Events(r)))
    BY <2>1, <2>2, StartedNone DEF Told
  <2>4. EndInv
    BY <2>1 DEF EndInv
  <2> QED BY <2>1, <2>3, <2>4 DEF AnswerInv, OwnBox
<1>2. /\ TypeOK /\ WorkerInv /\ [Next]_vars => WorkerInv'
      /\ Init => WorkerInv
  BY WorkerInvStep DEF Init, WorkerInv, Running
<1>3. TypeOK /\ WorkerInv /\ OneQuestionAtATime /\ EndInv /\ AnswerInv /\ [Next]_vars
        => (EndInv /\ AnswerInv)'
  BY EndStep, AnswerStep
<1>4. AnswerInv => OwnAnswerWhileAllStay
  BY DEF AnswerInv, OwnAnswerWhileAllStay, OwnAnswer, AllStay, Told, Started
<1> QED BY <1>1, <1>2, <1>3, <1>4, TypeCorrect, OneWorkerAtATime, PTL DEF Spec

-----------------------------------------------------------------------------
(* The grammar of a stream. *)

Closing == {"arm_done", "arm_error"}
Closed(e) == CountTo(e, Len(e), Closing)
InArm == {"baseline", "harness", "reset", "loop", "store", "readSql", "readRows", "report"}

(* The events of a request for k arms are in order. *)
Grammar(e, k) ==
  \A i \in 1..Len(e) :
    /\ e[i].type \in {"arm_start", "done"} => i = 1 \/ e[i - 1].type \in Closing
    /\ e[i].type \in {"progress", "arm_done", "arm_error"} =>
         i > 1 /\ e[i - 1].type \in {"arm_start", "progress"}
    /\ e[i].type = "done" => CountTo(e, i, Closing) = k
    /\ e[i].type \in Terminal => \A j \in (i + 1)..Len(e) : e[j] = End
    /\ e[i] = End => i = Len(e) /\ i > 1 /\ e[i - 1].type \in Terminal

Over(e) == e # <<>> /\ e[Len(e)].type \in Terminal

(* Nothing that ends the stream has been said. *)
Quiet(e) == \A i \in 1..Len(e) : e[i].type \notin Terminal /\ e[i] # End

(* What a worker has said by the time it is somewhere in its n-th arm. *)
Fits(place, n, e) ==
  /\ place \in {"off", "begin"} => n = 0
  /\ place = "begin" => e = <<>>
  /\ place = "arms" => /\ Quiet(e) /\ Closed(e) = n
                       /\ e = <<>> \/ e[Len(e)].type \in Closing
  /\ place \in InArm => /\ Quiet(e) /\ Closed(e) + 1 = n
                        /\ e # <<>> /\ e[Len(e)].type \in {"arm_start", "progress"}
  /\ place = "finally" => Over(e) /\ \A i \in 1..Len(e) : e[i] # End

Ordered(r) ==
  /\ Grammar(Events(r), Len(arms[r]))
  /\ Fits(pc[r], arm[r], Events(r))
  /\ stream[r] = "closed" => Over(Events(r))

GrammarInv == \A r \in Requests : Ordered(r)

(* An event a worker may put from where it stands, and where it goes on. *)
Says(from, n, k, ev, to, m) ==
  \/ from = "begin" /\ ev.type = "fatal" /\ to = "finally" /\ m = n
  \/ from = "arms" /\ ev.type = "arm_start" /\ to \in InArm /\ m = n + 1
  \/ from = "arms" /\ ev.type = "done" /\ to = "finally" /\ n = k /\ m = n
  \/ from \in InArm /\ ev.type = "progress" /\ to \in InArm /\ m = n
  \/ from \in InArm /\ ev.type \in Closing /\ to = "arms" /\ m = n
  \/ from \in InArm /\ ev.type = "fatal" /\ to = "finally" /\ m = n
  \/ from = "finally" /\ ev = End /\ to = "ended" /\ m = n

(* One more event, and one less. *)
LEMMA OneMore ==
  ASSUME NEW e \in Seq(EventType), NEW ev \in EventType
  PROVE  LET f == e \o <<ev>>
         IN  /\ Len(e) \in Nat /\ Len(f) = Len(e) + 1 /\ f[Len(f)] = ev /\ f # <<>> /\ f \in Seq(EventType)
             /\ \A i \in 1..Len(e) : f[i] = e[i] /\ i \in 1..Len(f) /\ i # Len(f)
             /\ \A i \in 1..Len(f) : i \in 1..Len(e) \/ i = Len(f)
             /\ \A i \in 1..Len(e) : CountTo(f, i, Closing) = CountTo(e, i, Closing)
             /\ Closed(e) \in Nat
             /\ Closed(f) = Closed(e) + (IF ev.type \in Closing THEN 1 ELSE 0)
<1> DEFINE f == e \o <<ev>>
<1>1. /\ Len(e) \in Nat /\ Len(f) = Len(e) + 1 /\ f[Len(f)] = ev /\ f # <<>> /\ f \in Seq(EventType)
      /\ \A i \in 1..Len(e) : f[i] = e[i]
  OBVIOUS
<1> HIDE DEF f
<1>2. \A n \in 0..Len(e) : CountTo(f, n, Closing) = CountTo(e, n, Closing)
  <2> SUFFICES ASSUME NEW n \in 0..Len(e) PROVE CountTo(f, n, Closing) = CountTo(e, n, Closing)
    OBVIOUS
  <2>1. n \in Nat /\ SameTo(f, e, n)
    BY <1>1 DEF SameTo
  <2> QED BY <2>1, CountSame
<1>3. Closed(e) \in Nat
  BY <1>1, CountFinite DEF Closed
<1>4. CountTo(f, Len(e) + 1, Closing) = CountTo(f, Len(e), Closing) + (IF f[Len(e) + 1].type \in Closing THEN 1 ELSE 0)
  BY <1>1, CountNext
<1>5. Closed(f) = Closed(e) + (IF ev.type \in Closing THEN 1 ELSE 0)
  BY <1>1, <1>2, <1>4 DEF Closed
<1>6. /\ \A i \in 1..Len(e) : f[i] = e[i] /\ i \in 1..Len(f) /\ i # Len(f)
      /\ \A i \in 1..Len(f) : i \in 1..Len(e) \/ i = Len(f)
      /\ \A i \in 1..Len(e) : CountTo(f, i, Closing) = CountTo(e, i, Closing)
  BY <1>1, <1>2
<1> QED BY <1>1, <1>3, <1>5, <1>6 DEF f

LEMMA EndIs == End \in EventType /\ End.type = "end"
BY PlainType DEF End

(* Whatever a worker says next keeps the grammar and fits where it goes. *)
LEMMA SaysInOrder ==
  ASSUME NEW e \in Seq(EventType), NEW ev \in EventType, NEW k, NEW n \in Nat, NEW m,
         NEW from, NEW to, Grammar(e, k), Fits(from, n, e), Says(from, n, k, ev, to, m)
  PROVE  Grammar(e \o <<ev>>, k) /\ Fits(to, m, e \o <<ev>>)
<1> DEFINE f == e \o <<ev>>
           last == e[Len(e)].type
<1>0. /\ Len(e) \in Nat /\ Len(f) = Len(e) + 1 /\ f[Len(f)] = ev /\ f # <<>>
      /\ \A i \in 1..Len(e) : f[i] = e[i] /\ i \in 1..Len(f) /\ i # Len(f)
      /\ \A i \in 1..Len(f) : i \in 1..Len(e) \/ i = Len(f)
      /\ \A i \in 1..Len(e) : CountTo(f, i, Closing) = CountTo(e, i, Closing)
      /\ Closed(e) \in Nat
      /\ Closed(f) = Closed(e) + (IF ev.type \in Closing THEN 1 ELSE 0)
  BY OneMore
<1> HIDE DEF f
<1>1. (e = <<>> => Len(e) = 0) /\ (e # <<>> => Len(e) > 0 /\ Len(e) \in 1..Len(e))
  BY <1>0
<1>2. /\ ev.type \in {"arm_start", "done"} => e = <<>> \/ last \in Closing
      /\ ev.type \in {"progress", "arm_done", "arm_error"} => e # <<>> /\ last \in {"arm_start", "progress"}
      /\ ev.type = "done" => Closed(f) = k
      /\ ev = End => e # <<>> /\ last \in Terminal
      /\ ev = End \/ Quiet(e)
      /\ \A i \in 1..Len(e) : e[i] # End
  BY <1>0, EndIs DEF Says, Fits, Over, Quiet, Closing, Terminal, InArm
<1>3. ASSUME NEW i \in 1..Len(e)
      PROVE  /\ f[i].type \in {"arm_start", "done"} => i = 1 \/ f[i - 1].type \in Closing
             /\ f[i].type \in {"progress", "arm_done", "arm_error"} =>
                  i > 1 /\ f[i - 1].type \in {"arm_start", "progress"}
             /\ f[i].type = "done" => CountTo(f, i, Closing) = k
             /\ f[i].type \in Terminal => \A j \in (i + 1)..Len(f) : f[j] = End
             /\ f[i] # End
  <2>1. f[i] = e[i] /\ (i # 1 => f[i - 1] = e[i - 1]) /\ CountTo(f, i, Closing) = CountTo(e, i, Closing)
    BY <1>0
  <2>2. f[i].type \in Terminal => \A j \in (i + 1)..Len(f) : f[j] = End
    <3> SUFFICES ASSUME e[i].type \in Terminal, NEW j \in (i + 1)..Len(f) PROVE f[j] = End
      BY <2>1
    <3>1. ev = End
      BY <1>2 DEF Quiet
    <3>2. CASE j = Len(f)
      BY <1>0, <3>1, <3>2
    <3>3. CASE j # Len(f)
      <4>1. j \in (i + 1)..Len(e) /\ j \in 1..Len(e)
        BY <1>0, <3>3
      <4> QED BY <1>0, <4>1 DEF Grammar
    <3> QED BY <3>2, <3>3
  <2>3. f[i] # End
    BY <1>2, <2>1
  <2> QED BY <2>1, <2>2, <2>3 DEF Grammar
<1>4. /\ ev.type \in {"arm_start", "done"} => Len(f) = 1 \/ f[Len(f) - 1].type \in Closing
      /\ ev.type \in {"progress", "arm_done", "arm_error"} =>
           Len(f) > 1 /\ f[Len(f) - 1].type \in {"arm_start", "progress"}
      /\ ev.type = "done" => CountTo(f, Len(f), Closing) = k
      /\ ev = End => Len(f) > 1 /\ f[Len(f) - 1].type \in Terminal
  <2>1. Len(f) - 1 = Len(e) /\ (e # <<>> => f[Len(f) - 1] = e[Len(e)])
    BY <1>0, <1>1
  <2> QED BY <1>0, <1>1, <1>2, <2>1 DEF Closed
<1>5. Grammar(f, k)
  <2> SUFFICES ASSUME NEW i \in 1..Len(f)
               PROVE  /\ f[i].type \in {"arm_start", "done"} => i = 1 \/ f[i - 1].type \in Closing
                      /\ f[i].type \in {"progress", "arm_done", "arm_error"} =>
                           i > 1 /\ f[i - 1].type \in {"arm_start", "progress"}
                      /\ f[i].type = "done" => CountTo(f, i, Closing) = k
                      /\ f[i].type \in Terminal => \A j \in (i + 1)..Len(f) : f[j] = End
                      /\ f[i] = End => i = Len(f) /\ i > 1 /\ f[i - 1].type \in Terminal
    BY DEF Grammar
  <2>1. CASE i \in 1..Len(e)
    BY <1>3, <2>1
  <2>2. CASE i = Len(f)
    <3>1. (i + 1)..Len(f) = {}
      BY <1>0, <2>2
    <3> QED BY <1>0, <1>4, <2>2, <3>1
  <2> QED BY <1>0, <2>1, <2>2
<1>6. Fits(to, m, f)
  <2>1. ev.type \in Terminal \/ ev = End \/ (Quiet(e) => Quiet(f))
    BY <1>0 DEF Quiet
  <2>2. ev # End => \A i \in 1..Len(f) : f[i] # End
    BY <1>0, <1>2
  <2>3. CASE from = "arms" /\ ev.type = "arm_start" /\ to \in InArm /\ m = n + 1
    BY <1>0, <2>1, <2>3, EndIs DEF Fits, InArm, Closing, Terminal
  <2>4. CASE from \in InArm /\ ev.type = "progress" /\ to \in InArm /\ m = n
    BY <1>0, <2>1, <2>4, EndIs DEF Fits, InArm, Closing, Terminal
  <2>5. CASE from \in InArm /\ ev.type \in Closing /\ to = "arms" /\ m = n
    BY <1>0, <2>1, <2>5, EndIs DEF Fits, InArm, Closing, Terminal
  <2>6. CASE ev.type \in Terminal /\ to = "finally"
    BY <1>0, <2>2, <2>6, EndIs DEF Fits, InArm, Over, Terminal
  <2>7. CASE to = "ended"
    BY <2>7 DEF Fits, InArm
  <2> QED BY <2>3, <2>4, <2>5, <2>6, <2>7 DEF Says, Terminal
<1> QED BY <1>5, <1>6 DEF f

(* A worker's events go to the end of its own stream, which is still open. *)
LEMMA SpeakerIsOrdered ==
  ASSUME TypeOK, WorkerInv, NEW r \in Requests, Ordered(r), NEW from \in Places \ {"off", "ended"},
         NEW to, NEW ev \in EventType, Work(r, from, <<ev>>, to),
         Says(from, arm[r], Len(arms[r]), ev, to, arm'[r])
  PROVE  Ordered(r)'
<1>1. Events(r) \in Seq(EventType) /\ <<ev>> \in Seq(EventType) /\ arm[r] \in Nat
  BY EventsType DEF TypeOK
<1>2. Events(r)' = Events(r) \o <<ev>> /\ pc[r] = from /\ pc'[r] = to /\ arms' = arms /\ stream' = stream
  BY <1>1, WorkEvents DEF Work, TypeOK, serverVars
<1>3. Grammar(Events(r) \o <<ev>>, Len(arms[r])) /\ Fits(to, arm'[r], Events(r) \o <<ev>>)
  BY <1>1, <1>2, SaysInOrder DEF Ordered
<1>4. stream[r] # "closed"
  BY <1>2 DEF WorkerInv, Running, Held
<1> QED BY <1>2, <1>3, <1>4 DEF Ordered

LEMMA SilentIsOrdered ==
  ASSUME TypeOK, WorkerInv, NEW r \in Requests, Ordered(r), NEW from, NEW to,
         (from \in InArm /\ to \in InArm) \/ (from = "begin" /\ to = "arms"),
         Work(r, from, <<>>, to), arm' = arm
  PROVE  Ordered(r)'
<1>1. Events(r) \in Seq(EventType) /\ <<>> \in Seq(EventType)
  BY EventsType
<1>2. Events(r)' = Events(r) /\ pc[r] = from /\ pc'[r] = to /\ arms' = arms /\ stream' = stream
  <2>1. Events(r)' = Events(r)
    BY <1>1, WorkEvents, ConcatEmptySeq
  <2> QED BY <2>1 DEF Work, TypeOK, serverVars
<1>3. Fits(to, arm[r], Events(r))
  <2>1. CASE from \in InArm /\ to \in InArm
    BY <1>2, <2>1 DEF Ordered, Fits, InArm
  <2>2. CASE from = "begin" /\ to = "arms"
    <3>1. arm[r] = 0 /\ Events(r) = <<>> /\ Len(<<>>) = 0
      BY <1>2, <2>2 DEF Ordered, Fits
    <3>2. Closed(<<>>) = 0 /\ Quiet(<<>>)
      BY <3>1, CountNone DEF Closed, Quiet
    <3> QED BY <2>2, <3>1, <3>2 DEF Fits, InArm
  <2> QED BY <2>1, <2>2
<1> QED BY <1>2, <1>3 DEF Ordered

LEMMA PlainIsOrdered ==
  ASSUME TypeOK, WorkerInv, NEW r \in Requests, Ordered(r), NEW from \in Places \ {"off", "ended"},
         NEW to, NEW type \in {"arm_start", "progress", "arm_error", "done", "fatal"},
         Work(r, from, <<Plain(type)>>, to),
         Says(from, arm[r], Len(arms[r]), Plain(type), to, arm'[r])
  PROVE  Ordered(r)'
  BY PlainType, SpeakerIsOrdered

LEMMA WorkerIsOrdered ==
  ASSUME TypeOK, WorkerInv, NEW r \in Requests, Ordered(r), Worker(r)
  PROVE  Ordered(r)'
<1> USE PlainIsOrdered, SilentIsOrdered, PlainType DEF Places, Says, InArm, Closing
<1>0. arm[r] \in Nat
  BY DEF TypeOK
<1>1. CASE BeginWork(r)
  BY <1>1 DEF BeginWork
<1>2. CASE CannotBegin(r)
  BY <1>2 DEF CannotBegin
<1>3. CASE StartArm(r)
  <2>1. arms[r][arm[r] + 1] \in {"baseline", "harness"}
    BY <1>0, <1>3, ArmsType DEF StartArm
  <2>2. arm'[r] = arm[r] + 1 /\ Work(r, "arms", <<Plain("arm_start")>>, arms[r][arm[r] + 1])
    BY <1>3 DEF StartArm, TypeOK
  <2> QED BY <2>1, <2>2
<1>4. CASE AllArmsDone(r)
  BY <1>4 DEF AllArmsDone
<1>5. CASE RunBaseline(r)
  BY <1>5 DEF RunBaseline
<1>6. CASE ArmRaises(r)
  BY <1>6 DEF ArmRaises
<1>7. CASE ResetResult(r)
  BY <1>7 DEF ResetResult
<1>8. CASE ResetSql(r)
  BY <1>8 DEF ResetSql
<1>9. CASE StoreResult(r)
  BY <1>9 DEF StoreResult
<1>10. CASE StoreSql(r)
  BY <1>10 DEF StoreSql
<1>11. CASE NoResult(r)
  BY <1>11 DEF NoResult
<1>12. CASE SeeResult(r)
  BY <1>12 DEF SeeResult
<1>13. CASE ReadSql(r)
  BY <1>13 DEF ReadSql
<1>14. CASE ReadRows(r)
  BY <1>14 DEF ReadRows
<1>15. CASE ReadNothing(r)
  BY <1>15 DEF ReadNothing
<1>16. CASE Report(r)
  <2> DEFINE ev == Event("arm_done", got[r].sql, got[r].rows)
  <2>1. ev \in EventType /\ ev.type = "arm_done"
    BY DEF TypeOK, Event, EventType
  <2>2. Work(r, "report", <<ev>>, "arms") /\ arm' = arm
    BY <1>16 DEF Report
  <2> HIDE DEF ev
  <2> QED BY <2>1, <2>2, SpeakerIsOrdered
<1>17. CASE ReportRaises(r)
  BY <1>17 DEF ReportRaises
<1>18. CASE Finally(r)
  BY <1>18, EndIs, SpeakerIsOrdered DEF Finally
<1> QED BY <1>1, <1>2, <1>3, <1>4, <1>5, <1>6, <1>7, <1>8, <1>9, <1>10,
           <1>11, <1>12, <1>13, <1>14, <1>15, <1>16, <1>17, <1>18 DEF Worker

(* The End that is taken off ends the stream after what was said last. *)
LEMMA ClosedIsOrdered ==
  ASSUME TypeOK, EndInv, NEW r \in Requests, Ordered(r), Close(r)
  PROVE  Ordered(r)'
<1>1. /\ queue[r] \in Seq(EventType) /\ queue[r] # <<>> /\ Head(queue[r]) = End
      /\ queue'[r] = Tail(queue[r]) /\ sent' = sent /\ sent[r] \in Seq(EventType)
      /\ UNCHANGED <<arm, arms, pc>>
  BY DEF Close, TypeOK, workerVars
<1>2. \A i \in 1..Len(queue[r]) : queue[r][i] = End => i = Len(queue[r]) /\ pc[r] = "ended"
  BY DEF EndInv
<1>3. queue[r] = <<End>> /\ Tail(queue[r]) = <<>>
  BY <1>1, <1>2, OnlyEnd
<1>4. pc[r] = "ended"
  BY <1>2, <1>3
<1> DEFINE e == sent[r]
           f == e \o <<End>>
<1>5. Events(r) = f /\ Events(r)' = e /\ e \in Seq(EventType)
  BY <1>1, <1>3 DEF Events
<1>6. /\ Len(e) \in Nat /\ Len(f) = Len(e) + 1 /\ f[Len(f)] = End
      /\ \A i \in 1..Len(e) : f[i] = e[i] /\ i \in 1..Len(f) /\ i # Len(f)
      /\ \A i \in 1..Len(e) : CountTo(f, i, Closing) = CountTo(e, i, Closing)
  BY <1>5, EndIs, OneMore
<1>7. Grammar(f, Len(arms[r]))
  BY <1>5 DEF Ordered
<1> HIDE DEF e, f
<1>8. Over(e)
  <2>1. Len(f) \in 1..Len(f) /\ Len(f) - 1 = Len(e)
    BY <1>6
  <2>2. Len(f) > 1 /\ f[Len(f) - 1].type \in Terminal
    BY <1>6, <1>7, <2>1 DEF Grammar
  <2> QED BY <1>6, <2>1, <2>2 DEF Over
<1>9. Grammar(e, Len(arms[r]))
  <2> SUFFICES ASSUME NEW i \in 1..Len(e)
               PROVE  /\ e[i].type \in {"arm_start", "done"} => i = 1 \/ e[i - 1].type \in Closing
                      /\ e[i].type \in {"progress", "arm_done", "arm_error"} =>
                           i > 1 /\ e[i - 1].type \in {"arm_start", "progress"}
                      /\ e[i].type = "done" => CountTo(e, i, Closing) = Len(arms[r])
                      /\ e[i].type \in Terminal => \A j \in (i + 1)..Len(e) : e[j] = End
                      /\ e[i] # End
    BY DEF Grammar
  <2>1. i \in 1..Len(f) /\ i # Len(f) /\ f[i] = e[i] /\ (i # 1 => f[i - 1] = e[i - 1])
    BY <1>6
  <2>2. \A j \in (i + 1)..Len(e) : j \in (i + 1)..Len(f) /\ f[j] = e[j]
    BY <1>6
  <2> QED BY <1>6, <1>7, <2>1, <2>2 DEF Grammar
<1>10. Fits("ended", arm[r], e)
  BY DEF Fits, InArm
<1> QED BY <1>1, <1>4, <1>5, <1>8, <1>9, <1>10 DEF Ordered

LEMMA RefusedIsOrdered ==
  ASSUME TypeOK, WorkerInv, EndInv, NEW r \in Requests, Ordered(r), Refuse(r)
  PROVE  Ordered(r)'
<1> DEFINE ev == Plain("fatal")
<1>1. ev \in EventType /\ ev.type = "fatal" /\ <<ev>> \in Seq(EventType)
  BY PlainType
<1>2. /\ pc[r] = "off" /\ queue[r] = <<>> /\ sent'[r] = <<ev>> /\ queue'[r] = <<>>
      /\ UNCHANGED <<arm, arms, pc>>
  BY DEF Refuse, WorkerInv, TypeOK, workerVars
<1>3. Len(<<ev>>) = 1 /\ <<ev>>[1] = ev /\ <<ev>> # <<>> /\ 1..1 = {1} /\ 2..1 = {}
  OBVIOUS
<1> HIDE DEF ev
<1>4. Events(r)' = <<ev>>
  BY <1>1, <1>2 DEF Events
<1>5. ev # End
  BY <1>1, EndIs
<1>6. Over(<<ev>>)
  BY <1>1, <1>3 DEF Over, Terminal
<1>7. Grammar(<<ev>>, Len(arms[r]))
  BY <1>1, <1>3, <1>5 DEF Grammar
<1>8. Fits("off", arm[r], <<ev>>)
  BY <1>2 DEF Ordered, Fits, InArm
<1> QED BY <1>2, <1>4, <1>6, <1>7, <1>8 DEF Ordered

LEMMA GrammarStep ==
  ASSUME TypeOK, WorkerInv, EndInv, GrammarInv, [Next]_vars PROVE GrammarInv'
<1> SUFFICES ASSUME NEW s \in Requests PROVE Ordered(s)'
  BY DEF GrammarInv
<1>1. Ordered(s)
  BY DEF GrammarInv
<1>2. ASSUME sent'[s] = sent[s], queue'[s] = queue[s], pc'[s] = pc[s], arm'[s] = arm[s], arms' = arms,
             stream'[s] = "closed" => stream[s] = "closed"
      PROVE  Ordered(s)'
  BY <1>1, <1>2 DEF Ordered, Events
<1>3. ASSUME NEW r \in Requests, Resume(r) \/ KeepAlive(r) \/ Disconnect(r) PROVE Ordered(s)'
  <2>1. UNCHANGED <<sent, queue, pc, arm, arms>> /\ (stream'[s] = "closed" => stream[s] = "closed")
    BY <1>3 DEF Resume, KeepAlive, Disconnect, Release, workerVars, TypeOK
  <2> QED BY <1>2, <2>1
<1>4. ASSUME NEW r \in Requests, Open(r) PROVE Ordered(s)'
  <2>1. CASE s # r
    BY <1>2, <1>4, <2>1 DEF Open, TypeOK
  <2>2. CASE s = r
    <3>1. /\ pc[s] = "off" /\ queue[s] = <<>> /\ sent[s] = <<>> /\ pc'[s] = "begin" /\ stream'[s] = "waiting"
          /\ UNCHANGED <<queue, sent, arm, arms>>
      BY <1>4, <2>2 DEF Open, WorkerInv, EndInv, TypeOK
    <3>2. Events(s) = <<>> /\ Events(s)' = <<>>
      BY <3>1 DEF Events
    <3> QED BY <1>1, <3>1, <3>2 DEF Ordered, Fits, InArm
  <2> QED BY <2>1, <2>2
<1>5. ASSUME NEW r \in Requests, Refuse(r) \/ Close(r) PROVE Ordered(s)'
  <2>1. CASE s # r
    <3>1. sent'[s] = sent[s] /\ queue'[s] = queue[s] /\ stream'[s] = stream[s] /\ UNCHANGED <<pc, arm, arms>>
      BY <1>5, <2>1 DEF Refuse, Close, Release, workerVars, TypeOK
    <3> QED BY <1>2, <3>1
  <2>2. CASE s = r
    BY <1>1, <1>5, <2>2, RefusedIsOrdered, ClosedIsOrdered
  <2> QED BY <2>1, <2>2
<1>6. ASSUME NEW r \in Requests, Relay(r) PROVE Ordered(s)'
  <2>1. UNCHANGED <<pc, arm, arms>> /\ (stream'[s] = "closed" => stream[s] = "closed")
    BY <1>6 DEF Relay, workerVars, TypeOK
  <2>2. Events(s)' = Events(s)
    <3>1. CASE s = r
      BY <1>6, <3>1, RelayedIsTold
    <3>2. CASE s # r
      BY <1>6, <3>2 DEF Relay, Events, TypeOK
    <3> QED BY <3>1, <3>2
  <2> QED BY <1>1, <2>1, <2>2 DEF Ordered
<1>7. ASSUME NEW r \in Requests, Worker(r) PROVE Ordered(s)'
  <2>1. CASE s = r
    BY <1>1, <1>7, <2>1, WorkerIsOrdered
  <2>2. CASE s # r
    <3>1. /\ UNCHANGED <<sent, stream, arms>> /\ queue'[s] = queue[s] /\ pc'[s] = pc[s] /\ arm'[s] = arm[s]
      BY <1>7, <2>2 DEF Worker, BeginWork, CannotBegin, StartArm, AllArmsDone, RunBaseline, ArmRaises, ResetResult,
         ResetSql, StoreResult, StoreSql, NoResult, SeeResult, ReadSql, ReadRows, ReadNothing, Report,
         ReportRaises, Finally, Work, Put, serverVars, TypeOK
    <3> QED BY <1>2, <3>1
  <2> QED BY <2>1, <2>2
<1>8. CASE UNCHANGED vars
  BY <1>2, <1>8 DEF vars
<1> QED BY <1>3, <1>4, <1>5, <1>6, <1>7, <1>8 DEF Next, Client, Generator

(* Whatever fails, whoever is refused and whoever leaves, and for any lists of
   arms: each stream opens, reports and closes its arms one by one, says "done"
   after all of them or "fatal", and nothing after either; and one read to its
   end has said one of them. *)
THEOREM StreamsInOrder == Spec => []StreamGrammar
<1>1. Init => WorkerInv /\ EndInv /\ GrammarInv
  <2> SUFFICES ASSUME Init PROVE WorkerInv /\ EndInv /\ GrammarInv
    OBVIOUS
  <2>1. ASSUME NEW r \in Requests
        PROVE  /\ queue[r] = <<>> /\ sent[r] = <<>> /\ pc[r] = "off" /\ arm[r] = 0 /\ stream[r] = "new"
               /\ Events(r) = <<>> /\ Len(<<>>) = 0
    BY DEF Init, Events
  <2>2. WorkerInv /\ EndInv
    BY <2>1 DEF WorkerInv, Running, EndInv
  <2>3. GrammarInv
    BY <2>1 DEF GrammarInv, Ordered, Grammar, Fits, InArm
  <2> QED BY <2>2, <2>3
<1>2. TypeOK /\ WorkerInv /\ EndInv /\ GrammarInv /\ [Next]_vars => (WorkerInv /\ EndInv /\ GrammarInv)'
  BY WorkerInvStep, EndStep, GrammarStep
<1>3. TypeOK /\ WorkerInv /\ GrammarInv => StreamGrammar
  <2> SUFFICES ASSUME TypeOK, GrammarInv, NEW r \in Requests
               PROVE  /\ Grammar(Events(r), Len(arms[r]))
                      /\ stream[r] = "closed" /\ queue[r] = <<>> =>
                           sent[r] # <<>> /\ sent[r][Len(sent[r])].type \in Terminal
    BY DEF StreamGrammar, Grammar, Closing
  <2>1. Ordered(r) /\ sent[r] \in Seq(EventType)
    BY DEF GrammarInv, TypeOK
  <2>2. queue[r] = <<>> => Events(r) = sent[r]
    BY <2>1 DEF Events
  <2> QED BY <2>1, <2>2 DEF Ordered, Over
<1> QED BY <1>1, <1>2, <1>3, TypeCorrect, PTL DEF Spec

-----------------------------------------------------------------------------
(***************************************************************************)
(* The live panel: LiveView, for any scripts that keep its assumption.     *)
(* Data and HandleAll are recursive functions; what they do with one token *)
(* more is a fact (DataMore, HandleMore), and what holds of no token and   *)
(* is kept by one more holds of all (SeqGrows).  StreamInv: what is left   *)
(* of a stream is the wire form of whole events.  ViewInv: one run at most *)
(* is live, and the call it handled last is the last node of its pane.     *)
(***************************************************************************)

(* A set of numbers has a least one. *)
LEMMA NatMin == ASSUME NEW T, T \subseteq Nat, T # {} PROVE \E x \in T : \A y \in T : x <= y
<1> DEFINE U == {0..m : m \in T}
<1>1. U \subseteq FiniteSubsetsOf(Nat) /\ U # {}
  <2>1. \A m \in Nat : IsFiniteSet(0..m) /\ 0..m \subseteq Nat
    BY FS_Interval
  <2>2. QED
    BY <2>1 DEF FiniteSubsetsOf
<1>2. PICK S \in U : \A R \in U : <<R, S>> \notin StrictSubsetOrdering(Nat)
  <2> HIDE DEF U
  <2>1. QED
    BY <1>1, FS_StrictSubsetOrderingWellFounded, WFMin, Zenon
<1>3. PICK x \in T : S = 0..x
  OBVIOUS
<1>4. ASSUME NEW y \in T, y < x PROVE FALSE
  <2>1. 0..y \in U /\ 0..y \subseteq 0..x /\ x \in 0..x /\ x \notin 0..y
    BY <1>4
  <2>2. 0..y \in SUBSET Nat /\ 0..x \in SUBSET Nat
    BY <1>4
  <2>3. <<0..y, 0..x>> \in StrictSubsetOrdering(Nat)
    BY <2>1, <2>2 DEF StrictSubsetOrdering
  <2>4. QED
    BY <2>1, <2>3, <1>2, <1>3
<1>5. QED
  BY <1>4

(* f[i] is the data among the first i tokens, up to n of them. *)
Filters(tokens, n, f) ==
  f = [i \in 0..n |-> IF i = 0 THEN <<>>
                      ELSE IF IsData(tokens[i]) THEN Append(f[i - 1], tokens[i]) ELSE f[i - 1]]

LEMMA DataByFilter ==
  ASSUME NEW tokens
  PROVE  Data(tokens) = (CHOOSE f : Filters(tokens, Len(tokens), f))[Len(tokens)]
BY DEF Data, Filters

LEMMA FilterExists ==
  ASSUME NEW tokens, NEW n \in Nat
  PROVE  \E f : Filters(tokens, n, f)
<1> DEFINE T == {m \in Nat : ~ \E f : Filters(tokens, m, f)}
<1>1. SUFFICES ASSUME T # {} PROVE FALSE
  OBVIOUS
<1>2. PICK m \in T : \A y \in T : m <= y
  <2> HIDE DEF T
  <2>1. T \subseteq Nat
    BY DEF T
  <2>2. QED
    BY <1>1, <2>1, NatMin
<1>3. m # 0
  <2> DEFINE zero == [i \in 0..0 |-> <<>>]
  <2>1. Filters(tokens, 0, zero)
    BY DEF Filters
  <2>2. QED
    BY <2>1
<1>4. PICK f : Filters(tokens, m - 1, f)
  <2>1. m - 1 \in Nat /\ ~(m <= m - 1)
    BY <1>3
  <2>2. m - 1 \notin T
    BY <1>2, <2>1
  <2>3. QED
    BY <2>1, <2>2
<1> DEFINE last == IF IsData(tokens[m]) THEN Append(f[m - 1], tokens[m]) ELSE f[m - 1]
           more == [i \in 0..m |-> IF i = m THEN last ELSE f[i]]
<1>5. \A i \in 0..m : more[i] = IF i = 0 THEN <<>>
                                ELSE IF IsData(tokens[i]) THEN Append(more[i - 1], tokens[i]) ELSE more[i - 1]
  <2> SUFFICES ASSUME NEW i \in 0..m
               PROVE  more[i] = IF i = 0 THEN <<>>
                                ELSE IF IsData(tokens[i]) THEN Append(more[i - 1], tokens[i]) ELSE more[i - 1]
    OBVIOUS
  <2>1. CASE i = m
    <3>1. more[i - 1] = f[i - 1] /\ more[i] = last /\ i # 0
      BY <1>3, <2>1
    <3>2. QED
      BY <2>1, <3>1
  <2>2. CASE i # m
    <3>1. i \in 0..m - 1 /\ more[i] = f[i] /\ (i # 0 => more[i - 1] = f[i - 1])
      BY <2>2
    <3>2. f[i] = IF i = 0 THEN <<>> ELSE IF IsData(tokens[i]) THEN Append(f[i - 1], tokens[i]) ELSE f[i - 1]
      BY <1>4, <3>1 DEF Filters
    <3> HIDE DEF more
    <3>3. QED
      BY <3>1, <3>2
  <2>3. QED
    BY <2>1, <2>2
<1>6. Filters(tokens, m, more)
  <2>1. more = [i \in 0..m |-> more[i]]
    OBVIOUS
  <2> HIDE DEF more
  <2>2. QED
    BY <1>5, <2>1 DEF Filters
<1>7. QED
  BY <1>6

(* What is kept of the first tokens does not depend on those that follow. *)
LEMMA FilterAgree ==
  ASSUME NEW tokens, NEW others, NEW m \in Nat, NEW n \in Nat, m <= n,
         \A i \in 1..m : tokens[i] = others[i],
         NEW f, Filters(tokens, m, f), NEW g, Filters(others, n, g)
  PROVE  f[m] = g[m]
<1> DEFINE T == {i \in Nat : i <= m /\ f[i] # g[i]}
<1>1. SUFFICES ASSUME T # {} PROVE FALSE
  OBVIOUS
<1>2. PICK k \in T : \A y \in T : k <= y
  <2> HIDE DEF T
  <2>1. T \subseteq Nat
    BY DEF T
  <2>2. QED
    BY <1>1, <2>1, NatMin
<1>3. k \in 0..m /\ k \in 0..n
  OBVIOUS
<1>4. k # 0
  BY <1>3 DEF Filters
<1>5. f[k - 1] = g[k - 1]
  <2>1. k - 1 \in Nat /\ k - 1 <= m /\ ~(k <= k - 1)
    BY <1>4
  <2>2. QED
    BY <1>2, <2>1
<1>6. tokens[k] = others[k]
  BY <1>3, <1>4
<1>7. f[k] = g[k]
  <2>1. f[k] = IF IsData(tokens[k]) THEN Append(f[k - 1], tokens[k]) ELSE f[k - 1]
    BY <1>3, <1>4 DEF Filters
  <2>2. g[k] = IF IsData(others[k]) THEN Append(g[k - 1], others[k]) ELSE g[k - 1]
    BY <1>3, <1>4 DEF Filters
  <2>3. QED
    BY <1>5, <1>6, <2>1, <2>2
<1>8. QED
  BY <1>7

LEMMA DataNone == Data(<<>>) = <<>>
<1> DEFINE F(f) == Filters(<<>>, 0, f)
<1>1. F(CHOOSE f : F(f))
  <2>1. \E f : F(f)
    BY FilterExists
  <2> HIDE DEF F
  <2>2. QED
    BY <2>1
<1>2. (CHOOSE f : F(f))[0] = <<>>
  BY <1>1 DEF Filters
<1>3. QED
  BY <1>2, DataByFilter

LEMMA DataMore ==
  ASSUME NEW S, NEW tokens \in Seq(S), NEW t \in S
  PROVE  Data(Append(tokens, t)) = IF IsData(t) THEN Append(Data(tokens), t) ELSE Data(tokens)
<1> DEFINE n == Len(tokens)
           others == Append(tokens, t)
<1>1. n \in Nat /\ n + 1 \in Nat /\ Len(others) = n + 1 /\ others[n + 1] = t /\ \A i \in 1..n : tokens[i] = others[i]
  OBVIOUS
<1> HIDE DEF n, others
<1>2. PICK f : f = CHOOSE a : Filters(tokens, n, a)
  OBVIOUS
<1>3. PICK g : g = CHOOSE a : Filters(others, n + 1, a)
  OBVIOUS
<1>4. Filters(tokens, n, f)
  BY <1>1, <1>2, FilterExists
<1>5. Filters(others, n + 1, g)
  BY <1>1, <1>3, FilterExists
<1>6. f[n] = g[n]
  <2>1. n <= n + 1
    BY <1>1
  <2>2. QED
    BY <1>1, <1>4, <1>5, <2>1, FilterAgree
<1>7. g[n + 1] = IF IsData(t) THEN Append(g[n], t) ELSE g[n]
  <2>1. n + 1 \in 0..n + 1 /\ n + 1 # 0 /\ (n + 1) - 1 = n
    BY <1>1
  <2>2. g[n + 1] = IF IsData(others[n + 1]) THEN Append(g[(n + 1) - 1], others[n + 1]) ELSE g[(n + 1) - 1]
    BY <1>5, <2>1 DEF Filters
  <2>3. QED
    BY <1>1, <2>1, <2>2
<1>8. Data(tokens) = f[n] /\ Data(others) = g[n + 1]
  BY <1>1, <1>2, <1>3, DataByFilter DEF n
<1>9. QED
  BY <1>6, <1>7, <1>8 DEF others
(* Induction over a sequence: what holds of none and of one more holds of all. *)
LEMMA SeqGrows ==
  ASSUME NEW S, NEW P, P \subseteq Seq(S), <<>> \in P, \A s \in P : \A e \in S : Append(s, e) \in P
  PROVE  P = Seq(S)
<1> DEFINE T == {m \in Nat : \E s \in Seq(S) : Len(s) = m /\ s \notin P}
<1>1. SUFFICES ASSUME T # {} PROVE FALSE
  <2> SUFFICES ASSUME NEW s \in Seq(S), s \notin P PROVE T # {}
    OBVIOUS
  <2>1. Len(s) \in T
    OBVIOUS
  <2>2. QED
    BY <2>1
<1>2. PICK m \in T : \A y \in T : m <= y
  <2> HIDE DEF T
  <2>1. T \subseteq Nat
    BY DEF T
  <2>2. QED
    BY <1>1, <2>1, NatMin
<1>3. PICK s \in Seq(S) : Len(s) = m /\ s \notin P
  OBVIOUS
<1>4. m # 0
  BY <1>3
<1>5. PICK front \in Seq(S) : Len(front) = m - 1 /\ \E e \in S : s = Append(front, e)
  <2>1. s # <<>>
    BY <1>3, <1>4
  <2>2. PICK front \in Seq(S), e \in S : s = Append(front, e)
    BY <2>1, SequenceEmptyOrAppend
  <2>3. Len(s) = Len(front) + 1
    BY ONLY <2>2
  <2>4. Len(front) = m - 1
    BY <1>3, <2>3
  <2>5. QED
    BY <2>2, <2>4
<1>6. front \in P
  <2>1. m - 1 \in Nat /\ ~(m <= m - 1)
    BY <1>4
  <2>2. m - 1 \notin T
    BY <1>2, <2>1
  <2>3. QED
    BY <1>5, <2>1, <2>2
<1>7. QED
  BY <1>3, <1>5, <1>6

LEMMA DataType ==
  ASSUME NEW S, NEW tokens \in Seq(S)
  PROVE  Data(tokens) \in Seq({t \in S : IsData(t)})
<1> DEFINE D == {t \in S : IsData(t)}
           P == {s \in Seq(S) : Data(s) \in Seq(D)}
<1>1. <<>> \in P
  <2> HIDE DEF D
  <2>1. <<>> \in Seq(S) /\ <<>> \in Seq(D)
    OBVIOUS
  <2>2. Data(<<>>) \in Seq(D)
    BY <2>1, DataNone
  <2>3. QED
    BY <2>1, <2>2
<1>2. ASSUME NEW s \in P, NEW e \in S PROVE Append(s, e) \in P
  <2>1. Data(Append(s, e)) = IF IsData(e) THEN Append(Data(s), e) ELSE Data(s)
    BY DataMore
  <2>2. IsData(e) => e \in D
    OBVIOUS
  <2> HIDE DEF D
  <2>3. Data(Append(s, e)) \in Seq(D)
    BY <2>1, <2>2
  <2>4. QED
    BY <2>3
<1>3. P = Seq(S)
  <2> HIDE DEF P
  <2>1. P \subseteq Seq(S)
    BY DEF P
  <2>2. QED
    BY <1>1, <1>2, <2>1, SeqGrows
<1>4. QED
  BY <1>3

LEMMA AppendLast ==
  ASSUME NEW S, NEW s \in Seq(S), NEW t \in Seq(S), NEW e \in S
  PROVE  Append(s \o t, e) = s \o Append(t, e)
OBVIOUS

LEMMA DataConcat ==
  ASSUME NEW S, NEW a \in Seq(S), NEW b \in Seq(S)
  PROVE  Data(a \o b) = Data(a) \o Data(b)
<1> DEFINE P == {s \in Seq(S) : Data(a \o s) = Data(a) \o Data(s)}
<1>0. Data(a) \in Seq(S)
  <2>1. Data(a) \in Seq({t \in S : IsData(t)})
    BY DataType
  <2>2. QED
    BY <2>1
<1>1. <<>> \in P
  BY <1>0, DataNone
<1>2. ASSUME NEW s \in P, NEW e \in S PROVE Append(s, e) \in P
  <2>1. Data(Append(s, e)) = IF IsData(e) THEN Append(Data(s), e) ELSE Data(s)
    BY DataMore
  <2>2. a \o Append(s, e) = Append(a \o s, e) /\ a \o s \in Seq(S)
    OBVIOUS
  <2>3. Data(Append(a \o s, e)) = IF IsData(e) THEN Append(Data(a \o s), e) ELSE Data(a \o s)
    BY <2>2, DataMore
  <2>4. Data(s) \in Seq(S)
    <3>1. Data(s) \in Seq({t \in S : IsData(t)})
      BY DataType
    <3>2. QED
      BY <3>1
  <2>5. Data(a \o s) = Data(a) \o Data(s) /\ s \in Seq(S)
    OBVIOUS
  <2> HIDE DEF P
  <2>6. PICK x \in Seq(S) : x = Data(a)
    BY <1>0
  <2>7. PICK y \in Seq(S) : y = Data(s)
    BY <2>4
  <2>8. Append(x \o y, e) = x \o Append(y, e)
    BY SMTT(60)
  <2>9. Data(a \o Append(s, e)) = IF IsData(e) THEN Append(x \o y, e) ELSE x \o y
    BY <2>2, <2>3, <2>5, <2>6, <2>7
  <2>10. Data(Append(s, e)) = IF IsData(e) THEN Append(y, e) ELSE y
    BY <2>1, <2>7
  <2>11. Data(a \o Append(s, e)) = x \o Data(Append(s, e))
    BY <2>8, <2>9, <2>10
  <2>12. Append(s, e) \in Seq(S)
    BY <1>2, <2>5
  <2>13. QED
    BY <2>6, <2>11, <2>12 DEF P
<1>3. P = Seq(S)
  <2> HIDE DEF P
  <2>1. P \subseteq Seq(S)
    BY DEF P
  <2>2. QED
    BY <1>1, <1>2, <2>1, SeqGrows
<1>4. QED
  BY <1>3

(* Blank lines carry no data. *)
LEMMA WireMore ==
  ASSUME NEW S, NEW s \in Seq(S), NEW e \in S
  PROVE  Wire(Append(s, e)) = Append(Append(Append(Wire(s), e), Newline), Newline)
<1> DEFINE n == Len(s)
           long == Wire(Append(s, e))
           w == Wire(s)
           more == Append(Append(Append(w, e), Newline), Newline)
<1>1. n \in Nat /\ Len(Append(s, e)) = n + 1
  OBVIOUS
<1>2. w \in Seq(S \cup {Newline}) /\ Len(w) = 3 * n
  <2>1. \A i \in 1..3 * n : i % 3 = 1 => (i + 2) \div 3 \in 1..n
    BY <1>1
  <2>2. QED
    BY <1>1, <2>1 DEF Wire
<1>3. DOMAIN long = 1..3 * n + 3 /\ DOMAIN more = 1..3 * n + 3
  BY <1>1, <1>2 DEF Wire
<1>4. ASSUME NEW i \in 1..3 * n + 3 PROVE long[i] = more[i]
  <2>1. CASE i \in 1..3 * n
    <3>1. i % 3 = 1 => (i + 2) \div 3 \in 1..n
      BY <1>1, <2>1
    <3>2. long[i] = w[i]
      BY <1>1, <2>1, <3>1 DEF Wire
    <3> HIDE DEF w
    <3>3. more[i] = w[i]
      BY <1>1, <1>2, <2>1
    <3>4. QED
      BY <3>2, <3>3
  <2>2. CASE i = 3 * n + 1
    <3>1. i % 3 = 1 /\ (i + 2) \div 3 = n + 1
      BY <1>1, <2>2
    <3>2. long[i] = e
      BY <1>1, <3>1 DEF Wire
    <3> HIDE DEF w
    <3>3. more[i] = e
      BY <1>1, <1>2, <2>2
    <3>4. QED
      BY <3>2, <3>3
  <2>3. CASE i \in {3 * n + 2, 3 * n + 3}
    <3>1. i % 3 # 1
      BY <1>1, <2>3
    <3>2. long[i] = Newline
      BY <1>1, <3>1 DEF Wire
    <3> HIDE DEF w
    <3>3. more[i] = Newline
      BY <1>1, <1>2, <2>3
    <3>4. QED
      BY <3>2, <3>3
  <2>4. i \in 1..3 * n \/ i = 3 * n + 1 \/ i \in {3 * n + 2, 3 * n + 3}
    BY <1>1
  <2> HIDE DEF long, more
  <2>5. QED
    BY <2>1, <2>2, <2>3, <2>4
<1>5. long = [i \in DOMAIN long |-> long[i]] /\ more = [i \in DOMAIN more |-> more[i]]
  <2>1. long = [i \in DOMAIN long |-> long[i]]
    BY DEF Wire
  <2>2. more \in Seq(S \cup {Newline})
    <3> HIDE DEF w
    <3>1. QED
      BY <1>2
  <2> HIDE DEF more
  <2>3. more = [i \in DOMAIN more |-> more[i]]
    BY <2>2
  <2>4. QED
    BY <2>1, <2>3
<1>6. QED
  <2> HIDE DEF long, more
  <2>1. long = more
    BY <1>3, <1>4, <1>5
  <2>2. QED
    BY <2>1 DEF long, more

LEMMA WireData ==
  ASSUME NEW S, NEW s \in Seq(S)
  PROVE  Wire(s) \in Seq(S \cup {Newline}) /\ Data(Wire(s)) = Data(s)
<1> DEFINE A == S \cup {Newline}
           P == {t \in Seq(S) : Wire(t) \in Seq(A) /\ Data(Wire(t)) = Data(t)}
<1>1. <<>> \in P
  <2>1. Wire(<<>>) = <<>>
    BY DEF Wire
  <2>2. <<>> \in Seq(S) /\ <<>> \in Seq(A)
    OBVIOUS
  <2> HIDE DEF A
  <2>3. QED
    BY <2>1, <2>2
<1>2. ASSUME NEW t \in P, NEW e \in S PROVE Append(t, e) \in P
  <2> DEFINE w == Wire(t)
             w1 == Append(w, e)
             w2 == Append(w1, Newline)
             w3 == Append(w2, Newline)
  <2>1. Wire(Append(t, e)) = w3
    BY WireMore
  <2>2. e \in A /\ Newline \in A /\ ~IsData(Newline)
    BY DEF IsData, Newline
  <2>3. w \in Seq(A) /\ Data(w) = Data(t)
    OBVIOUS
  <2> HIDE DEF w, A
  <2>4. w1 \in Seq(A) /\ w2 \in Seq(A) /\ w3 \in Seq(A)
    BY <2>2, <2>3
  <2>5. Data(w1) = IF IsData(e) THEN Append(Data(w), e) ELSE Data(w)
    BY <2>2, <2>3, DataMore
  <2>6. Data(w2) = Data(w1)
    <3> HIDE DEF w1
    <3>1. QED
      BY <2>2, <2>4, DataMore
  <2>7. Data(w3) = Data(w2)
    <3> HIDE DEF w2
    <3>1. QED
      BY <2>2, <2>4, DataMore
  <2>8. Data(Append(t, e)) = IF IsData(e) THEN Append(Data(t), e) ELSE Data(t)
    BY DataMore
  <2> HIDE DEF w1, w2, w3
  <2>9. Data(w3) = Data(Append(t, e))
    BY <2>3, <2>5, <2>6, <2>7, <2>8
  <2>10. QED
    BY <2>1, <2>4, <2>9 DEF A
<1>3. P = Seq(S)
  <2> HIDE DEF P
  <2>1. P \subseteq Seq(S)
    BY DEF P
  <2>2. QED
    BY <1>1, <1>2, <2>1, SeqGrows
<1>4. QED
  BY <1>3

(* f[i] is the view after the first i events, up to n of them. *)
Handles(view, r, events, n, f) ==
  f = [i \in 0..n |-> IF i = 0 THEN view ELSE HandleEvent(f[i - 1], r, events[i])]

LEMMA HandleByFold ==
  ASSUME NEW view, NEW r, NEW events
  PROVE  HandleAll(view, r, events) =
           (CHOOSE f : Handles(view, r, events, Len(events), f))[Len(events)]
BY DEF HandleAll, Handles

LEMMA HandleExists ==
  ASSUME NEW view, NEW r, NEW events, NEW n \in Nat
  PROVE  \E f : Handles(view, r, events, n, f)
<1> DEFINE T == {m \in Nat : ~ \E f : Handles(view, r, events, m, f)}
<1>1. SUFFICES ASSUME T # {} PROVE FALSE
  OBVIOUS
<1>2. PICK m \in T : \A y \in T : m <= y
  <2> HIDE DEF T
  <2>1. T \subseteq Nat
    BY DEF T
  <2>2. QED
    BY <1>1, <2>1, NatMin
<1>3. m # 0
  <2> DEFINE zero == [i \in 0..0 |-> view]
  <2>1. Handles(view, r, events, 0, zero)
    BY DEF Handles
  <2>2. QED
    BY <2>1
<1>4. PICK f : Handles(view, r, events, m - 1, f)
  <2>1. m - 1 \in Nat /\ ~(m <= m - 1)
    BY <1>3
  <2>2. m - 1 \notin T
    BY <1>2, <2>1
  <2>3. QED
    BY <2>1, <2>2
<1> DEFINE more == [i \in 0..m |-> IF i = m THEN HandleEvent(f[m - 1], r, events[m]) ELSE f[i]]
<1>5. \A i \in 0..m : more[i] = IF i = 0 THEN view ELSE HandleEvent(more[i - 1], r, events[i])
  <2> SUFFICES ASSUME NEW i \in 0..m
               PROVE  more[i] = IF i = 0 THEN view ELSE HandleEvent(more[i - 1], r, events[i])
    OBVIOUS
  <2>1. CASE i = m
    <3>1. more[i - 1] = f[i - 1] /\ more[i] = HandleEvent(f[m - 1], r, events[m]) /\ i # 0
      BY <1>3, <2>1
    <3> HIDE DEF more
    <3>2. QED
      BY <2>1, <3>1
  <2>2. CASE i # m
    <3>1. i \in 0..m - 1 /\ more[i] = f[i] /\ (i # 0 => more[i - 1] = f[i - 1])
      BY <2>2
    <3>2. f[i] = IF i = 0 THEN view ELSE HandleEvent(f[i - 1], r, events[i])
      BY <1>4, <3>1 DEF Handles
    <3> HIDE DEF more
    <3>3. QED
      BY <3>1, <3>2
  <2>3. QED
    BY <2>1, <2>2
<1>6. Handles(view, r, events, m, more)
  <2>1. more = [i \in 0..m |-> more[i]]
    OBVIOUS
  <2> HIDE DEF more
  <2>2. QED
    BY <1>5, <2>1 DEF Handles
<1>7. QED
  BY <1>6

(* What the first events do does not depend on those that follow. *)
LEMMA HandleAgree ==
  ASSUME NEW view, NEW r, NEW events, NEW others, NEW m \in Nat, NEW n \in Nat, m <= n,
         \A i \in 1..m : events[i] = others[i],
         NEW f, Handles(view, r, events, m, f), NEW g, Handles(view, r, others, n, g)
  PROVE  f[m] = g[m]
<1> DEFINE T == {i \in Nat : i <= m /\ f[i] # g[i]}
<1>1. SUFFICES ASSUME T # {} PROVE FALSE
  OBVIOUS
<1>2. PICK k \in T : \A y \in T : k <= y
  <2> HIDE DEF T
  <2>1. T \subseteq Nat
    BY DEF T
  <2>2. QED
    BY <1>1, <2>1, NatMin
<1>3. k \in 0..m /\ k \in 0..n
  OBVIOUS
<1>4. k # 0
  BY <1>3 DEF Handles
<1>5. f[k - 1] = g[k - 1]
  <2>1. k - 1 \in Nat /\ k - 1 <= m /\ ~(k <= k - 1)
    BY <1>4
  <2>2. QED
    BY <1>2, <2>1
<1>6. events[k] = others[k]
  BY <1>3, <1>4
<1>7. f[k] = g[k]
  <2>1. f[k] = HandleEvent(f[k - 1], r, events[k])
    BY <1>3, <1>4 DEF Handles
  <2>2. g[k] = HandleEvent(g[k - 1], r, others[k])
    BY <1>3, <1>4 DEF Handles
  <2>3. QED
    BY <1>5, <1>6, <2>1, <2>2
<1>8. QED
  BY <1>7

LEMMA HandleNone ==
  ASSUME NEW view, NEW r
  PROVE  HandleAll(view, r, <<>>) = view
<1> DEFINE F(f) == Handles(view, r, <<>>, 0, f)
<1>1. F(CHOOSE f : F(f))
  <2>1. \E f : F(f)
    BY HandleExists
  <2> HIDE DEF F
  <2>2. QED
    BY <2>1
<1>2. (CHOOSE f : F(f))[0] = view
  BY <1>1 DEF Handles
<1>3. QED
  BY <1>2, HandleByFold

LEMMA HandleMore ==
  ASSUME NEW view, NEW r, NEW S, NEW events \in Seq(S), NEW ev \in S
  PROVE  HandleAll(view, r, Append(events, ev)) = HandleEvent(HandleAll(view, r, events), r, ev)
<1> DEFINE n == Len(events)
           others == Append(events, ev)
<1>1. n \in Nat /\ n + 1 \in Nat /\ Len(others) = n + 1 /\ others[n + 1] = ev /\ \A i \in 1..n : events[i] = others[i]
  OBVIOUS
<1> HIDE DEF n, others
<1>2. PICK f : f = CHOOSE a : Handles(view, r, events, n, a)
  OBVIOUS
<1>3. PICK g : g = CHOOSE a : Handles(view, r, others, n + 1, a)
  OBVIOUS
<1>4. Handles(view, r, events, n, f)
  BY <1>1, <1>2, HandleExists
<1>5. Handles(view, r, others, n + 1, g)
  BY <1>1, <1>3, HandleExists
<1>6. f[n] = g[n]
  <2>1. n <= n + 1
    BY <1>1
  <2>2. QED
    BY <1>1, <1>4, <1>5, <2>1, HandleAgree
<1>7. g[n + 1] = HandleEvent(g[n], r, ev)
  <2>1. n + 1 \in 0..n + 1 /\ n + 1 # 0 /\ (n + 1) - 1 = n
    BY <1>1
  <2>2. g[n + 1] = HandleEvent(g[(n + 1) - 1], r, others[n + 1])
    BY <1>5, <2>1 DEF Handles
  <2>3. QED
    BY <1>1, <2>1, <2>2
<1>8. HandleAll(view, r, events) = f[n] /\ HandleAll(view, r, others) = g[n + 1]
  BY <1>1, <1>2, <1>3, HandleByFold DEF n
<1>9. QED
  BY <1>6, <1>7, <1>8 DEF others

-----------------------------------------------------------------------------
(* However the stream is cut, what is complete in the buffer is a first part of
   the events that are left, and the rest of it begins the others. *)

LEMMA MaxIs ==
  ASSUME NEW T, NEW m \in T, T \subseteq Nat, \A x \in T : x <= m
  PROVE  Max(T) = m
<1>1. \A y \in T : (\A x \in T : y >= x) => y = m
  OBVIOUS
<1>2. (CHOOSE y \in T : \A x \in T : y >= x) = m
  BY <1>1
<1>3. QED
  BY <1>2 DEF Max

(* The wire form gives an event three places, the third its second newline. *)
LEMMA Thirds ==
  /\ \A i \in Nat : i >= 2 => ((i % 3 # 1 /\ (i - 1) % 3 # 1) <=> i % 3 = 0)
  /\ \A i \in Nat : i >= 1 /\ i % 3 = 0 => i >= 3
  /\ \A n \in Nat : /\ n \div 3 \in Nat /\ 3 * (n \div 3) <= n /\ n <= 3 * (n \div 3) + 2
                     /\ (3 * (n \div 3)) % 3 = 0
                     /\ \A i \in Nat : i <= n /\ i % 3 = 0 => i <= 3 * (n \div 3)
<1>1. \A i \in Nat : i >= 2 => ((i % 3 # 1 /\ (i - 1) % 3 # 1) <=> i % 3 = 0)
  OBVIOUS
<1>2. \A i \in Nat : i >= 1 /\ i % 3 = 0 => i >= 3
  OBVIOUS
<1>3. \A n \in Nat : n \div 3 \in Nat /\ 3 * (n \div 3) <= n /\ n <= 3 * (n \div 3) + 2 /\ (3 * (n \div 3)) % 3 = 0
  OBVIOUS
<1>4. \A n, i \in Nat : i <= n /\ i % 3 = 0 => i <= 3 * (n \div 3)
  OBVIOUS
<1>5. QED
  BY <1>1, <1>2, <1>3, <1>4

LEMMA ThirdOf == \A k \in Nat : \A i \in 1..3 * k : i % 3 = 1 => (i + 2) \div 3 \in 1..k
OBVIOUS

LEMMA ThirdsOn == \A m, i \in Nat : (3 * m + i) % 3 = i % 3 /\ (3 * m + i + 2) \div 3 = m + (i + 2) \div 3
OBVIOUS

(* What is in the buffer and on the wire is the wire form of what is left. *)
Cut(left, buf, wire) == buf \o wire = Wire(left)

LEMMA CutParts ==
  ASSUME NEW A, NEW left, NEW buf \in Seq(A), NEW wire \in Seq(A), Cut(left, buf, wire)
  PROVE  /\ Len(Wire(left)) = Len(buf) + Len(wire) /\ Len(buf) \in Nat /\ Len(wire) \in Nat
         /\ \A i \in 1..Len(buf) : buf[i] = Wire(left)[i]
         /\ \A i \in 1..Len(wire) : wire[i] = Wire(left)[Len(buf) + i]
<1>1. /\ Len(buf \o wire) = Len(buf) + Len(wire) /\ Len(buf) \in Nat /\ Len(wire) \in Nat
      /\ \A i \in 1..Len(buf) : (buf \o wire)[i] = buf[i]
      /\ \A i \in 1..Len(wire) : (buf \o wire)[Len(buf) + i] = wire[i]
  OBVIOUS
<1>2. QED
  BY <1>1 DEF Cut

LEMMA WireAt ==
  ASSUME NEW S, Newline \notin S, NEW s \in Seq(S)
  PROVE  /\ Len(Wire(s)) = 3 * Len(s) /\ DOMAIN Wire(s) = 1..3 * Len(s)
         /\ \A i \in 1..3 * Len(s) : (Wire(s)[i] = Newline) <=> i % 3 # 1
         /\ \A i \in 1..3 * Len(s) : i % 3 = 1 => (i + 2) \div 3 \in 1..Len(s) /\ Wire(s)[i] = s[(i + 2) \div 3]
<1>1. \A i \in 1..3 * Len(s) : i % 3 = 1 => (i + 2) \div 3 \in 1..Len(s)
  OBVIOUS
<1>2. \A k \in 1..Len(s) : s[k] # Newline
  OBVIOUS
<1>3. DOMAIN Wire(s) = 1..3 * Len(s)
  BY DEF Wire
<1>4. Len(Wire(s)) = 3 * Len(s)
  BY WireData, <1>3
<1>5. \A i \in 1..3 * Len(s) : Wire(s)[i] = IF i % 3 = 1 THEN s[(i + 2) \div 3] ELSE Newline
  BY DEF Wire
<1>6. QED
  BY <1>1, <1>2, <1>3, <1>4, <1>5

LEMMA EndsInWire ==
  ASSUME NEW S, Newline \notin S, NEW left \in Seq(S),
         NEW buf \in Seq(S \cup {Newline}), NEW wire \in Seq(S \cup {Newline}), Cut(left, buf, wire)
  PROVE  /\ Len(buf) <= 3 * Len(left)
         /\ \A i \in 1..Len(buf) : buf[i] = Wire(left)[i]
         /\ Ends(buf) = {i \in 1..Len(buf) : i % 3 = 0}
         /\ LastEnd(buf) = 3 * (Len(buf) \div 3)
<1>1. Len(Wire(left)) = Len(buf) + Len(wire) /\ Len(wire) \in Nat /\ Len(buf) \in Nat /\ Len(left) \in Nat
  BY CutParts
<1>2. Len(Wire(left)) = 3 * Len(left)
  BY WireAt
<1>3. Len(buf) <= 3 * Len(left)
  BY <1>1, <1>2
<1>4. \A i \in 1..Len(buf) : buf[i] = Wire(left)[i]
  BY CutParts
<1>5. \A i \in 1..Len(buf) : (buf[i] = Newline) <=> i % 3 # 1
  <2>1. \A i \in 1..3 * Len(left) : (Wire(left)[i] = Newline) <=> i % 3 # 1
    BY WireAt
  <2>2. QED
    BY <1>1, <1>3, <1>4, <2>1
<1>6. Ends(buf) = {i \in 1..Len(buf) : i % 3 = 0}
  <2>1. PICK n \in Nat : n = Len(buf)
    BY <1>1
  <2>2. \A i \in 2..n : (buf[i] = Newline /\ buf[i - 1] = Newline) <=> i % 3 = 0
    <3> SUFFICES ASSUME NEW i \in 2..n PROVE (buf[i] = Newline /\ buf[i - 1] = Newline) <=> i % 3 = 0
      OBVIOUS
    <3>1. i \in 1..n /\ i - 1 \in 1..n /\ i \in Nat /\ i >= 2
      BY <2>1
    <3>2. (buf[i] = Newline <=> i % 3 # 1) /\ (buf[i - 1] = Newline <=> (i - 1) % 3 # 1)
      BY <1>5, <2>1, <3>1
    <3>3. (i % 3 # 1 /\ (i - 1) % 3 # 1) <=> i % 3 = 0
      BY <3>1, Thirds
    <3>4. QED
      BY <3>2, <3>3
  <2>3. \A i \in 1..n : i % 3 = 0 => i \in 2..n
    BY <2>1, Thirds
  <2>4. QED
    BY <2>1, <2>2, <2>3 DEF Ends
<1>7. LastEnd(buf) = 3 * (Len(buf) \div 3)
  <2>1. PICK n \in Nat : n = Len(buf)
    BY <1>1
  <2>2. PICK m \in Nat : m = 3 * (n \div 3)
    BY Thirds
  <2>3. m <= n /\ n <= m + 2 /\ m % 3 = 0 /\ \A i \in Nat : i <= n /\ i % 3 = 0 => i <= m
    BY <2>2, Thirds
  <2> DEFINE E == {i \in 1..n : i % 3 = 0}
  <2>4. \A x \in E : x \in Nat /\ x <= m
    BY <2>3
  <2>5. m # 0 => m \in E
    BY <2>3
  <2>6. m = 0 => E = {}
    BY <2>4
  <2>7. LastEnd(buf) = IF E = {} THEN 0 ELSE Max(E)
    BY <1>6, <2>1 DEF LastEnd
  <2> HIDE DEF E
  <2>8. CASE m = 0
    BY <2>1, <2>2, <2>6, <2>7, <2>8
  <2>9. CASE m # 0
    <3>1. m \in E /\ E \subseteq Nat /\ \A x \in E : x <= m
      BY <2>4, <2>5, <2>9
    <3>2. Max(E) = m
      BY <3>1, MaxIs
    <3>3. QED
      BY <2>1, <2>2, <2>7, <3>1, <3>2
  <2>10. QED
    BY <2>8, <2>9
<1>8. QED
  BY <1>3, <1>4, <1>6, <1>7

LEMMA SameSequence ==
  ASSUME NEW S, NEW s \in Seq(S), NEW t \in Seq(S), Len(s) = Len(t), \A i \in 1..Len(s) : s[i] = t[i]
  PROVE  s = t
OBVIOUS

(* Positions of a sequence cut in two, and of one put together. *)
LEMMA JoinSeq ==
  ASSUME NEW S, NEW s \in Seq(S), NEW t \in Seq(S), NEW m, m = Len(s), NEW n, n = Len(t)
  PROVE  /\ s \o t \in Seq(S) /\ Len(s \o t) = m + n
         /\ \A i \in 1..m : (s \o t)[i] = s[i]
         /\ \A i \in 1..n : (s \o t)[m + i] = t[i]
OBVIOUS

(* a is the first m of the n elements of s, z the others. *)
Parts(s, n, m, a, z) ==
  /\ a = SubSeq(s, 1, m) /\ Len(a) = m /\ \A i \in 1..m : a[i] = s[i]
  /\ z = SubSeq(s, m + 1, n) /\ Len(z) = n - m /\ \A i \in 1..n - m : z[i] = s[m + i]

LEMMA CutSeq ==
  ASSUME NEW S, NEW s \in Seq(S), NEW n, n = Len(s), NEW m \in 0..n
  PROVE  \E a, z \in Seq(S) : Parts(s, n, m, a, z)
<1>1. n \in Nat /\ m \in Nat /\ m <= n /\ n = Len(s)
  OBVIOUS
<1>2. /\ SubSeq(s, 1, m) \in Seq(S) /\ Len(SubSeq(s, 1, m)) = m
      /\ \A i \in 1..m : SubSeq(s, 1, m)[i] = s[i]
  BY <1>1
<1>3. /\ SubSeq(s, m + 1, n) \in Seq(S) /\ Len(SubSeq(s, m + 1, n)) = n - m
      /\ \A i \in 1..n - m : SubSeq(s, m + 1, n)[i] = s[m + i]
  BY <1>1
<1> DEFINE x == SubSeq(s, 1, m)
           y == SubSeq(s, m + 1, n)
<1>4. x \in Seq(S) /\ y \in Seq(S) /\ Parts(s, n, m, x, y)
  BY <1>2, <1>3 DEF Parts
<1> HIDE DEF x, y
<1>5. QED
  BY <1>4

LEMMA PartsJoin ==
  ASSUME NEW S, NEW s \in Seq(S), NEW n, n = Len(s), NEW m \in 0..n,
         NEW a \in Seq(S), NEW z \in Seq(S), Parts(s, n, m, a, z)
  PROVE  s = a \o z
<1>1. n \in Nat /\ m \in Nat /\ m <= n
  OBVIOUS
<1>2. PICK w : w = a \o z
  OBVIOUS
<1>3. /\ m = Len(a) /\ n - m = Len(z) /\ \A i \in 1..m : a[i] = s[i]
      /\ \A i \in 1..n - m : z[i] = s[m + i]
  BY DEF Parts
<1>4. /\ w \in Seq(S) /\ Len(w) = m + (n - m)
      /\ \A i \in 1..m : w[i] = a[i]
      /\ \A i \in 1..n - m : w[m + i] = z[i]
  <2>1. PICK k : k = n - m
    OBVIOUS
  <2>2. /\ a \o z \in Seq(S) /\ Len(a \o z) = m + k
        /\ \A i \in 1..m : (a \o z)[i] = a[i]
        /\ \A i \in 1..k : (a \o z)[m + i] = z[i]
    BY <1>3, <2>1
  <2>3. QED
    BY <1>2, <2>1, <2>2
<1>5. \A i \in 1..n : w[i] = s[i]
  <2> SUFFICES ASSUME NEW i \in 1..n PROVE w[i] = s[i]
    OBVIOUS
  <2>1. CASE i <= m
    <3>1. i \in 1..m
      BY <1>1, <2>1
    <3>2. QED
      BY <1>3, <1>4, <3>1
  <2>2. CASE ~(i <= m)
    <3>1. PICK k : k = i - m
      OBVIOUS
    <3>2. k \in 1..n - m /\ i = m + k
      BY <1>1, <2>2, <3>1
    <3>3. QED
      BY <1>3, <1>4, <3>2
  <2>3. QED
    BY <2>1, <2>2
<1>6. Len(w) = n
  BY <1>1, <1>4
<1>7. w = s
  BY <1>4, <1>5, <1>6, SameSequence
<1>8. QED
  BY <1>2, <1>7

LEMMA Pieces ==
  ASSUME NEW S, Newline \notin S, NEW left \in Seq(S),
         NEW buf \in Seq(S \cup {Newline}), NEW wire \in Seq(S \cup {Newline}), Cut(left, buf, wire)
  PROVE  \E first \in Seq(S), rest \in Seq(S) :
           /\ left = first \o rest
           /\ SubSeq(buf, 1, LastEnd(buf)) = Wire(first)
           /\ Rest(buf) \in Seq(S \cup {Newline}) /\ Cut(rest, Rest(buf), wire)
           /\ Ends(Rest(buf)) = {}
<1>1. PICK A : A = S \cup {Newline}
  OBVIOUS
<1>2. PICK b, w, l, m \in Nat : b = Len(buf) /\ w = Len(wire) /\ l = Len(left) /\ m = b \div 3
  <2>1. Len(buf) \in Nat /\ Len(wire) \in Nat /\ Len(left) \in Nat
    OBVIOUS
  <2>2. Len(buf) \div 3 \in Nat
    BY <2>1, Thirds
  <2>3. QED
    BY <2>1, <2>2
<1>3. PICK n, all, cut \in Nat : n = l - m /\ all = 3 * l /\ cut = 3 * m
  <2>1. b <= 3 * l
    BY <1>2, EndsInWire
  <2>2. 3 * m <= b
    BY <1>2, Thirds
  <2>3. l - m \in Nat /\ 3 * l \in Nat /\ 3 * m \in Nat
    BY <1>2, <2>1, <2>2
  <2>4. QED
    BY <2>3
<1>4. /\ buf \in Seq(A) /\ wire \in Seq(A) /\ b + w = all
      /\ \A i \in 1..b : buf[i] = Wire(left)[i]
      /\ \A i \in 1..w : wire[i] = Wire(left)[b + i]
  <2>1. buf \in Seq(A) /\ wire \in Seq(A)
    BY <1>1
  <2>2. /\ Len(Wire(left)) = Len(buf) + Len(wire)
        /\ \A i \in 1..Len(buf) : buf[i] = Wire(left)[i]
        /\ \A i \in 1..Len(wire) : wire[i] = Wire(left)[Len(buf) + i]
    BY <2>1, CutParts
  <2>3. Len(Wire(left)) = 3 * Len(left)
    BY WireAt
  <2>4. QED
    BY <1>2, <1>3, <2>1, <2>2, <2>3
<1>5. m <= l /\ m + n = l /\ cut <= b /\ b <= cut + 2 /\ cut <= all /\ LastEnd(buf) = cut /\ all - cut = 3 * n
  <2>1. LastEnd(buf) = 3 * m
    BY <1>2, EndsInWire
  <2>2. 3 * m <= b /\ b <= 3 * m + 2
    BY <1>2, Thirds
  <2>3. QED
    BY <1>2, <1>3, <1>4, <2>1, <2>2
<1>6. PICK first \in Seq(S), rest \in Seq(S) :
        /\ left = first \o rest /\ Len(first) = m /\ Len(rest) = n
        /\ \A i \in 1..m : first[i] = left[i]
        /\ \A i \in 1..n : rest[i] = left[m + i]
  <2>1. l = Len(left) /\ m \in 0..l
    BY <1>2, <1>5
  <2>2. PICK a, z \in Seq(S) : Parts(left, l, m, a, z)
    BY <2>1, CutSeq
  <2>3. left = a \o z
    BY <2>1, <2>2, PartsJoin
  <2>4. /\ Len(a) = m /\ Len(z) = n /\ \A i \in 1..m : a[i] = left[i]
        /\ \A i \in 1..n : z[i] = left[m + i]
    BY <1>3, <2>2 DEF Parts
  <2>5. QED
    BY <2>3, <2>4
<1>7. \A s \in Seq(S) : /\ Wire(s) \in Seq(A) /\ Len(Wire(s)) = 3 * Len(s)
                        /\ \A i \in 1..3 * Len(s) : Wire(s)[i] = IF i % 3 = 1 THEN s[(i + 2) \div 3] ELSE Newline
  <2> SUFFICES ASSUME NEW s \in Seq(S)
               PROVE  /\ Wire(s) \in Seq(A) /\ Len(Wire(s)) = 3 * Len(s)
                      /\ \A i \in 1..3 * Len(s) : Wire(s)[i] = IF i % 3 = 1 THEN s[(i + 2) \div 3] ELSE Newline
    OBVIOUS
  <2>1. Wire(s) \in Seq(A)
    BY <1>1, WireData
  <2>2. Len(Wire(s)) = 3 * Len(s)
    BY WireAt
  <2>3. \A i \in 1..3 * Len(s) : Wire(s)[i] = IF i % 3 = 1 THEN s[(i + 2) \div 3] ELSE Newline
    BY DEF Wire
  <2>4. QED
    BY <2>1, <2>2, <2>3
<1>8. /\ \A i \in 1..all : Wire(left)[i] = IF i % 3 = 1 THEN left[(i + 2) \div 3] ELSE Newline
      /\ Wire(first) \in Seq(A) /\ Len(Wire(first)) = cut
      /\ \A i \in 1..cut : Wire(first)[i] = IF i % 3 = 1 THEN first[(i + 2) \div 3] ELSE Newline
      /\ Wire(rest) \in Seq(A) /\ Len(Wire(rest)) = all - cut
      /\ \A i \in 1..all - cut : Wire(rest)[i] = IF i % 3 = 1 THEN rest[(i + 2) \div 3] ELSE Newline
  <2>1. /\ 3 * Len(left) = all /\ 3 * Len(first) = cut /\ 3 * Len(rest) = all - cut
    BY <1>2, <1>3, <1>5, <1>6
  <2>2. QED
    BY <1>6, <1>7, <2>1
<1>9. PICK part, tail \in Seq(A) :
        /\ part = SubSeq(buf, 1, cut) /\ Len(part) = cut /\ \A i \in 1..cut : part[i] = buf[i]
        /\ tail = Rest(buf) /\ Len(tail) = b - cut /\ \A i \in 1..b - cut : tail[i] = buf[cut + i]
  <2>1. b = Len(buf) /\ cut \in 0..b /\ buf \in Seq(A)
    BY <1>2, <1>4, <1>5
  <2>2. PICK a, z \in Seq(A) : Parts(buf, b, cut, a, z)
    BY <2>1, CutSeq
  <2>3. z = Rest(buf)
    BY <1>2, <1>5, <2>2 DEF Rest, Parts
  <2>4. QED
    BY <2>2, <2>3 DEF Parts
<1>10. part = Wire(first)
  <2>1. \A i \in 1..cut : part[i] = Wire(first)[i]
    <3> SUFFICES ASSUME NEW i \in 1..cut PROVE part[i] = Wire(first)[i]
      OBVIOUS
    <3>1. i \in 1..all /\ i \in 1..b
      BY <1>5
    <3>2. part[i] = Wire(left)[i]
      BY <1>4, <1>9, <3>1
    <3>3. i % 3 = 1 => (i + 2) \div 3 \in 1..m
      BY <1>3, ThirdOf
    <3>4. QED
      BY <1>6, <1>8, <3>1, <3>2, <3>3
  <2>2. QED
    BY <1>8, <1>9, <2>1, SameSequence
<1>11. PICK whole \in Seq(A) :
         /\ whole = tail \o wire /\ Len(whole) = all - cut
         /\ \A i \in 1..b - cut : whole[i] = tail[i]
         /\ \A i \in 1..w : whole[(b - cut) + i] = wire[i]
  <2>1. PICK k : k = b - cut
    OBVIOUS
  <2>2. k = Len(tail) /\ w = Len(wire) /\ tail \in Seq(A) /\ wire \in Seq(A)
    BY <1>2, <1>4, <1>9, <2>1
  <2>3. /\ tail \o wire \in Seq(A) /\ Len(tail \o wire) = k + w
        /\ \A i \in 1..k : (tail \o wire)[i] = tail[i]
        /\ \A i \in 1..w : (tail \o wire)[k + i] = wire[i]
    BY <2>2, JoinSeq
  <2>4. k + w = all - cut
    BY <1>4, <2>1
  <2>5. QED
    BY <2>1, <2>3, <2>4
<1>12. whole = Wire(rest)
  <2>1. \A i \in 1..all - cut : whole[i] = Wire(rest)[i]
    <3> SUFFICES ASSUME NEW i \in 1..all - cut PROVE whole[i] = Wire(rest)[i]
      OBVIOUS
    <3>1. PICK j \in 1..all : j = cut + i
      BY <1>5
    <3>2. whole[i] = Wire(left)[j]
      <4>1. CASE i <= b - cut
        <5>1. i \in Nat /\ i >= 1
          OBVIOUS
        <5>2. i \in 1..b - cut
          BY <4>1, <5>1
        <5>3. j \in 1..b
          <6>1. j \in Nat /\ j >= 1 /\ j <= b
            BY <3>1, <4>1, <5>1
          <6>2. QED
            BY <6>1
        <5>4. whole[i] = tail[i] /\ tail[i] = buf[cut + i]
          BY <1>9, <1>11, <5>2
        <5>5. buf[j] = Wire(left)[j]
          BY <1>4, <5>3
        <5>6. QED
          BY <3>1, <5>4, <5>5
      <4>2. CASE ~(i <= b - cut)
        <5>1. PICK k : k = i - (b - cut)
          OBVIOUS
        <5>2. k \in 1..w /\ i = (b - cut) + k /\ j = b + k
          BY <1>4, <1>5, <3>1, <4>2, <5>1
        <5>3. QED
          BY <1>4, <1>11, <5>2
      <4>3. QED
        BY <4>1, <4>2
    <3>3. j % 3 = i % 3 /\ (j + 2) \div 3 = m + (i + 2) \div 3
      <4>1. i \in Nat /\ j = 3 * m + i
        BY <1>3, <3>1
      <4>2. (3 * m + i) % 3 = i % 3 /\ (3 * m + i + 2) \div 3 = m + (i + 2) \div 3
        BY <4>1, ThirdsOn
      <4>3. QED
        BY <4>1, <4>2
    <3>4. i % 3 = 1 => (i + 2) \div 3 \in 1..n
      BY <1>5, ThirdOf
    <3>5. Wire(left)[j] = IF i % 3 = 1 THEN left[m + (i + 2) \div 3] ELSE Newline
      BY <1>8, <3>3
    <3>6. QED
      BY <1>6, <1>8, <3>2, <3>4, <3>5
  <2>2. QED
    BY <1>8, <1>11, <2>1, SameSequence
<1>13. Cut(rest, Rest(buf), wire)
  BY <1>9, <1>11, <1>12 DEF Cut
<1>14. Ends(Rest(buf)) = {}
  <2>1. Rest(buf) \in Seq(S \cup {Newline})
    BY <1>1, <1>9
  <2>2. Ends(Rest(buf)) = {i \in 1..Len(Rest(buf)) : i % 3 = 0}
    BY <1>13, <2>1, EndsInWire
  <2>3. PICK k : k = Len(Rest(buf))
    OBVIOUS
  <2>4. k \in Nat /\ k <= 2
    BY <1>5, <1>9, <2>3
  <2>5. \A i \in 1..k : i % 3 # 0
    BY <2>4, Thirds
  <2>6. QED
    BY <2>2, <2>3, <2>5
<1>15. QED
  BY <1>1, <1>5, <1>6, <1>9, <1>10, <1>13, <1>14

-----------------------------------------------------------------------------
(* The stream of a run, whatever its script and however it is cut. *)

Tokens == (UNION {Range(script) : script \in Scripts}) \cup {Fatal}

(* What the wire carries. *)
Wired == Tokens \cup {Newline}

RunType == [pc : {"none", "asking", "streaming", "ended", "failed"}, events : Seq(Tokens),
            wire : Seq(Wired), buf : Seq(Wired), handled : Seq(Tokens)]

(* What has been handled, and then the data of what is left, are the events. *)
Due(events, handled, left) == events = handled \o Data(left)

(* What is left of the stream, in the buffer and on the wire, is the wire form
   of whole events that have not been handled; none is complete in the buffer. *)
Streamed(conn) ==
  \E left \in Seq(Tokens) :
    /\ Cut(left, conn.buf, conn.wire) /\ Ends(conn.buf) = {}
    /\ Due(conn.events, conn.handled, left)
    /\ conn.pc = "ended" => left = <<>>

StreamInv ==
  /\ run \in [Runs -> RunType]
  /\ \A r \in Runs :
       /\ Streamed(run[r])
       /\ run[r].pc \in {"none", "asking"} => run[r] = [NotRun EXCEPT !.pc = run[r].pc]

LEMMA DataOfTokens ==
  ASSUME NEW script \in Seq(Tokens)
  PROVE  Data(script) \in Seq(Tokens)
<1>1. Data(script) \in Seq({t \in Tokens : IsData(t)})
  BY DataType
<1>2. {t \in Tokens : IsData(t)} \subseteq Tokens
  OBVIOUS
<1> DEFINE D == {t \in Tokens : IsData(t)}
<1> HIDE DEF D
<1>3. QED
  BY <1>1, <1>2 DEF D

LEMMA TokensAreData ==
  /\ Newline \notin Tokens
  /\ \A script \in Scripts \cup {<<Fatal>>} : script \in Seq(Tokens) /\ Data(script) \in Seq(Tokens)
<1>1. \A script \in Scripts : \A t \in Range(script) : t.type # "newline"
  BY ScriptsAssumption DEF Range
<1>2. Fatal.type # "newline" /\ Newline.type = "newline"
  BY DEF Fatal, Newline
<1>3. Newline \notin Tokens
  BY <1>1, <1>2 DEF Tokens
<1>4. ASSUME NEW script \in Scripts \cup {<<Fatal>>} PROVE script \in Seq(Tokens)
  <2>1. CASE script \in Scripts
    <3>1. script \in Seq(Range(script)) /\ Range(script) \subseteq Tokens
      BY <2>1, ScriptsAssumption DEF Tokens
    <3> HIDE DEF Tokens
    <3>2. QED
      BY <3>1
  <2>2. CASE script = <<Fatal>>
    <3>1. Fatal \in Tokens
      BY DEF Tokens
    <3> HIDE DEF Tokens
    <3>2. QED
      BY <2>2, <3>1
  <2>3. QED
    BY <2>1, <2>2
<1>5. QED
  BY <1>3, <1>4, DataOfTokens

LEMMA NoneStreamed ==
  ASSUME NEW status \in {"none", "asking"}
  PROVE  [NotRun EXCEPT !.pc = status] \in RunType /\ Streamed([NotRun EXCEPT !.pc = status])
<1> DEFINE conn == [pc |-> status, events |-> <<>>, wire |-> <<>>, buf |-> <<>>, handled |-> <<>>]
<1>1. [NotRun EXCEPT !.pc = status] = conn
  BY DEF NotRun
<1>2. <<>> \in Seq(Tokens) /\ <<>> \in Seq(Wired)
  OBVIOUS
<1>3. Wire(<<>>) = <<>> /\ Ends(<<>>) = {} /\ Data(<<>>) = <<>>
  BY DataNone DEF Wire, Ends
<1>4. conn \in RunType
  BY <1>2 DEF RunType
<1>5. Streamed(conn)
  <2>1. <<>> \o <<>> = <<>> /\ conn.pc # "ended"
    OBVIOUS
  <2>2. Cut(<<>>, conn.buf, conn.wire) /\ Ends(conn.buf) = {} /\ Due(conn.events, conn.handled, <<>>)
    BY <1>3, <2>1 DEF Cut, Due
  <2> HIDE DEF conn
  <2>3. QED
    BY <1>2, <2>1, <2>2 DEF Streamed
<1>6. QED
  BY <1>1, <1>4, <1>5

LEMMA ConcatThree ==
  ASSUME NEW S, NEW a \in Seq(S), NEW b \in Seq(S), NEW c \in Seq(S)
  PROVE  a \o (b \o c) = (a \o b) \o c
OBVIOUS

(* A piece leaves the wire for the buffer: nothing between them is lost. *)
Filled(have, wire, n) == have \o SubSeq(wire, 1, n)
Ahead(wire, n) == SubSeq(wire, n + 1, Len(wire))

LEMMA PieceMoves ==
  ASSUME NEW A, NEW left, NEW have \in Seq(A), NEW wire \in Seq(A), Cut(left, have, wire),
         NEW n \in 1..Len(wire)
  PROVE  /\ Filled(have, wire, n) \in Seq(A) /\ Ahead(wire, n) \in Seq(A)
         /\ Cut(left, Filled(have, wire, n), Ahead(wire, n))
<1>1. PICK w \in Nat : w = Len(wire) /\ n \in 0..w
  OBVIOUS
<1>2. PICK a, z \in Seq(A) : Parts(wire, w, n, a, z)
  BY <1>1, CutSeq
<1>3. wire = a \o z
  BY <1>1, <1>2, PartsJoin
<1>4. have \o (a \o z) = (have \o a) \o z
  BY ConcatThree
<1>5. Cut(left, have \o a, z)
  BY <1>3, <1>4 DEF Cut
<1>6. a = SubSeq(wire, 1, n) /\ z = SubSeq(wire, n + 1, Len(wire))
  BY <1>1, <1>2 DEF Parts
<1>7. have \o a \in Seq(A)
  OBVIOUS
<1>8. QED
  BY <1>5, <1>6, <1>7 DEF Filled, Ahead

LEMMA PiecesOfStream ==
  ASSUME NEW left \in Seq(Tokens), NEW buf \in Seq(Wired), NEW wire \in Seq(Wired), Cut(left, buf, wire)
  PROVE  \E first \in Seq(Tokens), rest \in Seq(Tokens) :
           /\ left = first \o rest
           /\ SubSeq(buf, 1, LastEnd(buf)) = Wire(first)
           /\ Rest(buf) \in Seq(Wired) /\ Cut(rest, Rest(buf), wire)
           /\ Ends(Rest(buf)) = {}
<1>1. Newline \notin Tokens
  BY TokensAreData
<1>2. buf \in Seq(Tokens \cup {Newline}) /\ wire \in Seq(Tokens \cup {Newline})
  BY DEF Wired
<1>3. QED
  BY <1>1, <1>2, Pieces DEF Wired

LEMMA DueOnward ==
  ASSUME NEW handled \in Seq(Tokens), NEW x \in Seq(Tokens), NEW y \in Seq(Tokens), NEW events, NEW left, NEW rest,
         Due(events, handled, left), Data(left) = x \o y, Data(rest) = y
  PROVE  Due(events, handled \o x, rest)
<1>1. handled \o (x \o y) = (handled \o x) \o y
  BY ConcatThree
<1>2. QED
  BY <1>1 DEF Due

(* What it completes is next in the stream. *)
LEMMA PieceCompletes ==
  ASSUME NEW left \in Seq(Tokens), NEW buf \in Seq(Wired), NEW wire \in Seq(Wired),
         Cut(left, buf, wire), NEW handled \in Seq(Tokens), NEW events, Due(events, handled, left)
  PROVE  \E more \in Seq(Tokens), rest \in Seq(Tokens) :
           /\ Complete(buf) = more /\ handled \o more \in Seq(Tokens) /\ Due(events, handled \o more, rest)
           /\ Rest(buf) \in Seq(Wired) /\ Cut(rest, Rest(buf), wire) /\ Ends(Rest(buf)) = {}
<1>2. PICK first \in Seq(Tokens), rest \in Seq(Tokens) :
        /\ left = first \o rest
        /\ SubSeq(buf, 1, LastEnd(buf)) = Wire(first)
        /\ Rest(buf) \in Seq(Wired) /\ Cut(rest, Rest(buf), wire)
        /\ Ends(Rest(buf)) = {}
  BY PiecesOfStream
<1>3. Complete(buf) = Data(first)
  BY <1>2, WireData DEF Complete
<1>4. PICK x, y \in Seq(Tokens) : x = Data(first) /\ y = Data(rest)
  BY DataOfTokens
<1>5. Data(left) = x \o y
  BY <1>2, <1>4, DataConcat
<1>6. handled \o x \in Seq(Tokens)
  OBVIOUS
<1>7. Due(events, handled \o x, rest)
  BY <1>4, <1>5, DueOnward
<1>8. QED
  BY <1>2, <1>3, <1>4, <1>6, <1>7

(* One read of a stream: Receive's change to its run. *)
Read(conn, n, buf, next) ==
  /\ buf = Filled(conn.buf, conn.wire, n)
  /\ next = [conn EXCEPT !.wire = Ahead(@, n), !.buf = Rest(buf), !.handled = @ \o Complete(buf)]

LEMMA PieceStreamed ==
  ASSUME NEW conn \in RunType, Streamed(conn), conn.pc = "streaming", NEW n \in 1..Len(conn.wire),
         NEW buf, NEW next, Read(conn, n, buf, next)
  PROVE  \E more \in Seq(Tokens) :
           /\ next \in RunType /\ Streamed(next) /\ Complete(buf) = more /\ next.pc = "streaming"
           /\ next.events = conn.events /\ next.handled = conn.handled \o more
<1>1. PICK left \in Seq(Tokens) : /\ Cut(left, conn.buf, conn.wire)
                                  /\ Due(conn.events, conn.handled, left)
  BY DEF Streamed
<1>2. conn.buf \in Seq(Wired) /\ conn.wire \in Seq(Wired)
      /\ conn.handled \in Seq(Tokens) /\ conn.events \in Seq(Tokens)
      /\ conn = [pc |-> "streaming", events |-> conn.events, wire |-> conn.wire, buf |-> conn.buf,
                 handled |-> conn.handled]
  BY DEF RunType
<1>3. PICK have, line, done : have = conn.buf /\ line = conn.wire /\ done = conn.handled
  OBVIOUS
<1>4. PICK z \in Seq(Wired) : z = Ahead(line, n) /\ Cut(left, Filled(have, line, n), z)
      /\ Filled(have, line, n) \in Seq(Wired)
  <2>1. have \in Seq(Wired) /\ line \in Seq(Wired) /\ n \in 1..Len(line) /\ Cut(left, have, line)
    BY <1>1, <1>2, <1>3
  <2>2. /\ Filled(have, line, n) \in Seq(Wired) /\ Ahead(line, n) \in Seq(Wired)
        /\ Cut(left, Filled(have, line, n), Ahead(line, n))
    BY <2>1, PieceMoves
  <2>3. QED
    BY <2>2
<1>5. buf = Filled(have, line, n) /\ buf \in Seq(Wired) /\ Cut(left, buf, z)
  BY <1>3, <1>4 DEF Read
<1>6. PICK more \in Seq(Tokens), rest \in Seq(Tokens) :
        /\ Complete(buf) = more /\ done \o more \in Seq(Tokens) /\ Due(conn.events, done \o more, rest)
        /\ Rest(buf) \in Seq(Wired) /\ Cut(rest, Rest(buf), z) /\ Ends(Rest(buf)) = {}
  <2>1. done \in Seq(Tokens) /\ Due(conn.events, done, left)
    BY <1>1, <1>2, <1>3
  <2>2. PICK events : events = conn.events
    OBVIOUS
  <2>3. Due(events, done, left) /\ done \in Seq(Tokens)
    BY <2>1, <2>2
  <2>4. \E more \in Seq(Tokens), rest \in Seq(Tokens) :
          /\ Complete(buf) = more /\ done \o more \in Seq(Tokens) /\ Due(events, done \o more, rest)
          /\ Rest(buf) \in Seq(Wired) /\ Cut(rest, Rest(buf), z) /\ Ends(Rest(buf)) = {}
    BY <1>5, <2>3, PieceCompletes
  <2>5. QED
    BY <2>2, <2>4
<1>7. PICK grown \in Seq(Tokens) : grown = done \o more
  BY <1>6
<1>8. next = [pc |-> "streaming", events |-> conn.events, wire |-> z, buf |-> Rest(buf), handled |-> grown]
  <2>1. next = [conn EXCEPT !.wire = z, !.buf = Rest(buf), !.handled = grown]
    BY <1>3, <1>4, <1>6, <1>7 DEF Read
  <2>2. QED
    BY <1>2, <2>1
<1>9. next \in RunType
  BY <1>2, <1>4, <1>6, <1>7, <1>8 DEF RunType
<1>10. Streamed(next)
  <2>1. Cut(rest, next.buf, next.wire) /\ Ends(next.buf) = {} /\ next.pc # "ended"
    BY <1>6, <1>8
  <2>2. Due(next.events, next.handled, rest)
    BY <1>6, <1>7, <1>8
  <2>3. QED
    BY <2>1, <2>2 DEF Streamed
<1>11. next.handled = conn.handled \o more
  BY <1>3, <1>7, <1>8
<1>12. QED
  BY <1>6, <1>8, <1>9, <1>10, <1>11

(* A stream that is read to its end leaves nothing behind. *)
LEMMA EndStreamed ==
  ASSUME NEW conn \in RunType, Streamed(conn), conn.pc = "streaming", conn.wire = <<>>
  PROVE  [conn EXCEPT !.pc = "ended"] \in RunType /\ Streamed([conn EXCEPT !.pc = "ended"])
<1>1. PICK left \in Seq(Tokens) : /\ Cut(left, conn.buf, conn.wire) /\ Ends(conn.buf) = {}
                                  /\ Due(conn.events, conn.handled, left)
  BY DEF Streamed
<1>2. PICK buf \in Seq(Wired) : buf = conn.buf
  BY DEF RunType
<1>3. PICK k \in Nat : k = Len(buf)
  OBVIOUS
<1>4. Cut(left, buf, <<>>) /\ <<>> \in Seq(Wired) /\ Newline \notin Tokens
  BY <1>1, <1>2, TokensAreData
<1>5. Ends(buf) = {i \in 1..k : i % 3 = 0}
  <2>1. buf \in Seq(Tokens \cup {Newline}) /\ <<>> \in Seq(Tokens \cup {Newline})
    BY DEF Wired
  <2>2. QED
    BY <1>3, <1>4, <2>1, EndsInWire
<1>6. k = 3 * Len(left)
  <2>1. Len(Wire(left)) = 3 * Len(left)
    BY <1>4, WireAt
  <2>2. Len(Wire(left)) = Len(buf) + Len(<<>>)
    <3>1. PICK none \in Seq(Wired) : none = <<>>
      BY <1>4
    <3>2. Cut(left, buf, none)
      BY <1>4, <3>1
    <3>3. Len(Wire(left)) = Len(buf) + Len(none)
      BY <3>2, CutParts
    <3>4. QED
      BY <3>1, <3>3
  <2>3. QED
    BY <1>3, <2>1, <2>2
<1>7. Len(left) = 0
  <2>1. Len(left) # 0 => 3 \in {i \in 1..k : i % 3 = 0}
    BY <1>6
  <2>2. QED
    BY <1>1, <1>2, <1>5, <2>1
<1>8. left = <<>>
  BY <1>7
<1>9. [conn EXCEPT !.pc = "ended"] \in RunType
  BY DEF RunType
<1>10. LET ended == [conn EXCEPT !.pc = "ended"] IN
         /\ ended.buf = conn.buf /\ ended.wire = conn.wire /\ ended.events = conn.events
         /\ ended.handled = conn.handled
  BY DEF RunType
<1>11. QED
  BY <1>1, <1>8, <1>9, <1>10 DEF Streamed

LEMMA FailStreamed ==
  ASSUME NEW conn \in RunType, Streamed(conn)
  PROVE  [conn EXCEPT !.pc = "failed"] \in RunType /\ Streamed([conn EXCEPT !.pc = "failed"])
<1>1. [conn EXCEPT !.pc = "failed"] \in RunType
  BY DEF RunType
<1>2. LET failed == [conn EXCEPT !.pc = "failed"] IN
        /\ failed.buf = conn.buf /\ failed.wire = conn.wire /\ failed.events = conn.events
        /\ failed.handled = conn.handled /\ failed.pc # "ended"
  BY DEF RunType
<1>3. QED
  BY <1>1, <1>2 DEF Streamed

(* Runs start one after the other. *)
StartInv ==
  /\ started \in 0..MaxRuns
  /\ \A r \in Runs : r > started => run[r].pc = "none"

LEMMA StartStreamed ==
  ASSUME StreamInv, StartInv, StartRun
  PROVE  StreamInv' /\ StartInv' /\ started + 1 \in Runs /\ run' \in [Runs -> RunType]
         /\ \A r \in Runs : run'[r] = IF r = started + 1 THEN [NotRun EXCEPT !.pc = "asking"] ELSE run[r]
<1>1. started + 1 \in Runs /\ run[started + 1].pc = "none"
  BY ViewAssumption DEF StartInv, StartRun, Runs
<1>2. run[started + 1] = NotRun
  <2>1. run[started + 1] = [NotRun EXCEPT !.pc = run[started + 1].pc]
    BY <1>1 DEF StreamInv
  <2>2. QED
    BY <1>1, <2>1 DEF NotRun
<1>3. run' = [run EXCEPT ![started + 1] = [NotRun EXCEPT !.pc = "asking"]]
  BY <1>2 DEF StartRun, StreamInv
<1>4. [NotRun EXCEPT !.pc = "asking"].pc = "asking"
  BY DEF NotRun
<1>5. \A r \in Runs : run'[r] = IF r = started + 1 THEN [NotRun EXCEPT !.pc = "asking"] ELSE run[r]
  BY <1>1, <1>3 DEF StreamInv
<1>6. run' \in [Runs -> RunType]
  BY <1>3, NoneStreamed DEF StreamInv
<1>7. \A r \in Runs : Streamed(run'[r])
                      /\ (run'[r].pc \in {"none", "asking"} => run'[r] = [NotRun EXCEPT !.pc = run'[r].pc])
  <2> SUFFICES ASSUME NEW r \in Runs
               PROVE  Streamed(run'[r])
                      /\ (run'[r].pc \in {"none", "asking"} => run'[r] = [NotRun EXCEPT !.pc = run'[r].pc])
    OBVIOUS
  <2>1. CASE r = started + 1
    BY <1>4, <1>5, <2>1, NoneStreamed
  <2>2. CASE r # started + 1
    BY <1>5, <2>2 DEF StreamInv
  <2>3. QED
    BY <2>1, <2>2
<1>8. StartInv'
  BY <1>5, ViewAssumption DEF StartInv, StartRun, Runs
<1>9. QED
  BY <1>1, <1>5, <1>6, <1>7, <1>8 DEF StreamInv

(* One run's stream changes, and keeps what is true of it. *)
LEMMA OneStreamed ==
  ASSUME StreamInv, StartInv, NEW r \in Runs, run[r].pc # "none", NEW next \in RunType, Streamed(next),
         next.pc \notin {"none", "asking"}, run' = [run EXCEPT ![r] = next], UNCHANGED started
  PROVE  StreamInv' /\ StartInv'
<1>1. \A o \in Runs : run'[o] = IF o = r THEN next ELSE run[o]
  BY DEF StreamInv
<1>2. run' \in [Runs -> RunType]
  BY DEF StreamInv
<1>3. \A o \in Runs : Streamed(run'[o])
                      /\ (run'[o].pc \in {"none", "asking"} => run'[o] = [NotRun EXCEPT !.pc = run'[o].pc])
  BY <1>1 DEF StreamInv
<1>4. StartInv'
  BY <1>1 DEF StartInv
<1>5. QED
  BY <1>2, <1>3, <1>4 DEF StreamInv

LEMMA RespondStreamed ==
  ASSUME StreamInv, StartInv, NEW r \in Runs, Respond(r)
  PROVE  StreamInv' /\ StartInv'
         /\ \E script \in Scripts \cup {<<Fatal>>} :
              run' = [run EXCEPT ![r] = [pc |-> "streaming", events |-> Data(script), wire |-> Wire(script),
                                         buf |-> <<>>, handled |-> <<>>]]
<1>1. PICK script \in Scripts \cup {<<Fatal>>} :
        run' = [run EXCEPT ![r].pc = "streaming", ![r].events = Data(script), ![r].wire = Wire(script)]
  BY DEF Respond
<1>0. PICK data, wire : data = Data(script) /\ wire = Wire(script)
  OBVIOUS
<1> DEFINE next == [pc |-> "streaming", events |-> data, wire |-> wire, buf |-> <<>>, handled |-> <<>>]
<1>2. run[r] = [NotRun EXCEPT !.pc = "asking"] /\ run[r].pc = "asking"
  BY DEF Respond, StreamInv
<1>3. run[r] = [pc |-> "asking", events |-> <<>>, wire |-> <<>>, buf |-> <<>>, handled |-> <<>>]
  BY <1>2 DEF NotRun
<1>4. run' = [run EXCEPT ![r] = next]
  <2>1. run' = [run EXCEPT ![r] = [run[r] EXCEPT !.pc = "streaming", !.events = data, !.wire = wire]]
    BY <1>0, <1>1 DEF StreamInv
  <2>2. [run[r] EXCEPT !.pc = "streaming", !.events = data, !.wire = wire] = next
    <3>1. PICK conn : conn = run[r]
      OBVIOUS
    <3>2. conn = [pc |-> "asking", events |-> <<>>, wire |-> <<>>, buf |-> <<>>, handled |-> <<>>]
      BY <1>3, <3>1
    <3>3. PICK c1 : c1 = [conn EXCEPT !.pc = "streaming"]
      OBVIOUS
    <3>4. c1 = [pc |-> "streaming", events |-> <<>>, wire |-> <<>>, buf |-> <<>>, handled |-> <<>>]
      BY <3>2, <3>3
    <3>5. PICK c2 : c2 = [c1 EXCEPT !.events = data]
      OBVIOUS
    <3>6. c2 = [pc |-> "streaming", events |-> data, wire |-> <<>>, buf |-> <<>>, handled |-> <<>>]
      BY <3>4, <3>5
    <3>7. [c2 EXCEPT !.wire = wire] = next
      BY <3>6
    <3>8. QED
      BY <3>1, <3>3, <3>5, <3>7
  <2>3. QED
    BY <2>1, <2>2
<1>5. script \in Seq(Tokens) /\ data \in Seq(Tokens) /\ wire \in Seq(Wired)
  BY <1>0, TokensAreData, WireData DEF Wired
<1>6. next \in RunType /\ next.pc = "streaming"
  <2>1. <<>> \in Seq(Tokens) /\ <<>> \in Seq(Wired)
    OBVIOUS
  <2>2. QED
    BY <1>5, <2>1 DEF RunType
<1>7. Streamed(next)
  <2>1. Cut(script, <<>>, wire) /\ Due(data, <<>>, script)
    <3>1. wire \in Seq(Wired) /\ data \in Seq(Tokens)
      BY <1>5
    <3>2. <<>> \o wire = wire /\ <<>> \o data = data
      BY <3>1
    <3>3. QED
      BY <1>0, <3>2 DEF Cut, Due
  <2>2. next.buf = <<>> /\ next.wire = wire /\ next.events = data /\ next.handled = <<>> /\ next.pc # "ended"
    OBVIOUS
  <2>3. Ends(<<>>) = {}
    BY DEF Ends
  <2> HIDE DEF next
  <2>4. QED
    BY <1>5, <2>1, <2>2, <2>3 DEF Streamed
<1>8. StreamInv' /\ StartInv'
  <2> HIDE DEF next
  <2>1. UNCHANGED started
    BY DEF Respond
  <2>2. QED
    BY <1>2, <1>4, <1>6, <1>7, <2>1, OneStreamed
<1>9. QED
  BY <1>0, <1>4, <1>8

LEMMA ReceiveStreamed ==
  ASSUME StreamInv, StartInv, NEW r \in Runs, Receive(r)
  PROVE  StreamInv' /\ StartInv'
         /\ \E seen \in Seq(Tokens) :
              /\ run'[r].events = run[r].events /\ run'[r].handled = run[r].handled \o seen
              /\ run'[r].pc = "streaming" /\ run' = [run EXCEPT ![r] = run'[r]]
              /\ pane' = HandleAll([pane |-> pane, spins |-> spins], r, seen).pane
<1>1. PICK n \in 1..Len(run[r].wire) :
        LET b == run[r].buf \o SubSeq(run[r].wire, 1, n) IN
        /\ run' = [run EXCEPT ![r].wire = SubSeq(@, n + 1, Len(@)), ![r].buf = Rest(b),
                              ![r].handled = @ \o Complete(b)]
        /\ pane' = HandleAll([pane |-> pane, spins |-> spins], r, Complete(b)).pane
  BY DEF Receive
<1>2. PICK buf, next : /\ Read(run[r], n, buf, next) /\ run' = [run EXCEPT ![r] = next]
                       /\ pane' = HandleAll([pane |-> pane, spins |-> spins], r, Complete(buf)).pane
  <2>1. PICK buf : buf = run[r].buf \o SubSeq(run[r].wire, 1, n)
    OBVIOUS
  <2>2. PICK next : next = [run[r] EXCEPT !.wire = SubSeq(@, n + 1, Len(@)), !.buf = Rest(buf),
                                          !.handled = @ \o Complete(buf)]
    OBVIOUS
  <2>3. Read(run[r], n, buf, next)
    BY <2>1, <2>2 DEF Read, Filled, Ahead
  <2>4. run' = [run EXCEPT ![r] = next]
    BY <1>1, <2>1, <2>2 DEF StreamInv
  <2>5. QED
    BY <1>1, <2>1, <2>3, <2>4
<1>3. run[r] \in RunType /\ Streamed(run[r]) /\ run[r].pc = "streaming" /\ UNCHANGED started
  BY DEF StreamInv, Receive
<1>4. PICK seen \in Seq(Tokens) :
        /\ next \in RunType /\ Streamed(next) /\ Complete(buf) = seen /\ next.pc = "streaming"
        /\ next.events = run[r].events /\ next.handled = run[r].handled \o seen
  <2>1. PICK conn : conn = run[r]
    OBVIOUS
  <2>2. conn \in RunType /\ Streamed(conn) /\ conn.pc = "streaming" /\ n \in 1..Len(conn.wire) /\ Read(conn, n, buf, next)
    BY <1>2, <1>3, <2>1
  <2>3. \E more \in Seq(Tokens) :
          /\ next \in RunType /\ Streamed(next) /\ Complete(buf) = more /\ next.pc = "streaming"
          /\ next.events = conn.events /\ next.handled = conn.handled \o more
    BY <2>2, PieceStreamed
  <2>4. QED
    BY <2>1, <2>3
<1>5. run'[r] = next /\ run' = [run EXCEPT ![r] = run'[r]]
  BY <1>2 DEF StreamInv
<1>6. StreamInv' /\ StartInv'
  BY <1>2, <1>3, <1>4, OneStreamed
<1>7. QED
  BY <1>2, <1>4, <1>5, <1>6

LEMMA FinishStreamed ==
  ASSUME StreamInv, StartInv, NEW r \in Runs, StreamEnds(r) \/ RequestFails(r)
  PROVE  /\ StreamInv' /\ StartInv' /\ button'
         /\ \E status \in {"ended", "failed"} : run' = [run EXCEPT ![r] = [run[r] EXCEPT !.pc = status]]
         /\ run'[r].pc \notin {"none", "asking", "streaming"}
<1>1. PICK status \in {"ended", "failed"} : /\ Finish(r, status) /\ run[r].pc \in {"asking", "streaming"}
                                            /\ status = "ended" => run[r].wire = <<>> /\ run[r].pc = "streaming"
  BY DEF StreamEnds, RequestFails
<1>2. run[r] \in RunType /\ Streamed(run[r])
  BY DEF StreamInv
<1>3. [run[r] EXCEPT !.pc = status] \in RunType /\ Streamed([run[r] EXCEPT !.pc = status])
  BY <1>1, <1>2, EndStreamed, FailStreamed
<1>4. run' = [run EXCEPT ![r] = [run[r] EXCEPT !.pc = status]] /\ button' /\ UNCHANGED started
  BY <1>1 DEF Finish, StreamInv
<1>5. [run[r] EXCEPT !.pc = status].pc = status
  BY <1>2 DEF RunType
<1>6. StreamInv' /\ StartInv'
  <2>1. PICK next : next = [run[r] EXCEPT !.pc = status]
    OBVIOUS
  <2>2. QED
    BY <1>1, <1>3, <1>4, <1>5, <2>1, OneStreamed
<1>7. run'[r].pc = status
  BY <1>4, <1>5 DEF StreamInv
<1>8. QED
  BY <1>4, <1>6, <1>7

LEMMA StreamStep == ASSUME StreamInv, StartInv, [NextView]_panel PROVE StreamInv' /\ StartInv'
<1>1. CASE UNCHANGED panel
  BY <1>1 DEF panel, StreamInv, StartInv
<1>2. CASE Click
  BY <1>2, StartStreamed DEF Click
<1>3. CASE HealthAnswers
  <2>1. CASE StartRun
    BY <2>1, StartStreamed
  <2>2. CASE UNCHANGED <<started, run, pane, spins>>
    BY <2>2 DEF StreamInv, StartInv
  <2>3. QED
    BY <1>3, <2>1, <2>2 DEF HealthAnswers
<1>4. ASSUME NEW r \in Runs, Respond(r) PROVE StreamInv' /\ StartInv'
  BY <1>4, RespondStreamed
<1>5. ASSUME NEW r \in Runs, Receive(r) PROVE StreamInv' /\ StartInv'
  BY <1>5, ReceiveStreamed
<1>6. ASSUME NEW r \in Runs, StreamEnds(r) \/ RequestFails(r) PROVE StreamInv' /\ StartInv'
  BY <1>6, FinishStreamed
<1>7. QED
  BY <1>1, <1>2, <1>3, <1>4, <1>5, <1>6 DEF NextView

LEMMA StreamInit == InitView => StreamInv /\ StartInv
<1>1. NotRun = [NotRun EXCEPT !.pc = "none"] /\ NotRun.pc = "none"
  BY DEF NotRun
<1>2. NotRun \in RunType /\ Streamed(NotRun)
  BY <1>1, NoneStreamed
<1>3. QED
  BY <1>1, <1>2, ViewAssumption DEF InitView, StreamInv, StartInv

(* However the network cuts a run's stream (consumeSse), each of its events is
   handled once, whole and in order, and a stream that ended was handled to
   its last event: for any scripts and any number of runs. *)
THEOREM EventsInOrder == ViewSpec => []EventsOnceInOrder
<1>1. ASSUME StreamInv PROVE EventsOnceInOrder
  <2> SUFFICES ASSUME NEW r \in Runs
               PROVE  /\ run[r].handled = SubSeq(run[r].events, 1, Len(run[r].handled))
                      /\ run[r].pc = "ended" => run[r].handled = run[r].events
    BY DEF EventsOnceInOrder
  <2>1. PICK left \in Seq(Tokens) : /\ run[r].events = run[r].handled \o Data(left)
                                    /\ run[r].pc = "ended" => left = <<>>
    BY <1>1 DEF StreamInv, Streamed, Due
  <2>2. run[r].handled \in Seq(Tokens)
    BY <1>1 DEF StreamInv, RunType
  <2>3. PICK x \in Seq({t \in Tokens : IsData(t)}) : x = Data(left)
    BY DataType
  <2>4. x \in Seq(Tokens)
    <3> DEFINE D == {t \in Tokens : IsData(t)}
    <3>1. D \subseteq Tokens /\ x \in Seq(D)
      OBVIOUS
    <3> HIDE DEF D
    <3>2. QED
      BY <3>1
  <2>5. \A a \in Seq(Tokens) : a = SubSeq(a \o x, 1, Len(a)) /\ a \o <<>> = a
    BY <2>4
  <2>6. run[r].pc = "ended" => x = <<>>
    BY <2>1, <2>3, DataNone
  <2>7. QED
    BY <2>1, <2>2, <2>3, <2>5, <2>6
<1>2. QED
  BY <1>1, StreamInit, StreamStep, PTL DEF ViewSpec

-----------------------------------------------------------------------------
(* The panes. *)

Failed == [type |-> "failed"]
NodeType == [run : Runs, event : Tokens \cup {Failed}, results : Seq([run : Runs, event : Tokens])]

NodeOK(node, r) ==
  /\ node.run = r /\ node.event.type # "tool_result" /\ Len(node.results) <= 1
  /\ \A k \in DOMAIN node.results : /\ node.results[k].run = node.run
                                    /\ node.results[k].event.call = node.event.call

PanesOK(body, r) ==
  /\ body \in [Arms -> Seq(NodeType)]
  /\ \A a \in Arms : \A i \in DOMAIN body[a] : NodeOK(body[a][i], r)

(* A call just handled is the last node of its arm: its result will find it. *)
Opened(body, r, seen) ==
  seen # <<>> /\ seen[Len(seen)].type = "tool_call" =>
    LET call == seen[Len(seen)] IN
      body[call.arm] # <<>> /\ body[call.arm][Len(body[call.arm])] = Node(r, call)

LEMMA TokensInArms ==
  \A t \in Tokens :
    t.type \in {"arm_start", "prompting", "tool_call", "tool_result", "sql", "arm_done", "arm_error"}
      => t.arm \in Arms
<1>1. Fatal.type = "fatal"
  BY DEF Fatal
<1>2. \A script \in Scripts : \A t \in Range(script) :
        t.type \in {"arm_start", "prompting", "tool_call", "tool_result", "sql", "arm_done", "arm_error"}
          => t.arm \in Arms
  BY ScriptsAssumption DEF Range
<1>3. QED
  BY <1>1, <1>2 DEF Tokens

LEMMA NewNode ==
  ASSUME NEW r \in Runs, NEW ev \in Tokens \cup {Failed}, ev.type # "tool_result"
  PROVE  Node(r, ev) \in NodeType /\ NodeOK(Node(r, ev), r)
<1>1. <<>> \in Seq([run : Runs, event : Tokens]) /\ Len(<<>>) = 0 /\ DOMAIN <<>> = {}
  OBVIOUS
<1>2. QED
  BY <1>1 DEF Node, NodeType, NodeOK

(* Appending a node to an arm's pane. *)
Added(body, a, node, next) == next = [body EXCEPT ![a] = Append(@, node)]

LEMMA NodeAdded ==
  ASSUME NEW r \in Runs, NEW body, PanesOK(body, r), NEW a \in Arms,
         NEW node \in NodeType, NodeOK(node, r),
         NEW next, Added(body, a, node, next)
  PROVE  PanesOK(next, r) /\ next[a] # <<>> /\ next[a][Len(next[a])] = node
<1>1. body[a] \in Seq(NodeType)
  BY DEF PanesOK
<1>2. next[a] = Append(body[a], node) /\ \A o \in Arms : o # a => next[o] = body[o]
  BY DEF PanesOK, Added
<1>3. Append(body[a], node) \in Seq(NodeType) /\ Append(body[a], node) # <<>>
      /\ Append(body[a], node)[Len(Append(body[a], node))] = node
      /\ \A i \in DOMAIN Append(body[a], node) :
           Append(body[a], node)[i] = node \/ (i \in DOMAIN body[a] /\ Append(body[a], node)[i] = body[a][i])
  BY <1>1
<1>4. PICK grown : grown = Append(body[a], node)
  OBVIOUS
<1>5. next = [body EXCEPT ![a] = grown] /\ grown \in Seq(NodeType)
  BY <1>3, <1>4 DEF Added
<1>6. next \in [Arms -> Seq(NodeType)]
  BY <1>5 DEF PanesOK
<1>7. \A i \in DOMAIN grown : grown[i] = node \/ (i \in DOMAIN body[a] /\ grown[i] = body[a][i])
  BY <1>3, <1>4
<1>8. \A o \in Arms : \A i \in DOMAIN next[o] : NodeOK(next[o][i], r)
  BY <1>2, <1>4, <1>7 DEF PanesOK
<1>9. QED
  BY <1>2, <1>3, <1>6, <1>8 DEF PanesOK

(* The result of the call just handled goes to that call's node. *)
LEMMA ResultAttached ==
  ASSUME NEW r \in Runs, NEW body, PanesOK(body, r), NEW ev \in Tokens, NEW call, IsCallOf(call, ev),
         ev.arm \in Arms, body[ev.arm] # <<>>, body[ev.arm][Len(body[ev.arm])] = Node(r, call),
         NEW next, next = [body EXCEPT ![ev.arm] = Attach(@, r, ev)]
  PROVE  PanesOK(next, r)
<1> DEFINE nodes == body[ev.arm]
           result == [run |-> r, event |-> ev]
<1>1. nodes \in Seq(NodeType) /\ \A i \in DOMAIN nodes : NodeOK(nodes[i], r)
  BY DEF PanesOK
<1>2. PICK n \in Nat : n = Len(nodes) /\ DOMAIN nodes = 1..n /\ n > 0
  BY <1>1
<1>3. nodes[n] = Node(r, call)
  BY <1>2
<1> HIDE DEF nodes
<1>4. nodes[n].event = call /\ nodes[n].results = <<>> /\ nodes[n].run = r
  BY <1>3 DEF Node
<1>5. n \in Owners(nodes, ev) /\ Owners(nodes, ev) \subseteq 1..n
  BY <1>2, <1>4 DEF Owners, IsCallOf
<1>6. Max(Owners(nodes, ev)) = n
  <2>1. PICK T : T = Owners(nodes, ev)
    OBVIOUS
  <2>2. n \in T /\ T \subseteq Nat /\ \A x \in T : x <= n
    BY <1>5, <2>1
  <2>3. QED
    BY <2>1, <2>2, MaxIs
<1>7. Attach(nodes, r, ev) = [nodes EXCEPT ![n].results = Append(@, result)]
  BY <1>5, <1>6 DEF Attach
<1> DEFINE node == [nodes[n] EXCEPT !.results = <<result>>]
<1>8. Attach(nodes, r, ev) = [nodes EXCEPT ![n] = node]
  <2>1. Append(<<>>, result) = <<result>>
    OBVIOUS
  <2>2. QED
    BY <1>1, <1>2, <1>4, <1>7, <2>1
<1>9. node \in NodeType /\ NodeOK(node, r)
  <2>1. nodes[n] \in NodeType
    BY <1>1, <1>2
  <2>2. <<result>> \in Seq([run : Runs, event : Tokens]) /\ Len(<<result>>) = 1 /\ DOMAIN <<result>> = {1}
        /\ <<result>>[1] = result
    OBVIOUS
  <2>3. node.results = <<result>> /\ node.run = r /\ node.event = call
    BY <1>4, <2>1 DEF NodeType
  <2>4. node \in NodeType
    BY <2>1, <2>2 DEF NodeType
  <2>5. call.type = "tool_call" /\ call.call = ev.call
    BY DEF IsCallOf
  <2> HIDE DEF node
  <2>6. QED
    BY <2>2, <2>3, <2>4, <2>5 DEF NodeOK
<1> HIDE DEF node
<1>10. PICK grown : grown = [nodes EXCEPT ![n] = node]
  OBVIOUS
<1>11. grown \in Seq(NodeType) /\ \A i \in DOMAIN grown : i \in DOMAIN nodes /\ (grown[i] = node \/ grown[i] = nodes[i])
  BY <1>1, <1>2, <1>9, <1>10
<1>12. next = [body EXCEPT ![ev.arm] = grown]
  BY <1>8, <1>10 DEF PanesOK, nodes
<1>13. next \in [Arms -> Seq(NodeType)]
  BY <1>11, <1>12 DEF PanesOK
<1>14. \A o \in Arms : \A i \in DOMAIN next[o] : NodeOK(next[o][i], r)
  BY <1>1, <1>9, <1>11, <1>12 DEF PanesOK
<1>15. QED
  BY <1>13, <1>14 DEF PanesOK

(* What handleEvent works on, after the events seen of run r. *)
ViewOK(view, r, seen) ==
  \E body, marks : view = [pane |-> body, spins |-> marks] /\ PanesOK(body, r) /\ Opened(body, r, seen)

Follows(ev, seen) == ev.type = "tool_result" => seen # <<>> /\ IsCallOf(seen[Len(seen)], ev)

LEMMA ViewMade ==
  ASSUME NEW r, NEW seen, NEW body, NEW marks, PanesOK(body, r), Opened(body, r, seen)
  PROVE  ViewOK([pane |-> body, spins |-> marks], r, seen)
BY DEF ViewOK

(* The panes after one more event of the run that is shown. *)
LEMMA EventHandled ==
  ASSUME NEW r \in Runs, NEW view, NEW seen \in Seq(Tokens), ViewOK(view, r, seen), NEW ev \in Tokens, Follows(ev, seen)
  PROVE  ViewOK(HandleEvent(view, r, ev), r, Append(seen, ev))
<1>1. PICK body, marks : view = [pane |-> body, spins |-> marks] /\ PanesOK(body, r) /\ Opened(body, r, seen)
  BY DEF ViewOK
<1>2. PICK more : more = Append(seen, ev) /\ more # <<>> /\ more[Len(more)] = ev
  <2>1. Append(seen, ev) # <<>> /\ Append(seen, ev)[Len(Append(seen, ev))] = ev
    OBVIOUS
  <2>2. QED
    BY <2>1
<1>3. \A next : ev.type # "tool_call" => Opened(next, r, more)
  BY <1>2 DEF Opened
<1>4. SUFFICES ViewOK(HandleEvent(view, r, ev), r, more)
  BY <1>2
<1>5. \A next, marks2 : ev.type # "tool_call" /\ PanesOK(next, r) => ViewOK([pane |-> next, spins |-> marks2], r, more)
  BY <1>3 DEF ViewOK
<1>6. CASE ev.type = "arm_start"
  <2>1. HandleEvent(view, r, ev) = [pane |-> body, spins |-> [marks EXCEPT ![ev.arm] = TRUE]]
    BY <1>1, <1>6 DEF HandleEvent
  <2>2. QED
    BY <1>1, <1>5, <1>6, <2>1
<1>7. CASE ev.type = "tool_result"
  <2>1. PICK next : next = [body EXCEPT ![ev.arm] = Attach(@, r, ev)]
    OBVIOUS
  <2>2. HandleEvent(view, r, ev) = [pane |-> next, spins |-> marks]
    BY <1>1, <1>7, <2>1 DEF HandleEvent
  <2>3. ev.arm \in Arms
    BY <1>7, TokensInArms
  <2>4. PICK call : call = seen[Len(seen)]
    OBVIOUS
  <2>5. IsCallOf(call, ev) /\ seen # <<>> /\ call.type = "tool_call" /\ call.arm = ev.arm
    BY <1>7, <2>4 DEF IsCallOf, Follows
  <2>6. body[ev.arm] # <<>> /\ body[ev.arm][Len(body[ev.arm])] = Node(r, call)
    BY <1>1, <2>4, <2>5 DEF Opened
  <2>7. PanesOK(next, r)
    BY <1>1, <2>1, <2>3, <2>5, <2>6, ResultAttached
  <2>8. QED
    BY <1>5, <1>7, <2>2, <2>7
<1>8. CASE ev.type = "done" /\ ~ev.graded
  <2>1. PICK node : node = Node(r, ev)
    OBVIOUS
  <2>2. node \in NodeType /\ NodeOK(node, r)
    BY <1>8, <2>1, NewNode
  <2>3. PICK next : next = [a \in Arms |-> Append(body[a], node)]
    OBVIOUS
  <2>4. HandleEvent(view, r, ev) = [pane |-> next, spins |-> marks]
    BY <1>1, <1>8, <2>1, <2>3 DEF HandleEvent
  <2>5. PICK one : one = [body EXCEPT !["baseline"] = Append(@, node)]
    OBVIOUS
  <2>6. "baseline" \in Arms /\ "harness" \in Arms /\ Arms = {"baseline", "harness"}
    BY DEF Arms
  <2>7. PanesOK(one, r)
    BY <1>1, <2>2, <2>5, <2>6, NodeAdded DEF Added
  <2>8. next = [one EXCEPT !["harness"] = Append(@, node)]
    BY <1>1, <2>3, <2>5, <2>6 DEF PanesOK
  <2>9. PanesOK(next, r)
    BY <2>2, <2>6, <2>7, <2>8, NodeAdded DEF Added
  <2>10. QED
    BY <1>5, <1>8, <2>4, <2>9
<1>9. CASE ev.type = "fatal"
  <2>1. PICK node : node = Node(r, ev)
    OBVIOUS
  <2>2. PICK next : next = [body EXCEPT !["harness"] = Append(@, node)]
    OBVIOUS
  <2>3. HandleEvent(view, r, ev) = [pane |-> next, spins |-> marks]
    BY <1>1, <1>9, <2>1, <2>2 DEF HandleEvent
  <2>4. "harness" \in Arms /\ node \in NodeType /\ NodeOK(node, r)
    BY <1>9, <2>1, NewNode DEF Arms
  <2>5. PanesOK(next, r)
    BY <1>1, <2>2, <2>4, NodeAdded DEF Added
  <2>6. QED
    BY <1>5, <1>9, <2>3, <2>5
<1>10. CASE Shown(ev)
  <2>1. PICK node, a : node = Node(r, ev) /\ a = ev.arm
    OBVIOUS
  <2>2. PICK next : next = [body EXCEPT ![a] = Append(@, node)]
    OBVIOUS
  <2>3. PICK marks2 : marks2 = [marks EXCEPT ![a] = @ /\ ev.type \notin {"arm_done", "arm_error"}]
    OBVIOUS
  <2>4. /\ ev.type # "arm_start" /\ ev.type # "tool_result" /\ ev.type # "done" /\ ev.type # "fatal"
    BY <1>10 DEF Shown
  <2>5. HandleEvent(view, r, ev) = [pane |-> next, spins |-> marks2]
    <3>1. HandleEvent(view, r, ev) =
            [view EXCEPT !.pane[ev.arm] = Append(@, Node(r, ev)),
                         !.spins[ev.arm] = @ /\ ev.type \notin {"arm_done", "arm_error"}]
      BY <1>10, <2>4 DEF HandleEvent
    <3>2. QED
      BY <1>1, <2>1, <2>2, <2>3, <3>1
  <2>6. a \in Arms /\ node \in NodeType /\ NodeOK(node, r)
    BY <1>10, <2>1, <2>4, NewNode, TokensInArms DEF Shown
  <2>7. PanesOK(next, r) /\ next[a] # <<>> /\ next[a][Len(next[a])] = node
    <3>1. PanesOK(body, r) /\ Added(body, a, node, next)
      BY <1>1, <2>2 DEF Added
    <3>2. QED
      BY <2>6, <3>1, NodeAdded
  <2>8. Opened(next, r, more)
    BY <1>2, <2>1, <2>7 DEF Opened
  <2>9. ViewOK([pane |-> next, spins |-> marks2], r, more)
    BY <2>7, <2>8, ViewMade
  <2>10. QED
    BY <2>5, <2>9
<1>11. CASE /\ ev.type \notin {"arm_start", "tool_result", "fatal"} /\ ~(ev.type = "done" /\ ~ev.graded)
            /\ ~Shown(ev)
  <2>1. HandleEvent(view, r, ev) = view
    BY <1>11 DEF HandleEvent
  <2>2. ev.type # "tool_call"
    BY <1>11 DEF Shown
  <2>3. QED
    BY <1>1, <1>5, <2>1, <2>2
<1>12. QED
  BY <1>6, <1>7, <1>8, <1>9, <1>10, <1>11

ResultsFollow(events) ==
  \A i \in DOMAIN events : events[i].type = "tool_result" => i > 1 /\ IsCallOf(events[i - 1], events[i])

Begins(first, events) == Len(first) <= Len(events) /\ \A i \in 1..Len(first) : first[i] = events[i]

LEMMA BeginsMore ==
  ASSUME NEW S, NEW before \in Seq(S), NEW ev \in S, NEW events \in Seq(S), Begins(Append(before, ev), events)
  PROVE  /\ Begins(before, events) /\ Len(before) + 1 \in DOMAIN events /\ events[Len(before) + 1] = ev
         /\ Len(before) > 0 => before # <<>> /\ before[Len(before)] = events[Len(before)]
<1>1. PICK n, m \in Nat : n = Len(before) /\ m = Len(events) /\ DOMAIN events = 1..m
  OBVIOUS
<1>2. PICK more : more = Append(before, ev)
  OBVIOUS
<1>3. Len(more) = n + 1 /\ more[n + 1] = ev /\ \A i \in 1..n : more[i] = before[i]
  BY <1>1, <1>2
<1>4. n + 1 <= m /\ \A i \in 1..n + 1 : more[i] = events[i]
  BY <1>1, <1>2, <1>3 DEF Begins
<1>5. n + 1 \in 1..m /\ events[n + 1] = ev /\ \A i \in 1..n : before[i] = events[i]
  BY <1>3, <1>4
<1>6. n > 0 => before # <<>>
  BY <1>1
<1>7. QED
  BY <1>1, <1>4, <1>5, <1>6 DEF Begins

LEMMA ConcatBegins ==
  ASSUME NEW S, NEW a \in Seq(S), NEW b \in Seq(S), NEW c, c = a \o b
  PROVE  Begins(a, c)
BY DEF Begins

(* Events handled after the first ones of a run keep its panes in order. *)
KeptAfter(view, r, handled, events, s) ==
  Begins(handled \o s, events) => ViewOK(HandleAll(view, r, s), r, handled \o s)

LEMMA MoreKept ==
  ASSUME NEW r \in Runs, NEW view, NEW handled \in Seq(Tokens), NEW events \in Seq(Tokens), ResultsFollow(events),
         NEW s \in Seq(Tokens), KeptAfter(view, r, handled, events, s), NEW ev \in Tokens
  PROVE  KeptAfter(view, r, handled, events, Append(s, ev))
<1>1. PICK before \in Seq(Tokens) : before = handled \o s
  <2>1. handled \o s \in Seq(Tokens)
    OBVIOUS
  <2>2. QED
    BY <2>1
<1>2. handled \o Append(s, ev) = Append(before, ev)
  BY <1>1, AppendLast
<1>3. SUFFICES ASSUME Begins(Append(before, ev), events)
               PROVE  ViewOK(HandleAll(view, r, Append(s, ev)), r, Append(before, ev))
  BY <1>2 DEF KeptAfter
<1>4. PICK n \in Nat : n = Len(before)
  OBVIOUS
<1>5. /\ Begins(before, events) /\ n + 1 \in DOMAIN events /\ events[n + 1] = ev
      /\ n > 0 => before # <<>> /\ before[n] = events[n]
  <2>1. /\ Begins(before, events) /\ Len(before) + 1 \in DOMAIN events /\ events[Len(before) + 1] = ev
        /\ Len(before) > 0 => before # <<>> /\ before[Len(before)] = events[Len(before)]
    BY <1>3, BeginsMore
  <2>2. QED
    BY <1>4, <2>1
<1>6. ViewOK(HandleAll(view, r, s), r, before)
  BY <1>1, <1>5 DEF KeptAfter
<1>7. Follows(ev, before)
  <2>1. (n + 1) - 1 = n
    OBVIOUS
  <2>2. ev.type = "tool_result" => n + 1 > 1 /\ IsCallOf(events[n], ev)
    BY <1>5, <2>1 DEF ResultsFollow
  <2>3. QED
    BY <1>4, <1>5, <2>2 DEF Follows
<1>8. ViewOK(HandleEvent(HandleAll(view, r, s), r, ev), r, Append(before, ev))
  <2>1. PICK now : now = HandleAll(view, r, s)
    OBVIOUS
  <2>2. ViewOK(now, r, before)
    BY <1>6, <2>1
  <2>3. ViewOK(HandleEvent(now, r, ev), r, Append(before, ev))
    BY <1>7, <2>2, EventHandled
  <2>4. QED
    BY <2>1, <2>3
<1>9. HandleAll(view, r, Append(s, ev)) = HandleEvent(HandleAll(view, r, s), r, ev)
  BY HandleMore
<1>10. QED
  BY <1>8, <1>9

(* The panes after the events a piece completes. *)
LEMMA AllHandled ==
  ASSUME NEW r \in Runs, NEW view, NEW handled \in Seq(Tokens), ViewOK(view, r, handled),
         NEW events \in Seq(Tokens), ResultsFollow(events),
         NEW seen \in Seq(Tokens), NEW done, done = handled \o seen, Begins(done, events)
  PROVE  ViewOK(HandleAll(view, r, seen), r, done)
<1> DEFINE P == {s \in Seq(Tokens) : KeptAfter(view, r, handled, events, s)}
<1>1. <<>> \in P
  <2>1. HandleAll(view, r, <<>>) = view
    BY HandleNone
  <2>2. handled \o <<>> = handled /\ <<>> \in Seq(Tokens)
    OBVIOUS
  <2>3. KeptAfter(view, r, handled, events, <<>>)
    BY <2>1, <2>2 DEF KeptAfter
  <2>4. QED
    BY <2>2, <2>3
<1>2. ASSUME NEW s \in P, NEW ev \in Tokens PROVE Append(s, ev) \in P
  <2>1. s \in Seq(Tokens) /\ KeptAfter(view, r, handled, events, s) /\ Append(s, ev) \in Seq(Tokens)
    OBVIOUS
  <2>2. KeptAfter(view, r, handled, events, Append(s, ev))
    BY <2>1, MoreKept
  <2>3. QED
    BY <2>1, <2>2
<1>3. P = Seq(Tokens)
  <2> HIDE DEF P
  <2>1. P \subseteq Seq(Tokens)
    BY DEF P
  <2>2. QED
    BY <1>1, <1>2, <2>1, SeqGrows
<1>4. KeptAfter(view, r, handled, events, seen)
  BY <1>3
<1>5. QED
  BY <1>4 DEF KeptAfter

(* One run is live, with the button off, and the panes are the last run's. *)
ViewInv ==
  /\ \A r \in Runs : Live(r) => r = started /\ ~button
  /\ health = "pending" => started = 0
  /\ PanesOK(pane, started)
  /\ \A r \in Runs : run[r].pc = "streaming" => ResultsFollow(run[r].events) /\ Opened(pane, r, run[r].handled)

LEMMA StartView ==
  ASSUME StreamInv, StartInv, StartRun, \A r \in Runs : ~Live(r), health' # "pending"
  PROVE  ViewInv'
<1>1. started' = started + 1 /\ button' = FALSE /\ pane' = [a \in Arms |-> <<>>]
  BY DEF StartRun
<1>2. [NotRun EXCEPT !.pc = "asking"].pc = "asking"
  BY DEF NotRun
<1>3. \A r \in Runs : Live(r)' => r = started + 1
  BY StartStreamed DEF Live
<1>4. \A r \in Runs : run'[r].pc # "streaming"
  BY <1>2, StartStreamed DEF Live
<1>5. PanesOK(pane', started')
  <2>1. <<>> \in Seq(NodeType) /\ DOMAIN <<>> = {}
    OBVIOUS
  <2>2. QED
    BY <1>1, <2>1 DEF PanesOK
<1>6. QED
  BY <1>1, <1>3, <1>4, <1>5 DEF ViewInv

LEMMA ReceiveView ==
  ASSUME StreamInv, StartInv, ViewInv, NEW r \in Runs, Receive(r)
  PROVE  ViewInv'
<1>1. StreamInv' /\ UNCHANGED <<health, button, started>> /\ run[r].pc = "streaming"
  BY ReceiveStreamed DEF Receive
<1>2. PICK seen \in Seq(Tokens) :
        /\ run'[r].events = run[r].events /\ run'[r].handled = run[r].handled \o seen
        /\ run'[r].pc = "streaming" /\ run' = [run EXCEPT ![r] = run'[r]]
        /\ pane' = HandleAll([pane |-> pane, spins |-> spins], r, seen).pane
  BY ReceiveStreamed
<1>3. r = started /\ \A o \in Runs : o # r => ~Live(o)
  BY <1>1 DEF ViewInv, Live
<1>4. PICK events, handled \in Seq(Tokens) : events = run[r].events /\ handled = run[r].handled
  <2>1. run[r] \in RunType
    BY DEF StreamInv
  <2>2. run[r].events \in Seq(Tokens) /\ run[r].handled \in Seq(Tokens)
    BY <2>1 DEF RunType
  <2>3. QED
    BY <2>2
<1>5. PICK done : done = handled \o seen
  OBVIOUS
<1>6. done = run'[r].handled /\ events = run'[r].events /\ done \in Seq(Tokens)
  BY <1>2, <1>4, <1>5
<1>7. Begins(done, events)
  <2>1. Streamed(run'[r])
    BY <1>1 DEF StreamInv
  <2>2. PICK left \in Seq(Tokens) : events = done \o Data(left)
    BY <1>6, <2>1 DEF Streamed, Due
  <2>3. PICK x \in Seq(Tokens) : x = Data(left)
    BY DataOfTokens
  <2>4. events = done \o x
    BY <2>2, <2>3
  <2>5. QED
    BY <1>6, <2>4, ConcatBegins
<1>8. ResultsFollow(events) /\ Opened(pane, r, handled) /\ PanesOK(pane, r)
  BY <1>1, <1>3, <1>4 DEF ViewInv
<1>9. PICK view : view = [pane |-> pane, spins |-> spins]
  OBVIOUS
<1>10. ViewOK(view, r, handled)
  BY <1>8, <1>9 DEF ViewOK
<1>11. ViewOK(HandleAll(view, r, seen), r, done)
  BY <1>5, <1>7, <1>8, <1>10, AllHandled
<1>12. PanesOK(pane', r) /\ Opened(pane', r, done)
  <2>1. pane' = HandleAll(view, r, seen).pane
    BY <1>2, <1>9
  <2>2. PICK now : now = HandleAll(view, r, seen)
    OBVIOUS
  <2>3. PICK body, marks : now = [pane |-> body, spins |-> marks] /\ PanesOK(body, r) /\ Opened(body, r, done)
    BY <1>11, <2>2 DEF ViewOK
  <2>4. pane' = body
    BY <2>1, <2>2, <2>3
  <2>5. QED
    BY <2>3, <2>4
<1>13. \A o \in Runs : o # r => run'[o] = run[o]
  BY <1>2 DEF StreamInv
<1>14. \A o \in Runs : Live(o)' => o = r
  BY <1>3, <1>13 DEF Live
<1>15. \A o \in Runs : run'[o].pc = "streaming" =>
         ResultsFollow(run'[o].events) /\ Opened(pane', o, run'[o].handled)
  BY <1>6, <1>8, <1>12, <1>14 DEF Live
<1>16. ~button
  BY <1>1 DEF ViewInv, Live
<1>17. QED
  BY <1>1, <1>3, <1>12, <1>14, <1>15, <1>16 DEF ViewInv

LEMMA RespondView ==
  ASSUME StreamInv, StartInv, ViewInv, NEW r \in Runs, Respond(r)
  PROVE  ViewInv'
<1>1. UNCHANGED <<health, button, started, pane>> /\ run[r].pc = "asking"
  BY DEF Respond
<1>2. PICK script \in Scripts \cup {<<Fatal>>} :
        run' = [run EXCEPT ![r] = [pc |-> "streaming", events |-> Data(script), wire |-> Wire(script),
                                   buf |-> <<>>, handled |-> <<>>]]
  BY RespondStreamed
<1>3. r = started /\ ~button /\ \A o \in Runs : o # r => ~Live(o)
  BY <1>1 DEF ViewInv, Live
<1>4. run'[r].events = Data(script) /\ run'[r].handled = <<>> /\ \A o \in Runs : o # r => run'[o] = run[o]
  BY <1>2 DEF StreamInv
<1>5. ResultsFollow(Data(script))
  <2>1. CASE script \in Scripts
    BY <2>1, ScriptsAssumption DEF ResultsFollow
  <2>2. CASE script = <<Fatal>>
    <3>1. IsData(Fatal) /\ Fatal.type # "tool_result"
      BY DEF Fatal, IsData
    <3>2. Fatal \in {Fatal} /\ <<>> \in Seq({Fatal}) /\ <<Fatal>> = Append(<<>>, Fatal)
      OBVIOUS
    <3>3. Data(<<Fatal>>) = <<Fatal>>
      BY <3>1, <3>2, DataMore, DataNone
    <3>4. \A i \in DOMAIN <<Fatal>> : <<Fatal>>[i] = Fatal
      OBVIOUS
    <3>5. QED
      BY <2>2, <3>1, <3>3, <3>4 DEF ResultsFollow
  <2>3. QED
    BY <2>1, <2>2
<1>6. Opened(pane', r, <<>>)
  BY DEF Opened
<1>7. \A o \in Runs : run'[o].pc = "streaming" =>
        ResultsFollow(run'[o].events) /\ Opened(pane', o, run'[o].handled)
  BY <1>3, <1>4, <1>5, <1>6 DEF Live
<1>8. \A o \in Runs : Live(o)' => o = r
  BY <1>3, <1>4 DEF Live
<1>9. QED
  BY <1>1, <1>3, <1>7, <1>8 DEF ViewInv

LEMMA FinishView ==
  ASSUME StreamInv, StartInv, ViewInv, NEW r \in Runs, StreamEnds(r) \/ RequestFails(r)
  PROVE  ViewInv'
<1>1. Live(r) /\ UNCHANGED <<health, started>>
  BY DEF StreamEnds, RequestFails, Finish, Live
<1>2. r = started /\ \A o \in Runs : o # r => ~Live(o)
  BY <1>1 DEF ViewInv
<1>3. PICK status \in {"ended", "failed"} : run' = [run EXCEPT ![r] = [run[r] EXCEPT !.pc = status]]
  BY FinishStreamed
<1>4. \A o \in Runs : ~Live(o)' /\ run'[o].pc # "streaming"
  <2>1. run'[r].pc \notin {"asking", "streaming"} /\ \A o \in Runs : o # r => run'[o] = run[o]
    BY <1>3, FinishStreamed DEF StreamInv
  <2>2. QED
    BY <1>2, <2>1 DEF Live
<1>5. PanesOK(pane', started)
  <2>1. CASE StreamEnds(r)
    BY <2>1 DEF StreamEnds, ViewInv
  <2>2. CASE RequestFails(r)
    <3>1. pane' = [pane EXCEPT !["harness"] = Append(@, Node(r, Failed))]
      BY <2>2 DEF RequestFails, Failed
    <3>2. "harness" \in Arms /\ Node(r, Failed) \in NodeType /\ NodeOK(Node(r, Failed), r) /\ PanesOK(pane, r)
      BY <1>2, NewNode DEF Arms, Failed, ViewInv
    <3>3. QED
      BY <1>2, <3>1, <3>2, NodeAdded DEF Added
  <2>3. QED
    BY <2>1, <2>2
<1>6. QED
  BY <1>1, <1>4, <1>5 DEF ViewInv

LEMMA ViewStep == ASSUME ~EarlyClick, StreamInv, StartInv, ViewInv, [NextView]_panel PROVE ViewInv'
<1>1. CASE UNCHANGED panel
  BY <1>1 DEF panel, ViewInv, Live
<1>2. CASE Click
  <2>1. \A r \in Runs : ~Live(r)
    BY <1>2 DEF Click, ViewInv
  <2>2. QED
    BY <1>2, <2>1, StartView DEF Click
<1>3. CASE HealthAnswers
  <2>1. \A r \in Runs : ~Live(r)
    BY <1>3 DEF HealthAnswers, ViewInv, Runs
  <2>2. health' # "pending"
    BY <1>3 DEF HealthAnswers
  <2>3. CASE StartRun
    BY <2>1, <2>2, <2>3, StartView
  <2>4. CASE UNCHANGED <<started, run, pane, spins>>
    <3>1. \A r \in Runs : ~Live(r)' /\ run'[r].pc # "streaming"
      BY <2>1, <2>4 DEF Live
    <3>2. QED
      BY <2>2, <2>4, <3>1 DEF ViewInv
  <2>5. QED
    BY <1>3, <2>3, <2>4 DEF HealthAnswers
<1>4. ASSUME NEW r \in Runs, Respond(r) PROVE ViewInv'
  BY <1>4, RespondView
<1>5. ASSUME NEW r \in Runs, Receive(r) PROVE ViewInv'
  BY <1>5, ReceiveView
<1>6. ASSUME NEW r \in Runs, StreamEnds(r) \/ RequestFails(r) PROVE ViewInv'
  BY <1>6, FinishView
<1>7. QED
  BY <1>1, <1>2, <1>3, <1>4, <1>5, <1>6 DEF NextView

LEMMA ViewInit == InitView => ViewInv
<1>1. <<>> \in Seq(NodeType) /\ DOMAIN <<>> = {} /\ NotRun.pc = "none"
  BY DEF NotRun
<1>2. QED
  BY <1>1 DEF InitView, ViewInv, Live, PanesOK

LEMMA ViewKept == ASSUME ~EarlyClick PROVE ViewSpec => [](StreamInv /\ StartInv /\ ViewInv)
<1>1. InitView => StreamInv /\ StartInv /\ ViewInv
  BY StreamInit, ViewInit
<1>2. StreamInv /\ StartInv /\ ViewInv /\ [NextView]_panel => (StreamInv /\ StartInv /\ ViewInv)'
  BY StreamStep, ViewStep
<1>3. QED
  BY <1>1, <1>2, PTL DEF ViewSpec

(* The panes show one question, the last one asked, and while it is live no
   other can be started: if Run is not clicked before the health check answers. *)
THEOREM OneQuestion == ASSUME ~EarlyClick PROVE ViewSpec => []OneQuestionOnScreen
<1>1. ViewInv => OneQuestionOnScreen
  BY DEF ViewInv, OneQuestionOnScreen, PanesOK, NodeOK
<1>2. QED
  BY <1>1, ViewKept, PTL

(* A tool result hangs under the call it is the result of, whatever the pieces
   the stream came in: on the same condition. *)
THEOREM ResultsAttached == ASSUME ~EarlyClick PROVE ViewSpec => []ResultsWithTheirCalls
<1>1. ViewInv => ResultsWithTheirCalls
  BY DEF ViewInv, ResultsWithTheirCalls, PanesOK, NodeOK
<1>2. QED
  BY <1>1, ViewKept, PTL
=============================================================================
