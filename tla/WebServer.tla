------------------------------ MODULE WebServer ------------------------------
(***************************************************************************)
(* web/server.py: POST /api/ask.  Each request is a generator (_run_stream)*)
(* that takes the gate without blocking, starts a worker thread and relays *)
(* the worker's events from a queue of its own to the client until the     *)
(* None that ends them; its finally clause gives the gate back.  The       *)
(* worker runs the arms of the request in order.  All workers share one    *)
(* toolbox, whose last_result and last_sql run_harness resets, writes and  *)
(* reads without a lock, one field at a time.                              *)
(*                                                                         *)
(* A client may go away whenever the generator is suspended at a yield;    *)
(* closing the generator runs its finally clause, and nothing stops the    *)
(* worker.  Leavers are the requests whose clients may.                    *)
(*                                                                         *)
(* Data: a successful query is <<request, position of the arm, number>>;   *)
(* its text and its rows are both named by it.  Events in the middle of an *)
(* arm (prompting, tool_call, tool_result, sql, answer) are "progress".    *)
(***************************************************************************)
EXTENDS Naturals, Sequences, FiniteSets

CONSTANTS Requests,       \* requests that arrive
          ArmLists,       \* request -> the lists of arms it may ask for
          MaxQueries,     \* bound: successful queries in one harness run
          Leavers,        \* the requests whose clients may go away
          None

ASSUME ArmsAssumption ==
  \A r \in Requests : ArmLists[r] \subseteq Seq({"baseline", "harness"})
ASSUME QueriesAssumption == MaxQueries \in Nat

VARIABLES gate,       \* _Runner.gate: permits left of the semaphore
          box,        \* the shared toolbox: last_result and last_sql
          stream,     \* request -> where its generator stands
          queue,      \* request -> events put and not yet relayed
          sent,       \* request -> events relayed to the client
          pc,         \* request -> where its worker thread stands
          arms,       \* request -> the arms it asked for
          arm,        \* request -> position of the arm being run
          count,      \* request -> successful queries of that run
          got         \* request -> what the run has read back so far

serverVars == <<gate, stream, sent>>
workerVars == <<pc, arm, count, got>>
vars == <<gate, box, stream, queue, sent, pc, arms, arm, count, got>>

Event(type, sql, rows) == [type |-> type, sql |-> sql, rows |-> rows]
Plain(type) == Event(type, None, None)
End == Plain("end")    \* the None put in the finally clause of work()
Terminal == {"done", "fatal"}

Held(r) == stream[r] \in {"waiting", "yielded"}
Running(r) == pc[r] \notin {"off", "ended"}

(* What the requests may ask for together. *)
Asked == {a \in [Requests -> UNION {ArmLists[r] : r \in Requests}] :
            \A r \in Requests : a[r] \in ArmLists[r]}

Nothing == [sql |-> None, rows |-> None]

Init ==
  /\ gate = 1
  /\ box = [last_result |-> None, last_sql |-> None]
  /\ stream = [r \in Requests |-> "new"]
  /\ queue = [r \in Requests |-> <<>>]
  /\ sent = [r \in Requests |-> <<>>]
  /\ pc = [r \in Requests |-> "off"]
  /\ arms \in Asked
  /\ arm = [r \in Requests |-> 0]
  /\ count = [r \in Requests |-> 0]
  /\ got = [r \in Requests |-> Nothing]

-----------------------------------------------------------------------------
(* The generator of a request. *)

Open(r) ==
  /\ stream[r] = "new" /\ gate > 0
  /\ gate' = gate - 1
  /\ stream' = [stream EXCEPT ![r] = "waiting"]
  /\ pc' = [pc EXCEPT ![r] = "begin"]
  /\ UNCHANGED <<box, queue, sent, arms, arm, count, got>>

(* The gate is taken: one fatal event, and the stream is over. *)
Refuse(r) ==
  /\ stream[r] = "new" /\ gate = 0
  /\ sent' = [sent EXCEPT ![r] = <<Plain("fatal")>>]
  /\ stream' = [stream EXCEPT ![r] = "closed"]
  /\ UNCHANGED <<gate, box, queue, arms, workerVars>>

Relay(r) ==
  /\ stream[r] = "waiting" /\ queue[r] # <<>> /\ Head(queue[r]) # End
  /\ sent' = [sent EXCEPT ![r] = Append(@, Head(queue[r]))]
  /\ queue' = [queue EXCEPT ![r] = Tail(@)]
  /\ stream' = [stream EXCEPT ![r] = "yielded"]
  /\ UNCHANGED <<gate, box, arms, workerVars>>

(* Nothing came for 30 seconds: a comment line, not an event. *)
KeepAlive(r) ==
  /\ stream[r] = "waiting" /\ queue[r] = <<>>
  /\ stream' = [stream EXCEPT ![r] = "yielded"]
  /\ UNCHANGED <<gate, box, queue, sent, arms, workerVars>>

(* The client takes what was yielded and the generator is resumed. *)
Resume(r) ==
  /\ stream[r] = "yielded"
  /\ stream' = [stream EXCEPT ![r] = "waiting"]
  /\ UNCHANGED <<gate, box, queue, sent, arms, workerVars>>

Release(r, how) ==
  /\ gate' = gate + 1
  /\ stream' = [stream EXCEPT ![r] = how]

(* Faulty: a silent worker is taken for one that ended. *)
CloseOnTimeout(r) ==
  /\ stream[r] = "waiting" /\ queue[r] = <<>>
  /\ Release(r, "closed")
  /\ UNCHANGED <<box, queue, sent, arms, workerVars>>

Close(r) ==
  /\ stream[r] = "waiting" /\ queue[r] # <<>> /\ Head(queue[r]) = End
  /\ queue' = [queue EXCEPT ![r] = Tail(@)]
  /\ Release(r, "closed")
  /\ UNCHANGED <<box, sent, arms, workerVars>>

(* Faulty: no finally clause; a client that leaves keeps the gate. *)
DisconnectLeaks(r) ==
  /\ r \in Leavers
  /\ stream[r] = "yielded"
  /\ stream' = [stream EXCEPT ![r] = "left"]
  /\ UNCHANGED <<gate, box, queue, sent, arms, workerVars>>

Disconnect(r) ==
  /\ r \in Leavers
  /\ stream[r] = "yielded"
  /\ Release(r, "left")
  /\ UNCHANGED <<box, queue, sent, arms, workerVars>>

-----------------------------------------------------------------------------
(* The worker thread of a request. *)

Put(r, events) == queue' = [queue EXCEPT ![r] = @ \o events]

(* A step of the worker: events put, then where it goes on. *)
Work(r, from, events, to) ==
  /\ pc[r] = from
  /\ Put(r, events)
  /\ pc' = [pc EXCEPT ![r] = to]
  /\ UNCHANGED <<serverVars, arms>>

(* Gold rows (None when they cannot be had), then the model client, which the
   first request that gets so far builds. *)
BeginWork(r) ==
  /\ Work(r, "begin", <<>>, "arms")
  /\ UNCHANGED <<box, arm, count, got>>

(* The questions cannot be read, which every request does anew, or there is no
   client yet and it cannot be built. *)
CannotBegin(r) ==
  /\ Work(r, "begin", <<Plain("fatal")>>, "finally")
  /\ UNCHANGED <<box, arm, count, got>>

StartArm(r) ==
  /\ arm[r] < Len(arms[r])
  /\ Work(r, "arms", <<Plain("arm_start")>>, arms[r][arm[r] + 1])
  /\ arm' = [arm EXCEPT ![r] = @ + 1]
  /\ count' = [count EXCEPT ![r] = 0]
  /\ got' = [got EXCEPT ![r] = Nothing]
  /\ UNCHANGED box

(* Faulty: "done" after the first arm. *)
DoneEarly(r) ==
  /\ arm[r] > 0
  /\ Work(r, "arms", <<Plain("done")>>, "finally")
  /\ UNCHANGED <<box, arm, count, got>>

AllArmsDone(r) ==
  /\ arm[r] = Len(arms[r])
  /\ Work(r, "arms", <<Plain("done")>>, "finally")
  /\ UNCHANGED <<box, arm, count, got>>

(* run_baseline keeps its result to itself: nothing, when the call fails or
   there is no SQL in the reply, or else its own query, with the rows if it ran. *)
RunBaseline(r) ==
  /\ \E sql \in {None, <<r, arm[r], 1>>} : \E rows \in {None, sql} :
       got' = [got EXCEPT ![r] = [sql |-> sql, rows |-> rows]]
  /\ Work(r, "baseline", <<Plain("progress")>>, "report")
  /\ UNCHANGED <<box, arm, count>>

(* An exception out of either arm, or while the toolbox is built before it is
   reset: the next arm still runs. *)
ArmRaises(r) ==
  /\ \E at \in {"baseline", "harness", "loop"} : Work(r, at, <<Plain("arm_error")>>, "arms")
  /\ UNCHANGED <<box, arm, count, got>>

(* Faulty: the toolbox keeps the last result. *)
ResetForgotten(r) ==
  /\ Work(r, "harness", <<>>, "reset")
  /\ UNCHANGED <<box, arm, count, got>>

(* box.reset(), a store at a time. *)
ResetResult(r) ==
  /\ Work(r, "harness", <<>>, "reset")
  /\ box' = [box EXCEPT !.last_result = None]
  /\ UNCHANGED <<arm, count, got>>

ResetSql(r) ==
  /\ Work(r, "reset", <<Plain("progress")>>, "loop")
  /\ box' = [box EXCEPT !.last_sql = None]
  /\ UNCHANGED <<arm, count, got>>

(* A query of the run succeeds and is remembered, a store at a time. *)
StoreResult(r) ==
  /\ count[r] < MaxQueries
  /\ Work(r, "loop", <<>>, "store")
  /\ count' = [count EXCEPT ![r] = @ + 1]
  /\ box' = [box EXCEPT !.last_result = <<r, arm[r], count'[r]>>]
  /\ UNCHANGED <<arm, got>>

StoreSql(r) ==
  /\ Work(r, "store", <<Plain("progress")>>, "loop")
  /\ box' = [box EXCEPT !.last_sql = <<r, arm[r], count[r]>>]
  /\ UNCHANGED <<arm, count, got>>

(* The loop is over: if box.last_result is not None, the two fields are read
   back, the SQL first; the result may be gone by then. *)
NoResult(r) ==
  /\ box.last_result = None
  /\ Work(r, "loop", <<>>, "report")
  /\ UNCHANGED <<box, arm, count, got>>

SeeResult(r) ==
  /\ box.last_result # None
  /\ Work(r, "loop", <<>>, "readSql")
  /\ UNCHANGED <<box, arm, count, got>>

ReadSql(r) ==
  /\ Work(r, "readSql", <<>>, "readRows")
  /\ got' = [got EXCEPT ![r].sql = box.last_sql]
  /\ UNCHANGED <<box, arm, count>>

ReadRows(r) ==
  /\ box.last_result # None
  /\ Work(r, "readRows", <<Plain("progress")>>, "report")
  /\ got' = [got EXCEPT ![r].rows = box.last_result]
  /\ UNCHANGED <<box, arm, count>>

(* None["rows"]: the TypeError is reported as an arm error. *)
ReadNothing(r) ==
  /\ box.last_result = None
  /\ Work(r, "readRows", <<Plain("arm_error")>>, "arms")
  /\ UNCHANGED <<box, arm, count, got>>

Report(r) ==
  /\ Work(r, "report", <<Event("arm_done", got[r].sql, got[r].rows)>>, "arms")
  /\ UNCHANGED <<box, arm, count, got>>

(* Serialising or grading the rows raises: outside the arm's own try. *)
ReportRaises(r) ==
  /\ Work(r, "report", <<Plain("fatal")>>, "finally")
  /\ UNCHANGED <<box, arm, count, got>>

(* Faulty: the None that ends the stream is not put. *)
FinallyQuiet(r) ==
  /\ Work(r, "finally", <<>>, "ended")
  /\ UNCHANGED <<box, arm, count, got>>

Finally(r) ==
  /\ Work(r, "finally", <<End>>, "ended")
  /\ UNCHANGED <<box, arm, count, got>>

-----------------------------------------------------------------------------
Client(r) == Resume(r) \/ Disconnect(r)

Generator(r) == Open(r) \/ Refuse(r) \/ Relay(r) \/ KeepAlive(r) \/ Close(r)

Worker(r) ==
  \/ BeginWork(r) \/ CannotBegin(r) \/ StartArm(r) \/ AllArmsDone(r)
  \/ RunBaseline(r) \/ ArmRaises(r)
  \/ ResetResult(r) \/ ResetSql(r) \/ StoreResult(r) \/ StoreSql(r)
  \/ NoResult(r) \/ SeeResult(r) \/ ReadSql(r) \/ ReadRows(r) \/ ReadNothing(r)
  \/ Report(r) \/ ReportRaises(r) \/ Finally(r)

Next == \E r \in Requests : Client(r) \/ Generator(r) \/ Worker(r)

Spec == Init /\ [][Next]_vars

(* Threads are scheduled, the server drives its generators, and a client that
   neither reads nor goes away is dropped by the transport. *)
FairSpec ==
  /\ Spec
  /\ \A r \in Requests : /\ WF_vars(Worker(r))
                         /\ WF_vars(Generator(r))
                         /\ WF_vars(Client(r))

-----------------------------------------------------------------------------
(* Properties. *)

Query == Requests \X Nat \X Nat
EventType == [type : {"arm_start", "progress", "arm_done", "arm_error",
                      "done", "fatal", "end"},
              sql : Query \cup {None}, rows : Query \cup {None}]

Places == {"off", "begin", "arms", "baseline", "harness", "reset", "loop", "store",
           "readSql", "readRows", "report", "finally", "ended"}

TypeOK ==
  /\ gate \in Nat
  /\ box \in [last_result : Query \cup {None}, last_sql : Query \cup {None}]
  /\ stream \in [Requests -> {"new", "waiting", "yielded", "closed", "left"}]
  /\ queue \in [Requests -> Seq(EventType)]
  /\ sent \in [Requests -> Seq(EventType)]
  /\ pc \in [Requests -> Places]
  /\ arms \in Asked
  /\ arm \in [Requests -> Nat]
  /\ count \in [Requests -> 0..MaxQueries]
  /\ got \in [Requests -> [sql : Query \cup {None}, rows : Query \cup {None}]]

(* The gate is a mutex: it is taken exactly while one generator is between
   its acquire and its finally clause, and never by two; in particular no
   path through the generator, a disconnect included, releases it twice. *)
GateIsMutex ==
  /\ gate \in {0, 1}
  /\ gate = 0 <=> \E r \in Requests : Held(r)
  /\ \A r, s \in Requests : Held(r) /\ Held(s) => r = s

(* "One question at a time": two worker threads run together only when the
   client of one of them has left. *)
OneQuestionAtATime ==
  \A r, s \in Requests : Running(r) /\ Running(s) /\ r # s =>
    "left" \in {stream[r], stream[s]}

(* The events of a request, relayed or still queued; how many of the first n
   are of one of the given types. *)
Events(r) == sent[r] \o queue[r]
CountTo(e, n, types) == Cardinality({i \in 1..n : e[i].type \in types})

(* What is reported of the n-th arm of a request was found by that arm: its
   SQL is a query of that arm, and its rows are those of this very query.  Only
   a baseline may report a query without rows, one that failed. *)
Own(r, list, n, report) ==
  /\ report.sql # None => report.sql[1] = r /\ report.sql[2] = n
  /\ report.rows # report.sql => report.rows = None /\ list[n] = "baseline"

(* What a client is told about an arm was found by that arm of its request,
   though the SQL and the rows of a harness arm are written and read one after
   the other in the toolbox all requests share. *)
OwnAnswer ==
  \A r \in Requests : LET e == Events(r) IN
    \A i \in 1..Len(e) : e[i].type = "arm_done" =>
      Own(r, arms[r], CountTo(e, i, {"arm_start"}), e[i])

(* The same for as long as every client has stayed. *)
OwnAnswerWhileAllStay ==
  (\A r \in Requests : stream[r] # "left") => OwnAnswer

(* The stream a client sees has the shape app.js expects: each arm is opened,
   reported once and closed before the next; "done" comes after the last arm
   of the request and never in the middle of one; nothing follows "done" or
   "fatal"; and a stream relayed to its end finishes with one of them. *)
StreamGrammar ==
  \A r \in Requests : LET e == Events(r) IN
    /\ \A i \in 1..Len(e) :
         /\ e[i].type \in {"arm_start", "done"} =>
              i = 1 \/ e[i - 1].type \in {"arm_done", "arm_error"}
         /\ e[i].type \in {"progress", "arm_done", "arm_error"} =>
              i > 1 /\ e[i - 1].type \in {"arm_start", "progress"}
         /\ e[i].type = "done" =>
              CountTo(e, i, {"arm_done", "arm_error"}) = Len(arms[r])
         /\ e[i].type \in Terminal => \A j \in (i + 1)..Len(e) : e[j] = End
         /\ e[i] = End => i = Len(e) /\ i > 1 /\ e[i - 1].type \in Terminal
    /\ stream[r] = "closed" /\ queue[r] = <<>> /\ ~Running(r) =>
         sent[r] # <<>> /\ sent[r][Len(sent[r])].type \in Terminal

(* Every request ends: its stream is closed, which reopens the gate, and its
   worker stops, even when the client left in the middle. *)
EveryRequestEnds ==
  \A r \in Requests : <>(stream[r] \in {"closed", "left"} /\ ~Running(r))
=============================================================================
