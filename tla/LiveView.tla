------------------------------- MODULE LiveView -------------------------------
(***************************************************************************)
(* The live panel of the dashboard, web/static/app.js: boot and checkLive, *)
(* runLive, consumeSse and handleEvent.  One page, one thread, but a run   *)
(* awaits its response and every piece of it, and the page's health check  *)
(* awaits its own: they interleave with each other and with clicks.        *)
(*                                                                         *)
(* Data: an event is its type, arm, tool and step; the stream of a run is  *)
(* its events, each followed by a blank line (two newlines), and the       *)
(* network cuts it into pieces anywhere.  A pane is a list of nodes.       *)
(***************************************************************************)
EXTENDS Naturals, Sequences, FiniteSetsExt, Functions

CONSTANTS Scripts,    \* the event sequences a run can stream
          MaxRuns,    \* bound: runs of the page
          DeepLink,   \* BOOLEAN: was the page opened with #ask=...?
          EarlyClick  \* BOOLEAN: may Run be clicked before the health check answers?

ASSUME ViewAssumption ==
  MaxRuns \in Nat /\ DeepLink \in BOOLEAN /\ EarlyClick \in BOOLEAN

Arms == {"baseline", "harness"}
Runs == 1..MaxRuns

VARIABLES health,  \* "pending", "ready", "down"
          button,  \* is #ask-run enabled?
          started, \* runs started
          run,     \* run -> its runLive
          pane,    \* arm -> the nodes of its body
          spins    \* arm -> is its pane marked is-running?

panel == <<health, button, started, run, pane, spins>>

-----------------------------------------------------------------------------
(* consumeSse: split the buffer at blank lines, keep what follows the last. *)

Newline == [type |-> "newline"]

Wire(events) ==
  [i \in 1..3 * Len(events) |-> IF i % 3 = 1 THEN events[(i + 2) \div 3] ELSE Newline]

Ends(buf) == {i \in 2..Len(buf) : buf[i] = Newline /\ buf[i - 1] = Newline}
LastEnd(buf) == IF Ends(buf) = {} THEN 0 ELSE Max(Ends(buf))
(* Faulty: an incomplete event is dropped with its piece. *)
RestDropped(buf) == <<>>

Rest(buf) == SubSeq(buf, LastEnd(buf) + 1, Len(buf))

IsData(token) == token.type \notin {"newline", "keep-alive"}

(* The data among the tokens, in order. *)
Data(tokens) ==
  LET data[i \in 0..Len(tokens)] ==
        IF i = 0 THEN <<>>
        ELSE IF IsData(tokens[i]) THEN Append(data[i - 1], tokens[i]) ELSE data[i - 1]
  IN  data[Len(tokens)]

Complete(buf) == Data(SubSeq(buf, 1, LastEnd(buf)))

(* What the server streams (run_harness, _run_stream): an event of an arm names
   it, and of what reaches handleEvent a result follows the call it is of. *)
IsCallOf(call, result) ==
  /\ call.type = "tool_call"
  /\ call.arm = result.arm /\ call.name = result.name /\ call.step = result.step
  /\ call.call = result.call

ASSUME ScriptsAssumption ==
  \A script \in Scripts :
    /\ script \in Seq(Range(script))
    /\ \A i \in DOMAIN script :
         /\ script[i].type # "newline"
         /\ script[i].type \in {"arm_start", "prompting", "tool_call", "tool_result", "sql", "arm_done", "arm_error"}
              => script[i].arm \in Arms
    /\ LET data == Data(script) IN
         \A i \in DOMAIN data : data[i].type = "tool_result" => i > 1 /\ IsCallOf(data[i - 1], data[i])

-----------------------------------------------------------------------------
(* handleEvent.  Nodes remember the run and the event they come from. *)

Node(r, ev) == [run |-> r, event |-> ev, results |-> <<>>]

(* The last call node with this tool and step. *)
Owners(body, ev) ==
  {i \in DOMAIN body : /\ body[i].event.type = "tool_call"
                       /\ body[i].event.name = ev.name /\ body[i].event.step = ev.step}

(* Faulty: the first call node of the step is taken, not the last. *)
AttachFirst(body, r, ev) ==
  IF Owners(body, ev) = {} THEN Append(body, Node(r, ev))
  ELSE [body EXCEPT ![Min(Owners(body, ev))].results = Append(@, [run |-> r, event |-> ev])]

Attach(body, r, ev) ==
  IF Owners(body, ev) = {} THEN Append(body, Node(r, ev))
  ELSE [body EXCEPT ![Max(Owners(body, ev))].results = Append(@, [run |-> r, event |-> ev])]

(* The events that add a node to their arm's pane; "answer" adds none. *)
Shown(ev) == ev.type \in {"prompting", "tool_call", "sql", "arm_done", "arm_error"}

HandleEvent(view, r, ev) ==
  IF ev.type = "arm_start" THEN [view EXCEPT !.spins[ev.arm] = TRUE]
  ELSE IF ev.type = "tool_result" THEN [view EXCEPT !.pane[ev.arm] = Attach(@, r, ev)]
  ELSE IF ev.type = "done" /\ ~ev.graded
       THEN [view EXCEPT !.pane = [a \in Arms |-> Append(@[a], Node(r, ev))]]
  ELSE IF ev.type = "fatal" THEN [view EXCEPT !.pane["harness"] = Append(@, Node(r, ev))]
  ELSE IF Shown(ev)
       THEN [view EXCEPT !.pane[ev.arm] = Append(@, Node(r, ev)),
                         !.spins[ev.arm] = @ /\ ev.type \notin {"arm_done", "arm_error"}]
  ELSE view

HandleAll(view, r, events) ==
  LET seen[i \in 0..Len(events)] ==
        IF i = 0 THEN view ELSE HandleEvent(seen[i - 1], r, events[i])
  IN  seen[Len(events)]

-----------------------------------------------------------------------------
NotRun == [pc |-> "none", events |-> <<>>, wire |-> <<>>, buf |-> <<>>, handled |-> <<>>]
Fatal == [type |-> "fatal"]

InitView ==
  /\ health = "pending" /\ button = TRUE   \* index.html: the button is not disabled
  /\ started = 0 /\ run = [r \in Runs |-> NotRun]
  /\ pane = [a \in Arms |-> <<>>] /\ spins = [a \in Arms |-> FALSE]

(* Faulty: the button stays enabled. *)
StartRunEnabled ==
  /\ started < MaxRuns
  /\ started' = started + 1
  /\ run' = [run EXCEPT ![started + 1].pc = "asking"]
  /\ UNCHANGED button
  /\ pane' = [a \in Arms |-> <<>>] /\ spins' = [a \in Arms |-> FALSE]

(* runLive up to its fetch. *)
StartRun ==
  /\ started < MaxRuns
  /\ started' = started + 1
  /\ run' = [run EXCEPT ![started + 1].pc = "asking"]
  /\ button' = FALSE
  /\ pane' = [a \in Arms |-> <<>>] /\ spins' = [a \in Arms |-> FALSE]

Click ==
  /\ button /\ (EarlyClick \/ health # "pending")
  /\ StartRun
  /\ UNCHANGED health

(* checkLive answers, and boot goes on with applyDeepLink. *)
HealthAnswers ==
  /\ health = "pending"
  /\ health' \in {"ready", "down"}
  /\ \/ health' = "ready" /\ DeepLink /\ StartRun
     \/ /\ ~(health' = "ready" /\ DeepLink /\ started < MaxRuns)
        /\ button' = (health' = "ready")
        /\ UNCHANGED <<started, run, pane, spins>>

(* The response begins.  The server runs one question at a time, and other
   pages ask it too. *)
Respond(r) ==
  /\ run[r].pc = "asking"
  /\ \E events \in {<<Fatal>>} \cup (IF \E o \in Runs : run[o].pc = "streaming" THEN {} ELSE Scripts) :
       run' = [run EXCEPT ![r].pc = "streaming", ![r].events = Data(events),
                          ![r].wire = Wire(events)]
  /\ UNCHANGED <<health, button, started, pane, spins>>

(* reader.read() resolves with the next piece. *)
Receive(r) ==
  /\ run[r].pc = "streaming"
  /\ \E n \in 1..Len(run[r].wire) :
       LET buf  == run[r].buf \o SubSeq(run[r].wire, 1, n)
           view == HandleAll([pane |-> pane, spins |-> spins], r, Complete(buf))
       IN  /\ run' = [run EXCEPT ![r].wire = SubSeq(@, n + 1, Len(@)),
                                 ![r].buf = Rest(buf),
                                 ![r].handled = @ \o Complete(buf)]
           /\ pane' = view.pane /\ spins' = view.spins
  /\ UNCHANGED <<health, button, started>>

(* Faulty: no finally; the button is not given back. *)
FinishDisabled(r, status) ==
  /\ run' = [run EXCEPT ![r].pc = status]
  /\ spins' = [a \in Arms |-> FALSE]
  /\ UNCHANGED <<health, started, button>>

(* The finally of runLive. *)
Finish(r, status) ==
  /\ run' = [run EXCEPT ![r].pc = status]
  /\ button' = TRUE
  /\ spins' = [a \in Arms |-> FALSE]
  /\ UNCHANGED <<health, started>>

StreamEnds(r) ==
  /\ run[r].pc = "streaming" /\ run[r].wire = <<>>
  /\ Finish(r, "ended")
  /\ UNCHANGED pane

(* The request is refused, or the connection breaks. *)
RequestFails(r) ==
  /\ run[r].pc \in {"asking", "streaming"}
  /\ Finish(r, "failed")
  /\ pane' = [pane EXCEPT !["harness"] = Append(@, Node(r, [type |-> "failed"]))]

NextView ==
  \/ Click \/ HealthAnswers
  \/ \E r \in Runs : Respond(r) \/ Receive(r) \/ StreamEnds(r) \/ RequestFails(r)

ViewSpec == InitView /\ [][NextView]_panel

(* The network makes progress with every open response, and with the health
   check. *)
FairViewSpec ==
  /\ ViewSpec /\ WF_panel(HealthAnswers)
  /\ \A r \in Runs : WF_panel(Respond(r) \/ Receive(r) \/ StreamEnds(r))

-----------------------------------------------------------------------------
(* Properties. *)

ViewTypeOK ==
  /\ health \in {"pending", "ready", "down"} /\ button \in BOOLEAN
  /\ started \in 0..MaxRuns
  /\ \A r \in Runs : run[r].pc \in {"none", "asking", "streaming", "ended", "failed"}
  /\ spins \in [Arms -> BOOLEAN] /\ DOMAIN pane = Arms

Live(r) == run[r].pc \in {"asking", "streaming"}

(* However the network cuts the stream, every event is handled once, whole
   and in order, and a stream that ended has been handled to its last event. *)
EventsOnceInOrder ==
  \A r \in Runs :
    /\ run[r].handled = SubSeq(run[r].events, 1, Len(run[r].handled))
    /\ run[r].pc = "ended" => run[r].handled = run[r].events

(* "Attach the output to the call that produced it": a tool result hangs under
   the call of its own run and step it is the result of, and never loose. *)
ResultsWithTheirCalls ==
  \A a \in Arms : \A i \in DOMAIN pane[a] : LET node == pane[a][i] IN
    /\ node.event.type # "tool_result"
    /\ Len(node.results) <= 1
    /\ \A k \in DOMAIN node.results : /\ node.results[k].run = node.run
                                      /\ node.results[k].event.call = node.event.call

(* The panes show one question: everything in them belongs to the last run,
   and while it is live no other run can be started or is still writing. *)
OneQuestionOnScreen ==
  /\ \A a \in Arms : \A i \in DOMAIN pane[a] : pane[a][i].run = started
  /\ \A r \in Runs : Live(r) => r = started /\ ~button

(* The panel is never left waiting: every run ends, and with it the spinners,
   and the button is given back. *)
PanelRecovers ==
  \A r \in Runs : run[r].pc = "asking" ~>
    (~Live(r) /\ button /\ \A a \in Arms : ~spins[a])
=============================================================================
