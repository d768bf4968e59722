----------------------------- MODULE MCLiveView -----------------------------
(* TLC instances of LiveView. *)
EXTENDS LiveView

E(type, arm) == [type |-> type, arm |-> arm]
Call(name, step, n) == [type |-> "tool_call", arm |-> "harness",
                        name |-> name, step |-> step, call |-> n]
Result(name, step, n) == [Call(name, step, n) EXCEPT !.type = "tool_result"]

\* One step that calls a tool twice, and a run that breaks in the middle of an arm.
MCTwice == <<E("arm_start", "harness"), Call("t", 1, 1), Result("t", 1, 1),
             [type |-> "keep-alive"], Call("t", 1, 2), Result("t", 1, 2),
             E("sql", "harness"), E("arm_done", "harness"), [type |-> "done", graded |-> FALSE]>>
MCBroken == <<E("arm_start", "baseline"), E("arm_error", "baseline"), Fatal>>
MCScripts == {MCTwice, MCBroken}
MCShort == {<<E("arm_start", "harness"), Call("t", 1, 1), [type |-> "keep-alive"],
              Result("t", 1, 1), [type |-> "done", graded |-> TRUE]>>, MCBroken}
MCOneScript == {MCTwice}
=============================================================================
