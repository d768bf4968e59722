----------------------------- MODULE LlmAdapters -----------------------------
(***************************************************************************)
(* A tool-calling conversation through the cloud adapters of               *)
(* harness/llm.py.  The caller keeps its history in the OpenAI shape; on   *)
(* every chat the adapter converts the whole of it (_convert_messages),    *)
(* sends it (_generate, with retries, for Gemini), and turns the reply     *)
(* into ToolCalls, which the caller writes back into the history.          *)
(*                                                                         *)
(* Data: texts are present or absent; a tool call is its id, its tool's    *)
(* name and the provider's signature, a number (0: none).  An id is the    *)
(* number the provider gave it, or the fallback, its place in the reply.   *)
(***************************************************************************)
EXTENDS Naturals, Sequences, FiniteSets, Functions

CONSTANTS Names,      \* names of tools
          Caller,     \* "agent" (run_harness) or "discover" (_run_class)
          Providers,  \* subset of {"gemini", "anthropic"}
          MaxRetries, \* GEMINI_MAX_RETRIES
          MaxTurns,   \* bound: replies with tool calls
          MaxCalls    \* bound: tool calls in a reply

ASSUME AdapterAssumption ==
  /\ Caller \in {"agent", "discover"} /\ Providers \subseteq {"gemini", "anthropic"}
  /\ MaxRetries \in Nat \ {0} /\ MaxTurns \in Nat /\ MaxCalls \in Nat

VARIABLES provider, \* the backend from_env made
          pc,       \* "caller", "send", "wait", "parse", "raised", "answered"
          history,  \* messages, in the OpenAI shape
          request,  \* the contents sent to the provider
          attempt,  \* generate_content calls of this chat
          failures, \* history: what those calls failed with
          reply,    \* the tool calls of the reply
          issued    \* history: signatures the provider has issued

vars == <<provider, pc, history, request, attempt, failures, reply, issued>>

-----------------------------------------------------------------------------
(* _convert_messages.  A turn is a role and its parts; results wait until the
   next message that is none and then go in one turn. *)

Turn(role, parts) == [role |-> role, parts |-> parts]
Text == [kind |-> "text"]

(* Gemini knows calls by name and carries the signature, Claude by id. *)
CallPart(p, c) ==
  IF p = "gemini" THEN [kind |-> "call", key |-> c.name, signature |-> c.signature]
  ELSE [kind |-> "call", key |-> c.id, signature |-> 0]

ResultPart(p, m) == [kind |-> "result", key |-> IF p = "gemini" THEN m.name ELSE m.id]

Flush(acc) ==
  IF acc.pending = <<>> THEN acc
  ELSE [out |-> Append(acc.out, Turn("user", acc.pending)), pending |-> <<>>]

(* Faulty: waiting results are not sent before the next turn. *)
EmitUnflushed(acc, turn) ==
  IF turn.parts = <<>> THEN acc ELSE [acc EXCEPT !.out = Append(@, turn)]

Emit(acc, turn) ==
  IF turn.parts = <<>> THEN Flush(acc)
  ELSE [Flush(acc) EXCEPT !.out = Append(@, turn)]

AssistantParts(p, m) ==
  (IF m.text THEN <<Text>> ELSE <<>>)
    \o [i \in DOMAIN m.calls |-> CallPart(p, m.calls[i])]

ConvertMessage(p, acc, m) ==
  CASE m.role = "system"    -> Flush(acc)   \* becomes configuration
    [] m.role = "user"      -> Emit(acc, Turn("user", <<Text>>))
    [] m.role = "assistant" -> Emit(acc, Turn("model", AssistantParts(p, m)))
    [] m.role = "tool"      -> [acc EXCEPT !.pending = Append(@, ResultPart(p, m))]

(* The turns made of the messages so far, one message after the other. *)
Converted(p, messages) ==
  LET acc[i \in 0..Len(messages)] ==
        IF i = 0 THEN [out |-> <<>>, pending |-> <<>>]
        ELSE ConvertMessage(p, acc[i - 1], messages[i])
  IN  acc[Len(messages)]

ConvertMessages(p, messages) == Flush(Converted(p, messages)).out

-----------------------------------------------------------------------------
(* The caller's history. *)

Message(role, text, calls, id, name) ==
  [role |-> role, text |-> text, calls |-> calls, id |-> id, name |-> name]

(* Faulty: the signature is left out, as in discover. *)
PayloadBare(c) == [c EXCEPT !.signature = 0]

(* _tool_call_payload keeps the signature; discover's own payload does not. *)
Payload(c) == IF Caller = "agent" THEN c ELSE [c EXCEPT !.signature = 0]

ToolMessage(c) == Message("tool", TRUE, <<>>, c.id, c.name)

Init ==
  /\ provider \in Providers
  /\ pc = "caller"
  /\ history = <<Message("system", TRUE, <<>>, 0, ""), Message("user", TRUE, <<>>, 0, "")>>
  /\ request = <<>> /\ attempt = 0 /\ failures = <<>> /\ reply = <<>> /\ issued = {}

(* chat: convert, then send. *)
Chat ==
  /\ pc = "caller"
  /\ request' = ConvertMessages(provider, history)
  /\ attempt' = 0 /\ failures' = <<>>
  /\ pc' = "send"
  /\ UNCHANGED <<provider, history, reply, issued>>

(* One call of the API: it answers, or fails with a transient status, with a
   day's quota spent, or with an error that is ours. *)
Failures == {"transient", "quota", "ours"}

(* Faulty: a day's quota is waited for. *)
RetriedQuota(failure) ==
  provider = "gemini" /\ failure # "ours" /\ attempt + 1 < MaxRetries

Retried(failure) == /\ provider = "gemini"
                    /\ failure = "transient"
                    /\ attempt + 1 < MaxRetries

SendFails ==
  /\ pc = "send"
  /\ \E f \in Failures :
       /\ failures' = Append(failures, f)
       /\ pc' = IF Retried(f) THEN "wait" ELSE "raised"
  /\ attempt' = attempt + 1
  /\ UNCHANGED <<provider, history, request, reply, issued>>

(* sleep(delay) is over. *)
Wake ==
  /\ pc = "wait"
  /\ pc' = "send"
  /\ UNCHANGED <<provider, history, request, attempt, failures, reply, issued>>

NoCalls ==
  /\ pc = "send"
  /\ pc' = "answered"
  /\ attempt' = attempt + 1
  /\ UNCHANGED <<provider, history, request, failures, reply, issued>>

Turns == Cardinality({i \in DOMAIN history : history[i].role = "assistant"})

(* The reply calls tools.  Gemini may give a call no id, and "call_i" then
   repeats in every reply; it signs every call.  Claude gives every call an id
   of its own and signs none. *)
Fresh(i) == 10 * (Turns + 1) + i
Calls ==
  UNION {[1..n -> [id : {"own", "none"}, name : Names]] : n \in 1..MaxCalls}

Ids(cs) ==
  [i \in DOMAIN cs |->
     [id |-> IF cs[i].id = "own" \/ provider = "anthropic" THEN Fresh(i) ELSE i,
      name |-> cs[i].name,
      signature |-> IF provider = "gemini" THEN Fresh(i) ELSE 0]]

CallsTools ==
  /\ pc = "send" /\ Turns < MaxTurns
  /\ \E cs \in Calls : reply' = Ids(cs)
  /\ issued' = issued \cup {reply'[i].signature : i \in DOMAIN reply'}
  /\ attempt' = attempt + 1
  /\ pc' = "parse"
  /\ UNCHANGED <<provider, history, request, failures>>

(* The caller writes the calls down, runs them in order and writes down what
   each said. *)
RunTools ==
  /\ pc = "parse"
  /\ \E text \in BOOLEAN :
       history' = history
         \o <<Message("assistant", text, [i \in DOMAIN reply |-> Payload(reply[i])], 0, "")>>
         \o [i \in DOMAIN reply |-> ToolMessage(reply[i])]
  /\ reply' = <<>>
  /\ pc' = "caller"
  /\ UNCHANGED <<provider, request, attempt, failures, issued>>

Next == Chat \/ SendFails \/ Wake \/ NoCalls \/ CallsTools \/ RunTools

Spec == Init /\ [][Next]_vars

-----------------------------------------------------------------------------
(* Properties. *)

Part == [kind : {"text"}]
          \cup [kind : {"call"}, key : Nat \cup Names, signature : Nat]
          \cup [kind : {"result"}, key : Nat \cup Names]

TypeOK ==
  /\ provider \in Providers
  /\ pc \in {"caller", "send", "wait", "parse", "raised", "answered"}
  /\ \A i \in DOMAIN request : request[i].role \in {"user", "model"}
  /\ attempt \in 0..MaxRetries
  /\ failures \in Seq(Failures)
  /\ issued \subseteq Nat

CallsAt(turn) == {k \in DOMAIN turn.parts : turn.parts[k].kind = "call"}
HasResult(turn) == \E k \in DOMAIN turn.parts : turn.parts[k].kind = "result"

(* A turn of results only: exactly one for every call, in the calls' order. *)
Answers(next, turn) ==
  /\ next.role = "user"
  /\ \A k \in DOMAIN next.parts : next.parts[k].kind = "result"
  /\ \E call \in Bijection(DOMAIN next.parts, CallsAt(turn)) :
       /\ \A j, k \in DOMAIN next.parts : j < k => call[j] < call[k]
       /\ \A k \in DOMAIN next.parts : next.parts[k].key = turn.parts[call[k]].key

(* The model sees what it called and what came back: in every request, a turn
   with calls is followed at once by ONE user turn that answers exactly those
   calls, in their order, and no result stands anywhere else. *)
CallsAreAnswered ==
  pc = "send" => \A i \in DOMAIN request :
    /\ CallsAt(request[i]) # {} => i < Len(request) /\ Answers(request[i + 1], request[i])
    /\ HasResult(request[i]) => i > 1 /\ CallsAt(request[i - 1]) # {}

(* "Consecutive results must be merged into one": model and user turns
   alternate, whatever the length of the conversation. *)
TurnsAlternate ==
  pc = "send" => /\ request # <<>> /\ request[1].role = "user"
                 /\ \A i \in 1..Len(request) - 1 : request[i].role # request[i + 1].role

(* Every request is one the provider accepts, after any number of turns with
   any number of calls. *)
RequestsAreAccepted == CallsAreAnswered /\ TurnsAlternate

(* Gemini rejects a request that does not send back, verbatim, the signature
   of every call it made: each must survive the round trip. *)
SignaturesReturn ==
  pc = "send" /\ provider = "gemini" =>
    issued = UNION {{request[i].parts[k].signature : k \in CallsAt(request[i])} :
                      i \in DOMAIN request}

(* A blip does not end the question: Gemini's chat raises only after an error
   that waiting cannot mend, or when every attempt it may make failed; and it
   makes none after such an error. *)
OnlyHopelessRaises ==
  provider = "gemini" =>
    /\ pc = "raised" => failures[Len(failures)] # "transient" \/ Len(failures) = MaxRetries
    /\ \A i \in 1..Len(failures) - 1 : failures[i] = "transient"
    /\ attempt <= MaxRetries

=============================================================================
