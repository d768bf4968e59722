-------------------------- MODULE LlmAdaptersProofs --------------------------
(* Proofs about LlmAdapters, for conversations of any length. *)
EXTENDS LlmAdapters, FiniteSetTheorems, WellFoundedInduction, TLAPS

-----------------------------------------------------------------------------
(* A blip does not end the question. *)

RetryInv ==
  /\ provider \in Providers
  /\ failures \in Seq(Failures)
  /\ attempt \in Nat
  /\ provider = "gemini" =>
       /\ attempt <= MaxRetries
       /\ pc \in {"send", "wait"} => attempt = Len(failures) /\ attempt < MaxRetries
       /\ pc \in {"send", "wait"} => \A i \in DOMAIN failures : failures[i] = "transient"
       /\ pc \notin {"send", "wait"} =>
            \A i \in 1..Len(failures) - 1 : failures[i] = "transient"
       /\ pc = "raised" =>
            failures # <<>> /\ (failures[Len(failures)] # "transient" \/ Len(failures) = MaxRetries)

LEMMA InitRetries == Init => RetryInv
<1> SUFFICES ASSUME Init PROVE RetryInv
  OBVIOUS
<1>1. provider \in Providers /\ pc = "caller" /\ failures = <<>> /\ attempt = 0
  BY DEF Init
<1>2. <<>> \in Seq(Failures) /\ \A i \in 1..Len(<<>>) - 1 : FALSE
  OBVIOUS
<1>3. 0 <= MaxRetries
  BY AdapterAssumption DEF AdapterAssumption
<1>4. \A i \in 1..Len(failures) - 1 : failures[i] = "transient"
  BY <1>1, <1>2
<1>5. QED
  BY <1>1, <1>2, <1>3, <1>4 DEF RetryInv

LEMMA StepRetries == RetryInv /\ [Next]_vars => RetryInv'
<1> SUFFICES ASSUME RetryInv, [Next]_vars PROVE RetryInv'
  OBVIOUS
<1> USE AdapterAssumption DEF AdapterAssumption
<1>1. CASE UNCHANGED vars
  BY <1>1 DEF vars, RetryInv
<1>2. CASE Chat
  BY <1>2 DEF Chat, RetryInv
<1>3. CASE SendFails
  <2>1. PICK f \in Failures :
          /\ failures' = Append(failures, f)
          /\ pc' = IF Retried(f) THEN "wait" ELSE "raised"
    BY <1>3 DEF SendFails
  <2>2. /\ pc = "send" /\ attempt' = attempt + 1 /\ provider' = provider
        /\ failures \in Seq(Failures) /\ attempt \in Nat
    BY <1>3 DEF SendFails, RetryInv
  <2>3. /\ failures' \in Seq(Failures) /\ Len(failures') = Len(failures) + 1
        /\ failures'[Len(failures')] = f
        /\ \A i \in 1..Len(failures') - 1 : i \in DOMAIN failures /\ failures'[i] = failures[i]
    BY <2>1, <2>2
  <2>4. CASE Retried(f)
    BY <2>1, <2>2, <2>3, <2>4 DEF Retried, RetryInv
  <2>5. CASE ~Retried(f)
    BY <2>1, <2>2, <2>3, <2>5 DEF Retried, RetryInv
  <2>6. QED
    BY <2>4, <2>5
<1>4. CASE Wake
  BY <1>4 DEF Wake, RetryInv
<1>5. CASE NoCalls
  BY <1>5 DEF NoCalls, RetryInv
<1>6. CASE CallsTools
  BY <1>6 DEF CallsTools, RetryInv
<1>7. CASE RunTools
  BY <1>7 DEF RunTools, RetryInv
<1>8. QED
  BY <1>1, <1>2, <1>3, <1>4, <1>5, <1>6, <1>7 DEF Next

(* GeminiLLM._generate: a chat raises only after an error that waiting cannot
   mend or when every attempt it may make has failed, for any GEMINI_MAX_RETRIES
   and any number of chats; after such an error it sends nothing more. *)
THEOREM RaisesOnlyWhenHopeless == Spec => []OnlyHopelessRaises
<1>1. RetryInv => OnlyHopelessRaises
  BY DEF RetryInv, OnlyHopelessRaises
<1>2. QED
  BY InitRetries, StepRetries, <1>1, PTL DEF Spec

-----------------------------------------------------------------------------
(* Converting a message more. *)

LEMMA NatMin == ASSUME NEW T, T \subseteq Nat, T # {} PROVE \E x \in T : \A y \in T : x <= y
<1> DEFINE U == {0..m : m \in T}
<1>1. U \subseteq FiniteSubsetsOf(Nat) /\ U # {}
  <2>1. \A m \in Nat : IsFiniteSet(0..m) /\ 0..m \subseteq Nat
    BY FS_Interval
  <2>2. QED
    BY <2>1 DEF FiniteSubsetsOf
<1>2. PICK S \in U : \A R \in U : <<R, S>> \notin StrictSubsetOrdering(Nat)
  <2> HIDE DEF U
  <2>1. QED
    BY <1>1, FS_StrictSubsetOrderingWellFounded, WFMin, Zenon
<1>3. PICK x \in T : S = 0..x
  OBVIOUS
<1>4. ASSUME NEW y \in T, y < x PROVE FALSE
  <2>1. 0..y \in U /\ 0..y \subseteq 0..x /\ x \in 0..x /\ x \notin 0..y
    BY <1>4
  <2>2. 0..y \in SUBSET Nat /\ 0..x \in SUBSET Nat
    BY <1>4
  <2>3. <<0..y, 0..x>> \in StrictSubsetOrdering(Nat)
    BY <2>1, <2>2 DEF StrictSubsetOrdering
  <2>4. QED
    BY <2>1, <2>3, <1>2, <1>3
<1>5. QED
  BY <1>4

(* acc holds what was made of the first messages, up to n of them. *)
Accumulates(p, ms, n, acc) ==
  acc = [i \in 0..n |-> IF i = 0 THEN [out |-> <<>>, pending |-> <<>>]
                        ELSE ConvertMessage(p, acc[i - 1], ms[i])]

LEMMA ConvertedByAcc ==
  ASSUME NEW p, NEW ms
  PROVE  Converted(p, ms) = (CHOOSE acc : Accumulates(p, ms, Len(ms), acc))[Len(ms)]
BY DEF Converted, Accumulates

(* There is such an acc: the shortest list without one would be an
   extension of a list with one. *)
LEMMA AccExists ==
  ASSUME NEW p, NEW ms, NEW n \in Nat
  PROVE  \E acc : Accumulates(p, ms, n, acc)
<1> DEFINE T == {m \in Nat : ~ \E acc : Accumulates(p, ms, m, acc)}
<1>1. SUFFICES ASSUME T # {} PROVE FALSE
  OBVIOUS
<1>2. PICK m \in T : \A y \in T : m <= y
  <2> HIDE DEF T
  <2>1. T \subseteq Nat
    BY DEF T
  <2>2. QED
    BY <1>1, <2>1, NatMin
<1>3. m # 0
  <2> DEFINE zero == [i \in 0..0 |-> [out |-> <<>>, pending |-> <<>>]]
  <2>1. Accumulates(p, ms, 0, zero)
    BY DEF Accumulates
  <2>2. QED
    BY <2>1
<1>4. PICK acc : Accumulates(p, ms, m - 1, acc)
  <2>1. m - 1 \in Nat /\ ~(m <= m - 1)
    BY <1>3
  <2>2. m - 1 \notin T
    BY <1>2, <2>1
  <2>3. QED
    BY <2>1, <2>2
<1> DEFINE more == [i \in 0..m |-> IF i = m THEN ConvertMessage(p, acc[m - 1], ms[m]) ELSE acc[i]]
<1>5. \A i \in 0..m : more[i] = IF i = 0 THEN [out |-> <<>>, pending |-> <<>>]
                                ELSE ConvertMessage(p, more[i - 1], ms[i])
  BY <1>3, <1>4 DEF Accumulates
<1>6. Accumulates(p, ms, m, more)
  <2>1. more = [i \in 0..m |-> more[i]]
    OBVIOUS
  <2> HIDE DEF more
  <2>2. QED
    BY <1>5, <2>1 DEF Accumulates
<1>7. QED
  BY <1>6

(* What is made of the first messages does not depend on those that follow. *)
LEMMA AccAgree ==
  ASSUME NEW p, NEW ms, NEW ns, NEW m \in Nat, NEW n \in Nat, m <= n,
         \A i \in 1..m : ms[i] = ns[i],
         NEW acc, Accumulates(p, ms, m, acc), NEW more, Accumulates(p, ns, n, more)
  PROVE  acc[m] = more[m]
<1> DEFINE T == {i \in Nat : i <= m /\ acc[i] # more[i]}
<1>1. SUFFICES ASSUME T # {} PROVE FALSE
  OBVIOUS
<1>2. PICK k \in T : \A y \in T : k <= y
  <2> HIDE DEF T
  <2>1. T \subseteq Nat
    BY DEF T
  <2>2. QED
    BY <1>1, <2>1, NatMin
<1>3. \A i \in 0..m : i \in 0..n
  OBVIOUS
<1>4. k \in 0..m /\ k \in 0..n
  OBVIOUS
<1>5. acc[k] = (IF k = 0 THEN [out |-> <<>>, pending |-> <<>>]
                ELSE ConvertMessage(p, acc[k - 1], ms[k]))
  BY <1>4 DEF Accumulates
<1>6. more[k] = (IF k = 0 THEN [out |-> <<>>, pending |-> <<>>]
                 ELSE ConvertMessage(p, more[k - 1], ns[k]))
  BY <1>4 DEF Accumulates
<1>7. k # 0
  BY <1>5, <1>6
<1>8. acc[k - 1] = more[k - 1]
  <2>1. k - 1 \in Nat /\ k - 1 <= m /\ ~(k <= k - 1)
    BY <1>7
  <2>2. QED
    BY <1>2, <2>1
<1>9. ms[k] = ns[k]
  BY <1>4, <1>7
<1>10. acc[k] = more[k]
  BY <1>5, <1>6, <1>7, <1>8, <1>9
<1>11. QED
  BY <1>10

LEMMA ConvertedNone == ASSUME NEW p PROVE Converted(p, <<>>) = [out |-> <<>>, pending |-> <<>>]
<1> DEFINE A(acc) == Accumulates(p, <<>>, Len(<<>>), acc)
<1>1. Len(<<>>) = 0
  OBVIOUS
<1>2. \E acc : A(acc)
  BY <1>1, AccExists
<1>3. A(CHOOSE acc : A(acc))
  <2> HIDE DEF A
  <2>1. QED
    BY <1>2
<1>4. (CHOOSE acc : A(acc))[0] = [out |-> <<>>, pending |-> <<>>]
  BY <1>1, <1>3 DEF Accumulates
<1>5. QED
  BY <1>1, <1>4, ConvertedByAcc

LEMMA ConvertedMore ==
  ASSUME NEW p, NEW S, NEW ms \in Seq(S), NEW m \in S
  PROVE  Converted(p, Append(ms, m)) = ConvertMessage(p, Converted(p, ms), m)
<1> DEFINE n == Len(ms)
           ns == Append(ms, m)
<1>1. n \in Nat /\ Len(ns) = n + 1 /\ ns[n + 1] = m /\ \A i \in 1..n : ms[i] = ns[i]
  OBVIOUS
<1> HIDE DEF n, ns
<1>2. PICK acc : acc = CHOOSE a : Accumulates(p, ms, n, a)
  OBVIOUS
<1>3. PICK more : more = CHOOSE a : Accumulates(p, ns, n + 1, a)
  OBVIOUS
<1>4. Accumulates(p, ms, n, acc)
  BY <1>1, <1>2, AccExists
<1>5. Accumulates(p, ns, n + 1, more)
  <2>1. n + 1 \in Nat
    BY <1>1
  <2>2. QED
    BY <1>3, <2>1, AccExists
<1>6. acc[n] = more[n]
  <2>1. n + 1 \in Nat /\ n <= n + 1
    BY <1>1
  <2>2. QED
    BY <1>1, <1>4, <1>5, <2>1, AccAgree
<1>7. more[n + 1] = ConvertMessage(p, more[n], m)
  <2>1. n + 1 \in 0..n + 1 /\ n + 1 # 0 /\ (n + 1) - 1 = n
    BY <1>1
  <2>2. more[n + 1] = ConvertMessage(p, more[(n + 1) - 1], ns[n + 1])
    BY <1>5, <2>1 DEF Accumulates
  <2>3. QED
    BY <1>1, <2>1, <2>2
<1>8. Converted(p, ms) = acc[n]
  BY <1>2, ConvertedByAcc DEF n
<1>9. Converted(p, ns) = more[n + 1]
  BY <1>1, <1>3, ConvertedByAcc
<1>10. QED
  BY <1>6, <1>7, <1>8, <1>9 DEF ns

-----------------------------------------------------------------------------
(* Requests. *)

Contents == [role : {"user", "model"}, parts : Seq(Part)]
ToolCall == [id : Nat, name : Names, signature : Nat]
Messages == [role : {"system", "user", "assistant", "tool"}, text : BOOLEAN,
             calls : Seq(ToolCall), id : Nat, name : Names \cup {""}]

(* What the runs check of a request, of any sequence of turns. *)
Accepted(req) ==
  /\ req # <<>> /\ req[1].role = "user"
  /\ \A i \in 1..Len(req) - 1 : req[i].role # req[i + 1].role
  /\ \A i \in DOMAIN req :
       /\ CallsAt(req[i]) # {} => i < Len(req) /\ Answers(req[i + 1], req[i])
       /\ HasResult(req[i]) => i > 1 /\ CallsAt(req[i - 1]) # {}

Signatures(turn) == {turn.parts[k].signature : k \in CallsAt(turn)}
Signed(req) == UNION {Signatures(req[i]) : i \in DOMAIN req}

(* A request stays accepted by one more turn of the model and its answer. *)
LEMMA OneMoreRound ==
  ASSUME NEW req \in Seq(Contents), Accepted(req), req[Len(req)].role = "user",
         NEW m \in Contents, m.role = "model", CallsAt(m) # {}, ~HasResult(m),
         NEW u \in Contents, Answers(u, m), CallsAt(u) = {}
  PROVE  LET more == Append(Append(req, m), u) IN
         /\ more \in Seq(Contents) /\ Accepted(more) /\ more[Len(more)].role = "user"
         /\ Signed(more) = Signed(req) \cup Signatures(m)
<1> DEFINE more == Append(Append(req, m), u)
           n == Len(req)
<1>1. n \in Nat /\ n >= 1
  BY DEF Accepted
<1>2. /\ more \in Seq(Contents) /\ Len(more) = n + 2
      /\ more[n + 1] = m /\ more[n + 2] = u
      /\ \A i \in 1..n : more[i] = req[i]
  OBVIOUS
<1>3. DOMAIN req = 1..n /\ DOMAIN more = 1..(n + 2) /\ Len(more) = n + 2
  BY <1>2
<1>4. u.role = "user"
  BY DEF Answers
<1> HIDE DEF more, n
<1>5. more # <<>> /\ more[1].role = "user"
  <2>1. 1 \in 1..n /\ 1 \in DOMAIN more
    BY <1>1, <1>3
  <2>2. more[1] = req[1]
    BY <1>2, <2>1
  <2>3. QED
    BY <2>1, <2>2 DEF Accepted
<1>6. ASSUME NEW i \in 1..Len(more) - 1 PROVE more[i].role # more[i + 1].role
  <2>1. CASE i < n
    <3>1. i \in 1..n /\ i + 1 \in 1..n /\ i \in 1..Len(req) - 1
      BY <1>1, <1>3, <2>1 DEF n
    <3>2. QED
      BY <1>2, <3>1 DEF Accepted
  <2>2. CASE i = n
    BY <1>1, <1>2, <2>2 DEF n
  <2>3. CASE i = n + 1
    <3>1. i + 1 = n + 2
      BY <1>1, <2>3
    <3>2. QED
      BY <1>2, <1>4, <2>3, <3>1
  <2>4. QED
    BY <1>1, <1>3, <2>1, <2>2, <2>3
<1>7. ASSUME NEW i \in 1..n
      PROVE  /\ CallsAt(more[i]) # {} => i < n + 2 /\ Answers(more[i + 1], more[i])
             /\ HasResult(more[i]) => i > 1 /\ CallsAt(more[i - 1]) # {}
  <2>1. more[i] = req[i] /\ i \in DOMAIN req
    BY <1>2, <1>3
  <2>2. ASSUME CallsAt(req[i]) # {} PROVE more[i + 1] = req[i + 1]
    <3>1. i < n
      BY <2>1, <2>2 DEF Accepted, n
    <3>2. i + 1 \in 1..n
      BY <1>1, <3>1
    <3>3. QED
      BY <1>2, <3>2
  <2>3. ASSUME HasResult(req[i]) PROVE i > 1 /\ more[i - 1] = req[i - 1]
    <3>1. i > 1
      BY <2>1, <2>3 DEF Accepted
    <3>2. i - 1 \in 1..n
      BY <1>1, <3>1
    <3>3. QED
      BY <1>2, <3>1, <3>2
  <2>4. i < n + 2
    BY <1>1
  <2>5. QED
    BY <2>1, <2>2, <2>3, <2>4 DEF Accepted
<1>8. \A i \in 1..(n + 2) :
        /\ CallsAt(more[i]) # {} => i < n + 2 /\ Answers(more[i + 1], more[i])
        /\ HasResult(more[i]) => i > 1 /\ CallsAt(more[i - 1]) # {}
  <2>1. n + 1 < n + 2 /\ n + 1 > 1 /\ n + 2 > 1 /\ (n + 1) + 1 = n + 2 /\ (n + 2) - 1 = n + 1
    BY <1>1
  <2>2. \A i \in 1..(n + 2) : i \in 1..n \/ i = n + 1 \/ i = n + 2
    BY <1>1
  <2>3. QED
    BY <1>2, <1>7, <2>1, <2>2
<1>9. Accepted(more)
  BY <1>3, <1>5, <1>6, <1>8 DEF Accepted
<1>10. more[Len(more)].role = "user"
  BY <1>2, <1>4
<1>11. Signed(more) = Signed(req) \cup Signatures(m)
  <2>1. Signatures(u) = {}
    BY DEF Signatures
  <2>2. \A i \in 1..(n + 2) : i \in 1..n \/ i = n + 1 \/ i = n + 2
    BY <1>1
  <2>3. n + 1 \in 1..(n + 2) /\ \A i \in 1..n : i \in 1..(n + 2)
    BY <1>1
  <2>4. \A i \in 1..n : Signatures(more[i]) = Signatures(req[i])
    BY <1>2
  <2>5. Signatures(more[n + 1]) = Signatures(m) /\ Signatures(more[n + 2]) = {}
    BY <1>2, <2>1
  <2>6. QED
    BY <1>3, <2>2, <2>3, <2>4, <2>5 DEF Signed
<1>12. QED
  BY <1>2, <1>9, <1>10, <1>11 DEF more

-----------------------------------------------------------------------------
(* A round of tool calls. *)

Results(p, r) == [k \in DOMAIN r |-> ResultPart(p, ToolMessage(r[k]))]

LEMMA ResultParts ==
  ASSUME NEW p, NEW r \in Seq(ToolCall)
  PROVE  /\ Results(p, r) \in Seq(Part)
         /\ \A k \in DOMAIN r : /\ Results(p, r)[k] \in Part
                                /\ Results(p, r)[k].kind = "result"
                                /\ Results(p, r)[k].key = (IF p = "gemini" THEN r[k].name ELSE r[k].id)
<1>1. \A k \in DOMAIN r : r[k] \in ToolCall
  OBVIOUS
<1>2. \A k \in DOMAIN r : ResultPart(p, ToolMessage(r[k])) =
        [kind |-> "result", key |-> IF p = "gemini" THEN r[k].name ELSE r[k].id]
  BY DEF ResultPart, ToolMessage, Message
<1>3. \A k \in DOMAIN r : ResultPart(p, ToolMessage(r[k])) \in Part
  BY <1>1, <1>2 DEF Part, ToolCall
<1>4. QED
  BY <1>2, <1>3 DEF Results

LEMMA MorePending ==
  ASSUME NEW turns, NEW waiting, NEW part
  PROVE  [[out |-> turns, pending |-> waiting] EXCEPT !.pending = Append(@, part)]
           = [out |-> turns, pending |-> Append(waiting, part)]
<1> DEFINE acc == [out |-> turns, pending |-> waiting]
           more == [acc EXCEPT !.pending = Append(@, part)]
<1>1. acc.pending = waiting /\ acc.out = turns /\ DOMAIN acc = {"out", "pending"}
  OBVIOUS
<1>2. more = [f \in DOMAIN acc |-> IF f = "pending" THEN Append(acc.pending, part) ELSE acc[f]]
  <2> HIDE DEF acc
  <2>1. QED
    OBVIOUS
<1>3. [out |-> turns, pending |-> Append(waiting, part)]
        = [f \in {"out", "pending"} |-> IF f = "pending" THEN Append(waiting, part) ELSE turns]
  OBVIOUS
<1> HIDE DEF acc, more
<1>4. QED
  BY <1>1, <1>2, <1>3 DEF acc, more

(* The results wait, one after the other. *)
LEMMA ResultsWait ==
  ASSUME NEW p, NEW h \in Seq(Messages), NEW r \in Seq(ToolCall),
         NEW turns, Converted(p, h) = [out |-> turns, pending |-> <<>>]
  PROVE  Converted(p, h \o [k \in DOMAIN r |-> ToolMessage(r[k])])
           = [out |-> turns, pending |-> Results(p, r)]
<1> DEFINE Said(k) == [j \in 1..k |-> ToolMessage(r[j])]
           Waits(k) == Converted(p, h \o Said(k))
                         = [out |-> turns, pending |-> [j \in 1..k |-> ResultPart(p, ToolMessage(r[j]))]]
           T == {k \in Nat : k <= Len(r) /\ ~Waits(k)}
<1>1. \A k \in DOMAIN r : ToolMessage(r[k]) \in Messages
  <2>1. \A k \in DOMAIN r : r[k] \in ToolCall
    OBVIOUS
  <2>2. <<>> \in Seq(ToolCall)
    OBVIOUS
  <2>3. QED
    BY <2>1, <2>2 DEF ToolMessage, Message, Messages, ToolCall
<1>2. \A k \in Nat : k <= Len(r) => Said(k) \in Seq(Messages) /\ Len(Said(k)) = k
  BY <1>1
<1>3. Waits(0)
  <2>1. Said(0) = <<>> /\ h \o <<>> = h
    OBVIOUS
  <2>2. [j \in 1..0 |-> ResultPart(p, ToolMessage(r[j]))] = <<>>
    OBVIOUS
  <2>3. QED
    BY <2>1, <2>2
<1>4. ASSUME NEW k \in Nat, k + 1 <= Len(r), Waits(k) PROVE Waits(k + 1)
  <2> DEFINE m == ToolMessage(r[k + 1])
  <2>1. m \in Messages /\ k + 1 \in DOMAIN r /\ k <= Len(r)
    BY <1>1, <1>4
  <2>2. h \o Said(k + 1) = Append(h \o Said(k), m)
    BY <1>1, <1>2, <2>1
  <2>3. h \o Said(k) \in Seq(Messages)
    BY <1>2, <2>1
  <2>4. Converted(p, h \o Said(k + 1)) = ConvertMessage(p, Converted(p, h \o Said(k)), m)
    <3> DEFINE g == h \o Said(k)
    <3>1. g \in Seq(Messages) /\ m \in Messages /\ h \o Said(k + 1) = Append(g, m)
      BY <2>1, <2>2, <2>3
    <3> HIDE DEF g, m
    <3>2. Converted(p, Append(g, m)) = ConvertMessage(p, Converted(p, g), m)
      BY <3>1, ConvertedMore
    <3>3. Converted(p, h \o Said(k + 1)) = ConvertMessage(p, Converted(p, g), m)
      BY <3>1, <3>2, Zenon
    <3>4. QED
      BY <3>3 DEF g
  <2>5. m.role = "tool"
    BY DEF ToolMessage, Message
  <2>6. \A acc : ConvertMessage(p, acc, m) = [acc EXCEPT !.pending = Append(@, ResultPart(p, m))]
    <3> HIDE DEF m
    <3>1. QED
      BY <2>5 DEF ConvertMessage
  <2>7. Append([j \in 1..k |-> ResultPart(p, ToolMessage(r[j]))], ResultPart(p, m))
          = [j \in 1..(k + 1) |-> ResultPart(p, ToolMessage(r[j]))]
    <3> DEFINE f(j) == ResultPart(p, ToolMessage(r[j]))
    <3> HIDE DEF f
    <3>1. Append([j \in 1..k |-> f(j)], f(k + 1)) = [j \in 1..(k + 1) |-> f(j)]
      OBVIOUS
    <3>2. QED
      BY <3>1 DEF f
  <2> DEFINE waiting == [j \in 1..k |-> ResultPart(p, ToolMessage(r[j]))]
             part == ResultPart(p, m)
  <2>8. Converted(p, h \o Said(k)) = [out |-> turns, pending |-> waiting]
    BY <1>4
  <2> HIDE DEF Said, m, waiting, part
  <2>9. [[out |-> turns, pending |-> waiting] EXCEPT !.pending = Append(@, part)]
          = [out |-> turns, pending |-> Append(waiting, part)]
    BY MorePending
  <2>10. Converted(p, h \o Said(k + 1)) = [out |-> turns, pending |-> Append(waiting, part)]
    BY <2>4, <2>6, <2>8, <2>9 DEF part
  <2>11. QED
    BY <2>7, <2>10 DEF waiting, part
<1>5. T = {}
  <2>1. SUFFICES ASSUME T # {} PROVE FALSE
    OBVIOUS
  <2>2. PICK k \in T : \A y \in T : k <= y
    <3>1. T \subseteq Nat
      OBVIOUS
    <3> HIDE DEF T
    <3>2. QED
      BY <2>1, <3>1, NatMin
  <2> HIDE DEF Waits
  <2>3. k \in Nat /\ k <= Len(r) /\ ~Waits(k) /\ k # 0
    BY <1>3
  <2>4. k - 1 \in Nat /\ k - 1 <= Len(r) /\ ~(k <= k - 1) /\ (k - 1) + 1 = k
    BY <2>3
  <2>5. Waits(k - 1)
    BY <2>2, <2>4
  <2>6. Waits((k - 1) + 1)
    BY <1>4, <2>3, <2>4, <2>5
  <2>7. QED
    BY <2>3, <2>4, <2>6
<1>6. Waits(Len(r))
  <2> HIDE DEF Waits
  <2>1. Len(r) \in Nat
    OBVIOUS
  <2>2. QED
    BY <1>5, <2>1
<1>7. DOMAIN r = 1..Len(r)
  OBVIOUS
<1>8. QED
  BY <1>6, <1>7 DEF Results

(* What the caller writes of a reply, the model's turn made of it and the
   turn that brings the results. *)
Asked(text, r) == Message("assistant", text, [k \in DOMAIN r |-> Payload(r[k])], 0, "")
Said(r) == [k \in DOMAIN r |-> ToolMessage(r[k])]
ModelTurn(p, text, r) == Turn("model", AssistantParts(p, Asked(text, r)))
ResultTurn(p, r) == Turn("user", Results(p, r))

LEMMA PayloadKeeps ==
  ASSUME NEW c \in ToolCall
  PROVE  /\ Payload(c) \in ToolCall /\ Payload(c).id = c.id /\ Payload(c).name = c.name
         /\ Caller = "agent" => Payload(c).signature = c.signature
BY DEF Payload, ToolCall

LEMMA CallParts ==
  ASSUME NEW p, NEW c \in ToolCall
  PROVE  /\ CallPart(p, c) \in Part /\ CallPart(p, c).kind = "call"
         /\ CallPart(p, c).key = (IF p = "gemini" THEN c.name ELSE c.id)
         /\ p = "gemini" => CallPart(p, c).signature = c.signature
BY DEF CallPart, Part, ToolCall

(* The parts of the model's turn: its text, if there is one, and the calls. *)
LEMMA ModelParts ==
  ASSUME NEW p, NEW text \in BOOLEAN, NEW r \in Seq(ToolCall)
  PROVE  LET parts == AssistantParts(p, Asked(text, r))
             c == IF text THEN 1 ELSE 0
         IN  /\ parts \in Seq(Part) /\ Len(parts) = c + Len(r)
             /\ \A k \in 1..c : parts[k] = Text
             /\ \A k \in 1..Len(r) : parts[c + k] = CallPart(p, Payload(r[k]))
<1> DEFINE parts == AssistantParts(p, Asked(text, r))
           head == IF text THEN <<Text>> ELSE <<>>
           calls == [k \in DOMAIN r |-> CallPart(p, Payload(r[k]))]
           c == IF text THEN 1 ELSE 0
<1>1. \A k \in DOMAIN r : Payload(r[k]) \in ToolCall /\ CallPart(p, Payload(r[k])) \in Part
  <2>1. \A k \in DOMAIN r : r[k] \in ToolCall
    OBVIOUS
  <2>2. QED
    BY <2>1, PayloadKeeps, CallParts
<1>2. calls \in Seq(Part) /\ Len(calls) = Len(r) /\ \A k \in 1..Len(r) : calls[k] = CallPart(p, Payload(r[k]))
  BY <1>1
<1>3. head \in Seq(Part) /\ Len(head) = c /\ \A k \in 1..c : head[k] = Text
  <2>1. Text \in Part
    BY DEF Text, Part
  <2>2. <<Text>> \in Seq(Part) /\ Len(<<Text>>) = 1 /\ <<Text>>[1] = Text
    BY <2>1
  <2>3. <<>> \in Seq(Part) /\ Len(<<>>) = 0
    OBVIOUS
  <2>4. CASE text
    <3>1. \A k \in 1..1 : k = 1
      OBVIOUS
    <3>2. QED
      BY <2>2, <2>4, <3>1
  <2>5. CASE ~text
    BY <2>3, <2>5
  <2>6. QED
    BY <2>4, <2>5
<1>4. parts = head \o calls
  <2>1. Asked(text, r).text = text /\ Asked(text, r).calls = [k \in DOMAIN r |-> Payload(r[k])]
    BY DEF Asked, Message
  <2>2. [i \in DOMAIN Asked(text, r).calls |-> CallPart(p, Asked(text, r).calls[i])] = calls
    BY <2>1
  <2>3. QED
    BY <2>1, <2>2 DEF AssistantParts
<1>5. c \in Nat /\ Len(r) \in Nat
  OBVIOUS
<1> HIDE DEF parts, head, calls, c
<1>6. parts \in Seq(Part) /\ Len(parts) = c + Len(r)
  BY <1>2, <1>3, <1>4
<1>7. \A k \in 1..c : parts[k] = Text
  BY <1>2, <1>3, <1>4, <1>5
<1>8. \A k \in 1..Len(r) : parts[c + k] = CallPart(p, Payload(r[k]))
  <2> SUFFICES ASSUME NEW k \in 1..Len(r) PROVE parts[c + k] = CallPart(p, Payload(r[k]))
    OBVIOUS
  <2>1. parts[c + k] = calls[k]
    BY <1>2, <1>3, <1>4, <1>5
  <2>2. QED
    BY <1>2, <2>1
<1>9. QED
  BY <1>6, <1>7, <1>8 DEF parts, c

(* The results answer the calls, one by one. *)
LEMMA RoundAnswers ==
  ASSUME NEW p, NEW text \in BOOLEAN, NEW r \in Seq(ToolCall), r # <<>>
  PROVE  LET m == ModelTurn(p, text, r)
             u == ResultTurn(p, r)
         IN  /\ m \in Contents /\ m.role = "model" /\ CallsAt(m) # {} /\ ~HasResult(m)
             /\ u \in Contents /\ Answers(u, m) /\ CallsAt(u) = {}
             /\ p = "gemini" /\ Caller = "agent"
                  => Signatures(m) = {r[k].signature : k \in DOMAIN r}
<1> DEFINE m == ModelTurn(p, text, r)
           u == ResultTurn(p, r)
           parts == AssistantParts(p, Asked(text, r))
           c == IF text THEN 1 ELSE 0
           n == Len(r)
<1>1. m = [role |-> "model", parts |-> parts] /\ u = [role |-> "user", parts |-> Results(p, r)]
  BY DEF ModelTurn, ResultTurn, Turn
<1>2. /\ parts \in Seq(Part) /\ Len(parts) = c + n
      /\ \A k \in 1..c : parts[k] = Text
      /\ \A k \in 1..n : parts[c + k] = CallPart(p, Payload(r[k]))
  BY ModelParts
<1>3. c \in {0, 1} /\ n \in Nat /\ n >= 1 /\ DOMAIN r = 1..n
  OBVIOUS
<1>4. \A k \in 1..n : r[k] \in ToolCall
  OBVIOUS
<1>5. /\ Results(p, r) \in Seq(Part) /\ DOMAIN Results(p, r) = 1..n
      /\ \A k \in 1..n : /\ Results(p, r)[k].kind = "result"
                         /\ Results(p, r)[k].key = (IF p = "gemini" THEN r[k].name ELSE r[k].id)
  BY ResultParts DEF Results
<1> HIDE DEF m, u, parts, c, n
<1>6. /\ m \in Contents /\ m.role = "model" /\ m.parts = parts
      /\ u \in Contents /\ u.role = "user" /\ u.parts = Results(p, r)
  BY <1>1, <1>2, <1>5 DEF Contents
<1>7. \A k \in 1..n : /\ parts[c + k].kind = "call"
                      /\ parts[c + k].key = Results(p, r)[k].key
                      /\ p = "gemini" /\ Caller = "agent" => parts[c + k].signature = r[k].signature
  BY <1>2, <1>4, <1>5, PayloadKeeps, CallParts
<1>8. DOMAIN parts = 1..(c + n)
  BY <1>2, <1>3
<1>9. \A i \in 1..(c + n) : (i \in 1..c /\ parts[i].kind = "text")
                            \/ (i > c /\ \E k \in 1..n : i = c + k)
  <2> SUFFICES ASSUME NEW i \in 1..(c + n)
               PROVE  (i \in 1..c /\ parts[i].kind = "text") \/ (i > c /\ \E k \in 1..n : i = c + k)
    OBVIOUS
  <2>1. CASE i <= c
    <3>1. i \in 1..c
      BY <1>3, <2>1
    <3>2. QED
      BY <1>2, <3>1 DEF Text
  <2>2. CASE i > c
    <3>1. i - c \in 1..n /\ i = c + (i - c)
      BY <1>3, <2>2
    <3>2. QED
      BY <2>2, <3>1
  <2>3. QED
    BY <1>3, <2>1, <2>2
<1>10. CallsAt(m) = (c + 1)..(c + n)
  <2>1. \A k \in 1..n : c + k \in 1..(c + n) /\ c + k \in (c + 1)..(c + n)
    BY <1>3
  <2>2. \A i \in (c + 1)..(c + n) : i \in 1..(c + n) /\ ~(i \in 1..c)
    BY <1>3
  <2>3. QED
    BY <1>6, <1>7, <1>8, <1>9, <2>1, <2>2 DEF CallsAt
<1>11. ~HasResult(m)
  BY <1>6, <1>7, <1>8, <1>9 DEF HasResult
<1>12. CallsAt(u) = {}
  BY <1>5, <1>6 DEF CallsAt
<1>13. Answers(u, m)
  <2> DEFINE call == [k \in 1..n |-> c + k]
  <2>1. call \in Bijection(1..n, (c + 1)..(c + n))
    <3>1. call \in [1..n -> (c + 1)..(c + n)]
      BY <1>3
    <3>2. \A j, k \in 1..n : call[j] = call[k] => j = k
      BY <1>3
    <3>3. \A i \in (c + 1)..(c + n) : \E k \in 1..n : call[k] = i
      <4> SUFFICES ASSUME NEW i \in (c + 1)..(c + n) PROVE \E k \in 1..n : call[k] = i
        OBVIOUS
      <4>1. i - c \in 1..n /\ call[i - c] = i
        BY <1>3
      <4>2. QED
        BY <4>1
    <3> HIDE DEF call
    <3>4. QED
      BY <3>1, <3>2, <3>3 DEF Bijection, Injection, Surjection, IsInjective
  <2>2. \A j, k \in 1..n : j < k => call[j] < call[k]
    BY <1>3
  <2>3. \A k \in 1..n : u.parts[k].key = m.parts[call[k]].key
    BY <1>6, <1>7
  <2> HIDE DEF call
  <2>4. DOMAIN u.parts = 1..n
    BY <1>5, <1>6
  <2>5. QED
    BY <1>5, <1>6, <1>10, <2>1, <2>2, <2>3, <2>4 DEF Answers
<1>14. CallsAt(m) # {}
  <2>1. c + 1 \in (c + 1)..(c + n)
    BY <1>3
  <2>2. QED
    BY <1>10, <2>1
<1>15. ASSUME p = "gemini", Caller = "agent"
       PROVE  Signatures(m) = {r[k].signature : k \in DOMAIN r}
  <2>1. \A i \in CallsAt(m) : \E k \in 1..n : i = c + k
    <3> SUFFICES ASSUME NEW i \in (c + 1)..(c + n) PROVE \E k \in 1..n : i = c + k
      BY <1>10
    <3>1. i - c \in 1..n /\ i = c + (i - c)
      BY <1>3
    <3>2. QED
      BY <3>1
  <2>2. \A k \in 1..n : c + k \in CallsAt(m)
    <3>1. \A k \in 1..n : c + k \in (c + 1)..(c + n)
      BY <1>3
    <3>2. QED
      BY <1>10, <3>1
  <2>3. \A k \in 1..n : m.parts[c + k].signature = r[k].signature
    BY <1>6, <1>7, <1>15
  <2>4. ASSUME NEW x \in Signatures(m) PROVE x \in {r[k].signature : k \in DOMAIN r}
    <3>1. PICK i \in CallsAt(m) : x = m.parts[i].signature
      BY DEF Signatures
    <3>2. PICK k \in 1..n : i = c + k
      BY <2>1
    <3>3. QED
      BY <1>3, <2>3, <3>1, <3>2
  <2>5. ASSUME NEW k \in DOMAIN r PROVE r[k].signature \in Signatures(m)
    BY <1>3, <2>2, <2>3 DEF Signatures
  <2>6. QED
    BY <2>4, <2>5
<1>16. QED
  BY <1>6, <1>11, <1>12, <1>13, <1>14, <1>15 DEF m, u

-----------------------------------------------------------------------------
(* The conversation. *)

Accumulator == [out : Seq(Contents), pending : Seq(Part)]
Sent(acc) == Flush(acc).out

(* Whenever the history is converted it makes a request that is accepted and
   ends with a turn of the user's, which calls nothing: the next round can
   be added.  What is signed in it has been issued, and all that was. *)
ReadyToAsk(acc) ==
  /\ acc \in Accumulator
  /\ Sent(acc) \in Seq(Contents) /\ Accepted(Sent(acc))
  /\ Sent(acc)[Len(Sent(acc))].role = "user"

TalkTypes ==
  /\ provider \in Providers
  /\ history \in Seq(Messages)
  /\ reply \in Seq(ToolCall)
  /\ pc = "parse" <=> reply # <<>>

RequestInv ==
  /\ ReadyToAsk(Converted(provider, history))
  /\ pc \in {"send", "wait"} => request = Sent(Converted(provider, history))

SignatureInv ==
  Caller = "agent" /\ provider = "gemini" =>
    issued = Signed(Sent(Converted(provider, history)))
               \cup {reply[k].signature : k \in DOMAIN reply}

TalkInv == TalkTypes /\ RequestInv /\ SignatureInv

LEMMA FlushMakes ==
  ASSUME NEW acc \in Accumulator
  PROVE  Flush(acc) = [out |-> Sent(acc), pending |-> <<>>]
<1>1. CASE acc.pending = <<>>
  <2>1. acc = [out |-> acc.out, pending |-> acc.pending]
    BY DEF Accumulator
  <2>2. QED
    BY <1>1, <2>1 DEF Flush, Sent
<1>2. CASE acc.pending # <<>>
  BY <1>2 DEF Flush, Sent
<1>3. QED
  BY <1>1, <1>2

LEMMA EmitMakes ==
  ASSUME NEW acc \in Accumulator, NEW turn, turn.parts # <<>>
  PROVE  Emit(acc, turn) = [out |-> Append(Sent(acc), turn), pending |-> <<>>]
<1>1. Emit(acc, turn) = [Flush(acc) EXCEPT !.out = Append(@, turn)]
  BY DEF Emit
<1> DEFINE sent == Sent(acc)
<1>2. Flush(acc) = [out |-> sent, pending |-> <<>>]
  BY FlushMakes
<1> HIDE DEF sent
<1>3. [[out |-> sent, pending |-> <<>>] EXCEPT !.out = Append(@, turn)]
        = [out |-> Append(sent, turn), pending |-> <<>>]
  <2> DEFINE f == [out |-> sent, pending |-> <<>>]
             more == [f EXCEPT !.out = Append(@, turn)]
  <2>1. f.out = sent /\ f.pending = <<>> /\ DOMAIN f = {"out", "pending"}
    OBVIOUS
  <2>2. more = [x \in DOMAIN f |-> IF x = "out" THEN Append(f.out, turn) ELSE f[x]]
    <3> HIDE DEF f
    <3>1. QED
      OBVIOUS
  <2>3. [out |-> Append(sent, turn), pending |-> <<>>]
          = [x \in {"out", "pending"} |-> IF x = "out" THEN Append(sent, turn) ELSE <<>>]
    OBVIOUS
  <2> HIDE DEF f, more
  <2>4. QED
    BY <2>1, <2>2, <2>3 DEF f, more
<1>4. [Flush(acc) EXCEPT !.out = Append(@, turn)]
        = [[out |-> sent, pending |-> <<>>] EXCEPT !.out = Append(@, turn)]
  BY <1>2, Zenon
<1>5. QED
  BY <1>1, <1>3, <1>4 DEF sent

(* A round of calls leaves the next request accepted, with the round's
   signatures in it. *)
LEMMA RoundConverts ==
  ASSUME NEW p, NEW h \in Seq(Messages), ReadyToAsk(Converted(p, h)),
         NEW text \in BOOLEAN, NEW r \in Seq(ToolCall), r # <<>>
  PROVE  LET more == h \o <<Asked(text, r)>> \o Said(r) IN
         /\ more \in Seq(Messages) /\ ReadyToAsk(Converted(p, more))
         /\ p = "gemini" /\ Caller = "agent" =>
              Signed(Sent(Converted(p, more)))
                = Signed(Sent(Converted(p, h))) \cup {r[k].signature : k \in DOMAIN r}
<1> DEFINE acc == Converted(p, h)
           asked == Asked(text, r)
           said == Said(r)
           m == ModelTurn(p, text, r)
           u == ResultTurn(p, r)
           more == h \o <<asked>> \o said
<1>1. asked \in Messages /\ said \in Seq(Messages)
  <2>1. \A k \in DOMAIN r : r[k] \in ToolCall
    OBVIOUS
  <2>2. [k \in DOMAIN r |-> Payload(r[k])] \in Seq(ToolCall)
    BY <2>1, PayloadKeeps
  <2>3. asked \in Messages
    BY <2>2 DEF Asked, Message, Messages
  <2>4. <<>> \in Seq(ToolCall)
    OBVIOUS
  <2>5. \A k \in DOMAIN r : ToolMessage(r[k]) \in Messages
    BY <2>1, <2>4 DEF ToolMessage, Message, Messages, ToolCall
  <2>6. said \in Seq(Messages)
    BY <2>5 DEF Said
  <2>7. QED
    BY <2>3, <2>6
<1>2. /\ m \in Contents /\ m.role = "model" /\ CallsAt(m) # {} /\ ~HasResult(m)
      /\ u \in Contents /\ Answers(u, m) /\ CallsAt(u) = {}
      /\ p = "gemini" /\ Caller = "agent" => Signatures(m) = {r[k].signature : k \in DOMAIN r}
  BY RoundAnswers
<1>3. asked.role = "assistant"
  BY DEF Asked, Message
<1>4. m = Turn("model", AssistantParts(p, asked)) /\ u = Turn("user", Results(p, r))
  BY DEF ModelTurn, ResultTurn
<1>5. acc \in Accumulator /\ ReadyToAsk(acc)
  BY DEF ReadyToAsk
<1>6. m.parts # <<>>
  BY <1>2 DEF CallsAt
<1>7. more = Append(h, asked) \o said /\ Append(h, asked) \in Seq(Messages) /\ more \in Seq(Messages)
  BY <1>1
<1>8. Results(p, r) \in Seq(Part) /\ Results(p, r) # <<>>
  BY ResultParts DEF Results
<1>9. Converted(p, Append(h, asked)) = ConvertMessage(p, acc, asked)
  BY <1>1, ConvertedMore
<1> HIDE DEF acc, asked, m, u, more
<1> DEFINE turns == Append(Sent(acc), m)
<1>10. ConvertMessage(p, acc, asked) = Emit(acc, m)
  BY <1>3, <1>4 DEF ConvertMessage
<1>11. Converted(p, Append(h, asked)) = [out |-> turns, pending |-> <<>>]
  BY <1>5, <1>6, <1>9, <1>10, EmitMakes
<1>12. Converted(p, more) = [out |-> turns, pending |-> Results(p, r)]
  <2>1. Converted(p, Append(h, asked) \o [k \in DOMAIN r |-> ToolMessage(r[k])])
          = [out |-> turns, pending |-> Results(p, r)]
    <3> HIDE DEF turns
    <3>1. QED
      BY <1>7, <1>11, ResultsWait
  <2>2. QED
    BY <1>7, <2>1 DEF Said
<1>13. turns \in Seq(Contents) /\ Sent(acc) \in Seq(Contents)
  BY <1>2, <1>5 DEF ReadyToAsk
<1>14. Sent(Converted(p, more)) = Append(turns, u)
  <2> HIDE DEF turns
  <2>1. QED
    BY <1>4, <1>8, <1>12 DEF Sent, Flush
<1>15. Converted(p, more) \in Accumulator
  BY <1>8, <1>12, <1>13 DEF Accumulator
<1>16. /\ Append(turns, u) \in Seq(Contents) /\ Accepted(Append(turns, u))
       /\ Append(turns, u)[Len(Append(turns, u))].role = "user"
       /\ Signed(Append(turns, u)) = Signed(Sent(acc)) \cup Signatures(m)
  BY <1>2, <1>5, <1>13, OneMoreRound DEF ReadyToAsk
<1>17. ReadyToAsk(Converted(p, more))
  <2> HIDE DEF turns
  <2>1. QED
    BY <1>14, <1>15, <1>16 DEF ReadyToAsk
<1>18. QED
  BY <1>2, <1>7, <1>14, <1>16, <1>17 DEF acc, more, asked

(* The first request: what the user asks. *)
LEMMA InitTalk == Init => TalkInv
<1> SUFFICES ASSUME Init PROVE TalkInv
  OBVIOUS
<1> DEFINE sys == Message("system", TRUE, <<>>, 0, "")
           usr == Message("user", TRUE, <<>>, 0, "")
           ask == Turn("user", <<Text>>)
           start == [out |-> <<>>, pending |-> <<>>]
<1>1. /\ provider \in Providers /\ pc = "caller" /\ history = <<sys, usr>>
      /\ reply = <<>> /\ issued = {}
  BY DEF Init
<1>2. sys \in Messages /\ usr \in Messages /\ sys.role = "system" /\ usr.role = "user"
  <2>1. <<>> \in Seq(ToolCall)
    OBVIOUS
  <2>2. QED
    BY <2>1 DEF Message, Messages
<1>3. ask \in Contents /\ ask.role = "user" /\ ask.parts = <<Text>>
      /\ CallsAt(ask) = {} /\ ~HasResult(ask)
  <2>1. Text \in Part /\ Text.kind = "text"
    BY DEF Text, Part
  <2>2. <<Text>> \in Seq(Part) /\ DOMAIN <<Text>> = {1} /\ <<Text>>[1] = Text
    BY <2>1
  <2>3. ask = [role |-> "user", parts |-> <<Text>>]
    BY DEF Turn
  <2> HIDE DEF ask
  <2>4. ask \in Contents /\ ask.role = "user" /\ ask.parts = <<Text>>
    BY <2>2, <2>3 DEF Contents
  <2>5. \A k \in DOMAIN ask.parts : ask.parts[k].kind = "text"
    BY <2>1, <2>2, <2>4
  <2>6. QED
    BY <2>4, <2>5 DEF CallsAt, HasResult
<1>4. start \in Accumulator /\ start.pending = <<>> /\ start.out = <<>>
  BY DEF Accumulator
<1> HIDE DEF sys, usr, ask
<1>5. Converted(provider, <<sys>>) = start
  <2>1. <<>> \in Seq(Messages) /\ <<sys>> = Append(<<>>, sys)
    BY <1>2
  <2>2. Converted(provider, <<sys>>) = ConvertMessage(provider, Converted(provider, <<>>), sys)
    <3>1. Converted(provider, Append(<<>>, sys))
            = ConvertMessage(provider, Converted(provider, <<>>), sys)
      BY <1>2, <2>1, ConvertedMore
    <3>2. QED
      BY <2>1, <3>1, Zenon
  <2>3. ConvertMessage(provider, start, sys) = start
    BY <1>2, <1>4 DEF ConvertMessage, Flush
  <2>4. QED
    BY <2>2, <2>3, ConvertedNone
<1>6. Converted(provider, history) = [out |-> <<ask>>, pending |-> <<>>]
  <2>1. <<sys>> \in Seq(Messages) /\ <<sys, usr>> = Append(<<sys>>, usr)
    BY <1>2
  <2>2. Converted(provider, <<sys, usr>>) = ConvertMessage(provider, start, usr)
    <3>1. Converted(provider, Append(<<sys>>, usr))
            = ConvertMessage(provider, Converted(provider, <<sys>>), usr)
      <4> DEFINE first == <<sys>>
      <4>1. first \in Seq(Messages)
        BY <2>1
      <4> HIDE DEF first
      <4>2. Converted(provider, Append(first, usr))
              = ConvertMessage(provider, Converted(provider, first), usr)
        BY <1>2, <4>1, ConvertedMore
      <4>3. QED
        BY <4>2, Zenon DEF first
    <3>2. QED
      BY <1>5, <2>1, <3>1, Zenon
  <2>3. ConvertMessage(provider, start, usr) = Emit(start, ask)
    BY <1>2 DEF ConvertMessage, ask
  <2>4. Emit(start, ask) = [out |-> Append(Sent(start), ask), pending |-> <<>>]
    <3> HIDE DEF start
    <3>1. ask.parts # <<>>
      BY <1>3
    <3>2. QED
      BY <1>4, <3>1, EmitMakes
  <2>5. Sent(start) = <<>>
    BY <1>4 DEF Sent, Flush
  <2>6. Append(<<>>, ask) = <<ask>>
    OBVIOUS
  <2>7. QED
    BY <1>1, <2>2, <2>3, <2>4, <2>5, <2>6
<1>7. Sent(Converted(provider, history)) = <<ask>>
  BY <1>6 DEF Sent, Flush
<1>8. <<ask>> \in Seq(Contents) /\ Len(<<ask>>) = 1 /\ DOMAIN <<ask>> = {1} /\ <<ask>>[1] = ask
  BY <1>3
<1>9. Accepted(<<ask>>)
  <2>1. \A i \in 1..Len(<<ask>>) - 1 : FALSE
    BY <1>8
  <2>2. QED
    BY <1>3, <1>8, <2>1 DEF Accepted
<1>10. Converted(provider, history) \in Accumulator
  <2>1. <<>> \in Seq(Part)
    OBVIOUS
  <2>2. QED
    BY <1>6, <1>8, <2>1 DEF Accumulator
<1>11. RequestInv
  BY <1>1, <1>3, <1>7, <1>8, <1>9, <1>10 DEF RequestInv, ReadyToAsk
<1>12. TalkTypes
  <2>1. <<sys, usr>> \in Seq(Messages) /\ <<>> \in Seq(ToolCall)
    BY <1>2
  <2>2. QED
    BY <1>1, <2>1 DEF TalkTypes
<1>13. SignatureInv
  <2>1. Signed(<<ask>>) = {}
    BY <1>3, <1>8 DEF Signed, Signatures
  <2>2. {reply[k].signature : k \in DOMAIN reply} = {}
    BY <1>1
  <2>3. QED
    BY <1>1, <1>7, <2>1, <2>2 DEF SignatureInv
<1>14. QED
  BY <1>11, <1>12, <1>13 DEF TalkInv

(* A reply calls at least one tool. *)
LEMMA ReplyCalls ==
  ASSUME TalkTypes, NEW cs \in Calls
  PROVE  Ids(cs) \in Seq(ToolCall) /\ Ids(cs) # <<>>
<1>1. PICK n \in 1..MaxCalls : cs \in [1..n -> [id : {"own", "none"}, name : Names]]
  BY DEF Calls
<1>2. n \in Nat /\ n >= 1 /\ 1 \in DOMAIN cs
  BY <1>1, AdapterAssumption DEF AdapterAssumption
<1>3. Turns \in Nat
  <2>1. IsFiniteSet(DOMAIN history)
    <3>1. DOMAIN history = 1..Len(history) /\ Len(history) \in Nat
      BY DEF TalkTypes
    <3>2. QED
      BY <3>1, FS_Interval
  <2>2. QED
    BY <2>1, FS_Subset, FS_CardinalityType DEF Turns
<1>4. \A i \in 1..n : Fresh(i) \in Nat
  BY <1>2, <1>3 DEF Fresh
<1>5. \A i \in 1..n : Ids(cs)[i] \in ToolCall
  BY <1>1, <1>2, <1>4 DEF Ids, ToolCall
<1>6. DOMAIN Ids(cs) = 1..n /\ Ids(cs) = [i \in 1..n |-> Ids(cs)[i]]
  BY <1>1 DEF Ids
<1>7. Ids(cs) \in Seq(ToolCall)
  BY <1>2, <1>5, <1>6
<1>8. QED
  BY <1>2, <1>6, <1>7

LEMMA StepTalk == TalkInv /\ [Next]_vars => TalkInv'
<1> SUFFICES ASSUME TalkInv, [Next]_vars PROVE TalkInv'
  OBVIOUS
<1>1. TalkTypes /\ RequestInv /\ SignatureInv
  BY DEF TalkInv
<1>2. ASSUME UNCHANGED <<provider, history, reply, issued>>, pc' # "parse", pc # "parse",
             pc' \in {"send", "wait"} => request' = Sent(Converted(provider, history))
      PROVE  TalkInv'
  BY <1>1, <1>2 DEF TalkInv, TalkTypes, RequestInv, SignatureInv
<1>3. CASE UNCHANGED vars
  BY <1>1, <1>3 DEF vars, TalkInv, TalkTypes, RequestInv, SignatureInv
<1>4. CASE Chat
  BY <1>2, <1>4 DEF Chat, ConvertMessages, Sent
<1>5. CASE SendFails
  BY <1>1, <1>2, <1>5 DEF SendFails, RequestInv
<1>6. CASE Wake
  BY <1>1, <1>2, <1>6 DEF Wake, RequestInv
<1>7. CASE NoCalls
  BY <1>2, <1>7 DEF NoCalls
<1>8. CASE CallsTools
  <2>1. PICK cs \in Calls : reply' = Ids(cs)
    BY <1>8 DEF CallsTools
  <2>2. reply' \in Seq(ToolCall) /\ reply' # <<>>
    BY <1>1, <2>1, ReplyCalls
  <2>3. /\ provider' = provider /\ history' = history /\ pc = "send" /\ pc' = "parse"
        /\ issued' = issued \cup {reply'[i].signature : i \in DOMAIN reply'}
    BY <1>8 DEF CallsTools
  <2>4. TalkTypes' /\ RequestInv'
    BY <1>1, <2>2, <2>3 DEF TalkTypes, RequestInv
  <2>5. {reply[k].signature : k \in DOMAIN reply} = {}
    BY <1>1, <2>3 DEF TalkTypes
  <2>6. SignatureInv'
    BY <1>1, <2>3, <2>5 DEF SignatureInv
  <2>7. QED
    BY <2>4, <2>6 DEF TalkInv
<1>9. CASE RunTools
  <2>1. PICK text \in BOOLEAN : history' = history \o <<Asked(text, reply)>> \o Said(reply)
    BY <1>9 DEF RunTools, Asked, Said
  <2>2. /\ provider' = provider /\ pc = "parse" /\ pc' = "caller"
        /\ reply' = <<>> /\ issued' = issued
    BY <1>9 DEF RunTools
  <2>3. /\ history \in Seq(Messages) /\ reply \in Seq(ToolCall) /\ reply # <<>>
        /\ ReadyToAsk(Converted(provider, history))
    BY <1>1, <2>2 DEF TalkTypes, RequestInv
  <2>4. /\ history' \in Seq(Messages) /\ ReadyToAsk(Converted(provider, history'))
        /\ provider = "gemini" /\ Caller = "agent" =>
             Signed(Sent(Converted(provider, history')))
               = Signed(Sent(Converted(provider, history))) \cup {reply[k].signature : k \in DOMAIN reply}
    BY <2>1, <2>3, RoundConverts
  <2>5. <<>> \in Seq(ToolCall)
    OBVIOUS
  <2>6. TalkTypes' /\ RequestInv'
    BY <1>1, <2>2, <2>4, <2>5 DEF TalkTypes, RequestInv
  <2>7. {reply'[k].signature : k \in DOMAIN reply'} = {}
    BY <2>2
  <2>8. SignatureInv'
    BY <1>1, <2>2, <2>4, <2>7 DEF SignatureInv
  <2>9. QED
    BY <2>6, <2>8 DEF TalkInv
<1>10. QED
  BY <1>3, <1>4, <1>5, <1>6, <1>7, <1>8, <1>9 DEF Next

(* _convert_messages of both cloud adapters: every request is one the provider
   accepts, after any number of rounds with any number of calls, with or
   without text, ids and retries: turns alternate, and all the results of a
   round go, in order, into the one user turn after its calls. *)
THEOREM EveryRequestIsAccepted == Spec => []RequestsAreAccepted
<1>1. TalkInv => RequestsAreAccepted
  <2> SUFFICES ASSUME TalkInv, pc = "send" PROVE CallsAreAnswered /\ TurnsAlternate
    BY DEF RequestsAreAccepted, CallsAreAnswered, TurnsAlternate
  <2>1. Accepted(request)
    BY DEF TalkInv, RequestInv, ReadyToAsk
  <2>2. QED
    BY <2>1 DEF Accepted, CallsAreAnswered, TurnsAlternate
<1>2. QED
  BY InitTalk, StepTalk, <1>1, PTL DEF Spec

(* _tool_call_payload and _convert_messages: for the agent, every signature
   Gemini has issued in a conversation, and no other, is in every request
   that follows.  discover's history loses them: the run AdaptersDiscover. *)
THEOREM AgentReturnsSignatures ==
  ASSUME Caller = "agent"
  PROVE  Spec => []SignaturesReturn
<1>1. TalkInv => SignaturesReturn
  <2> SUFFICES ASSUME TalkInv, pc = "send", provider = "gemini"
               PROVE  issued = Signed(request)
    BY DEF SignaturesReturn, Signed, Signatures
  <2>1. request = Sent(Converted(provider, history)) /\ reply = <<>>
    BY DEF TalkInv, TalkTypes, RequestInv
  <2>2. {reply[k].signature : k \in DOMAIN reply} = {}
    BY <2>1
  <2>3. QED
    BY <2>1, <2>2 DEF TalkInv, SignatureInv
<1>2. QED
  BY InitTalk, StepTalk, <1>1, PTL DEF Spec
=============================================================================
