---------------------------- MODULE SqlGateProofs ----------------------------
(* Proofs about SqlGate, for any queries, caps and lists of claims. *)
EXTENDS SqlGate, FiniteSetTheorems, WellFoundedInduction, TLAPS

(* Nothing that could change the data is sent, by any of the paths to the
   database: before, after or without an EXPLAIN, whatever failed. *)
THEOREM ReadsOnly == Spec => []OnlyReadsAreSent
<1>1. Init => OnlyReadsAreSent
  BY DEF Init, OnlyReadsAreSent
<1>2. OnlyReadsAreSent /\ [Next]_vars => OnlyReadsAreSent'
  <2> SUFFICES ASSUME OnlyReadsAreSent, [Next]_vars PROVE OnlyReadsAreSent'
    OBVIOUS
  <2>1. ReadOnly(query) => /\ query.statements = 1 /\ ~query.mutates /\ ~query.blocked
                           /\ query.kind # "write"
    BY DEF ReadOnly
  <2>2. \/ sent' \in {sent, {}}
        \/ ReadOnly(query) /\ \E verb \in {"explain", "run"} : sent' = sent \cup {<<verb, query>>}
    BY DEF Next, Call, Explain, ExplainFailsSilently, RunRefused, Run, SanityCheck, SanityCheckRaises, vars
  <2>3. QED
    BY <2>1, <2>2 DEF OnlyReadsAreSent
<1>3. QED
  BY <1>1, <1>2, PTL DEF Spec

-----------------------------------------------------------------------------
(* The notes about columns. *)

(* Every set of numbers has a least one: induction, as a fact. *)
LEMMA NatMin == ASSUME NEW T, T \subseteq Nat, T # {} PROVE \E x \in T : \A y \in T : x <= y
<1> DEFINE U == {0..m : m \in T}
<1>1. U \subseteq FiniteSubsetsOf(Nat) /\ U # {}
  <2>1. \A m \in Nat : IsFiniteSet(0..m) /\ 0..m \subseteq Nat
    BY FS_Interval
  <2>2. QED
    BY <2>1 DEF FiniteSubsetsOf
<1>2. PICK S \in U : \A R \in U : <<R, S>> \notin StrictSubsetOrdering(Nat)
  <2> HIDE DEF U
  <2>1. QED
    BY <1>1, FS_StrictSubsetOrderingWellFounded, WFMin, Zenon
<1>3. PICK x \in T : S = 0..x
  OBVIOUS
<1>4. ASSUME NEW y \in T, y < x PROVE FALSE
  <2>1. 0..y \in U /\ 0..y \subseteq 0..x /\ x \in 0..x /\ x \notin 0..y
    BY <1>4
  <2>2. 0..y \in SUBSET Nat /\ 0..x \in SUBSET Nat
    BY <1>4
  <2>3. <<0..y, 0..x>> \in StrictSubsetOrdering(Nat)
    BY <2>1, <2>2 DEF StrictSubsetOrdering
  <2>4. QED
    BY <2>1, <2>3, <1>2, <1>3
<1>5. QED
  BY <1>4

(* of holds what was noted of the first claims, up to n of them. *)
Noting(terms, q, n, of) ==
  of = [i \in 0..n |-> IF i = 0 THEN <<>> ELSE NoteTerm(of[i - 1], i, terms[i], q)]

LEMMA NotedBy ==
  ASSUME NEW terms, NEW q
  PROVE  ColumnNotes(terms, q) = (CHOOSE of : Noting(terms, q, Len(terms), of))[Len(terms)]
BY DEF ColumnNotes, Noting

LEMMA NotingExists ==
  ASSUME NEW terms, NEW q, NEW n \in Nat
  PROVE  \E of : Noting(terms, q, n, of)
<1> DEFINE T == {m \in Nat : ~ \E of : Noting(terms, q, m, of)}
<1>1. SUFFICES ASSUME T # {} PROVE FALSE
  OBVIOUS
<1>2. PICK m \in T : \A y \in T : m <= y
  <2> HIDE DEF T
  <2>1. T \subseteq Nat
    BY DEF T
  <2>2. QED
    BY <1>1, <2>1, NatMin
<1>3. m # 0
  <2> DEFINE zero == [i \in 0..0 |-> <<>>]
  <2>1. Noting(terms, q, 0, zero)
    BY DEF Noting
  <2>2. QED
    BY <2>1
<1>4. PICK of : Noting(terms, q, m - 1, of)
  <2>1. m - 1 \in Nat /\ ~(m <= m - 1)
    BY <1>3
  <2>2. m - 1 \notin T
    BY <1>2, <2>1
  <2>3. QED
    BY <2>1, <2>2
<1> DEFINE more == [i \in 0..m |-> IF i = m THEN NoteTerm(of[m - 1], m, terms[m], q) ELSE of[i]]
<1>5. \A i \in 0..m : more[i] = IF i = 0 THEN <<>> ELSE NoteTerm(more[i - 1], i, terms[i], q)
  BY <1>3, <1>4 DEF Noting
<1>6. Noting(terms, q, m, more)
  <2>1. more = [i \in 0..m |-> more[i]]
    OBVIOUS
  <2> HIDE DEF more
  <2>2. QED
    BY <1>5, <2>1 DEF Noting
<1>7. QED
  BY <1>6

(* noted gives texts of the first n claims, one for a claim and one for a
   column, each under a column the claim and the query share; for every such
   column of such a claim there is the claim's own text or one of an earlier. *)
Texts(q, n) == [about : q.columns, claim : 1..n]

Touched(columns, q) == {c \in q.columns : Contains(columns, c)}

Heard(k, c, noted) ==
  \E i \in 1..Len(noted) : noted[i].claim = k \/ (noted[i].claim < k /\ noted[i].about = c)

Told(terms, q, n, noted) ==
  /\ noted \in Seq(Texts(q, n))
  /\ \A i, j \in 1..Len(noted) :
       noted[i].about = noted[j].about \/ noted[i].claim = noted[j].claim => i = j
  /\ \A i \in 1..Len(noted) : Contains(terms[noted[i].claim], noted[i].about)
  /\ \A k \in 1..n : \A c \in Touched(terms[k], q) : Heard(k, c, noted)

LEMMA Wider ==
  ASSUME NEW R, NEW S, R \subseteq S, NEW s \in Seq(R)
  PROVE  /\ s \in Seq(S) /\ DOMAIN s = 1..Len(s) /\ Len(s) \in Nat
         /\ \A i \in 1..Len(s) : s[i] \in R
OBVIOUS

LEMMA MoreTexts ==
  ASSUME NEW q, NEW n \in Nat
  PROVE  /\ Texts(q, n) \subseteq Texts(q, n + 1)
         /\ \A t \in Texts(q, n) : t.about \in q.columns /\ t.claim \in 1..n
BY DEF Texts

(* A claim more: it adds a column that is not noted yet, or all of its
   columns in the query are noted. *)
LEMMA OneMoreClaim ==
  ASSUME NEW terms \in Seq(Seq(STRING)), NEW q, NEW n \in Nat, n + 1 <= Len(terms),
         NEW noted, Told(terms, q, n, noted)
  PROVE  Told(terms, q, n + 1, NoteTerm(noted, n + 1, terms[n + 1], q))
<1> DEFINE columns == terms[n + 1]
           fresh == {i \in DOMAIN columns : /\ columns[i] \in q.columns
                                            /\ \A j \in DOMAIN noted : noted[j].about # columns[i]}
<1>1. columns \in Seq(STRING) /\ DOMAIN columns = 1..Len(columns) /\ Len(columns) \in Nat
  OBVIOUS
<1>2. /\ noted \in Seq(Texts(q, n + 1)) /\ DOMAIN noted = 1..Len(noted) /\ Len(noted) \in Nat
      /\ \A i \in 1..Len(noted) : noted[i].claim \in 1..n
  <2>1. noted \in Seq(Texts(q, n))
    BY DEF Told
  <2>2. Texts(q, n) \subseteq Texts(q, n + 1) /\ \A t \in Texts(q, n) : t.claim \in 1..n
    BY MoreTexts
  <2>3. QED
    BY <2>1, <2>2, Wider
<1> HIDE DEF columns
<1>3. \A k \in 1..(n + 1) : k \in 1..n \/ k = n + 1
  OBVIOUS
<1>4. CASE fresh = {}
  <2>1. NoteTerm(noted, n + 1, columns, q) = noted
    BY <1>4 DEF NoteTerm
  <2>2. ASSUME NEW c \in Touched(columns, q) PROVE Heard(n + 1, c, noted)
    <3>1. PICK i \in 1..Len(columns) : columns[i] = c
      BY <2>2 DEF Touched, Contains
    <3>2. c \in q.columns
      BY <2>2 DEF Touched
    <3>3. PICK j \in 1..Len(noted) : noted[j].about = c
      BY <1>1, <1>2, <1>4, <3>1, <3>2
    <3>4. noted[j].claim < n + 1
      BY <1>2
    <3>5. QED
      BY <3>3, <3>4 DEF Heard
  <2>3. \A k \in 1..(n + 1) : \A c \in Touched(terms[k], q) : Heard(k, c, noted)
    BY <1>3, <2>2 DEF Told, columns
  <2>4. Told(terms, q, n + 1, noted)
    BY <1>2, <2>3 DEF Told
  <2>5. QED
    BY <2>1, <2>4 DEF columns
<1>5. CASE fresh # {}
  <2> DEFINE first == Min(fresh)
             c == columns[first]
             note == Note(c, n + 1)
             more == Append(noted, note)
  <2>1. first \in fresh
    <3>1. fresh \subseteq Nat
      BY <1>1
    <3> HIDE DEF fresh
    <3>2. \E x \in fresh : \A y \in fresh : x <= y
      BY <1>5, <3>1, NatMin
    <3>3. QED
      BY <3>2 DEF Min
  <2>2. NoteTerm(noted, n + 1, columns, q) = more
    BY <1>5 DEF NoteTerm
  <2>3. /\ c \in q.columns /\ Contains(columns, c)
        /\ \A j \in 1..Len(noted) : noted[j].about # c
    BY <1>1, <1>2, <2>1 DEF Contains
  <2> HIDE DEF c, first, fresh
  <2>4. note \in Texts(q, n + 1) /\ note.about = c /\ note.claim = n + 1
    <3>1. note = [about |-> c, claim |-> n + 1] /\ n + 1 \in 1..(n + 1)
      BY DEF Note
    <3> HIDE DEF note
    <3>2. QED
      BY <2>3, <3>1 DEF Texts
  <2> HIDE DEF note
  <2>5. /\ more \in Seq(Texts(q, n + 1)) /\ Len(more) = Len(noted) + 1
        /\ more[Len(noted) + 1] = note /\ \A i \in 1..Len(noted) : more[i] = noted[i]
    BY <1>2, <2>4
  <2> HIDE DEF more
  <2>6. \A i \in 1..Len(more) : i \in 1..Len(noted) \/ i = Len(noted) + 1
    BY <1>2, <2>5
  <2>7. Len(noted) + 1 \in 1..Len(more) /\ \A i \in 1..Len(noted) : i \in 1..Len(more)
    BY <1>2, <2>5
  <2>8. ASSUME NEW i \in 1..Len(more), NEW j \in 1..Len(more),
               more[i].about = more[j].about \/ more[i].claim = more[j].claim
        PROVE  i = j
    <3>1. ASSUME NEW k \in 1..Len(noted)
          PROVE  more[k].about # note.about /\ more[k].claim # note.claim
      <4>1. noted[k].about # c /\ noted[k].claim # n + 1
        BY <1>2, <2>3
      <4>2. QED
        BY <2>4, <2>5, <4>1
    <3>2. CASE i \in 1..Len(noted) /\ j \in 1..Len(noted)
      BY <2>5, <2>8, <3>2 DEF Told
    <3>3. CASE i \in 1..Len(noted) /\ j = Len(noted) + 1
      BY <2>5, <2>8, <3>1, <3>3
    <3>4. CASE j \in 1..Len(noted) /\ i = Len(noted) + 1
      BY <2>5, <2>8, <3>1, <3>4
    <3>5. QED
      BY <2>6, <3>2, <3>3, <3>4
  <2>9. ASSUME NEW i \in 1..Len(more) PROVE Contains(terms[more[i].claim], more[i].about)
    <3>1. CASE i \in 1..Len(noted)
      BY <2>5, <3>1 DEF Told
    <3>2. CASE i = Len(noted) + 1
      BY <2>3, <2>4, <2>5, <3>2 DEF columns
    <3>3. QED
      BY <2>6, <3>1, <3>2
  <2>10. ASSUME NEW k \in 1..(n + 1), NEW d \in Touched(terms[k], q) PROVE Heard(k, d, more)
    <3>1. CASE k \in 1..n
      <4>1. Heard(k, d, noted)
        BY <3>1 DEF Told
      <4>2. QED
        BY <2>5, <2>7, <4>1 DEF Heard
    <3>2. CASE k = n + 1
      BY <2>4, <2>5, <2>7, <3>2 DEF Heard
    <3>3. QED
      BY <1>3, <3>1, <3>2
  <2>11. Told(terms, q, n + 1, more)
    BY <2>5, <2>8, <2>9, <2>10 DEF Told
  <2>12. QED
    BY <2>2, <2>11 DEF columns
<1>6. QED
  BY <1>4, <1>5

(* So after the last claim the notes tell of every claim about a column of the
   query, or of an earlier one about that column. *)
LEMMA ColumnNotesTell ==
  ASSUME NEW terms \in Seq(Seq(STRING)), NEW q
  PROVE  Told(terms, q, Len(terms), ColumnNotes(terms, q))
<1> DEFINE L == Len(terms)
<1>1. L \in Nat
  OBVIOUS
<1>2. PICK of : of = CHOOSE f : Noting(terms, q, L, f)
  OBVIOUS
<1> HIDE DEF L
<1>3. Noting(terms, q, L, of)
  BY <1>1, <1>2, NotingExists
<1>4. ColumnNotes(terms, q) = of[L]
  BY <1>2, NotedBy DEF L
<1>5. of[0] = <<>> /\ \A i \in 0..L : i # 0 => of[i] = NoteTerm(of[i - 1], i, terms[i], q)
  <2>1. 0 \in 0..L
    BY <1>1
  <2>2. \A i \in 0..L : of[i] = IF i = 0 THEN <<>> ELSE NoteTerm(of[i - 1], i, terms[i], q)
    BY <1>3 DEF Noting
  <2>3. QED
    BY <2>1, <2>2
<1> DEFINE T == {i \in Nat : i <= L /\ ~Told(terms, q, i, of[i])}
<1>6. T = {}
  <2>1. SUFFICES ASSUME T # {} PROVE FALSE
    OBVIOUS
  <2>2. PICK k \in T : \A y \in T : k <= y
    <3>1. T \subseteq Nat
      OBVIOUS
    <3> HIDE DEF T
    <3>2. QED
      BY <2>1, <3>1, NatMin
  <2>3. k # 0
    <3>1. <<>> \in Seq(Texts(q, 0)) /\ Len(<<>>) = 0 /\ \A i \in 1..0 : FALSE
      OBVIOUS
    <3>2. Told(terms, q, 0, <<>>)
      BY <3>1 DEF Told
    <3>3. QED
      BY <1>5, <3>2
  <2>4. k \in Nat /\ k <= L /\ k - 1 \in Nat /\ k - 1 <= L /\ ~(k <= k - 1) /\ (k - 1) + 1 = k
    BY <1>1, <2>3
  <2>5. Told(terms, q, k - 1, of[k - 1])
    BY <2>2, <2>4
  <2>6. Told(terms, q, (k - 1) + 1, NoteTerm(of[k - 1], (k - 1) + 1, terms[(k - 1) + 1], q))
    BY <2>4, <2>5, OneMoreClaim DEF L
  <2>7. of[k] = NoteTerm(of[k - 1], k, terms[k], q)
    <3>1. k \in 0..L
      BY <2>4
    <3>2. QED
      BY <1>5, <2>3, <3>1
  <2>8. Told(terms, q, k, of[k])
    BY <2>4, <2>6, <2>7
  <2>9. QED
    BY <2>8
<1>7. Told(terms, q, L, of[L])
  BY <1>1, <1>6
<1>8. QED
  BY <1>4, <1>7 DEF L

-----------------------------------------------------------------------------
(* The notes of an answer. *)

Once(s) == \A i, j \in DOMAIN s : s[i] = s[j] => i = j

LEMMA Joining ==
  ASSUME NEW S, NEW s \in Seq(S), NEW t \in Seq(S), Once(s), Once(t),
         \A e : ~(Contains(s, e) /\ Contains(t, e))
  PROVE  /\ s \o t \in Seq(S) /\ Once(s \o t)
         /\ \A e : Contains(s \o t, e) <=> Contains(s, e) \/ Contains(t, e)
<1> DEFINE st == s \o t
           m == Len(s)
           n == Len(t)
<1>1. /\ m \in Nat /\ n \in Nat /\ st \in Seq(S) /\ Len(st) = m + n
      /\ DOMAIN s = 1..m /\ DOMAIN t = 1..n /\ DOMAIN st = 1..(m + n)
  OBVIOUS
<1>2. /\ \A i \in 1..m : i \in 1..(m + n) /\ st[i] = s[i]
      /\ \A i \in 1..n : m + i \in 1..(m + n) /\ st[m + i] = t[i]
  OBVIOUS
<1> HIDE DEF st, m, n
<1>3. \A i \in 1..(m + n) : i \in 1..m \/ \E k \in 1..n : i = m + k
  <2> SUFFICES ASSUME NEW i \in 1..(m + n), ~(i \in 1..m) PROVE \E k \in 1..n : i = m + k
    OBVIOUS
  <2>1. i - m \in 1..n /\ i = m + (i - m)
    BY <1>1
  <2>2. QED
    BY <2>1
<1>4. ASSUME NEW e PROVE Contains(st, e) <=> Contains(s, e) \/ Contains(t, e)
  <2>1. Contains(st, e) <=> \E i \in 1..(m + n) : st[i] = e
    BY <1>1 DEF Contains
  <2>2. Contains(s, e) <=> \E i \in 1..m : s[i] = e
    BY DEF Contains, m
  <2>3. Contains(t, e) <=> \E i \in 1..n : t[i] = e
    BY DEF Contains, n
  <2>4. ASSUME Contains(st, e) PROVE Contains(s, e) \/ Contains(t, e)
    <3>1. PICK i \in 1..(m + n) : st[i] = e
      BY <2>1, <2>4
    <3>2. CASE i \in 1..m
      BY <1>2, <2>2, <3>1, <3>2
    <3>3. CASE \E k \in 1..n : i = m + k
      BY <1>2, <2>3, <3>1, <3>3
    <3>4. QED
      BY <1>3, <3>2, <3>3
  <2>5. ASSUME Contains(s, e) \/ Contains(t, e) PROVE Contains(st, e)
    BY <1>2, <2>1, <2>2, <2>3, <2>5
  <2>6. QED
    BY <2>4, <2>5
<1>5. ASSUME NEW i \in 1..(m + n), NEW j \in 1..(m + n), st[i] = st[j] PROVE i = j
  <2>1. \A k \in 1..m : Contains(s, s[k])
    BY DEF Contains, m
  <2>2. \A k \in 1..n : Contains(t, t[k])
    BY DEF Contains, n
  <2>3. CASE i \in 1..m /\ j \in 1..m
    BY <1>1, <1>2, <1>5, <2>3 DEF Once
  <2>4. ASSUME NEW k \in 1..n, NEW l \in 1..n, i = m + k, j = m + l PROVE i = j
    <3>1. t[k] = t[l]
      BY <1>2, <1>5, <2>4
    <3>2. k = l
      BY <1>1, <3>1 DEF Once
    <3>3. QED
      BY <2>4, <3>2
  <2>5. ASSUME i \in 1..m, NEW l \in 1..n, j = m + l PROVE FALSE
    <3>1. s[i] = t[l]
      BY <1>2, <1>5, <2>5
    <3>2. QED
      BY <2>1, <2>2, <2>5, <3>1
  <2>6. ASSUME j \in 1..m, NEW k \in 1..n, i = m + k PROVE FALSE
    <3>1. s[j] = t[k]
      BY <1>2, <1>5, <2>6
    <3>2. QED
      BY <2>1, <2>2, <2>6, <3>1
  <2>7. QED
    BY <1>3, <2>3, <2>4, <2>5, <2>6
<1>6. Once(st)
  BY <1>1, <1>5 DEF Once
<1>7. QED
  BY <1>1, <1>4, <1>6 DEF st

LEMMA OneNote ==
  ASSUME NEW S, NEW x \in S, NEW when \in BOOLEAN
  PROVE  LET s == IF when THEN <<x>> ELSE <<>> IN
         s \in Seq(S) /\ Once(s) /\ \A e : Contains(s, e) <=> when /\ e = x
<1>1. CASE when
  <2>1. <<x>> \in Seq(S) /\ DOMAIN <<x>> = {1} /\ Len(<<x>>) = 1 /\ <<x>>[1] = x /\ 1..1 = {1}
    OBVIOUS
  <2>2. QED
    BY <1>1, <2>1 DEF Once, Contains
<1>2. CASE ~when
  <2>1. <<>> \in Seq(S) /\ DOMAIN <<>> = {} /\ Len(<<>>) = 0 /\ \A i \in 1..0 : FALSE
    OBVIOUS
  <2>2. QED
    BY <1>2, <2>1 DEF Once, Contains
<1>3. QED
  BY <1>1, <1>2

(* Notes of no claim before and behind those of the claims. *)
LEMMA NotesTell ==
  ASSUME NEW terms \in TermLists, NEW q \in Queries, NEW r,
         r.truncated \in BOOLEAN, r.null \in BOOLEAN,
         NEW notes, notes = Notes(r, terms, q)
  PROVE  /\ DOMAIN notes = 1..Len(notes) /\ Once(notes)
         /\ \A e : Contains(notes, e) /\ e.claim # 0 <=> Contains(ColumnNotes(terms, q), e)
         /\ r.truncated => Contains(notes, General("truncated"))
<1> DEFINE S == [about : q.columns \cup {"zero rows", "null", "truncated"}, claim : Nat]
           zero == IF r.rows = 0 THEN <<General("zero rows")>> ELSE <<>>
           none == IF r.null THEN <<General("null")>> ELSE <<>>
           cut == IF r.truncated THEN <<General("truncated")>> ELSE <<>>
           columns == ColumnNotes(terms, q)
<1>1. Told(terms, q, Len(terms), columns) /\ Len(terms) \in Nat
  <2>1. terms \in Seq(Seq(STRING))
    BY NotesAssumption DEF NotesAssumption
  <2>2. QED
    BY <2>1, ColumnNotesTell
<1>2. \A about \in {"zero rows", "null", "truncated"} : General(about) \in S
  BY DEF General, Note
<1>3. /\ General("zero rows").claim = 0 /\ General("null").claim = 0 /\ General("truncated").claim = 0
      /\ General("zero rows") # General("null") /\ General("zero rows") # General("truncated")
      /\ General("null") # General("truncated")
  <2>1. \A about : General(about).about = about /\ General(about).claim = 0
    BY DEF General, Note
  <2>2. QED
    BY <2>1
<1>4. (r.rows = 0) \in BOOLEAN
  OBVIOUS
<1> HIDE DEF S
<1>5. zero \in Seq(S) /\ Once(zero) /\ \A e : Contains(zero, e) <=> r.rows = 0 /\ e = General("zero rows")
  BY <1>2, <1>4, OneNote
<1>6. none \in Seq(S) /\ Once(none) /\ \A e : Contains(none, e) <=> r.null /\ e = General("null")
  BY <1>2, OneNote
<1>7. cut \in Seq(S) /\ Once(cut) /\ \A e : Contains(cut, e) <=> r.truncated /\ e = General("truncated")
  BY <1>2, OneNote
<1> HIDE DEF zero, none, cut, columns
<1>8. columns \in Seq(S) /\ Once(columns) /\ \A e : Contains(columns, e) => e.claim # 0
  <2>1. /\ columns \in Seq(Texts(q, Len(terms)))
        /\ \A i, j \in 1..Len(columns) : columns[i].about = columns[j].about => i = j
    BY <1>1 DEF Told
  <2>2. Texts(q, Len(terms)) \subseteq S /\ \A t \in Texts(q, Len(terms)) : t.claim # 0
    <3> SUFFICES ASSUME NEW t \in Texts(q, Len(terms)) PROVE t \in S /\ t.claim # 0
      OBVIOUS
    <3>1. PICK a \in q.columns, k \in 1..Len(terms) : t = [about |-> a, claim |-> k]
      BY DEF Texts
    <3>2. k \in Nat /\ k # 0 /\ t.claim = k
      BY <1>1, <3>1
    <3>3. QED
      BY <3>1, <3>2 DEF S
  <2>3. /\ columns \in Seq(S) /\ DOMAIN columns = 1..Len(columns)
        /\ \A i \in 1..Len(columns) : columns[i] \in Texts(q, Len(terms))
    BY <2>1, <2>2, Wider
  <2>4. Once(columns)
    BY <2>1, <2>3 DEF Once
  <2>5. ASSUME NEW e, Contains(columns, e) PROVE e.claim # 0
    <3>1. PICK i \in 1..Len(columns) : columns[i] = e
      BY <2>5 DEF Contains
    <3>2. QED
      BY <2>2, <2>3, <3>1
  <2>6. QED
    BY <2>3, <2>4, <2>5
<1> DEFINE first == zero \o none
           second == first \o columns
<1>9. /\ first \in Seq(S) /\ Once(first)
      /\ \A e : Contains(first, e) <=> Contains(zero, e) \/ Contains(none, e)
  <2>1. \A e : ~(Contains(zero, e) /\ Contains(none, e))
    BY <1>3, <1>5, <1>6
  <2>2. QED
    BY <1>5, <1>6, <2>1, Joining
<1> HIDE DEF first
<1>10. /\ second \in Seq(S) /\ Once(second)
       /\ \A e : Contains(second, e) <=> Contains(first, e) \/ Contains(columns, e)
  <2>1. \A e : ~(Contains(first, e) /\ Contains(columns, e))
    BY <1>3, <1>5, <1>6, <1>8, <1>9
  <2>2. QED
    BY <1>8, <1>9, <2>1, Joining
<1> HIDE DEF second
<1>11. /\ second \o cut \in Seq(S) /\ Once(second \o cut)
       /\ \A e : Contains(second \o cut, e) <=> Contains(second, e) \/ Contains(cut, e)
  <2>1. \A e : ~(Contains(second, e) /\ Contains(cut, e))
    BY <1>3, <1>5, <1>6, <1>7, <1>8, <1>9, <1>10
  <2>2. QED
    BY <1>7, <1>10, <2>1, Joining
<1>12. Notes(r, terms, q) = second \o cut
  BY DEF Notes, second, first, zero, none, columns, cut
<1>13. \A e : Contains(second \o cut, e) /\ e.claim # 0 <=> Contains(columns, e)
  BY <1>3, <1>5, <1>6, <1>7, <1>8, <1>9, <1>10, <1>11
<1>14. r.truncated => Contains(second \o cut, General("truncated"))
  BY <1>7, <1>11
<1>15. DOMAIN (second \o cut) = 1..Len(second \o cut)
  BY <1>11
<1>16. QED
  BY <1>11, <1>12, <1>13, <1>14, <1>15 DEF columns

(* What the notes of the claims tell, as a set. *)
AreIn(told, noted) == \A e : e \in told <=> Contains(noted, e)

Tells(terms, q, told) ==
  /\ \A m, n \in told : m.about = n.about \/ m.claim = n.claim => m = n
  /\ \A n \in told : n.claim \in DOMAIN terms /\ n.about \in Touched(terms[n.claim], q)
  /\ \A k \in DOMAIN terms : \A c \in Touched(terms[k], q) :
       \E n \in told : n.claim = k \/ (n.claim < k /\ n.about = c)

LEMMA ClaimsTold ==
  ASSUME NEW terms \in TermLists, NEW q, NEW told, AreIn(told, ColumnNotes(terms, q))
  PROVE  Tells(terms, q, told)
<1>1. terms \in Seq(Seq(STRING)) /\ DOMAIN terms = 1..Len(terms) /\ Len(terms) \in Nat
  <2>1. terms \in Seq(Seq(STRING))
    BY NotesAssumption DEF NotesAssumption
  <2>2. QED
    BY <2>1
<1>2. PICK noted : noted = ColumnNotes(terms, q)
  OBVIOUS
<1>3. Told(terms, q, Len(terms), noted)
  BY <1>1, <1>2, ColumnNotesTell
<1>4. \A i \in 1..Len(noted) : noted[i].about \in q.columns /\ noted[i].claim \in 1..Len(terms)
  <2>1. noted \in Seq(Texts(q, Len(terms)))
    BY <1>3 DEF Told
  <2>2. \A i \in 1..Len(noted) : noted[i] \in Texts(q, Len(terms))
    BY <2>1, Wider
  <2>3. QED
    BY <1>1, <2>2, MoreTexts
<1>5. \A e : e \in told <=> \E i \in 1..Len(noted) : noted[i] = e
  BY <1>2 DEF AreIn, Contains
<1>6. ASSUME NEW m \in told, NEW n \in told, m.about = n.about \/ m.claim = n.claim PROVE m = n
  <2>1. PICK i \in 1..Len(noted) : noted[i] = m
    BY <1>5
  <2>2. PICK j \in 1..Len(noted) : noted[j] = n
    BY <1>5
  <2>3. i = j
    BY <1>3, <1>6, <2>1, <2>2 DEF Told
  <2>4. QED
    BY <2>1, <2>2, <2>3
<1>7. ASSUME NEW n \in told
      PROVE  n.claim \in DOMAIN terms /\ n.about \in Touched(terms[n.claim], q)
  <2>1. PICK i \in 1..Len(noted) : noted[i] = n
    BY <1>5
  <2>2. n.about \in q.columns /\ n.claim \in 1..Len(terms)
    BY <1>4, <2>1
  <2>3. Contains(terms[n.claim], n.about)
    BY <1>3, <2>1 DEF Told
  <2>4. QED
    BY <1>1, <2>2, <2>3 DEF Touched
<1>8. ASSUME NEW k \in DOMAIN terms, NEW c \in Touched(terms[k], q)
      PROVE  \E n \in told : n.claim = k \/ (n.claim < k /\ n.about = c)
  <2>1. Heard(k, c, noted)
    BY <1>1, <1>3 DEF Told
  <2>2. PICK i \in 1..Len(noted) : noted[i].claim = k \/ (noted[i].claim < k /\ noted[i].about = c)
    BY <2>1 DEF Heard
  <2>3. noted[i] \in told
    BY <1>5
  <2>4. QED
    BY <2>2, <2>3
<1>9. QED
  BY <1>6, <1>7, <1>8 DEF Tells

-----------------------------------------------------------------------------
(* An answer on its way: what the query had and the cap left, then its notes. *)

AnswerInv ==
  /\ query \in Queries /\ learned \in TermLists /\ matching \in Nat
  /\ pc = "notes" /\ result.ok => \E null \in BOOLEAN : result = Answer(query, matching, null)
  /\ pc = "done" /\ result.ok =>
       \E null \in BOOLEAN :
         LET r == Answer(query, matching, null) IN result = [r EXCEPT !.notes = Notes(r, learned, query)]
  /\ pc \in {"idle", "explain", "run"} => result = Failure

LEMMA AnswerInvHolds == Spec => []AnswerInv
<1>1. Init => AnswerInv
  BY GateAssumption DEF Init, AnswerInv, NoQuery, GateAssumption, Failure
<1>2. AnswerInv /\ [Next]_vars => AnswerInv'
  <2> SUFFICES ASSUME AnswerInv, [Next]_vars PROVE AnswerInv'
    OBVIOUS
  <2>1. CASE UNCHANGED vars
    BY <2>1 DEF vars, AnswerInv
  <2>2. CASE Call
    BY <2>2 DEF Call, AnswerInv
  <2>3. CASE Explain \/ ExplainFailsSilently
    BY <2>3 DEF Explain, ExplainFailsSilently, AnswerInv, Failure
  <2>4. CASE RunRefused
    BY <2>4 DEF RunRefused, AnswerInv, Failure
  <2>5. CASE Run
    <3>1. CASE UNCHANGED <<matching, result>>
      BY <2>5, <3>1 DEF Run, AnswerInv, Failure
    <3>2. ASSUME NEW n \in 0..RowBound, NEW null \in BOOLEAN, matching' = n, result' = Answer(query, n, null)
          PROVE  AnswerInv'
      BY <2>5, <3>2, GateAssumption DEF Run, AnswerInv, GateAssumption
    <3>3. QED
      BY <2>5, <3>1, <3>2 DEF Run
  <2>6. CASE SanityCheck
    BY <2>6 DEF SanityCheck, AnswerInv
  <2>7. CASE SanityCheckRaises
    BY <2>7 DEF SanityCheckRaises, AnswerInv
  <2>8. QED
    BY <2>1, <2>2, <2>3, <2>4, <2>5, <2>6, <2>7 DEF Next
<1>3. QED
  BY <1>1, <1>2, PTL DEF Spec

(* The rows shown and those told of are the rows of the answer. *)
LEMMA FormatCounts ==
  ASSUME NEW r, r.rows \in Nat
  PROVE  FormatForModel(r).shown + FormatForModel(r).unseen = r.rows
<1>1. ShownRows \in Nat
  BY GateAssumption DEF GateAssumption
<1>2. Min({r.rows, ShownRows}) \in {r.rows, ShownRows}
      /\ Min({r.rows, ShownRows}) <= r.rows
  <2> DEFINE P == {r.rows, ShownRows}
  <2>1. \E x \in P : \A y \in P : x <= y
    BY <1>1
  <2>2. Min(P) \in P /\ \A y \in P : Min(P) <= y
    <3> HIDE DEF P
    <3>1. QED
      BY <2>1 DEF Min
  <2>3. QED
    BY <2>2
<1> DEFINE shown == Min({r.rows, ShownRows})
<1>3. shown \in Nat /\ shown <= r.rows
  BY <1>1, <1>2
<1> HIDE DEF shown
<1>4. FormatForModel(r).shown = shown /\ FormatForModel(r).unseen = r.rows - shown
  BY DEF FormatForModel, shown
<1>5. QED
  BY <1>3, <1>4

(* execute_sql and format_result_for_model, for any query, cap and claims: an
   answer to a query without a LIMIT that was cut says so, and of each claim
   about a column of the query the notes give the text, or that of an earlier
   claim about that column. *)
THEOREM NotesAreCarried == Spec => []AnswersCarryNotes
<1>1. AnswerInv => AnswersCarryNotes
  <2> SUFFICES ASSUME AnswerInv, pc = "done", result.ok
               PROVE  /\ query.limit = NoLimit =>
                           LET text == FormatForModel(result) IN
                             text.shown + text.unseen < matching
                               => Contains(text.notes, General("truncated"))
                      /\ EveryColumnOnce
    BY DEF AnswersCarryNotes, CutAnswersSaySo, EveryColumnOnce
  <2>1. PICK null \in BOOLEAN :
          LET r == Answer(query, matching, null) IN result = [r EXCEPT !.notes = Notes(r, learned, query)]
    BY DEF AnswerInv
  <2>2. query \in Queries /\ learned \in TermLists /\ matching \in Nat
    BY DEF AnswerInv
  <2>3. PICK r : r = Answer(query, matching, null)
    OBVIOUS
  <2>4. /\ result = [r EXCEPT !.notes = Notes(r, learned, query)]
        /\ r = [ok |-> TRUE, rows |-> Rows(query, matching), null |-> null,
                truncated |-> Rows(query, matching) >= MaxRows, error |-> FALSE, notes |-> <<>>]
    BY <2>1, <2>3 DEF Answer
  <2>5. /\ result.notes = Notes(r, learned, query) /\ result.rows = Rows(query, matching)
        /\ r.truncated = (Rows(query, matching) >= MaxRows) /\ r.null = null
    BY <2>4
  <2>6. /\ DOMAIN result.notes = 1..Len(result.notes) /\ Once(result.notes)
        /\ \A e : Contains(result.notes, e) /\ e.claim # 0 <=> Contains(ColumnNotes(learned, query), e)
        /\ r.truncated => Contains(result.notes, General("truncated"))
    <3>1. r.truncated \in BOOLEAN /\ r.null \in BOOLEAN
      BY <2>5
    <3>2. PICK notes : notes = Notes(r, learned, query)
      OBVIOUS
    <3>3. /\ DOMAIN notes = 1..Len(notes) /\ Once(notes)
          /\ \A e : Contains(notes, e) /\ e.claim # 0 <=> Contains(ColumnNotes(learned, query), e)
          /\ r.truncated => Contains(notes, General("truncated"))
      BY <2>2, <3>1, <3>2, NotesTell
    <3>4. result.notes = notes
      BY <2>5, <3>2
    <3>5. QED
      BY <3>3, <3>4
  <2>7. ASSUME query.limit = NoLimit, FormatForModel(result).shown + FormatForModel(result).unseen < matching
        PROVE  Contains(FormatForModel(result).notes, General("truncated"))
    <3>1. MaxRows \in Nat /\ NoLimit \notin 0..(matching - 1)
      BY <2>2, GateAssumption DEF GateAssumption, NoLimit
    <3>2. Rows(query, matching) \in {matching, MaxRows}
      BY <2>7, <3>1 DEF Rows, Limit
    <3>3. Rows(query, matching) < matching
      BY <2>2, <2>5, <2>7, <3>1, <3>2, FormatCounts
    <3>4. Rows(query, matching) >= MaxRows
      BY <2>2, <3>1, <3>2, <3>3
    <3>5. r.truncated
      BY <2>5, <3>4, Zenon
    <3>6. FormatForModel(result).notes = result.notes
      BY DEF FormatForModel
    <3>7. QED
      BY <2>6, <3>5, <3>6
  <2>8. EveryColumnOnce
    <3>1. PICK told : told = {n \in Range(result.notes) : n.claim # 0}
      OBVIOUS
    <3>2. \A e : e \in Range(result.notes) <=> Contains(result.notes, e)
      BY <2>6 DEF Range, Contains
    <3>3. PICK terms \in TermLists, q \in Queries : terms = learned /\ q = query
      BY <2>2
    <3>4. AreIn(told, ColumnNotes(terms, q))
      BY <2>6, <3>1, <3>2, <3>3 DEF AreIn
    <3>5. Tells(terms, q, told)
      BY <3>4, ClaimsTold
    <3>6. QED
      BY <2>6, <3>1, <3>3, <3>5 DEF EveryColumnOnce, Once, Touched, Tells
  <2>9. QED
    BY <2>7, <2>8
<1>2. QED
  BY AnswerInvHolds, <1>1, PTL
=============================================================================
