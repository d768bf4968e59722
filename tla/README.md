# A verification project for the database harness

The program answers questions about a defective SQL database with a language model. A *baseline* arm gets
the bare schema and one shot; a *harness* arm gets a schema card and tools and may investigate. An evaluation
runner grades both, a dashboard shows results and asks live questions, and a question-blind audit ("discovery")
writes an artifact of verified claims that people review and later runs use.

The modules here are translated from the source in `src/`. TLC checks them on small instances, TLAPS proves
the theorems for every value of the constants. `PROJECT.json` lists runs, mutants, theorems and, for every
definition, the lines it models.

    tlc -workers 2 -config AgentLoop.cfg MCAgentLoop      # a run
    tlapm AgentLoopProofs.tla                             # a proof

## 1. The system

| Part (source) | State it keeps | Operations | Talks to |
|---|---|---|---|
| Agent loop (`harness/agent.py`) | `_ToolBox`: cached card and join graph, `last_result`, `last_sql`; per run: history, steps, `AgentResult` | `run_harness`, `dispatch`, `reset`, `run_baseline` | adapters, query execution, profiler, joins, glossary |
| Web server (`web/server.py`) | `_Runner`: one toolbox, one model client, a semaphore; per request a queue and a thread | `/api/ask` (SSE), `/api/health`, `/api/meta` | agent loop, grader, the browser |
| Live panel (`web/static/app.js`) | button, spinners, panes, reader's buffer | `boot`, `checkLive`, `runLive`, `consumeSse`, `handleEvent` | web server |
| Shared prompts (`_Runner` in `web/server.py`, `harness/schema_card.py`) | model client, DDL and toolbox, built under a lock; the toolbox's card and joins, built without one | the getters, `_ToolBox.card` and `.joins`, `render` | database, join inference |
| Evaluation (`eval/run.py`, `eval/grade.py`) | records in memory, one JSON file per arm and suffix | `main`, `run_arm`, `summarize`, `matches`, `explain_mismatch` | agent loop |
| Results (`eval/report.py`, `web/build_data.py`, `scripts/check_dashboard_data.py`) | `data.js`, baked from the evaluation's files | report, bake, check | evaluation, through its files |
| Dataset (`data/generate.py`) | the tables under construction, then `seed.sql` | one builder per table, chunked INSERTs | the database, which is loaded from it |
| Profiler (`harness/profile.py`) | none | `profile_column`: counts, then a query or two per check | database |
| Query gate and execution (`harness/db.py`, `harness/execute.py`) | none; a connection per step | `assert_read_only`, `_apply_row_cap`, `run_query`, `execute_sql`, `_sanity_notes` | database, learned terms |
| Discovery and verification (`harness/discover.py`, `harness/verify.py`) | claims, seen keys, counters | `discover`, `_run_class`, `verify_claim` | adapters, database, artifact |
| Artifact (`harness/memory.py`, `harness/review.py`, `harness/glossary.py`) | one YAML file; a cache of terms keyed by path and mtime | `load`, `save`, `staleness`, `set_review`, `learned_terms` | each other, through the file |
| Adapters (`harness/llm.py`) | none but the client | `chat`, `_convert_messages`, `_generate` with retries | providers |
| Join inference (`harness/joins.py`) | none | `infer_joins` | database |
| Curated glossary, review rendering, static views | none | text from data or constants | - |

**Hard behaviours.** Three things run concurrently: worker threads of the server that outlive their streams;
processes and threads that read and rewrite one file without a lock; and the callbacks of one browser page.
The database may be seeded again between any two queries, so a card, a profile or an audit may be of two
databases; files of the evaluation are read, baked and compared while they are written; and what threads share is
built lazily by whichever comes first.
Failures are everywhere: the model, each database connection, a writer that dies, a client that leaves, a stream
cut anywhere. State is shared on purpose: one toolbox for all questions, one cache for all calls. The rest is
exactness: row caps, significant digits, shares at thresholds, step budgets.

**What makes each part correct.** The agent hands over the last query that succeeded *for this question* or says
why there is none, and keeps a history the provider accepts. The server tells a client only what its own run
found and always frees its gate. An arm of the evaluation has one record per question, whatever fails. Only
reads reach the database, and a cut answer says so. A claim that looks fresh is proved. What is served of the
artifact was active. Requests to a provider are well formed. Events are handled once and in order. Grading is
strict on values, lenient on presentation. Ambiguity is named. The dataset has the defects the questions are
about, and nothing else breaks its keys; a profile names those defects and warns of nothing that was never so.
Shared things are built once, and a card tells what was true while it was made. A published page shows records
that an arm has earned.

## 2. Modules

| Module | Models | Composition |
|---|---|---|
| `GradedRun` | what callers may expect of `run_harness` | abstract specification |
| `AgentLoop` | `run_harness` and `_ToolBox` | implements `GradedRun` (`Graded`, a refinement mapping) |
| `AgentLoopProofs` | proofs | extends `AgentLoop` and `Profile`, a tool of its toolbox |
| `WebServer` | `_run_stream`, its workers, the shared toolbox | composes generators, clients, workers; refines the toolbox accesses of `AgentLoop` to single stores and loads |
| `WebServerProofs` | proofs | extends `WebServer` and `LiveView`: the two ends of a stream |
| `SchemaCard` | `_Runner`'s getters, `_ToolBox`'s caches, `render` query by query | composes worker threads, the lock, a database that is seeded again; takes `JoinGraph`'s result as a set of pairs |
| `SchemaCardProofs` | proofs | extends `SchemaCard` and `JoinGraph`, whose result the card lists |
| `EvalRun` | `main`, `run_arm`, `summarize` | takes an arm as the results it can return |
| `Results` | report, bake and check | extends `EvalRun`: they run beside an evaluation that is writing |
| `EvalRunProofs` | proofs | extends `Results` and `Grade` |
| `ArtifactStore` | `load`, `save`, `set_review`, `learned_terms`, discovery's save | composes processes and threads over one file |
| `StoreProofs` | proofs | extends `ArtifactStore` |
| `Discovery` | `discover`, `_run_class`, `verify_claim` | one audit beside a database that may be seeded again |
| `DiscoveryProofs` | proofs | extends `Discovery` |
| `SqlGate` | `execute_sql`, `run_query`, `assert_read_only`, notes | takes the learned terms `ArtifactStore` serves as a list |
| `SqlGateProofs` | proofs | extends `SqlGate` |
| `LlmAdapters` | Gemini's and Anthropic's conversions, Gemini's retries | takes the histories of the agent or of the audit (`Caller`) |
| `LlmAdaptersProofs` | proofs | extends `LlmAdapters` |
| `LiveView` | the live panel | takes the streams `WebServer` produces (`Scripts`) |
| `Grade` | `matches`, `explain_mismatch`, and how `run_arm` uses them | pure, one step per pair of results |
| `JoinGraph` | `infer_joins` for one child column, its rows counted by value | a step per query |
| `Dataset` | the builders of `data/generate.py` and its INSERTs | one step per builder |
| `Profile` | `profile_column` | extends `Dataset`: it profiles the database that was generated, which may be loaded again meanwhile |

`MC*` modules give TLC their constants; `MCSequential` puts the parts that run alone and share nothing (`Profile`
with `Dataset`, `JoinGraph`, `Grade`) side by side. An operator under a comment that begins with *Faulty* is a plausible
mistake in the operator after it; a run with the mistake in its place must find a property violated, which shows
that the property is able to fail. No specification uses them.

### How state and actions correspond to the code

* **AgentLoop.** `box` is the `_ToolBox`, `res` the `AgentResult`, `messages` the list sent to the model, `pending`
  the calls of a reply not yet dispatched. `Ask` is the call and `reset()`; `RenderCard`/`RenderRaises` the two
  uses of `box.card`, outside any `try`; `Chat...` the ways `llm.chat` ends; `Dispatch...` one `dispatch` with
  the message it appends; `LimitHit` the `else` of the `for`; `Finish` the code after it. The prose path stores
  the text the model wrote, the tool path the text that ran, so a query is a text and whether it was capped.
* **WebServer.** `gate` is the semaphore, `stream` where a generator stands (`closed`: ended by itself, `left`:
  closed with its client), `pc` where a worker stands. The toolbox is written and read one field at a time,
  because other workers may come between. The `finally` clause is part of `Close` and `Disconnect`. A request
  refused at the gate is told so with a `fatal` event, and so is one whose work cannot begin (`CannotBegin`: the
  questions are read anew for each, the client is built for the first). A baseline may have no SQL, SQL whose query
  failed, which is reported without rows, or both.
* **SchemaCard.** `runner` holds the fields of `_Runner` that are set, `lock` its lock, `box` the caches of the one
  toolbox, `local` what a worker holds of a card under way. `Enter`, `Get`, `Build` and `BuildRaises` are a getter;
  `LookAtCard`, `LookAtJoins`, `Infer` and `StoreCard` are `_ToolBox.card` and `.joins`, which look and store without
  the lock; `Count`, `Enumerate` and `Sample` are the queries of `render`, one table after the other, each of the
  version of the database it meets. The gate is reduced to its effect: a worker may start beside another only when
  the client of that one has left.
* **EvalRun.** `records` is in memory until `WriteArm`, before which `OpenFile` has truncated the file; a process may die
  between the two. `ArmRaises` is what escapes `run_arm`. `main` is called again and again, with any selection, tag
  and arms.
* **Results.** `page` is what `data.js` holds, `table` the lifts the last report printed, `verdict` the last answer of
  the check. `Bake`, `Check` and `Report` each read all files in one step; a file that is open for writing does not parse.
* **Dataset.** `n` are the sizes drawn from, `stage` the builder that is next; every call of the random generator is a
  choice, so what holds is true of every seed. A row has the cells that a planted defect or a check of the profiler
  is about. A date is a half-month: an even one is the first of its month, an odd one a later day of it, which is
  what the billing of the month a subscription ended in depends on.
* **Profile.** `p` is the `ColumnProfile`, `at` the check that is next. `Reload` is `seed.sql`: its DDL drops the rows at once
  and they come back together at its COMMIT. The profiler's connection commits every statement, so each check sees the
  database anew; `reloaded` remembers that this happened.
* **ArtifactStore.** `save` is a truncation and a write; a writer may die between (an empty file) or, with
  `CanBreak`, inside (a shorter artifact, one whose last claim lacks its verdict, or one that does not parse).
  `learned_terms` is stat, compare-and-store-key, load, store-terms, return. A write gives the file a new mtime unless
  `SameTick` lets two of them share one. `overlapped` remembers that two saves were under way at once.
* **Discovery.** `Reply` collects the proposals of a pass, the settling of each is `verify_claim` up to the
  query, the query, the flag. `bound` is the fingerprint's version.
* **SqlGate.** Each step opens a connection: the EXPLAIN, the query, the notes (which may raise, when the
  artifact does not load). A query is what the gate can tell of it; a note is what it is about and the claim whose text
  it gives.
* **LlmAdapters.** `request` is the converted history at the moment it is sent, `attempt` counts Gemini's tries.
* **LiveView.** Between two `await`s the page runs alone: `Click`, `HealthAnswers`, `Respond`, `Receive`,
  `StreamEnds`, `RequestFails`. `wire` is what the network has not delivered, event by event and newline by newline.
* **Grade, JoinGraph.** Sorting by `repr` is a bag. A share is one division, so a bar is met exactly where the fraction
  meets it. A score is a product of two floats and the band a difference of two: equal fractions may come out unequal
  (`1.0 - 0.85 <= 0.15` is false in Python), so of equal scores by different counts either may lead, and a rival exactly
  0.15 below may be named or not (`Keep`).

## 3. Runs

| Run | Question asked | Bounds, and why they are enough |
|---|---|---|
| `AgentLoop` | what a run hands over, the history it sends, the nudge, that it ends, that it implements `GradedRun` | 2 questions (what one leaves for the next), 5 steps (the nudge falls on steps 3 to 5), 2 calls per reply (order of answers), 2 texts |
| `Web` | mutex, who meets in the toolbox, own answers, grammar of streams, that everything ends | 2 requests, one of which may leave; arms: none, one, two; 1 query per run (one store to interfere with) |
| `WebCrossTalk` | own answers when a client leaves: **violated** | 2 requests of one harness arm |
| `SchemaCard` | what is built once, what a card tells, whose joins it lists, that nobody waits for ever | 2 workers (the second may meet the first), one of which may be left; 2 tables, 2 seedings that empty one and shrink the other across the limits of enumeration |
| `EvalRun` | records and sums of an arm, pages, lifts | 2 calls (one may overwrite, or mix with, the other), 2 questions with 3 tags, 2 selections, 2 suffixes, all plans of arms |
| `Store` | what is served | discoveries that number claims differently, 1 reviewer, 1 thread, 2 saves, 2 versions |
| `StoreReview` | decisions, proofs and the cache when writers die | 2 reviewers, 1 thread, 3 saves (an overwriting of an overwriting) |
| `Discovery` | what an audit's artifact says | 2 classes (deduplication across them), 2 calls per reply, 6 shapes of proof, 2 versions |
| `SqlGate` | reads only, truncation, notes | one query of every shape, cap 2 of 3 rows, the model shown 1 of them, up to 3 claims |
| `Adapters` | requests, signatures, retries | 2 replies with up to 2 calls, 3 attempts, both providers |
| `LiveView` | stream, attachment of results, one question on screen, recovery | 2 runs and a deep link; a step that calls one tool twice; a broken run; every way to cut the stream |
| `Sequential` | the dataset's defects and keys; what a profile warns of; joins; grading | one part of the data at a time with up to 3 rows beside its customers, 1 reload at any moment, any query failing; half-months up to 4 with the cutover at 2; 2 keys and every column of up to 4 values with up to 2 rows each, beside seven columns of up to 50 values that fall on each bar, on the edge of the band, just off them, and on a tie of scores (`MCEdges`); tables of up to 2 x 2 cells over 3 numbers and null, two of which round alike; single numbers with 2 digits on both sides of the limit of digits and of a power of ten (up to 120, around 1000 and 1050) |

`TypeOK` of a module says what its variables hold. For `AgentLoop`, `WebServer` and `Discovery` it is proved, so no run
repeats it; for the others it documents the variables and can be added to a configuration.

A property with several conjuncts says one thing of several operations: `CallsAreServed` (what a call of `learned_terms`
returns was active while it ran, and it does return), `AnswersCarryNotes` (a cut answer says so, and of each column the
first claim about it is told, once; a later claim that has no other column is dropped, as the code does),
`RequestsAreAccepted` (calls are answered, turns alternate), `JoinsAreHonest` (what fits almost as well is named and
nothing else, a clean join loses no row), `DatasetSound` (prices tile time, the churn log mirrors the subscriptions, each
month is billed once, the statements hold every row), `GradesAreExact` (values are not confused, how often is told apart, the
explanation fits).

Deadlock is not checked where the program stops (all requests served, all workers done) or a bound is reached;
`SqlGate`, which answers for ever, and `EvalRun`, where a report or a bake is always possible, are checked for it.

**Fairness.** `AgentLoop`: a run under way keeps going, since chat, tools and queries have timeouts; nobody has to
ask. `Web`: threads are scheduled, the server drives its generators, and a client that neither reads nor leaves
is dropped by the transport; leaving itself is under no obligation (the client's weak fairness is met by
reading). `SchemaCard`: threads are scheduled and their queries time out; nobody has to ask, seed or leave.
`LiveView`: the network
makes progress with open responses and with the health check; failing is never forced.

## 4. Proofs

Assumptions: `MaxSteps` and the bounds are naturals, a selection is a sequence of questions and each question has tags,
`None` is no query, result, row or error; a request's arms are lists of arm names; the versions of the database are
numbered, and what a proof returns is an integer. A discovery writes claims whose names differ and which nobody has
reviewed (`AuditsAssumption`). A table has finitely many rows, its column finitely many values (`DataAssumption`). A
learned term is a list of column names (`NotesAssumption`). The generator's `TODAY` and the day the billers
changed are firsts of a month (`DatasetAssumption`). Each event of a stream is one of those the server sends: an
event of an arm names it, none is a blank line, a tool's result follows its call (`ScriptsAssumption`, which
`run_harness` justifies: `on_event` is called with the call, then with its result). Results are lists of rows of
numbers and nulls, and at least one digit counts (`GradeAssumption`); parents are tables of different names and a column has
finitely many values (`JoinAssumption`), each on a row at least (`DatasetsAssumption`). `ValuesAssumption` tells the values of the generator apart, as MySQL does: NULL
is neither a number nor a text, no name, tier or word of a vocabulary reads like a magnitude, codes are positive.
`SchemaAssumption` says what `schema.sql` declares of the columns modelled: which are text, that `reason_code`'s comment
mentions 1 to 4, that `status` is the column of `invoices` that is like one. Everything else holds for every set of texts, budget, number of calls, set of
requests and leavers.

Each inductive invariant was first checked by TLC on the run of its module, then proved; only `StreamInv` was not,
since the rest of a stream it speaks of is a witness among all sequences. Two proofs failed for good reasons and
changed the model: `CountsStayDistinct` said that numbers of different length are never taken for each other, but 996
and 1040 are both 1000 to two digits, so it is now a bound on their distance; and the rows of a child column had to be
pairs of a value and a number for "orphans and joined rows are all rows" to follow from the definition.

* `AgentLoopProofs`. `TypeCorrect`. `AnswerInv` is inductive: it adds to `OwnQuestion`, `SqlOfRows` and `HonestOutcome`,
  which speak of finished runs, what holds in the middle (`BoxInv`: what the toolbox holds belongs to the current
  question, its two fields to one query; `ProgressInv`: nothing is handed over before the end, and how the
  error tells the way the loop was left). The three follow (`GradedOnOwnQuestion`, `GradedSqlMatchesRows`,
  `OutcomeIsHonest`), and so does the refinement `AgentImplementsGradedRun`, step by step. `HistoryInv` extends
  `HistoryWellFormed` to a history whose last reply is partly answered: its missing answers are the pending
  calls, in order (`HistoryAlwaysWellFormed`). `NudgeInv` ties the last message to the number of steps
  (`NudgedInTime`).
  For `profile_column`, `DataInv` gives each table its row type, builder by builder (a subscription that has not ended is
  not cancelled, an invoice that is not paid has no time of payment, a flag is wrong of a botched SKU only, and is
  where one is sold), and says that the statements seeded hold the rows of their tables, all and no others
  (`Emitted`, from `FlattenMembers` and `Chunking`). `ProfileInv` adds that what was counted is the whole table
  or, in a reload, nothing of it (`Counted`), that each warning so far is true of the rows seeded, and that a check that
  is over has found what was planted for it (`Reported`). Each check has a lemma (`DriftChecked` to
  `StalenessChecked`); `WarningsHold` and `PlantedIsFound` follow.
* `WebServerProofs`. `TypeCorrect`. `GateMutex`: the gate is inductive by itself given types. `OneWorkerAtATime`:
  two workers run together only if the client of one has left. It needs `WorkerInv`: the stream of a running
  worker is open and its queue has no `End` yet, or the client has left. `OwnAnswers` builds on it: while all stay
  only the worker that takes a step runs, so what the toolbox holds and what it has read there is its own arm's
  (`OwnBox`), a baseline, which alone may report SQL without rows, has no toolbox, and how many arms its events have opened is the arm it runs (`AnswerInv`); `EndInv` says that nothing
  follows the `End`. `StreamsInOrder` says of a stream where the worker stands (`GrammarInv`): what a worker may say
  next depends on the last event it said and on how many arms it has closed (`Fits`), the grammar survives every
  event that fits (`SaysInOrder`), and a relayed event only moves from the queue to the client. It is of the
  events sent and queued together, so it needs `EndInv` but no assumption on who stays.
  For the live panel, `StreamInv` says that buffer and wire together are the wire form of whole events that have
  not been handled, and that none is complete in the buffer. A piece keeps this wherever it was cut
  (`Pieces`, from where blank lines stand in a wire form, `EndsInWire`; `PieceStreamed`), and what it completes comes next
  (`DueOnward`): `EventsInOrder`. `ViewInv` adds that one run is live, with the button off, that the panes are the
  last run's, and that a call just handled is the last node of its arm (`Opened`), so that its result, which is next in
  the stream, finds it although an earlier call had its tool and step (`ResultAttached`): `OneQuestion`,
  `ResultsAttached`. Both assume `~EarlyClick`; with it they are false (`LiveViewEarly`).
* `SchemaCardProofs`. `SharedOnce`: the invariant `GetterInv` adds to `BuiltOnce` that a worker that builds holds the lock
  and that its field is not set (`LockInv`), and that a field was assigned once exactly when it is set (`CountInv`). What
  happens outside of the getters leaves all of it alone (`Elsewhere`). `CardsAreTrue`: a card is not of one version of
  the database, so `CardIsTrue` is not inductive; `CardInv` says of a card under way that it holds the lines of the
  first tables, each true of some version since it was begun (`Making`), the same of the size just counted and not yet
  part of a line, and of the card that is kept and those handed out that they are whole (`Kept`, `Told`).
  `OneGraphWhenAlone`: up to the first meeting of two workers one is active at most, there is no card while one is
  made, and it is made of the joins the toolbox holds (`JoinInv`). `JoinsHonest`: `JoinGraphInv` ties the sizes taken, the
  candidates and the winner to the data they were counted from. Since equal scores by different counts may come out either
  way the order of candidates is not total; it is transitive and irreflexive (`AboveTransitive`, which for fractions
  compared by cross-multiplication is `CrossTransitive`; `BeforeIrreflexive`), so some candidate has none before it
  (`SomeoneLeads`). That the rivals named are those within the band is `GapsAgree`: the gap of two candidates is the gap
  of the data they were counted from; that a clean join loses nothing on rows being split into those that join and the orphans (`RowsSplit`).
* `EvalRunProofs`. `EvalInv` is inductive: the records in memory are of a prefix of what the call asks (`CallInv`); a
  file that parses is of one call up to this one, complete, with its own sums, and of what that call asked, so two
  files of one call are over the same questions (`FileInv`). `RecordPerQuestion` reads this off; `PageHoldsWholeArms`
  follows since a bake only takes files that parse and since every write makes the verdict of the check forgotten;
  `LiftsCompareLike` needs that how many records have a defect depends on their tags alone (`EqualSums`). `GradingIsExact`
  is of any two results: equal bags of rows are a bijection between them, row by row and cell by cell; rounding moves
  a number by half a unit at most, so two numbers that round alike are a unit apart at most (`SameRounded`); and
  `GradeInv` ties the text that is kept to the comparison it comes from.
* `StoreProofs`. For one serving thread and no two writes in one tick (both theorems are false without either:
  `StoreThreads`, `StoreTick`), `CacheInv`: no key is of a file to come; a call that has
  stored its key owns the cache until it has stored its terms; at any other time terms under the key of the file on
  disk are that file's (`CacheIsSound`). Everything else is a `FileStep`, which moves the clock or leaves the file.
  `CallsServed` adds that files of writers that do not die within the text load, and `WindowInv`: what a call holds
  was active since it began. For any threads, clocks and deaths, `ReviewInv`: there is one audit of which everything
  on disk and in a reviewer's hands comes, place by place (`OneAudit`), each decision in either was recorded or is the
  reviewer's own (`FollowInv`), and while no two writers have overlapped one reviewer at most holds a decision, on top
  of all that were settled (`SettledInv`). `ProofsKept` and `DecisionsKept` follow for reviewers among themselves:
  their hypothesis `~CanRediscover` says that no discovery writes beside them; with one, a decision may end up at
  another claim (`StoreRediscover`), and the claims may be another audit's. `DecisionsSettled` needs no hypothesis: it
  holds up to the first discovery, overlap or death.
* `SqlGateProofs`. `ReadsOnly`: each of the two texts sent passes `assert_read_only` in the step that sends it.
  `NotesAreCarried`: `AnswerInv` ties an answer to its query, cap and notes; that each column a claim is about has that
  claim's text or an earlier one's about it, and that no claim and no column has two, is proved of any list of claims,
  one claim more at a time (`Told`, `OneMoreClaim`, `ColumnNotesTell`).
* `DiscoveryProofs`. `TypeCorrect`. `ProofInv` is inductive with the types: a verified claim has a proof that can
  fail, and its evidence is what that proof returned on a version between the one the artifact is bound to and the
  live one, because the audit binds before it proves and the database only moves on. `FreshIsProved` follows
  (bound = live leaves one version between them), and `SurvivorsChecked`. `BooksAreBalanced`: in the middle of a
  settlement the books do not balance, so `BooksInv` counts the proposal under way, whose key is taken but which is
  neither kept nor counted; that keys stay distinct rests on `seen` holding those of all claims.
* `LlmAdaptersProofs`. `RaisesOnlyWhenHopeless`: `RetryInv` ties the attempts to the failures, all transient while a
  chat waits. `EveryRequestIsAccepted`: whenever a history is converted the request alternates, is answered up to its
  end and ends with the user (`ReadyToAsk`), to which a round of calls and its results adds one turn of the model and
  one of the user, by induction over the results (`ResultsWait`, `RoundConverts`). `AgentReturnsSignatures`:
  what is signed in the request is what was issued, less the reply not yet in the history (`SignatureInv`); its
  hypothesis is the agent's `_tool_call_payload`, with discover's it is false (`AdaptersDiscover`).

`Converted`, `ColumnNotes`, `Data`, `HandleAll`, `Pow10`, `Begins` and the library's `FlattenSeq` are recursive functions of any length or exponent. The provers cannot instantiate the library's
induction theorems, but a least counterexample can be cited as a fact: `NatMin` says that a set of numbers
has a least element (strict inclusion of finite sets is well founded), and every induction above is an appeal to it.

**Only model-checked**: liveness (weak fairness and `ENABLED` are out of the prover's reach); and `DatasetSound`, which
counts rows and compares whole tables in order: that takes the order in which flattening and chunking leave rows, and
`SelectSeq`, while the lemmas above are about which rows there are.

## 5. Where code and comments disagree

`WebCrossTalk` is the one that is part of the regular runs: the gate is given back in the generator's `finally`
clause (`web/server.py:305`) while the worker thread it guarded goes on, so the next question shares the toolbox
with it, although `web/server.py:162-163` rules that out. The others are stated by a property in their module;
the configuration named shows TLC's counterexample, e.g. `tlc -config StoreStale.cfg MCArtifactStore`. Where a
configuration holds several, one of its `INVARIANT` lines is active at a time.

| Configuration (module) | Property | The code | The words |
|---|---|---|---|
| `CardDoubts` (`MCSchemaCard`) | `CardNeverBreaksRun` | a table that cannot be counted raises outside of any `try` (`schema_card.py:117-123`) | `schema_card.py:75` "must never be the thing that breaks the run" |
| `CardDoubts` (`MCSchemaCard`) | `OneJoinGraphAlways` | two workers, one left by its client, both find the caches empty (`agent.py:230-241`) and fill them one after the other | `server.py:162-163` |
| `EvalDoubts` (`MCEvalRun`) | `SameQuestions` | the report pairs two files by their names (`eval/report.py:60`), whoever wrote them with whichever questions | `eval/run.py:2` "same model, same questions" |
| `EvalDoubts` (`MCEvalRun`) | `CurrentIsSame` | only `correct` and `total` are compared (`check_dashboard_data.py:92`) | the same file's docstring on what the page shows |
| `EvalDoubts` (`MCEvalRun`) | `EarnedIsKept` | only the gold query is caught (`eval/run.py:72-78`); what an arm or the grading raises ends the process, unwritten records and all | `eval/run.py:61-62` "must not discard the six results already earned" |
| `StoreThreads` (`MCArtifactStore`) | `ServedWasActive` | the key is stored before the terms (`glossary.py:276`); two threads are possible after a cross-talk | `glossary.py:269` "Active claims from the artifact" |
| `StoreBroken` (`MCArtifactStore`) | `NeverRaises` | a file that does not parse raises through `execute.py:70` | `execute.py:167` "Never raises" |
| `StoreStale` (`MCArtifactStore`) | `ServedMatchesDb` | `load` compares nothing, `learned_terms` never calls `staleness` | `memory.py:25-28` "`load()` says so rather than serving them silently" |
| `StoreRediscover` (`MCArtifactStore`) | `DecisionFollowsClaim` | ids are positions, a rediscovery renumbers them under a reviewer | `memory.py:106-108` on decisions that drift |
| `DiscoveryContract` (`MCDiscovery`) | `ContractHolds` | extra columns are accepted (`verify.py:140`) | `verify.py:14-15` "one column named `evidence`" |
| `DiscoveryArguments` (`MCDiscovery`) | `RepliesNeverCrash` | arguments that are JSON but no object end the audit (`discover.py:335`) | `llm.py:558-560` "Never raise here" |
| `SqlUnion` (`MCSqlGate`) | `NoLimitIsCapped` | only `exp.Select` is capped (`db.py:126`) | `db.py:121` "Add a LIMIT if the model did not write one" |
| `AdaptersDiscover` (`LlmAdapters`) | `SignaturesReturn` | the audit's history drops signatures (`discover.py:324`) | `llm.py:54-57` |
| `LiveViewEarly` (`MCLiveView`) | `ResultsWithTheirCalls` | the health check re-enables Run during a run (`app.js:475`) | `app.js:579` |
| `StoreTick` (`MCArtifactStore`) | `CacheSound` | two writes in one tick of the clock have one mtime (`glossary.py:275`), and what was loaded between them is served for ever | `glossary.py:269` "Active claims from the artifact" |
| `StoreOverlap` (`MCArtifactStore`) | `OverlappingDecisionsStay` | `set_review` loads, changes and saves the whole file (`review.py:115`); the later of two undoes the earlier | `review.py:19-21` "shaped to be called by an HTTP handler" |
| `SequentialDoubts` (`MCSequential`) | `AbsorbsNoise` | rounding first, comparing after (`grade.py:60`) separates close numbers on a boundary | `grade.py:46-48` |
| `SequentialDoubts` (`MCSequential`) | `AmbiguityIsNeverSilent` | a failed query drops a rival silently (`joins.py:207-208`) | `joins.py:164` |
| `SequentialDoubts` (`MCSequential`) | `DuplicatesAreReported` | names are compared without punctuation only (`profile.py:244`), the generator's duplicates end in ", Inc." or " LLC" | `profile.py:13-14` |
| `SequentialDoubts` (`MCSequential`) | `NamesakesAreNotDuplicates` | companies that drew the same name are reported as one | `profile.py`'s warning "The same organisation exists under multiple keys" |
| `SequentialDoubts` (`MCSequential`) | `RangesAreUnderstood` | a value is documented if it is a substring of the comment (`profile.py:233`), so of "1-5" 2 to 4 are not | `schema.sql:130` |
| `SequentialDoubts` (`MCSequential`) | `ReturnedAreActive` | a customer picked to have come back may be paused | `generate.py:448-449` "their subscription row reads 'active'" |

## 6. Abstractions and assumptions

Texts, wording, timings and token counts are left out. The fingerprint of a database is its version: that an
update in place with the same row counts does not change it is not modelled. Every write of the artifact
changes its mtime unless `SameTick` says otherwise (`StoreTick`). YAML that was cut off is a prefix of the claims or does not parse. Floats are small naturals
with two significant digits in `Grade`. In `JoinGraph` two scores, or a gap and the band, are in doubt only where they
are equal as fractions: with other counts they differ by more than the last bits of a float, unless the counts' products
come near 2^50. What sqlglot says of a query is a
feature of the query. `GeminiLLM` is frozen in this commit and is modelled as it works when it is not. Two runs of
one page may overlap with other pages at the server: `Respond` may always be a refusal. The process of `SqlGate`
runs with `HARNESS_KNOWLEDGE=discovered`.

Half-months stand for the generator's dates, and of its employees, campaigns and time zones no row is made: no defect the
profiler looks for lies there. A reload during a profile happens once and brings back the rows it dropped: a profile meets empty
tables beside full ones, and not the rows of two different datasets (`SchemaCard` and `Discovery` meet those). `Bake`,
`Check` and `Report` read their files in one step, so a write between two reads of one of them is left out; they do meet
files that are truncated or of different calls. A card's tables have one column each.

**Not modelled.** The curated glossary is a list in the source, and `resolve_term` scores substrings of it with weights
nothing in the repository promises anything about: a property of it would restate them. Review rendering and the static
views lay out data without keeping any. `run_baseline` and `extract_sql` appear only in what they can return;
LocalLLM passes histories through; `strip_thinking` is text. `profile_table` is a loop over `profile_column`, and the
profiler's samples and statistics are left out. The SQL literals of the seed are text; setting up a model and
publishing pages is configuration. The component list of `PROJECT.json` gives each reason.

## 7. Plan

So far, in this order: `AgentLoop` with `GradedRun` (the core: what is graded), `WebServer` (the concurrency), `EvalRun`,
`ArtifactStore`, `Discovery`, `SqlGate`, `LlmAdapters`, `LiveView`, `Grade`, `JoinGraph`; then `SchemaCard` (what threads
share), `Dataset` and `Profile` (what the whole evaluation rests on), `Results`. Left:

1. *More of the system*: `run_baseline` and `extract_sql` as steps of their own; the interplay of `SqlGate` and
   `ArtifactStore` (one call whose EXPLAIN, query and notes meet three states of the file); an abstract specification
   of the artifact (an atomic register of claims) that `ArtifactStore` without deaths implements.
2. *More proofs*: of `Dataset`, the four parts of `DatasetSound` one by one, from `DataInv`: the keys of each table
   from the builders before it, then the order of rows in the statements.
