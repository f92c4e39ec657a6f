# Verification of the cloud strategy platform

TLA+ models of the platform's processes, their model checking with TLC and proofs
with TLAPS. Paths are relative to `src/`; `P/` stands for `cloud_strategy_platform/`.
`PROJECT.json` lists, for each definition, the lines it models, and for each run its
properties.

    tlc -workers 2 -config MCSipOwner.cfg MCSipOwner      # a run
    tlapm ReadinessProofs.tla                             # the proofs of a module

## 1. The system

Two processes share two SQLite files. The **SIP owner** (`scripts/run_sip_owner.py`)
holds the only market data connection. It subscribes what active strategies and
unexpired leases ask for and turns each event into rows: raw event, features, signals.
The **API** (`P/api.py`, one thread per request) writes leases and strategy
subscriptions, answers readiness, streams events and passes paper orders to a broker.
They exchange no message: each sees what the other has committed, one statement at a
time (`isolation_level=None`).

| component | state | operations | talks to |
|---|---|---|---|
| Registry, market tables (`P/registry.py`) | active version per strategy, lease per principal, one runtime row | register/activate, set_market_subscription, active_market_symbols, record_market_runtime | written by API and owner, read by both |
| SIP owner and stream (`scripts/run_sip_owner.py`, `P/market_data.py`) | place in two loops, window's symbols, deadlines, websocket | open window, heartbeat, refresh, record state, reconnect | registry, provider, ingest |
| ProcessLock (`P/runtime.py`) | `_held` of the process, lock of a file | `__enter__`, `__exit__` | wraps the owner |
| GET /ready (`P/api.py`) | none of its own; three reads | _readiness | registry |
| Raw ledger (`P/feature_store.py`) | append-only table, AUTOINCREMENT sequence | append, sequence_before, list_after | owner writes, API reads |
| Event delivery (`P/api.py`) | cursor and page per stream; clients' saved cursors | subscribe, stream, poll | ledger, clients |
| Ingest (`P/platform.py`, `P/feature_store.py`) | sampled seconds, features, signals | process_sip_event | ledger, features, registry |
| Paper orders (`P/alpaca_paper.py`) | write gate; the broker's orders | submit, cancel, lookup | broker |
| Strategy catalog, artifacts (`P/registry.py`, `P/artifacts.py`) | versions, signals, artifacts, files of workspaces | register, publish_signal, record_file, record_artifact | evaluators, recorders |
| Expressions (`P/expressions.py`) and the decision (`P/platform.py`) | none | SafeExpression.evaluate, _evaluate | catalog, ingest |
| Tokens (`P/registry.py`), credential migration (`scripts/migrate_ai_credentials.py`) | token rows, two env files | issue, authorize, revoke_other_tokens, the migration's steps | registry, files, callers |
| Historical client (`P/alpaca_market_data.py`) | rows collected so far | validate, page loop, errors | provider |
| Session clock and coverage (`P/market_health.py`) | none | describe_market_session, build_historical_coverage | historical client, API |
| Market status, sandbox, HTTP shell, start scripts | none | | |

### What is hard, and what would make each part correct

* *Owner.* Two coroutines meet at awaits, a timer drives refresh, heartbeat and
  deadline, other processes change the union between the two transactions that read
  it, and the process dies anywhere and is restarted with its predecessor's row in
  place. Correct: the row never claims a subscription the stream does not have; a
  connection is given up only for a reason; what is wanted is streamed in the end.
* *Readiness.* Clock, strategies, leases and row are read at different moments.
  Correct: a 200 means symbols that the provider was asked for and has answered about,
  and an owner that lived recently.
* *Delivery.* Pages, a connection that breaks inside them, a client that dies between
  processing and saving, new events all the while. Correct: nothing is left out, the
  order is the ledger's, everything arrives.
* *Ingest.* Each database call commits alone; events arrive out of the order of their
  timestamps; a window that ends takes its generator with it. Correct: sampling holds
  across windows and restarts, derived rows can be traced, no value of the future.
* *Lock.* Two layers, failures between them, a close that fails as well, kills. Correct:
  mutual exclusion, and the lock comes back.
* *Orders.* Concurrent requests with one id, lost answers, late requests. Correct: 200
  means an order; a duplicate is no failure; repeating is safe.
* *Catalog.* Definitions are read once per event while others register and activate; a
  recorder reads the active version, hashes a file and writes the row in three steps; a
  lost answer is repeated. Correct: a signal follows from what its row names, an artifact
  belongs to its call, an answer is what is stored.
* *Expressions.* Short circuits and chains leave facts unread. Correct: a missing fact
  never decides.
* *Tokens.* The migration is a row of transactions and file replacements and may be killed
  between any two, and new keys go into either file. Correct: the key put last is the one
  found, what it leaves works and is all that works.
* *History.* Pages fail in the middle, the archive grows, requests start within a minute,
  and summer time is derived twice. Correct: a gap is real and a hole is reported.

`PROJECT.json` lists these as hazards, each at its line, with the properties that cover
it or the reason why none does yet.

## 2. The modules

    MarketRegistry <- SipOwner <- Readiness          <- ReadinessProofs
    EventLedger    <- SipIngest                      <- SipIngestProofs
    EventLedger    <- EventDelivery (=> ReliableFeed)
    SipIngest, EventDelivery <- MarketPipeline       <- EventDeliveryProofs
    ProcessLock (=> Mutex)                           <- ProcessLockProofs
    PaperOrders                                      <- PaperOrdersProofs
    Expressions    <- StrategyCatalog                <- StrategyCatalogProofs
    Credentials                                      <- CredentialsProofs
    MarketHours    <- MarketHistory                  <- MarketHistoryProofs

`<-` is EXTENDS, `=>` "shown to implement". `EventDeliveryProofs` also extends
`SipIngestProofs`. Each `MC*` module is a small instance.
Definitions named in a comment "Mistake: ..." are plausible bugs of the definition that
follows them. No specification uses them; they show that the properties notice.

**MarketRegistry** has one operator per SQL statement, so one atomic step of whichever
process executes it. Time is relative: a lease has the ticks it has left, the runtime
row the age of its heartbeat, both moved by `Ageing`. A tick stands for 30 s.

**SipOwner** has `pc` for the place in `_run` and `_consume_window`, one value per
await or registry access, and `sock` for the generator. `OuterLoop` is the `while` of
`_run`, `Refresh` the timer branch of the window, `Generator` what the websocket
coroutine does while the window waits. `Event` stands for the processing of one event
seen from the loop (SipIngest has what happens inside). `Crash`, `DeadlinePasses`
(`--max-seconds`) and `Writers` (the API) interleave everywhere. `SubscribeAnswered` is
the end of `_subscribe`, which receives an answer and does not look at it: `carried`, the
symbols the provider then streams, is any part of what was asked for, none included.
`asked` and `moved` are histories that no action reads.

**Readiness** extends it with the three reads of one /ready request. All the owner's
actions interleave between them, and a request may be `MaxDelay` ticks old when it
answers. `deadFor` and `blindFor` are histories.

**EventLedger** is the table and its three queries, shared by two modules.

**EventDelivery** has per client a connection, the server thread's cursor and page,
the bytes on the wire and the client's saved cursor. Sets of sequence numbers stand
for pages and bytes, both of which go in ascending order. **ReliableFeed** is its
abstract specification: a log that grows, clients that attach at a place and are shown
all they have a claim to up to some place, again if need be, without a hole. The
refinement maps `log <- ledger, from <- start, seen <- got`.

**SipIngest** has the windows with what the generator has still to yield (`frame`),
`sampled_seconds`, and one action for each database call of `process_sip_event`:
append, previous close, each put, vector, strategies, each publish. A feature's value is
abstracted to the events it was computed from (`event`, and `base` for a return), which
is what tells right from wrong here; a signal keeps the vector it rests on.

**MarketPipeline** composes the two: a step of the owner leaves the clients alone, a step of
a client leaves the owner alone, and the ledger is the only thing they share. `StoreEvent`
of EventDelivery, which stores any event at any time, is what SipIngest's `AppendRaw` does.

**ProcessLock** has per thread the place in `__enter__`/`__exit__`, the class attribute
and the lock of the file, which the operating system frees when its holder dies or the
handle is collected. Any file call may fail, the `close()` in the handler of `__enter__`
too (`CloseFails`): the file is closed then, but the mark stays. `broken`, the processes
that happened to, is a history. **Mutex** is its abstract specification, over the threads
inside.

**PaperOrders** has API threads between lookup, POST and second lookup, the broker's
orders, POSTs that are still under way after their caller gave up (`stray`), and clients
that repeat. A refusal with 422 leads to the second lookup (`Refused`), any other 4xx does
not (`Rejected`).

**Expressions** is the evaluator over trees written as sequences of nodes, operands before
operators, so that it is a recursive function and not a recursive operator. Values are
booleans, which count as 1 and 0, and exact rationals; an error is the number without
denominator. `Decide` is `_evaluate`: parameters may not shadow facts, and an error is no
decision.

**StrategyCatalog** has one action per registry method. `job` and `held` are the event and
the definitions `process_sip_event` holds while others register; a recorder is `idle`, about
to `hash` or about to `record`, and may die in between or after the commit. The table of
features is abstracted to what each event's vector says, since SipIngest has how it fills.
`answered` (what callers were told) and `seen` (versions active during a call) are histories.

**Credentials** has the migration at `issue`, `revoke`, `cloud` or `ai`, one step per
transaction and per file replacement, and `Crash` between any two; a token is its place in
the table. One migration runs at a time and nobody edits the two files while it does: the
script is started by hand. Between migrations, killed ones included, the user puts new keys
into the file of the AI services (`PutAiKey`) or into this service's .env (`PutCloudKey`).
The administrator's tokens and callers interleave. `latest`, `shadowed`, `settled` and
`aside` are histories.

**MarketHours** is the session clock in half minutes, so that a request may start within
one; day 0 is a 1st of March, and the weekday of it (`FirstWeekday`) stands for the year.
**MarketHistory** is a request, its pages and its coverage. The provider is external: it cuts
its rows into pages as it likes, repeats none, has a row in every page but the last, and ends
only after all it held when the request was made. Both the archive's growth and failures of a
page interleave. `before` is a history.

## 3. The runs

| run | what it asks | distinct states | bounds |
|---|---|---|---|
| `sip_owner` | a quiet registry keeps its connection; wanted symbols are streamed or refused, unwanted ones dropped | 204 206 | 2 symbols, one malformed, 1 strategy, 2 principals, lease <= 2 ticks, 1 crash or deadline |
| `readiness` | row, stream and windows agree; what a 200 means | 1 967 728 | 2 symbols, request and record up to 1 tick late, ReadyTicks 1 |
| `market_pipeline` | owner and clients together: refinement of ReliableFeed, honest cursors, what a replay leaves out, arrival, quotes in order at the client | 326 736 | 4 events, pages of 2, 2 failures, 1 break of the owner, 1 client |
| `process_lock` | refinement of Mutex, marks, the lock comes back | 134 | 2 threads in one process, 1 in another |
| `sip_ingest` | sampling, provenance, as-of times, activation | 606 096 | 6 events, 2 versions of one strategy, 2 breaks |
| `paper_orders` | 200, duplicates, repetition | 58 888 | 2 threads, 2 ids, 2 faults |
| `strategy_catalog` | signals can be recomputed, expressions never decide on what is missing, artifacts and answers | 33 321 | 2 strategies, one with 2 versions, 2 events, 2 recorders, 251 definitions, 2 times |
| `credentials` | keys, fresh and old tokens, scopes, the way back after a lock-out | 818 776 | 1 key with 3 values, 2 principals, 2 strategies, 1 caller, 1 rotation, 1 crash, 1 token by hand |
| `market_history` | gaps are real, holes are reported | 37 637 | 2 symbols, 5 rows, the weekend on which summer time begins |
| `malformed_symbol`, `blind_owner`, `replay_cursor` | a sentence of the documentation each | counterexamples | |

What the properties say is written above each in its module. Why the bounds suffice:

* *Owner.* A symbol that a lease and a strategy may ask for in turn gives every change of
  the union; the other is the one the contract rejects. Two leases of one symbol let one
  expire behind the other. A lease of two ticks lives through a refresh and expires in a
  window. The provider may carry both, one or none of two symbols. One crash leaves a stale
  row, and further ones leave the same. The safety
  theorems do not depend on the bounds at all.
* *Readiness.* With one tick of lateness and a window of one tick a row is fresh, just
  fresh and too old. `MCView` drops the histories no property of that run reads.
* *Pipeline.* Quotes of three seconds, the first two stored in either order; a bar of another
  symbol that is stored behind them and carries an earlier time, so that a replay may be
  overtaken; a page smaller than what is stored. After the one break the owner sends what is
  left. No strategies, as derived rows do not reach the ledger. Clients share only the ledger,
  so one is enough. `replay_cursor` has the API alone and a bar of the client's own symbol.
* *Ingest.* Two quotes of a second in either order, one of another symbol, two bars (for
  a return), a quote between them; two breaks give a failure after a restart.
* *Lock.* A contender in the process and one outside it; kills and failures at any time,
  any number of them.
* *Orders.* Two threads race for one id while the other id shows that it is left alone;
  two faults lose both an answer and its repetition.
* *Catalog.* Two versions of a strategy replace each other in each gap of an evaluation and
  of a recording; two recorders race for one identity. The trees are three families: every
  binary operator between names and constants under a comparison, chains of two
  comparisons, and junctions with negations; facts are 2, true or missing. `MCBound` looks at
  evaluators, recorders and the families of trees in separate behaviours, as they share
  only `active` and `rules`, and recorders are interchangeable.
* *Tokens.* A crash after every step, then a full second migration, then a rotation, with a
  token by hand, which may be for any principal and scope, at any time. Three values of a key
  are an old one, one put over it in either file, and one that mends a loss. Of the three
  principals two tell one that was dealt with from one that is still to come.
* *History.* Two minutes before the Friday's close and two after the Monday's open, an hour
  earlier by UTC; requests that start or end within a minute, that cover the weekend alone,
  and one whose end is not after its start; timestamps that cannot be read. What holds for
  other years and requests is a theorem, and so is that `MissingIntervals` returns the maximal
  runs, which an `ASSUME` checks over all subsets of seven minutes first.

`MaxLease`, `MaxDelay`, `MaxTime`, `MaxKeys`, `MaxRotations`, `MaxExtras`, `MaxAge` (ages
beyond every reader's interest are one age), `MaxCrashes`, `MaxFailures`,
`MaxBreaks` and `MaxFaults` are the model's bounds, the last four of these as guards on
failures only. No run switches off the deadlock check.

### Fairness

* *Owner.* Weak fairness of the process's own steps and of the clock: the scheduler.
  Strong fairness of `SocketOpens`, `SubscribeAnswered` and `ConnectionClosed`:
  `connect()` retries for ever and the provider answers what is repeated for ever, though not
  always with what was asked for: `RecordableIsStreamed` ends at a refusal (`Declined`), which
  the owner takes no notice of. None for writers, crashes, events or failures. The restart
  after an exit is the loop of `scripts/run_local_sip_owner.ps1`.
* *Delivery, Pipeline.* Weak fairness per client of the serving thread and of a client that comes
  back and reads. None for new events and failures, which are bounded in number.
* *Lock.* Weak fairness of a thread that has begun to enter, and of the collection of
  dropped handles. Nobody has to enter or to leave.
* *Orders.* Weak fairness of threads, strong fairness of a client that repeats what is
  not confirmed. The gate may close; the property says so.
* *Tokens.* Weak fairness of a migration that runs, and of starting one again that did not
  come to its end. Nothing forces rotations.
* *Ingest, Readiness, Catalog, History.* Only safety, so none.

### Where code and documentation part

1. `malformed_symbol`: a strategy may be registered with a symbol that the runtime
   contract rejects. `record_market_runtime(CONNECTING)` stands outside the `try`, so the
   owner exits on every restart and nobody's symbols are streamed.
   Where the union can be recorded, `RecordableIsStreamed` holds.
2. `blind_owner`: `connected_at_utc` is reset only when the *next* socket opens. An owner
   that cannot reconnect goes on recording CONNECTED, and /ready stays 200.
3. `replay_cursor`: `start_after_sequence` is the last sequence with an earlier `ts_utc`,
   and a bar with an earlier `ts_utc` is stored after quotes of its minute, so the cursor
   can lie behind events of the replay window.
Each violated property quotes its sentence; `PROJECT.json` has the lines. Without a run of
their own:

* The answer to the subscribe message is discarded (market_data.py:160), so an owner whose
  subscription was refused records CONNECTED, and /ready answers 200 for symbols that are
  never streamed; README.md says that /ready proves the owner ready. `ReadyOnlyWhenAnswered`
  claims no more than what is left.
* A `close()` that fails in the handler of `__enter__`, as the write before it did, skips
  `_held.discard`: that process answers "process lock is already held" for ever, though the
  file's lock is free. `MarkHasOneThread` excepts exactly these marks.
* A key that is put into .env, where .env.example and docs/API.md:785 have it, over an older
  copy in the file of the AI services, as a migration killed between its two replacements
  leaves there, is overwritten with the old one by the next migration (line 75 prefers the
  copy). `KeysNeverLost` excepts exactly these keys (`shadowed`).
* A window that returns for a change of the union drops received events that its generator
  has not yielded, minute bars included (`LeaveWindow` of SipIngest); README.md:91 says that
  the ledger keeps every minute bar.
* Bar features carry the start of the minute as `asof_utc`, so the vector as of a time inside
  the minute changes when the bar arrives.
* `record_artifact` compares the whole artifact, `created_at_utc` included, so a recording
  that is repeated because its answer was lost is refused. No document promises more.

## 4. The proofs

All hold for every value of the constants that satisfies the modules' `ASSUME`s (bounds
are naturals, tables have their types, symbol sets are not empty, expressions are trees,
the provider sends one bar per symbol and minute), which TLC evaluates for the instances.
Every type invariant is proved as well.

| theorem | property | argument |
|---|---|---|
| `RowAlwaysNamesTheStream`, `ConnectedRowIsAlwaysThisWindow` | the two invariants of the owner | `SipIInv` |
| `QuietRegistryAlwaysKeepsConnection` | why a window returns | `SipIInv`, `QuietInv` |
| `ReadyIsAnswered`, `DeadOwnerIsAlwaysNoticed` | action properties of /ready | `ReadyIInv` |
| `CursorIsAlwaysHonest`, `AlwaysFirstSeenInOrder`, `DeliveryImplementsFeed` | delivery; the last is the refinement's initial states and steps | `DeliveryIInv` |
| `OnlyOvertakenAreEverLeftOut` | a replay leaves out only what an event of an earlier time has overtaken: the extent of finding 3 | `StartInv` |
| `NeverAtAStandstill` | an unfinished client always has a step to take | `DeliveryIInv`, `PageIsNotEmpty` |
| `PipelineComposes` | what is proved of owner or clients alone holds of both together | each one's steps are stutters or allowed steps of the other |
| `QuotesAlwaysReachInOrder` | quotes at the client, through restarts, replays and lost connections | the two above and `QuotesAlwaysSampledInOrder` |
| `LockImplementsMutex`, `MarkAlwaysHasOneThread`, `LockAlwaysHasAHolder` | the lock | `LockIInv` |
| `QuotesAlwaysSampledInOrder`, `DerivedIsAlwaysStored`, `SignalsAlwaysFollowActivation` | ingest | `IngestIInv` |
| `ReturnsAlwaysSpanTime`, `SignalsAlwaysFit`, `StoredIsAlwaysDerived` | features, vectors, signals | `IngestIInv`, `FitInv` |
| `ConfirmedIsAlwaysPlaced`, `DuplicateIsNeverAFailure` | orders | `PaperIInv` |
| `SignalsAlwaysReproducible`, `AnswersAlwaysStored`, `EveryArtifactOfItsCall` | catalog | `CatalogInv` |
| `DecisionsAreAlwaysStable` | any tree decides the same whether or not missing facts become known | `NodeStable`, induction over the nodes |
| `KeysAreNeverLost` | migration | `KeysInv` |
| `MigratedTokensAlwaysWork` | migration | `TokensInv` |
| `OnlyDocumentedAccessEver` | scopes | a property of `Authorizes` and the type invariant |
| `ExpectedMinutesAre` | the expected minutes of a request are the whole minutes in it that the session clock calls regular | `OffsetsAgree`, `WindowIsRegular` |
| `MissingIntervalsAre` | the loop returns the maximal runs of any finite set of minutes, in order, each once | `Continues`, induction over its turns |
| `GapsAreAlwaysReal`, `HolesAreAlwaysReported` | coverage, minutes and intervals | `CoverageInv`, `MissingIntervalsAre` |
| `...TypeCorrect`, `...AlwaysTyped` (nine) | the type invariants | the same |

Why the invariants of the runs are not inductive, and what is added:

* `SipIInv`. That the row names the stream says nothing about the window that has just
  opened. `MemoryInv` adds what the process's memory knows: a socket belongs to a window,
  the row already has the window's symbols when it opens, a set `connected_at` or stream
  timestamp means that the provider was asked for these symbols and answered, and only a
  subscribed socket carries any.
* `QuietInv` says what the owner has read, as long as nothing moved: the leases as of an
  earlier clock reading are those of now. A tick ages reading and lease alike, and a lease
  that is replaced changes the earlier union only if it changes today's.
* `ReadyIInv` adds `AgeInv`: a living owner has `deadFor = 0`, and a dead one has been
  dead for no longer than its last row is old. So a fresh row excludes a long death.
* `DeliveryIInv` describes what is in flight. `page`, `wire` and `got` have no hole above
  cursor, saved cursor and start, and the cursors are in that order. It also carries the
  refinement, since a step that processes events must add a whole prefix of the claim.
  `StartInv` adds that a start cursor is the place of an event of an earlier time, or 0.
* `LockIInv` adds who holds the file when a thread is past the locking call, and that
  every holder is on a path that gives it back. A mark that a failed close left behind keeps
  every thread of its process out, so it stays without a thread until the process ends.
* `IngestIInv` adds `SampleInv`: for each symbol either `sampled_seconds` knows the last
  stored second, or (after a restart, when it knows nothing) everything still to come is
  later. `DerivedInv` and `ActiveInv` say what a job in progress holds in memory.
* `FitInv` adds that an event comes once and has no features before its turn (`FreshInv`), so
  that the base of a return is another bar; what is already put (`PutInv`); and that the
  vector in hand fits the event (`VectorInv`). INSERT OR IGNORE drops a feature only if the
  event's own is there: the lemma `StoredKeys`, from the sampling of quotes and one bar a
  minute. For `StoredIsDerived` each break is shown to cost the event in progress at most.
* `CatalogInv` adds `HeldInv` (what an evaluator holds is what the table says, since versions
  never change) and `CallInv` (a recorder's version was active during its call, its file is
  of its strategy).
* `KeysInv` says where each key that is not shadowed is at each stage, and that what the
  migration read of it is still the newest; `TokensInv` what the migration has issued
  and revoked so far (`ProgressInv`) and which tokens can still be valid (`OnlyInv`).
* `CoverageInv` says that the rows in hand are of the archive and the request, and that a
  complete answer has all of `before`. The rest is about the clock: summer time begins and
  ends on Sundays, so on a weekday both derivations give the same offset, whatever the year.
* `PaperIInv` is the type invariant, which includes that a closed gate has no request at
  work, and `ConfirmedIsPlaced`.

The proof modules have one lemma per action or group of alike actions, and the theorem
combines them. `EventDeliveryProofs` and `SipIngestProofs` first prove what the queries
and sequence operators return.

**Assumptions about the environment.** `SipIngest.Restart`: after the 5 s pause of the
restart loop the provider sends only quotes of later seconds than were stored. A replay of
old quotes after a restart would be sampled a second time. `SipIngest.OneBarAMinute`:
corrections of a bar come on a channel to which the owner does not subscribe.

**Induction over data.** What a recursion computes is proved from a least counterexample.
`LeastNumber` (every set of naturals has a least member, from the well-founded order of finite
subsets) gives the first node of a tree whose value is not defined by the nodes before it
(`ValuesAre`) or changes although it was no error (`ValuesStable`), and the first turn of the
loop of `_missing_intervals` after which its invariant fails (`RunsAre`); that the nodes or
turns before it are fine then refutes it. The same order gives `PageIsNotEmpty` the first event
behind a cursor. Trees are what `ast.parse` returns: operands before their operators, as many as
the operator takes (`IsTree`, an assumption on the definitions of the catalog). The proof also
needs every `CASE` to have disjoint conditions: with overlapping ones the choice is not a
function of the operands.

**Only model-checked.** Liveness under fairness (`RecordableIsStreamed`,
`UnwantedIsDropped`, `EverythingArrives`, `LockIsReturned`, `RetryIsConfirmed`,
`AccessComesBack`), which needs ENABLED; of the third and the fourth the safety half is proved
(`NeverAtAStandstill`, `LockAlwaysHasAHolder`). All other properties of the passing runs are
proved, those of `market_pipeline` by `PipelineComposes`.

## 5. Not modelled

* *Market status.* It only reads: registry, ledger statistics and runtime row, the reads that
  Readiness and EventLedger have one by one. Its thresholds per symbol are a table over the
  answer. That owner block and verdict of one answer may rest on different rows contradicts
  no document.
* *Python sandbox*: any decision or none (`Decisions`); the rest is a docker command line. The
  owner constructs the platform without a runner.
* *Expressions*: parsing, the list of allowed nodes, strings, floats and their rounding.
* *HTTP shell, start and install scripts*: argument parsing and framing; the restart loop is
  in SipOwner.
* *Inside modelled components*: prices and sizes, JSON and HTTP formats, validation of request
  bodies, URIs and identifiers of artifacts, other lines of the environment files, reads that
  change nothing (list_artifacts, list_signals, account, positions, open orders), and a broker
  answer that cannot be decoded.

## 6. Plan

Done, in this order, the system's main path first: MarketRegistry, SipOwner, Readiness and
their proofs; EventLedger, EventDelivery and the refinement; ProcessLock and Mutex;
SipIngest; PaperOrders; Expressions and StrategyCatalog; Credentials; MarketHours and
MarketHistory; the proofs of the remaining safety properties of owner and ingest; the
composition MarketPipeline; the proofs about expressions and intervals.

Left:

1. **Composition of owner and lock**: two start scripts, one owner. SipOwner takes from
   `LockImplementsMutex` that one process runs at a time.
2. **A second migration** beside the first, and edits of the files under its hands, once it is
   decided what the script promises then.
3. **Retries of a recording**, once it is decided whether `created_at_utc` is part of an
   artifact's identity.
4. **A refinement for Credentials**: a token is valid from its issue to its revocation.
