# Verification of the paper trading workstation

TLA+ models of the state-changing core of AI-CryptoFutures-TCP: the paper
exchange, its risk engine and portfolio, the venue order reconciler, the command
gate, the command ledger and the audit recorder, the strategy sessions with the
review of their recommendations, and market replay with its backtests. TLC checks the
models on small instances; TLAPS proves every invariant and action property that the
passing runs check, and both refinements, of the audit log and of the exchange with
atomic handlers, for every value of the constants (some under a named hypothesis, see
"Proofs"). Liveness stays with TLC.

Run a model with `tlc -workers 2 -config X.cfg M` and a proof with `tlapm M.tla`;
`PROJECT.json` pairs the configurations with the modules, maps every definition to
its source lines, and lists hazards, findings and mutants.

## The system

| Component | State | Operations | Interactions |
|---|---|---|---|
| Paper exchange (`services/paper_exchange/exchange.py`) | account, orders, reconciliation events, halted flag, risk state | preview, submit, process, cancel, expire, reset, panic halt / cancel / flatten | calls policy, risk and accounting; writes four JSON files at the end of each handler |
| Maker-first policy (`services/execution/policy.py`), paper schemas | none | validate intent, expected edge, queue model | called by preview |
| Paper risk engine (`services/risk/paper.py`) | the risk state is held by the exchange | veto an intent | reads account and exposures |
| Portfolio accounting (`services/portfolio/accounting.py`) | hedge books and one wallet, held by the exchange | apply a fill, exposures | called by fills and by risk |
| Order reconciler (`services/execution/reconciliation.py`) | last accepted status per order id | apply an update | fed by a user data stream; no caller in the API yet |
| Runtime config, command catalog, command gate | fixed by the environment | evaluate a command | called by every gated endpoint |
| Command ledger (`services/audit/ledger.py`) | list of entries and an index by idempotency key, in memory | received, decision | used by `POST /api/v1/commands/validate` |
| Audit recorder (`services/audit/records.py`) | records in memory, `records.jsonl`, `latest.json` | record a decision, reload | used by gate and validation endpoints |
| API servers (`apps/api/server.py`, `fastapi_app.py`) | module-level singletons of the above | HTTP handlers | `ThreadingHTTPServer` or a thread pool, no locks |
| Strategy sessions (`services/strategy/sessions.py`) | sessions, recommendations, audit rows, in memory | start, pause latest, stop latest, recommendations (may start one) | asks a policy over the replay fixture; called by ungated endpoints |
| Model governance (`services/model_service/governance.py`) | decision records, seeded by every process, and a file | add a decision, preview a recommendation | judges the recommendations of the strategy sessions; no endpoint adds decisions yet |
| Replay and backtesting (`services/market_data/replay.py`, `services/backtesting/engine.py`) | the operator's replay file; latest report and report history | load, compute features, report, store | called by two endpoints and by the strategy policies |
| Binance order translation (`libs/binance_connector/usdm.py`) | none | check an intent and translate it | called by the testnet lane |
| Exchange state store, connector client, secrets, relational storage, web client | see "Not modelled" | | |

What is hard here: handlers run on several threads over shared lists without a
lock and number things by `len() + 1`; `process_open_orders` works on a snapshot; a
restart forgets the exchange and the ledger but reloads the audit log; the files
of one state are written one after the other; panic controls act on different
parts of the state; updates of a user data stream arrive late, twice or never;
client retries reuse an idempotency key; whether a command is accepted depends on
a product of seven configuration fields and 44 catalog rows; ids that start again
with every process outlive it in files and reviews.

What makes each part correct:

- exchange: an order's status tells its fills; closed orders stay closed; ids are
  unique; the log, the account and the orders tell the same story; a panic halt is
  not undone by anything but a restart; files are current between requests;
- risk: limits hold for what can be filled, not only for what is filled;
- exchange on threads: whatever is lost between handlers, an order stays sound in
  itself, and a halted, cancelled and drained exchange stays stopped;
- accounting: every fill counts exactly once; no negative book;
- reconciler: the knowledge of an order does not depend on delivery;
- gate: nothing is accepted by a half-configured live tuple; approvals alone
  authorise nothing; simulation and live permission exclude each other;
- ledger and audit: decided entries have a durable record with that decision,
  effects follow their record, received commands are decided;
- strategy and governance: what is listed has its audit row, a session that was
  stopped does not run again, an id is only approved by a review made in this process;
- replay and backtests: both groupings by timestamp agree, no feature looks ahead,
  stored reports describe rows that were permitted.

## Modules

| Module | Models | Kind |
|---|---|---|
| `PaperTrading` | intents, quotes, orders, policy, edge, queue model, what a fill makes of an order | operators |
| `PortfolioAccounting` | hedge books, fee debit, exposures | operators |
| `PaperRisk` | risk limits and state, the veto | operators |
| `PaperExchange` | the exchange's handlers, persistence, restart | state machine |
| `PaperExchangeLog` | replays of the reconciliation log, the reference for orders and account | properties |
| `PaperExchangeThreads` | the same handlers as steps of threads without a lock, the state files one by one | state machine |
| `PaperExchangeSerial` | the steps on one thread, shown to implement `PaperExchange` | refinement |
| `MCPaperMarket`, `MCPaperExchange`, `MCPaperThreads`, `MCPaperSerial` | instances | TLC |
| `ListLemmas` | indexed lists, first and last places, counts, induction, what a fold returns | lemmas |
| `PaperExchange_proofs` | inductive invariant and theorems, the log replays included | TLAPS |
| `PaperExchangeThreads_proofs` | the same on threads; on one thread, the refinement of `PaperExchange` | TLAPS |
| `OrderReconciler`, `MCOrderReconciler`, `OrderReconciler_proofs` | venue, stream and reconciler | state machine, TLC, TLAPS |
| `CommandGate` | configuration, catalog, `evaluate_command` | operators |
| `CommandValidation`, `MCCommandValidation`, `CommandValidation_proofs` | verdicts over every configuration; the Binance translation of an order | state machine, TLC, TLAPS |
| `AuditLog` | what the recorder promises: an append-only log that a restart serves | abstract specification |
| `CommandApi`, `MCCommandApi`, `CommandApi_proofs` | handlers, ledger, audit recorder, restart | state machine, TLC, TLAPS |
| `StrategySessions` | the session manager on concurrent threads | state machine |
| `ModelGovernance` | decision records and the preview they allow | operators |
| `StrategyReview`, `MCStrategyReview`, `StrategyReview_proofs` | the session manager composed with the governance store | composition, TLC, TLAPS |
| `ReplayFeatures` | replay rows, features, the synthetic book | operators |
| `Backtesting`, `MCBacktesting`, `Backtesting_proofs` | backtest requests on threads and their two files | state machine, TLC, TLAPS |

Refinements: `PaperExchangeSerial` implements `PaperExchange` (`ImplementsPaperExchange`)
and `CommandApi` implements `AuditLog` (`ImplementsAuditLog`).

### PaperExchange

`account`, `orders`, `events`, `halted`, `riskState` are the attributes of
`InMemoryPaperExchange`; `snapshot` and `cursor` are the loop of
`process_open_orders`; `disk` is what `_persist_state` wrote; `age` is the age of the
account's freshness stamps, which only `reset` and `panic_flatten_positions` renew.
Decimals are integers: quantities in half lots, so that the half fill is exact,
prices in ticks, rates in tenths of a basis point; the queue probability is a
percentage multiplied by the sum of the two sizes, so no division is needed.
A handler is one action, with its reconciliation event and its persist; a pass is
one action per order. `SubmitRejected` covers both early returns of `submit_order`.
Requests that change nothing (preview, an unknown id, expiring a closed order) are
stuttering steps. `Restart` is the process dying at any point: the new one starts
from the boot state and reads nothing back.

Handlers do not interleave with one another in this module, and the files are one:
it is what the exchange promises one request at a time.

### PaperExchangeThreads and PaperExchangeSerial

`thread[t]` is where a handler is and what it has read: the list it is about to
assign, the account it is about to assign, its snapshot and cursor. There is a step
for each access to a shared attribute that another thread can come before or after;
decisions and updates are `PaperExchange`'s own operators, applied to what the thread
has read. What is one step: a list comprehension or loop that reads `self._orders`
into a new list, an append (CPython does not switch threads between looking up the
list and appending to it), and an event's number with its append (the number is only
part of an id that nothing reads). Fill ids are left out for the same reason, and
freshness: a handler reads the clock once, and `PaperExchange` has the lapses.
`_persist_state` is `BeginSave` and one `WriteFile` per file; the payload of the next
file is read in the step that writes the one before, which is sound because whatever
another thread does between the two could as well come before the write: no other
step reads the files. Two handlers may write the same file in any order.
`snapshots.jsonl` repeats part of `latest.json` and is left out.

`Restart` is the process dying at any step. With two threads almost every property of
`PaperExchange` fails (lost fills, lost orders, repeated ids); `OrdersSound` and
`StopIsFinal` are what survives, and `TerminalOnce` is the loss that contradicts a
document. With one thread nothing is lost: `PaperExchangeSerial` adds two history
variables, the memory when the handler was last between two orders or requests
(`settled`) and when its last file was written (`saved`), and with them every
behaviour, crashes in the middle included, is one of `PaperExchange`.

### OrderReconciler

The venue is external and modelled from the statuses the code knows: an order is
accepted or rejected, partly filled some times, and closed once. Each change is
sent as one update. Sent updates are a set and delivery leaves it alone, so an
update can be delivered never, late, or again, in any order. `accepted` is a history
of what `apply` accepted, for the properties.

### CommandGate and CommandValidation

`RuntimeConfig` is the product of the seven configuration fields and the presence
of read-only credentials; `Catalog` is the set of the 44 rows of the command catalog with
the fields `evaluate_command` reads, and `CommandDefinition` finds a row by its type.
`CommandValidation` starts with any configuration and evaluates any command as its callers do: without a fee model
at the validation endpoint, with one behind `_command_gate`, the live read-only
account and the testnet lane. A testnet order is
evaluated by the gate and translated by `validate_usdm_order_payload`, separately: the
payload is in the answer even when the gate rejects, which the properties look at.

### CommandApi

A handler of `POST /api/v1/commands/validate` is: `Receive` (look the key up),
`NumberEntry`, `EnterEntry`, `Evaluate` (with the record number read), `AppendRecord`,
`AppendLog`, `WriteLatest`, `Decide`. A gated endpoint starts at `Evaluate` and ends in
`Perform` or, when the body is not an order, `MalformedIntent`. Ungated endpoints take
effect at once. `Restart` may happen at any step and reloads the audit log.
A file append or write is one step. `AuditLog` is the recorder seen from outside:
records are appended in memory, reach the log once, and are reloaded from it. `performed` counts effects: what the endpoint
calls, not what comes of it.

### StrategySessions

`start_session` is `StartSession` (or `ImplicitStart`, from `recommendations()`),
`NewSession` (fee check and id), `AppendSession`, `AuditStart`, and for a running
session `PolicyRecommendation` (the audit row), `NumberRecommendation` and
`AppendRecommendation`; pause and stop are
`ReadLatest`, `WriteLatest`, `AuditUpdate`. `FeeLapse` is the fee policies' stamps
running out; they are never renewed. A policy is the set of actions it can answer.

`StrategyReview` adds the governance store of the same process: reviewers submit decision
records, complete ones are added, and a restart starts with the seed decision and
writes it over the file. A record may name any recommendation id: `add_decision` does
not ask whether it has been made, and the seed approves the first one of every process.
`ApprovalsFollowReviews` therefore does not say that an approval is of a recommendation
that exists; it says that approvals come from complete records added in this process, one
id each, are never taken back while it lives, and end with it. `add_decision` has no endpoint yet; the model
lets it be called at any time, in one step (its callers would be another thread's
handlers, but it appends and writes only what is its own).

### ReplayFeatures and Backtesting

`ReplayFeatures` computes the feature rows of a sequence of snapshots as the two loops
of `generate_microstructure_features` do, as folds, and the list of synthetic books as
`replay_payload` does, with its own grouping; quotients are pairs of integers. Parsing
of a row is left out: a row is what `_snapshot_from_mapping` returns. In `Backtesting`
a replay file grows by rows from a small set, and requests on several threads read it
whole, compute their report in one step (nothing is shared before the files) and write
`latest_report.json`, then `reports.jsonl`. A request with a forbidden symbol, an empty
book or a BTC leg without a price ends in an exception.

## Runs

Passing runs:

| Run | Instance | Shows |
|---|---|---|
| `paper_exchange` | 3 symbols (1 not executable), 4 good and 12 bad intents, 2 orders, 6 events; ~630,000 states | `OrderLifecycle`, `BooksNonNegative`, `LogReplaysOrders`, `LogReplaysAccount` in every state; `OrdersMonotone`, `PanicVeto`, `PanicSettles`, `PassProgress`, `StaleUntilFlat` for every step |
| `paper_threads` | 2 threads, an intent that fills by halves, a state store, 4 requests; ~2,430,000 states | `OrdersSound`, `StopIsFinal` in every interleaving |
| `paper_serial` | 1 thread, 4 intents, 4 requests; ~182,000 states | `ImplementsPaperExchange`, `FilesCurrent` for every request that ends; `FilesCatchUp` under fairness |
| `order_reconciler` | 2 orders, 2 partial fills each; ~131,000 states | `KnowsFurthest`, `AcceptedClimb` whatever the stream does |
| `command_validation` | all 17,640 configurations and 44 commands, 15 order intents; ~805,000 states | `SimulationNeverLive`, `LiveSealed`, `ApprovalAuthorisesNothing`, `PayloadFitsPaper` |
| `command_api_serial` | 1 thread, 3 configurations, 2 keys, 3 records; ~107,000 states | `AuditLinked`, `KeyNamesEntry`, `LatestBehindLog`, and `ReceivedIsDecided` under fairness |
| `command_api_threads` | 2 threads, 2 configurations; ~390,000 states | `DecisionsDurable`, `GatedEffectsLogged` and `ImplementsAuditLog` survive the races |
| `strategy_review` | 2 threads, 1 added decision about either of two ids; ~746,000 states | `StatusAudited`, `RecommendationsAudited` in every interleaving; `NeverResumes`, `ApprovalsFollowReviews` for every step |
| `backtests` | 2 threads, 2 requests, files of up to 3 rows of 8 kinds; ~91,000 states | `SyntheticConsistent`, `PricesInside`, `ReportsExplained`; `NoLookahead` for every row added |

Bounds. Two orders are enough for one order's handler to disturb another, and six
events for an order filled in halves, a second order, a cancel and a panic control;
`Room` keeps space for the events that open orders may still add, so a pass is never
cut short by the bound. The intents include one for each check of `preview_order`,
both fill regimes (inside the spread at once, at the touch by halves), and a close
larger than the position. `MaxAge = 0` makes every stamp lapse after one tick. In the
reconciler two partial fills make one repeated status. In the command runs two
records make one race; three leave room for a retry and a restart. On two threads
four requests make the race of `TerminalOnce` (submit, pass, expire) with one to
spare, and let a submission, a pass, a halt and a panic cancel overlap (`StopIsFinal`),
each saving its four files between the other thread's steps. In `paper_serial` four
requests fill an order in halves and save between the passes. Three rows are two legs and a second row that
replaces one, or a previous row between two timestamps; two requests on two threads
interleave their four writes. One added decision can be complete or fail any check, and name the
seed's recommendation or one that may not have been made. Three sessions
and six rows let two be started at once and one be controlled and overwritten by the
other thread.

Runs that show a disagreement between the code and what the repository says of it
(TLC finds the violation; `PROJECT.json` quotes the lines):

| Run | Property | What happens |
|---|---|---|
| `paper_exposure` | `SymbolExposureCapped` | orders accepted while others rest exceed the symbol limit once filled |
| `paper_threads_race` | `TerminalOnce` | an order filled while an expiry is under way is overwritten as expired |
| `reconciler_partial_fills` | `PartialFillsKept` | a second partial fill is dropped as a duplicate |

## Fairness

`CommandApi`'s `FairSpec` has weak fairness of each thread's `HandlerStep`: a handler
takes no lock and waits for no other handler, so its thread runs to its end unless
the process dies. No client request, ungated call or restart is fair. `SerialSpec` has
the same for the paper exchange's one thread: a called handler goes on, through a pass
and its four files, unless the server dies. The other
specifications have no fairness. Nothing in the repository calls
`process_open_orders` on its own (the web client has a button for it), so "every
order is eventually filled" is not claimed; `PassProgress` says what each pass
achieves instead.

## Proofs

Every theorem is stated of the module's specification and holds for all values of its
constants that satisfy the named assumptions of the modules. Those only give the
constants their types, with these exceptions: the sets of threads are finite
(`ApiAssumption`, `SessionAssumption`: a server has finitely many, and the proofs count
them), a draft decision is a decision (`ReviewAssumption`), `MarketAssumption` (positive
steps, some depth) and `HalfLotAssumption` (a lot is an even number of the model's
units, so halving an aligned quantity is exact as in Decimal), which keep the integer
arithmetic faithful to the code's. TLC evaluates all of them on every run.

`ListLemmas` holds what several proofs need: what appending and overwriting do to an
indexed list, the smallest index that `SelectInSeq` returns and the largest one that
`SelectLastInSeq` returns, what moving one element does to a count. It also has what the
proofs about folds rest on. The induction theorems of the library take an operator as a
parameter, which the provers cannot instantiate; `Induction` is stated of a set of
numbers instead (a set with 0 and every successor has all of them) and follows from the
least number of its complement, which the theorems about well-founded orderings give.
`FoldSolution` says that the recursion a fold is made of has exactly one solution, so a
proof may name the partial results of a fold as a function (a trace) and use `Induction`
on it. What a fill makes of an order and of the books is proved in both modules about the
paper exchange, so that each can be read by itself.

`PaperExchange_proofs`, for any symbols, filters, quotes, intents, fees, limits and bounds:

- `InductiveInvariant`: `IInv`, which joins `TypeOK`, `OrderLifecycle`,
  `BooksNonNegative` and the snapshot's agreement with the orders still to be visited
  (`SnapshotCurrent`). `OrderLifecycle` alone is not inductive: `ProcessFill` computes
  from the snapshot's copy and overwrites the order with it, so the copy must be
  current, which in turn needs the ids to be positions;
- `TypeCorrect`, `LifecycleCorrect`, `BooksCorrect`: its parts, the invariants of the
  run for all instances; `DiskCorrect`, that the exchange with atomic handlers has current files
  between requests (`DiskCurrent`; the run `paper_serial` checks the code's four files
  instead), by an induction of its own over `TypeOK`;
- `MonotoneCorrect`, `PanicVetoCorrect`, `PanicSettlesCorrect`: the action properties,
  from the same invariant. The panic flag is cleared by the action `Restart` only, which
  `PanicVeto` names: a reset leaves the same memory behind as a boot and is not excused;
  `StaleUntilFlatCorrect`: once the account's stamps have
  lapsed, nothing but a new account reopens trading;
- `LogReplaysOrdersCorrect`: the fold of the log over an id gives the status the list has,
  or none (`StatusesLogged`, by the trace of the fold: an event for another id, or one
  that is no status, leaves the last result alone);
- `LogReplaysAccountCorrect`: the fold gives the account (`AccountLogged`). It replays the
  n-th fill of an order as the n-th entry of that order's fills, so it also needs that every
  order has as many fills as the log has fill events for it (`FillsLogged`), and that a
  later fill does not change what the earlier ones were (`KeepsFills`);
- `PassProgressCorrect`: `PassInv` says that every listed order passed the filters and what
  a pass has visited has moved. Filters make half a quantity at least one unit. The theorem
  has the hypothesis `BalancedQuotes`: on an executable symbol's book, the two
  sizes differ by at most 7/15 of their sum. An order behind the touch then
  has a fill probability of at least 25%. On a book that leans further it may have less,
  and a pass does nothing with it. The quotes of `_default_quotes`, the only ones the
  exchange has, lean by a twentieth at most, and so do the ones of the runs.

`PaperExchangeThreads_proofs`, for any set of threads, any interleaving and a server that
dies at any step:

- `HandlersSound`: `TInv`. `OrdersSound` is not inductive, because most of what is put
  into the list of orders was read or computed some steps before. `TInv` says of every
  handler, by its place, what it carries: the orders of its snapshot, of the list it is
  about to assign and of the fill it is about to make are sound, an order it is about to
  write as expired or cancelled is closed, what it has accepted had passed the preview,
  and the step after a fill or a log entry is one the code goes on to;
- `TypeCorrect`, `OrdersSoundCorrect`: what it says of the memory and the files;
- `StopIsFinalCorrect`: the action property. Every step of a drained exchange but a restart leaves every
  handler drained (`Drains`, one lemma per kind of handler) and the list closed.

And for one thread and a state store (`OneThread`, a hypothesis of these theorems: with two
threads they are false, and without a store there are no files):

- `SerialHandlersCorrect`: `SInv`. When the handler is at rest, `settled` is the memory
  (`View`). At any other of its places, what the memory will be once it comes to rest is
  determined by what it has read, and is something that one handler of `PaperExchange`
  makes of `settled` (`SerialOK`, and `Leads` with one definition per handler). Ids are
  places in the list, and the finished requests leave at most one order each and an event
  for each of these orders (`SettledBound`), so `MaxOrders` and `MaxEvents`, which guard
  the actions of `PaperExchange`, are never reached;
- `SerialImplements`: the specification of the steps implements `PaperExchange`, by the mapping of its
  variables to the fields of `settled` and of its `disk` to `saved`. The steps that land
  are the last file of a request, the log entry of a fill, the order of a pass that is
  skipped, the start of a pass and the restart; every other step stutters;
- `FilesCurrentCorrect`: a handler that saves carries the payload of the present memory
  for the next file, and the files before it have theirs (`SavedSoFar`), so that all four
  match when it ends; the other steps neither end a request nor write.

`OrderReconciler_proofs`: `KnowsFurthest` and `AcceptedClimb` for any set of orders whose
ids differ (`IdsDistinct`, a hypothesis of the theorems: the table is keyed by the order
id alone, so orders of two venues with the same id would share an entry). The invariant
adds two facts: the venue ends an order once (`VenueEndsOnce`), so two terminal updates
of equal rank are the same status, and what was accepted was delivered and does
not outrank the status known for its id (`AcceptedKnown`). `TypeCorrect` needs no hypothesis.

`CommandValidation_proofs`: `VerdictsCorrect` says that what a server shows is a verdict of
`evaluate_command` under its own configuration and, in the testnet lane, a translated
intent. From it, by cases on the rows of the catalog, `SimulationNeverLiveCorrect`,
`LiveSealedCorrect` and `ApprovalAuthorisesNothingCorrect`. All they need of a row is
`RowSafe`: a command that is available neither trades live nor asks for an approval,
and one that simulates asks for paper mode. `PayloadFitsPaperCorrect` compares the connector's
checks with the paper exchange's, for any market and any intents.

`CommandApi_proofs`, for any finite set of threads:

- `HandlersCorrect`: `TInv`, what a handler has done by its step. Its entry is in the
  ledger (`Entered`), its record in the log (`Logged`), and the index only knows entries
  of the ledger. With it `TypeCorrect` and `DecisionsDurableCorrect`: a decision is set by
  a handler whose record is logged, and neither list ever shrinks except with the server;
- `GatedEffectsLoggedCorrect`: the effects of a command are at most its accepted rows in the
  log. Inductive once the handlers that have logged an acceptance and not yet acted
  are counted with the effects (`EffectsCovered`): two handlers may share a record id,
  so the rows must be counted and not named;
- `RecorderIsAuditLog`: `CommandApi` implements `AuditLog`, by the mapping of `audit` and
  `jsonl` to themselves. A step of `AppendLog` is a `Store` only if the record is served
  more often than it is logged, hence `LogCovered`, which counts the handlers between
  the two appends for each record; every other step stutters or is `Record` or `Reload`;
- `AuditLinkedCorrect`, `KeyNamesEntryCorrect`, `LatestBehindLogCorrect` have the hypothesis
  `OneThread`: with two threads they are false. `SInv` says that ids are places in the
  lists, what the only handler knows of them by its step (the key it looked up is still
  unknown, the number it took is the next one), and that the served records
  are the logged ones plus the one under way;
- `KeyNamesRequestCorrect`: what is left of `KeyNamesEntry` on threads. Two handlers can
  enter the same key or number, but the index still has under each key a request of the
  ledger with that key (`SameRequest`: id, key and what the fingerprint sees), every
  entry's key is in the index, and a handler past the lookup works on such a request. Of
  `AuditLinked` what is left is `DecisionsDurable`; of `LatestBehindLog` nothing, because a
  handler writes into `latest.json` also the records that others have not appended to the
  log yet, and the server may then die.

`StrategyReview_proofs`, for any finite set of threads and any drafts, over the
composition with the governance store:

- `TypeCorrect`; `NeverResumesCorrect` from it: a session is written only with a paused or
  stopped status, and places are never reused;
- `StatusAuditedCorrect`: a status in the list has its audit row or a handler that is about
  to write it (`StatusCovered`);
- `RecommendationsAuditedCorrect`: recommendations shown, recommendations held by a handler
  and handlers that are about to ask the policy are covered, for each session id and
  action, by audit rows of their own (`AllCovered`). It counts because ids repeat on threads;
- `ApprovalsFollowReviewsCorrect`: the store holds complete records only (`ReviewInv`), so
  the ids it approves are the ids its records name (`ApprovedNamed`): a record adds its
  own id, and a restart leaves the seed's. Drafts are any records about any ids.

`Backtesting_proofs`, for any set of threads, any rows, fixtures and requests:

- `ReportsExplainedCorrect`: `ReportsInv` has the reports in the two files and in the
  requests under way among the reports of the beginnings of the replay file. A file only
  grows, so what explained a report goes on explaining it (`ExplainedGrows`);
- `SyntheticConsistentCorrect`: the legs a timestamp has after some rows are the last rows
  with that timestamp and symbol (`ByTimeTrace`), and the feature of a row is made of the
  row, of the last row before it with the same symbol and of its timestamp's legs
  (`FeaturesTrace`, `FeaturesOfRows`). `replay_payload` takes the last row of each symbol
  too (`SameBooks`), so both loops make the same books, for files of any length;
- `NoLookaheadCorrect`: from `FeaturesOfRows`, a row at the end changes neither a previous
  row nor the legs of another timestamp (`RowAdded`);
- `PricesInsideCorrect`: a microprice is a mean of bid and ask weighted with the sizes
  (`WeightedMean`), a synthetic book's sides are quotients of sides that are in order
  (`SyntheticPrices`). Fractions are compared by cross products.

Only model-checked:

- `ReceivedIsDecided` and `FilesCatchUp`: liveness is beyond the prover;
- the violations, which are counterexamples.

## Not modelled

- The exchange state store: a view of fixtures without state of its own.
- Binance connector: signing, request specifications and HTTP are I/O; the order
  translation is in `CommandValidation`.
- Authentication and secrets: token comparison and lookups, no transitions.
- Relational storage and migrations: no code writes there yet.
- Web client: rendering and requests.
- Torn writes in JSON files: a payload is handed to the operating system whole, so a
  torn line takes a crash of the machine.
- Read-only endpoints, `record_completed` (no caller), and the registries of models,
  features and evaluations, which no decision reads.
- The fees and costs of a backtest report: sums without a decision in them.
- The age of stamps in `PaperExchangeThreads`, as said there.
- Errors of the file system (a full disk, a missing permission) that end a handler between
  two writes: the files are left as a crash leaves them, but the memory goes on.

Known behaviour without a run of its own: repeated ids from `len() + 1` on threads
(orders, commands, records, recommendations), retries that are evaluated again, ungated
endpoints without an audit record, and the order-rate counter that never moves.
`PROJECT.json` lists them as hazards with the properties that hold nevertheless.

## Plan

Done: the modules above, and proofs of every invariant and action property of the passing
runs and of both refinements, for all instances. What could follow when the code does:
`record_completed` and an endpoint for `add_decision` once they have callers, an order-rate
counter once something counts, and the exchange read back from its files at boot.
