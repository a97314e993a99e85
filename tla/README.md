# A verification of the af backend

af (an A-share stock selection system) runs *strategies*: directed graphs of
nodes that fetch market data, filter and rank stocks, save recommendations and
send notifications. A strategy is started by hand, by a cron entry or as a retry;
its progress is streamed to the browser; what it recommended is later compared
with how the stocks did. This directory holds TLA+ models of the backend, the TLC
configurations that check them, and TLAPS proofs about the parts where
concurrency and failure decide whether the code is right.

Paths below are relative to `src/backend/internal/` unless they say otherwise.

    tlc -config DagSafety.cfg MCDagExecutor      # one of the runs of PROJECT.json
    tlapm DagExecutorProofs.tla                  # the proofs of one module

## 1. Inventory

| component | state it keeps | operations | what is hard | modules |
|---|---|---|---|---|
| DAG executor, `orchestrator/executor.go` | per run: pending edge counts, completed results, in-flight count, a semaphore, an unbuffered `done` channel | Execute, ExecuteToNode (trial run), one worker goroutine per ready node | order of results, cascades against running workers, panics, cancellation at any moment, slots against channel | `Dag`, `DagExecutor`, `DagRun` |
| Event bus and SSE, `orchestrator/eventbus.go`, DrainEvents of `executor/executor.go` | subscribers per run, their channels, a count of dropped events | Publish, Subscribe, unsubscribe, drain | many publishers inside one read lock, a reader that leaves, full channels | `EventBus`, `RunsProofs` |
| Run lifecycle, `executor/executor.go`, `handler.go`, `scheduler.go`, `cmd/server/main.go` | rows of `runs` and `run_logs`, contexts | trigger, retry, cron fire, dispatch, persist, announce; shutdown | every database call may fail or meet a dead context; a crash between any two | `RunLifecycle`, `RunsProofs` |
| Strategies, `orchestrator/strategy_service.go`, `dag.go`, `executor/scheduler.go` | strategy rows, version rows, cron runner, `active` map | Create, Update, Delete, Clone, Export, Import; scheduleSync, Add, Remove, LoadFromDB | unlocked read-modify-write, a sync outside the transaction, two critical sections in Add, renaming nodes through text | `StrategyService`, `StrategyLibrary` |
| Graph assistant, `ai/service.go` | none of its own | preview, apply | an edit by hand between preview and apply | `StrategyLibrary` |
| Templates, `executor/templates/templates.go` | the template table beside the bundled files | copy at start, list, get, instantiate | rows that shadow, were withdrawn, or failed to be copied | `TemplateGallery` |
| Market data routing, `datasource/breaker.go`, `manager.go` | a breaker per source, the quote cache | GetQuote, GetFundamental, GetNews, BreakerSnapshots | late answers of calls admitted in another breaker state; slow callers storing old quotes | `Breaker`, `MarketData`, `MarketDataProofs` |
| Candle cache and adapters, GetKLine of `datasource/manager.go`, `datasource/source/*` | one cache key per stock and day | ranged fetch for what is missing, stored per day | negative entries, moving candles, windows that start or end within a day | `CandleCache` |
| Performance tracking, `perf/*` | one snapshot per recommendation | Backfill (start-up, cron), Calculate, Save; the report | overlapping passes, snapshots taken too early, errors of single recommendations, pages over tied groups | `Performance`, `PerformanceProofs`, `PerformanceReport`, `DeskProofs` |
| Trading calendar, `calendar/trading_day.go` | cached calendar rows | IsTradingDay, NextTradingDay | days without a row | `TradingCalendar` |
| Node implementations, `executor/nodes/*` | none (persist writes recommendations) | data_source, indicator, filter, rank, dedupe, session_tag, persist, notify | joins of branches, the transaction of persist, the clock between two nodes | `Selection`, `SelectionProofs` |
| Notifications, `notify/*` | channel settings, breakers nothing drives | send with retries, fail over | retry of what was delivered, names listed twice, contexts that end in a wait | `NotifyManager`, `SelectionProofs` |
| LLM settings and chain, reviews, `settings/service.go`, `ai/*`, `review/service.go` | tables `llm_providers`, `llm_settings`, `review_reports`; the live chain | both settings routes, migration, swap; report | overlapping saves, swap under use, kept secrets | `Assistant`, `DeskProofs` |
| Positions, `position/service.go` | rows of `positions` | open, edit, close, list, summary | edits that read before a close | `Positions`, `DeskProofs` |
| Authentication; server shell; frontend | tokens; wiring; an EventSource hook | | | (section 5) |

How they interact: the cron runner (or an HTTP handler) calls the run lifecycle,
which creates a row and calls the DAG executor; executor and lifecycle publish on
the bus; nodes call the market data manager, write recommendations and send
notifications; the performance service reads recommendations together with
candles from the same manager, by trading days of the calendar; the assistant
edits strategies and writes reviews through the live provider chain.
`PROJECT.json` lists every component with its status, and under `hazards` the
places where the code is hard to test, each with the properties that watch it.

## 2. Modules

### The executor: `Dag`, `DagExecutor`, `DagRun`, `DagExecutorProofs`

`Dag` translates `orchestrator/types.go`: an edge list is a sequence (an edge may
be listed twice, and the counters count it twice), with predecessors,
descendants, the sub-graph of a trial run, and acyclicity.

`DagExecutor` has one variable per thing the goroutines share. The scheduler is
one process (`sched`: entered, receiving, cascading, promoting, summarised,
returned) with the actions `RejectUnknownType`, `SkipAll`, `Start`, `Receive`,
`Cascade`, `Promote`, `Summarise`, `Return`; the worker of each node is another
(`waiting`, `holding`, `running`, `sending`, `releasing`, `exited`) with
`Acquire`, `Begin`, `Finish`, `Release`; `CancelContext` may happen at any time.
The send on the unbuffered channel and its receipt are one step (`Receive`), so a
worker in `sending` is one that is blocked. A cascade is a separate step from the
receipt that causes it, because workers read `completed` in between. What a node
computes is a choice of success, failure (a panic included) or cancellation.

`DagRun` is what a run promises: each node gets one outcome, after its
predecessors; a failure takes its descendants with it in one step; the status is
the aggregate. `ImplementsDagRun` maps the executor to it, with the cascade that
is still to be carried out already counted in (`Outcome`).

### `EventBus`, `RunsProofs`

Publishers hold the read lock from `Publish` to `Unlock` and offer their event to
one subscriber per step (`Offer`: a full channel loses it and `dropped` counts
it). `Subscribe` and `Leave` need the write lock. `Drain` is one turn of
DrainEvents. `due` and `got` are history: what was offered to, and taken by, a
stream.

### `RunLifecycle`, `RunsProofs`, `MCRuns`

A job is one call of dispatch, fire or Retry. Every database call is a step
(`Trigger`, `Reload`, `Resolve`, `Create`, `PersistLogs`, `Save`) that may fail
if the behaviour is one with a faulty database, and does fail once the job's
context is dead (`Expire`, `Shutdown`). `Walk` stands for a whole run of
`DagExecutor`: a verdict, and whether its summary has results of nodes (`results`). A
graph that Execute rejects has none, and then persistLogs writes nothing and cannot
fail. `Stop` is the exit of the process, orderly or not: jobs are lost,
rows stay; `Start` brings the server back, which looks at no running row.

`MCRuns` puts lifecycle and bus into one run of TLC. A *focus* chosen in the
initial state says which of the two moves and the other keeps still; `MCMarket`,
`MCStrategies` and `MCDesk` do the same. A run therefore explores the sum, not the
product, of its parts. What is fair in a part that keeps still is not enabled, so
the fairness of one part promises nothing about the other.

### `StrategyService`, `StrategyProofs`

One strategy under concurrent requests. `Update` reads the row without a lock,
`Commit` saves all columns and inserts the version row (or `Conflict`: the unique
index refuses it), then `Unschedule` (the scheduler's Remove) or the three steps of Add (`AddEvict`,
`AddSchedule`, `AddRegister`: two critical sections and what lies between) tell
the scheduler. `Commit` after a delete revives the row, as gorm's Save falls back
to an upsert. `Restart` loses the requests and reloads the cron runner. `overlapped`
remembers, until the next start, that two requests were under way at once.

### `StrategyLibrary`, `TemplateGallery`, `StrategyProofs`

`StrategyLibrary` has several strategies and the *text* of their graphs, as the
database stores it: ParseDAG and MarshalDAG are modelled by what they do to a
node's parameters (an object, a quoted object, nothing, garbage), and the renaming
of nodes in Clone and Import by what it does to ids and edges. Editing requests
(`UpdateStrategy`, and the assistant's `Preview` and `Apply` or `Dismiss`) read first and
`Save` later; `Fail` ends one without a change. `raced` remembers that the strategy
was saved by another request meanwhile.

`TemplateGallery` extends it with the template table: `Start` is SyncToDB (any of
the bundled templates may fail to be copied), `SaveTemplate` and `Withdraw` are an
administrator's statements on the database (the program has no handler that writes
the table; that the text saved is a graph ParseDAG reads is a premise about the
administrator, which the code does not enforce), and `Instantiate` makes a strategy of what `Get` finds. The code it
chooses contains the second (`Second` is the clock).

### `Breaker`, `MarketData`, `MarketDataProofs`

`Breaker` has the methods of the circuit breaker as operators on a record, each
of which the code runs under one lock. `MarketData` composes it: callers of
GetQuote look at the cache, ask the breakers in the order of the chain, wait for
a source, record success or failure, store and return; `Peek` is anybody who
reads the breakers' state. `burst` is history: the failures since the breaker
last closed that are in the window at the latest of them, whatever the breaker sweeps.
A sweep is the sublist of the failures in the window (`Lists`).

### `CandleCache`, `TradingCalendar`, `Performance`, `PerformanceReport`, `PerformanceProofs`

`CandleCache` is GetKLine for the daily candles of one stock, with time in
half-days: before and after the close. A candle knows whether it was read before
its close (`final`). `Fetches` lists what may come back for a window: all its
candles, those without the first (a window that starts within a day loses it in
an adapter that compares times), or one day more (an adapter that asks by date);
an empty result is an error. `Stored` writes every missing day, also as empty.

`TradingCalendar` is the lookup with its cache and the weekday rule: a day without
a row is answered "no row" the first time and "closed" from the second time on,
because the cached entry does not say which it was.

`Performance` composes both with the passes of the performance service: `Backfill`
and `Calculate` list the recommendations, then for each of them `Compute` (or
`Refuse`, without an entry price), a `Fetch` per horizon, and `Save` (or
`SaveFails`); `Cut` ends a pass with its context. `Read` is a strategy that reads
candles, `Persist` one that makes a recommendation.

`PerformanceReport` is the report on what those snapshots hold: returns, drawdown
(`MaxDrawdown`), groups by strategy, stock or tag (a recommendation without a label
has a group of its own), their order by count, and pages. Arithmetic is exact: prices
are whole numbers, a return counts in fractions of the one `EntryPrice`, a mean is a sum
and a denominator, and a draw-down is rounded down to multiples of 1/`Unit` of the peak.

### `Selection`, `NotifyManager`, `Lists`, `SelectionProofs`, `ListsProofs`

`Selection` has the eight kinds of nodes. A node runs when its predecessors have
succeeded; one that only computes takes one step, `persist` takes a step per row of
its transaction and `notify` runs through `NotifyManager`, a step per request. A
payload is the set of the slices in it, for findFirstSlice takes any that a Go map
yields first: where two branches meet, each of their slices is a possible input.
A `data_source` merges its codes with those of a universe only when one is named, and
fetches explicit ones as they are; a filter refuses rows as matchExpr does
(`Refuses`), and with target "root" it judges an output's own fields, of which the
model knows none, and hands no rows on.
`recorded` is what each persist node has committed, in the order of the ids.
`Lists` has the two things loops do to slices: cut them down to some of their places
(`Sublist`) and sort them with ties in their order (`SortBy`). A graph is `LaidOut` when
it is drawn the way the bundled templates are: sources come first, nothing filters or
ranks behind a ranking or a dedupe, and no edge is a short cut past other nodes.

`NotifyManager` is Send: the candidate order, retries with waits, and the fall-back
to the next channel, with a context that may end at any moment. An attempt has two
outcomes, for they differ: whether the message appeared in the chat, and whether
the caller was told so.

### `Assistant`, `Positions`, `DeskProofs`

`Assistant` is both settings routes (the chain in `llm_providers`, and the older
single row), the start of the server, the migration of the older row, and the
review report, which asks the backends of the chain that was live when it began
and reads the label of the one that is live when it ends. The write of a page and
the swap of the chain after it are two steps.

`Positions` is the ledger: an edit reads a row and saves all its columns later, a
list reads the open rows and then their quotes one at a time. `overtaken` remembers the
edits whose row was closed after they had read it. What a list answers (`Summarize`,
`Respond`) is modelled, but no property is about it.

### Mutants

Definitions introduced by "Mutant:" comments are no part of a specification. Each
is a plausible mistake in the definition it stands before, used to see that a
property notices it (`mutants` in `PROJECT.json`).

## 3. Runs

Runs that pass:

| run | instance | shows |
|---|---|---|
| dag_safety | eight shapes of acyclic graphs on 4 nodes (two with an edge listed twice), whole or up to any target, 2 slots, fair goroutines | dispatch order, cascades, every node reported, meaning of the status; every run returns and leaves no goroutine; the executor implements `DagRun` |
| runs | jobs: 2 jobs (either may retry the other's row), faulty or sound database, 1 exit of the server. bus: 2 publishers of 2 events, 2 streams, 2 runs, channels of 2 | rows final and finished by their own job, announcements and rows agree, a verdict in time is saved with the logs it has, jobs end; no send on a closed channel, order per publisher, every event delivered or counted, Publish returns |
| strategies | one: 3 requests, 2 graphs, 2 expressions, 3 versions, any number of restarts. copies: 3 strategies. edits: 2 strategies, 1 client. overlaps: 1 strategy, 2 clients. gallery: 1 bundled and 1 own template, 2 seconds | graph column and current version agree, requests that take turns stay in step with the scheduler and a start heals what others left, the history has no gaps unless an outdated row is saved; copies are faithful; what the assistant applies keeps the rest; the gallery serves what it lists |
| market | quotes: 2 callers, 2 sources, threshold, window and cooldown of 2, clock to 4. passes: 1 recommendation, 2 passes, 3 days, T+1 and T+2, everything may fail. turns: 2 recommendations, 1 pass at a time, 2 days, with and without calendar rows | one probe, cooldown kept, trips on a burst and on nothing else, age of a quote; a close belongs to its own day, a backfill only adds, a pass gives every recommendation its turn |
| desk | run: three strategies built like the bundled templates and one edited carelessly, two sides of noon, 3 channels of which 0, 1 or 2 are registered and one is listed twice, 2 attempts. pages: 2 settings pages, 2 keys. older: 1 page and the older route. report: 1 page and 1 report. book: 3 requests, 2 positions. figures: 2 recommendations, 2 labels, 2 horizons | picks are the best of a branch, persist writes all or nothing, session tags agree; no needless repeat, channels in turn; kept secrets, live chain and table agree, reports fall through the chain; edits touch their own row and open a closed one only if it was closed behind their back; pages cover, figures are over what is known |

Runs that are expected to be violated, each by what the code does:

| run | instance | shows |
|---|---|---|
| dag_cycle | two graphs with a cycle | a cyclic graph ends in success without running its cycle: neither Validate nor Execute rejects it |
| run_settles | 1 job, sound database, no exit, fair | a row can stay running for ever: a run that uses up its deadline is saved with a context that has the same deadline, and a job that fails to load its strategy gives up without touching the row |
| cron_orphan | 3 requests, 2 graphs, 2 expressions | overlapping updates leave a cron entry nobody can remove: Add releases its lock between evicting and registering |
| close_recorded | 1 recommendation, 2 days, nothing fails | closes are never filled in: the pass of the first evening saves a snapshot without closes, and having a snapshot is what makes later passes skip it |
| calendar_rule | a table without rows, 2 recomputations | the weekday rule holds for the first question about a day only |
| template_filters | the value template | a stock that fails a filter of one branch is recommended: the join takes the rows of one branch |
| canonical_table | 1 page, 1 older row | emptying the list of providers brings the older row back into the table, without it being asked |

Each quotes a statement of the repository that the code does not keep; `findings`
in `PROJECT.json` has the lines.

**Bounds, and why they are enough.** Four nodes hold every shape the counters can
get wrong: a diamond, a chain behind a failure with a sibling branch in flight, a
duplicate edge into a join, a shortcut over a predecessor. With two slots, three
roots make workers wait. Two publishers and two streams give the interleaving per
subscriber that matters; four events for channels of two overflow them. Two jobs
suffice for what jobs share (a row and its retry, the server). Three requests are
needed for a stale update around two others, or around a delete. For copies, a
third strategy is the copy of a copy, where suffixes pile up. For the breaker, a
threshold of 2 distinguishes the first failure from the one that trips, and the
clock reaches past a window and a cooldown. Three days hold a holiday or a halt
between a recommendation and its horizon. `Lookback` is 2 days in place of 7 so
that recommendations do leave the window. Two pages are what it takes to swap out
of order; the older route and the review are looked at with one page each, as what
they disturb is one page's save. Three requests are an edit around a close and a
list. Prices of the report are 1 to 3 around an entry of 2, so that losses, zero and
gains occur, and draw-downs count in sixths, which are exact for peaks of 1, 2 and 3. `MaxDay`, `MaxRec`, `MaxTime`, `MaxVersion`, `MaxEvents`, `MaxStops`,
`MaxStrategy`, `MaxSecond`, `MaxId`, `MaxPosition` are bounds named in the guards
they limit. The proofs of section 4 need no particular values of any of them.

Deadlock checking is off where the system may stop: a bus nobody uses, requests
that are all done, a clock at its bound.

**Fairness.** `DagExecutor`: goroutines that can run do run (weak fairness), and a
waiting worker gets a slot if slots keep becoming free (strong: Go serves blocked
channel operations in order); a node's Run returns, as every node runs under a
deadline. `EventBus`: a publisher inside Publish goes on; readers owe nothing.
`RunLifecycle`: a started job goes on to its next call; nothing is assumed of
retries, expiry, shutdown or restart. The other modules have safety properties only.
Symmetry sets are used only in runs without liveness.

**What the properties excuse.** Some hazards the models do run into, and no document
says they must not happen. The property at that place says that nothing else happens
there, and `hazards` in `PROJECT.json` repeats the limit:

- two overlapping updates of a strategy: the later save undoes the earlier
  (`LinearUnlessOutdated` says that only such a save breaks the history,
  `DagOfCurrentVersion` that graph and version stay a pair), and their syncs may come
  out of order until the next start (`SerialInSync`);
- two overlapping saves of the settings may swap the chain in the other order, until
  the next start (`LiveIsTable`);
- an edit of a position that was closed since the edit read it opens it again
  (`EditsOwnPosition`);
- a backfill writes over a snapshot that another pass has made since the backfill
  listed what there was (`BackfillAddsOnly`);
- `ClosesOwnDay` is about days the calendar has rows for: without them the T+n days
  themselves move, which is what `calendar_rule` shows;
- `StatusExplained` ties the status to the error Execute returns and to the results;
  the text in the summary's own `Error` field is not modelled.

**Seen while modelling, without a run.** Some because no document says otherwise:

- a stale update of a strategy's metadata writes back its old graph and version
  pointer, after which every change of the graph meets the unique index;
- Delete does not tell the scheduler: a deleted strategy keeps its cron entry until
  a restart, and an overlapping update can revive it;
- a context that ends is recorded as a failure of a healthy source, and a source
  that panics leaves a half-open breaker with its probe flag set;
- a recompute while the sources fail overwrites known closes by nothing, and a
  moving candle cached by a run during the day is taken for the close after it;
- a page that keeps the secret of a row that another page has replaced in the
  meantime, and a review whose label names the chain that was swapped in.

Others because the disagreement is one of a comment with a sequential function,
which a reader sees at once:

- Import's comment ("if absent or colliding, a new one is generated",
  `orchestrator/strategy_service.go:536-538`) against the Conflict error it returns;
- "unix second count to avoid collisions" of the templates, where two copies within
  a second collide;
- "admins can override" (Get of the templates), where every start overwrites the
  override (`GalleryServes` holds it to the time until the next start);
- the assistant's Apply "must preserve the rest", where a rename that overlaps it is
  reverted (`ApplyKeepsRest` excuses an apply that another save overlaps);
- the win rate "driven by T+5" of ComputeOne, which counts any positive horizon, and
  "nil when every value is non-finite" of MaxDrawdown, which answers 0.

## 4. Proofs

Each module proves its theorems from the assumptions its component states on its
constants (finite `Node`, valid graphs, at least one slot, a value that stands for
"none" being no member of the set it is none of, and the like), and none of the
bounds of section 3 is used.

### `DagExecutorProofs`

For every node set, every number of slots and every set of valid edge lists:

| theorem | says |
|---|---|
| TypeCorrect | `Spec => []TypeOK` |
| Invariance | `Spec => []IInv` |
| DispatchOrder | `Spec => []RunsAfterPredecessors` |
| NoOvertaking | `Spec => []InFlightUndecided` |
| BoundedConcurrency | `Spec => []ConcurrencyBounded` |
| CascadeComplete | `Spec => []FailureCascades` |
| Completeness | `Spec => []EveryNodeReported`, if all graphs are acyclic |
| FullInputs | `Spec => []InputsComplete` |
| StatusMeaning | `Spec => []StatusExplained`, if all graphs are acyclic |
| Finality | `Spec => ResultsFinal` |
| Refinement | `Spec` implies the initial condition and the steps of `DagRun`, if all graphs are acyclic |

None of the properties is inductive: dispatch looks at a counter, not at the
predecessors. The inductive invariant `IInv` ties the two together. A node is
*handled* when onNodeDone is through with its result. `CountInv`: the counter of a
node that waits equals the number of its edges whose source is not handled, and
is not zero. `OrderInv`: all sources of a dispatched node are handled and did not
fail. `CascadeInv`: a failure or a skip has reached every child, except of the
failure being cascaded. `SkipInv`: other results without a worker exist only when
the whole run was cancelled. `SchedInv` and `WorkerInv` relate the program
counters to the results, `SlotInv` the in-flight count and the semaphore to the
workers. The hard steps are `Cascade` (descendants are not in flight, because
each of them has an edge that is not handled) and `Promote` (the counters of the
children drop by the multiplicity of the edge, so those that reach zero are
exactly those without an open edge). Completeness adds acyclicity: if nothing is
in flight and some node has no result, following open edges backwards finds a
node without one, which contradicts `CountInv`. StatusMeaning adds `StatusInv`,
which says what the error and the cancellation flag mean before the status is set.
The refinement maps a receipt to `Finish` or to `Fail` (with everything the cascade
will take down), an early end to `CancelAll` or `Reject`, and the other steps to the
report or to a stutter; `EndInv` says that a status is there exactly after the end.

### `ListsProofs`

Facts the other proofs share: about lists that are cut down to some of their places
(`Sublist`, which is what a filter loop or a compacted slice computes), about folds that
concatenate or walk a list, about sums of numbers over a finite set (`TotalOf`; counting
pairs by either side, `DoubleCount`), and about sorting: the list of a sorted set
(`OnceEach`) and of sorted keys (`SortedPlaces`: every place of the list occurs once, the
smaller key first). The
library's induction theorems cannot be used, as they take an operator. The sums are
done instead by a least counterexample among the subsets of the set (`SmallerFirst`,
from the well-founded order of natural numbers), the lists by one among their places.

### `RunsProofs`

Of the bus, for any publishers, streams and runs and any size of the channels:

| theorem | says |
|---|---|
| BusTypeCorrect | `BusSpec => []BusTypeOK` |
| NeverOnClosed | `BusSpec => []NoSendOnClosed` |
| OrderKept | `BusSpec => []InOrder` |
| NothingLost | `BusSpec => []Accounted` (finitely many publishers and streams) |

`NoSendOnClosed` alone is not inductive, as a publisher reads the list once and
sends later. `LockInv` says what the lock protects: the list of a run holds, without
repetition, streams that read that run (`SubInv`), a closed stream reads none
(`ClosedInv`), and those a publisher has still to offer its event to are readers of
the event's run (`TodoInv`). The last stays true because Subscribe and Leave wait
until no publisher holds the read lock. "Without repetition" is needed for Leave,
which removes one entry. For the order, `SeenInv` adds that what a stream has
received, in hand or in its channel, is of its run and no newer than what its
publisher has published, and older than an event it has still to be offered.
The account is a sum over streams and publishers. Publish adds the number of distinct
subscribers to what is due and the length of the list to what is left, and the two are
equal only because the lock keeps repetitions out of the list.

Of the runs, for any number of jobs and of exits of the server, on a database that may fail or not:

| theorem | says |
|---|---|
| TypeCorrect | `Spec => []TypeOK` |
| Invariance | `Spec => []IInv` |
| RowsUnshared | `Spec => []OneWalkPerRow` |
| AnnouncementsAgree | `Spec => []AnnouncedAgrees` |
| EndsAnnounced | `Spec => []WalkAnnounced` |
| FinalsAreVerdicts | `Spec => []FinalIsVerdict` |
| SavedInTime | `Spec => []TimelySaved` |
| FinalsStay | `Spec => RowsFinal` |

The invariant is one statement per job (`JobInv`): it works on the row that bears
its own id or on none, and its row, logs, verdict and events are what its place in
Execute says. With that, no step of a job touches what another's `JobInv` is about
(`Same`), and each step needs to be looked at for its own job only. A context can
only die, which weakens the one clause that mentions it (`InTime`): with a verdict in
time the row has it, and one batch of logs or none, as the walk had results or none
(`Logged`). FinalsStay also names who finishes a row, and it rests on the same
statement: whoever leaves `saving` works on the row with its own id.

### `StrategyProofs`

For any number of requests, graphs and cron expressions:

| theorem | says |
|---|---|
| TypeCorrect | `Spec => []TypeOK` |
| Invariance | `Spec => []IInv` |
| OneGraph | `Spec => []DagOfCurrentVersion` |
| Immutable | `Spec => VersionsImmutable` |
| LinearHistory | `Spec => LinearUnlessOutdated` |
| TurnsInSync | `Spec => []SerialInSync` |

That the row's graph is its current version's does not survive a save by itself,
as a save writes whatever was read long before. `RequestInv` says of a request that
is about to save that the row it holds names a version that is still there with the
graph it had (version rows are never rewritten), so a stale row is at least a row
that agrees with itself. For LinearHistory each kind of save is looked at: one whose
row names the current version adds the next or leaves the versions as they are, so only
an outdated one can break the line. TurnsInSync is about requests that take turns: until
two overlap, at most one is under way and the row it holds is the row (`Turns`); a start
makes this true again, whatever was before (`RestartTurns`, `RestartCron`). It adds where the one request is between its save and the scheduler
(`CronInv`): nothing but the entry that `active` names is left to evict, then nothing
is left, then there is the entry that is about to be named.

Of the strategies next to each other, the assistant and the templates (`GallerySpec`:
all their steps interleave), for any clients, names, codes and bundled templates:

| theorem | says |
|---|---|
| LibraryInvariance | `GallerySpec => [](LibraryInv /\ GalleryInv)` |
| CopiesKeepStructure | `GallerySpec => []CopiesFaithful` |
| GalleryWorks | `GallerySpec => []GalleryServes` |
| ApplyKeeps | `GallerySpec => ApplyKeepsRest` |

The texts a user sends are arbitrary (`TextAssumption`: lists of nodes and edges; a
node is named by one name, so a graph that is sent again after it was cloned counts
as one with names of its own), and bundled is a text that ParseDAG reads
(`BundledAssumption`). The heart is `ClonedGraph`: parse, rename, marshal of a graph
ParseDAG reads gives one it reads, of the same shape, and the parameters survive since
what is decoded once is not decoded to something else. That no id is shared rests on
`Graph`, which also says that the nodes of one text were cloned equally often: an id
with one more suffix is none of theirs. `RowOk` then goes through the actions
one by one, as whatever is inserted, saved or imported was parsed first, here or when
the request began (`RequestOk`). `NameRead` is about the assistant: from the read in
Apply on the request holds the stored name, or the strategy was saved since. In
`GalleryInv`, what the administrator meant is in the table and not withdrawn.

### `SelectionProofs`

Of the delivery, for any callers, channels, preference lists and numbers of attempts:

| theorem | says |
|---|---|
| MailTypeCorrect | `MailSpec => []MailTypeOK` |
| RepeatsAnswered | `MailSpec => []NoNeedlessRepeat` |
| OrderKept | `MailSpec => []ChannelsInTurn` |

A *candidate* is the first mention of a registered channel. The invariant says per
call where it is (`PlaceInv`: the try it is at is one more than the requests it has
posted there), what was posted (`TriesInv`: only to candidates up to the place, and
each was used up before the next) and what was promised (`VerdictInv`). That every
name has a first mention, which links the list to the candidates, is the one use of
a well-founded order (`FirstMention`).

Of a run, for any strategies and markets (`ScenariosAssumption`: the edges join nodes
of the graph, what the sources answer are lists, only notify nodes call Send):

| theorem | says |
|---|---|
| RunInvariant | `Spec => []RunInv` |
| TypeCorrect | `Spec => []TypeOK` |
| AllOrNothing | `Spec => []PersistAllOrNothing` |
| OneSession | `Spec => []SessionAgrees` |
| BestOfABranch | `Spec /\ LaidOut(strategy) => []PicksAreABranchsBest` |
| RunDelivers | `Spec => [](NoNeedlessRepeat /\ ChannelsInTurn)` |

`RunInv` contains the invariant of the delivery: every step of a run is a step of it,
or leaves it alone. `InOrder` says that a node that has started has only successful
predecessors, so that nothing behind a `session_tag` that has not succeeded has
started (`NotBefore`: the descendants of such a node are a closed set), and the one
session a strategy sets is set before anything behind it looks. `NodeInv` says per
node how far its transaction is: what is written is a beginning of what was picked,
and what is recorded is nothing or all of it. `SessionInv` is what a node took of the
session, and `SendsInv` ties a notify node to its call of Send. The nodes that compute
are handled by one lemma (`ComputedKeeps`), given that their output is lists; for
`data_source` that is a statement about a fold, the concatenation of what each code
contributes, and its recursion is unrolled by a least counterexample (`JoinedExists`).

`BestOfABranch` needs the layout, and is about runs of any strategy that has it: no step
changes the strategy. Of other graphs it is false (a filter behind a ranking drops rows
the ranking preferred), and the graphs that `desk` runs have it (`TemplatesLaidOut`,
which TLC evaluates). `ChoiceInv` says of every slice a node has handed on that its rows,
if there are any, came along a branch of nodes that have succeeded (`Chosen`): they
entered the branch and pass its filters; before a ranking or a dedupe they are all of
those; and behind one, a row that a ranking of the branch prefers to one of them shares
its stock with one of them. A source begins a branch, alone or with the indicator that
reads its candles (`BeginsBranch`). A node that may start lengthens the branch of
whichever slice it took (`Extends`: with no short cut, the node before it is its only
predecessor in the branch), and what it does to the slice keeps the three claims
(`Selects`, from `RankedBest` for a ranking and `DedupedCodes` for a dedupe). What is said
of a branch is said of nodes that are through, so a step elsewhere keeps it
(`ChosenKept`). `Took` remembers which slice a persist node took until it has committed,
and by `NodeInv` what it has committed is the rows of that slice that have a code. The
comparisons need the fields of rows and the closes of candles to be whole numbers
(`ScenariosAssumption`), as the model's arithmetic does.

### `MarketDataProofs`

For any callers, any chain, and any threshold, window, cooldown and time to live, as
long as a call of a source is shorter than the cooldown (`MaxCallAssumption`: the
adapters' timeouts are seconds, the cooldown is minutes):

| theorem | says |
|---|---|
| Invariance | `Spec => []MarketInv` |
| TypeCorrect | `Spec => []TypeOK` |
| OneProbeOnly | `Spec => []OneProbe` |
| CooldownKept | `Spec => StaysOpen` |
| QuotesFresh | `Spec => []QuoteFresh` |
| BurstTrips | `Spec => TripsOnBurst` |

A breaker alone cannot know whether the calls it admitted are over, so the invariant
relates its record to them (`Sound`): while it is open every call began before it
opened, while it is half-open the only call is the probe, exactly as long as the flag
is up. One lemma per method of the breaker says that the method keeps this, whatever
the record and the calls are. The clock does the rest: by the time a breaker has
cooled down, every call from before it opened has run into its timeout
(`CooledIsQuiet`), so nothing late can be taken for the result of the probe.

`BurstTrips` compares two lists that are swept at different moments: the breaker's own,
and the failures since it last closed. `BurstInv` says that of any moment in the
window, a closed breaker counts as many failures since as there were. A sweep keeps
that count for every moment in the window (`SweepCount`, by the bijection between the
kept failures and their positions, `SublistPlaces`), a new failure adds one to both
(`NotedCount`), and the window only moves forward. It also says that while a breaker is
closed there are fewer than Threshold of them in the window, which is the other
direction: a burst always trips. `BurstInv` holds of every reachable
state of the instance of `market`.

### `PerformanceProofs`

For any recommendations, passes, horizons, holidays, halts and number of days, given
what the configuration guarantees (`PerformanceAssumption`: at least one horizon, all
of them positive):

| theorem | says |
|---|---|
| Invariance | `PerfSpec => []PerfInv` |
| TypeCorrect | `PerfSpec => []PerfTypeOK` |
| OwnDays | `PerfSpec => []ClosesOwnDay` |
| NoneForgotten | `PerfSpec => PassCovers` |
| Idempotent | `PerfSpec => BackfillAddsOnly` |

`Fits(c, d)` says that a candle is that of day d, or no candle. It holds of the cache
under every key, of what a pass has found so far against the days it looks for
(`FetchInv`), and of a snapshot against the trading days of its recommendation
(`SnapInv`), so that it goes from the sources through the cache to the row whoever
filled the cache. `JobInv` counts: what a pass set out with is still to do, has a
snapshot or is an error, and what a backfill has to do had no snapshot when it began.
The recommendation under way is the least of those left, which needs a well-founded
order (`LeastOf`).

### `DeskProofs`

Of the positions, for any requests, costs and quantities (`PositionsAssumption`: they
are integers) and any number of positions:

| theorem | says |
|---|---|
| Invariance | `BookSpec => []BookInv` |
| BookTypeCorrect | `BookSpec => []BookTypeOK` |
| OwnRowOnly | `BookSpec => EditsOwnPosition` |

A position that an edit has read was open then; the invariant says that it still is when
the edit saves, or the edit is among those overtaken by a close of this very row.

Of the settings pages and the reports, for any pages, reports, keys and configured
chain, with database calls that may fail or not:

| theorem | says |
|---|---|
| AssistInvariance | `AssistSpec => []AssistInv` |
| AssistTypeCorrect | `AssistSpec => []AssistTypeOK` |
| SecretsStay | `AssistSpec => []KeptKeyIsShown` |
| ChainAgrees | `AssistSpec => []LiveIsTable` |
| ReportsAskAll | `AssistSpec => []FallsThrough` |

`KeptKeyIsShown` rests on `IdInv`: an id is never given twice, so the row a page shows
and a row of the table with the same id are the same row, however often the table was
replaced; where the id is gone the secret is empty, and the entry cannot be switched
on. `LiveIsTable` speaks of quiet moments only. `ChainInv` says what holds in between:
before a swap, the table lists what the page asked for; otherwise the live chain is
the table's, unless the older route was used, the last start could not read the table,
or requests crossed (`TakesTurns`: until they do, one page at most is under way).

Of the report, for any finite sets of recommendations and labels, any closes, number of
horizons and sizes of a page (`ReportAssumption`):

| theorem | says |
|---|---|
| FiguresInvariance | `ReportSpec => []FiguresInv` |
| ReportCovers | `ReportSpec => []PagesCover` |
| ReportFigures | `ReportSpec => []FiguresTrue` |

`FiguresInv` says that the pages a client holds are those of the report as it is
(`TruePage`): a save starts the client anew, and a page that is asked for is cut where
the one before ends (`CutSteps`). The work is in showing that the code's loops compute
that report. `Accum` folds over the snapshots of a group in an order nobody chose;
the fold is unrolled one step at a time (`WalkAdds`), and each step adds one
recommendation to sums over a set (`TotalStep`), so that the result is the sum over the
group whatever the order was (`AccumIs`). The groups are sorted by a total order, so they
are a list in which each occurs once (`OrderFacts`), and the pages laid end to end are
that list (`FlatPieces`). That every recommendation is in each of its groups is a count
of pairs from both sides (`CountsAddUp`). For the draw-down, the loop looks only at the
running peak, while `FiguresTrue` speaks of all pairs of an earlier and a later price:
from a higher peak the drop to a price is never smaller (`DropMonotone`, which is about
rounded quotients), so the worst from the running peak is the worst of all
(`WorstFound`).

### Proved, checked, or both

The runs check on small instances most of what is proved for all: the `property` of
a theorem in `PROJECT.json` names it. Proved without a run, as TLC would say no
more: the type invariants of these modules (those of Positions, Assistant and
Selection are the ones `desk` checks together), `InputsComplete`, `InFlightUndecided`,
`ConcurrencyBounded`, `ResultsFinal`, `OneWalkPerRow`, `FinalIsVerdict` and
`VersionsImmutable`.

Left to TLC: termination, Publish's return and the end of jobs (liveness, and everything
with ENABLED). `TypesOK` of `MCDesk` is the conjunction of three type invariants, each
proved for its own component (TypeCorrect of `SelectionProofs`, AssistTypeCorrect and
BookTypeCorrect of `DeskProofs`); `PicksAreABranchsBest` is proved of laid-out graphs and
false of others.
`CandleCache` and `TradingCalendar` have no theorems of their own: what they give is
proved in `PerformanceProofs`. No module declares a RECURSIVE operator.

## 5. Not modelled

- Authentication (`auth/*`): sequential calls around a cryptographic library.
- The frontend. Its SSE hook (reconnection without replay) is the one stateful
  protocol in it.
- Configuration, the OpenAPI document, logging, the wiring of `cmd/server/main.go`
  beyond the order in which things start and stop.
- Read-only endpoints: lists, searches, the dashboard, connection tests, model lists.
- HTTP, JSON and SQL as such: requests and answers are the values they carry, a
  statement is a step that works or fails. MarshalDAG and ParseDAG are modelled by
  what they do to parameters; repeated keys and values that are no objects are not.
- Of the executor: the deadline of a node beyond its outcome, and the candidates a
  node may leave in the RunContext.
- Of the nodes: indicators other than the moving average, and columns that no
  selection looks at.
- Of the market data: GetFundamental and GetNews as actions of their own (they walk
  the chain GetQuote walks), the parsing in the adapters, validation of what they
  return, and the table of their health.
- Of the calendar: trading sessions, PreviousTradingDay, ReloadCache and errors of
  its reads.
- Of the reviews: the schedule and the figures.
- The breaker of the notifications, `notify/circuit.go`, is a copy of
  `datasource/breaker.go`, but nothing calls its record methods outside the tests.

## 6. Plan

Done in the order of what everything else runs on: the executor, its abstract run and
the proofs; the bus and the lifecycle; strategies; market data and performance; then
the nodes, notifications, settings, reviews, positions, templates and the report.

What would come next: GetFundamental and GetNews with the health table of the sources,
and the browser's event hook over `EventBus` and `RunLifecycle`.
