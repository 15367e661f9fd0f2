# HyperSussy in TLA+

HyperSussy watches the Hyperliquid exchange: it streams trades, asset contexts
and whale positions over WebSockets, polls the REST API, stores everything in
SQLite, runs detection engines over the stream, and shows alerts, live market
data and candles in a dashboard. This directory holds TLA+ models of the parts
of it that are hard to test, the TLC configurations that check them, and TLAPS
proofs about them.

## 1. Inventory

All paths are below `src/src/hypersussy/` unless they start with `frontend/`.

The process has two threads with an asyncio loop each. The *runner* thread
(`app/runner.py`) holds the orchestrator, the storage, the engines, the alert
manager, the exchange clients and the candle registry; the *API* thread
(`api/server.py`) serves HTTP and `/ws/live`. They share `SharedState`
(`app/state.py`, one lock), the settings object and the database file, each
through connections of its own. Inside a loop, a step runs from one `await` to
the next without interruption; what can change in between is the subject of
most of the models.

| Component | State | Operations | Talks to | Hard behaviour | What makes it correct |
|---|---|---|---|---|---|
| SQLite write path (`storage/sqlite.py`) | write lock, one connection with one implicit transaction | execute / executemany, retry on a locked database, commit | every coroutine that stores something | cancellation between statement and commit, failing statements and commits, a locked database, restart | an acknowledged write is durable, whatever other writers do; the lock is always given back |
| Trade ingestion (`orchestrator.py`) | `_trade_buffer`, failure count, backoff deadline | `_dispatch_trade`, `_flush_trade_buffer` | up to seven stream tasks, storage, engines | several tasks share the buffer across an `await`, backoff windows, cancelled tasks, the bounded deque | a received trade is stored, or the cause of its loss is one the code accepts |
| Alert pipeline (`engines/_shared.py`, `alerts/manager.py`, `app/sink.py`) | engine cooldowns, fingerprint cache, checked set, dispatch times | an engine call raises alerts; `process_alert` deduplicates, throttles, stores, sends | tick loop and position stream, storage, live state | check-then-act around two awaits, eviction, restart, failing inserts | one alert per fingerprint and cooldown, bounded rate, nothing remembered that was not stored |
| Whale discovery and tracking (`engines/whale_*.py`, `position_tracker.py`, `position_census.py`) | tracked set, volume window, last positions, active dexes | promote on a trade, tick (cap, merge with database, poll), pushed positions | storage, REST client, position stream, the API's add and remove | two sources of positions, partial results, failed inserts, removal from outside | a change alert reflects a change of the position; who is tracked is in the database |
| Streams and life cycle (`orchestrator.py`, `app/runner.py`) | coin universe, stream tasks, `_running` | refresh, reconcile, run, stop | exchange, engines | tasks that die, cancel or outlive a refresh, stop racing start | every coin is streamed by one task; stop ends everything |
| REST client (`exchange/hyperliquid/client.py`, `rate_limiter.py`) | permits, weight window, global cooldown | call with retries on 429 | exchange | waiting in three places, cooldown that starts meanwhile | the weight per window is bounded; a call ends |
| Exchange streams (`websocket.py`, `_ws_common.py`) | subscriptions, reconnect delay, connect throttle | subscription generators | orchestrator | reconnection, lost messages | the subscriptions follow the request |
| Live state and candle feed (`app/state.py`, `candle_stream.py`, `api/ws.py`) | reference counts, last bars, alert deque, per-connection watch | watch, reconcile, push bar, push alerts and snapshots | two threads, exchange, browsers | reconciliation with awaits, trailing bars, connections that come and go | who watches gets the newest bar; nothing leaks; alerts arrive once and in order |
| Detectors (`_volume_window.py`, `oi_concentration.py`, `pre_move.py`, `funding_anomaly.py`, `twap_detector.py`, `liquidation_risk.py`) | sliding windows | add, prune, evaluate | orchestrator | windows that are pruned in several ways | totals match the window |
| Services (`candle_service.py`, `pnl_service.py`, `spot_service.py`, `_address_cache.py`) | cache tables and dicts | pagination, top-up, expiry | REST API | page borders, bars that were open when stored | every item counted once |
| Settings (`settings_service.py`, `routes/config.py`) | live settings, overrides table | validate, apply, persist, load | everybody reads it | applied before it is stored | memory and database agree |
| Frontend socket (`frontend/src/api/websocket.ts`) | socket, backoff, subscribers | connect, reconnect, stop | `/ws/live` | late events of an old socket | one live socket |
| Parsers, models, HTTP handlers, logging, user interface | none or presentation only | | | | |

## 2. Plan

1. `SqliteWrites`, its abstract specification `WriteContract`, `TradeIngest` on
   top of it, and the proofs about both (done).
2. `AlertPipeline` (done).
3. `CandleFeed`: reference counts, registry and connections, with the liveness
   of a watch (done, its safety proved); `LiveFeed`: alert and snapshot pushes
   (done).
4. `WhaleDiscovery`: the tracked set against the database; `WhalePositions`: polls
   against pushes (done).
5. `Streams`: supervisors, coin refresh, position stream, `run`/`stop`, the runner
   thread (done).
6. `RestClient`: permits, weight window, cooldown, retries (done).
7. `VolumeWindow`, `Detectors`, `CandleHistory`, `FillHistory`, `AddressCache`,
   `SettingsStore` (done).
8. Theorems: the invariants and action properties that the runs check, and the
   refinement `ImplementsContract`, for every value of the constants (done, see
   section 6). Left: what the liveness properties rest on, as far as it is safety.

## 3. The modules and the code

### SqliteWrites

`_write_under_lock` is one coroutine per write. `pc[w]` is the await it stands
at: `queued` in `async with self._write_lock`, `holding` before a statement,
`executing` and `executed` around it, `locked` after "database is locked",
`committing` and `committed` around the commit, `failed` after another error.
`queue` and `holder` are the FIFO `asyncio.Lock`.

| Action | Code |
|---|---|
| `Enqueue` | `_execute_write`, `_executemany_write` reach the lock |
| `Acquire`, `Leave` | entering and leaving `async with` |
| `Execute`, `Retry` | the loop of `_run_write_with_retry` |
| `Commit`, `Return`, `Raise` | the commit, the normal and the exceptional end |
| `Cancel` | a task is cancelled at one of these awaits (`_cancel_tasks`) |
| `ExecOk` ... `CommitError` | the aiosqlite thread executes the oldest operation handed to it |
| `Crash` | the process restarts on the same file |

aiosqlite is not in the repository. It is modelled as this code uses it: one
thread per connection, operations in the order they were handed over, and an
operation that stays queued when the coroutine waiting for it is cancelled. The
connection is in Python's implicit-transaction mode, so a statement's effects
wait in `txn` for whichever commit comes next. `executemany` may change some
rows before it fails. A write is a set of *effects* (rows, updates, deletions);
reads are not modelled, they change nothing.

`WriteContract` is what a caller may rely on, with no lock and no transaction:
an acknowledged write is durable, only what was asked for becomes durable,
nothing durable is lost, and a write that was not acknowledged may become
durable later, in part, until the process dies.

### TradeIngest

Extends `SqliteWrites`: a stream task is a writer whose writes are flushes.
`DispatchTrade` runs up to the await of `insert_trades` (append to the deque,
check the backoff window, snapshot); `FlushDone` and `FlushFailed` are what
follows the await. `FlushCancelled` is the trade-stream supervisor replacing its
tasks. Other coroutines that write, the engines' inserts made from the same
stream task among them, are `OtherWrite`: letting them overlap with the task's
next trade only adds behaviours. The length of a backoff window is not modelled,
only whether it is open. `received` and `events` are history variables.

### AlertPipeline

`Callers` are the two loops that make engine calls which can return alerts (the
tick loop and the position stream). `RaiseAlert` is an engine that finds
something and records its cooldown at once, before anybody has decided whether
the alert will be stored. `CheckMemory` is `process_alert` up to the storage
query, `CheckStorage` what follows it and the throttle, `InsertDone` and `Fail`
the two outcomes of `insert_alert`, `Send` the sinks. The alerts of one call are
processed in order and an exception drops the rest of them (`_run_engine_call`).
A fingerprint stands for the tuple of `_dedupe_fingerprint`, and `Group` gives
its type and coin, which is what the storage query selects on (`Rows`); `Recent` is
the query with its row limit. The wall clock and the monotonic clock are one clock
in whole seconds. `overlooked` is a history variable: the rows of its own
fingerprint that the limit kept from an alert. `restarts` counts the restarts, up to
`MaxRestarts`.

### CandleFeed

Three parties that meet only in `SharedState`: the `/ws/live` connections of the
API thread, the candle registry of the runner thread, and the exchange.

| Actions | Code |
|---|---|
| `Watch`, `Unwatch` | `watch_candles` and `unwatch_candles` in the receive loop (`_CandleWatch`) |
| `Poll`, `FinishSend` | the candle half of the send loop, before and after the awaited frame |
| `Close` | the end of `ws_live`; the slot is then free for another browser |
| `Connect`, `Teardown`, `Die` | `CandleStreamRegistry.run` |
| `StartReconcile`, `SendUnsubscribe`, `SendSubscribe` | `_reconcile_once`, one step per awaited command |
| `Receive` | `_receive_loop` with `push_candle` |
| `Quote`, `Lose` | the exchange: a bar of a subscribed key, a broken connection |

A bar is its sequence number, `last` and `refs` are 0 where the dictionaries have
no entry, and an interval the exchange does not know is a key outside
`ValidKeys`. Between `Lose` and `Teardown` the registry still sends commands that
nobody hears. `Die` is an exception outside `DISCONNECT_ERRORS` (a rejected
handshake): `run` ends and nothing restarts it. `Watch` releases and acquires in
one step although the lock is given back in between: nothing else of the API
thread runs there, and what the runner thread does in between has the effect it
would have before or after. `shown` is a history variable.

### LiveFeed

The slow tick of one connection: `_push_full` and the lines of `_send_loop` around
it. `pc` is the frame being awaited. Each of `HealthSent`, `SnapshotsSent` and
`AlertSent` runs from one await to the next, so `SnapshotsStage` and
`AlertsStage` are the rest of `_push_full` from a point on, and `EndPush` is what
`_send_loop` does with its result. `PushSnapshot`, `PushAlert` and `SetRunning`
are the runner thread. Connections only read the shared state, so one, with its
reconnections, is enough. The code's numbers are constants: `DequeCap` (500),
`Limit` (50), `SeenCap` (500); `SeenAssumption` says what they must satisfy for
the ids remembered to outlast the alerts read. The time of a snapshot
(`snapshotMs`) may repeat or go back, because a poll stores many coins under one
time while streamed contexts carry later ones. `read`, `overrun`, `raced` and the
`got...` variables are history.

### WhaleDiscovery

The in-memory set `_tracked` and the table `tracked_addresses`, fed by the trade
tasks, the tick loop and the HTTP endpoints. `OnTrade`, `InsertDone` and
`InsertFails` are `on_trade` of discovery and of the engine around it, cut at the
await of `upsert_tracked_address`; `left` are the sides of the trade not yet
examined. `TickStart` (prune, cap), `TickRead` and `TickMerge` are the three
stretches of `WhaleTrackerEngine.tick` before the polls. `AddWhale` and
`RemoveWhale` are the endpoints, which only know the table. A restart is an
initial state: any table, an empty memory. `excused` remembers why an address may
be missing: a cap, a failed insert that also hid the other side, a removal.

### WhalePositions

`PositionTracker` and then, in the same tick, `PositionCensus`: a batch of due
addresses is fetched together, then the answers are handled one by one with an
await for the insert (`Handle`, `Inserted`, `InsertFailed`). The position stream
applies pushes in between (`Pushed`, `PushApplied`). `actual` is what the exchange
has, and changes whenever it likes (`Moves`); an answer is taken from it when the
request is answered and applied later, after the rest of its batch. Which dexes a
request asks depends on the HIP-3 trades seen before (`active`, `SeenTrading`,
`Asked`): all of them while none was seen, afterwards the native one and those
traded on; the census asks the native one alone (`Asks`). `get_user_positions` gives
what is left when some dexes fail (`Answers`). The two pollers treat failures alike:
a rate-limited address waits for its interval, one that failed otherwise stays due.

### VolumeWindow

`SlidingVolumeWindow` with trades that arrive up to `MaxDelay` old: pruning stops at
the first young trade and subtracts what it removes from totals that the census'
cap may have dropped in the meantime.

### Detectors

One tick of any engine, from its buffers to the list of alerts it returns:
`detector` selects which. OI concentration awaits a query per window, the tracker
an insert per address, liquidation risk two reads and the order books; price moves
and funding rates are judged without an await. What is modelled is the order in
which cooldowns are marked and alerts returned, and the binary searches over
buffers that need not be sorted. Whether a number is large enough is left open.
`WhalePositions` follows the positions the tracker handles, this module the alerts
it finds in them.

### Streams

Two threads interleave at every shared read and write: the lifespan thread in
`BackgroundRunner.stop` (`Stop...`) and the monitoring thread (`main`), whose event
loop runs `run()`, a supervisor with its stream tasks, and the position stream. A
supervisor stands at its sleep (`idle`) or awaits the ends of cancelled tasks
(`restart`, `replace`, `unwind`). Stream tasks connect, break and reconnect inside
`_iter_subscription`. `CancelTasks` is the `finally` of `run()` and
`CancelAllTasks` the callback that `stop` schedules; it may strike while the former
is awaited. A behaviour follows one of the two supervisors, which share nothing but
the coins.

### RestClient

`_call_info` is a pipeline of waits: for the client's construction (`lock`), for
the shared cooldown (`cooling`), for a permit, for weight (`throttled`), for the
answer (`flight`), after a 429 (`backoff`). All calls of two gathering requests go
through it: `get_asset_snapshots`, which first asks for the names of the dexes, and
`get_user_positions`. `Second` lets time pass only when no call can go on at once.
The thread pool and the HTTP exchange are the flight. A call may also end with an
exception nobody expects (`Failures`): construction is then given up at once
(`ConstructRaises`), and the snapshots are not skipped but raised (`GatherEnds`).

### CandleHistory, FillHistory, AddressCache, SettingsStore

The services of the API. `CandleHistory` has several requests for one chart, for any
cursor and page size (`GetPage`), as the route admits them: the page's end is fixed
first, top-up and backfill run under the fetch lock (`TopUp`, `Count`, `Fill`), the
page is read after it is released. A cache whose newest bar is two bars old may be
taken as fresh or not, since the code compares milliseconds. Nothing closes a hole in
the cached range afterwards, as the code only counts bars; `skipped` is a history
variable with the bars left out in the two ways the code has for it. `FillHistory`
takes every history of a few fills and follows `_fetch_pnl` (`WalkPage`) and a client
that follows the cursors of `get_fills` (`FillsPage`); it has no concurrency, its interest is in the
page boundaries and the page limit. `split` (history) tells that one of the
boundaries fell between fills of one millisecond. `AddressCache` is the TTL cache with
concurrent requests that fetch the same wallet. `SettingsStore` has the handlers that apply an edit at once
and then queue for the write lock, and the restart that lays the stored value over
the default.

## 4. Runs

| Run | Question | Result |
|---|---|---|
| `sqlite_writes` | Is an acknowledged write durable, is the lock exclusive, does each write end, and is `WriteContract` implemented? | holds |
| `trade_ingest` | When can a received trade be lost? | never without a failed or cancelled flush, and never without a trade that arrives during another task's flush |
| `trade_gap` | Do transient storage failures leave no gap, as `_dispatch_trade` says? | violated when a failed and a successful flush overlap |
| `alert_pipeline` | One alert per fingerprint and cooldown, also over a restart; a bounded rate? | holds, except for rows that the limit of the query after a restart cuts off; the rate bound is the ceiling plus one alert per other caller |
| `candle_feed` | Do counts, cached bars and subscriptions stay consistent through switches, disconnects and broken exchange connections, and do watched bars arrive? | holds |
| `live_feed` | Does a browser get each alert once, in order, and what can it miss? Are its snapshots current? | holds: only alerts hidden by `Limit` newer ones between two reads are missed, and snapshots are current unless one raced a push |
| `whale_positions` | Does the baseline of a whale come back to what it has, whatever late, partial or pushed list went into it, and is every address polled again and again? | holds for the dexes that are asked |
| `streams` | Are the listed coins streamed once each, and does a stop end everything before the database is closed? | holds, once the cancellation has reached the loop |
| `streams_positions` | Does a reconnected position stream serve the whales then in the table, as its docstring says? | violated: the generator reconnects with its first list |
| `engines` | Are whales tracked and stored, window totals exact, silenced alerts sent, searches right on disordered buffers? | holds |
| `services` | Is the request budget kept and does every call go on; which holes can pages have, and when are they short; are fill sums and pages exact; do settings survive; is what is cached fresh? | holds, with the causes of holes named |
| `candle_open_bar` | Does a top-up reach back to the newest cached bar, as its docstring says? | violated: a bar stored while open stays as it was |

`MCEngines` and `MCServices` compose modules that share no variable. One of them
moves in a behaviour, chosen by `part`, while the others rest in one of their
initial states, so that the runs check each of them alone without multiplying their
states.

What the checked properties excuse is as telling as what they forbid. A commit
publishes what a cancelled writer left in the transaction (allowed by
`WriteContract`, although the comment at `sqlite.py:70-75` means to exclude it). Two
callers pass the alert throttle together (`RateBound`). A restart forgets a cooldown
whose row is not among the twenty newest of its type and coin: with one fingerprint
per whale that is an ordinary state, although `manager.py:93-96` and
`tests/alerts/test_manager.py:158-180` say that a cooldown survives a restart.
`CooldownHolds` excuses the rows that the limit cut off and no others. A list of
positions that is late, partial or native-only may look like a change before the next
poll repairs it; `BaselineCatchesUp` says that it does, not that no alert is raised
meanwhile. A whale's positions on HIP-3 dexes other than those it was seen trading on
leave its list when the first such trade is seen.
A snapshot stored during a push waits for the next one (`SnapshotsShownUnlessRaced`).
A REST call that has looked at the cooldown goes out even if one begins while it
waits for its permit (`CooldownCoversBackoff` speaks of the refused calls only). The
cap on tracked whales is undone by the merge (`NoWhaleMissed`). A walk or a
client one of whose page boundaries parts fills of one millisecond drops the rest of
them (`CompleteIsExact`, `CursorsReachAll`). A top-up longer than one answer of the
exchange leaves a hole, and so does a walk from a cursor below everything cached,
which the route admits (`PagesHaveNoHoles`); a market that paused for a whole chunk
hides its older bars (`ShortPagesMeetAPause`). An
alert found in a tick that then raises is lost and silenced (`SuppressedMeansSent`).

### Bounds

* `MCSqliteWrites`: three writers are enough for a writer that was cancelled, one
  that holds the lock and one that waits; two effects let `executemany` fail half
  way; two attempts reach both the retry and the last attempt; `MaxOps` keeps a
  cancelled writer from stacking operations without end and still lets a stale
  statement or commit run under another writer's lock.
* `MCTradeIngest`: two streams and one other writer, three trades and a deque of
  two, so that it overflows; one crash, because after it every gap is excused.
  The gap run uses a deque that does not overflow.
* `MCAlertPipeline`: two callers, two fingerprints of one type and coin, a clock
  that passes one whole cooldown and window, a cache of one entry so that
  eviction happens, a ceiling of one alert, a query that gives one row, so that a row
  of the other fingerprint hides one, and one restart, since a second one finds what
  the first one found. `MaxLag` bounds how long a call and
  its dispatch take. `CooldownHolds` needs it below the cooldown: an alert
  delayed by a whole cooldown can be stored twice after a restart, because the
  query's cutoff is computed from the alert's own, old timestamp. The default
  cooldown is an hour.
* `MCCandleFeed`: two connections share a key or watch different ones; two valid
  keys and an invalid one; two bars, so that a bar of one key can be in a frame
  while another key's is newest; one bar in flight, which may be late for a key
  that was released. The connection breaks any number of times.
* `MCLiveFeed`: four alerts against a deque of three, reads of two and three
  remembered ids, so that alerts are overrun, leave the deque and are forgotten
  while a push is under way. Two remembered ids would violate `SeenAssumption`.
  One coin with three revisions: another coin only adds a way to store a snapshot.
* `MCWhalePositions`: one whale with three dexes, so that those it was seen trading on
  are neither none nor all, and two traders in batches of one. Whales share nothing but
  the batch, and the traders show how batches come round. The interval is as many ticks
  as there are traders, so that the batches have room for everybody and no more. The
  default settings leave less room (up to 200 whales in batches of 10 and 500 traders in
  batches of 5, every 10 s, in intervals of 150 s and 300 s): there `EveryMemberPolled` is not claimed, and a
  full set is polled more slowly than the interval says. One failure: an address that
  fails for good at the head of every batch is left out too.
* `MCStreams`: two native coins and one of a HIP-3 dex over two connections, so that
  a change of the listing moves a coin between batches and an empty listing occurs.
  `StreamFaults` bounds failures of connections, exceptions, partial answers and
  changes of the listing together; each kind is reached, and pairs of them.
* `MCEngines`: two addresses and two stream tasks (one native coin, one HIP-3 coin)
  with a cap of one whale; three traders against a cap that starts at more than
  two, and three trades; buffers of three entries, so that they overflow and the
  binary search has an inner node, with a disorder of one tick; two change windows.
  Addresses and traders are symmetric: nothing tells them apart.
* `MCServices`: two dexes under two permits and a weight window with room for one
  call and a half, three faults, so that a call exhausts its retries; two requests
  for pages of one bar or four from chunks of two, so that pages are smaller and larger
  than a chunk and a walk can meet its limit of two chunks; a pause as long as a chunk
  with older bars behind it, cursors inside the cache, in the pause and beyond the
  present, one failed fetch, and a clock that ages the cache past the two tolerated
  intervals; three values of a setting and three waiting handlers; every history of at
  most two fills per time over six times with a cap of three and two pages, so that a
  second page can be full and the page limit be met; three wallets for
  two entries.

Deadlock is checked, except where the system really stops: in `MCStreams`, whose
thread ends; in `MCServices` and `MCCandleHistoryOpen`, where the walks over fills
and the gathered requests are finished once and the clock has a bound.

## 5. Fairness

The event loop runs every ready task and the connection thread drains its queue:
weak fairness on each writer's own steps, on the thread, and on the elapse of a
backoff window. Nothing is assumed of the exchange, the callers, cancellations,
failures and crashes. `WritesEnd` therefore says that whatever fails, a writer
leaves the lock.
In `CandleFeed` both event loops run: the send loops poll, a frame ends (by
arriving, or by its five-second timeout, which closes the connection), and the
registry reconciles, receives and tears down. Nothing is assumed of browsers, of
the exchange and of connection attempts; `SubscriptionsFollow` therefore speaks of
a connection that stays up. In `LiveFeed` only the push itself is fair.

In `WhalePositions` the tick loop goes on (`TickBegins(1)`) and each request and
insert of a poll ends: `_call_info` gives up after four attempts. The failures are
finitely many, so `EveryMemberPolled` and `BaselineCatchesUp` are about what they
leave behind, and the latter about a whale that leaves its positions alone from some
time on. In `Streams`
the event loop runs its ready tasks and timers (`MainMoves`, `Loops`,
`RefreshCoins`), a connection attempt or a close ends, and a stop that was begun
goes on; neither failures nor the call of `stop` are promised.
`StreamsFollowListing` is conditional on a thread that keeps running, and the
bounded faults make it speak of the time after the last one; `CancelEnds` begins
where the callback is scheduled on a loop that exists. `MCEngines` and `MCServices`
check safety only: that a REST call can always go on is the invariant
`NeverStuck`, since a light call may overtake a heavy one at the limiter again and
again.

## 6. Proofs

Every invariant and action property of the passing runs is also a theorem, proved
with TLAPS for every value of the constants that the modules' `ASSUME`s admit. A
component's proofs are in one module; several small components share one.

| Module | Theorems | Property of a run |
|---|---|---|
| `StorageProofs` | `TypeCorrect`, `WritersExclude`, `ReturnedIsDurable`, from `WritePathInvariant` | `TypeOK`, `OneWriterInside`, `AckedDurable` |
| | `WritePathImplementsContract` | `ImplementsContract` |
| | `IngestTypeCorrect`, `FaultlessKeepsTrades`, `UnsharedKeepsTrades`, from `IngestInvariant` | `IngestTypeOK`, `NoGapWithoutFault`, `NoGapWithoutOverlap` |
| `AlertPipelineProofs` | `RateIsBounded`, `AlertsAreApart` | `RateBound`, `CooldownHolds` |
| `CandleFeedProofs` | `FeedTypeCorrect`, `CountsAreWatchers`, `NothingLeaks`, `RegistryAgrees`, `NothingSkipped`, from `FeedInvariant` | `CandleTypeOK`, `RefsMatch`, `NoLeakedBar`, `RegistryKnowsUpstream`, `NoSkippedBar` |
| `LiveFeedProofs` | `SnapshotsAreShown`, `AlertsArriveInOrder` | `SnapshotsShownUnlessRaced`, `AlertsInOrder` |
| `EngineProofs` | `NoWhaleIsMissed`, `MemoryFollowsTable`, `ProfilesAreKept` | `NoWhaleMissed`, `TrackedIsStored`, `TrackedKeepsProfile` |
| | `TotalsAgree` | `TotalsMatchWindow` |
| | `CooldownsAreExplained`, `SearchesSurviveDisorder` | `SuppressedMeansSent`, `WindowsSurviveDisorder` |
| `StreamsProofs` | `CoinsAreStreamedOnce`, `DatabaseClosedLast` | `OneStreamPerCoin`, `StorageOutlivesTasks` |
| `ServiceProofs` | `BudgetIsKept`, `ClientIsConstructedOnce`, `CooldownCovers`, `NothingIsStuck` | `BudgetHolds`, `InitBeforeUse`, `CooldownCoversBackoff`, `NeverStuck` |
| | `PagesAreWhole`, `WalksEndAtPauses` | `PagesHaveNoHoles`, `ShortPagesMeetAPause` |
| | `CompleteSumsAreExact`, `CursorsCoverHistory` | `CompleteIsExact`, `CursorsReachAll` |
| | `SettingsAgree`, `ServedIsFresh` | `SavedMatchesLive`, `ServedFresh` |

### Hypotheses

The `ASSUME`s of the modules are used everywhere; they say that bounds are numbers,
that sets are finite where their size matters, and what the code's numbers satisfy
(`SeenAssumption`). One theorem has a hypothesis of its own: `AlertsAreApart` needs
`LagBelowCooldown`, that an engine call and the dispatch of its alerts take less than a
cooldown (`MaxLag < Cooldown`; by default an hour). How many fingerprints a type and
coin have, and how many rows the query gives, is open.

### Arguments

**SqliteWrites.** `AckedDurable` alone is not inductive. `IInv` adds that each
operation in the thread's queue that somebody still waits for belongs to the holder
and matches its `pc` (`OpsMatch`), that there is at most one of them (`OneLiveOp`),
and that the lock's queue and the idle writers are what their `pc` says
(`QueueMatch`, `IdleEmpty`). `Staged` carries the effects from the statement to the
commit, while stale operations of cancelled writers run in between. The refinement
maps a write to its `batch` until it ends and `acked` to the writers at `committed`;
each step of the write path is then an `Ask`, a `Publish`, an end or a stutter, by
one lemma per kind of step, and `Staged` is what makes an acknowledgement legal.

**TradeIngest.** `HandedOver` says what a running flush took from the buffer and
`Buffered` where every received trade is as long as the recorded events do not
excuse its absence.

**AlertPipeline.** `RateInv` counts the inserts under way with the alerts
dispatched: each of them passed the throttle against what was dispatched then, so
one per other caller is what can be added. For the cooldown, `Raised` and `Alone`
say that the engine's own cooldown leaves one alert of a key under way, `Older` that
no stored row is younger than what the engine recorded, and `Tested` that an alert
which has passed its checks is clear of every row of the table but the overlooked ones.
`AnswerShowsRows` is the lemma about the query: an answer with fewer rows than its
limit has all of them.

**CandleFeed.** When a frame of an abandoned key ends, `last_seq` takes that frame's
number, and only because a number never names two bars (`SeqIdentifies`,
`LastDistinct`, kept by the one counter of `push_candle` through `SeqBound`) can it
not equal the new key's newest bar. `LinkView` extends `RegistryKnowsUpstream` to a
lost and a closed connection. The counts follow by cardinality of the set of
watchers (`ReserveCounts`).

**LiveFeed.** `ShownInv` says, for each await, what the connection knows of the
snapshots. For the alerts, `Remembered` bounds how deep in the list of ids an alert
lies that a push may still read: by the alerts that are newer, and one push. With
`SeenCap >= 2 * Limit - 1` it is still there when the list is cut, so nothing is
sent twice. `Sending` says the same of a push that is between two frames.

**Engines.** In `WhaleDiscovery` the two invariants depend on each other through
`excused`: an insert that ends takes its address out, which is sound because the
address is then in the table. `VolumeWindow` is about sums over windows put together from parts. In
`Detectors`, `FoundIsFresh` says when a tick has found nothing yet; `AlmostSorted`
is what the buffers are, and `BisectProperties` what the search returns on any
buffer, sorted or not: a place whose two neighbours are on the right sides.

**Streams.** `GoodSupervisor` keeps the tasks of a supervisor disjoint, those that
are being cancelled included, and the coins are disjoint because the listing has
each name once; that `run()` awaits its tasks in `finally` is `Quiet`.

**Services.** The rate limiter's weight is split into the window and the entry about
to leave it (`TotalParts`). Candle pages rest on a cache whose
gaps are all untraded or in `skipped` (`NoGaps`), which each fetch keeps because a walk
stands at the oldest cached bar below its end (`AnchorHolds`) and only its one holder of
the lock fetches (`OneFetches`); a cursor that a page has shown stays in the cache
(`CursorIsCached`). A walk that ended short stands at a bar before which the exchange
had nothing for a chunk, and a page then shows that bar or is empty (`WalkMetPause`,
`PageShowsPause`). Fills: what was counted is everything from the walk's end on
(`CountedFrom`). Settings: the last queued write has the live value
(`LastWriteIsLive`). Cache: `FreshEntry` and `RenderFresh`.

### Induction

The library's induction theorems take an operator as a parameter, which the provers
cannot instantiate. Where a proof needs induction over numbers or finite sets,
`DataLemmas` states it of a *set* (`NatSetInduction`, `SubsetInduction`) and the
proof applies it to the set of the cases that hold; the existence of a recursive
function is proved in the same way before its equation is used. So the sums of the
community modules (`SumAdd`, `SumUnion`, `SumRename`, ...), the filter on sequences
(`FilterProperties`) and the binary searches (`BisectionExists`) are proved about and
not only checked. Definitions are written for this: `Filters` has a filter of its
own because the library's is one with an operator parameter, and `BisectLeft`
recurses over a pair because the prover has no functions of two arguments.

### Only checked by TLC

Liveness under fairness is out of the prover's reach: `WritesEnd`,
`StoredUnlessFault`, `SubscriptionsFollow`, `WatchedBarArrives`, `AlertsArrive`,
`BaselineCatchesUp`, `EveryMemberPolled`, `StreamsFollowListing`, `CancelEnds`. So
are, by their nature, the three violated properties (`NoPermanentGap`, `PositionsFollowTable`,
`ClosedBarsAreFinal`).

## 7. Not modelled

* The parsers and data classes: conversions field by field, with no state. A message
  is taken in its parsed form, and what is malformed never arrives.
* The statistics of the detectors (floating point): the models leave open whether a
  threshold is breached.
* The read side of the database (`db_reader.py` and the SQL reads): each read is a
  value taken in one step where a model needs it. The boot-time `VACUUM`, retention's
  choice of rows.
* `WsThrottle`'s delays, ping loops, and every other length of a sleep in `Streams`.
* The browser's code (`websocket.ts` and the user interface), logging, and the text
  of alerts.
