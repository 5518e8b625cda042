# Verification of The Trading Project (TTP)

TLA+ models of the program in this repository, the TLC runs that check them on
small instances and the TLAPS proofs of what holds on every instance. Paths are
relative to the repository root; `src/` is its source directory.

## 1. The system

TTP is a desktop chart of one symbol and one interval. Candles arrive from an
exchange by REST pages and by a WebSocket stream, are stored in a binary file,
and are shown by an SFML render loop. It is multi-threaded C++17: the UI thread,
the orchestrator's worker, the exchange session's io thread, a detached paging
thread, the database engine's warm-up thread, its own WebSocket client's thread,
and detached indicator computations.

| component | state | operations | talks to |
|---|---|---|---|
| candle repository `infra/storage/PriceDataTimeSeriesRepository` | `candles_`, `metadata_` cache, `hasGap_`, under `mutex_` | `appendOrReplace`, `sealOpenTailIfAny`, `getLatest`, `getRange`, `metadata` | called by orchestrator, application, indicators; calls the file |
| candle file `infra/storage/PriceDataManager` | a binary file of records, `fileMutex` | `saveRecord(s)`, `readAllRecords`, `readLastRecord` | repository, database engine |
| orchestrator `app/SyncOrchestrator` | `running_`, `backfilling_`, `pagingBackfill_`, `repairing_`, `seeded_`, the live subscription, publication throttle | `start`, `stop`, `runBackfill`, `repairGap`, `handleLiveCandle`, `requestBackfillOlder`, `publishSnapshot` | repository, gateway (REST calls, live callbacks), series cache, event bus, chart |
| exchange gateway `infra/exchange/ExchangeGateway` | per live session: stream, timers, attempts, closed backlog | `fetchRange`, `streamLive`, session handlers | exchange; calls the orchestrator back |
| database engine `infra/storage/DatabaseEngine` | history map, ring cache of 20, `previousTimestamp`, observers | warm-up, tick ingestion, cache rebuild, observer calls | file, fetcher, WebSocket client, UI |
| raw client `infra/net/WebSocketClient` | stream, reconnect delay, `wsConnected` light | connect, disconnect, handlers, reconnect | database engine; the chart's light |
| fetcher `infra/tools/CryptoDataFetcher` | none | one history request | database engine |
| indicators `indicators/IndicatorCoordinator`, `IndicatorEngine` | EMA cache with version and pending version per key | `getEMA`, `invalidate`, detached compute | repository, snapshot builder |
| configuration `config/ConfigProvider` | the `Config`, read once | constructor | everything, at start |
| chart `app/ChartController` | viewport, drag, `backfillInFlight_` | pan, zoom, keys, `setSeries`, `maybeRequestBackfill` | application, orchestrator |
| application `app/Application` | last series and version, pending flags | event loop, `enqueueCandleRender` | everything |
| snapshot builder, render manager `app/RenderSnapshotBuilder`, `ui/RenderManager` | the command list of the next frame | `build`, `addRenderCommand`, `render`, `hasCommands` | application, indicators |
| widgets, DI, logging | presentation, wiring | | |

`core/` (event bus, series cache, viewport, time utilities) is used but not part
of the repository; the series cache and the event flag are modelled from their use.

There are two pipelines. The chart's candles go exchange gateway → orchestrator →
repository → series cache → application → controller and builder. The database
engine, with its own fetcher, its own WebSocket client and a data file of its own,
runs beside it; what the window shows of it is the connection light. The two data
files are different files.

What makes each part correct, and what is hard about it:

* **Repository and file.** One candle per interval, no holes, only the newest
  may change; memory, metadata cache and file agree at every return and after
  every crash. Hard: the order and repetition of candles from four callers, the
  writes in the middle of one call, opens of the file that fail silently or empty it.
* **Orchestrator.** A backfill ends, the chart always gets the newest state and
  never an older one, a final value is never undone, stop returns. Hard: three
  threads append and publish; REST answers are late, partial or empty; the live
  connection drops; the process dies anywhere.
* **Gateway.** The answer to a range has no hole before its end, failed pages or
  not; a session always has an operation or a timer under way, and one chain of them.
  Hard: timers race handlers, and what a stopped or reset stream still completes.
* **Database engine and its client.** Map, ring cache, limits and readiness agree; nothing
  written is lost unless opening the file fails, and then the process still has it; the light tells the truth. Hard: the warm-up thread and the
  io thread share a cursor, a cache and a file, in sections under separate locks.
* **Indicators.** A series long enough gets its EMA. Hard: detached computations
  finish in any order and share one pending mark.
* **Chart and render loop.** The window stays inside the series, follows it or stays; the
  frame draws that window; a published series is drawn and never replaced by an older one.
  Hard: a frame reads the cache, its version and the repository one after the other while
  the publisher goes on.
* **Configuration.** CLI over environment over file over default, for each key.

The hazards behind these, each at its line, are listed in `PROJECT.json`.

## 2. Modules

| module | role |
|---|---|
| `CandleLog` | abstract specification: a gap-free log and at most one forming candle |
| `Repository` | the repository and its file; implements `CandleLog` |
| `SyncOrchestrator` | the orchestrator, its threads and the exchange, over `Repository` |
| `FetchRange`, `WsSession` | the gateway's history requests; its live session |
| `Gateway` | both, as the worker uses them: requests, then a session, then stop |
| `ConfigProvider` | the constructor as a function of arguments, environment and files |
| `GatewaySettings` | the gateway with what the process may be started with; states the rule of precedence |
| `PriceDataFile` | `PriceDataManager` as the engine uses it: merge, append, last record |
| `DatabaseEngine` | the engine: load, warm-up thread, ticks, ring cache, summaries |
| `WebSocketClient` | the raw client: one chain of completions, its timer, disconnect |
| `DatabaseFeed` | engine, file and client under the exchange and the main thread |
| `ChartView` | the controller's viewport, in candles |
| `IndicatorCache` | the coordinator's EMA slot and its detached computations |
| `RenderLoop` | the event loop and the frame, over `ChartView` and `IndicatorCache` |
| `MCRepository`, `MCSync`, `MCGateway`, `MCDatabase`, `MCChart` (+ `.cfg`) | instances for TLC |
| `NumberSets` | lemmas: least and greatest elements, sets of numbers in order by rank |
| `RepositoryProofs`, `SyncProofs`, `ExchangeProofs`, `GatewayProofs`, `DatabaseProofs`, `ChartProofs`, `ConfigProofs` | theorems, for every value of the constants |

Definitions whose comment starts with "Mutant" are faulty variants of the
definition that follows; nothing uses them. They show that a property notices
the fault (`PROJECT.json`, "mutants").

### Repository

`candles`, `metadata`, `hasGap` are the members of the same name, `file` is the
record sequence on disk, `answer` is the last `AppendResult`. Every public method
holds `mutex_`, so it is one action: `AppendOrReplace(c)` normalises `c` and takes
one of seven disjuncts, one per path of `appendOrReplaceLocked`; `Open` is the
constructor with its load, sort and refresh; `SealOpenTailIfAny` the public method
of that name (no caller in the application today). `Crash` is process death between
calls; `CrashBetweenWrites` is death between the two file writes of one call,
the only call that writes twice. One record is one buffered write, so a process
death does not tear it; a torn record after a power failure is not modelled.

Times are ticks. `Interval` is a whole number of `Minute`s, the resolution of the
file (`IntervalAssumption`); for intervals below a minute the file merges records
and nothing here applies. OHLCV fields, trade count and symbol are one opaque value.
`appendBatch` (no caller) and the pure queries are left out. The record's interval
label, which `loadHistoricalLocked` would adopt, is always the one the repository
was opened with, because the file name contains it.

`WriteOutcome` says what the opens before a write come to. When `saveRecords` cannot open the
file for update it opens it for output alone, which truncates it, closes it and opens it
for update again (`src/infra/storage/PriceDataManager.cpp:107`): the record then goes into the emptied
file, or nothing is written, over a file emptied or not. The caller is told nothing of it, and
`persistClosed` still reports success. The constructor likewise creates a file it cannot open to look for,
which empties one that exists. With `DiskMayFail = FALSE` everything below holds; with
`TRUE` only order and inclusion survive (run `repository_fault`). Reads of the file are assumed to
succeed (section 6).

### SyncOrchestrator

Extends `Repository` with the exchange (`now`, `faults`, `connected`, `feed`), the
program counters `pc` of the three threads, the page each REST thread works on
(`task`), the locals of `runBackfill` (`plan`), the flags, `publishMutex_`
(`mutex`), the series cache (`cache`) and the throttle (`fresh`, `skipped`).

A step is what another thread can observe as one: a REST answer, one
`appendOrReplace`, each half of `publishSnapshot` (the read of the repository and
the update of the cache, inside `publishMutex_`), a flag change. `runBackfill` is
`BeginBackfill`, then `LeaveLoop`/`FetchPage`, `Widen`/`GiveUp`/`AcceptPage`,
`AppendPage`, the repair (`Repair`, `Fill`, `Retry`), publication, `NextPage`;
then the last publication, `StartLiveStream` or `EndRun`, and `StopLiveStream`.
The handler of the live session is `HandleLive` (or `IgnoreLive` after stop), then
publication. `RequestBackfillOlder` is the call the chart makes with the first
candle it shows, `FetchOlder` and the shared append, repair and publication
actions are the thread it starts. `Boot` is the application constructing the
repository and the orchestrator and calling `start()`, once per process;
`Die` loses everything but the file, possibly between two file writes.

The exchange: `Tick` closes the candle in progress and pushes its final update;
`Push` pushes an update of the candle in progress; `Disconnect` loses what is in
flight. REST marks every candle closed, the one in progress included, as
`fetchRestPage` does. Up to `MaxFaults` answers, the repair's own request included, are empty (all retries
failed) or lack any of their candles (`validateCandle`); `Holes` are candles the exchange never had.
The sleeps (retry, 500 ms, 50 ms) and the throttle's clock are left out: any
delay is possible. `start()` after `stop()` in one process, which the class
allows and the application never does, is not taken.

`finals` and `skipped` are history variables: the candles whose final live update
was handled, and whether the throttle has dropped an update since the last
snapshot.

### FetchRange, WsSession, Gateway

`Begin`, then one `AcceptPage` or `FailPage` per answer, is `fetchRange`: cursor, limit,
merge into the ordered map, end conditions; a page that fails is tried again
up to `MaxRetries` times and then ends the loop with what there is. `refused` and `gaveUp`
record why an answer is short. `Klines` is the page the exchange sends, the candle in progress included.

`WsSession` counts the operations outstanding on the stream by kind (`ops`), so that two
chains on one stream can be told apart. `Abort` is the reset of the stream: what was outstanding completes
with `operation_aborted`. Every handler is an action with its early returns;
`ScheduleReconnect` is `handleFailure` and `scheduleReconnect`, with the attempts that only set the delay.
`LongOutages` says whether an outage may outlast the idle timeout, that is, whether
the idle timer may fire while a reconnect is under way. `closedBacklog_` never holds
more than the candle `deliver` was just given, so it is left out.

### DatabaseEngine, PriceDataFile, WebSocketClient, DatabaseFeed

The engine's two writers are step machines: `warm` is the warm-up thread (`fetch`,
`answer`, `save`, `cursor`, `ingest`, `copy`, `replace`: one step per lock section or
file call of `actualize`) and `tick` is the WebSocket handler in `updateWithNewData`
(ring under `cacheMutex`, then the file, then the map). `history` is the map,
`cache` the ring, `limits` the price limits, `cursor` is `previousTimestamp`, which both
threads write. A candle is its open time and one number standing for its price
range. `SendRequest` and `Answer` are apart: what the exchange opens in between is in the
answer. `Widened` and `LimitsOf` keep the limits as `maxLimit`/`minLimit` do.

Of the file, `saveRecords` and the constructor fail to open it as in `Repository` (`Outcome`, `Opened`): what
it held may be gone, and the page is merged into what is left (`Merge`). `saveRecord` opens it for append,
which empties nothing; if that fails the candle is not written.

`WebSocketClient` has one chain of completions (`io`), so its state is which of them is
outstanding. `disconnect` clears the flags and stops the io context; the io thread finishes
the handler it is in and is joined (`Joined`). `DatabaseFeed` adds the exchange,
the order of the calls in `Application` (load, warm-up, connect, and at the end
disconnect), and crashes.

### ChartView, IndicatorCache, RenderLoop

`ChartView` reckons in candles: series summary, last visible candle, number visible and the
outstanding request. A drag is any number of candles (at most `MaxPan`); the pixel remainder, wheel
anchors in pixels and the mouse's state only decide how many. `SetSeries` is
`setSeries` with its clamps and its choice whether to follow.

`RenderLoop` takes a frame apart into the reads that another thread can come between:
the cache's version (`ReadVersion`), its snapshot (`TakeSnapshot`), the event flag with the choice
between the new series, the kept one and the repository's (`Apply`), the
repository's count, `build`, `render`. `Input` is an event taken in the poll loop or by
`waitEvent`; the loop blocks in `wait` exactly when `hasCommands` is false, as it is
after every `render`. The publisher is the live thread: append, cache, event, apart.
Its subscription to `SeriesUpdated`, made at the end of the application's
constructor, is taken to be there from the start: an event missed before is followed by the
first frame, which looks at the cache anyway.

`IndicatorCache` keeps what an EMA was computed `of` and the version it is stored under apart, because
they can differ (`RenderSnapshotBuilder.cpp:844`). `jobs` are the detached computations;
no candle is appended while `MaxJobs` of them run. `RangeOf` is empty unless its range ends after it
starts, as `TimeRange::empty` has it, so a single warm-up candle is never fetched; in the run, whose
period is 2, the EMA therefore starts from the series alone.

### ConfigProvider

A function, not a machine: `Load(args, env)` goes through defaults, file, environment and arguments as
the constructor does, with `--config` found before and parsed again. One key
stands for each kind of setting; a text is a number, a switch, a
level, a path or junk. `GatewaySettings` adds the argument lists and environments the process
may be started with and asks of each of them, when the process has just started, that every setting is its strongest
source's. `README.md:99` of the repository also names `--trace` and `--debug`, which
`parseCli_` does not know.

## 3. Runs

| run | bounds | shows |
|---|---|---|
| `repository` | interval of 2 ticks, minute of 1, six open times (two unaligned, one that floors to zero), two values | the seven properties of section 4 under every sequence of calls and every crash |
| `repository_fault` | five aligned times, one value, every open for writing may fail and may empty the file | order, and no record on disk that the series does not have |
| `sync` | two exchange ticks after boot, pages of 3, seed of 3 candles, two faulty answers, one live update in flight, publication of 2 candles | the orchestrator's safety and liveness |
| `sync_live_gap` | no faulty answer | **violated**: `ArrivalsAreShown` |
| `sync_paging` | no faulty answer | **violated**: `LiveServesOlderHistory` |
| `sync_hole` | candle 3 missing at the exchange | **violated**: `BackfillEnds` |
| `database` | pages of 2, ring of 2, readiness of 2 candles, an outage at candle 3, one fault (short answer, failing open of the file, failed connection or crash), two starts | engine, file and client together |
| `database_hole` | no fault, no outage | **violated**: `WarmupLeavesNoHole` |
| `gateway` | pages of 2, ranges of up to 4 candles, one retry, an outage, two more candles, three faults; no outage outlasts the idle timeout | requests and session; the configuration's precedence for every list of up to three arguments |
| `gateway_chains` | the same, long outages | **violated**: `OneChain` |
| `chart` | four candles, two publications, view of 2 to 4, canvas of 2 or 4, one gesture that moves or resizes (other events at will), no new candle while an EMA is being computed (two may still be: a frame can read two versions), empty or filled repository | loop, view and indicator against the publisher |
| `chart_stall` | the same | **violated**: `StreamIsDrawn` |

Why the bounds are enough. The repository decides on the tail, the next interval
and the rest; four aligned slots give a tail with a predecessor, a successor and a gap
beyond it. In `sync` the seed window of three is as long as a page, and the candles that open while it is
read force another page, short pages and a widened window; a page of three is the least with a gap
inside it, and of two faulty answers the first makes the gap and the second is the repair's own, which
fails or comes back with holes; two ticks after boot let the candle
fetched in progress close during the backfill, during the subscription or while
disconnected. In `database` a page is shorter than the history and the ring shorter than
both, so every trim, merge and rebuild happens with a tick before, within and after it; the second
start finds the file of the first. In `gateway` three faults are a page that
fails, is retried and fails again, or a failure, a silence and an unknown message in one session. In
`chart` the repository can outgrow the view and the publications; two
publications are the least with which one can be overtaken. Where a safety property has a theorem
(section 5) the bounds only matter for liveness.

Every bound: `MaxNow`, `MaxTime` end the exchange's time; `MaxFaults` the disturbances;
`MaxFeed` the updates in flight; `MaxBoots` the starts of a process; `MaxRev` the
publications; `MaxInputs` the gestures that move or resize the view; `MaxPan` the candles of one drag; `MaxJobs` the detached
computations under way when a candle is appended; `MaxAttempts` the attempt counter that sets a delay; `MaxDelay` the reconnect delay.

Fairness. Weak fairness of each thread's own steps, of requests (they end, if only
by failing) and of timers: the operating system runs runnable threads, sleeps are
finite. Nothing is assumed of the user, of time, of the connection. In `chart` the user
is not assumed to do anything: where a property needs input, it says so
(`KeepsMoving => ...`). The liveness properties rely on the bound of
disturbances where they say that a finite number of them never wedges the program.

Deadlock checking is on for the repository and orchestrator runs. It is off where the program
really stops: the window is closed, the subscription is stopped, or the time of
the exchange has ended and every thread waits for something to happen.

### What the violations are

* `ArrivalsAreShown`: the worker hands over to the live stream; if a candle closes
  in between (or while the stream is down) the first live candle is answered `Gap`.
  `handleLiveCandle` logs it (`src/app/SyncOrchestrator.cpp:634`) and never repairs,
  so every later live candle is a gap too, until a restart backfills.
* `LiveServesOlderHistory`: `backfilling_` is reset by an object whose scope is all of
  `runBackfill` (`src/app/SyncOrchestrator.cpp:269`), the live phase included, so
  `requestBackfillOlder` refuses every request after "Backfill finished". (Were it
  accepted, the older candles would be answered `Overlap` and dropped: in every
  state of `sync` where the paging thread runs it leaves the repository as it is.)
* `BackfillEnds` with a hole: the repair fetches nothing, the retry is refused, and
  `morePages` stays true because a gap was detected: the same page for ever.
* `WarmupLeavesNoHole`: `actualize` asks from `previousTimestamp`
  (`src/infra/storage/DatabaseEngine.cpp:282`), which every tick moves to its own open time. A tick
  before the first request makes the warm-up start in the present, and the next start
  of the program resumes from the newest record: the history between is never fetched.
* `OneChain`: the idle timer is started by `doRead` and cancelled by the next message,
  not by a failure. When a reconnect takes longer than what is left of it, `onIdleTimeout`
  (`src/infra/exchange/ExchangeGateway.cpp:603`) resets the stream the reconnect is
  using and schedules another one.
* `StreamIsDrawn`: `render` clears the commands, so the loop always comes to `waitEvent`
  (`src/app/Application.cpp:193`); `SeriesUpdated` only sets a flag. New candles
  wait for a mouse or key event.

## 4. Properties

Repository: `SeriesContiguous`, `OnlyTailOpen`, `ResumePointIsDurable` (metadata
equals the file), `GapAnswerIsExact`, `FollowedCandlesAreFinal`, `ImplementsCandleLog`;
under opens that fail or empty the file `StrictlyIncreasing`, `DiskWithinMemory`.

Orchestrator: `CacheIsCurrent` (nothing appended stays unpublished, the throttle apart),
`ChartNeverGoesBack` (publications do not overtake), `FinalValuesStick` (a final
live value is never undone by a stale page, a late update or a restart),
`RepairedMeansConsistent` (the log line "Gap repaired and series consistent" is true: every candle from the
first that was missing to the last of the refused page is in the series, whatever the repair's own request
came back with, and no gap is reported),
`BackfillEnds`, `StopReturns`. `FinalValuesStick` speaks only of candles whose final update was handled. A candle
fetched in progress whose final update is lost stays on disk with its partial
value, marked closed; nothing corrects it.

Gateway: `AnswerIsPrefix`, `CleanAnswerIsComplete` (nothing missing unless something went
wrong; the range must begin where the exchange has candles, because a first page that is short
since its window begins before the listing ends the call), `FetchReturns`; `NeverDead` (an operation or a timer is always pending), `OneChain`,
`SessionSettles` (after the last disturbance it comes to read and stays); `ConfigPrecedence`.

Database: `CacheIsOrdered`, `CacheIsBacked`, `LimitsCoverCache`, `SummariesMatchHistory`,
`NothingIsForgotten` (a candle leaves the file only in a step whose open failed; none leaves the map while the
process lives, and the file never holds one that neither the map nor a thread has), `LightIsTrue`,
`WarmupEnds`, `Reconnects`. It does not claim that every candle reaches the file: a merge drops what is older
than the file's last record, and what an emptied file lost is written again only if it is fetched again.

Chart: `ViewInSeries`, `DrawnIsTheView` (controller and builder, which reckon in times and in indices,
mean the same candles), `FollowsOrStays`, `DrawnNeverGoesBack`, `CatchesUpOnInput` (no
interleaving loses an update for good, given input), `EmaSettles`.

Each component's `TypeOK` is its one type invariant. Hazards that no property covers are listed in
`PROJECT.json` with the reason; three more facts met while modelling: the number of
candles a publication asks for (120) is never overridden by the program; `backfillInFlight_` is
cleared by a longer series only, so one refused request leaves the chart silent at that
edge; an EMA can be stored under a version newer than the series it was computed of.

## 5. Proofs

Every theorem holds under the named assumptions on constants of the modules it is about; other
assumptions are in its statement. Each comes from one inductive invariant, checked
with TLC first, with one lemma per action.

**Repository with a sound disk.** `RepositoryProofs` proves, for every interval, every set of open times and values,
and every sequence of calls and crashes, under `IntervalAssumption`,
`InputAssumption` and `DiskMayFail = FALSE` (stated in each theorem):

* `Inductive`: `IInv` is an invariant. `IInv` is `TypeOK`, `FileChain(file)` (records on
  the interval grid, positive, each one interval after its predecessor) and, while
  the repository is open, `Mirrors(candles, file)` (candle i is closed and equals
  record i, but for at most one open candle after the last record), the metadata
  equation, and the shape of a gap answer. `SeriesContiguous` alone is not
  inductive: what `Open` loads depends on the file, and what a crash leaves in the
  file depends on the series, so both must be carried together. The metadata
  equation needs `OnlyTailOpen` to count closed candles by position.
* `TypeCorrect`, `SeriesSound`, `OnlyTailStaysOpen`, `ResumePointDurable`, `GapAnswersExact`,
  `FollowedFinal`: the run's invariants and its action property from `IInv`.
* `RefinesCandleLog`: every step of `Repository` is a step of `CandleLog` or leaves
  its state alone, one lemma per disjunct of `appendOrReplace`.

The lemmas below them are about flooring to the interval (`AlignDown` is idempotent
and lands on the grid; two grid times in order are an interval apart), about
replacing the last element of a sequence, and about what one write does to a file
that is a chain.

**Repository with any disk.** The second part of `RepositoryProofs` makes no assumption on `DiskMayFail`. When
a write is lost or an open empties the file, file and series no longer mirror each other; what remains
(`FaultInv`) is that both rise in open time and that each record has the open time of a closed candle of the
series. That is inductive, because an emptied file rises and is covered by any series, and a write that succeeds,
into what is left, either replaces the record of the same time or goes at the end. `OrderSurvivesFaults`, `DiskStaysWithinMemory`.

**Orchestrator.** `SyncProofs`, over `RepositoryProofs`, for every interleaving of the three threads and for
disks whose opens fail or empty the file. `SyncInv` adds to `FaultInv` the types of every thread's locals and:
`MutexInv`, the holders of `publishMutex_` are the threads inside a publication, at most one;
`ShowInv`, the chain *cache is behind the holder's snapshot is behind the repository*, where one series is behind another
if its newest candle is not newer: that gives `ChartGoesForward`, and shows why the snapshot has to be
taken inside the mutex; `CurrentInv`, if no thread is between its append and its publication (`Dirty`),
then the cache shows the newest candles, or a snapshot about to be put there does: that gives
`CacheStaysCurrent`. `SyncKeepsOrder` carries the repository's order
over to the orchestrator's specification.

**Orchestrator and exchange.** `ExchangeProofs`, over `SyncProofs`: what the exchange's answers and updates
do to the repository through all threads.

* `SourcedInductive`: whatever is in a page, in hand or in flight is a candle the exchange has sent
  (`Sent(now)`: on the interval grid, from the listing to the candle in progress), and a thread about to append
  has something to append. This needs of `SyncAssumption` that the exchange starts on the grid and
  after its listing (`FirstNow % Interval = 0`, `Listed <= FirstNow <= MaxNow`).
* `OrchestratorRefinesRepository`: every behaviour of the orchestrator is one of `Repository`,
  whether opens of the file fail or not: each step is one of the repository's calls or leaves it
  alone. Its hypothesis, `Listed..MaxNow \subseteq Times`, says that the repository's
  specification allows the times the exchange uses. With a sound disk the repository's theorems then hold
  for the whole program part: `OrchestratorSeriesSound` (no hole, only the tail open, metadata equal to the file,
  gap answers exact), `OrchestratorKeepsFollowed`, and `OrchestratorImplementsLog`, the refinement of `CandleLog`
  by the orchestrator with its threads and crashes.
* `FinalInductive`, hence `FinalValuesKept` and `RepairedIsConsistent`. `FinalValuesStick` alone is not inductive: a
  stale page, a late update or a paging thread with a page of any age might still undo a value. `FinalInv`
  says why none can. `FeedInv`: updates in flight are in order, later than every final update handled
  and not before the series' last candle. `WorkerInv`: the worker's page is in order, agrees with the final updates
  handled, and is gone when live updates are taken (none is handled while the
  worker has a page). `RepairInv`: while a gap is repaired the series ends before the refused
  candle, so what is tried again only goes to the end. `PagerInv`: the paging thread's
  page lies before the last candle, so that none of it is taken and none refused; for this the chart's cache must hold
  candles up to the last one only (`SeenInv`). `StoreInv`, `FinalsInv`: series and file have the final
  values that were handled. For `RepairedIsConsistent` there is `SpanInductive` besides: a gap that is
  repaired begins in or after the series and ends within the page, and the last candle to be tried again is
  the page's last; when that one is appended the series reaches it, and a series without a
  hole that reaches from before the gap to the page's end has every candle between. Two hypotheses: `DiskMayFail = FALSE`, because a failed write of a final
  update leaves the older record in the file, which the next start loads; and `PageBars * Interval <= Listed`,
  the paging window is shorter than the time from the epoch to the listing (2000 candles: five and
  a half years of the longest interval `seedBarsFor` knows, a day, and still less than the
  time from 1970 to the first exchange for a week), for the window's start is clipped at time zero
  (`src/app/ChartController.cpp:531`) but its length is not, so that it could reach the last candle.

**Gateway.** `GatewayProofs`. For requests: up to the cursor every listed candle was accepted or
refused (`SeenToCursor`), hence `FetchAnswerIsPrefix`. For `UndisturbedAnswerIsComplete` (`CompleteInv`: the
cursor stays on the grid and inside the range, and `now` has not gone back since the call) the point is
that a page ends the call when it is short: the window of a page holds
no more grid times than the limit (`Window`), so a page is never cut by its limit, and a page with fewer candles than the limit
has all there is from the cursor to the range's end (`ShortPageIsRest`), because a window of
full length without a hole would have filled it. For sessions: `SessionNeverDead` needs no assumption;
`SessionOneChain` needs `~LongOutages`, which `gateway_chains` shows to be necessary, and the strengthening
`ChainInv`: while aborted operations wait to complete there is no other chain, so the one that
follows them is the only one.

**Database engine.** `DatabaseProofs`. `DbInv` says of each thread's locals what the other thread cannot
undo: the warm-up thread's copy is an ordered ring whose candles are in the map; what it ingested is
there too (the map only grows while the process lives); the handler's candle is
either on its way to the map or in it, and so is the candle it closed (`ClosedKnown`). `DiskInv`: what the file
holds the running process knows, from the load on, because every write is of a candle in hand and an
open that fails only takes away; for this the file's records must be normalized and valid (`Filed`), as then the
load finds each of them. Hence `RingStaysOrdered`, `RingStaysBacked`, `LimitsStayWide`,
`SummariesStayTrue`, `NothingWrittenIsLost`, `EngineTypes` and, from the client alone, `LightStaysTrue`.
`EngineTypes` needs that the highest price is below the limits' initial extremes (`Extreme > 2`), as with
`numeric_limits` in the code.

**Chart.** `ChartProofs`. The controller's view is good (inside its series, within its limits) after every
clamp; nothing moves it between building and drawing a frame (`DrawnInv`), hence
`FrameDrawsTheView`, whose arithmetic is that positions and open times differ by a constant in a series
without a hole. `OrderInv`: a series of the cache, once kept, is replaced by a later one only, hence
`NeverDrawsOlder`. `ChartTypes`, `ViewStaysInSeries`, `ChartFollows`.

**Configuration.** `ConfigProofs`: `StrongestSourceWins`, for argument lists of every length and for all files, environments and
texts. The two walks over the arguments are recursive functions. The proof gives each in closed form (what
the last usable option before position *i* says, and whether *i* was taken as a value), shows that it solves the
recursive equation, and that the equation has one solution only: of two different ones, take the
least position at which they differ; it is neither the first nor can it follow one at which they agree. The
hypotheses: arguments are of the four forms, no file's path is the empty text or
the stand-in for "not set", and the list is `WellFormed`, that is, an option is given a value, flags are flags.

The models put candles in order by *rank* (how many are not newer), not by a recursion over the
sequence: `NumberSets` proves that the ranks of a finite set's elements are the numbers from one to its
size, each once (they differ, and there are as many), which is all the proofs need of a sort.

**Only model-checked**: all liveness, for fairness and ENABLED are outside the prover: `BackfillEnds`, `StopReturns`,
`WarmupEnds`, `Reconnects`, `FetchReturns`, `SessionSettles`, `CatchesUpOnInput`, `EmaSettles`. Every safety
property of a passing run is proved. The violations of section 3 are found by TLC; the theorems next to them
hold under the assumption whose absence each violation shows (`~LongOutages`), or speak of
something else.

## 6. Not modelled

* Drawing, price scale, labels and layout (`RenderSnapshotBuilder` but for the window and the EMA
  request, `ui/` but for the command list): floating point and pixels, no state beyond a frame. This is
  the larger part of the program's lines.
* The arithmetic of the EMA: floating point; only from which candle on it has values is
  modelled. The incremental and the synchronous branch have no caller.
* Logging; the DI container and `main` (single-threaded wiring; the order of the calls it makes is
  in `DatabaseFeed`); the legacy directory and tools without a caller.
* `core/`: not in the repository.
* JSON, TLS and time zones, short writes of a record, a power failure within one.
* Reads of the candle file that fail: `readAllRecords` then returns nothing, and `saveRecords` takes the file
  for empty and may append what it already holds (`src/infra/storage/PriceDataManager.cpp:118`). The
  opens for writing, with what they empty, are modelled.
* `start()` after `stop()` in one process, which the orchestrator allows and the application never does;
  destruction of the orchestrator under its detached paging thread.
* The observers of the engine: the only one, the price grid, is never on the scene.
