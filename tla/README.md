# TLA+ verification of crypto_predict

TLA+ modules that model the market data pipeline of this repository, TLC
configurations that check them on small instances, and TLAPS proofs of the
properties that matter most for every instance. Paths below are relative to the
repository; `backend/app/` is left out where it is clear.

1. [The system](#1-the-system)
2. [Modules](#2-modules)
3. [Runs](#3-runs)
4. [Fairness](#4-fairness)
5. [Proofs](#5-proofs)
6. [Where the code differs from its documents](#6-where-the-code-differs-from-its-documents)
7. [What is left out](#7-what-is-left-out)
8. [Plan](#8-plan)

## 1. The system

```
Binance WS ──> ingestor ──kline.closed──> Redis pub/sub ──> data_saver ──> TimescaleDB
                  │  └──gap_detected──────────┤                               ^   │
                  │                           ├──> gap_fill ──(REST)──────────┘   │
                  │   kline.closed again <────┘                                   v
                  └──trade.tick, kline.partial──> gateway ──WS──> browser <──REST── backend
```

Three worker processes, one API process and the browser. They share only Redis
channels, which keep nothing for a process that is not subscribed, and the
tables `symbols`, `intervals` and `klines`. Each worker is restarted when it
ends (`restart: always`, deploy/docker/docker-compose.runtime.yml).

| Component | State it keeps | Operations | What makes it correct |
|---|---|---|---|
| **Ingestor** A1/A2/B2, `workers/binance_ingestor.py` | the connection and its age, failures in a row | connect, receive, rotate after a day, publish, back off | a candle is published or shows up in a gap; it always gets back to a live connection |
| **Gap detector** A3, `services/gap_detector.py` | last close time per symbol and interval | `detect_gap` | names every skipped candle, once, and nothing else |
| **Data saver** C2, `workers/data_saver.py` | the batch, two id caches, a pool; two asyncio tasks | receive, flush by size, flush by time, close | no record forgotten, repeated or overtaken; caches and foreign keys agree; a flush fails only for a cause |
| **Gap fill** C3, `workers/gap_fill_worker.py` | the window in hand, REST attempts, id caches | fetch with retries, upsert, publish again | a window counts as filled only when its candles are stored and published |
| **Database** `migrations/` | rows under unique and foreign keys | upserts, transactions | one row per candle; recovered rows stay recovered |
| **REST service** D2, `services/market_service.py` | a class-level pool and Redis cache | cache, else database, else Binance (and seed both), else mock | answers are current and never block the closed candle from being stored |
| **Gateway** D1/D3, `ws/market_gateway.py`, `main.py` | the client table, the Redis loop | connect, set_watchlist, broadcast, disconnect, readiness | clients get what they ask for; who left is forgotten (not after an uncaught error); ready means delivering |
| **Candle series** E1/E2, `frontend/src/hooks/useHybridKlines.ts` | the series, a session cache | bootstrap, kline, tick, clock, switch, reload | shows only the chosen symbol and interval, one item per candle of the exchange, and the final values of what has closed |
| **Browser socket** `services/marketWsClient.ts` | one socket | connect, set_watchlist, close | an old choice's socket is not the new one's |
| **Watchlist** E3, `hooks/useWatchlistTicks.ts` | a price per symbol, flash timers | poll REST, tick, dispose | no trade and no poll of an older choice reaches the rows; a flash that no later trade starts again ends |
| **Server clock** E4, `hooks/useServerTime.ts` | an offset and a tick | sync, tick | the clock moves the series as the exchange does |
| Screen, event contracts, configuration, metrics, probes, deployment | none that the pipeline depends on, but for the choice of symbol and interval | | |

How they interact, and where that is hard:

- *Two tasks, one batch.* `run_forever` and `_periodic_flush` of the data saver
  both call `flush_to_db`. The batch is taken under a lock, but the upserts, the
  id caches and the transaction are used across awaits without one.
- *Errors end things.* What one `except` catches decides whether a window, a
  connection, a task or the process ends. The model has an action per error and
  place, with what the code then skips.
- *At most once.* Records leave the batch before they are stored; the detector
  moves on before its window is published; ids are cached before their
  transaction commits. Whatever fails in between decides what is lost.
- *Two writers of `klines`.* The data saver inserts with DO NOTHING, gap fill
  with DO UPDATE, and what gap fill publishes comes back to the data saver.
- *One loop for all clients.* The gateway sends to one client after the other
  from a copy of its table, while endpoints join, change and leave; a send may
  stall or fail, and which exception it raises decides who cleans up.
- *History, events and a clock write one series.* In the browser, answers of
  requests, events of a socket, ticks of the clock and choices of the user come
  in any order, and each effect must recognise what is no longer its own.
- *Time.* Rotation, backoff, ping timeout, flush timer and REST retries run
  against the arrival of messages in every order.

PROJECT.json lists the hazards of the code by line, those that no property
covers included.

## 2. Modules

| Module | What it is |
|---|---|
| `DataSaver` | the C2 worker with Redis, the schema and its restarts |
| `RecordSink` | the promise of C2: a message is held, then stored or dropped, once and for good |
| `Ingestor` | the A1/A2 worker with the A3 detector and the exchange |
| `GapFill` | the C3 worker with the REST API and the other writer of `klines` |
| `MarketGateway` | the D1/D3 gateway with its endpoint, the browsers' connections and Redis |
| `MarketService` | the D2 service: its pool and cache, concurrent requests, the other writers of `klines` |
| `Pipeline` | `Ingestor` and `GapFill` over one `klines`, with Redis between them and the C2 worker as the second writer |
| `CandleStore` | the promise of `klines`, whoever writes it: rows of closed candles only, and recovered rows are final |
| `HybridKlines` | the E1/E2 series with its session cache, the socket, the E4 clock and the user's choices |
| `WatchlistTicks` | the E3 prices with their polls, trades and flash timers |
| `MCDataSaver`, `MCIngestor`, `MCGapFill`, `MCMarketGateway`, `MCMarketService`, `MCPipeline`, `MCHybridKlines`, `MCWatchlistTicks` | instances for TLC |
| `DataSaverProofs` | proofs about `DataSaver` |
| `IngestorProofs`, `GapFillProofs`, `MarketGatewayProofs`, `MarketServiceProofs`, `HybridKlinesProofs`, `WatchlistTicksProofs`, `PipelineProofs` | proofs about the module they are named after |

The modules use no RECURSIVE operator, so that all of them can be proved about.
Operators whose name begins with `Mut` are not part of a model. Each is a
plausible wrong version of the operator after it, and a property that does not
fail with it put in place would say nothing about the code. The few general facts
the proofs need (the range of a queue, the least number of a set) are lemmas of
the module that uses them.

### DataSaver

A step is what a task runs between two suspension points, as asyncio schedules
them: everything between two awaits is atomic, everything else interleaves.

| Model | Code |
|---|---|
| `main`, `periodic` | the line where `run_forever` / `_periodic_flush` is suspended |
| `inbox` | messages in the pub/sub connection |
| `batch` | `_batch` |
| `job[t]` | the locals of `flush_to_db` and the transaction of task t: records, names still to look up, dimension rows used, rows upserted, records inserted, rows its foreign key checks have locked |
| `cache` | `_symbol_id_cache` and `_interval_id_cache`, as one set of pairs |
| `dims`, `nextId`, `klines` | committed rows |
| `fate`, `faults` | history: what became of a message, what went wrong |

Some choices that are not obvious:

- `_batch_lock` does not appear. Its two bodies contain no await, so it is never
  found taken and each body is part of one step. `_db_pool is None` is never
  true while messages are read.
- The two dimension tables are one relation and the two caches one cache. The
  names of symbols and intervals do not overlap and both go through the same
  upsert, so one relation keeps every order of locks and every foreign key.
- INSERT .. ON CONFLICT DO UPDATE waits while another open transaction has
  upserted the row or refers to it: the upsert sets the unique name, so PostgreSQL
  locks the row FOR UPDATE. The insert of a candle waits for an open transaction
  that has inserted the same one. Its foreign key check, first of the symbol and
  then of the interval, sees committed rows and those of its own transaction, and
  waits for a row that the other has upserted, as it locks it FOR KEY SHARE
  (`WaitsFor`). When both tasks wait, PostgreSQL ends either transaction
  (`Deadlock`). Row locks of gap fill and of the REST service are not modelled;
  what a deadlock with them does to a flush is a database error.
  An error or a cancellation at COMMIT may or may not take effect.
- A name found in a cache does not suspend, so `Advance` goes on to the next
  name that is not cached.
- SIGINT cancels the main task at its await (`Interrupt`) and runs `finally`.
  SIGTERM, SIGKILL and memory exhaustion (`Crash`) run nothing.
- An exception in the timer flush leaves `periodic = "failed"`. Nobody looks at
  the task before the `finally` block, where awaiting it raises again and
  `close()` is skipped.
- config.py:26-27 allows `batch_size` above `max_batch_size`; only then does the
  worker reach `pop(0)`.

### Ingestor

Time is counted in candles: candle n of a key closes after n intervals.
`CloseCandle` is the exchange; what it sends while there is no connection
reaches nobody. `Rotate` is the age check between two messages, `LinkDies` and
`Noticed` the loss of the peer and what the ping timeout makes of it. Trades and
open candles take the same path as closed ones and change no state, so they show
as steps of the clock and as faults (`TickBusError`). A parse error drops one
message; any other exception drops the connection with its buffer (`Fail`).
`seen`, `announced` and `lost` are history: the candles this process showed the
detector, and the windows whose publication worked or did not.

### GapFill

A candle of a key opens at 2n - 2 and closes at 2n - 1, because it closes just
before the next one opens: enough to tell selection by open time from selection
by close time. Which one the REST API uses is external and a constant
(`RestKey`); Binance documents open time. The transaction is one step: the
worker has one task, and what other transactions can see of it is its commit or
its end. `StoreLive` is the data saver committing a row it received, from the
ingestor or from gap fill's own rebroadcast. `ids` says per key whether the
worker's cached ids are those of a row, or dangling after a rollback.
Busy answers (timeout, 429, 5xx) are not counted as faults: the API may be busy
for as long as it likes. `queue` is the set of candles still to be published;
`Due` takes them in the order of time, as the worker's list has them.
`rows` are the candles of the answer that have all their fields: the loop over
the answer skips a row with fewer than seven, and what is left is stored and
published as if it were all (`FetchedShort`; `short` is the history of what was
skipped). When nothing is left, the transaction holds at most the ids and the
window is done. A body that is not a list passes for an empty list
(`FetchedOther`, fate `"garbled"`).

### MarketGateway

A step is what the Redis loop or one client's `ws_market` runs between two
awaits that can suspend. `_lock` does not appear: no body under it contains an
await.

| Model | Code |
|---|---|
| `loop` | `_running_task`: off, failed to start, listening, broadcasting, dead, stopped |
| `bus`, `targets`, `waiting` | events in `_pubsub`; the rest of the copied client list; the client whose `send_json` is awaited |
| `table`, `wants` | the keys of `_clients` in order; the symbols and intervals of each subscription |
| `endpoint[c]` | where `ws_market` is for a client: accept, receive, awaiting an acknowledgement, ended, or failed by an error it does not catch |
| `broken` | sockets whose application state became DISCONNECTED because a send failed |
| `peer`, `inbox` | the connection as the server's transport sees it; set_watchlist messages not yet read |
| `handled`, `wire`, `since` | history: events read, frames handed to the transport, and where both stood when the watchlist in force began |

- A send hands its frame to the transport at once and then waits while the
  buffer is full, so a frame is placed in the order of the steps even if the
  send suspends. The filter is evaluated when a broadcast comes to a client, not
  when the list was copied.
- Starlette turns the error of a failed send into WebSocketDisconnect and
  raises RuntimeError for any send after it; `ws_market` catches only the
  first. `ReceiveLate` has both.
- Any other error of the endpoint ends it without `disconnect()`: a binary frame
  or JSON nested too deep (`Unreadable`), or a name that cannot be encoded, which
  is in force when the acknowledgement raises (`Unsendable`). The server then
  closes the connection, behind a frame that a broadcast is still sending.
  Nothing makes a browser do this or keeps it from it: no fairness.
- Messages that do not parse or carry another action are `continue` and not
  actions. The acknowledgement repeats the watchlist as asked for, also when the
  limits cut it (`AckFrame` has the uncut one).
- `stop()` comes after the server has ended all endpoints. For a dead loop it
  raises the loop's error again; the process ends all the same.

### MarketService

One symbol and interval: others share nothing with it but the pool, and an
opener on their behalf is a request of this key as far as the pool can tell.

| Model | Code |
|---|---|
| `stage[r]`, `limit[r]`, `rows[r]` | the await where `get_historical_klines` is, its argument and its list of candles |
| `origin[r]` | which `return` answered: cache, database, REST, mock, or an uncaught error |
| `pool`, `opened` | `_db_pool`; history: who ran `create_pool` |
| `cache` | the list under `history:klines:...` in Redis |
| `klines`, `now` | the row of each candle, with closed or unfinished values; the open candle of the exchange |
| `failed`, `faults` | history: which call failed for a request |

- A candle is its number and whether its values were final when they were
  fetched. Prices are left out, and so is the filtering of rows that do not
  validate.
- `_redis_cache` is created without an await and never seen half made; the pool
  is created across one, so that `OpenPool` may run for two requests at a time
  and the later assignment wins. The first pool stays open and is used by nobody
  after its opener; TLC finds `opened` with two members, which no document
  forbids.
- The lifetime of a cache entry is `Expire` at any time, or never.
- `_seed_cache` also runs when reading the cache is switched off
  (`CacheEnabled`), as in the code.
- The emergency mock is a source, not a list: nothing in this module depends on
  its candles. What they do to the chart is in `HybridKlines` (`Mock`).
- Only `httpx.HTTPError` is caught around the REST call, so a body that is not
  JSON ends the request with an error (`RestGarbage`).

### Pipeline

The variables of `Ingestor` and `GapFill` side by side; `ingesting` and
`filling` are their stages. `Ingest` is a step of the ingestor, and if it
publishes a window, the delivery of the window to the worker's `inbox` (or to
nobody, when the worker is down) is the same step, because Redis pub/sub has no
memory. `Fill` is a step of the gap fill worker. `Store` is the DataSaver
worker committing a candle that the ingestor or gap fill published; what that
worker does before is in `DataSaver`, and that it may never come to it is left
open here. A restart of any of the three leaves `klines` alone.

`CandleStore` has only the exchange (`Close`) and the table. `Recover` needs all
its candles to have closed: this is where the detector's `to_ts`, the worker's
`endTime` and the API's selection must fit together.

### HybridKlines

JavaScript runs one callback at a time, so a step is a callback.

| Model | Code |
|---|---|
| `effects`, `pending` | the bootstrap effects so far, one per choice, the last one active; those that await `fetchHistoricalKlines` |
| `series` | `klines`: a function from close times on the chart to items |
| `status` | `isLoading` and `error` |
| `clock` | `nowMs` of useServerTime.ts |
| `cache` | the sessionStorage entries, per key |
| `socket`, `watched`, `handlers` | `MarketWsClient.ws`, the watchlist the server filters by, the effects whose handlers listen |
| `now`, `bus`, `missed` | the exchange, events on their way, closed candles the ingestor did not publish |
| `opened`, `spoilt` | history: when the socket opened, stamps that a late trade went into |

- An item is the key whose prices it shows, whether they are those of a closed
  candle, and whether it stems from one the REST service made up: enough to see a
  candle of another choice on the chart, an unfinished one in place of a final
  one, and one that no exchange ever had. Time has two units per second, so that
  a close time (one unit before a full second) and its stamp without
  milliseconds differ.
- `Answers` are the lists the REST service may return: the newest candles up to
  a moment that may lie in the past, because it caches; the newest of them with
  final or unfinished values. `Mock` is the list it makes up when it has no source
  left (a fault of the kind `sources`): one candle per interval, back from the
  time of the answer. The clock and the trades pass the mark of the last item on
  to what they add or change; a kline of the exchange has none.
- React applies state updates in the order they are queued, and nothing else
  reads the state in between, so the update is part of the step that queues it.
- The server filters by the watchlist of the socket when it sends. An event of
  a key that is not chosen when it is published is left out, as nobody would
  be sent it; one of a key that was chosen stays on `bus` when the user goes on.
- A clock behind the exchange adds nothing to a series that already has the
  candle, so skews are not negative. A full session storage only makes
  the cache forget.
- `updateWatchlist` after `connect` repeats what the URL has. The `open` listener
  of `sendWhenReady` is part of `SocketOpens`.

### WatchlistTicks

Here the moment at which React applies an update matters, because the update of
a trade starts a timer. So `queue` holds the calls of `setRows`, and `Render`
applies all of them in order (`Rendered` is the fold). `timers` are the running timeouts, `ref` is
`timersRef.current`, `polls` counts the requests of each effect that are not yet
answered. The cleanup of an effect (`ChooseInterval`) stops the timers that
`ref` knows at that moment; a trade still in the queue starts its timer after it.

## 3. Runs

| Run | Instance | Shows |
|---|---|---|
| `saver_faults` | 4 messages of 3 candles (one sent twice), 2 symbols, 1 interval, empty tables, batch 2 of at most 3, two faults of any kind | `TypeOK` (with the limits of the batch), `Accounted`, `SavedInKlines`, `CacheBacked`, `NoUpsertCycle`, and `RecordSink` as a refinement |
| `saver_seeded` | the same with rows in place, fair | `EventuallySettled`, `LossHasCause` |
| `ingestor_gaps` | 2 keys, 4 candles each, 2 faults of any kind, backoff of at most 3 s, deadlock checked | `GapsFound`, `GapsAreReal`, `TypeOK` (the backoff is bounded), `StreamResumes` |
| `gapfill_faults` | 3 windows on 2 keys, one longer than a request, two live candles, a busy API, 2 other faults | `TailFilled`, `SentStored`, `NoneMislaid`, `RecoveredStays`, `TypeOK`, `EverySettled` |
| `gateway_clients` | 2 clients, 2 trade ticks, 2 watchlists of which one exceeds the limit and only that one matches, 1 change of watchlist, 1 Redis error, fair | `Served`, `Tended`, `TypeOK`, `GoneForgotten`, `BusDrained` |
| `service_requests` | 2 requests for 1 or 3 candles, settings that allow 2, 3 candles, 2 faults of any kind, deadlock checked | `AnswerInOrder`, `LastResort`, `ClosedStays`, `TypeOK` (no answer is longer than its limit), `Answered` |
| `pipeline_gaps` | 1 key, 5 candles, requests of 2 candles, 1 fault in each process and a busy API, deadlock checked | `HolesExplained`, `GapsSettled`, and `CandleStore` as a refinement |
| `hybrid_page` | 2 intervals of one symbol (one twice the other), 3 choices or reloads, 2 candles on the chart, a clock up to a candle ahead, answers up to a candle old or made up, 1 fault, one close of both intervals | `OwnCandles`, `FinalShown`, `Aligned`, `TypeOK`, `LoadingEnds` |
| `watch_panel` | 1 symbol, 2 prices, 3 trades, 1 poll besides those of the effects, 2 effects, 1 lost socket, fair | `RowsOfCurrent`, `FlashTended`, `TypeOK` (one timer per row), `FlashEnds` |
| `saver_burst`, `gapfill_hole`, `gateway_ready` | as small as the case allows | a statement of the documents that the code does not meet (section 6) |

Why the bounds are enough:

- *Messages.* Two tasks flush at the same time only when a size flush is
  followed by a timer flush, or the other way round. With batches of two, four
  messages give each task a flush, leave one in the batch and one unread. The
  two symbols occur in an order that makes the flushes ask for the same rows.
  The repeated candle is what gap fill publishes again.
- *Faults.* Every error path is one fault from a running state; the second one
  hits the handling of the first (a rollback that fails, a signal during a
  restart, a dead timer task followed by a Redis error).
- *Candles.* Four per key are enough for a handled candle, a gap of one and of
  two, and a second gap after the first; two keys interleave on the connection.
- *Windows.* One longer than `Limit`, one that ends at a live candle, one after
  another on the same key, so that an id cached for the first is used by the
  second.
- *Clients.* Two: one in the hands of the broadcast, one that joins, changes,
  stalls or leaves meanwhile; their order in the table is both ways round. Two
  events, so that one waits on the bus while the other is sent. One change of
  watchlist, which falls before, between and after the two turns of its client.
- *Requests.* Two: both open the pool, one answers from the cache the other
  seeded, one stores candles the other reads. The limits lie below and above the
  settings' limit, so that lists are cut by either. Three candles: one closed
  before a fetch, one that closes between a fetch and its seed, one still open.
- *Pipeline.* Five candles: one seen, a gap of three, which exceeds the limit,
  and the one that reveals it; or two gaps of one; each with a fault of either
  process at any step.
- *Chart.* Three effects: a choice, another one while the first is unanswered,
  and a return to the first, whose session entry is then there. Time
  passes one close of both intervals, after which a candle of the clock, a
  trade, a late trade and the event of the closed candle meet in any order, also on
  a chart of made-up candles, whose stamps on the long interval are not those of
  the exchange. Two candles on the chart make every added one push another off.
- *Panel.* Two trades start a timer over the other's, and a third one stops the
  timer that stopped the first; a trade and a poll, or two polls, overtake each
  other; two effects let any of them belong to the older one. One symbol is
  enough, because an update of one row leaves the others alone: rows share only
  the queue and the cleanup. Two queued updates are enough for a reset to fall
  before or after another update.
- *Overflow.* No run has `batch_size` above `max_batch_size`. `TypeCorrect` covers
  it: it is proved without any relation between the two.

CHECK_DEADLOCK is off in the runs of DataSaver: a worker whose timer task has
died and whose subscription is silent has nothing to do; in those of
MarketGateway, which ends when it has stopped; and in those of HybridKlines and
WatchlistTicks, where time and trades end at their bounds and the page then has
nothing to do. The runs of `Ingestor`, `GapFill`, `Pipeline` and `MarketService`
check for deadlock.

## 4. Fairness

On the steps of a process only, and weak but for one case:

- an asyncio task that can run is scheduled: the event loop is FIFO;
- an await of the database, of Redis or of HTTP returns or raises. asyncpg and
  httpx raise on a closed connection, httpx after 15 s; a slow answer is a step that
  has not happened yet;
- a dead Binance connection is noticed, because the connection is opened with
  `ping_interval` and `ping_timeout` (binance_ingestor.py:74). The model's
  mutant without it never gets back;
- a request of the REST service is resumed when its await is over, and each of
  its awaits ends or raises: httpx after 15 s, asyncpg and Redis as above.
- a process that ended is started again (`restart: always`).
- a send of the gateway that waits for a full buffer is woken for good when the
  buffer has drained once, even if it fills up again before the task runs:
  strong fairness of `Loop` and `Endpoint(c)` in `MarketGateway`. That a stalled
  client ever drains or is dropped is not assumed: it is the premise of
  `BusDrained`, because the code has no timeout on a send and the keepalive ping of
  the server waits behind the same full buffer.

- `Pipeline` has the fairness of its two workers, and none of `Store`: that a
  gap is settled does not depend on the DataSaver worker.
- in the browser, a request ends with an answer or an error (`Answer` of
  `HybridKlines`: that the service answers is `Answered` of `MarketService`),
  React renders what is queued, and each timer that nobody clears fires (`Render`
  and `FlashOver(t)` of `WatchlistTicks`, fair for every timer by itself). A
  timer that is cleared never fires, and nothing is assumed of the timers of a
  row together: trades that come faster than 150 ms may clear every one.

Nothing is assumed of publishers, of the exchange, of other writers and of
faults: they may stop or never happen.
A statement that waits for a row lock is enabled again for good when the other
transaction ends, and `FlushStep` is fair per task. If the other one waits as
well, the step that is left is `Deadlock`: PostgreSQL looks for cycles after
`deadlock_timeout` and ends one of the transactions.

## 5. Proofs

All proofs are for any value of the constants under the ASSUME of the module:
naturals for bounds, positive batch sizes, seed rows that are finite in number,
fault kinds from the listed set. No relation between `BatchSize` and
`MaxBatchSize` is assumed.

**DataSaver.**

- `TypeCorrect` proves TypeOK: the types (`Shape`), from lemmas on what each
  helper returns, and the limits of the batch (`BatchBounded`), because only
  `Receive` lets the batch grow, and it flushes at `BatchSize`.
- `NothingForgotten` (Accounted), `SavedExactly` (SavedInKlines) and
  `SaverRefinesSink` (SinkSpec). Accounted says that the four places of a
  record (timer flush, main flush, batch, inbox), laid end to end, are the open
  messages in order. It is not inductive. That a flush may overwrite `job[t]`
  needs the flush before it to have ended, and that the batch may follow the
  main flush needs it to have been empty: `Control` says what each task leaves
  idle where. That a new message is the newest needs `Numbered`. The refinement
  follows from the invariant, because every action then moves a set of open
  messages to a settled fate.
- `LossesExplained` (LossHasCause): with the dimension rows in place, `Backed`
  keeps every id in use committed, so that no foreign key check fails, and
  `Reasons` ties each way out of the loop to a fault that happened or to a
  deadlock, which leaves the records of one flush `"deadlocked"` for good.
- `CachesBacked` (CacheBacked) and `LocksFree` (NoUpsertCycle). An id enters the
  cache with the upsert of its row, which the transaction then holds
  (`Remembered`), and a process starts with an empty cache (`Fresh`). A task
  stops in its list of names only at one that is not cached (`AdvanceStops`),
  while all that the other transaction holds is: so of two tasks that wait for
  each other's upserts, the later one cannot be waiting for the earlier. That
  ends once one of them inserts: its foreign key check waits for rows it took
  from the cache (section 6).

**Ingestor.** `NothingOverlooked` (GapsFound) and `NothingInvented` (GapsAreReal:
`NamedOnce` and `RevealedFirst`) from one invariant, `GapInv`. Whether
the detector may compare only with the last candle depends on the connection:
candles of a key arrive in order (`Ordered`), later than all that the detector
remembers and all windows found before (`Ahead`); the detector remembers the
newest it was shown (`Remembers`); and old windows lie behind it even when a
restart has emptied its memory (`Behind`). `IngestorTyped` (TypeOK)
bounds the sleep by `ReconnectMax` (`BackoffBounded`): of the power of two it
needs only that it is a number (`PowerNat`). No more failures are counted than
happened, as a dead link is one whose failure is still to be counted (`Counted`).

**MarketGateway.** `SessionsCapped` (TypeOK, with the limits of a session) and
`TableTended` (Tended) from `GatewayInv`. That every client in the table has an
endpoint to remove it depends on what a failed broadcast leaves behind: its
client is out of the table, and its endpoint may end with an uncaught error. So
broken sockets must stay out of the table (`BrokenOut`), which holds because
whoever a broadcast deals with has been in the table already (`Met`), and
because removing a client leaves no second entry (the table has no repetition,
`RemovalOnce`). The exception is a client whose endpoint failed by an error that
is not caught: its connection is closed, at the latest after the one send that
the loop awaits (`OneWait`). The limits rest on each element of sorted(S)[:cap] having a rank
of its own (`TruncatedCap`).
`EveryoneServed` (Served) follows one event through the turns of the clients.
What a broadcast has still to look at has no repetition and is empty outside of
a broadcast (`Turns`); a client it has still to look at was sent everything
but the event in hand, any other everything (`AllTold`). The frame of an event
is found by its rank among the events that match (`SentAs`), so that one more
event either adds the next frame or leaves all as they were.

**MarketService.** `ServiceTypeOK` (TypeOK), `ServiceInOrder` (AnswerInOrder),
`ServiceLastResort` (LastResort) and `ServiceClosedStays` (ClosedStays) from
`ServiceInv`. An answer passes through three sources and a cache that other
requests seed, so the invariant speaks of every list on the way: in the
cache or in the hands of a request it is in order and within the settings' limit
(`Shared`, `Lists`), what is handed on is not empty (`Progress`), and an
emergency answer has its failure on record (`Excused`). A list is the one way to
number a set of candles by rank, which exists and is ascending.

**GapFill.** `WorkerTyped` (TypeOK), `PublishedIsStored` (SentStored),
`RecoveredIsFinal` (RecoveredStays), `EachHasItsPlace` (NoneMislaid) and
`TailsFilled` (TailFilled, for an API that selects by open time). What is published depends on what the worker holds
between its commit and its last publication: there is one window in hand and a
queue only while sending (`InHand`), what is queued is stored (`Stored`), and the
queue with what was sent and what came short is all that the API returned
(`Sending`). That the API
returns all of a window but its first candle is a count of the candles before
each (`TailReturned`). `NoneMislaid` is the safety half of EverySettled: it needs
the inbox to have no window twice, nor the one in hand (`Apart`), so that a verdict
on this one is none on another.

**Pipeline.** `PipelineRefinesStore` (StoreSpec): the three workers implement
`CandleStore`, for either way the API may select. A row is written only for a
closed candle, and for a recovered one that depends on the window, on the candle
that revealed it, and so back to the exchange. The invariant says of each place
on that way that nothing in it is newer than the last candle to close
(`PastEvents`, `PastWindows`, `PastRows`).
`NoHoleUnexplained` (HolesExplained, for an API that selects by open time) is a
composition: the workers of the pipeline are shown to be those of `Ingestor` and
`GapFill` (`IngestorKept`, `FillerKept`; the windows announced are among those
GapFill allows because `GapInv` bounds them), so that `IngestorInvariant`,
`WorkerTyped` and `TailsFilled` hold of them through an instance of the two proof
modules. What joins them is that a published window has met the worker (`Born`),
and that the API is never without a candle for it (`NeverEmpty`).

**HybridKlines.** `ChartOfTheChoice` (OwnCandles). A live chart could take a
foreign candle from an old answer, an old handler, the clock or the session
cache. So what listens must be handlers of the
last choice, whose history has come (`Listening`). And the clock and the
trades only ever repeat the newest item, which exists because every series is
bounded (`Charts`, `HasMax`). `PageTyped` (TypeOK) adds the rest of the variables
(`Rest`).
`ClosedCandlesShown` (FinalShown) follows the event that closed a candle from its
place on the bus to the chart (`Followed`), over every change of effect and
socket. All behind it on the bus tells of later times (`Later`), and no event is
ahead of the exchange (`BusTimes`), so nothing that comes after the event puts
other values in its place. It holds for any `Phase`, also where the
clock's candles are not those of the exchange: the extra items have other stamps.
`ChartAligned` (Aligned) has one hypothesis, `Epoch`: candles open at multiples
of their interval. That is so for every interval of the code but 1w (section 6). Then
the clock's close times are those of the exchange (`ClientOnGrid`), every stamp on
a chart is that of a candle that has opened by the most advanced clock, or its
item is marked as made up (`Gridded`), and those are finite in number
(`FiniteBounded`).

**WatchlistTicks.** `WatchlistTyped` (TypeOK), `OldChoicesSilent`
(RowsOfCurrent) and `FlashesTended` (FlashTended, the safety half of FlashEnds)
from `PanelInv`, for a queue of any length. That a row has one timer follows from
`Tight`: every timer that runs is the one `timersRef` has for its row, so the
update that starts another one stops it. A flash that is on has its timer, or
its end still in the queue (`Lit`). The end may be that of an earlier flash,
which section 6 notes.
What a render leaves after the whole queue looks like induction over the queue;
the proof takes the first update after which the rows would be wrong, as a set
of numbers has a least element, and finds that the update before it was wrong
already (`WalkExists`, `RenderedGood`).

Only model-checked: the liveness properties (StreamResumes, EverySettled,
EventuallySettled, BusDrained, GoneForgotten, Answered, GapsSettled, LoadingEnds,
FlashEnds), because liveness under fairness and ENABLED are out of the prover's
reach. Every other property of the runs that pass is proved for all instances,
`TailFilled` and `HolesExplained` for an API that selects by open time, and
`Aligned` for intervals that divide the epoch.

## 6. Where the code differs from its documents

Each is a run that TLC must find violated.

- `saver_burst`: on empty tables, the two flushes of one burst share an id whose
  transaction is still open. The faster one breaks its foreign key and its
  batch is lost, without any fault. Task_Breakdown:128 asks for no loss in a
  burst.
- `gapfill_hole`: `startTime` is the close time of the first missing candle, and
  the API selects by open time, so that candle is never fetched
  (Task_Breakdown:139). A gap of one candle is never filled.
- `gateway_ready`: an error raised by `listen()` ends the Redis loop for good;
  `is_ready` still finds every field set and /readyz answers 200 (api.md:113,
  the comment at main.py:79).

Observations without a run:

- The two flushes of one burst may deadlock, also with all dimension rows in
  place and without any fault. The main flush has upserted the interval and waits
  for a symbol the timer flush has upserted; the timer flush takes the interval's
  id from the cache, and its foreign key check (data_saver.py:143) waits for the
  main flush. PostgreSQL ends one of them, and its batch is lost
  (Task_Breakdown:128): with `SeedNames` as in `saver_seeded`, no fault and
  `NoLossInBurst` as invariant, TLC shows it. In `LossHasCause` it is a cause of
  loss, with the fate `deadlocked`.
- `ws_market` catches `WebSocketDisconnect` and nothing else (main.py:150). After
  a binary frame, for one, the client stays in the table with no endpoint to
  remove it (Task_Breakdown:187), until a broadcast of an event that matches its
  watchlist fails for it. Whether one comes is up to the market. `Tended` and
  `GoneForgotten` name such a client (endpoint `failed`), and promise of it only
  that its connection is closed or closing and that no broadcast waits for it.
- One database error or deadlock ends the timer task of the data saver for good
  (`periodic = "failed"`). A batch below `batch_size` is then not flushed by time
  (System_Design:139); `EventuallySettled` leaves out exactly those records.
- When the publication of a window fails, the detector has already moved on;
  nothing names the missing candles again (PRD:70). They are `lost` in
  `HolesExplained`.
- The REST fallback stores the candle that is still open under the close time
  it will have. The data saver's row then conflicts with it and is ignored, so
  the unfinished prices stay for good (System_Design:126). `Pipeline` leaves the
  REST service out: with it, `CandleStore` would not hold.
- The chart fetches its history first and opens its socket after it. A candle
  that closes in between is in neither: it keeps the unfinished values of the
  history, or the flat ones of the clock (PRD:117). `FinalShown` therefore speaks
  of candles that close once the socket is open.
- `getCandleCloseTimeMs` counts weeks from the epoch, which was a Thursday;
  Binance's weeks begin on Monday. On a 1w chart the clock and the trades add a
  second series between the candles, although the comment at
  useHybridKlines.ts:126-127 expects one stamp for both. With `Phase` other than
  a multiple of the interval, `Aligned` fails in the model; that it is one is the
  hypothesis of `ChartAligned`.
- A return to an earlier choice replaces the series by what the REST service
  has cached, which may be older than what was shown before.
- The emergency mock (market_service.py:372) makes up candles whose close times
  are not those of the exchange. On the chart the clock extends the last of them
  into a series of its own beside the real candles, which may push real ones off,
  until a candle in progress or a trade comes after all of them. `Aligned` leaves these
  items out: it promises nothing of a chart but for the items of the exchange's
  candles.
- A poll of the watchlist that was asked for before a trade and answered
  after it puts the older price over the live one (PRD:30). `RowsOfCurrent` keeps
  out only what older choices asked for.
- Each trade stops the timer of the one before (useWatchlistTicks.ts:92-95). A
  price that keeps changing more often than every 150 ms keeps its row lit, while
  the flash is to last 150 ms and never long (UI_UX_Design:20, PRD:35).
  `FlashEnds` speaks only of a flash that no later trade starts again.
- A timer that starts after the cleanup of its effect may dim a row of the next
  choice: `RowsOfCurrent` is about prices.
- A flash may end early, when a render comes between a timer and the trade that
  should have stopped it.
- A browser socket that closed is never replaced: `connect` returns while `ws` is
  set, and nothing listens to the close event (marketWsClient.ts:42).
- The candle that revealed a gap is fetched by gap fill too (`to_ts` is its
  close time), and its live row becomes a recovered one, while
  Task_Breakdown:133 wants the flag for audit.
- The cache key of the REST service leaves out `limit`: after a request for 1
  candle, a request for 1000 is answered with that one until the entry expires
  (api.md:13 calls `limit` the number of candles to return). And the cache comes
  before the database that api.md:116 puts first.
- Two first requests open two database pools and keep one (market_service.py:24).
- Gap fill skips a row with fewer than seven fields and treats a body that is not
  a list as an empty one (gap_fill_worker.py:122, :158). Either way the window
  counts as done, with candles missing and no failure counted
  (Task_Breakdown:139). `TailFilled` and `HolesExplained` name both as causes.
- `attempt` is reset only when `_stream_once` returns, after a rotation: the
  second drop of a day already waits 4 s, while Task_Breakdown:42 allows 3.
- Database and Redis errors leave the loops of both workers and end the process,
  while Task_Breakdown:406 asks that no exception escapes them.

## 7. What is left out

Prices, volumes and the formats of messages are left out of the workers and
of the chart: no branch of theirs depends on a price. (The direction of
`WatchlistTicks` does, so there prices are numbers.) Metrics and logging are left
out. JSON that does not parse, or has the wrong shape, is dropped by the data
saver and by gap fill before any state changes; it is not an action.

In the browser: the change of the watchlist's symbols while the page is open
(App.tsx passes a constant), the double run of effects in React's StrictMode
(main.tsx), which only adds effects that are disposed of at once, and everything
that is only drawn: the chart, the order book, the countdown. `useServerTime`
shows as a clock with an offset from a set; how it computes the offset is left
out.

`HolesExplained` and `CandleStore` do not cover the REST service, which also
writes `klines` (module `MarketService`), nor the order in which the data saver
commits. Holes around a restart of the ingestor have no window: the detector
starts empty (gap_detector.py:11), and the property says nothing of them.

The compiled `.js` copies next to the TypeScript are generated. Kubernetes,
Prometheus and CI files are configuration; `restart: always` of the compose file is the
only part of them that the modules use. The latency scripts measure from outside.

## 8. Plan

Every component with behaviour of its own has a module, and the backend
components that share `klines` a composition. What could still be added:

1. `MarketService` as a third writer of `Pipeline`, with `CandleStore`
   weakened to what then holds.
2. The gateway between `Pipeline` and `HybridKlines`: both have their own side of
   Redis now, and meet only in the filter of `Deliver`.
