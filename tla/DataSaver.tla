------------------------------ MODULE DataSaver ------------------------------
(***************************************************************************)
(* The C2 worker of backend/app/workers/data_saver.py: it reads closed     *)
(* candles from a Redis pattern subscription, gathers them in a batch and  *)
(* writes the batch to the klines table in one transaction.  Two asyncio   *)
(* tasks share the batch: "main" (run_forever) flushes when the batch is   *)
(* full, "periodic" (_periodic_flush) flushes on a timer.                  *)
(*                                                                         *)
(* A step of the model is what a task runs between two suspension points.  *)
(* The two bodies guarded by _batch_lock contain no await, so the lock is  *)
(* never seen taken and each body is part of one step.                     *)
(***************************************************************************)
EXTENDS Integers, Sequences, FiniteSets, Functions

CONSTANTS
  NumMsgs,        \* messages published on market:kline.closed:*, in this order
  CandleOf,       \* the candle a message carries; a rebroadcast repeats one
  SymbolOf,       \* the symbol of a candle
  IntervalOf,     \* the interval of a candle
  SeedNames,      \* names with a row in symbols or intervals before the start
  BatchSize,      \* settings.data_saver_batch_size
  MaxBatchSize,   \* settings.data_saver_max_batch_size
  FaultKinds,     \* the kinds of fault the environment may inject
  MaxFaults       \* bound: how many of them

Msgs    == 1..NumMsgs
Candles == {CandleOf[m] : m \in Msgs}
Names   == {SymbolOf[c] : c \in Candles} \cup {IntervalOf[c] : c \in Candles}

ASSUME DataSaverAssumption ==
  /\ NumMsgs \in Nat
  /\ MaxFaults \in Nat
  /\ BatchSize \in Nat \ {0}
  /\ MaxBatchSize \in Nat \ {0}
  /\ SeedNames \subseteq Names
  /\ IsFiniteSet(SeedNames)
  /\ FaultKinds \subseteq {"redis", "db", "stop", "crash"}

VARIABLES
  published,  \* how many messages have been published
  inbox,      \* messages delivered to _pubsub and not yet read
  batch,      \* self._batch
  main,       \* where run_forever is
  periodic,   \* where the periodic task is
  job,        \* the flush_to_db call of each task
  cache,      \* _symbol_id_cache and _interval_id_cache: pairs <<name, id>>
  dims,       \* committed rows of symbols and intervals: pairs <<name, id>>
  nextId,     \* the next value of the SERIAL id
  klines,     \* candles with a committed row in klines
  fate,       \* history: what became of each message
  faults      \* history: the faults injected so far

vars == <<published, inbox, batch, main, periodic, job, cache, dims, nextId,
          klines, fate, faults>>

db   == <<dims, nextId, klines>>

Tasks == {"main", "periodic"}

\* The causes for which a message is dropped for good.
Losses == {"missed", "overflow", "failed", "deadlocked", "cancelled",
           "abandoned", "unread", "crashed"}
Fates  == {"unborn", "open", "saved"} \cup Losses

-----------------------------------------------------------------------------
(* A flush_to_db call.  recs is the local list `records`, todo the names   *)
(* whose ids it has still to look up, used the dimension rows its own rows *)
(* refer to, at how many of these executemany has inserted.  Its open      *)
(* transaction has upserted the dimension rows of held (which locks them   *)
(* FOR UPDATE, as the upsert sets the unique name) and referred to those   *)
(* of shared (locked FOR KEY SHARE by the foreign key check).              *)

NoJob == [stage |-> "idle", recs |-> <<>>, todo |-> <<>>, used |-> {},
          held |-> {}, at |-> 0, shared |-> {}]

NamesFor(recs) ==
  [i \in 1..(2 * Len(recs)) |->
     LET c == CandleOf[recs[(i + 1) \div 2]]
     IN  IF i % 2 = 1 THEN SymbolOf[c] ELSE IntervalOf[c]]

NewJob(recs) ==
  [NoJob EXCEPT !.stage = "begin", !.recs = recs, !.todo = NamesFor(recs)]

CandlesIn(recs) == {CandleOf[recs[i]] : i \in DOMAIN recs}
NamesIn(rows)   == {row[1] : row \in rows}

\* The dictionary a lookup reads: the worker's own, shared by its tasks.
MutDictionary(j, c) == j.held  \* one dictionary per transaction
Dictionary(j, c) == c

\* The rows to insert are built without suspending until a name is not in
\* the in-memory cache c; then its upsert is sent.
Advance(j, c) ==
  LET dict == Dictionary(j, c)
      hits == {i \in DOMAIN j.todo :
                 \A k \in 1..i : j.todo[k] \in NamesIn(dict)}
      done == Cardinality(hits)
      got  == {j.todo[i] : i \in hits}
  IN  [j EXCEPT !.stage = IF done = Len(j.todo) THEN "insert" ELSE "resolve",
                !.todo  = SubSeq(j.todo, done + 1, Len(j.todo)),
                !.used  = @ \cup {row \in dict : row[1] \in got}]

\* The candles whose keys in klines the transaction has taken.
Put(j) == CandlesIn(SubSeq(j.recs, 1, j.at))

\* The row of symbols, or of intervals, that the foreign key check of the row
\* inserted last looks for; it sees committed rows and those of its transaction.
Referred(j) ==
  LET c == CandleOf[j.recs[j.at]]
      n == IF j.stage = "symbol" THEN SymbolOf[c] ELSE IntervalOf[c]
  IN  {row \in j.used : row[1] = n}

Checking(j) == j.stage \in {"symbol", "interval"}

ForeignKeyHolds(t) == Referred(job[t]) \subseteq dims \cup job[t].held

\* The statement of task t waits until the transaction of o has ended: the upsert
\* of a row that o has upserted or refers to, the insert of a key that o has
\* inserted, or the foreign key check of a row that o has upserted.
WaitsFor(t, o) ==
  \/ /\ job[t].stage = "resolve"
     /\ Head(job[t].todo) \in NamesIn(job[o].held \cup job[o].shared)
  \/ /\ job[t].stage = "insert"
     /\ job[t].at < Len(job[t].recs)
     /\ CandleOf[job[t].recs[job[t].at + 1]] \in Put(job[o]) \ klines
  \/ /\ Checking(job[t])
     /\ ForeignKeyHolds(t)
     /\ Referred(job[t]) \cap job[o].held /= {}

Waits(t) == \E o \in Tasks \ {t} : WaitsFor(t, o)

CanCommit(t) == job[t].stage = "insert" /\ job[t].at = Len(job[t].recs)

Mark(ms, f) == fate' = [m \in Msgs |-> IF m \in ms THEN f ELSE fate[m]]

\* The rows of task t that stay in klines when its call ends.
MutWritten(t, committed) ==  \* no transaction around executemany
  Put(job[t])
Written(t, committed) == IF committed THEN CandlesIn(job[t].recs) ELSE {}

\* The call of task t ends, its transaction committed or rolled back; the
\* records were taken out of the batch before it began.
EndJob(t, committed, loss) ==
  /\ committed => CanCommit(t)
  /\ dims'   = IF committed THEN dims \cup job[t].held ELSE dims
  /\ klines' = klines \cup Written(t, committed)
  /\ Mark(Range(job[t].recs), IF committed THEN "saved" ELSE loss)
  /\ job'    = [job EXCEPT ![t] = NoJob]

\* An exception ends the endless loop of _periodic_flush.
MutPeriodicAfter(ok) == "sleep"  \* the loop swallows the exception
PeriodicAfter(ok) == IF ok THEN "sleep" ELSE "failed"

\* Where the caller of flush_to_db continues when the call returned (ok) or
\* raised.
Return(t, ok) ==
  \/ /\ t = "main"
     /\ main' = IF main = "closeFlush" THEN "exit"
                ELSE IF ok THEN "listen" ELSE "stop"
     /\ UNCHANGED periodic
  \/ /\ t = "periodic"
     /\ periodic' = PeriodicAfter(ok)
     /\ UNCHANGED main

\* The first, atomic, half of flush_to_db: copy the batch and clear it.
MutTakeBatch(t, b) ==  \* the clear is forgotten
  job' = [job EXCEPT ![t] = NewJob(b)] /\ batch' = b
MutTakeBatchButLast(t, b) ==  \* an off-by-one slice leaves the newest record
  job' = [job EXCEPT ![t] = NewJob(b)] /\ batch' = <<b[Len(b)]>>
TakeBatch(t, b) ==
  /\ job'   = [job EXCEPT ![t] = NewJob(b)]
  /\ batch' = <<>>

Fault(kind) ==
  /\ kind \in FaultKinds
  /\ Len(faults) < MaxFaults
  /\ faults' = Append(faults, kind)

-----------------------------------------------------------------------------
Init ==
  /\ published = 0
  /\ inbox = <<>>
  /\ batch = <<>>
  /\ main = "down"
  /\ periodic = "off"
  /\ job = [t \in Tasks |-> NoJob]
  /\ cache = {}
  /\ \E ids \in [SeedNames -> 1..Cardinality(SeedNames)] :
       /\ IsInjective(ids)
       /\ dims = {<<n, ids[n]>> : n \in SeedNames}
  /\ nextId = Cardinality(SeedNames) + 1
  /\ klines = {}
  /\ fate = [m \in Msgs |-> "unborn"]
  /\ faults = <<>>

\* Redis pub/sub keeps nothing for a process that is not subscribed.
Publish ==
  /\ published < NumMsgs
  /\ published' = published + 1
  /\ inbox' = IF main = "down" THEN inbox ELSE Append(inbox, published')
  /\ Mark({published'}, IF main = "down" THEN "missed" ELSE "open")
  /\ UNCHANGED <<batch, main, periodic, job, cache, db, faults>>

\* connect() subscribes before it opens the pool.
Subscribe ==
  /\ main = "down"
  /\ main' = "connecting"
  /\ UNCHANGED <<published, inbox, batch, periodic, job, cache, db, fate,
                 faults>>

StartUp ==
  /\ main = "connecting"
  /\ main' = "listen"
  /\ periodic' = "sleep"
  /\ UNCHANGED <<published, inbox, batch, job, cache, db, fate,
                 faults>>

AtMaxBatch(b) == Len(b) >= MaxBatchSize

MutAtBatchSize(b) == Len(b) > BatchSize
AtBatchSize(b) == Len(b) >= BatchSize

\* One turn of the async for in run_forever, and the flush it may start.
Receive ==
  /\ main = "listen"
  /\ inbox /= <<>>
  /\ inbox' = Tail(inbox)
  /\ LET full == AtMaxBatch(batch)
         kept == IF full THEN Tail(batch) ELSE batch
         new  == Append(kept, Head(inbox))
     IN  /\ Mark(IF full THEN {Head(batch)} ELSE {}, "overflow")
         /\ IF AtBatchSize(new)
              THEN TakeBatch("main", new) /\ main' = "sizeFlush"
              ELSE batch' = new /\ UNCHANGED <<job, main>>
  /\ UNCHANGED <<published, periodic, cache, db, faults>>

MutTimerWrites(b) == Len(b) >= BatchSize  \* waits for a full batch
TimerWrites(b) == b /= <<>>

\* The sleep of _periodic_flush ends; an empty batch makes the call a no-op.
FlushTimer ==
  /\ periodic = "sleep"
  /\ main \in {"listen", "sizeFlush"}
  /\ IF TimerWrites(batch)
       THEN TakeBatch("periodic", batch) /\ periodic' = "flush"
       ELSE UNCHANGED <<job, batch, periodic>>
  /\ UNCHANGED <<published, inbox, main, cache, db, fate,
                 faults>>

\* A connection is acquired and the transaction is open.
Begin(t) ==
  /\ job[t].stage = "begin"
  /\ job' = [job EXCEPT ![t] = Advance(@, cache)]
  /\ UNCHANGED <<published, inbox, batch, main, periodic, cache, db, fate,
                 faults>>

\* The upsert of the next name returns.
Resolve(t) ==
  LET name  == Head(job[t].todo)
      known == {row \in dims : row[1] = name}
      rows  == IF known = {} THEN {<<name, nextId>>} ELSE known
      owner == [job[t] EXCEPT !.held = @ \cup rows]
  IN  /\ job[t].stage = "resolve"
      /\ ~Waits(t)
      /\ nextId' = IF known = {} THEN nextId + 1 ELSE nextId
      /\ cache'  = {row \in cache : row[1] /= name} \cup rows
      /\ job'    = [job EXCEPT ![t] = Advance(owner, cache')]
      /\ UNCHANGED <<published, inbox, batch, main, periodic, dims, klines,
                     fate, faults>>

\* executemany inserts the next row, or leaves it out when the candle has one, and
\* then checks no foreign key.
Insert(t) ==
  LET c == CandleOf[job[t].recs[job[t].at + 1]]
  IN  /\ job[t].stage = "insert"
      /\ job[t].at < Len(job[t].recs)
      /\ ~Waits(t)
      /\ job' = [job EXCEPT
                   ![t].at    = @ + 1,
                   ![t].stage = IF c \in klines \cup Put(job[t]) THEN @ ELSE "symbol"]
      /\ UNCHANGED <<published, inbox, batch, main, periodic, cache, db, fate,
                     faults>>

Check(t) ==
  /\ Checking(job[t])
  /\ ForeignKeyHolds(t)
  /\ ~Waits(t)
  /\ job' = [job EXCEPT
               ![t].shared = @ \cup Referred(job[t]),
               ![t].stage  = IF @ = "symbol" THEN "interval" ELSE "insert"]
  /\ UNCHANGED <<published, inbox, batch, main, periodic, cache, db, fate,
                 faults>>

\* COMMIT succeeds.
Commit(t) ==
  /\ CanCommit(t)
  /\ EndJob(t, TRUE, "failed")
  /\ Return(t, TRUE)
  /\ UNCHANGED <<published, inbox, batch, cache, nextId, faults>>

\* A foreign key check fails.
Violate(t) ==
  /\ Checking(job[t])
  /\ ~ForeignKeyHolds(t)
  /\ EndJob(t, FALSE, "failed")
  /\ Return(t, FALSE)
  /\ UNCHANGED <<published, inbox, batch, cache, nextId, faults>>

\* Each waits for the other, and PostgreSQL ends one of the two transactions.
Deadlock(t) ==
  /\ \A u \in Tasks : Waits(u)
  /\ EndJob(t, FALSE, "deadlocked")
  /\ Return(t, FALSE)
  /\ UNCHANGED <<published, inbox, batch, cache, nextId, faults>>

\* Any other database error, in any await of the call; an error of the COMMIT
\* leaves open whether it took effect.
DbError(t) ==
  /\ job[t].stage /= "idle"
  /\ Fault("db")
  /\ \E committed \in BOOLEAN : EndJob(t, committed, "failed")
  /\ Return(t, FALSE)
  /\ UNCHANGED <<published, inbox, batch, cache, nextId>>

\* create_pool fails: connect() is outside the try block.
ConnectError ==
  /\ main = "connecting"
  /\ Fault("db")
  /\ main' = "exit"
  /\ UNCHANGED <<published, inbox, batch, periodic, job, cache, dims, nextId,
                 klines, fate>>

\* listen() raises: the finally block runs.
ListenError ==
  /\ main = "listen"
  /\ Fault("redis")
  /\ main' = "stop"
  /\ UNCHANGED <<published, inbox, batch, periodic, job, cache, dims, nextId,
                 klines, fate>>

\* SIGINT cancels the main task at its await, which may be inside a flush.
Interrupt ==
  /\ main \in {"connecting", "listen", "sizeFlush", "closeFlush"}
  /\ Fault("stop")
  /\ IF job["main"].stage = "idle"
       THEN UNCHANGED <<job, dims, klines, fate>>
       ELSE \E committed \in BOOLEAN : EndJob("main", committed, "cancelled")
  /\ main' = IF main \in {"listen", "sizeFlush"} THEN "stop" ELSE "exit"
  /\ UNCHANGED <<published, inbox, batch, periodic, cache, nextId>>

MutAfterPeriodic == "exit"  \* close() outside the finally block
AfterPeriodic == IF periodic = "failed" THEN "exit" ELSE "close"

\* finally: the periodic task is cancelled in its sleep and close() follows; a
\* task that died of an exception raises it at the await and close() is skipped.
StopPeriodic ==
  /\ main = "stop"
  /\ periodic \in {"sleep", "failed"}
  /\ main' = AfterPeriodic
  /\ periodic' = "off"
  /\ UNCHANGED <<published, inbox, batch, job, cache, db, fate, faults>>

\* finally, with a periodic flush in flight: it is cancelled at its await.  If
\* the rollback raises too, that exception replaces the CancelledError and
\* close() is skipped.
CancelPeriodic ==
  /\ main = "stop"
  /\ periodic = "flush"
  /\ periodic' = "off"
  /\ \/ main' = "close" /\ UNCHANGED faults
     \/ main' = "exit"  /\ Fault("db")
  /\ \E committed \in BOOLEAN : EndJob("periodic", committed, "cancelled")
  /\ UNCHANGED <<published, inbox, batch, cache, nextId>>

\* close() flushes what is left of the batch.
Close ==
  /\ main = "close"
  /\ IF batch = <<>>
       THEN main' = "exit" /\ UNCHANGED <<job, batch>>
       ELSE main' = "closeFlush" /\ TakeBatch("main", batch)
  /\ UNCHANGED <<published, inbox, periodic, cache, db, fate,
                 faults>>

\* The process ends and its memory is gone; the container restarts it.
Exit ==
  /\ main = "exit"
  /\ main' = "down"
  /\ periodic' = "off"
  /\ inbox' = <<>>
  /\ batch' = <<>>
  /\ cache' = {}
  /\ fate' = [m \in Msgs |-> IF m \in Range(inbox) THEN "unread"
                             ELSE IF m \in Range(batch) THEN "abandoned"
                             ELSE fate[m]]
  /\ UNCHANGED <<published, job, db, faults>>

\* The process is killed; a COMMIT on its way may still take effect.
Crash ==
  /\ main /= "down"
  /\ Fault("crash")
  /\ \E done \in SUBSET {t \in Tasks : CanCommit(t)} :
       LET saved == UNION {Range(job[t].recs) : t \in done}
       IN  /\ dims'   = dims \cup UNION {job[t].held : t \in done}
           /\ klines' = klines \cup UNION {CandlesIn(job[t].recs) : t \in done}
           /\ fate'   = [m \in Msgs |-> IF m \in saved THEN "saved"
                                        ELSE IF fate[m] = "open" THEN "crashed"
                                        ELSE fate[m]]
  /\ main' = "down"
  /\ periodic' = "off"
  /\ inbox' = <<>>
  /\ batch' = <<>>
  /\ cache' = {}
  /\ job' = [t \in Tasks |-> NoJob]
  /\ UNCHANGED <<published, nextId>>

\* Once main is in its finally block the periodic task has been cancelled.
Scheduled(t) == t = "periodic" => main \in {"listen", "sizeFlush"}

FlushStep(t) ==
  /\ Scheduled(t)
  /\ \/ Begin(t) \/ Resolve(t) \/ Insert(t) \/ Check(t) \/ Commit(t)
     \/ Violate(t) \/ Deadlock(t)

Next ==
  \/ Publish
  \/ Subscribe \/ StartUp \/ Receive \/ FlushTimer
  \/ \E t \in Tasks : FlushStep(t) \/ (Scheduled(t) /\ DbError(t))
  \/ StopPeriodic \/ CancelPeriodic \/ Close \/ Exit
  \/ ConnectError \/ ListenError \/ Interrupt \/ Crash

Spec == Init /\ [][Next]_vars

\* A started asyncio task keeps being scheduled, every await of the database
\* returns or raises, and the container restarts a process that ended
\* (restart: always).  Nothing is assumed of publishers and of faults.
Fairness ==
  /\ WF_vars(Subscribe) /\ WF_vars(StartUp)
  /\ WF_vars(Receive) /\ WF_vars(FlushTimer)
  /\ WF_vars(StopPeriodic \/ CancelPeriodic) /\ WF_vars(Close) /\ WF_vars(Exit)
  /\ \A t \in Tasks : WF_vars(FlushStep(t))

FairSpec == Spec /\ Fairness

-----------------------------------------------------------------------------
Ids   == Nat \ {0}
Rows  == Names \X Ids
Stages == {"idle", "begin", "resolve", "insert", "symbol", "interval"}

\* A call in stage "resolve" waits for the id of the first name of todo.
Jobs ==
  {j \in [stage : Stages, recs : Seq(Msgs), todo : Seq(Names), used : SUBSET Rows,
          held : SUBSET Rows, at : Nat, shared : SUBSET Rows] :
     /\ j.stage = "resolve" => j.todo /= <<>>
     /\ j.at <= Len(j.recs)
     /\ Checking(j) => j.at > 0}

\* The types of the worker's memory and of the tables it writes.
Shape ==
  /\ published \in 0..NumMsgs
  /\ inbox \in Seq(Msgs)
  /\ batch \in Seq(Msgs)
  /\ main \in {"down", "connecting", "listen", "sizeFlush", "stop", "close",
               "closeFlush", "exit"}
  /\ periodic \in {"off", "sleep", "flush", "failed"}
  /\ job \in [Tasks -> Jobs]
  /\ cache \subseteq Rows
  /\ dims \subseteq Rows
  /\ nextId \in Ids
  /\ klines \subseteq Candles
  /\ fate \in [Msgs -> Fates]
  /\ faults \in Seq(FaultKinds)
  /\ Len(faults) <= MaxFaults

\* _batch stays within max_batch_size, and pop(0) drops a record only under a
\* configuration whose batch_size exceeds it: with any other one the flush at
\* batch_size leaves no room for an overflow.
BatchBounded ==
  /\ Len(batch) <= MaxBatchSize
  /\ BatchSize <= MaxBatchSize =>
       Len(batch) < BatchSize /\ \A m \in Msgs : fate[m] /= "overflow"

\* Type invariant, with the limits of the batch.
TypeOK == Shape /\ BatchBounded

Saved == {m \in Msgs : fate[m] = "saved"}
Open  == {m \in Msgs : fate[m] = "open"}
Lost  == {m \in Msgs : fate[m] \in Losses}

\* Where the process holds messages, the oldest ones first.
Queues  == <<job["periodic"].recs, job["main"].recs, batch, inbox>>
Holding == UNION {Range(Queues[q]) : q \in 1..4}

Increasing(s)   == \A i, k \in DOMAIN s : i < k => s[i] < s[k]
Precedes(s, s2) == \A x \in Range(s), y \in Range(s2) : x < y

\* flush_to_db takes a record out of the batch before it is stored, and two
\* tasks do so, yet a record is never in two places, never forgotten without a
\* cause and never overtaken: what the process holds are the open messages,
\* once each and in the order of their publication.
Accounted ==
  /\ Holding = Open
  /\ \A q \in 1..4 : Increasing(Queues[q])
  /\ \A q, r \in 1..4 : q < r => Precedes(Queues[q], Queues[r])

\* klines holds exactly the candles of the records that count as saved, over
\* partial failures, cancelled commits and rebroadcast duplicates.
SavedInKlines == klines = {CandleOf[m] : m \in Saved}

\* The id caches are filled inside a transaction that may roll back.  While
\* both tasks run, every cached id belongs to a row that is committed or that
\* an open transaction still holds; an id left dangling by a rollback is seen
\* only on the way out of the process or after the periodic task has died.
CacheBacked ==
  main \in {"listen", "sizeFlush"} /\ periodic /= "failed" =>
    cache \subseteq dims \cup job["main"].held \cup job["periodic"].held

\* The two flushers upsert the same dimension rows in whatever order their
\* records ask for, yet they never wait for each other while both look up ids: a
\* name the other task holds was cached before this one could ask for it.  (Once
\* one of them inserts, its foreign key check may wait as well: Deadlock.)
NoUpsertCycle ==
  ~ \A t \in Tasks :
      /\ job[t].stage = "resolve"
      /\ \E o \in Tasks \ {t} : Head(job[t].todo) \in NamesIn(job[o].held)

\* With the symbol and interval rows in place, the only thing that the two tasks
\* can do to each other's flushes is to deadlock: no foreign key is broken, and
\* every other loss of a record handed to the worker, also of the batch that is
\* abandoned at the exit, has a fault of the surroundings or a deadlock before it.
LossHasCause ==
  SeedNames = Names =>
    LET deadlock == \E m \in Msgs : fate[m] = "deadlocked"
    IN  \A m \in Msgs :
          /\ fate[m] = "failed"    => "db" \in Range(faults)
          /\ fate[m] = "abandoned" => "db" \in Range(faults) \/ deadlock
          /\ fate[m] = "crashed"   => "crash" \in Range(faults)
          /\ fate[m] \in {"cancelled", "unread"} =>
               Range(faults) \cap {"redis", "db", "stop"} /= {} \/ deadlock

\* The worker keeps the promise of RecordSink: what it holds in its queues and
\* transactions is settled once, and nothing saved is ever taken back.
Sink == INSTANCE RecordSink
          WITH held <- Holding, stored <- Saved, dropped <- Lost

SinkSpec == Sink!Spec

\* Every message delivered to the worker is eventually written or given up.  The
\* one place where it may stay is the batch of a worker whose periodic task has
\* died of an exception, until enough others have come to fill it.
EventuallySettled ==
  \A m \in Msgs :
    fate[m] = "open" ~> \/ fate[m] /= "open"
                        \/ periodic = "failed" /\ m \in Range(batch)

\* What docs/Task_Breakdown_Implementation_Plan.md:128 asks of C2: a burst of
\* closed candles loses nothing.
NoLossInBurst == \A m \in Msgs : fate[m] \in {"unborn", "missed", "open", "saved"}
=============================================================================
