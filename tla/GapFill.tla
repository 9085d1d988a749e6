-------------------------------- MODULE GapFill --------------------------------
(***************************************************************************)
(* The C3 worker of backend/app/workers/gap_fill_worker.py: it reads gap   *)
(* windows from a Redis pattern subscription, fetches their candles from   *)
(* the Binance REST API with up to three attempts, upserts them in klines  *)
(* in one transaction and publishes each again as a closed candle.  It     *)
(* handles one window at a time.  HTTP errors and ValueErrors are caught   *)
(* per window; a database or Redis error ends the process.                 *)
(*                                                                         *)
(* The other writer of klines, the DataSaver worker, shows as StoreLive;   *)
(* module DataSaver has its details.                                       *)
(***************************************************************************)
EXTENDS Integers, Sequences, FiniteSets, Functions

CONSTANTS
  Keys,        \* (symbol, interval) pairs
  MaxCandle,   \* bound: candles per key
  Windows,     \* the windows that may be announced: [key, from, to]
  LiveCandles, \* candles the DataSaver worker receives from the ingestor
  RestKey,     \* the time by which the REST API selects: "open" or "close"
  Limit,       \* settings.gap_fill_max_klines_per_request
  FaultKinds,  \* the kinds of fault the environment may inject
  MaxFaults    \* bound: how many of them

Candles == Keys \X (1..MaxCandle)

ASSUME GapFillAssumption ==
  /\ MaxCandle \in Nat
  /\ Windows \subseteq [key : Keys, from : 1..MaxCandle, to : 1..MaxCandle]
  /\ \A w \in Windows : w.from < w.to
  /\ LiveCandles \subseteq Candles
  /\ RestKey \in {"open", "close"}
  /\ Limit \in Nat \ {0}
  /\ FaultKinds \subseteq {"busy", "refused", "shape", "row", "db", "bus", "crash"}
  /\ MaxFaults \in Nat

VARIABLES
  inbox,   \* windows delivered to _pubsub and not yet read
  stage,   \* where run_forever is
  gap,     \* the window in hand: a set of at most one
  tries,   \* REST attempts that failed for it
  rows,    \* the candles of its answer that have all their fields
  queue,   \* candles committed and still to be published
  ids,     \* the worker's id cache: per key "none", "valid" or "dangling"
  dims,    \* keys whose symbol and interval rows are committed
  klines,  \* the source of each candle's row in klines, or "none"
  sent,    \* history: candles published on market:kline.closed
  fate,    \* history: what became of each window
  short,   \* history: the candles of each window whose row came short
  faults   \* bound: faults injected so far

vars == <<inbox, stage, gap, tries, rows, queue, ids, dims, klines, sent, fate,
          short, faults>>

hand    == <<gap, tries, rows>>
tables  == <<dims, klines>>
history == <<sent, fate, short>>

Attempts == 3

-----------------------------------------------------------------------------
\* Candle n of a key opens at 2n - 2 and closes at 2n - 1: a candle closes one
\* millisecond before the next one opens.
OpenTime(n)  == 2 * n - 2
CloseTime(n) == 2 * n - 1
RestTime(n)  == IF RestKey = "open" THEN OpenTime(n) ELSE CloseTime(n)

\* GET /api/v3/klines: the oldest Limit candles between startTime and endTime,
\* which the worker sets to the window's two close times.
MutSelected(w) == {n \in 1..MaxCandle : CloseTime(w.from) <= RestTime(n)}  \* no endTime
Selected(w) ==
  {n \in 1..MaxCandle : /\ CloseTime(w.from) <= RestTime(n)
                        /\ RestTime(n) <= CloseTime(w.to)}

Returned(w) ==
  LET ns == Selected(w)
  IN  {<<w.key, n>> : n \in {n \in ns : Cardinality({m \in ns : m < n}) < Limit}}

Missing(w) == {w.key} \X (w.from..(w.to - 1))

\* The candles are published in the order of time.
Due == {c \in queue : \A d \in queue : c[2] <= d[2]}

Fault(kind) ==
  /\ kind \in FaultKinds
  /\ faults < MaxFaults
  /\ faults' = faults + 1

\* The window in hand is done with; the loop continues or the process ends.
Settle(next, f) ==
  /\ stage' = next
  /\ fate' = [w \in Windows |-> IF w \in gap THEN f ELSE fate[w]]
  /\ gap' = {}
  /\ tries' = 0
  /\ rows' = {}

\* An id upserted by a transaction that rolls back stays in the cache.
IdsAfter(k, committed) ==
  [ids EXCEPT ![k] =
     IF @ /= "none" THEN @
     ELSE IF committed \/ k \in dims THEN "valid" ELSE "dangling"]

\* ON CONFLICT DO UPDATE of the recovered rows, DO NOTHING of the live ones.
MutUpsert ==  \* DO NOTHING here as well
  [c \in Candles |-> IF c \in rows /\ klines[c] = "none" THEN "recovered"
                     ELSE klines[c]]
Upsert == [c \in Candles |-> IF c \in rows THEN "recovered" ELSE klines[c]]
MutInsertLive(c) == [klines EXCEPT ![c] = "live"]  \* DO UPDATE
InsertLive(c) == [klines EXCEPT ![c] = IF @ = "none" THEN "live" ELSE @]

-----------------------------------------------------------------------------
Init ==
  /\ inbox = <<>>
  /\ stage = "down"
  /\ gap = {}
  /\ tries = 0
  /\ rows = {}
  /\ queue = {}
  /\ ids = [k \in Keys |-> "none"]
  /\ dims = {}
  /\ klines = [c \in Candles |-> "none"]
  /\ sent = {}
  /\ fate = [w \in Windows |-> "unborn"]
  /\ short = [w \in Windows |-> {}]
  /\ faults = 0

\* The ingestor publishes a window; Redis keeps nothing for a process that is
\* not subscribed.
Announce(w) ==
  /\ fate[w] = "unborn"
  /\ IF stage = "down"
       THEN fate' = [fate EXCEPT ![w] = "missed"] /\ UNCHANGED inbox
       ELSE fate' = [fate EXCEPT ![w] = "open"] /\ inbox' = Append(inbox, w)
  /\ UNCHANGED <<stage, hand, queue, ids, tables, sent, short, faults>>

\* The DataSaver worker commits the row of a candle it received.
StoreLive(c) ==
  /\ c \in LiveCandles \cup sent
  /\ klines' = InsertLive(c)
  /\ dims' = dims \cup {c[1]}
  /\ UNCHANGED <<inbox, stage, hand, queue, ids, history, faults>>

\* connect() subscribes before it opens the pool.
Subscribe ==
  /\ stage = "down"
  /\ stage' = "connecting"
  /\ UNCHANGED <<inbox, hand, queue, ids, tables, history, faults>>

StartUp ==
  /\ stage = "connecting"
  /\ stage' = "listen"
  /\ UNCHANGED <<inbox, hand, queue, ids, tables, history, faults>>

Receive ==
  /\ stage = "listen"
  /\ inbox /= <<>>
  /\ gap' = {Head(inbox)}
  /\ inbox' = Tail(inbox)
  /\ stage' = "fetch"
  /\ UNCHANGED <<tries, rows, queue, ids, tables, history, faults>>

\* REST answers, and the loop over the answer keeps the rows that have all their
\* fields; an empty list leaves nothing to save.
Take(w, whole) ==
  /\ rows' = whole
  /\ short' = [short EXCEPT ![w] = @ \cup (Returned(w) \ whole)]
  /\ stage' = "save"
  /\ UNCHANGED <<gap, tries, fate>>

Fetched ==
  /\ stage = "fetch"
  /\ \E w \in gap :
       IF Returned(w) = {}
         THEN Settle("listen", "empty") /\ UNCHANGED short
         ELSE Take(w, Returned(w))
  /\ UNCHANGED <<inbox, queue, ids, tables, sent, faults>>

\* Some rows of the answer are short of fields: they are skipped without a word.
FetchedShort ==
  /\ stage = "fetch"
  /\ Fault("shape")
  /\ \E w \in gap : \E whole \in (SUBSET Returned(w)) \ {Returned(w)} : Take(w, whole)
  /\ UNCHANGED <<inbox, queue, ids, tables, sent>>

\* The answer is not a list: it passes for an empty one, and the window is done.
FetchedOther ==
  /\ stage = "fetch"
  /\ Fault("shape")
  /\ Settle("listen", "garbled")
  /\ UNCHANGED <<inbox, queue, ids, tables, sent, short>>

\* A timeout, a 429 or a server error: wait and try again, three times in all.
\* The API may answer so for as long as it likes.
MutTriesAfter == tries  \* the attempts are not counted
TriesAfter == tries + 1
MutLastAttempt == TriesAfter > Attempts
LastAttempt == TriesAfter = Attempts
FetchBusy ==
  /\ stage = "fetch"
  /\ "busy" \in FaultKinds
  /\ IF LastAttempt
       THEN Settle("listen", "dropped")
       ELSE /\ tries' = TriesAfter
            /\ stage' = "pause"
            /\ UNCHANGED <<gap, rows, fate>>
  /\ UNCHANGED <<inbox, queue, ids, tables, sent, short, faults>>

MutPauseEnds ==  \* the sleep leaves the loop of attempts
  /\ stage = "pause"
  /\ stage' = "listen"
  /\ UNCHANGED <<inbox, hand, queue, ids, tables, history, faults>>
PauseEnds ==
  /\ stage = "pause"
  /\ stage' = "fetch"
  /\ UNCHANGED <<inbox, hand, queue, ids, tables, history, faults>>

\* Any other failure of the request (a refused connection, another status, a
\* body that is not JSON) is not retried.
FetchRefused ==
  /\ stage = "fetch"
  /\ Fault("refused")
  /\ Settle("listen", "dropped")
  /\ UNCHANGED <<inbox, queue, ids, tables, sent, short>>

\* The transaction commits; without a whole row it holds at most the ids, nothing
\* is published, and the window counts as done.
Save ==
  /\ stage = "save"
  /\ \E w \in gap :
       /\ rows /= {} => ids[w.key] /= "dangling"
       /\ ids' = IdsAfter(w.key, TRUE)
       /\ dims' = IF ids[w.key] = "dangling" THEN dims ELSE dims \cup {w.key}
  /\ klines' = Upsert
  /\ queue' = rows
  /\ IF rows = {}
       THEN Settle("listen", "filled")
       ELSE stage' = "send" /\ UNCHANGED <<hand, fate>>
  /\ UNCHANGED <<inbox, sent, short, faults>>

\* A row that float() or the event model rejects: the transaction rolls back
\* and the loop goes on.
SaveBadRow ==
  /\ stage = "save"
  /\ rows /= {}
  /\ Fault("row")
  /\ \E w \in gap : ids' = IdsAfter(w.key, FALSE)
  /\ Settle("listen", "dropped")
  /\ UNCHANGED <<inbox, queue, tables, sent, short>>

\* A dangling id breaks the foreign key of klines.
SaveViolates ==
  /\ stage = "save"
  /\ rows /= {}
  /\ \E w \in gap : ids[w.key] = "dangling"
  /\ Settle("exit", "failed")
  /\ UNCHANGED <<inbox, queue, ids, tables, sent, short, faults>>

\* Any other error that the loop does not catch, of the database or a TypeError of
\* a row; one of the COMMIT leaves open whether it took effect.
MaybeCommit ==
  \/ UNCHANGED tables
  \/ /\ \E w \in gap : ids[w.key] /= "dangling" /\ dims' = dims \cup {w.key}
     /\ klines' = Upsert

SaveError ==
  /\ stage = "save"
  /\ Fault("db")
  /\ MaybeCommit
  /\ Settle("exit", "failed")
  /\ UNCHANGED <<inbox, queue, ids, sent, short>>

Send ==
  /\ stage = "send"
  /\ sent' = sent \cup Due
  /\ queue' = queue \ Due
  /\ IF queue' = {}
       THEN Settle("listen", "filled")
       ELSE UNCHANGED <<stage, hand, fate>>
  /\ UNCHANGED <<inbox, ids, tables, short, faults>>

\* A publication raises; Redis may have carried it out all the same.
SendError ==
  /\ stage = "send"
  /\ Fault("bus")
  /\ sent' \in {sent, sent \cup Due}
  /\ queue' = {}
  /\ Settle("exit", "unsent")
  /\ UNCHANGED <<inbox, ids, tables, short>>

ListenError ==
  /\ stage = "listen"
  /\ Fault("bus")
  /\ stage' = "exit"
  /\ UNCHANGED <<inbox, hand, queue, ids, tables, history>>

\* create_pool fails.
ConnectError ==
  /\ stage = "connecting"
  /\ Fault("db")
  /\ stage' = "exit"
  /\ UNCHANGED <<inbox, hand, queue, ids, tables, history>>

\* The process ends and its memory is gone; the container restarts it.
Exit ==
  /\ stage = "exit"
  /\ stage' = "down"
  /\ inbox' = <<>>
  /\ ids' = [k \in Keys |-> "none"]
  /\ fate' = [w \in Windows |-> IF w \in Range(inbox) THEN "unread" ELSE fate[w]]
  /\ UNCHANGED <<hand, queue, tables, sent, short, faults>>

\* The process is killed or interrupted, with a COMMIT or a publication maybe
\* on its way.
Crash ==
  /\ stage /= "down"
  /\ Fault("crash")
  /\ IF stage = "save" THEN MaybeCommit ELSE UNCHANGED tables
  /\ sent' \in {sent, sent \cup Due}
  /\ stage' = "down"
  /\ inbox' = <<>>
  /\ gap' = {}
  /\ tries' = 0
  /\ rows' = {}
  /\ queue' = {}
  /\ ids' = [k \in Keys |-> "none"]
  /\ fate' = [w \in Windows |->
                IF w \in gap
                  THEN IF stage = "send" THEN "unsent" ELSE "failed"
                  ELSE IF fate[w] = "open" THEN "unread" ELSE fate[w]]
  /\ UNCHANGED short

\* A step of the worker itself.
Work ==
  \/ Subscribe \/ StartUp \/ Receive
  \/ Fetched \/ FetchedShort \/ FetchedOther
  \/ FetchBusy \/ PauseEnds \/ FetchRefused
  \/ Save \/ SaveBadRow \/ SaveViolates \/ SaveError
  \/ Send \/ SendError
  \/ ListenError \/ ConnectError \/ Exit \/ Crash

Next ==
  \/ \E w \in Windows : Announce(w)
  \/ \E c \in Candles : StoreLive(c)
  \/ Work

Spec == Init /\ [][Next]_vars

\* The container restarts the process, the loop runs on, and every await ends,
\* or raises as a fault.  Nothing is assumed of the ingestor and the saver.
Fairness ==
  /\ WF_vars(Subscribe) /\ WF_vars(StartUp) /\ WF_vars(Exit)
  /\ WF_vars(Receive) /\ WF_vars(Fetched) /\ WF_vars(PauseEnds)
  /\ WF_vars(Save) /\ WF_vars(SaveViolates) /\ WF_vars(Send)

FairSpec == Spec /\ Fairness

-----------------------------------------------------------------------------
Stages == {"down", "connecting", "listen", "fetch", "pause", "save", "send",
           "exit"}
Fates  == {"unborn", "missed", "open", "filled", "empty", "garbled",
           "dropped", "failed", "unsent", "unread"}

\* Type invariant; no window is asked for more than three times.
TypeOK ==
  /\ inbox \in Seq(Windows)
  /\ stage \in Stages
  /\ gap \subseteq Windows
  /\ tries \in 0..(Attempts - 1)
  /\ rows \subseteq Candles
  /\ queue \subseteq Candles
  /\ ids \in [Keys -> {"none", "valid", "dangling"}]
  /\ dims \subseteq Keys
  /\ klines \in [Candles -> {"none", "live", "recovered"}]
  /\ sent \subseteq Candles
  /\ fate \in [Windows -> Fates]
  /\ short \in [Windows -> SUBSET Candles]
  /\ faults \in 0..MaxFaults

\* The window but for its first candle, which a REST API that selects by open
\* time leaves out, and for rows that came short of fields, is stored as recovered
\* once its transaction is over, and published again before the window counts as
\* filled, whatever the DataSaver worker writes meanwhile.  Only a window longer
\* than one request is cut.
TailFilled ==
  \A w \in Windows :
    LET tail == ({w.key} \X ((w.from + 1)..w.to)) \ short[w]
    IN  w.to - w.from <= Limit =>
          /\ fate[w] \in {"filled", "unsent"} =>
               \A c \in tail : klines[c] = "recovered"
          /\ fate[w] = "filled" => tail \subseteq sent

\* Nobody is sent a recovered candle that a reader of klines would not find:
\* the publication follows the commit, over errors, crashes and retries.
SentStored == \A c \in sent : klines[c] = "recovered"

\* The audit flag of a recovered row is final: the copy that the DataSaver
\* worker receives back never turns it into a live one.
RecoveredStays ==
  [][\A c \in Candles : klines[c] = "recovered" => klines'[c] = "recovered"]_vars

\* No window slips away and none is worked on twice: one without a verdict is in
\* hand or waits to be read, and one with a verdict is neither, whatever retries,
\* errors and restarts came between (run_forever, _fetch_gap_klines, close).
NoneMislaid ==
  \A w \in Windows : fate[w] = "open" <=> w \in gap \cup Range(inbox)

\* Every window the worker received is eventually filled or given up, even if
\* the REST API stays busy.
EverySettled == \A w \in Windows : fate[w] = "open" ~> fate[w] /= "open"

\* What docs/Task_Breakdown_Implementation_Plan.md:139 asks of C3: no candle is
\* missing from a window that was filled.
WindowFilled ==
  \A w \in Windows :
    fate[w] = "filled" => \A c \in Missing(w) : klines[c] /= "none"
=============================================================================
