----------------------------- MODULE MarketService -----------------------------
(***************************************************************************)
(* The historical REST service of backend/app/services/market_service.py:  *)
(* concurrent requests for the candles of one symbol and interval are      *)
(* answered from the Redis cache, else from klines, else from the Binance  *)
(* REST API, which then seeds both, else with invented candles.  A step    *)
(* is what a request runs between two awaits.                              *)
(*                                                                         *)
(* Symbols and intervals do not interact: they share only the pool.  The   *)
(* writers of klines beside the service, the DataSaver and gap fill        *)
(* workers, show as StoreLive and Recover.                                 *)
(***************************************************************************)
EXTENDS Integers, Sequences, FiniteSets

CONSTANTS
  Requests,
  Limits,        \* what clients ask for
  MaxKlineLimit, \* settings.max_kline_limit
  CacheLimit,    \* settings.historical_cache_limit
  CacheEnabled,  \* settings.historical_cache_enabled
  MaxCandle,     \* bound: candles the exchange opens
  FaultKinds,    \* the kinds of fault the environment may inject
  MaxFaults      \* bound: how many of them

ASSUME MarketServiceAssumption ==
  /\ Limits \subseteq Nat \ {0}
  /\ MaxKlineLimit \in Nat \ {0} /\ CacheLimit \in Nat \ {0}
  /\ CacheEnabled \in BOOLEAN
  /\ MaxCandle \in Nat \ {0}
  /\ FaultKinds \subseteq {"cache", "db", "http", "body"}
  /\ MaxFaults \in Nat

VARIABLES
  warm,    \* preload_historical_cache is over and requests are served
  stage,   \* where get_historical_klines awaits, per request
  limit,   \* what it asks for
  rows,    \* its list: [n, kind] of each candle
  origin,  \* where its answer came from
  pool,    \* who opened the pool in _db_pool: a set of at most one
  opened,  \* history: who opened a pool
  cache,   \* the list in Redis
  klines,  \* the row of each candle: none, open (unfinished values) or closed
  now,     \* the candle that is open on the exchange
  failed,  \* history: what failed for a request
  faults   \* bound: faults so far

request == <<stage, limit, rows, origin>>
pools   == <<pool, opened>>
ghosts  == <<failed, faults>>
vars    == <<warm, request, pools, cache, klines, now, ghosts>>

Candles == 1..MaxCandle
Item(n, kind) == [n |-> n, kind |-> kind]
Items == [n : Candles, kind : {"open", "closed"}]

Lesser(a, b) == IF a <= b THEN a ELSE b

\* rows[-k:]
MutLastOf(s, k) == s  \* the list is not cut
LastOf(s, k) == IF Len(s) <= k THEN s ELSE SubSeq(s, Len(s) - k + 1, Len(s))

\* ORDER BY timestamp DESC, then reversed().
MutInOrder(S) ==  \* not reversed
  [i \in 1..Cardinality(S) |->
     CHOOSE x \in S : Cardinality({y \in S : y.n > x.n}) = i - 1]
InOrder(S) ==
  [i \in 1..Cardinality(S) |->
     CHOOSE x \in S : Cardinality({y \in S : y.n < x.n}) = i - 1]

Stored == {Item(n, klines[n]) : n \in {n \in Candles : klines[n] /= "none"}}

\* The API returns the newest candles, the open one among them.
OnExchange == {Item(n, IF n < now THEN "closed" ELSE "open") : n \in 1..now}

-----------------------------------------------------------------------------
Init ==
  /\ warm = FALSE
  /\ stage = [r \in Requests |-> "idle"]
  /\ limit = [r \in Requests |-> 0]
  /\ rows = [r \in Requests |-> <<>>]
  /\ origin = [r \in Requests |-> "none"]
  /\ pool = {}
  /\ opened = {}
  /\ cache = <<>>
  /\ klines = [n \in Candles |-> "none"]
  /\ now = 1
  /\ failed = [r \in Requests |-> {}]
  /\ faults = 0

Fault(kind) ==
  /\ kind \in FaultKinds
  /\ faults < MaxFaults
  /\ faults' = faults + 1

FaultOf(r, kind) ==
  /\ Fault(kind)
  /\ failed' = [failed EXCEPT ![r] = @ \cup {kind}]

Goto(r, s) == stage' = [stage EXCEPT ![r] = s]

\* The request is over; rows holds its answer.
Answer(r, from) ==
  /\ Goto(r, "done")
  /\ origin' = [origin EXCEPT ![r] = from]

\* _get_pool() in front of a use of the database: to read or to seed.
Opening(use)   == IF use = "read" THEN "open to read" ELSE "open to seed"
NeedPool(r, use) == Goto(r, IF pool = {} THEN Opening(use) ELSE use)

\* preload_historical_cache, in the lifespan, before the first request.
Preload ==
  /\ ~warm
  /\ warm' = TRUE
  /\ cache' = IF CacheEnabled
                THEN LastOf(InOrder(OnExchange), Lesser(CacheLimit, MaxKlineLimit))
                ELSE cache
  /\ UNCHANGED <<request, pools, klines, now, ghosts>>

\* _prewarm_symbol_interval fails.
PreloadFails ==
  /\ ~warm
  /\ \E kind \in {"http", "body", "cache"} : Fault(kind)
  /\ warm' = TRUE
  /\ UNCHANGED <<request, pools, cache, klines, now, failed>>

-----------------------------------------------------------------------------
Ask(r, l) ==
  /\ warm
  /\ stage[r] = "idle"
  /\ limit' = [limit EXCEPT ![r] = l]
  /\ IF CacheEnabled THEN Goto(r, "cache") ELSE NeedPool(r, "read")
  /\ UNCHANGED <<warm, rows, origin, pools, cache, klines, now, ghosts>>

\* _fetch_from_cache
ReadCache(r) ==
  /\ stage[r] = "cache"
  /\ rows' = [rows EXCEPT ![r] = LastOf(cache, limit[r])]
  /\ IF cache /= <<>>
       THEN Answer(r, "cache")
       ELSE NeedPool(r, "read") /\ UNCHANGED origin
  /\ UNCHANGED <<warm, limit, pools, cache, klines, now, ghosts>>

ReadCacheFails(r) ==
  /\ stage[r] = "cache"
  /\ FaultOf(r, "cache")
  /\ NeedPool(r, "read")
  /\ UNCHANGED <<warm, limit, rows, origin, pools, cache, klines, now>>

\* create_pool() returns to whoever called it: the last one stays in _db_pool.
MutOpenPool(r, use) ==  \* whoever is not first waits for an event nobody sets
  /\ stage[r] = Opening(use)
  /\ pool = {}
  /\ Goto(r, use)
  /\ pool' = {r}
  /\ opened' = opened \cup {r}
  /\ UNCHANGED <<warm, limit, rows, origin, cache, klines, now, ghosts>>
OpenPool(r, use) ==
  /\ stage[r] = Opening(use)
  /\ Goto(r, use)
  /\ pool' = {r}
  /\ opened' = opened \cup {r}
  /\ UNCHANGED <<warm, limit, rows, origin, cache, klines, now, ghosts>>

\* _fetch_from_db
ReadDb(r) ==
  /\ stage[r] = "read"
  /\ LET found == LastOf(InOrder(Stored), Lesser(limit[r], MaxKlineLimit))
     IN  /\ rows' = [rows EXCEPT ![r] = found]
         /\ Goto(r, IF found = <<>> THEN "rest" ELSE "cache db rows")
  /\ UNCHANGED <<warm, limit, origin, pools, cache, klines, now, ghosts>>

ReadDbFails(r) ==
  /\ stage[r] \in {"open to read", "read"}
  /\ FaultOf(r, "db")
  /\ Goto(r, "rest")
  /\ UNCHANGED <<warm, limit, rows, origin, pools, cache, klines, now>>

\* _fetch_from_binance
FetchRest(r) ==
  /\ stage[r] = "rest"
  /\ rows' = [rows EXCEPT ![r] =
                LastOf(InOrder(OnExchange), Lesser(limit[r], MaxKlineLimit))]
  /\ Goto(r, "cache rest rows")
  /\ UNCHANGED <<warm, limit, origin, pools, cache, klines, now, ghosts>>

\* An HTTP error, or a body that is JSON but holds no candle: the emergency
\* mock.
FetchRestFails(r) ==
  /\ stage[r] = "rest"
  /\ FaultOf(r, "http")
  /\ Answer(r, "mock")
  /\ UNCHANGED <<warm, limit, rows, pools, cache, klines, now>>

\* A body that is not JSON: the error is no HTTPError, the client gets a 500.
RestGarbage(r) ==
  /\ stage[r] = "rest"
  /\ FaultOf(r, "body")
  /\ Answer(r, "error")
  /\ UNCHANGED <<warm, limit, rows, pools, cache, klines, now>>

\* _seed_cache, of rows from either source; its errors are caught.
Seeded(r) ==
  IF stage[r] = "cache db rows"
    THEN Answer(r, "db")
    ELSE NeedPool(r, "seed") /\ UNCHANGED origin

SeedCache(r) ==
  /\ stage[r] \in {"cache db rows", "cache rest rows"}
  /\ cache' = rows[r]
  /\ Seeded(r)
  /\ UNCHANGED <<warm, limit, rows, pools, klines, now, ghosts>>

SeedCacheFails(r) ==
  /\ stage[r] \in {"cache db rows", "cache rest rows"}
  /\ FaultOf(r, "cache")
  /\ cache' \in {cache, rows[r]}
  /\ Seeded(r)
  /\ UNCHANGED <<warm, limit, rows, pools, klines, now>>

\* ON CONFLICT DO NOTHING.
MutInserted(s) ==  \* DO UPDATE
  [n \in Candles |-> IF \E i \in DOMAIN s : s[i].n = n
                       THEN s[CHOOSE i \in DOMAIN s : s[i].n = n].kind
                       ELSE klines[n]]
Inserted(s) ==
  [n \in Candles |-> IF klines[n] = "none" /\ \E i \in DOMAIN s : s[i].n = n
                       THEN s[CHOOSE i \in DOMAIN s : s[i].n = n].kind
                       ELSE klines[n]]

\* _seed_db, one transaction; its errors are caught, and one of the COMMIT
\* leaves open whether it took effect.
SeedDb(r) ==
  /\ stage[r] = "seed"
  /\ klines' = Inserted(rows[r])
  /\ Answer(r, "rest")
  /\ UNCHANGED <<warm, limit, rows, pools, cache, now, ghosts>>

MutSeedDbFails(r) ==  \* the error reaches the client
  /\ stage[r] \in {"open to seed", "seed"}
  /\ FaultOf(r, "db")
  /\ Answer(r, "error")
  /\ UNCHANGED <<warm, limit, rows, pools, cache, klines, now>>
SeedDbFails(r) ==
  /\ stage[r] \in {"open to seed", "seed"}
  /\ FaultOf(r, "db")
  /\ klines' \in IF stage[r] = "seed" THEN {klines, Inserted(rows[r])} ELSE {klines}
  /\ Answer(r, "rest")
  /\ UNCHANGED <<warm, limit, rows, pools, cache, now>>

-----------------------------------------------------------------------------
\* The entry expires; with a lifetime of 0 it need not.
Expire ==
  /\ cache /= <<>>
  /\ cache' = <<>>
  /\ UNCHANGED <<warm, request, pools, klines, now, ghosts>>

\* The open candle closes and the next one opens.
CloseCandle ==
  /\ now < MaxCandle
  /\ now' = now + 1
  /\ UNCHANGED <<warm, request, pools, cache, klines, ghosts>>

\* The DataSaver worker inserts a closed candle with DO NOTHING, the gap fill
\* worker with DO UPDATE.
StoreLive(n) ==
  /\ n < now
  /\ klines' = Inserted(<<Item(n, "closed")>>)
  /\ UNCHANGED <<warm, request, pools, cache, now, ghosts>>

Recover(n) ==
  /\ n < now
  /\ klines' = [klines EXCEPT ![n] = "closed"]
  /\ UNCHANGED <<warm, request, pools, cache, now, ghosts>>

Step(r) ==
  \/ ReadCache(r) \/ ReadCacheFails(r)
  \/ \E use \in {"read", "seed"} : OpenPool(r, use)
  \/ ReadDb(r) \/ ReadDbFails(r)
  \/ FetchRest(r) \/ FetchRestFails(r) \/ RestGarbage(r)
  \/ SeedCache(r) \/ SeedCacheFails(r)
  \/ SeedDb(r) \/ SeedDbFails(r)

Next ==
  \/ Preload \/ PreloadFails \/ Expire \/ CloseCandle
  \/ \E n \in Candles : StoreLive(n) \/ Recover(n)
  \/ \E r \in Requests : Step(r) \/ \E l \in Limits : Ask(r, l)

Spec == Init /\ [][Next]_vars

\* The event loop runs the requests and every await ends, or raises as a fault.
\* Nothing is assumed of the clients, the exchange and the other writers.
FairSpec == Spec /\ \A r \in Requests : WF_vars(Step(r))

-----------------------------------------------------------------------------
Stages == {"idle", "cache", "open to read", "read", "rest", "cache db rows",
           "cache rest rows", "open to seed", "seed", "done"}

\* Type invariant: no list is longer than its request asked for, whichever of
\* the three sources it comes from and whoever seeded the cache.
TypeOK ==
  /\ warm \in BOOLEAN
  /\ stage \in [Requests -> Stages]
  /\ limit \in [Requests -> Limits \cup {0}]
  /\ \A r \in Requests : rows[r] \in Seq(Items) /\ Len(rows[r]) <= limit[r]
  /\ origin \in [Requests -> {"none", "cache", "db", "rest", "mock", "error"}]
  /\ pool \subseteq opened /\ opened \subseteq Requests
  /\ cache \in Seq(Items) /\ Len(cache) <= MaxKlineLimit
  /\ klines \in [Candles -> {"none", "open", "closed"}]
  /\ now \in Candles
  /\ failed \in [Requests -> SUBSET FaultKinds]
  /\ faults \in 0..MaxFaults

Ascending(s) == \A i \in 1..(Len(s) - 1) : s[i].n < s[i + 1].n

\* An answer that is not invented is a non-empty list in ascending order of time
\* and holds no candle twice (docs/apis/api.md:17), also when the cache hands on
\* what another request found in klines or fetched.
AnswerInOrder ==
  \A r \in Requests :
    origin[r] \in {"cache", "db", "rest"} => rows[r] /= <<>> /\ Ascending(rows[r])

\* The row of a closed candle is final: a fallback list that was fetched while
\* the candle was open and is stored only later does not replace it.
ClosedStays ==
  [][\A n \in Candles : klines[n] = "closed" => klines'[n] = "closed"]_vars

\* Invented candles are the last resort, an error is none at all: whatever
\* else fails, only a failed call of the exchange leads to the one and only a
\* body that is not JSON to the other.
LastResort ==
  \A r \in Requests : /\ origin[r] = "mock"  => "http" \in failed[r]
                      /\ origin[r] = "error" => "body" \in failed[r]

\* Every request is answered, also when several open the pool at once.
Answered ==
  \A r \in Requests : stage[r] /= "idle" ~> stage[r] = "done"
=============================================================================
