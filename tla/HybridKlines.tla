----------------------------- MODULE HybridKlines -----------------------------
(***************************************************************************)
(* The candle series of the main chart: useHybridKlines.ts with its socket *)
(* marketWsClient.ts, the clock of useServerTime.ts and the choice of      *)
(* symbol and interval of App.tsx.  An effect runs for each choice: it     *)
(* shows what sessionStorage has, asks the REST service for history, and   *)
(* then opens a socket whose klines and trades change the series; the next *)
(* choice disposes of it.  A second effect adds candles as the clock goes. *)
(*                                                                         *)
(* JavaScript runs one callback at a time and React applies the updates of *)
(* a state in the order they were queued, so an update is part of the step *)
(* that queues it.  A series is a function from the time stamps on the     *)
(* chart to items; an item is the key whose prices it shows, whether they  *)
(* are those of a closed candle, and whether they were made up by the REST *)
(* service, which does so when it has no source left.                      *)
(***************************************************************************)
EXTENDS Integers, Sequences, FiniteSets, Functions, SequencesExt, FiniteSetsExt

CONSTANTS
  Keys,        \* (symbol, interval) pairs the user may choose
  Symbol,      \* the symbol of each key
  Interval,    \* the length of each key's candles
  Phase,       \* when the first candle of each key opens
  Limit,       \* candles asked for and kept
  MaxFill,     \* candles one tick of the clock adds at most
  Skews,       \* by how much nowMs may be ahead of the exchange
  Start,       \* the time when the page is opened
  MaxTime,     \* bound: time
  MaxEffects,  \* bound: choices and reloads
  MaxBus,      \* bound: events on their way to the page
  MaxStale,    \* bound: candles an answer of the REST service may be behind
  FaultKinds,  \* the kinds of fault the environment may inject
  MaxFaults    \* bound: how many of them

Second == 2  \* in units of time: a candle closes one unit before a full second

ASSUME HybridKlinesAssumption ==
  /\ Interval \in [Keys -> {d \in Nat \ {0} : d % Second = 0}]
  /\ Phase \in [Keys -> {d \in Nat : d % Second = 0}]
  /\ DOMAIN Symbol = Keys
  /\ Limit \in Nat \ {0} /\ MaxFill \in Nat \ {0}
  /\ Skews \subseteq Nat /\ Skews /= {} /\ IsFiniteSet(Skews)
  /\ Start \in Nat /\ MaxTime \in Nat /\ MaxEffects \in Nat
  /\ MaxBus \in Nat /\ MaxStale \in Nat
  /\ FaultKinds \subseteq {"http", "socket", "outage", "sources"}
  /\ MaxFaults \in Nat

VARIABLES
  now,      \* the time of the exchange
  bus,      \* events published and not yet delivered or filtered out
  effects,  \* the key of each bootstrap effect so far: the last one is active
  pending,  \* effects that wait for fetchHistoricalKlines
  series,   \* klines, as the chart shows them
  status,   \* isLoading and error: loading, live or error
  clock,    \* nowMs
  cache,    \* sessionStorage, per key
  socket,   \* MarketWsClient.ws: none, connecting, open or dead
  watched,  \* the key the server filters by for this socket
  handlers, \* effects whose handlers listen to this socket
  opened,   \* history: when the socket opened
  missed,   \* history: closed candles the ingestor did not publish
  spoilt,   \* history: stamps that a trade of an older candle went into
  faults    \* bound: faults injected so far

exchange == <<now, bus, missed>>
page     == <<effects, pending, series, status, clock, spoilt>>
link     == <<socket, watched, handlers, opened>>
vars     == <<exchange, page, cache, link, faults>>

chosen == Last(effects)
active == Len(effects)

-----------------------------------------------------------------------------
\* The n-th candle of a key, as Binance numbers time.
CloseTime(k, n) == Phase[k] + (n + 1) * Interval[k] - 1
InProgress(k, t) == (t - Phase[k]) \div Interval[k]

\* The stamp of an item: its close time without the milliseconds.
Canonical(t) == t - (t % Second)
Stamp(k, n) == Canonical(CloseTime(k, n))

\* getCandleCloseTimeMs: where the client expects the candle of time t to close.
MutClientClose(t, len) == (t \div len) * len + len  \* the next open time
ClientClose(t, len) == (t \div len) * len + len - Second

Newest(S) == {s \in S : Cardinality({t \in S : t > s}) < Limit}

\* normalizeCandles, of items that have canonical stamps.
MutNormalized(f) == f  \* no slice(-limit)
Normalized(f) == Restrict(f, Newest(DOMAIN f))

Upsert(f, s, item) ==
  Normalized([t \in DOMAIN f \cup {s} |-> IF t = s THEN item ELSE f[t]])

Newer(f) == f[Max(DOMAIN f)]
Unfinished(item) == [item EXCEPT !.final = FALSE]

\* advanceLiveCandle: flat candles from the last one on, up to that of the clock.
Advanced(f, t, len) ==
  IF DOMAIN f = {} THEN f
  ELSE LET last  == Max(DOMAIN f)
           steps == {i \in 1..MaxFill : last + (i - 1) * len < ClientClose(t, len)}
           added == {last + i * len : i \in steps}
       IN  Normalized([s \in DOMAIN f \cup added |->
                         IF s \in added THEN Unfinished(f[last]) ELSE f[s]])

\* onTick: a trade at time t goes into the last candle, or into one after it.
Ticked(f, t, len) ==
  LET last == Max(DOMAIN f)
      its  == ClientClose(t, len)
  IN  Upsert(f, IF its <= last THEN last ELSE its, Unfinished(Newer(f)))

\* What fetchHistoricalKlines may answer for k: the newest candles up to some
\* moment in the past (the REST service caches), the newest of them perhaps with
\* the prices of a moment when it was still open.
Item(k, final) == [key |-> k, final |-> final, mock |-> FALSE]
EmptySeries == [s \in {} |-> 0]
UpTo(k, m, final) ==
  Normalized([s \in {Stamp(k, n) : n \in 0..m} |->
                Item(k, s < Stamp(k, m) \/ final)])
Answers(k) ==
  LET current == InProgress(k, now)
      older   == (current - MaxStale..current - 1) \cap Nat
  IN  {UpTo(k, m, FALSE) : m \in older \cup {current}} \cup
      {UpTo(k, m, TRUE) : m \in older}

\* The candles the service makes up: one per interval, back from the time of the
\* answer, which need not be a close time (_build_emergency_mock).
Mock(k) ==
  Normalized([s \in {Canonical(now - i * Interval[k]) : i \in 1..Limit} \cap Nat |->
                [Item(k, FALSE) EXCEPT !.mock = TRUE]])

Kline(k, n, final) == [kind |-> "kline", of |-> k, at |-> CloseTime(k, n),
                       final |-> final]
Trade(kind, s, t) == [kind |-> kind, of |-> s, at |-> t, final |-> FALSE]

\* The filter of the server (see MarketGateway) and those of the handlers.
ForKey(e, k) == e.of = IF e.kind = "kline" THEN k ELSE Symbol[k]

Fault(kind) ==
  /\ kind \in FaultKinds
  /\ faults < MaxFaults
  /\ faults' = faults + 1

\* setSessionCachedKlines; the entry is named for the symbol and the interval.
Stored(k, f) == cache' = [cache EXCEPT ![k] = f]

-----------------------------------------------------------------------------
\* The ingestor publishes on Redis.  Of another choice than the present one no
\* event is looked at: the server filters it out.
Current == InProgress(chosen, now)

Published(e) ==
  /\ Len(bus) < MaxBus
  /\ bus' = Append(bus, e)

\* Time passes, and with it a candle may close; the ingestor may be cut off.
Pass ==
  /\ now < MaxTime
  /\ now' = now + 1
  /\ IF now < Phase[chosen] \/ CloseTime(chosen, Current) /= now
       THEN UNCHANGED <<bus, missed, faults>>
       ELSE \/ /\ Published(Kline(chosen, Current, TRUE))
               /\ UNCHANGED <<missed, faults>>
            \/ /\ Fault("outage")
               /\ missed' = missed \cup {<<chosen, Current>>}
               /\ UNCHANGED bus
  /\ UNCHANGED <<page, cache, link>>

\* A candle in progress, a trade, or a trade that comes after the event that
\* closed its candle.
Publish ==
  /\ now > Phase[chosen]
  /\ \/ Published(Kline(chosen, Current, FALSE))
     \/ Published(Trade("trade", Symbol[chosen], now))
     \/ /\ CloseTime(chosen, Current - 1) = now - 1
        /\ Published(Trade("late", Symbol[chosen], now - 1))
  /\ UNCHANGED <<now, missed, page, cache, link, faults>>

-----------------------------------------------------------------------------
\* The effect of a choice: what the cache has is shown at once, else the old
\* series stays; the effect of the clock runs again if the interval changed.
Bootstrap(k, old, t, len) ==
  LET kept  == IF DOMAIN cache[k] = {} THEN old
                                       ELSE Normalized(cache[k])
  IN  /\ active < MaxEffects
      /\ effects' = Append(effects, k)
      /\ series' = IF Interval[k] /= len THEN Advanced(kept, t, Interval[k])
                                         ELSE kept
      /\ status' = "loading"
      /\ clock' = t
      /\ spoilt' = {}

\* The cleanup of the old effect: its handlers go, its socket is closed.
MutDispose ==  \* the socket stays, and connect() does nothing
  /\ handlers' = {}
  /\ UNCHANGED <<socket, watched, opened>>
Dispose ==
  /\ socket' = "none"
  /\ handlers' = {}
  /\ opened' = 0
  /\ UNCHANGED watched

\* The user chooses.  Events on their way stay there: the server filters them
\* when it sends, for the socket that is there by then.
Choose(k) ==
  /\ k /= chosen
  /\ Bootstrap(k, series, clock, Interval[chosen])
  /\ pending' = pending \cup {active + 1}
  /\ Dispose
  /\ UNCHANGED <<exchange, cache, faults>>

\* The page is loaded again: the choice and the session storage are kept.  Both
\* effects run, with a clock that has not asked for the server's time yet.
Reload ==
  /\ \E skew \in Skews : Bootstrap(chosen, EmptySeries, now + skew, 0)
  /\ pending' = {active + 1}
  /\ Dispose
  /\ UNCHANGED <<exchange, cache, faults>>

MutDisposed(e) == active > 1  \* one flag for all effects
MutNeverDisposed(e) == FALSE
Disposed(e) == e < active

\* The history arrives, made up if the service has no source left; connect() does
\* nothing if there is a socket.
Answer(e) ==
  /\ e \in pending
  /\ pending' = pending \ {e}
  /\ IF Disposed(e)
       THEN UNCHANGED <<series, status, spoilt, cache, link, faults>>
       ELSE /\ \/ series' \in Answers(effects[e]) /\ UNCHANGED faults
               \/ series' = Mock(effects[e]) /\ Fault("sources")
            /\ Stored(effects[e], series')
            /\ status' = "live"
            /\ spoilt' = {}
            /\ handlers' = handlers \cup {e}
            /\ IF socket = "none"
                 THEN socket' = "connecting" /\ watched' = effects[e]
                 ELSE UNCHANGED <<socket, watched>>
            /\ UNCHANGED opened
  /\ UNCHANGED <<exchange, effects, clock>>

FetchFails(e) ==
  /\ e \in pending
  /\ Fault("http")
  /\ pending' = pending \ {e}
  /\ status' = IF Disposed(e) THEN status ELSE "error"
  /\ UNCHANGED <<exchange, effects, series, clock, spoilt, cache, link>>

\* useServerTime: a second has passed, or the offset to the server's time has
\* changed.  The effect runs when nowMs is another.
Tick ==
  /\ \E skew \in Skews : clock' = now + skew
  /\ clock' /= clock
  /\ series' = Advanced(series, clock', Interval[chosen])
  /\ UNCHANGED <<exchange, effects, pending, status, spoilt, cache, link, faults>>

-----------------------------------------------------------------------------
\* The socket opens, and the server has its watchlist, or it is lost; nothing
\* listens to its close event.
SocketOpens ==
  /\ socket = "connecting"
  /\ socket' = "open"
  /\ opened' = now
  /\ UNCHANGED <<exchange, page, cache, watched, handlers, faults>>

SocketDrops ==
  /\ socket \in {"connecting", "open"}
  /\ Fault("socket")
  /\ socket' = "dead"
  /\ UNCHANGED <<exchange, page, cache, watched, handlers, opened>>

Shown(e, k) == IF e.kind = "kline"
                 THEN Upsert(series, Canonical(e.at), Item(k, e.final))
                 ELSE Ticked(series, e.at, Interval[k])

Deliver ==
  /\ bus /= <<>>
  /\ bus' = Tail(bus)
  /\ LET e == Head(bus)
         heard == {h \in handlers : /\ socket = "open"
                                    /\ ForKey(e, watched)
                                    /\ ForKey(e, effects[h])}
     IN  IF heard = {} \/ (e.kind /= "kline" /\ DOMAIN series = {})
           THEN UNCHANGED <<series, spoilt, cache>>
           ELSE \E h \in heard :
                  /\ series' = Shown(e, effects[h])
                  /\ Stored(effects[h], series')
                  /\ spoilt' = IF e.kind = "late"
                                 THEN spoilt \cup {Max(DOMAIN series)}
                                 ELSE spoilt
  /\ UNCHANGED <<now, missed, effects, pending, status, clock, link, faults>>

-----------------------------------------------------------------------------
Init ==
  /\ now = Start
  /\ bus = <<>>
  /\ effects \in {<<k>> : k \in Keys}
  /\ pending = {1}
  /\ series = EmptySeries
  /\ status = "loading"
  /\ clock \in {now + skew : skew \in Skews}
  /\ cache = [k \in Keys |-> EmptySeries]
  /\ socket = "none"
  /\ watched = chosen
  /\ handlers = {}
  /\ opened = 0
  /\ missed = {}
  /\ spoilt = {}
  /\ faults = 0

Next ==
  \/ Pass \/ Publish
  \/ \E k \in Keys : Choose(k)
  \/ \E e \in pending : Answer(e) \/ FetchFails(e)
  \/ Reload \/ Tick \/ SocketOpens \/ SocketDrops \/ Deliver

Spec == Init /\ [][Next]_vars

\* A request ends: the REST service answers each one (Answered of
\* MarketService), and the browser raises when the connection is lost.
Fairness == WF_vars(\E e \in pending : Answer(e))

FairSpec == Spec /\ Fairness

-----------------------------------------------------------------------------
IsSeries(f) ==
  /\ DOMAIN f \subseteq Nat
  /\ Cardinality(DOMAIN f) <= Limit
  /\ \A s \in DOMAIN f : f[s] \in [key : Keys, final : BOOLEAN, mock : BOOLEAN]

\* Type invariant; no series is longer than the limit, and one socket has the
\* handlers of one effect.
TypeOK ==
  /\ now \in Nat
  /\ \A i \in DOMAIN bus : bus[i].kind \in {"kline", "trade", "late"}
  /\ effects \in Seq(Keys) /\ effects /= <<>>
  /\ pending \subseteq 1..active
  /\ IsSeries(series)
  /\ status \in {"loading", "live", "error"}
  /\ clock \in Nat
  /\ DOMAIN cache = Keys /\ \A k \in Keys : IsSeries(cache[k])
  /\ socket \in {"none", "connecting", "open", "dead"}
  /\ watched \in Keys
  /\ handlers \subseteq {active}
  /\ opened \in Nat
  /\ missed \subseteq Keys \X Nat
  /\ spoilt \subseteq Nat
  /\ faults \in 0..MaxFaults

LiveShowsOwn ==
  status = "live" => \A s \in DOMAIN series : series[s].key = chosen

CacheOwn == \A k \in Keys : \A s \in DOMAIN cache[k] : cache[k][s].key = k

\* Once the page says it is live, everything on the chart is of the chosen
\* symbol and interval, or was made up for it, whatever was still on its way when
\* the user chose it: an answer, an event, a candle the clock added to the series
\* of the choice before (isDisposed and the cleanup of useHybridKlines).  And what
\* a choice finds in the session storage is its own, although the chart may show
\* another one when it is written.
OwnCandles == LiveShowsOwn /\ CacheOwn

\* A candle that closed after the socket opened is on the chart with the values
\* the exchange closed it with, or its event is still on its way: no tick, no
\* open candle and no candle of the clock, ahead of the exchange or behind, puts
\* other values there.  It may be missing only if the ingestor never published
\* it, the socket died, newer items, real or made up, pushed it off the chart, or a
\* trade came after the event that closed its candle (onKline, onTick, advanceLiveCandle).
FinalShown ==
  status = "live" /\ socket = "open" =>
    \A n \in 0..MaxTime :
      LET s == Stamp(chosen, n)
      IN  CloseTime(chosen, n) \in opened..(now - 1) =>
            \/ s \in DOMAIN series /\ series[s].final
            \/ Kline(chosen, n, TRUE) \in Range(bus)
            \/ \A t \in DOMAIN series : s < t
            \/ <<chosen, n>> \in missed
            \/ s \in spoilt

\* But for the items that stem from candles the REST service made up, a live chart
\* has one item per candle of the exchange and none of a candle that has not begun
\* by the clock: what the client computes as a close time (getCandleCloseTimeMs)
\* and what the server sends are the same stamps.  That needs candles that open at
\* multiples of their interval, counted from the epoch (Phase).  A made-up candle
\* has any stamp; the clock adds a series of such stamps to it, and trades go into
\* them, until a candle in progress or a trade comes after all of them.
Aligned ==
  status = "live" =>
    \A s \in DOMAIN series :
      \/ series[s].mock
      \/ /\ \E n \in 0..(now + Max(Skews)) : s = Stamp(chosen, n)
         /\ s <= ClientClose(now + Max(Skews), Interval[chosen])

\* The page is not loading for ever: the last choice is answered or reported as
\* failed, whichever of the requests before it ends first.
LoadingEnds == status = "loading" ~> status /= "loading"
=============================================================================
