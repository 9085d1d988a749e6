---------------------------- MODULE WatchlistTicks ----------------------------
(***************************************************************************)
(* The watchlist of useWatchlistTicks.ts: a row per symbol with a price, a *)
(* direction and a flash of 150 ms.  The price comes from trades on a      *)
(* socket and from polls of the REST service, which may be slower than the *)
(* ten seconds between them.  An effect runs for each interval and is      *)
(* disposed of by the next.                                                *)
(*                                                                         *)
(* A setRows call queues an update; React applies the queued updates in    *)
(* order at the next render.  The update of a trade starts the timer of    *)
(* its flash, so that the timer starts with the render and may do so after *)
(* the cleanup of its effect.                                              *)
(***************************************************************************)
EXTENDS Integers, Sequences, FiniteSets, FiniteSetsExt, SequencesExt

CONSTANTS
  Symbols,     \* the rows
  Prices,      \* prices trades may have
  MaxTrades,   \* bound: trades
  MaxPolls,    \* bound: polls, the first ones of effects left out
  MaxEffects,  \* bound: choices of an interval
  MaxDrops,    \* bound: sockets lost
  MaxQueue     \* bound: updates between two renders

NoPrice == 0

ASSUME WatchlistTicksAssumption ==
  /\ Prices \subseteq Nat \ {NoPrice}
  /\ MaxTrades \in Nat /\ MaxPolls \in Nat
  /\ MaxEffects \in Nat \ {0} /\ MaxDrops \in Nat /\ MaxQueue \in Nat

VARIABLES
  active,   \* the number of the effect that runs
  rows,     \* what the panel shows
  queue,    \* updates of rows that React has not applied
  timers,   \* flash timers that run: [symbol, id]
  ref,      \* timersRef.current, per symbol, 0 for none
  polls,    \* polls that wait for an answer, per effect
  socket,   \* of the active effect: connecting, open or dead
  bus,      \* trades published and not yet delivered
  trades,   \* bound: trades so far, and the number of the last
  polled,   \* bound: polls started by the interval timer
  drops     \* bound: sockets lost so far

vars   == <<active, rows, queue, timers, ref, polls, socket, bus, trades,
            polled, drops>>
panel  == <<rows, timers, ref>>
limits == <<trades, polled, drops>>

Blank == [s \in Symbols |->
            [price |-> NoPrice, direction |-> "none", flashing |-> FALSE]]

Direction(old, new) ==
  CASE old = NoPrice \/ old = new -> "none"
    [] old < new -> "up"
    [] old > new -> "down"

-----------------------------------------------------------------------------
\* The updates of rows; st has the rows, the timers and the timers' ref.
Update(kind, effect, what) == [kind |-> kind, effect |-> effect, what |-> what]

Queued(u) ==
  /\ Len(queue) < MaxQueue
  /\ queue' = Append(queue, u)

\* clearTimeout of the timer that ref has for s.
MutCleared(st, s) == st.timers  \* an older timer goes on
Cleared(st, s) == st.timers \ {[symbol |-> s, id |-> st.ref[s]]}

Ticked(st, t) ==
  LET d == Direction(st.rows[t.symbol].price, t.price)
  IN  [rows |-> [st.rows EXCEPT ![t.symbol] =
                   [price |-> t.price, direction |-> d, flashing |-> d /= "none"]],
       timers |-> Cleared(st, t.symbol) \cup {[symbol |-> t.symbol, id |-> t.id]},
       ref |-> [st.ref EXCEPT ![t.symbol] = t.id]]

\* A symbol whose request failed, or that has no candle, keeps its row.
MutPriced(row, p) ==  \* a poll lets the row flash, and no timer dims it
  IF p = NoPrice THEN row
  ELSE [row EXCEPT !.price = p, !.direction = Direction(row.price, p),
                   !.flashing = Direction(row.price, p) /= "none"]
Priced(row, p) ==
  IF p = NoPrice THEN row
  ELSE [row EXCEPT !.price = p, !.direction = Direction(row.price, p)]
Hydrated(st, snapshot) ==
  [st EXCEPT !.rows = [s \in Symbols |-> Priced(st.rows[s], snapshot[s])]]

Dimmed(st, s) == [st EXCEPT !.rows[s].flashing = FALSE]

Applied(u, st) ==
  CASE u.kind = "tick"  -> Ticked(st, u.what)
    [] u.kind = "poll"  -> Hydrated(st, u.what)
    [] u.kind = "off"   -> Dimmed(st, u.what)
    [] u.kind = "reset" -> [st EXCEPT !.rows = Blank]

\* React applies all that is queued.
Rendered(q, start) ==
  LET st[i \in 0..Len(q)] ==
        IF i = 0 THEN start ELSE Applied(q[i], st[i - 1])
  IN  st[Len(q)]
Render ==
  /\ queue /= <<>>
  /\ LET end == Rendered(queue, [rows |-> rows, timers |-> timers, ref |-> ref])
     IN  rows' = end.rows /\ timers' = end.timers /\ ref' = end.ref
  /\ queue' = <<>>
  /\ UNCHANGED <<active, polls, socket, bus, limits>>

-----------------------------------------------------------------------------
Init ==
  /\ active = 1
  /\ rows = Blank
  /\ queue = <<>>
  /\ timers = {}
  /\ ref = [s \in Symbols |-> 0]
  /\ polls = [e \in 1..MaxEffects |-> IF e = 1 THEN 1 ELSE 0]
  /\ socket = "connecting"
  /\ bus = <<>>
  /\ trades = 0
  /\ polled = 0
  /\ drops = 0

\* The user chooses another interval: the cleanup of the old effect, and the
\* start of the new one, with its first poll and its socket.
MutReset == UNCHANGED queue  \* the effect does not set the rows again
Reset == Queued(Update("reset", active + 1, {}))
ChooseInterval ==
  /\ active < MaxEffects
  /\ active' = active + 1
  /\ timers' = {t \in timers : t.id /= ref[t.symbol]}
  /\ ref' = [s \in Symbols |-> 0]
  /\ Reset
  /\ polls' = [polls EXCEPT ![active'] = 1]
  /\ socket' = "connecting"
  /\ UNCHANGED <<rows, bus, limits>>

\* Ten seconds have passed, whether or not the last poll was answered.
Poll ==
  /\ polled < MaxPolls
  /\ polled' = polled + 1
  /\ polls' = [polls EXCEPT ![active] = @ + 1]
  /\ UNCHANGED <<active, panel, queue, socket, bus, trades, drops>>

\* All requests of a poll are answered or have failed, with prices as old as the
\* caches of the REST service.
MutDisposed(e) == FALSE
Disposed(e) == e < active
PollAnswers(e) ==
  /\ polls[e] > 0
  /\ polls' = [polls EXCEPT ![e] = @ - 1]
  /\ \E snapshot \in [Symbols -> Prices \cup {NoPrice}] :
       IF Disposed(e) THEN UNCHANGED queue
                      ELSE Queued(Update("poll", e, snapshot))
  /\ UNCHANGED <<active, panel, socket, bus, limits>>

\* A trade is published, and delivered if the socket is open.
Trade(s, p) ==
  /\ trades < MaxTrades
  /\ trades' = trades + 1
  /\ bus' = Append(bus, [symbol |-> s, price |-> p, id |-> trades'])
  /\ UNCHANGED <<active, panel, queue, polls, socket, polled, drops>>

Deliver ==
  /\ bus /= <<>>
  /\ bus' = Tail(bus)
  /\ IF socket = "open" THEN Queued(Update("tick", active, Head(bus)))
                        ELSE UNCHANGED queue
  /\ UNCHANGED <<active, panel, polls, socket, limits>>

FlashOver(t) ==
  /\ t \in timers
  /\ timers' = timers \ {t}
  /\ Queued(Update("off", active, t.symbol))
  /\ UNCHANGED <<active, rows, ref, polls, socket, bus, limits>>

SocketOpens ==
  /\ socket = "connecting"
  /\ socket' = "open"
  /\ UNCHANGED <<active, panel, queue, polls, bus, limits>>

SocketDrops ==
  /\ socket /= "dead"
  /\ drops < MaxDrops
  /\ drops' = drops + 1
  /\ socket' = "dead"
  /\ UNCHANGED <<active, panel, queue, polls, bus, trades, polled>>

Next ==
  \/ Render \/ ChooseInterval \/ Poll
  \/ \E e \in 1..MaxEffects : PollAnswers(e)
  \/ \E s \in Symbols, p \in Prices : Trade(s, p)
  \/ Deliver \/ SocketOpens \/ SocketDrops
  \/ \E t \in timers : FlashOver(t)

Spec == Init /\ [][Next]_vars

\* React renders, and the browser runs each timer that nobody clears.  One that is
\* cleared never fires: nothing is assumed of the timers of a row together.
Fairness ==
  /\ WF_vars(Render)
  /\ \A s \in Symbols, id \in 1..MaxTrades : WF_vars(FlashOver([symbol |-> s, id |-> id]))

FairSpec == Spec /\ Fairness

-----------------------------------------------------------------------------
\* Type invariant; a row has one flash timer at most, so that timers do not pile
\* up and end each other's flashes, even if one starts after the cleanup.
TypeOK ==
  /\ active \in 1..MaxEffects
  /\ rows \in [Symbols -> [price : Prices \cup {NoPrice},
                           direction : {"up", "down", "none"}, flashing : BOOLEAN]]
  /\ \A i \in DOMAIN queue : queue[i].kind \in {"tick", "poll", "off", "reset"}
  /\ timers \subseteq [symbol : Symbols, id : 1..MaxTrades]
  /\ ref \in [Symbols -> 0..MaxTrades]
  /\ polls \in [1..MaxEffects -> Nat]
  /\ socket \in {"connecting", "open", "dead"}
  /\ \A s \in Symbols : Cardinality({t \in timers : t.symbol = s}) <= 1

\* Once an effect has set the rows again, nothing that an older effect asked for
\* or listened to reaches them: neither a slow poll nor a trade of the old socket
\* (disposed and the cleanup of useWatchlistTicks).
RowsOfCurrent ==
  \A i \in DOMAIN queue :
    queue[i].kind \in {"tick", "poll"} /\ queue[i].effect < active =>
      \E j \in DOMAIN queue : j > i /\ queue[j].kind = "reset"

\* Every row that flashes has something that will end it, in whatever order
\* renders, timers, trades and choices come: a timer of its own or, in the queue,
\* what a timer or a choice asked for (timersRef, setTimeout and the cleanup).
Ends(u, s) == u.kind = "reset" \/ (u.kind = "off" /\ u.what = s)
FlashTended ==
  \A s \in Symbols : rows[s].flashing =>
    \/ \E t \in timers : t.symbol = s
    \/ \E i \in DOMAIN queue : Ends(queue[i], s)

\* A flash ends, unless a later trade restarts it: its own timer ends it, or, when
\* a choice has cleared the timer (ref is 0), the reset of the rows.  Nothing is said
\* of a row whose price changes again within 150 ms, and again: each of these trades
\* clears the timer of the one before, and the row stays lit.
FlashEnds ==
  \A s \in Symbols, id \in 0..MaxTrades :
    rows[s].flashing /\ ref[s] = id ~> ~rows[s].flashing \/ ref[s] /= id
=============================================================================
