----------------------------- MODULE MarketGateway -----------------------------
(***************************************************************************)
(* The WebSocket gateway of backend/app/ws/market_gateway.py with its      *)
(* endpoint /ws/market in main.py: one loop reads events from a Redis      *)
(* subscription and sends each to the clients whose watchlist matches; one *)
(* endpoint task per client registers it, applies its set_watchlist        *)
(* messages and removes it when it leaves.                                 *)
(*                                                                         *)
(* A step is what a task runs between two awaits that can suspend.  The    *)
(* bodies under _lock contain no await, so each is part of one step and    *)
(* the lock is never found taken.  A send hands its frame to the transport *)
(* and then waits while the client's buffer is full; it raises when the    *)
(* connection is lost.                                                     *)
(***************************************************************************)
EXTENDS Integers, Sequences, FiniteSets, Functions, SequencesExt

CONSTANTS
  Clients,      \* connections to /ws/market
  Symbols,      \* numbered in the order sorted() gives them
  Intervals,    \* likewise
  Events,       \* what Redis may deliver: [symbol, interval]
  Watchlists,   \* what browsers ask for: [symbols, intervals]
  MaxSymbols,   \* settings.ws_max_symbols_per_session
  MaxIntervals, \* settings.ws_max_intervals_per_session
  MaxEvents,    \* bound: events published
  MaxMessages,  \* bound: set_watchlist messages
  MaxFaults     \* bound: Redis errors

NoInterval == 0 \* a trade tick has no interval

ASSUME MarketGatewayAssumption ==
  /\ Symbols \subseteq Nat
  /\ Intervals \subseteq Nat \ {NoInterval}
  /\ Events \subseteq [symbol : Symbols, interval : Intervals \cup {NoInterval}]
  /\ Watchlists \subseteq [symbols : SUBSET Symbols, intervals : SUBSET Intervals]
  /\ IsFiniteSet(Symbols) /\ IsFiniteSet(Intervals)
  /\ MaxSymbols \in Nat \ {0} /\ MaxIntervals \in Nat \ {0}
  /\ MaxEvents \in Nat /\ MaxMessages \in Nat /\ MaxFaults \in Nat

VARIABLES
  loop,     \* the gateway: off, failed to start, listen, cast, dead, stopped
  bus,      \* events delivered to _pubsub and not yet read
  handled,  \* history: events read; during a broadcast the last is in hand
  targets,  \* clients the broadcast has still to look at
  waiting,  \* the client whose send the loop awaits: a set of at most one
  table,    \* the keys of _clients, in insertion order
  wants,    \* symbols and intervals of each ClientSubscription
  endpoint, \* where ws_market is, per client
  peer,     \* the connection: new, here, slow (its buffer is full) or gone
  inbox,    \* set_watchlist messages received and not yet read
  wire,     \* history: frames handed to the transport
  broken,   \* application_state of the WebSocket: set once a send has failed
  since,    \* history: events and frames before the watchlist in force
  messages, \* bound: set_watchlist messages sent
  faults    \* bound: Redis errors so far

casting == <<loop, handled, targets, waiting>>
clients == <<table, wants, endpoint, broken, since>>
browser == <<peer, inbox, messages>>
vars    == <<casting, bus, clients, browser, wire, faults>>

-----------------------------------------------------------------------------
\* sorted(S)[:cap], when S is longer than that.
MutTruncated(S, cap) == S  \* the cap is not applied
Truncated(S, cap) == {s \in S : Cardinality({t \in S : t < s}) < cap}

Subscription(w) == [symbols   |-> Truncated(w.symbols, MaxSymbols),
                    intervals |-> Truncated(w.intervals, MaxIntervals)]

\* An empty set asks for everything; an event without interval passes.
Matches(e, w) ==
  /\ w.symbols = {} \/ e.symbol \in w.symbols
  /\ w.intervals = {} \/ e.interval = NoInterval \/ e.interval \in w.intervals

EventFrame(e) == [kind |-> "event", about |-> e]
AckFrame(w)   == [kind |-> "ack", about |-> w]

Handed(c, frame) ==
  [wire EXCEPT ![c] = IF peer[c] = "gone" THEN @ ELSE Append(@, frame)]

\* _clients.pop(id(websocket), None)
Without(c) ==
  IF c \in Range(table)
    THEN RemoveAt(table, CHOOSE i \in DOMAIN table : table[i] = c)
    ELSE table

\* The broadcast of e looks at the clients in ts: it comes to the first one
\* that matches at this moment and sends, or to the end.
Proceed(e, ts) ==
  LET i == SelectInSeq(ts, LAMBDA c : Matches(e, wants[c]))
  IN  IF i = 0
        THEN /\ loop' = "listen"
             /\ targets' = <<>>
             /\ waiting' = {}
             /\ UNCHANGED wire
        ELSE /\ loop' = "cast"
             /\ targets' = SubSeq(ts, i + 1, Len(ts))
             /\ waiting' = {ts[i]}
             /\ wire' = Handed(ts[i], EventFrame(e))

\* Events whose broadcast has had its turn for c, and frames handed to it.
Passed(c) == [events |-> Len(handled) - (IF c \in Range(targets) THEN 1 ELSE 0),
              frames |-> Len(wire[c])]

-----------------------------------------------------------------------------
Init ==
  /\ loop = "off"
  /\ bus = <<>>
  /\ handled = <<>>
  /\ targets = <<>>
  /\ waiting = {}
  /\ table = <<>>
  /\ wants = [c \in Clients |-> [symbols |-> {}, intervals |-> {}]]
  /\ endpoint = [c \in Clients |-> "none"]
  /\ peer = [c \in Clients |-> "new"]
  /\ inbox = [c \in Clients |-> <<>>]
  /\ wire = [c \in Clients |-> <<>>]
  /\ broken = {}
  /\ since = [c \in Clients |-> [events |-> 0, frames |-> 0]]
  /\ messages = 0
  /\ faults = 0

RedisError ==
  /\ faults < MaxFaults
  /\ faults' = faults + 1

\* start(), once, in the lifespan of the application.
Start ==
  /\ loop = "off"
  /\ loop' = "listen"
  /\ UNCHANGED <<handled, targets, waiting, bus, clients, browser, wire, faults>>

\* psubscribe raises: the gateway gives up, the application starts.
StartFails ==
  /\ loop = "off"
  /\ RedisError
  /\ loop' = "failed"
  /\ UNCHANGED <<handled, targets, waiting, bus, clients, browser, wire>>

\* stop(), in the lifespan, after the server has closed its connections; the
\* task is cancelled where it waits.
Stop ==
  /\ loop \notin {"off", "stopped"}
  /\ \A c \in Clients : /\ endpoint[c] \in {"none", "ended", "failed"}
                        /\ endpoint[c] = "failed" => peer[c] = "gone"
  /\ loop' = "stopped"
  /\ bus' = <<>>
  /\ targets' = <<>>
  /\ waiting' = {}
  /\ UNCHANGED <<handled, clients, browser, wire, faults>>

\* Redis delivers an event; it keeps nothing for a gateway that is not there.
Publish(e) ==
  /\ loop \in {"listen", "cast"}
  /\ Len(handled) + Len(bus) < MaxEvents
  /\ bus' = Append(bus, e)
  /\ UNCHANGED <<casting, clients, browser, wire, faults>>

\* listen() raises: the task ends with the error, _running_task stays set.
LoopDies ==
  /\ loop = "listen"
  /\ RedisError
  /\ loop' = "dead"
  /\ bus' = <<>>
  /\ UNCHANGED <<handled, targets, waiting, clients, browser, wire>>

-----------------------------------------------------------------------------
\* The loop reads an event, copies the table and starts to send.
Read ==
  /\ loop = "listen"
  /\ bus /= <<>>
  /\ handled' = Append(handled, Head(bus))
  /\ bus' = Tail(bus)
  /\ Proceed(Head(bus), table)
  /\ UNCHANGED <<clients, browser, faults>>

\* A connection whose endpoint has failed closes behind the frame.
SendOk(c) ==
  /\ c \in waiting
  /\ peer[c] = "here"
  /\ peer' = [peer EXCEPT ![c] = IF endpoint[c] = "failed" THEN "gone" ELSE @]
  /\ Proceed(Last(handled), targets)
  /\ UNCHANGED <<handled, bus, clients, inbox, messages, faults>>

\* The send raises: disconnect(), and on to the next client.
MutAfterFailure == <<>>  \* the exception ends the broadcast
AfterFailure == targets
MutSendFails(c) == FALSE  \* disconnect() waits for a lock held over the sends
SendFails(c) ==
  /\ c \in waiting
  /\ peer[c] = "gone"
  /\ broken' = broken \cup {c}
  /\ table' = Without(c)
  /\ Proceed(Last(handled), AfterFailure)
  /\ UNCHANGED <<handled, bus, wants, endpoint, since, browser, faults>>

-----------------------------------------------------------------------------
\* A browser opens the socket with a first watchlist in the query.
Open(c, w) ==
  /\ endpoint[c] = "none"
  /\ loop \notin {"off", "stopped"}
  /\ peer' = [peer EXCEPT ![c] = "here"]
  /\ wants' = [wants EXCEPT ![c] = Subscription(w)]
  /\ endpoint' = [endpoint EXCEPT ![c] = "accept"]
  /\ UNCHANGED <<casting, bus, table, broken, since, inbox, messages, wire,
                 faults>>

\* accept() returns; connect() puts the client in the table.
Register(c) ==
  /\ endpoint[c] = "accept"
  /\ endpoint' = [endpoint EXCEPT ![c] = "receive"]
  /\ table' = Append(table, c)
  /\ since' = [since EXCEPT ![c] = Passed(c)]
  /\ UNCHANGED <<casting, bus, wants, broken, browser, wire, faults>>

\* accept() raises, outside the try of ws_market.
AcceptFails(c) ==
  /\ endpoint[c] = "accept"
  /\ peer[c] = "gone"
  /\ endpoint' = [endpoint EXCEPT ![c] = "ended"]
  /\ UNCHANGED <<casting, bus, table, wants, broken, since, browser, wire,
                 faults>>

\* The browser: a new watchlist, a buffer that fills up, drains, or a
\* connection that is lost (closed, timed out or dropped by the server).
SetWatchlist(c, w) ==
  /\ peer[c] \in {"here", "slow"}
  /\ messages < MaxMessages
  /\ messages' = messages + 1
  /\ inbox' = [inbox EXCEPT ![c] = Append(@, w)]
  /\ UNCHANGED <<casting, bus, clients, peer, wire, faults>>

PeerTurns(c, from, to) ==
  /\ peer[c] \in from
  /\ peer' = [peer EXCEPT ![c] = to]
  /\ UNCHANGED <<casting, bus, clients, inbox, messages, wire, faults>>

SlowDown(c) == PeerTurns(c, {"here"}, "slow")
CatchUp(c)  == PeerTurns(c, {"slow"}, "here")
Leave(c)    == PeerTurns(c, {"here", "slow"}, "gone")

-----------------------------------------------------------------------------
Disconnect(c) ==
  /\ table' = Without(c)
  /\ endpoint' = [endpoint EXCEPT ![c] = "ended"]

\* update_watchlist() changes a client that is still in the table.
Update(c, w) ==
  wants' = IF c \in Range(table) THEN [wants EXCEPT ![c] = Subscription(w)]
                                 ELSE wants

\* A set_watchlist message: update, then send the acknowledgement.
Receive(c) ==
  /\ endpoint[c] = "receive"
  /\ inbox[c] /= <<>>
  /\ c \notin broken
  /\ peer[c] /= "gone"
  /\ inbox' = [inbox EXCEPT ![c] = Tail(@)]
  /\ Update(c, Head(inbox[c]))
  /\ endpoint' = [endpoint EXCEPT ![c] = "ack"]
  /\ wire' = Handed(c, AckFrame(Head(inbox[c])))
  /\ since' = [since EXCEPT ![c] = [Passed(c) EXCEPT !.frames = @ + 1]]
  /\ UNCHANGED <<casting, bus, table, broken, peer, messages, faults>>

AckDone(c) ==
  /\ endpoint[c] = "ack"
  /\ peer[c] = "here"
  /\ endpoint' = [endpoint EXCEPT ![c] = "receive"]
  /\ UNCHANGED <<casting, bus, table, wants, broken, since, browser, wire,
                 faults>>

\* The acknowledgement raises WebSocketDisconnect.
MutAckFails(c) ==  \* nothing catches it
  /\ endpoint[c] = "ack"
  /\ peer[c] = "gone"
  /\ broken' = broken \cup {c}
  /\ endpoint' = [endpoint EXCEPT ![c] = "ended"]
  /\ UNCHANGED <<casting, bus, table, wants, since, browser, wire, faults>>
AckFails(c) ==
  /\ endpoint[c] = "ack"
  /\ peer[c] = "gone"
  /\ broken' = broken \cup {c}
  /\ Disconnect(c)
  /\ UNCHANGED <<casting, bus, wants, since, browser, wire, faults>>

\* A message that arrived before the connection was lost is still read.  The
\* acknowledgement raises at once: WebSocketDisconnect, or RuntimeError, which
\* nothing catches, once a broadcast has failed for this client.
ReceiveLate(c) ==
  /\ endpoint[c] = "receive"
  /\ inbox[c] /= <<>>
  /\ peer[c] = "gone"
  /\ inbox' = [inbox EXCEPT ![c] = Tail(@)]
  /\ Update(c, Head(inbox[c]))
  /\ IF c \in broken
       THEN endpoint' = [endpoint EXCEPT ![c] = "ended"] /\ UNCHANGED table
       ELSE Disconnect(c)
  /\ broken' = broken \cup {c}
  /\ UNCHANGED <<casting, bus, since, peer, messages, wire, faults>>

\* receive_text() raises WebSocketDisconnect.
MutHangUp(c) ==  \* the endpoint returns without disconnect()
  /\ endpoint[c] = "receive"
  /\ inbox[c] = <<>>
  /\ peer[c] = "gone"
  /\ endpoint' = [endpoint EXCEPT ![c] = "ended"]
  /\ UNCHANGED <<casting, bus, table, wants, broken, since, browser, wire,
                 faults>>
HangUp(c) ==
  /\ endpoint[c] = "receive"
  /\ inbox[c] = <<>>
  /\ peer[c] = "gone"
  /\ Disconnect(c)
  /\ UNCHANGED <<casting, bus, wants, broken, since, browser, wire, faults>>

\* An exception that is no WebSocketDisconnect ends ws_market: disconnect() is not
\* called, and the server closes the connection, behind a frame that is still
\* being sent.
Abandoned(c) ==
  /\ endpoint' = [endpoint EXCEPT ![c] = "failed"]
  /\ peer' = [peer EXCEPT ![c] = IF c \in waiting THEN @ ELSE "gone"]

\* The next message is one that receive_text() or json.loads() raises for: a
\* binary frame, or JSON nested too deep.
Unreadable(c) ==
  /\ endpoint[c] = "receive"
  /\ inbox[c] = <<>>
  /\ c \notin broken
  /\ Abandoned(c)
  /\ UNCHANGED <<casting, bus, table, wants, broken, since, inbox, messages, wire,
                 faults>>

\* A set_watchlist message with a name that cannot be encoded: it is in force when
\* send_json() raises for the acknowledgement.
Unsendable(c) ==
  /\ endpoint[c] = "receive"
  /\ inbox[c] /= <<>>
  /\ c \notin broken
  /\ inbox' = [inbox EXCEPT ![c] = Tail(@)]
  /\ Update(c, Head(inbox[c]))
  /\ since' = [since EXCEPT ![c] = Passed(c)]
  /\ Abandoned(c)
  /\ UNCHANGED <<casting, bus, table, broken, messages, wire, faults>>

-----------------------------------------------------------------------------
Endpoint(c) ==
  \/ Register(c) \/ AcceptFails(c)
  \/ Receive(c) \/ ReceiveLate(c) \/ HangUp(c)
  \/ AckDone(c) \/ AckFails(c)

Loop == Read \/ \E c \in Clients : SendOk(c) \/ SendFails(c)

Next ==
  \/ Start \/ StartFails \/ Stop \/ LoopDies
  \/ \E e \in Events : Publish(e)
  \/ Loop
  \/ \E c \in Clients :
       \/ Endpoint(c)
       \/ \E w \in Watchlists : Open(c, w) \/ SetWatchlist(c, w)
       \/ SlowDown(c) \/ CatchUp(c) \/ Leave(c)
       \/ Unreadable(c) \/ Unsendable(c)

Spec == Init /\ [][Next]_vars

\* The event loop runs the tasks that can run.  Strong fairness, because a send
\* that waits is woken for good when its buffer has drained once, even if it
\* fills up again before the task runs.  Nothing is assumed of Redis and of the
\* browsers.
Fairness == SF_vars(Loop) /\ \A c \in Clients : SF_vars(Endpoint(c))

FairSpec == Spec /\ Fairness

-----------------------------------------------------------------------------
Frames == [kind : {"event"}, about : Events] \cup
          [kind : {"ack"}, about : Watchlists]

\* Type invariant: no subscription is larger than the configuration allows, and
\* a client is in the table once.
TypeOK ==
  /\ loop \in {"off", "failed", "listen", "cast", "dead", "stopped"}
  /\ bus \in Seq(Events)
  /\ handled \in Seq(Events)
  /\ targets \in Seq(Clients)
  /\ waiting \subseteq Clients
  /\ table \in Seq(Clients) /\ IsInjective(table)
  /\ wants \in [Clients -> [symbols : SUBSET Symbols, intervals : SUBSET Intervals]]
  /\ \A c \in Clients : /\ Cardinality(wants[c].symbols) <= MaxSymbols
                        /\ Cardinality(wants[c].intervals) <= MaxIntervals
  /\ endpoint \in [Clients -> {"none", "accept", "receive", "ack", "failed",
                           "ended"}]
  /\ peer \in [Clients -> {"new", "here", "slow", "gone"}]
  /\ inbox \in [Clients -> Seq(Watchlists)]
  /\ wire \in [Clients -> Seq(Frames)]
  /\ broken \subseteq Clients
  /\ since \in [Clients -> [events : Nat, frames : Nat]]
  /\ messages \in 0..MaxMessages
  /\ faults \in 0..MaxFaults

\* A client that is in the table was sent, since its watchlist came into force,
\* the events that match it, each once and in the order they were read: whoever
\* else stalls, leaves, joins or changes a watchlist in the middle of a
\* broadcast (_broadcast, update_watchlist).  That is up to the event in hand if
\* the broadcast has not come to this client yet.
Served ==
  \A c \in Range(table) :
    peer[c] /= "gone" =>
      LET met == {i \in (since[c].events + 1)..Passed(c).events :
                    Matches(handled[i], wants[c])}
          rank(i) == Cardinality({j \in met : j <= i})
      IN  /\ Len(wire[c]) = since[c].frames + Cardinality(met)
          /\ \A i \in met :
               wire[c][since[c].frames + rank(i)] = EventFrame(handled[i])

\* Every client in the table has an endpoint that will remove it, whichever of its
\* sends fails first and whatever order its messages and its loss come in.  The
\* exception is one whose endpoint ended with an error that ws_market does not
\* catch; its connection is closed, or closes behind a frame that is being sent.
Tended ==
  \A c \in Range(table) :
    \/ endpoint[c] \in {"receive", "ack"}
    \/ endpoint[c] = "failed" /\ (peer[c] = "gone" \/ c \in waiting)

\* A client whose connection is lost is eventually out of the table, even if its
\* endpoint, its acknowledgement or a broadcast is waiting for it; or its endpoint
\* failed, and then it does not keep a broadcast waiting, but is only out when a
\* later one tries to send to it.
GoneForgotten ==
  \A c \in Clients :
    peer[c] = "gone" ~>
      c \notin Range(table) \/ (endpoint[c] = "failed" /\ c \notin waiting)

\* As long as no client stalls for good, every event is read: clients that
\* leave in the middle of a broadcast do not stop it.
BusDrained ==
  (\A c \in Clients : []<>(peer[c] /= "slow")) => (bus /= <<>> ~> bus = <<>>)

Ready == loop \in {"listen", "cast", "dead"}

\* What docs/apis/api.md:113 says of /readyz: 503 when the backend is not
\* connected to Redis.
ReadyMeansReading == Ready => loop \in {"listen", "cast"}
=============================================================================
