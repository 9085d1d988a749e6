------------------------------- MODULE Ingestor -------------------------------
(***************************************************************************)
(* The ingestor of backend/app/workers/binance_ingestor.py with the gap    *)
(* detector of backend/app/services/gap_detector.py.  One connection       *)
(* carries the closed candles of every key; each is published on Redis,    *)
(* shown to the detector, and a window the detector finds is published     *)
(* next.  Any other exception than a parse error ends the connection.      *)
(*                                                                         *)
(* Time is counted in candles: the n-th candle of a key closes at n        *)
(* intervals.  Trades and open candles are read and published on the same  *)
(* path and change no state: they show only as steps of the clock (Rotate) *)
(* and as faults of the connection (StreamError).                          *)
(***************************************************************************)
EXTENDS Integers, Sequences, FiniteSets, Functions

CONSTANTS
  Keys,          \* (symbol, interval) pairs of the combined stream
  MaxCandle,     \* bound: candles that close per key
  GapDetection,  \* settings.enable_gap_detection
  ReconnectMax,  \* settings.reconnect_max_seconds
  FaultKinds,    \* the kinds of fault the environment may inject
  MaxFaults      \* bound: how many of them

ASSUME IngestorAssumption ==
  /\ MaxCandle \in Nat
  /\ GapDetection \in BOOLEAN
  /\ ReconnectMax \in Nat \ {0}
  /\ FaultKinds \subseteq {"stream", "connect", "malformed", "bus", "crash"}
  /\ MaxFaults \in Nat

VARIABLES
  closed,     \* candles the exchange has closed, per key
  stream,     \* closed candles delivered to ws and not yet received
  link,       \* whether the peer of the connection is still there
  stage,      \* where the worker is
  attempt,    \* failures counted by run_forever
  sleep,      \* seconds of the current asyncio.sleep, the jitter left out
  event,      \* the candle being published: a set of at most one
  window,     \* the gap being published: a set of at most one
  last,       \* GapDetector._last_close_time, 0 for a missing key
  published,  \* history: candles on market:kline.closed
  announced,  \* history: windows on system:gap_detected
  lost,       \* history: windows whose publication failed
  seen,       \* history: candles the detector was shown since the start
  faults      \* bound: faults injected so far

vars == <<closed, stream, link, stage, attempt, sleep, event, window, last,
          published, announced, lost, seen, faults>>

retry    == <<attempt, sleep>>
inHand   == <<event, window>>
detector == <<last, seen>>
bus      == <<published, announced, lost>>

Candles == Keys \X (1..MaxCandle)
Windows == [key : Keys, from : 1..MaxCandle, to : 1..MaxCandle]

Connected == {"open", "kline", "gap"}
Stages    == Connected \cup {"down", "connecting", "backoff"}

-----------------------------------------------------------------------------
\* What detect_gap finds when candle n follows prev; from_ts is the first
\* missing close time, to_ts the close time of the candle that was seen.
MutGap(k, prev, n) ==  \* tolerates one missing candle
  IF prev = 0 \/ n <= prev + 2
    THEN {}
    ELSE {[key |-> k, from |-> prev + 1, to |-> n]}
Gap(k, prev, n) ==
  IF prev = 0 \/ n <= prev + 1
    THEN {}
    ELSE {[key |-> k, from |-> prev + 1, to |-> n]}

MutLastAfter(k, n) ==  \* remembers a candle only when nothing is missing
  IF Gap(k, last[k], n) = {} THEN [last EXCEPT ![k] = n] ELSE last
LastAfter(k, n) == [last EXCEPT ![k] = n]

\* The backoff before the next connection attempt.
MutBackoff(a) == 2^a
Backoff(a) == IF 2^a < ReconnectMax THEN 2^a ELSE ReconnectMax

Fault(kind) ==
  /\ kind \in FaultKinds
  /\ faults < MaxFaults
  /\ faults' = faults + 1

-----------------------------------------------------------------------------
Init ==
  /\ closed = [k \in Keys |-> 0]
  /\ stream = <<>>
  /\ link = "up"
  /\ stage = "down"
  /\ attempt = 0
  /\ sleep = 0
  /\ event = {}
  /\ window = {}
  /\ last = [k \in Keys |-> 0]
  /\ published = {}
  /\ announced = {}
  /\ lost = {}
  /\ seen = {}
  /\ faults = 0

\* Binance closes a candle and sends it on the connection, if that is alive.
CloseCandle(k) ==
  /\ closed[k] < MaxCandle
  /\ closed' = [closed EXCEPT ![k] = @ + 1]
  /\ stream' = IF stage \in Connected /\ link = "up"
                 THEN Append(stream, <<k, closed'[k]>>)
                 ELSE stream
  /\ UNCHANGED <<link, stage, retry, inHand, detector, bus, faults>>

Start ==
  /\ stage = "down"
  /\ stage' = "connecting"
  /\ attempt' = 0
  /\ UNCHANGED <<closed, stream, link, sleep, inHand, detector, bus, faults>>

Connect ==
  /\ stage = "connecting"
  /\ stage' = "open"
  /\ link' = "up"
  /\ UNCHANGED <<closed, stream, retry, inHand, detector, bus, faults>>

\* The age check between two messages: _stream_once returns, the connection
\* closes with what it had buffered, and a new one is opened.
Rotate ==
  /\ stage = "open"
  /\ stage' = "connecting"
  /\ attempt' = 0
  /\ stream' = <<>>
  /\ UNCHANGED <<closed, link, sleep, inHand, detector, bus, faults>>

ReceiveClosed ==
  /\ stage = "open"
  /\ stream /= <<>>
  /\ event' = {Head(stream)}
  /\ stream' = Tail(stream)
  /\ stage' = "kline"
  /\ UNCHANGED <<closed, link, retry, window, detector, bus, faults>>

\* A candle that does not parse is dropped and the connection is kept.
ReceiveMalformed ==
  /\ stage = "open"
  /\ stream /= <<>>
  /\ Fault("malformed")
  /\ stream' = Tail(stream)
  /\ UNCHANGED <<closed, link, stage, retry, inHand, detector, bus>>

\* The candle is on the bus; the detector runs before the next await.
PublishClosed ==
  /\ stage = "kline"
  /\ published' = published \cup event
  /\ \E c \in event :
       IF GapDetection
         THEN /\ window' = Gap(c[1], last[c[1]], c[2])
              /\ last' = LastAfter(c[1], c[2])
              /\ seen' = seen \cup event
         ELSE UNCHANGED <<window, detector>>
  /\ stage' = IF window' = {} THEN "open" ELSE "gap"
  /\ event' = {}
  /\ UNCHANGED <<closed, stream, link, retry, announced, lost, faults>>

PublishGap ==
  /\ stage = "gap"
  /\ announced' = announced \cup window
  /\ window' = {}
  /\ stage' = "open"
  /\ UNCHANGED <<closed, stream, link, retry, event, detector, published, lost,
                 faults>>

\* An exception leaves _stream_once: the connection and its buffer are gone.
Fail ==
  /\ stage' = "backoff"
  /\ attempt' = attempt + 1
  /\ sleep' = Backoff(attempt')
  /\ stream' = <<>>
  /\ event' = {}
  /\ window' = {}
  /\ UNCHANGED <<closed, link, detector>>

\* The peer goes away, with or without a close frame: what it sent before can
\* still be received.
LinkDies ==
  /\ stage \in Connected
  /\ link = "up"
  /\ Fault("stream")
  /\ link' = "dead"
  /\ UNCHANGED <<closed, stream, stage, retry, inHand, detector, bus>>

\* recv hands out what was buffered and then raises on a dead connection, at
\* the latest when a ping stays unanswered.
MutNoticed == FALSE  \* no ping_timeout: recv waits forever
Noticed == link = "dead" /\ stream = <<>>

StreamError ==
  /\ stage = "open"
  /\ Noticed
  /\ Fail
  /\ UNCHANGED <<bus, faults>>

\* The publication of a trade or of an open candle raises.
TickBusError ==
  /\ stage = "open"
  /\ Fault("bus")
  /\ Fail
  /\ UNCHANGED bus

ConnectError ==
  /\ stage = "connecting"
  /\ Fault("connect")
  /\ Fail
  /\ UNCHANGED bus

\* The publication of a closed candle or of a window raises; Redis may have
\* carried it out all the same.
KlineBusError ==
  /\ stage = "kline"
  /\ Fault("bus")
  /\ \E carried \in {{}, event} : published' = published \cup carried
  /\ Fail
  /\ UNCHANGED <<announced, lost>>

GapBusError ==
  /\ stage = "gap"
  /\ Fault("bus")
  /\ \/ announced' = announced \cup window /\ UNCHANGED lost
     \/ lost' = lost \cup window /\ UNCHANGED announced
  /\ Fail
  /\ UNCHANGED published

Wake ==
  /\ stage = "backoff"
  /\ stage' = "connecting"
  /\ sleep' = 0
  /\ UNCHANGED <<closed, stream, link, attempt, inHand, detector, bus, faults>>

\* The process is killed or interrupted; the container restarts it with a new
\* detector.  A publication on its way may still be carried out.
Crash ==
  /\ stage /= "down"
  /\ Fault("crash")
  /\ stage' = "down"
  /\ \E carried \in {{}, event} : published' = published \cup carried
  /\ \/ announced' = announced \cup window /\ UNCHANGED lost
     \/ lost' = lost \cup window /\ UNCHANGED announced
  /\ stream' = <<>>
  /\ attempt' = 0
  /\ sleep' = 0
  /\ event' = {}
  /\ window' = {}
  /\ last' = [k \in Keys |-> 0]
  /\ seen' = {}
  /\ UNCHANGED <<closed, link>>

Next ==
  \/ \E k \in Keys : CloseCandle(k)
  \/ Start \/ Connect \/ Rotate \/ Wake
  \/ ReceiveClosed \/ ReceiveMalformed \/ PublishClosed \/ PublishGap
  \/ LinkDies \/ StreamError \/ ConnectError
  \/ TickBusError \/ KlineBusError \/ GapBusError \/ Crash

Spec == Init /\ [][Next]_vars

\* The container restarts the process, the loop runs on, and every await of a
\* connection attempt, a publication or a sleep ends, or raises as a fault.  A
\* message in the buffer is received, and a dead connection is noticed:
\* connect() is given ping_interval and ping_timeout.
Fairness ==
  /\ WF_vars(Start) /\ WF_vars(Connect) /\ WF_vars(Wake)
  /\ WF_vars(ReceiveClosed) /\ WF_vars(PublishClosed) /\ WF_vars(PublishGap)
  /\ WF_vars(StreamError)

FairSpec == Spec /\ Fairness

-----------------------------------------------------------------------------
\* Type invariant; the backoff never exceeds its configured maximum.
TypeOK ==
  /\ closed \in [Keys -> 0..MaxCandle]
  /\ stream \in Seq(Candles)
  /\ link \in {"up", "dead"}
  /\ stage \in Stages
  /\ attempt \in 0..MaxFaults
  /\ sleep \in 0..ReconnectMax
  /\ event \subseteq Candles
  /\ window \subseteq Windows
  /\ last \in [Keys -> 0..MaxCandle]
  /\ published \subseteq Candles
  /\ announced \subseteq Windows
  /\ lost \subseteq Windows
  /\ seen \subseteq Candles
  /\ faults \in 0..MaxFaults

Missing(w) == {w.key} \X (w.from..(w.to - 1))

\* A candle that this process skipped, between two candles of its key that it
\* did handle, is never overlooked: whatever dropped it (a rotation, a lost
\* connection, a frame that does not parse, a failed publication), the next
\* candle of the key reveals it in a window that was published, is being
\* published, or failed to be.
GapsFound ==
  \A c, d \in seen :
    c[1] = d[1] =>
      \A n \in c[2]..d[2] : \/ <<c[1], n>> \in seen
                             \/ \E w \in announced \cup window \cup lost :
                                  <<c[1], n>> \in Missing(w)

\* A window names only candles that the detector never saw, and no candle
\* twice: no candle is fetched for two gaps.
NamedOnce ==
  LET found == announced \cup window \cup lost
  IN  /\ \A w \in found : Missing(w) \cap seen = {} /\ Missing(w) /= {}
      /\ \A v, w \in found : v /= w => Missing(v) \cap Missing(w) = {}

\* The bus carries the candle that revealed a gap before the gap itself, so
\* that a window never names a candle as seen which no consumer was sent.
RevealedFirst ==
  \A w \in announced \cup window \cup lost : <<w.key, w.to>> \in published

\* A window is never made up: its candles are missing, and each in this window
\* only, and what showed it is on the bus already (detect_gap, _stream_once).
GapsAreReal == NamedOnce /\ RevealedFirst

\* After any sequence of faults the worker is again on a connection that is
\* alive: no failure leaves it waiting for a peer that is gone.
StreamResumes == []<>(stage \in Connected /\ link = "up")
=============================================================================
