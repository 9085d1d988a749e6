---------------------------- MODULE PipelineProofs ----------------------------
(***************************************************************************)
(* The ingestor, the gap fill worker and the DataSaver worker together:    *)
(* proofs of StoreSpec, that they implement CandleStore, and of            *)
(* HolesExplained, for any keys, candles, limits and faults.               *)
(*                                                                         *)
(* A row is written only for a candle that has closed.  For a recovered    *)
(* one that depends on the window, and for the window on the candle that   *)
(* revealed it, back to the exchange: no candle on that way is newer than  *)
(* the last one to close (Past).                                           *)
(*                                                                         *)
(* HolesExplained is a composition: each worker of the pipeline is that of *)
(* its own module, whose theorems are used here, and between the two no    *)
(* published window is without a fate (Born).                              *)
(***************************************************************************)
EXTENDS Pipeline, SequenceTheorems, FiniteSetTheorems, TLAPS

IsPast(c) == c \in Candles /\ c[2] <= closed[c[1]]
EndsPast(w) == w.key \in Keys /\ w.to \in Int /\ w.to <= closed[w.key]

Gaps == [key : Keys, from : Int, to : Int]

Tables ==
  /\ closed \in [Keys -> Nat]
  /\ last \in [Keys -> Nat]
  /\ klines \in [Candles -> {"none", "live", "recovered"}]
  /\ stream \in Seq(Candles)
  /\ inbox \in Seq(Gaps)

\* On the way from the exchange to the bus, on the way of a window to the worker,
\* and from there to the table and the bus.
PastEvents  == \A c \in Range(stream) \cup event \cup published : IsPast(c)
PastWindows == \A w \in window \cup Range(inbox) \cup gap : w \in Gaps /\ EndsPast(w)
PastRows    == \A c \in rows \cup queue \cup sent : IsPast(c)

PipeInv == Tables /\ PastEvents /\ PastWindows /\ PastRows

-----------------------------------------------------------------------------
\* What a queue holds after Append and before Tail.
LEMMA RangeEmpty == Range(<<>>) = {}
BY DEF Range

LEMMA RangeAppend ==
  ASSUME NEW S, NEW s \in Seq(S), NEW x \in S
  PROVE  Range(Append(s, x)) = Range(s) \cup {x}
BY AppendProperties DEF Range

LEMMA RangeHeadTail ==
  ASSUME NEW S, NEW s \in Seq(S), s /= <<>>
  PROVE  Range(s) = {Head(s)} \cup Range(Tail(s))
<1>1. /\ <<Head(s)>> \in Seq(S) /\ Tail(s) \in Seq(S)
      /\ s = <<Head(s)>> \o Tail(s)
  BY HeadTailProperties
<1>2. DOMAIN <<Head(s)>> = {1}
  OBVIOUS
<1>3. Range(<<Head(s)>>) = {Head(s)}
  BY <1>2 DEF Range
<1>4. Range(<<Head(s)>> \o Tail(s)) = Range(<<Head(s)>>) \cup Range(Tail(s))
  BY <1>1, RangeConcatenation
<1> QED
  BY <1>1, <1>3, <1>4

-----------------------------------------------------------------------------
LEMMA SameCandles ==
  I!Candles = Candles /\ G!Candles = Candles /\ Store0!Candles = Candles
BY DEF Candles, I!Candles, G!Candles, Store0!Candles

\* A window ends with the candle that revealed it.
LEMMA GapEnds ==
  ASSUME Tables, NEW c, IsPast(c), NEW w \in I!Gap(c[1], last[c[1]], c[2])
  PROVE  w \in Gaps /\ EndsPast(w)
<1>1. c[1] \in Keys /\ c[2] \in Nat
  BY PipelineAssumption DEF IsPast, Candles
<1>2. w = [key |-> c[1], from |-> last[c[1]] + 1, to |-> c[2]]
  BY DEF I!Gap
<1>3. last[c[1]] + 1 \in Int
  BY <1>1 DEF Tables
<1> QED
  BY <1>1, <1>2, <1>3 DEF Gaps, EndsPast, IsPast

\* REST returns nothing newer than the end of the window, whichever time of a
\* candle it selects by.
LEMMA ReturnedPast ==
  ASSUME Tables, NEW w \in Gaps, EndsPast(w), NEW c \in G!Returned(w)
  PROVE  IsPast(c)
<1>1. PICK n \in 1..MaxCandle :
        c = <<w.key, n>> /\ G!RestTime(n) <= G!CloseTime(w.to)
  BY DEF G!Returned, G!Selected
<1>2. n \in Nat /\ w.to \in Int /\ w.key \in Keys /\ closed[w.key] \in Nat
  BY PipelineAssumption DEF Gaps, Tables
<1>3. n <= w.to
  BY <1>1, <1>2 DEF G!RestTime, G!OpenTime, G!CloseTime
<1> QED
  BY <1>1, <1>2, <1>3 DEF IsPast, EndsPast, Candles

-----------------------------------------------------------------------------
\* The steps of the three processes, as the table sees them.
LEMMA CloseStep ==
  ASSUME PipeInv, NEW k \in Keys, I!CloseCandle(k)
  PROVE  /\ closed' = [closed EXCEPT ![k] = @ + 1]
         /\ closed' \in [Keys -> Nat]
         /\ stream' \in Seq(Candles)
         /\ \A c \in Range(stream') : c \in Range(stream) \/ c = <<k, closed'[k]>>
         /\ <<k, closed'[k]>> \in Candles
<1>1. /\ closed' = [closed EXCEPT ![k] = @ + 1] /\ closed[k] < MaxCandle
      /\ \/ stream' = stream
         \/ stream' = Append(stream, <<k, closed'[k]>>)
  BY DEF I!CloseCandle
<1>2. closed[k] \in Nat /\ closed \in [Keys -> Nat] /\ stream \in Seq(Candles)
  BY DEF PipeInv, Tables
<1>3. closed'[k] \in 1..MaxCandle /\ closed' \in [Keys -> Nat]
  BY <1>1, <1>2, PipelineAssumption
<1>4. <<k, closed'[k]>> \in Candles
  BY <1>3 DEF Candles
<1>5. Range(Append(stream, <<k, closed'[k]>>)) = Range(stream) \cup {<<k, closed'[k]>>}
  BY <1>2, <1>4, RangeAppend
<1>6. stream' \in Seq(Candles)
  BY <1>1, <1>2, <1>4, AppendProperties
<1> QED
  BY <1>1, <1>3, <1>4, <1>5, <1>6

\* Any other step of the ingestor.
LEMMA CarryStep ==
  ASSUME PipeInv, I!Next, ~\E k \in Keys : I!CloseCandle(k)
  PROVE  /\ UNCHANGED closed
         /\ last' \in [Keys -> Nat]
         /\ stream' \in Seq(Candles)
         /\ Range(stream') \cup event' \cup published'
              \subseteq Range(stream) \cup event \cup published
         /\ \A w \in window' : w \in Gaps /\ EndsPast(w)
         /\ announced' \ announced \subseteq window
<1> USE DEF I!retry, I!inHand, I!detector, I!bus
<1>0. /\ <<>> \in Seq(Candles) /\ Range(<<>>) = {}
      /\ stream \in Seq(Candles) /\ last \in [Keys -> Nat]
      /\ \A w \in window : w \in Gaps /\ EndsPast(w)
  BY RangeEmpty DEF PipeInv, Tables, PastWindows
<1>1. CASE I!ReceiveClosed \/ I!ReceiveMalformed
  <2>1. /\ stream /= <<>> /\ stream' = Tail(stream)
        /\ event' \subseteq event \cup {Head(stream)}
        /\ UNCHANGED <<closed, last, published, window, announced>>
    BY <1>1 DEF I!ReceiveClosed, I!ReceiveMalformed
  <2>2. Range(stream) = {Head(stream)} \cup Range(Tail(stream))
    BY <1>0, <2>1, RangeHeadTail
  <2>3. stream' \in Seq(Candles)
    BY <1>0, <2>1
  <2> QED
    BY <1>0, <2>1, <2>2, <2>3
<1>2. CASE I!PublishClosed
  <2>1. PICK c \in event :
          \/ window' = I!Gap(c[1], last[c[1]], c[2]) /\ last' = I!LastAfter(c[1], c[2])
          \/ UNCHANGED <<window, last>>
    BY <1>2 DEF I!PublishClosed
  <2>2. /\ UNCHANGED <<closed, stream, announced>> /\ event' = {}
        /\ published' = published \cup event
    BY <1>2 DEF I!PublishClosed
  <2>3. IsPast(c) /\ c[1] \in Keys /\ c[2] \in Nat
    BY PipelineAssumption DEF PipeInv, PastEvents, IsPast, Candles
  <2>4. I!LastAfter(c[1], c[2]) \in [Keys -> Nat]
    BY <1>0, <2>3 DEF I!LastAfter
  <2>5. \A w \in I!Gap(c[1], last[c[1]], c[2]) : w \in Gaps /\ EndsPast(w)
    BY <2>3, GapEnds DEF PipeInv
  <2> QED
    BY <1>0, <2>1, <2>2, <2>4, <2>5
<1>3. CASE I!PublishGap
  BY <1>0, <1>3 DEF I!PublishGap
<1>4. CASE I!StreamError \/ I!TickBusError \/ I!ConnectError \/ I!KlineBusError \/ I!GapBusError
  BY <1>0, <1>4
     DEF I!StreamError, I!TickBusError, I!ConnectError, I!KlineBusError,
         I!GapBusError, I!Fail
<1>5. CASE I!Crash
  <2>1. last' = [k \in Keys |-> 0]
    BY <1>5 DEF I!Crash
  <2> QED
    BY <1>0, <1>5, <2>1 DEF I!Crash
<1>6. CASE I!Start \/ I!Connect \/ I!Rotate \/ I!Wake \/ I!LinkDies
  BY <1>0, <1>6 DEF I!Start, I!Connect, I!Rotate, I!Wake, I!LinkDies
<1> QED
  BY <1>1, <1>2, <1>3, <1>4, <1>5, <1>6 DEF I!Next

\* The window that one of them publishes reaches the worker.
LEMMA AnnounceStep ==
  ASSUME PipeInv, NEW w \in window, G!Announce(w)
  PROVE  /\ UNCHANGED <<gap, rows, queue, sent, klines>>
         /\ inbox' \in Seq(Gaps)
         /\ Range(inbox') \subseteq Range(inbox) \cup window
<1>1. /\ UNCHANGED <<gap, rows, queue, sent, klines>>
      /\ inbox' = inbox \/ inbox' = Append(inbox, w)
  BY DEF G!Announce, G!hand, G!tables
<1>2. w \in Gaps /\ inbox \in Seq(Gaps)
  BY DEF PipeInv, Tables, PastWindows
<1>3. Append(inbox, w) \in Seq(Gaps) /\ Range(Append(inbox, w)) = Range(inbox) \cup {w}
  BY <1>2, AppendProperties, RangeAppend
<1> QED
  BY <1>1, <1>2, <1>3

LEMMA SettleEmpties ==
  ASSUME NEW next, NEW f, G!Settle(next, f)
  PROVE  gap' = {} /\ rows' = {}
BY DEF G!Settle

\* A step of the worker: what it holds still ends in the past, and it writes
\* nothing but its rows.
LEMMA WorkStep ==
  ASSUME PipeInv, G!Work
  PROVE  /\ inbox' \in Seq(Gaps)
         /\ Range(inbox') \cup gap' \subseteq Range(inbox) \cup gap
         /\ \A c \in rows' \cup queue' \cup sent' : IsPast(c)
         /\ klines' = klines \/ klines' = G!Upsert
<1> USE DEF G!hand, G!tables, G!history
<1>0. /\ <<>> \in Seq(Gaps) /\ Range(<<>>) = {} /\ inbox \in Seq(Gaps)
      /\ \A c \in rows \cup queue \cup sent : IsPast(c)
      /\ G!Due \subseteq queue
  BY RangeEmpty DEF PipeInv, Tables, PastRows, G!Due
<1>1. CASE G!Receive
  <2>1. /\ inbox /= <<>> /\ inbox' = Tail(inbox) /\ gap' = {Head(inbox)}
        /\ UNCHANGED <<rows, queue, sent, klines>>
    BY <1>1 DEF G!Receive
  <2>2. Range(inbox) = {Head(inbox)} \cup Range(Tail(inbox))
    BY <1>0, <2>1, RangeHeadTail
  <2>3. inbox' \in Seq(Gaps)
    BY <1>0, <2>1
  <2> QED
    BY <1>0, <2>1, <2>2, <2>3
<1>2. CASE G!Fetched \/ G!FetchedShort
  <2>1. PICK w \in gap :
          \/ G!Settle("listen", "empty")
          \/ \E whole \in SUBSET G!Returned(w) : G!Take(w, whole)
    BY <1>2 DEF G!Fetched, G!FetchedShort
  <2>2. UNCHANGED <<inbox, queue, sent, klines>>
    BY <1>2 DEF G!Fetched, G!FetchedShort
  <2>3. \A c \in G!Returned(w) : IsPast(c)
    BY ReturnedPast DEF PipeInv, PastWindows
  <2> QED
    BY <1>0, <2>1, <2>2, <2>3, SettleEmpties DEF G!Take
<1>3. CASE G!FetchBusy
  <2>1. \/ G!Settle("listen", "dropped")
        \/ UNCHANGED <<gap, rows>>
    BY <1>3 DEF G!FetchBusy
  <2> QED
    BY <1>0, <1>3, <2>1, SettleEmpties DEF G!FetchBusy
<1>4. CASE G!FetchedOther \/ G!FetchRefused \/ G!SaveBadRow \/ G!SaveViolates
  <2>1. /\ \/ G!Settle("listen", "garbled") \/ G!Settle("listen", "dropped")
           \/ G!Settle("exit", "failed")
        /\ UNCHANGED <<inbox, queue, sent, klines>>
    BY <1>4 DEF G!FetchedOther, G!FetchRefused, G!SaveBadRow, G!SaveViolates
  <2> QED
    BY <1>0, <2>1, SettleEmpties
<1>5. CASE G!SaveError
  <2>1. /\ G!Settle("exit", "failed")
        /\ UNCHANGED <<inbox, queue, sent>>
        /\ klines' = klines \/ klines' = G!Upsert
    BY <1>5 DEF G!SaveError, G!MaybeCommit
  <2> QED
    BY <1>0, <2>1, SettleEmpties
<1>6. CASE G!Save
  <2>1. \/ G!Settle("listen", "filled")
        \/ UNCHANGED <<gap, rows>>
    BY <1>6 DEF G!Save
  <2>2. /\ UNCHANGED <<inbox, sent>> /\ queue' = rows /\ klines' = G!Upsert
    BY <1>6 DEF G!Save
  <2> QED
    BY <1>0, <2>1, <2>2, SettleEmpties
<1>7. CASE G!Send
  <2>1. \/ G!Settle("listen", "filled")
        \/ UNCHANGED <<gap, rows>>
    BY <1>7 DEF G!Send
  <2>2. /\ UNCHANGED <<inbox, klines>>
        /\ queue' \subseteq queue /\ sent' \subseteq sent \cup queue
    BY <1>0, <1>7 DEF G!Send
  <2> QED
    BY <1>0, <2>1, <2>2, SettleEmpties
<1>8. CASE G!SendError
  <2>1. /\ G!Settle("exit", "unsent") /\ UNCHANGED <<inbox, klines>>
        /\ queue' = {} /\ sent' \subseteq sent \cup queue
    BY <1>0, <1>8 DEF G!SendError
  <2> QED
    BY <1>0, <2>1, SettleEmpties
<1>9. CASE G!Crash
  <2>1. /\ inbox' = <<>> /\ gap' = {} /\ rows' = {} /\ queue' = {}
        /\ sent' \subseteq sent \cup queue
    BY <1>0, <1>9 DEF G!Crash
  <2>2. klines' = klines \/ klines' = G!Upsert
    BY <1>9 DEF G!Crash, G!MaybeCommit
  <2> QED
    BY <1>0, <2>1, <2>2
<1>10. CASE G!Exit
  BY <1>0, <1>10 DEF G!Exit
<1>11. CASE \/ G!Subscribe \/ G!StartUp \/ G!PauseEnds \/ G!ListenError
            \/ G!ConnectError
  BY <1>0, <1>11
     DEF G!Subscribe, G!StartUp, G!PauseEnds, G!ListenError, G!ConnectError
<1> QED
  BY <1>1, <1>2, <1>3, <1>4, <1>5, <1>6, <1>7, <1>8, <1>9, <1>10, <1>11 DEF G!Work

-----------------------------------------------------------------------------
\* What has closed stays closed.
LEMMA PastKept ==
  ASSUME Tables, \A k \in Keys : closed[k] <= closed'[k], closed' \in [Keys -> Nat]
  PROVE  /\ \A c : IsPast(c) => c \in Candles /\ c[2] <= closed'[c[1]]
         /\ \A w \in Gaps : EndsPast(w) => w.to <= closed'[w.key]
<1>1. ASSUME NEW c, IsPast(c)
      PROVE  c \in Candles /\ c[2] <= closed'[c[1]]
  <2>1. c[1] \in Keys /\ c[2] \in Nat /\ c[2] <= closed[c[1]] /\ c \in Candles
    BY <1>1, PipelineAssumption DEF IsPast, Candles
  <2>2. closed[c[1]] \in Nat /\ closed'[c[1]] \in Nat /\ closed[c[1]] <= closed'[c[1]]
    BY <2>1 DEF Tables
  <2> QED
    BY <2>1, <2>2
<1>2. ASSUME NEW w \in Gaps, EndsPast(w)
      PROVE  w.to <= closed'[w.key]
  <2>1. w.key \in Keys /\ w.to \in Int /\ w.to <= closed[w.key]
    BY <1>2 DEF EndsPast
  <2>2. closed[w.key] \in Nat /\ closed'[w.key] \in Nat
        /\ closed[w.key] <= closed'[w.key]
    BY <2>1 DEF Tables
  <2> QED
    BY <2>1, <2>2
<1> QED
  BY <1>1, <1>2

LEMMA InitPast == Init => PipeInv
<1> SUFFICES ASSUME Init PROVE PipeInv
  OBVIOUS
<1>1. /\ closed = [k \in Keys |-> 0] /\ last = [k \in Keys |-> 0]
      /\ stream = <<>> /\ event = {} /\ published = {} /\ window = {}
  BY DEF Init, I!Init
<1>2. /\ inbox = <<>> /\ gap = {} /\ rows = {} /\ queue = {} /\ sent = {}
      /\ klines = [c \in Candles |-> "none"]
  BY SameCandles DEF Init, G!Init
<1> QED
  BY <1>1, <1>2, RangeEmpty DEF PipeInv, Tables, PastEvents, PastWindows, PastRows

LEMMA InsertStored ==
  ASSUME Tables, NEW c \in Candles, G!StoreLive(c)
  PROVE  /\ klines' = [klines EXCEPT ![c] = IF @ = "none" THEN "live" ELSE @]
         /\ UNCHANGED <<inbox, gap, rows, queue, sent>>
BY DEF G!StoreLive, G!InsertLive, G!hand, G!history

LEMMA UpsertTyped ==
  ASSUME Tables
  PROVE  G!Upsert \in [Candles -> {"none", "live", "recovered"}]
BY SameCandles DEF Tables, G!Upsert

LEMMA NextPast == PipeInv /\ [Next]_vars => PipeInv'
<1> SUFFICES ASSUME PipeInv, [Next]_vars PROVE PipeInv'
  OBVIOUS
<1>0. Tables /\ PastEvents /\ PastWindows /\ PastRows
  BY DEF PipeInv
<1>1. CASE Ingest
  <2>1. I!Next
    BY <1>1 DEF Ingest
  <2>2. CASE \E k \in Keys : I!CloseCandle(k)
    <3>1. PICK k \in Keys : I!CloseCandle(k)
      BY <2>2
    <3>2. UNCHANGED <<link, ingesting, event, window, last, published, announced>>
      BY <3>1 DEF I!CloseCandle, I!inHand, I!detector, I!bus
    <3>3. UNCHANGED filler
      BY <1>1, <3>2 DEF Ingest, Told
    <3>4. /\ closed' = [closed EXCEPT ![k] = @ + 1] /\ closed' \in [Keys -> Nat]
          /\ stream' \in Seq(Candles) /\ <<k, closed'[k]>> \in Candles
          /\ \A c \in Range(stream') : c \in Range(stream) \/ c = <<k, closed'[k]>>
      BY <3>1, CloseStep
    <3>5. \A j \in Keys : closed[j] <= closed'[j]
      BY <1>0, <3>4 DEF Tables
    <3>6. /\ \A c : IsPast(c) => c \in Candles /\ c[2] <= closed'[c[1]]
          /\ \A w \in Gaps : EndsPast(w) => w.to <= closed'[w.key]
      BY <1>0, <3>4, <3>5, PastKept
    <3>7. closed'[k] <= closed'[k]
      BY <3>4
    <3>8. Tables'
      BY <1>0, <3>2, <3>3, <3>4 DEF Tables, filler
    <3>9. PastEvents'
      BY <1>0, <3>2, <3>4, <3>6, <3>7 DEF PastEvents, IsPast
    <3>10. PastWindows'
      BY <1>0, <3>2, <3>3, <3>6 DEF PastWindows, EndsPast, filler
    <3>11. PastRows'
      BY <1>0, <3>3, <3>6 DEF PastRows, IsPast, filler
    <3> QED
      BY <3>8, <3>9, <3>10, <3>11 DEF PipeInv
  <2>3. CASE ~\E k \in Keys : I!CloseCandle(k)
    <3>1. /\ UNCHANGED closed /\ last' \in [Keys -> Nat] /\ stream' \in Seq(Candles)
          /\ Range(stream') \cup event' \cup published'
               \subseteq Range(stream) \cup event \cup published
          /\ \A w \in window' : w \in Gaps /\ EndsPast(w)
          /\ Told \subseteq window
      BY <2>1, <2>3, CarryStep DEF Told
    <3>2. /\ UNCHANGED <<gap, rows, queue, sent, klines>> /\ inbox' \in Seq(Gaps)
          /\ Range(inbox') \subseteq Range(inbox) \cup window
      <4>1. CASE UNCHANGED filler
        BY <1>0, <4>1 DEF filler, Tables
      <4>2. CASE \E w \in Told : G!Announce(w)
        BY <3>1, <4>2, AnnounceStep
      <4> QED
        BY <1>1, <4>1, <4>2 DEF Ingest
    <3>3. Tables'
      BY <1>0, <3>1, <3>2 DEF Tables
    <3>4. PastEvents'
      BY <1>0, <3>1 DEF PastEvents, IsPast
    <3>5. PastWindows'
      BY <1>0, <3>1, <3>2 DEF PastWindows, EndsPast
    <3>6. PastRows'
      BY <1>0, <3>1, <3>2 DEF PastRows, IsPast
    <3> QED
      BY <3>3, <3>4, <3>5, <3>6 DEF PipeInv
  <2> QED
    BY <2>2, <2>3
<1>2. CASE Fill
  <2>1. G!Work /\ UNCHANGED <<closed, last, stream, event, published, window>>
    BY <1>2 DEF Fill, ingestor
  <2>2. /\ inbox' \in Seq(Gaps) /\ Range(inbox') \cup gap' \subseteq Range(inbox) \cup gap
        /\ \A c \in rows' \cup queue' \cup sent' : IsPast(c)
        /\ klines' = klines \/ klines' = G!Upsert
    BY <2>1, WorkStep
  <2>3. Tables'
    BY <1>0, <2>1, <2>2, UpsertTyped DEF Tables
  <2>4. PastEvents'
    BY <1>0, <2>1 DEF PastEvents, IsPast
  <2>5. PastWindows'
    BY <1>0, <2>1, <2>2 DEF PastWindows, EndsPast
  <2>6. PastRows'
    BY <2>1, <2>2 DEF PastRows, IsPast
  <2> QED
    BY <2>3, <2>4, <2>5, <2>6 DEF PipeInv
<1>3. CASE \E c \in Candles : Store(c)
  <2>1. PICK c \in Candles : Store(c)
    BY <1>3
  <2>2. /\ klines' = [klines EXCEPT ![c] = IF @ = "none" THEN "live" ELSE @]
        /\ UNCHANGED <<inbox, gap, rows, queue, sent>>
        /\ UNCHANGED <<closed, last, stream, event, published, window>>
    BY <1>0, <2>1, InsertStored DEF Store, ingestor
  <2>3. Tables'
    BY <1>0, <2>2 DEF Tables
  <2> QED
    BY <1>0, <2>2, <2>3 DEF PipeInv, PastEvents, PastWindows, PastRows, IsPast, EndsPast
<1>4. CASE UNCHANGED vars
  BY <1>0, <1>4
     DEF vars, ingestor, filler, PipeInv, Tables, PastEvents, PastWindows, PastRows,
         IsPast, EndsPast
<1> QED
  BY <1>1, <1>2, <1>3, <1>4 DEF Next

-----------------------------------------------------------------------------
LEMMA StoreInit == Init => Store0!Init
BY SameCandles DEF Init, I!Init, G!Init, Store0!Init

\* Every step closes a candle, or stores a live or some recovered ones, or leaves
\* the exchange and the table alone.
LEMMA StoreStep ==
  ASSUME PipeInv, [Next]_vars
  PROVE  [Store0!Next]_<<closed, klines>>
<1>0. Tables /\ PastRows /\ PastEvents
  BY DEF PipeInv
<1>1. CASE Ingest
  <2>1. I!Next /\ UNCHANGED klines
    BY <1>1 DEF Ingest, filler, G!Announce, G!tables
  <2>2. CASE \E k \in Keys : I!CloseCandle(k)
    BY <2>1, <2>2, CloseStep DEF Store0!Next, Store0!Close
  <2>3. CASE ~\E k \in Keys : I!CloseCandle(k)
    BY <2>1, <2>3, CarryStep
  <2> QED
    BY <2>2, <2>3
<1>2. CASE Fill
  <2>1. G!Work /\ UNCHANGED closed
    BY <1>2 DEF Fill, ingestor
  <2>2. CASE klines' = klines
    BY <2>1, <2>2
  <2>3. CASE klines' = G!Upsert
    <3>1. rows \in SUBSET Candles /\ \A c \in rows : Store0!IsClosed(c)
      BY <1>0 DEF PastRows, IsPast, Store0!IsClosed
    <3>2. Store0!Recover(rows)
      BY <2>1, <2>3, <3>1, SameCandles DEF Store0!Recover, G!Upsert
    <3> QED
      BY <3>1, <3>2, SameCandles DEF Store0!Next
  <2> QED
    BY <2>1, <2>2, <2>3, WorkStep
<1>3. CASE \E c \in Candles : Store(c)
  <2>1. PICK c \in Candles : Store(c)
    BY <1>3
  <2>2. /\ klines' = [klines EXCEPT ![c] = IF @ = "none" THEN "live" ELSE @]
        /\ UNCHANGED closed
    BY <1>0, <2>1, InsertStored DEF Store, ingestor
  <2>3. Store0!IsClosed(c)
    BY <1>0, <2>1 DEF Store, PastEvents, PastRows, IsPast, Store0!IsClosed
  <2>4. CASE klines[c] = "none"
    <3>1. Store0!StoreLive(c)
      BY <2>2, <2>3, <2>4 DEF Store0!StoreLive
    <3> QED
      BY <3>1, SameCandles DEF Store0!Next
  <2>5. CASE klines[c] /= "none"
    BY <1>0, <2>2, <2>5 DEF Tables
  <2> QED
    BY <2>4, <2>5
<1>4. CASE UNCHANGED vars
  BY <1>4 DEF vars, ingestor, filler
<1> QED
  BY <1>1, <1>2, <1>3, <1>4 DEF Next

\* The three workers implement CandleStore: a row of klines is that of a candle
\* that has closed, whoever wrote it and whatever faults came between, and a live
\* row never replaces a recovered one (to_ts of gap_detector.py, endTime of
\* gap_fill_worker.py, and the two ON CONFLICT clauses).
THEOREM PipelineRefinesStore == Spec => StoreSpec
<1>1. Init => PipeInv
  BY InitPast
<1>2. PipeInv /\ [Next]_vars => PipeInv'
  BY NextPast
<1>3. Init => Store0!Init
  BY StoreInit
<1>4. PipeInv /\ [Next]_vars => [Store0!Next]_<<closed, klines>>
  BY StoreStep
<1> QED
  BY <1>1, <1>2, <1>3, <1>4, PTL DEF Spec, StoreSpec, Store0!Spec

-----------------------------------------------------------------------------
(* The composition of what is proved of the two workers: each is the worker of *)
(* its module, so that the theorems of both hold of the pipeline.             *)

IP == INSTANCE IngestorProofs WITH
        stage <- ingesting, faults <- ingestorFaults, GapDetection <- TRUE,
        FaultKinds <- IngestorFaults, MaxFaults <- MaxIngestorFaults

GP == INSTANCE GapFillProofs WITH
        stage <- filling, faults <- fillFaults, LiveCandles <- Candles,
        FaultKinds <- FillFaults, MaxFaults <- MaxFillFaults

LEMMA Assumed == IP!IngestorAssumption /\ GP!GapFillAssumption
BY PipelineAssumption
   DEF IP!IngestorAssumption, GP!GapFillAssumption, Windows, I!Windows, Candles,
       GP!Candles

LEMMA SameIngestor == (I!Init <=> IP!Init) /\ (I!Next <=> IP!Next)
<1>1. I!Init <=> IP!Init
  BY DEF I!Init, IP!Init
<1> USE DEF I!Connected, I!detector, I!retry, I!inHand, I!bus, I!Fault,
            IP!Connected, IP!detector, IP!retry, IP!inHand, IP!bus, IP!Fault
<1>2. I!Next <=> IP!Next
  BY Zenon
  DEF I!Next, I!CloseCandle, I!Start, I!Connect, I!Rotate, I!Wake, I!ReceiveClosed,
      I!ReceiveMalformed, I!PublishClosed, I!PublishGap, I!LinkDies, I!StreamError,
      I!ConnectError, I!TickBusError, I!KlineBusError, I!GapBusError, I!Crash, I!Fail,
      I!Noticed, I!Gap, I!LastAfter, I!Backoff,
      IP!Next, IP!CloseCandle, IP!Start, IP!Connect, IP!Rotate, IP!Wake,
      IP!ReceiveClosed, IP!ReceiveMalformed, IP!PublishClosed, IP!PublishGap,
      IP!LinkDies, IP!StreamError, IP!ConnectError, IP!TickBusError,
      IP!KlineBusError, IP!GapBusError, IP!Crash, IP!Fail, IP!Noticed, IP!Gap,
      IP!LastAfter, IP!Backoff
<1> QED
  BY <1>1, <1>2

LEMMA SameFiller ==
  /\ G!Init <=> GP!Init
  /\ G!Work <=> GP!Work
  /\ \A w : G!Announce(w) <=> GP!Announce(w)
  /\ \A c : G!StoreLive(c) <=> GP!StoreLive(c)
<1> USE DEF G!hand, G!tables, G!history, G!Candles, G!Fault, G!Upsert, G!Settle,
            GP!hand, GP!tables, GP!history, GP!Candles, GP!Fault, GP!Upsert, GP!Settle
<1>1. G!Init <=> GP!Init
  BY DEF G!Init, GP!Init
<1>2. G!Work <=> GP!Work
  <2>1. /\ G!Subscribe <=> GP!Subscribe
        /\ G!StartUp <=> GP!StartUp
        /\ G!Receive <=> GP!Receive
        /\ G!PauseEnds <=> GP!PauseEnds
    BY Zenon
    DEF G!Subscribe, G!StartUp, G!Receive, G!PauseEnds, GP!Subscribe, GP!StartUp,
        GP!Receive, GP!PauseEnds
  <2>11. /\ G!ListenError <=> GP!ListenError
         /\ G!ConnectError <=> GP!ConnectError
         /\ G!Exit <=> GP!Exit
    BY Zenon
    DEF G!ListenError, G!ConnectError, G!Exit, G!Range, GP!ListenError,
        GP!ConnectError, GP!Exit, GP!Range
  <2>2. /\ G!Fetched <=> GP!Fetched
        /\ G!FetchedShort <=> GP!FetchedShort
        /\ G!FetchedOther <=> GP!FetchedOther
    <3>1. \A w : G!Returned(w) = GP!Returned(w)
      BY Zenon
      DEF G!Returned, G!Selected, G!RestTime, G!OpenTime, G!CloseTime, G!Cardinality,
          GP!Returned, GP!Selected, GP!RestTime, GP!OpenTime, GP!CloseTime,
          GP!Cardinality
    <3>2. \A w, whole : G!Take(w, whole) <=> GP!Take(w, whole)
      BY <3>1, Zenon DEF G!Take, GP!Take
    <3>3. G!Fetched <=> GP!Fetched
      BY <3>1, <3>2, Zenon DEF G!Fetched, GP!Fetched
    <3>4. G!FetchedShort <=> GP!FetchedShort
      BY <3>1, <3>2, Zenon DEF G!FetchedShort, GP!FetchedShort
    <3>5. G!FetchedOther <=> GP!FetchedOther
      BY Zenon DEF G!FetchedOther, GP!FetchedOther
    <3> QED
      BY <3>3, <3>4, <3>5
  <2>3. G!FetchBusy <=> GP!FetchBusy
    BY Zenon
    DEF G!FetchBusy, G!LastAttempt, G!TriesAfter, G!Attempts,
        GP!FetchBusy, GP!LastAttempt, GP!TriesAfter, GP!Attempts
  <2>4. G!FetchRefused <=> GP!FetchRefused
    BY Zenon DEF G!FetchRefused, GP!FetchRefused
  <2>5. G!Save <=> GP!Save
    BY Zenon DEF G!Save, G!IdsAfter, GP!Save, GP!IdsAfter
  <2>6. G!SaveBadRow <=> GP!SaveBadRow
    BY Zenon DEF G!SaveBadRow, G!IdsAfter, GP!SaveBadRow, GP!IdsAfter
  <2>7. G!SaveViolates <=> GP!SaveViolates
    BY Zenon DEF G!SaveViolates, GP!SaveViolates
  <2>8. G!SaveError <=> GP!SaveError
    BY Zenon DEF G!SaveError, G!MaybeCommit, GP!SaveError, GP!MaybeCommit
  <2>9. (G!Send <=> GP!Send) /\ (G!SendError <=> GP!SendError)
    BY Zenon DEF G!Send, G!SendError, G!Due, GP!Send, GP!SendError, GP!Due
  <2>10. G!Crash <=> GP!Crash
    BY Zenon DEF G!Crash, G!MaybeCommit, G!Due, GP!Crash, GP!MaybeCommit, GP!Due
  <2> QED
    BY <2>1, <2>2, <2>3, <2>4, <2>5, <2>6, <2>7, <2>8, <2>9, <2>10, <2>11
    DEF G!Work, GP!Work
<1>3. \A w : G!Announce(w) <=> GP!Announce(w)
  BY Zenon DEF G!Announce, GP!Announce
<1>4. \A c : G!StoreLive(c) <=> GP!StoreLive(c)
  BY Zenon DEF G!StoreLive, G!InsertLive, GP!StoreLive, GP!InsertLive
<1> QED
  BY <1>1, <1>2, <1>3, <1>4

\* The windows of the pipeline are those the detector can find.
LEMMA FoundWindows ==
  ASSUME IP!GapInv
  PROVE  announced \cup window \cup lost \subseteq Windows
BY DEF IP!GapInv, IP!Shape, IP!Behind, IP!Found, IP!Windows, I!Windows, Windows

LEMMA ToldFound ==
  ASSUME I!Next
  PROVE  announced \subseteq announced' /\ Told \subseteq window
BY DEF Told, I!Next, I!CloseCandle, I!Start, I!Connect, I!Rotate, I!Wake,
       I!ReceiveClosed, I!ReceiveMalformed, I!PublishClosed, I!PublishGap, I!LinkDies,
       I!StreamError, I!ConnectError, I!TickBusError, I!KlineBusError, I!GapBusError,
       I!Crash, I!bus

LEMMA IngestorKept == [Next]_vars => [IP!Next]_(IP!vars)
<1> USE DEF ingestor, IP!vars
<1>1. CASE Ingest
  BY <1>1, SameIngestor DEF Ingest
<1>2. CASE Fill
  BY <1>2 DEF Fill
<1>3. CASE \E c \in Candles : Store(c)
  BY <1>3 DEF Store
<1>4. CASE UNCHANGED vars
  BY <1>4 DEF vars
<1> QED
  BY <1>1, <1>2, <1>3, <1>4 DEF Next

LEMMA FillerKept ==
  ASSUME IP!GapInv, [Next]_vars
  PROVE  [GP!Next]_(GP!vars)
<1> USE DEF filler, GP!vars
<1>1. CASE Ingest
  <2>1. CASE UNCHANGED filler
    BY <2>1
  <2>2. CASE \E w \in Told : G!Announce(w)
    <3>1. PICK w \in Windows : GP!Announce(w)
      BY <1>1, <2>2, ToldFound, FoundWindows, SameFiller DEF Ingest
    <3> QED
      BY <3>1 DEF GP!Next
  <2> QED
    BY <1>1, <2>1, <2>2 DEF Ingest
<1>2. CASE Fill
  BY <1>2, SameFiller DEF Fill, GP!Next
<1>3. CASE \E c \in Candles : Store(c)
  <2>1. PICK c \in Candles : GP!StoreLive(c)
    BY <1>3, SameFiller DEF Store
  <2> QED
    BY <2>1 DEF GP!Next, GP!Candles, Candles
<1>4. CASE UNCHANGED vars
  BY <1>4 DEF vars
<1> QED
  BY <1>1, <1>2, <1>3, <1>4 DEF Next

-----------------------------------------------------------------------------
\* At most one window is on its way from the ingestor, and every window that it
\* published has met the worker, if only to be missed.
Born ==
  /\ \A v, w \in window : v = w
  /\ \A w \in announced : fate[w] /= "unborn"

\* The window ends with a candle that has closed, so REST has one for it.
NeverEmpty == \A w \in Windows : fate[w] /= "empty"

LEMMA OneWindow ==
  ASSUME I!Next, \A v, w \in window : v = w
  PROVE  \A v, w \in window' : v = w
<1>1. CASE I!PublishClosed
  <2>1. \/ window' = window
        \/ \E c \in event : window' = I!Gap(c[1], last[c[1]], c[2])
    BY <1>1 DEF I!PublishClosed
  <2> QED
    BY <2>1 DEF I!Gap
<1>2. CASE ~I!PublishClosed
  <2>1. window' \in {window, {}}
    BY <1>2
       DEF I!Next, I!CloseCandle, I!Start, I!Connect, I!Rotate, I!Wake, I!inHand,
           I!ReceiveClosed, I!ReceiveMalformed, I!PublishGap, I!LinkDies,
           I!StreamError, I!ConnectError, I!TickBusError, I!KlineBusError,
           I!GapBusError, I!Crash, I!Fail
  <2> QED
    BY <2>1
<1> QED
  BY <1>1, <1>2

LEMMA BornStep ==
  ASSUME Born, NeverEmpty, IP!GapInv, IP!GapInv', GP!TypeOK, [Next]_vars
  PROVE  Born' /\ NeverEmpty'
<1>1. /\ announced \subseteq Windows
      /\ \A w \in Windows : /\ fate'[w] = "unborn" => fate[w] = "unborn"
                            /\ fate'[w] = "empty" => fate[w] = "empty"
  BY FoundWindows, FillerKept, GP!NextBorn, Assumed
<1>2. NeverEmpty'
  BY <1>1 DEF NeverEmpty
<1>3. CASE Ingest
  <2>1. \A v, w \in window' : v = w
    BY <1>3, OneWindow DEF Ingest, Born
  <2>2. \A w \in announced' : fate'[w] /= "unborn"
    <3>1. CASE Told = {}
      BY <1>1, <3>1 DEF Told, Born
    <3>2. CASE Told /= {}
      <4>1. PICK w \in Told : G!Announce(w)
        BY <1>3, <3>2 DEF Ingest
      <4>2. Told = {w} /\ w \in Windows
        BY <1>3, <4>1, ToldFound, FoundWindows DEF Ingest, Born
      <4>3. fate'[w] /= "unborn"
        BY <4>1, <4>2 DEF G!Announce, GP!TypeOK
      <4> QED
        BY <1>1, <4>2, <4>3 DEF Told, Born
    <3> QED
      BY <3>1, <3>2
  <2> QED
    BY <1>2, <2>1, <2>2 DEF Born
<1>4. CASE UNCHANGED ingestor
  BY <1>1, <1>2, <1>4 DEF ingestor, Born
<1> QED
  BY <1>3, <1>4 DEF Next, Fill, Store, vars

\* A window that was published is on its way through the worker, or was filled
\* but for its first candle, or is given up on record.
LEMMA HoleExplained ==
  ASSUME Born, NeverEmpty, IP!GapInv, GP!TypeOK, GP!TailFilled
  PROVE  HolesExplained
<1> SUFFICES ASSUME NEW c \in seen, NEW d \in seen, c[1] = d[1],
                    NEW n \in (c[2] + 1)..(d[2] - 1), <<c[1], n>> \notin seen
             PROVE  \E w \in Windows :
                      /\ <<c[1], n>> \in I!Missing(w)
                      /\ \/ w \in window \cup lost
                         \/ fate[w] \in {"open", "missed", "garbled", "dropped",
                                         "failed", "unsent", "unread"}
                         \/ /\ fate[w] = "filled"
                            /\ \/ n = w.from
                               \/ w.to - w.from > Limit
                               \/ <<c[1], n>> \in short[w]
                               \/ /\ klines[<<c[1], n>>] = "recovered"
                                  /\ <<c[1], n>> \in sent
  BY DEF HolesExplained
<1>1. n \in c[2]..d[2]
  <2>1. c[2] \in Int /\ d[2] \in Int
    BY PipelineAssumption DEF IP!GapInv, IP!Shape, IP!Candles
  <2> QED
    BY <2>1
<1>2. PICK w \in announced \cup window \cup lost : <<c[1], n>> \in IP!Missing(w)
  BY <1>1 DEF IP!GapInv, IP!GapsFound
<1>3. w \in Windows /\ <<c[1], n>> \in I!Missing(w)
  BY <1>2, FoundWindows DEF IP!Missing, I!Missing
<1>4. CASE w \in window \cup lost
  BY <1>3, <1>4
<1>5. CASE w \in announced
  <2>1. fate[w] \in {"open", "missed", "garbled", "dropped", "failed", "unsent",
                     "unread", "filled"}
    BY <1>3, <1>5 DEF GP!TypeOK, GP!Fates, Born, NeverEmpty
  <2>2. CASE /\ fate[w] = "filled" /\ n /= w.from /\ ~(w.to - w.from > Limit)
             /\ <<c[1], n>> \notin short[w]
    <3>1. /\ c[1] = w.key /\ n \in w.from..(w.to - 1)
          /\ w.from \in Int /\ w.to \in Int /\ Limit \in Int
      BY <1>3, PipelineAssumption DEF I!Missing, Windows, I!Windows
    <3>2. <<c[1], n>> \in {w.key} \X ((w.from + 1)..w.to) /\ w.to - w.from <= Limit
      BY <2>2, <3>1
    <3>3. klines[<<c[1], n>>] = "recovered" /\ <<c[1], n>> \in sent
      BY <1>3, <2>2, <3>2 DEF GP!TailFilled
    <3> QED
      BY <1>3, <2>2, <3>3
  <2> QED
    BY <1>3, <2>1, <2>2
<1> QED
  BY <1>2, <1>4, <1>5

\* With a REST API that selects by open time no hole of a series is left between
\* two candles that one process of the ingestor saw, but for those on record:
\* the detector overlooks none (gap_detector.py), the worker hears of each or was
\* not there, and fills all of its window but the first candle and the rows that
\* came short of fields, or gives it up (gap_fill_worker.py).
THEOREM NoHoleUnexplained == ASSUME RestKey = "open" PROVE Spec => []HolesExplained
<1>1. Init => IP!Init /\ GP!Init /\ Born /\ NeverEmpty
  BY SameIngestor, SameFiller DEF Init, I!Init, G!Init, Born, NeverEmpty
<1>2. [Next]_vars => [IP!Next]_(IP!vars)
  BY IngestorKept
<1>3. IP!Spec => []IP!GapInv
  BY IP!IngestorInvariant, Assumed
<1>4. IP!GapInv /\ [Next]_vars => [GP!Next]_(GP!vars)
  BY FillerKept
<1>5. GP!Spec => []GP!TypeOK
  BY GP!WorkerTyped, Assumed
<1>6. GP!Spec => []GP!TailFilled
  BY GP!TailsFilled, Assumed
<1>7. Born /\ NeverEmpty /\ IP!GapInv /\ IP!GapInv' /\ GP!TypeOK /\ [Next]_vars
        => Born' /\ NeverEmpty'
  BY BornStep
<1>8. Born /\ NeverEmpty /\ IP!GapInv /\ GP!TypeOK /\ GP!TailFilled => HolesExplained
  BY HoleExplained
<1>9. Spec => []IP!GapInv
  BY <1>1, <1>2, <1>3, PTL DEF Spec, IP!Spec
<1>10. Spec => []GP!TypeOK /\ []GP!TailFilled
  BY <1>1, <1>4, <1>5, <1>6, <1>9, PTL DEF Spec, GP!Spec
<1>11. Spec => [](Born /\ NeverEmpty)
  BY <1>1, <1>7, <1>9, <1>10, PTL DEF Spec
<1> QED
  BY <1>8, <1>9, <1>10, <1>11, PTL
=============================================================================
