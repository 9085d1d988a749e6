---------------------------- MODULE IngestorProofs ----------------------------
(***************************************************************************)
(* The detector overlooks nothing and invents nothing: proofs of GapsFound *)
(* and GapsAreReal for any keys, any number of candles and any sequence of *)
(* faults; and of TypeOK, by which the backoff never exceeds its maximum.  *)
(*                                                                         *)
(* Neither is inductive.  They rest on the candles of a key                *)
(* arriving in order (Ordered), each of them after all that the detector   *)
(* remembers and after every window found before (Ahead), on the detector  *)
(* remembering the newest candle it was shown (Remembers), and on old      *)
(* windows lying behind that candle even across a restart (Behind).        *)
(***************************************************************************)
EXTENDS Ingestor, SequenceTheorems, FiniteSetTheorems, TLAPS

Found   == announced \cup window \cup lost
Pending == event \cup Range(stream)

\* The part of the type invariant that the detector's arithmetic needs.
Shape ==
  /\ closed \in [Keys -> 0..MaxCandle]
  /\ stream \in Seq(Candles)
  /\ event \subseteq Candles
  /\ last \in [Keys -> 0..MaxCandle]
  /\ seen \subseteq Candles
  /\ Found \subseteq Windows

\* At most one candle is in hand, and a window only while it is published.
OneInHand ==
  /\ event = {} \/ \E c \in Candles : event = {c}
  /\ stage /= "gap" => window = {}
  /\ stage /= "kline" => event = {}

KeyOrdered(s) ==
  \A i, j \in DOMAIN s : i < j /\ s[i][1] = s[j][1] => s[i][2] < s[j][2]
Before(c, s)  == \A d \in Range(s) : c[1] = d[1] => c[2] < d[2]

\* The candles of a key arrive in the order in which they closed.
Ordered ==
  /\ KeyOrdered(stream)
  /\ \A c \in event : Before(c, stream)

\* What is still to be handled is newer than all that was.
Ahead ==
  \A c \in Pending :
    /\ last[c[1]] < c[2]
    /\ c[2] <= closed[c[1]]
    /\ \A w \in Found : w.key = c[1] => w.to < c[2]

\* The detector remembers the newest candle of a key that it was shown.
Remembers ==
  /\ \A c \in seen : c[2] <= last[c[1]]
  /\ \A k \in Keys : last[k] /= 0 => <<k, last[k]>> \in seen
  /\ \A k \in Keys : last[k] <= closed[k]

\* Windows lie in the past, and behind the detector unless it is new.
Behind ==
  \A w \in Found :
    /\ w.from < w.to
    /\ w.to <= closed[w.key]
    /\ last[w.key] /= 0 => w.to <= last[w.key]

\* The inductive invariant.
GapInv ==
  /\ Shape /\ OneInHand
  /\ Ordered /\ Ahead
  /\ Remembers /\ Behind
  /\ GapsFound /\ NamedOnce /\ RevealedFirst

-----------------------------------------------------------------------------
\* What a queue holds after Append and before Tail.
LEMMA RangeEmpty == Range(<<>>) = {}
BY DEF Range

LEMMA RangeAppend ==
  ASSUME NEW S, NEW s \in Seq(S), NEW x \in S
  PROVE  Range(Append(s, x)) = Range(s) \cup {x}
BY AppendProperties DEF Range

LEMMA RangeHeadTail ==
  ASSUME NEW S, NEW s \in Seq(S), s /= <<>>
  PROVE  Range(s) = {Head(s)} \cup Range(Tail(s))
<1>1. /\ <<Head(s)>> \in Seq(S) /\ Tail(s) \in Seq(S)
      /\ s = <<Head(s)>> \o Tail(s)
  BY HeadTailProperties
<1>2. DOMAIN <<Head(s)>> = {1}
  OBVIOUS
<1>3. Range(<<Head(s)>>) = {Head(s)}
  BY <1>2 DEF Range
<1>4. Range(<<Head(s)>> \o Tail(s)) = Range(<<Head(s)>>) \cup Range(Tail(s))
  BY <1>1, RangeConcatenation
<1> QED
  BY <1>1, <1>3, <1>4

-----------------------------------------------------------------------------
LEMMA KeyOrderedAppend ==
  ASSUME NEW s \in Seq(Candles), NEW c \in Candles, KeyOrdered(s),
         \A d \in Range(s) : d[1] = c[1] => d[2] < c[2]
  PROVE  KeyOrdered(Append(s, c))
<1>1. /\ DOMAIN s = 1..Len(s) /\ Len(s) \in Nat
      /\ DOMAIN Append(s, c) = 1..(Len(s) + 1)
      /\ \A i \in 1..Len(s) : Append(s, c)[i] = s[i]
      /\ Append(s, c)[Len(s) + 1] = c
  BY AppendProperties
<1>2. ASSUME NEW i \in 1..(Len(s) + 1), NEW j \in 1..(Len(s) + 1), i < j,
             Append(s, c)[i][1] = Append(s, c)[j][1]
      PROVE  Append(s, c)[i][2] < Append(s, c)[j][2]
  <2>1. i \in 1..Len(s)
    BY <1>1, <1>2
  <2>2. CASE j \in 1..Len(s)
    BY <1>1, <1>2, <2>1, <2>2 DEF KeyOrdered
  <2>3. CASE j = Len(s) + 1
    BY <1>1, <1>2, <2>1, <2>3 DEF Range
  <2> QED
    BY <1>1, <2>2, <2>3
<1> QED
  BY <1>1, <1>2 DEF KeyOrdered

LEMMA KeyOrderedTail ==
  ASSUME NEW s \in Seq(Candles), s /= <<>>, KeyOrdered(s)
  PROVE  KeyOrdered(Tail(s)) /\ Before(Head(s), Tail(s))
<1>1. /\ DOMAIN s = 1..Len(s) /\ Len(s) \in Nat \ {0}
      /\ DOMAIN Tail(s) = 1..(Len(s) - 1)
      /\ \A i \in 1..(Len(s) - 1) : Tail(s)[i] = s[i + 1]
      /\ Head(s) = s[1]
  BY HeadTailProperties
<1>2. \A i \in 1..(Len(s) - 1) : i + 1 \in 1..Len(s) /\ 1 < i + 1
  BY <1>1
<1>3. 1 \in 1..Len(s)
  BY <1>1
<1>4. Before(Head(s), Tail(s))
  BY <1>1, <1>2, <1>3 DEF KeyOrdered, Before, Range
<1>5. KeyOrdered(Tail(s))
  BY <1>1, <1>2 DEF KeyOrdered
<1> QED
  BY <1>4, <1>5

LEMMA MissingMember ==
  ASSUME NEW w \in Windows, NEW k, NEW n
  PROVE  <<k, n>> \in Missing(w) <=> k = w.key /\ n \in w.from..(w.to - 1)
BY DEF Missing

\* The members of Missing are candles.
LEMMA MissingPairs ==
  ASSUME NEW w \in Windows, NEW c \in Missing(w)
  PROVE  c = <<w.key, c[2]>> /\ c[2] \in w.from..(w.to - 1)
BY DEF Missing

-----------------------------------------------------------------------------
LEMMA InitGap == Init => GapInv
<1> SUFFICES ASSUME Init PROVE GapInv
  OBVIOUS
<1>1. Found = {} /\ Pending = {} /\ Range(stream) = {}
  BY RangeEmpty DEF Init, Found, Pending
<1>2. Shape
  BY <1>1, IngestorAssumption DEF Init, Shape
<1>3. OneInHand
  BY DEF Init, OneInHand
<1>4. Ordered
  BY DEF Init, Ordered, KeyOrdered
<1>5. Ahead /\ Behind
  BY <1>1 DEF Ahead, Behind
<1>6. Remembers
  BY DEF Init, Remembers
<1>7. GapsFound
  BY DEF Init, GapsFound
<1>8. NamedOnce /\ RevealedFirst
  BY DEF Init, NamedOnce, RevealedFirst
<1> QED
  BY <1>2, <1>3, <1>4, <1>5, <1>6, <1>7, <1>8 DEF GapInv

\* A step that handles no candle: windows may move from one place to another,
\* candles may be dropped, and the exchange may close some.
Quiet ==
  /\ closed' \in [Keys -> 0..MaxCandle]
  /\ \A k \in Keys : closed[k] <= closed'[k]
  /\ Found' = Found
  /\ UNCHANGED detector
  /\ published \subseteq published'

LEMMA QuietStep ==
  ASSUME GapInv, Quiet
  PROVE  /\ Remembers' /\ Behind'
         /\ GapsFound' /\ NamedOnce' /\ RevealedFirst'
<1> USE DEF Quiet, detector
<1>1. Remembers'
  BY DEF GapInv, Shape, Remembers, Candles
<1>2. Behind'
  BY DEF GapInv, Shape, Behind, Windows
<1>3. GapsFound'
  <2>1. seen' = seen
    OBVIOUS
  <2>2. (announced \cup window \cup lost)' = announced \cup window \cup lost
    BY DEF Found
  <2> QED
    BY <2>1, <2>2 DEF GapInv, GapsFound
<1>4. NamedOnce'
  BY DEF GapInv, NamedOnce, Found
<1>5. RevealedFirst'
  BY DEF GapInv, RevealedFirst, Found
<1> QED
  BY <1>1, <1>2, <1>3, <1>4, <1>5

\* A quiet step that lets no new candle arrive.
LEMMA DropStep ==
  ASSUME GapInv, Quiet, UNCHANGED closed,
         stream' \in Seq(Candles), Pending' \subseteq Pending,
         Ordered', OneInHand'
  PROVE  GapInv'
<1>1. Shape'
  <2>1. event \cup Range(stream) \subseteq Candles
    BY DEF GapInv, Shape, Range
  <2>2. event' \subseteq Candles
    BY <2>1 DEF Pending
  <2> QED
    BY <2>2 DEF GapInv, Quiet, Shape, detector
<1>2. Ahead'
  BY DEF GapInv, Quiet, Ahead, detector
<1> QED
  BY <1>1, <1>2, QuietStep DEF GapInv

\* What a connection in whatever state may lose: nothing of it is pending.
LEMMA FailStep ==
  ASSUME GapInv, Fail, Found' = Found, published \subseteq published'
  PROVE  GapInv'
<1> USE DEF Fail, detector
<1>1. Quiet
  BY DEF GapInv, Shape, Quiet
<1>2. Pending' = {} /\ stream' = <<>>
  BY RangeEmpty DEF Pending
<1>3. Ordered'
  BY <1>2 DEF Ordered, KeyOrdered
<1>4. OneInHand'
  BY DEF OneInHand
<1>5. stream' \in Seq(Candles)
  BY <1>2
<1> QED
  BY <1>1, <1>2, <1>3, <1>4, <1>5, DropStep

LEMMA CloseCandleStep ==
  ASSUME GapInv, NEW k \in Keys, CloseCandle(k)
  PROVE  GapInv'
<1> DEFINE c == <<k, closed[k] + 1>>
<1> USE DEF GapInv, CloseCandle
<1>1. /\ closed[k] \in 0..MaxCandle /\ closed[k] < MaxCandle /\ MaxCandle \in Nat
      /\ closed' = [closed EXCEPT ![k] = closed[k] + 1]
      /\ closed'[k] = closed[k] + 1
      /\ c \in Candles
  BY IngestorAssumption DEF Shape, Candles
<1>2. closed' \in [Keys -> 0..MaxCandle] /\ \A j \in Keys : closed[j] <= closed'[j]
  BY <1>1 DEF Shape
<1>3. Quiet
  BY <1>2 DEF Quiet, Found, inHand, detector, bus
<1>4. stream' = stream \/ stream' = Append(stream, c)
  BY <1>1
<1>5. stream' \in Seq(Candles) /\ Range(stream') \subseteq Range(stream) \cup {c}
  <2>1. stream \in Seq(Candles)
    BY DEF Shape
  <2>2. /\ Append(stream, c) \in Seq(Candles)
        /\ Range(Append(stream, c)) = Range(stream) \cup {c}
    BY <1>1, <2>1, RangeAppend, AppendProperties
  <2> QED
    BY <1>4, <2>1, <2>2
<1>6. Shape'
  BY <1>2, <1>5 DEF Shape, Found, inHand, detector, bus
<1>7. OneInHand'
  BY DEF OneInHand, inHand
<1>8. \A d \in Pending : d[1] \in Keys /\ d[2] \in Nat
  BY DEF Shape, Pending, Range, Candles
<1>9. \A d \in Pending : d[1] = k => d[2] < closed[k] + 1
  BY <1>1, <1>8 DEF Ahead
<1>10. KeyOrdered(stream')
  <2>1. \A d \in Range(stream) : d[1] = c[1] => d[2] < c[2]
    BY <1>9 DEF Pending
  <2> QED
    BY <1>1, <1>4, <2>1, KeyOrderedAppend DEF Shape, Ordered
<1>11. Ordered'
  <2>1. event' = event
    BY DEF inHand
  <2>2. ASSUME NEW e \in event, NEW d \in Range(stream'), e[1] = d[1]
        PROVE  e[2] < d[2]
    <3>1. CASE d \in Range(stream)
      BY <2>2, <3>1 DEF Ordered, Before
    <3>2. CASE d = c
      BY <1>9, <2>2, <3>2 DEF Pending
    <3> QED
      BY <1>5, <2>2, <3>1, <3>2
  <2> QED
    BY <1>10, <2>1, <2>2 DEF Ordered, Before
<1>12. Ahead'
  <2>1. last[k] < closed[k] + 1
    BY <1>1 DEF Remembers, Shape
  <2>2. \A w \in Found : w.key = k => w.to < closed[k] + 1
    BY <1>1 DEF Behind, Shape, Windows
  <2>3. Pending' \subseteq Pending \cup {c}
    BY <1>5 DEF Pending, inHand
  <2>4. \A d \in Pending : d[2] <= closed'[d[1]]
    BY <1>1, <1>2, <1>8 DEF Ahead, Shape
  <2> QED
    BY <1>1, <1>3, <2>1, <2>2, <2>3, <2>4 DEF Ahead, Quiet, detector
<1> QED
  BY <1>3, <1>6, <1>7, <1>11, <1>12, QuietStep

LEMMA ReceiveStep ==
  ASSUME GapInv, stage = "open", stream /= <<>>, stream' = Tail(stream),
         \/ event' = {Head(stream)} /\ stage' = "kline"
         \/ UNCHANGED <<event, stage>>,
         UNCHANGED <<closed, window, detector, bus>>
  PROVE  GapInv'
<1> USE DEF GapInv
<1>1. stream \in Seq(Candles) /\ event = {} /\ window = {}
  BY DEF Shape, OneInHand
<1>2. /\ Head(stream) \in Candles /\ Tail(stream) \in Seq(Candles)
      /\ Range(stream) = {Head(stream)} \cup Range(Tail(stream))
  BY <1>1, HeadTailProperties, RangeHeadTail
<1>3. Quiet
  BY DEF Quiet, Shape, Found, detector, bus
<1>4. Pending' \subseteq Pending
  BY <1>1, <1>2 DEF Pending
<1>5. Ordered'
  BY <1>1, KeyOrderedTail DEF Ordered
<1>6. OneInHand'
  BY <1>1, <1>2 DEF OneInHand
<1> QED
  BY <1>2, <1>3, <1>4, <1>5, <1>6, DropStep

\* The candle in hand is shown to the detector.
LEMMA DetectStep ==
  ASSUME GapInv, PublishClosed, GapDetection
  PROVE  GapInv'
<1> USE DEF GapInv
<1>1. PICK c \in Candles : event = {c}
  BY DEF PublishClosed, OneInHand
<1> DEFINE k == c[1]
           n == c[2]
           p == last[k]
           g == [key |-> k, from |-> p + 1, to |-> n]
<1>2. /\ k \in Keys /\ n \in 1..MaxCandle /\ MaxCandle \in Nat /\ c = <<k, n>>
      /\ p \in 0..MaxCandle /\ closed[k] \in 0..MaxCandle
  BY IngestorAssumption DEF Candles, Shape
<1>3. /\ p < n /\ n <= closed[k]
      /\ \A w \in Found : w.key = k => w.to < n
      /\ \A d \in Range(stream) : d[1] = k => n < d[2]
  BY <1>1 DEF Ahead, Pending, Ordered, Before
<1>4. /\ window = {}
      /\ window' = Gap(k, p, n)
      /\ last' = [last EXCEPT ![k] = n]
      /\ seen' = seen \cup {c} /\ published' = published \cup {c}
      /\ event' = {} /\ stage' = (IF window' = {} THEN "open" ELSE "gap")
      /\ UNCHANGED <<closed, stream, announced, lost>>
  BY <1>1 DEF PublishClosed, OneInHand, LastAfter
<1>5. /\ last' \in [Keys -> 0..MaxCandle] /\ last'[k] = n
      /\ \A j \in Keys : j /= k => last'[j] = last[j]
  BY <1>2, <1>4 DEF Shape
<1>6. Found' = Found \cup Gap(k, p, n)
  BY <1>4 DEF Found
<1>7. ASSUME NEW w \in Gap(k, p, n)
      PROVE  /\ w \in Windows /\ w.key = k /\ w.from = p + 1 /\ w.to = n
             /\ p /= 0 /\ p + 1 < n
  BY <1>2, <1>7 DEF Gap, Windows
<1>8. /\ p /= 0 /\ p + 1 < n => g \in Gap(k, p, n)
      /\ Gap(k, p, n) \subseteq {g}
      /\ g.key = k /\ g.from = p + 1 /\ g.to = n
  BY <1>2 DEF Gap
<1> HIDE DEF k, n, p, g
<1>9. Shape'
  BY <1>2, <1>4, <1>5, <1>6, <1>7 DEF Shape
<1>10. OneInHand'
  BY <1>4 DEF OneInHand
<1>11. Ordered'
  BY <1>4 DEF Ordered
<1>12. Ahead'
  <2>1. ASSUME NEW d \in Range(stream)
        PROVE  /\ last'[d[1]] < d[2] /\ d[2] <= closed[d[1]]
               /\ \A w \in Found' : w.key = d[1] => w.to < d[2]
    <3>1. /\ last[d[1]] < d[2] /\ d[2] <= closed[d[1]]
          /\ \A w \in Found : w.key = d[1] => w.to < d[2]
          /\ d[1] \in Keys
      <4>1. d \in Pending /\ d \in Candles
        BY <2>1 DEF Pending, Shape, Range
      <4> QED
        BY <4>1 DEF Ahead, Candles
    <3> QED
      BY <1>3, <1>5, <1>6, <1>7, <2>1, <3>1
  <2> QED
    BY <1>4, <2>1 DEF Ahead, Pending
<1>13. Remembers'
  <2>1. ASSUME NEW d \in seen'
        PROVE  d[2] <= last'[d[1]]
    <3>1. CASE d = c
      BY <1>2, <1>5, <3>1 DEF k, n
    <3>2. CASE d \in seen
      <4>1. d[1] \in Keys /\ d[2] \in Nat /\ d[2] <= last[d[1]]
        BY <3>2 DEF Shape, Candles, Remembers
      <4> QED
        BY <1>2, <1>3, <1>5, <4>1 DEF p
    <3> QED
      BY <1>4, <2>1, <3>1, <3>2
  <2>2. ASSUME NEW j \in Keys
        PROVE  /\ last'[j] /= 0 => <<j, last'[j]>> \in seen'
               /\ last'[j] <= closed'[j]
    <3>1. CASE j = k
      BY <1>2, <1>3, <1>4, <1>5, <3>1
    <3>2. CASE j /= k
      BY <1>4, <1>5, <3>2 DEF Remembers
    <3> QED
      BY <3>1, <3>2
  <2> QED
    BY <2>1, <2>2 DEF Remembers
<1>14. Behind'
  <2>1. ASSUME NEW w \in Found'
        PROVE  /\ w.from < w.to /\ w.to <= closed[w.key]
               /\ last'[w.key] /= 0 => w.to <= last'[w.key]
    <3>1. CASE w \in Gap(k, p, n)
      BY <1>2, <1>3, <1>5, <1>7, <3>1
    <3>2. CASE w \in Found
      <4>1. w \in Windows
        BY <3>2 DEF Shape
      <4>2. w.key \in Keys /\ w.to \in Nat
        BY <4>1 DEF Windows
      <4> QED
        BY <1>2, <1>3, <1>5, <3>2, <4>2 DEF Behind
    <3> QED
      BY <1>6, <2>1, <3>1, <3>2
  <2> QED
    BY <1>4, <2>1 DEF Behind
<1>15. GapsFound'
  <2> SUFFICES ASSUME NEW a \in seen', NEW b \in seen', a[1] = b[1],
                      NEW m \in a[2]..b[2], <<a[1], m>> \notin seen'
               PROVE  \E w \in Found' : <<a[1], m>> \in Missing(w)
    BY DEF GapsFound, Found
  <2>1. /\ a \in Candles /\ b \in Candles
        /\ a[1] \in Keys /\ a[2] \in 1..MaxCandle /\ b[2] \in 1..MaxCandle
        /\ m \in Nat /\ a[2] <= m /\ m <= b[2]
    BY <1>2, <1>9 DEF Shape, Candles
  <2>2. CASE a \in seen /\ b \in seen
    BY <1>4, <1>6, <2>2 DEF GapsFound, Found
  <2>3. CASE ~(a \in seen /\ b \in seen)
    <3>1. a[1] = k /\ m <= n /\ m /= n
      <4>1. a[1] = k
        BY <1>2, <1>4, <2>3
      <4>2. b[2] <= n
        BY <1>5, <1>13, <2>1, <4>1 DEF Remembers
      <4>3. m /= n
        BY <1>2, <1>4, <4>1
      <4> QED
        BY <1>2, <2>1, <4>1, <4>2, <4>3
    <3>2. a \in seen /\ a[2] <= p /\ p /= 0
      <4>1. a /= c
        BY <1>2, <2>1, <3>1 DEF n
      <4>2. a \in seen
        BY <1>4, <4>1
      <4> QED
        BY <1>2, <2>1, <3>1, <4>2 DEF Remembers, p
    <3>3. <<k, p>> \in seen
      BY <1>2, <3>2 DEF Remembers, p
    <3>4. CASE m <= p
      <4>1. m \in a[2]..p
        BY <1>2, <2>1, <3>4
      <4>2. <<a[1], m>> \in seen \/ \E w \in Found : <<a[1], m>> \in Missing(w)
        <5>1. \A x, y \in seen : x[1] = y[1] =>
                \A i \in x[2]..y[2] : <<x[1], i>> \in seen
                                      \/ \E w \in Found : <<x[1], i>> \in Missing(w)
          BY DEF GapsFound, Found
        <5>2. <<k, p>>[1] = a[1] /\ <<k, p>>[2] = p
          BY <3>1
        <5> QED
          BY <3>2, <3>3, <4>1, <5>1, <5>2
      <4> QED
        BY <1>4, <1>6, <4>2
    <3>5. CASE p < m
      <4>1. g \in Found' /\ g \in Windows
        BY <1>2, <1>6, <1>7, <1>8, <2>1, <3>1, <3>2, <3>5
      <4>2. <<a[1], m>> \in Missing(g)
        BY <1>2, <1>8, <2>1, <3>1, <3>5, <4>1, MissingMember
      <4> QED
        BY <4>1, <4>2
    <3> QED
      BY <1>2, <2>1, <3>4, <3>5
  <2> QED
    BY <2>2, <2>3
<1>16. NamedOnce'
  <2>1. ASSUME NEW w \in Found
        PROVE  /\ Missing(w) \cap seen' = {} /\ Missing(w) /= {}
               /\ Missing(w) \cap Missing(g) = {} \/ Gap(k, p, n) = {}
    <3>1. w \in Windows /\ w.key \in Keys /\ w.to \in Nat
      BY <2>1 DEF Shape, Windows
    <3>2. Missing(w) \cap seen = {} /\ Missing(w) /= {}
      BY DEF NamedOnce, Found
    <3>3. c \notin Missing(w)
      BY <1>2, <1>3, <2>1, <3>1, MissingMember DEF Windows
    <3>4. ASSUME NEW x \in Missing(w), x \in Missing(g), Gap(k, p, n) /= {}
          PROVE  FALSE
      <4>1. g \in Windows /\ p /= 0
        BY <1>7, <1>8, <3>4
      <4>2. w.key = k /\ x[2] \in w.from..(w.to - 1) /\ x[2] \in (p + 1)..(n - 1)
        BY <1>8, <3>1, <3>4, <4>1, MissingPairs
      <4>3. w.to <= p
        BY <2>1, <4>1, <4>2 DEF Behind, p
      <4> QED
        BY <1>2, <3>1, <4>2, <4>3 DEF Windows
    <3> QED
      BY <1>4, <3>2, <3>3, <3>4
  <2>2. ASSUME NEW w \in Gap(k, p, n)
        PROVE  Missing(w) \cap seen' = {} /\ Missing(w) /= {}
    <3>1. w \in Windows /\ w = g /\ p /= 0 /\ p + 1 < n
      BY <1>7, <1>8, <2>2
    <3>2. ASSUME NEW x \in Missing(w), x \in seen'
          PROVE  FALSE
      <4>1. x = <<k, x[2]>> /\ x[2] \in (p + 1)..(n - 1)
        BY <1>8, <3>1, <3>2, MissingPairs
      <4>2. x \in seen
        BY <1>2, <1>4, <3>2, <4>1
      <4>3. x[2] <= p
        BY <4>1, <4>2 DEF Remembers, p
      <4> QED
        BY <1>2, <4>1, <4>3
    <3>3. <<k, p + 1>> \in Missing(w)
      BY <1>2, <1>8, <3>1, MissingMember
    <3> QED
      BY <3>2, <3>3
  <2>3. \A v, w \in Found : v /= w => Missing(v) \cap Missing(w) = {}
    BY DEF NamedOnce, Found
  <2>4. \A w \in Found' : Missing(w) \cap seen' = {} /\ Missing(w) /= {}
    BY <1>6, <2>1, <2>2
  <2>5. ASSUME NEW v \in Found', NEW w \in Found', v /= w
        PROVE  Missing(v) \cap Missing(w) = {}
    BY <1>6, <1>8, <2>1, <2>3, <2>5
  <2> QED
    BY <2>4, <2>5 DEF NamedOnce, Found
<1>17. RevealedFirst'
  <2>1. ASSUME NEW w \in Found'
        PROVE  <<w.key, w.to>> \in published'
    BY <1>2, <1>4, <1>6, <1>7, <2>1 DEF RevealedFirst, Found
  <2> QED
    BY <2>1 DEF RevealedFirst, Found
<1> QED
  BY <1>9, <1>10, <1>11, <1>12, <1>13, <1>14, <1>15, <1>16, <1>17

\* A new process knows nothing, and the windows found before stay behind all
\* that it can be shown.
LEMMA CrashStep ==
  ASSUME GapInv, Crash
  PROVE  GapInv'
<1> USE DEF GapInv
<1>1. /\ stream' = <<>> /\ event' = {} /\ window' = {} /\ seen' = {}
      /\ last' = [k \in Keys |-> 0] /\ closed' = closed
      /\ published \subseteq published' /\ Found' = Found
  BY DEF Crash, Found
<1>2. Pending' = {}
  BY <1>1, RangeEmpty DEF Pending
<1>3. Shape'
  BY <1>1, IngestorAssumption DEF Shape
<1>4. OneInHand' /\ Ordered' /\ Ahead'
  BY <1>1, <1>2 DEF OneInHand, Ordered, KeyOrdered, Ahead
<1>5. Remembers'
  BY <1>1 DEF Shape, Remembers
<1>6. Behind'
  BY <1>1 DEF Shape, Behind, Windows
<1>7. GapsFound'
  BY <1>1 DEF GapsFound
<1>8. NamedOnce' /\ RevealedFirst'
  BY <1>1 DEF NamedOnce, RevealedFirst, Found
<1> QED
  BY <1>3, <1>4, <1>5, <1>6, <1>7, <1>8

LEMMA GapStep == GapInv /\ [Next]_vars => GapInv'
<1> SUFFICES ASSUME GapInv, [Next]_vars PROVE GapInv'
  OBVIOUS
<1>1. stream \in Seq(Candles) /\ <<>> \in Seq(Candles) /\ KeyOrdered(<<>>)
  BY DEF GapInv, Shape, KeyOrdered
<1>2. ASSUME NEW k \in Keys, CloseCandle(k)
      PROVE  GapInv'
  BY <1>2, CloseCandleStep
<1>3. ASSUME UNCHANGED <<closed, stream, event, detector, bus>>,
             window' = window, stage' /= "gap" => window = {},
             stage' /= "kline" => event = {}
      PROVE  GapInv'
  <2>1. Quiet
    BY <1>3 DEF GapInv, Shape, Quiet, Found, bus
  <2>2. Ordered' /\ OneInHand' /\ Pending' = Pending
    BY <1>3 DEF GapInv, Ordered, OneInHand, Pending
  <2> QED
    BY <1>1, <1>3, <2>1, <2>2, DropStep
<1>4. CASE Start \/ Connect \/ Wake \/ LinkDies \/ UNCHANGED vars
  <2>1. window' = window /\ UNCHANGED <<closed, stream, event, detector, bus>>
    BY <1>4 DEF Start, Connect, Wake, LinkDies, vars, inHand, detector, bus
  <2>2. stage' /= "gap" => window = {}
    BY <1>4 DEF Start, Connect, Wake, LinkDies, vars, GapInv, OneInHand
  <2>3. stage' /= "kline" => event = {}
    BY <1>4 DEF Start, Connect, Wake, LinkDies, vars, GapInv, OneInHand
  <2> QED
    BY <1>3, <2>1, <2>2, <2>3
<1>5. CASE Rotate
  <2>1. Quiet
    BY <1>5 DEF Rotate, GapInv, Shape, Quiet, Found, inHand, bus
  <2>2. Ordered' /\ OneInHand' /\ Pending' \subseteq Pending
    BY <1>1, <1>5, RangeEmpty
       DEF Rotate, GapInv, Ordered, OneInHand, Pending, inHand
  <2> QED
    BY <1>1, <1>5, <2>1, <2>2, DropStep DEF Rotate
<1>6. CASE ReceiveClosed \/ ReceiveMalformed
  BY <1>6, ReceiveStep DEF ReceiveClosed, ReceiveMalformed, inHand, detector, bus
<1>7. CASE PublishClosed
  <2>1. CASE GapDetection
    BY <1>7, <2>1, DetectStep
  <2>2. CASE ~GapDetection
    <3>1. /\ window = {} /\ window' = {} /\ event' = {} /\ stage' = "open"
          /\ published \subseteq published'
          /\ UNCHANGED <<closed, stream, detector, announced, lost>>
      BY <1>7, <2>2 DEF PublishClosed, GapInv, OneInHand
    <3>2. Quiet
      BY <3>1 DEF GapInv, Shape, Quiet, Found
    <3>3. Ordered' /\ OneInHand' /\ Pending' \subseteq Pending
      BY <3>1 DEF GapInv, Ordered, OneInHand, Pending
    <3> QED
      BY <1>1, <3>1, <3>2, <3>3, DropStep
  <2> QED
    BY <2>1, <2>2
<1>8. CASE PublishGap
  <2>1. Quiet
    BY <1>8 DEF PublishGap, GapInv, Shape, Quiet, Found
  <2>2. Ordered' /\ OneInHand' /\ Pending' = Pending
    BY <1>8 DEF PublishGap, GapInv, Ordered, OneInHand, Pending
  <2> QED
    BY <1>1, <1>8, <2>1, <2>2, DropStep DEF PublishGap
<1>9. CASE StreamError \/ ConnectError \/ TickBusError \/ KlineBusError \/ GapBusError
  <2>1. Fail
    BY <1>9 DEF StreamError, ConnectError, TickBusError, KlineBusError, GapBusError
  <2>2. published \subseteq published'
    BY <1>9 DEF StreamError, ConnectError, TickBusError, KlineBusError, GapBusError, bus
  <2>3. Found' = Found
    <3>1. CASE GapBusError
      BY <3>1 DEF GapBusError, Fail, Found
    <3>2. CASE ~GapBusError
      <4>1. stage /= "gap"
        BY <1>9, <3>2 DEF StreamError, ConnectError, TickBusError, KlineBusError
      <4>2. window = {} /\ window' = {}
        BY <2>1, <4>1 DEF GapInv, OneInHand, Fail
      <4>3. UNCHANGED <<announced, lost>>
        BY <1>9, <3>2
           DEF StreamError, ConnectError, TickBusError, KlineBusError, bus
      <4> QED
        BY <4>2, <4>3 DEF Found
    <3> QED
      BY <3>1, <3>2
  <2> QED
    BY <2>1, <2>2, <2>3, FailStep
<1>10. CASE Crash
  BY <1>10, CrashStep
<1> QED
  BY <1>2, <1>4, <1>5, <1>6, <1>7, <1>8, <1>9, <1>10 DEF Next

\* The inductive invariant holds.
THEOREM IngestorInvariant == Spec => []GapInv
BY InitGap, GapStep, PTL DEF Spec

\* A candle the process skipped between two that it handled is always named by
\* a window, for any interleaving of the keys and any sequence of failures.
THEOREM NothingOverlooked == Spec => []GapsFound
<1>1. GapInv => GapsFound
  BY DEF GapInv
<1> QED
  BY <1>1, IngestorInvariant, PTL

\* A window names only candles the detector never saw, no two windows name the
\* same one, not even across restarts, and the candle that revealed it was
\* published before it was found.
THEOREM NothingInvented == Spec => []GapsAreReal
<1>1. GapInv => GapsAreReal
  BY DEF GapInv, GapsAreReal
<1> QED
  BY <1>1, IngestorInvariant, PTL

-----------------------------------------------------------------------------
\* What TypeOK says beside Shape.  Every failure that is counted has a fault of
\* its own, also the one that a peer which went away leads to only later; so the
\* counter stays within the bound on faults.
Control ==
  /\ link \in {"up", "dead"} /\ stage \in Stages
  /\ published \subseteq Candles
  /\ sleep \in 0..ReconnectMax
  /\ faults \in 0..MaxFaults

Counted ==
  /\ attempt \in Nat /\ attempt <= faults
  /\ stage \in Connected /\ link = "dead" => attempt < faults

\* A finite set of a members has 2^a subsets.
LEMMA PowerNat == ASSUME NEW a \in Nat PROVE 2^a \in Nat
<1>1. IsFiniteSet(1..a) /\ Cardinality(1..a) = a
  BY FS_Interval
<1>2. IsFiniteSet(SUBSET (1..a)) /\ Cardinality(SUBSET (1..a)) = 2^a
  BY <1>1, FS_SUBSET
<1> QED
  BY <1>2, FS_CardinalityType

LEMMA BackoffBounded ==
  ASSUME NEW a \in Nat
  PROVE  Backoff(a) \in 0..ReconnectMax
<1> DEFINE p == 2^a
<1>1. p \in Nat
  BY PowerNat
<1>2. Backoff(a) = IF p < ReconnectMax THEN p ELSE ReconnectMax
  BY DEF Backoff
<1> HIDE DEF p
<1> QED
  BY <1>1, <1>2, IngestorAssumption

LEMMA InitControl == Init => Control /\ Counted
BY IngestorAssumption DEF Init, Control, Counted, Stages, Connected

LEMMA ControlTypes == GapInv /\ Control /\ Counted => TypeOK
<1> SUFFICES ASSUME GapInv, Control, Counted PROVE TypeOK
  OBVIOUS
<1>1. attempt \in 0..MaxFaults
  BY IngestorAssumption DEF Control, Counted
<1> QED
  BY <1>1 DEF GapInv, Shape, Found, Control, TypeOK

LEMMA ControlStep ==
  ASSUME GapInv, Control, Counted, [Next]_vars
  PROVE  Control' /\ Counted'
<1> USE IngestorAssumption DEF Control, Counted, Stages, Connected
<1>1. event \subseteq Candles
  BY DEF GapInv, Shape
<1>2. ASSUME NEW kind, Fault(kind)
      PROVE  faults' = faults + 1 /\ faults' \in 0..MaxFaults
  BY <1>2 DEF Fault
<1>3. ASSUME Fail, attempt < faults', faults' \in 0..MaxFaults,
             published' \subseteq Candles
      PROVE  Control' /\ Counted'
  <2>1. attempt' = attempt + 1 /\ attempt' \in Nat /\ sleep' = Backoff(attempt')
    BY <1>3 DEF Fail
  <2>2. sleep' \in 0..ReconnectMax
    BY <2>1, BackoffBounded
  <2> QED
    BY <1>3, <2>1, <2>2 DEF Fail
<1>4. CASE \E k \in Keys : CloseCandle(k)
  BY <1>4 DEF CloseCandle, retry, bus
<1>5. CASE Start \/ Connect \/ Rotate \/ Wake
  BY <1>5 DEF Start, Connect, Rotate, Wake, retry, bus
<1>6. CASE ReceiveClosed \/ PublishGap
  BY <1>6 DEF ReceiveClosed, PublishGap, retry, bus
<1>7. CASE ReceiveMalformed
  BY <1>2, <1>7 DEF ReceiveMalformed, retry, bus
<1>8. CASE PublishClosed
  BY <1>1, <1>8 DEF PublishClosed, retry
<1>9. CASE LinkDies
  BY <1>2, <1>9 DEF LinkDies, retry, bus
<1>10. CASE StreamError
  <2>1. Fail /\ attempt < faults /\ UNCHANGED <<published, faults>>
    BY <1>10 DEF StreamError, Noticed, bus
  <2> QED
    BY <1>3, <2>1
<1>11. CASE TickBusError \/ ConnectError \/ KlineBusError \/ GapBusError
  <2>1. Fail /\ \E kind \in {"bus", "connect"} : Fault(kind)
    BY <1>11 DEF TickBusError, ConnectError, KlineBusError, GapBusError
  <2>2. published' \subseteq Candles
    BY <1>1, <1>11 DEF TickBusError, ConnectError, KlineBusError, GapBusError, bus
  <2>3. attempt < faults' /\ faults' \in 0..MaxFaults
    BY <1>2, <2>1
  <2> QED
    BY <1>3, <2>1, <2>2, <2>3
<1>12. CASE Crash
  <2>1. faults' \in 0..MaxFaults /\ faults' = faults + 1
    BY <1>2, <1>12 DEF Crash
  <2> QED
    BY <1>1, <1>12, <2>1 DEF Crash
<1>13. CASE UNCHANGED vars
  BY <1>13 DEF vars
<1> QED
  BY <1>4, <1>5, <1>6, <1>7, <1>8, <1>9, <1>10, <1>11, <1>12, <1>13 DEF Next

\* Every variable keeps its type, no sleep is longer than the settings allow,
\* and no more failures are counted than the surroundings had.
THEOREM IngestorTyped == Spec => []TypeOK
<1>1. Init => Control /\ Counted
  BY InitControl
<1>2. GapInv /\ (Control /\ Counted) /\ [Next]_vars => (Control /\ Counted)'
  BY ControlStep
<1>3. GapInv /\ (Control /\ Counted) => TypeOK
  BY ControlTypes
<1> QED
  BY <1>1, <1>2, <1>3, IngestorInvariant, PTL DEF Spec
=============================================================================
