---------------------------- MODULE GapFillProofs ----------------------------
(***************************************************************************)
(* What the gap fill worker promises of klines and of what it publishes:   *)
(* proofs of TypeOK, SentStored, RecoveredStays and TailFilled for any     *)
(* windows, any live candles and any number of faults.                     *)
(*                                                                         *)
(* SentStored and TailFilled are not inductive.  What is published, and    *)
(* how much of a window, depends on what the worker holds between the      *)
(* commit and the last publication: candles still to be published have     *)
(* been stored (Stored), and they, the published ones and those whose row  *)
(* came short are all that the API returned for the window in hand         *)
(* (Sending).                                                              *)
(***************************************************************************)
EXTENDS GapFill, SequenceTheorems, FiniteSetTheorems, TLAPS

\* There is a window in hand exactly from its receipt to its settlement.
InHand ==
  /\ \A v, w \in gap : v = w
  /\ stage \in {"fetch", "pause", "save", "send"} <=> gap /= {}
  /\ stage \in {"down", "connecting", "listen", "exit", "fetch", "pause"} => queue = {}
  /\ stage = "save" => queue = {}

\* Candles published or about to be are in the table as recovered ones.
Stored == \A c \in sent \cup queue : klines[c] = "recovered"

Sending ==
  \A w \in gap : /\ stage \in {"save", "send"} => Returned(w) \subseteq rows \cup short[w]
                 /\ stage = "send" => rows \subseteq sent \cup queue

FillInv == TypeOK /\ InHand /\ Stored

-----------------------------------------------------------------------------
LEMMA ReturnedCandles ==
  ASSUME NEW w \in Windows
  PROVE  Returned(w) \subseteq Candles
<1>1. w.key \in Keys
  BY GapFillAssumption
<1>2. Selected(w) \subseteq 1..MaxCandle
  BY DEF Selected
<1> HIDE DEF Selected
<1>3. \A c \in Returned(w) : \E n \in Selected(w) : c = <<w.key, n>>
  BY DEF Returned
<1> QED
  BY <1>1, <1>2, <1>3 DEF Candles

LEMMA DueQueued == Due \subseteq queue
BY DEF Due

\* An upsert of the worker makes its rows recovered and leaves the others alone.
LEMMA UpsertRecovers ==
  ASSUME klines \in [Candles -> {"none", "live", "recovered"}]
  PROVE  /\ Upsert \in [Candles -> {"none", "live", "recovered"}]
         /\ \A c \in Candles : klines[c] = "recovered" => Upsert[c] = "recovered"
         /\ \A c \in rows \cap Candles : Upsert[c] = "recovered"
BY DEF Upsert

LEMMA InsertLiveKeeps ==
  ASSUME klines \in [Candles -> {"none", "live", "recovered"}], NEW d \in Candles
  PROVE  /\ InsertLive(d) \in [Candles -> {"none", "live", "recovered"}]
         /\ \A c \in Candles : klines[c] = "recovered" => InsertLive(d)[c] = "recovered"
BY DEF InsertLive

LEMMA FaultTyped ==
  ASSUME TypeOK, NEW kind, Fault(kind)
  PROVE  faults' \in 0..MaxFaults
BY GapFillAssumption DEF TypeOK, Fault

LEMMA SettleTyped ==
  ASSUME TypeOK, NEW next \in Stages, NEW f \in Fates, Settle(next, f)
  PROVE  /\ stage' \in Stages /\ gap' \subseteq Windows /\ tries' \in 0..(Attempts - 1)
         /\ rows' \subseteq Candles /\ fate' \in [Windows -> Fates]
BY DEF TypeOK, Settle, Attempts

LEMMA TakeTyped ==
  ASSUME TypeOK, NEW w \in Windows, NEW whole \in SUBSET Returned(w), Take(w, whole)
  PROVE  /\ stage' \in Stages /\ gap' \subseteq Windows /\ tries' \in 0..(Attempts - 1)
         /\ rows' \subseteq Candles /\ fate' \in [Windows -> Fates]
         /\ short' \in [Windows -> SUBSET Candles]
<1>1. Returned(w) \subseteq Candles
  BY ReturnedCandles
<1> QED
  BY <1>1 DEF TypeOK, Take, Stages

LEMMA IdsTyped ==
  ASSUME TypeOK, NEW k \in Keys, NEW committed \in BOOLEAN
  PROVE  IdsAfter(k, committed) \in [Keys -> {"none", "valid", "dangling"}]
BY DEF TypeOK, IdsAfter

LEMMA MaybeCommitTyped ==
  ASSUME TypeOK, MaybeCommit
  PROVE  /\ dims' \subseteq Keys
         /\ klines' \in [Candles -> {"none", "live", "recovered"}]
         /\ \A c \in Candles : klines[c] = "recovered" => klines'[c] = "recovered"
<1>1. CASE UNCHANGED tables
  BY <1>1 DEF tables, TypeOK
<1>2. CASE /\ \E w \in gap : ids[w.key] /= "dangling" /\ dims' = dims \cup {w.key}
           /\ klines' = Upsert
  <2>1. \A w \in gap : w.key \in Keys
    BY GapFillAssumption DEF TypeOK
  <2> QED
    BY <1>2, <2>1, UpsertRecovers DEF TypeOK
<1> QED
  BY <1>1, <1>2 DEF MaybeCommit

-----------------------------------------------------------------------------
LEMMA InitTyped == Init => TypeOK
BY GapFillAssumption DEF Init, TypeOK, Stages, Fates, Attempts

LEMMA NextTyped == TypeOK /\ [Next]_vars => TypeOK'
<1> SUFFICES ASSUME TypeOK, [Next]_vars
             PROVE  TypeOK'
  OBVIOUS
<1> USE DEF hand, tables, history
<1>1. ASSUME NEW w \in Windows, Announce(w)
      PROVE  TypeOK'
  <2>1. inbox' \in Seq(Windows)
    <3>1. inbox \in Seq(Windows) /\ (inbox' = inbox \/ inbox' = Append(inbox, w))
      BY <1>1 DEF Announce, TypeOK
    <3> QED
      BY <3>1
  <2>2. fate' \in [Windows -> Fates]
    BY <1>1 DEF Announce, TypeOK, Fates
  <2>3. UNCHANGED <<stage, gap, tries, rows, queue, ids, dims, klines, sent, short, faults>>
    BY <1>1 DEF Announce
  <2> QED
    BY <2>1, <2>2, <2>3 DEF TypeOK
<1>2. ASSUME NEW c \in Candles, StoreLive(c)
      PROVE  TypeOK'
  <2>1. c[1] \in Keys
    BY DEF Candles
  <2> QED
    BY <1>2, <2>1, InsertLiveKeeps DEF StoreLive, TypeOK
<1>3. CASE Subscribe \/ StartUp \/ PauseEnds
  BY <1>3 DEF Subscribe, StartUp, PauseEnds, TypeOK, Stages
<1>4. CASE Receive
  BY <1>4 DEF Receive, TypeOK, Stages
<1>5. CASE Fetched
  <2>1. PICK w \in gap : IF Returned(w) = {}
                           THEN Settle("listen", "empty") /\ UNCHANGED short
                           ELSE Take(w, Returned(w))
    BY <1>5 DEF Fetched
  <2>2. UNCHANGED <<inbox, queue, ids, dims, klines, sent, faults>>
    BY <1>5 DEF Fetched
  <2>3. CASE Returned(w) = {}
    <3>1. Settle("listen", "empty") /\ UNCHANGED short
      BY <2>1, <2>3
    <3> QED
      BY <2>2, <3>1, SettleTyped DEF TypeOK, Stages, Fates
  <2>4. CASE Returned(w) /= {}
    <3>1. w \in Windows /\ Take(w, Returned(w))
      BY <2>1, <2>4 DEF TypeOK
    <3> QED
      BY <2>2, <3>1, TakeTyped DEF TypeOK
  <2> QED
    BY <2>3, <2>4
<1>51. CASE FetchedShort
  <2>1. PICK w \in gap : \E whole \in SUBSET Returned(w) : Take(w, whole)
    BY <1>51 DEF FetchedShort
  <2>2. UNCHANGED <<inbox, queue, ids, dims, klines, sent>> /\ faults' \in 0..MaxFaults
    BY <1>51, FaultTyped DEF FetchedShort
  <2>3. w \in Windows
    BY DEF TypeOK
  <2> QED
    BY <2>1, <2>2, <2>3, TakeTyped DEF TypeOK
<1>52. CASE FetchedOther
  <2>1. Settle("listen", "garbled") /\ faults' \in 0..MaxFaults
    BY <1>52, FaultTyped DEF FetchedOther
  <2> QED
    BY <1>52, <2>1, SettleTyped DEF FetchedOther, TypeOK, Stages, Fates
<1>6. CASE FetchBusy
  <2>1. UNCHANGED <<inbox, queue, ids, dims, klines, sent, short, faults>>
    BY <1>6 DEF FetchBusy
  <2>2. CASE LastAttempt
    <3>1. Settle("listen", "dropped")
      BY <1>6, <2>2 DEF FetchBusy
    <3> QED
      BY <2>1, <3>1, SettleTyped DEF TypeOK, Stages, Fates
  <2>3. CASE ~LastAttempt
    <3>1. /\ tries' = tries + 1 /\ stage' = "pause"
          /\ UNCHANGED <<gap, rows, fate>>
      BY <1>6, <2>3 DEF FetchBusy, TriesAfter
    <3>2. tries' \in 0..(Attempts - 1)
      BY <2>3, <3>1 DEF LastAttempt, TriesAfter, Attempts, TypeOK
    <3> QED
      BY <2>1, <3>1, <3>2 DEF TypeOK, Stages
  <2> QED
    BY <2>2, <2>3
<1>7. CASE FetchRefused
  <2>1. Settle("listen", "dropped") /\ faults' \in 0..MaxFaults
    BY <1>7, FaultTyped DEF FetchRefused
  <2> QED
    BY <1>7, <2>1, SettleTyped DEF FetchRefused, TypeOK, Stages, Fates
<1>8. CASE Save
  <2>1. \A w \in gap : w.key \in Keys
    BY GapFillAssumption DEF TypeOK
  <2>2. ids' \in [Keys -> {"none", "valid", "dangling"}] /\ dims' \subseteq Keys
    BY <1>8, <2>1, IdsTyped DEF Save, TypeOK
  <2>3. /\ klines' \in [Candles -> {"none", "live", "recovered"}]
        /\ queue' \subseteq Candles /\ UNCHANGED <<inbox, sent, short, faults>>
    BY <1>8, UpsertRecovers DEF Save, TypeOK
  <2>4. CASE Settle("listen", "filled")
    BY <2>2, <2>3, <2>4, SettleTyped DEF TypeOK, Stages, Fates
  <2>5. CASE stage' = "send" /\ UNCHANGED <<hand, fate>>
    BY <2>2, <2>3, <2>5 DEF TypeOK, Stages
  <2> QED
    BY <1>8, <2>4, <2>5 DEF Save
<1>9. CASE SaveBadRow
  <2>1. \A w \in gap : w.key \in Keys
    BY GapFillAssumption DEF TypeOK
  <2>2. ids' \in [Keys -> {"none", "valid", "dangling"}]
    BY <1>9, <2>1, IdsTyped DEF SaveBadRow
  <2>3. Settle("listen", "dropped") /\ faults' \in 0..MaxFaults
    BY <1>9, FaultTyped DEF SaveBadRow
  <2> QED
    BY <1>9, <2>2, <2>3, SettleTyped DEF SaveBadRow, TypeOK, Stages, Fates
<1>10. CASE SaveViolates
  <2>1. Settle("exit", "failed")
    BY <1>10 DEF SaveViolates
  <2> QED
    BY <1>10, <2>1, SettleTyped DEF SaveViolates, TypeOK, Stages, Fates
<1>11. CASE SaveError
  <2>1. Settle("exit", "failed") /\ faults' \in 0..MaxFaults /\ MaybeCommit
    BY <1>11, FaultTyped DEF SaveError
  <2> QED
    BY <1>11, <2>1, SettleTyped, MaybeCommitTyped DEF SaveError, TypeOK, Stages, Fates
<1>12. CASE Send
  <2>1. /\ sent' \subseteq Candles /\ queue' \subseteq Candles
        /\ UNCHANGED <<inbox, ids, dims, klines, short, faults>>
    BY <1>12, DueQueued DEF Send, TypeOK
  <2>2. CASE Settle("listen", "filled")
    BY <2>1, <2>2, SettleTyped DEF TypeOK, Stages, Fates
  <2>3. CASE UNCHANGED <<stage, hand, fate>>
    BY <2>1, <2>3 DEF TypeOK
  <2> QED
    BY <1>12, <2>2, <2>3 DEF Send
<1>13. CASE SendError
  <2>1. /\ Settle("exit", "unsent") /\ faults' \in 0..MaxFaults
        /\ sent' \subseteq Candles /\ queue' \subseteq Candles
        /\ UNCHANGED <<inbox, ids, dims, klines, short>>
    BY <1>13, FaultTyped, DueQueued DEF SendError, TypeOK
  <2> QED
    BY <2>1, SettleTyped DEF TypeOK, Stages, Fates
<1>14. CASE ListenError \/ ConnectError
  BY <1>14, FaultTyped DEF ListenError, ConnectError, TypeOK, Stages
<1>15. CASE Exit
  BY <1>15 DEF Exit, TypeOK, Stages, Fates
<1>16. CASE Crash
  <2>1. /\ dims' \subseteq Keys
        /\ klines' \in [Candles -> {"none", "live", "recovered"}]
    BY <1>16, MaybeCommitTyped DEF Crash, TypeOK
  <2>2. faults' \in 0..MaxFaults /\ sent' \subseteq Candles
    BY <1>16, FaultTyped, DueQueued DEF Crash, TypeOK
  <2>3. fate' \in [Windows -> Fates]
    BY <1>16 DEF Crash, TypeOK, Fates
  <2> QED
    BY <1>16, <2>1, <2>2, <2>3 DEF Crash, TypeOK, Stages, Attempts
<1>17. CASE UNCHANGED vars
  BY <1>17 DEF vars, TypeOK
<1> QED
  BY <1>1, <1>2, <1>3, <1>4, <1>5, <1>51, <1>52, <1>6, <1>7, <1>8, <1>9, <1>10,
     <1>11, <1>12, <1>13, <1>14, <1>15, <1>16, <1>17 DEF Next, Work

-----------------------------------------------------------------------------
\* The table as one step leaves it: a recovered row stays one.
LEMMA NextKlines ==
  ASSUME TypeOK, [Next]_vars
  PROVE  \A c \in Candles : klines[c] = "recovered" => klines'[c] = "recovered"
<1>1. CASE UNCHANGED klines
  BY <1>1
<1>2. CASE ~UNCHANGED klines
  <2>1. \/ \E d \in Candles : klines' = InsertLive(d)
        \/ klines' = Upsert
        \/ MaybeCommit
    BY <1>2
       DEF Next, Work, vars, hand, tables, history, Announce, StoreLive, Subscribe,
           StartUp, Receive, Fetched, FetchedShort, FetchedOther, Take,
           FetchBusy, PauseEnds, FetchRefused, Save,
           SaveBadRow, SaveViolates, SaveError, Send, SendError, ListenError,
           ConnectError, Exit, Crash
  <2> QED
    BY <2>1, InsertLiveKeeps, UpsertRecovers, MaybeCommitTyped DEF TypeOK
<1> QED
  BY <1>1, <1>2

LEMMA InitHeld == Init => InHand /\ Stored /\ Sending
BY DEF Init, InHand, Stored, Sending

\* What the worker holds, through its receipt, its settlement and every way the
\* process may end.
LEMMA NextInHand == TypeOK /\ InHand /\ [Next]_vars => InHand'
<1> SUFFICES ASSUME TypeOK, InHand, [Next]_vars
             PROVE  InHand'
  OBVIOUS
<1> USE DEF hand, tables, history
<1>1. CASE UNCHANGED <<stage, gap, queue>>
  BY <1>1 DEF InHand
<1>2. CASE Subscribe \/ StartUp \/ PauseEnds \/ Receive
  BY <1>2 DEF Subscribe, StartUp, PauseEnds, Receive, InHand
<1>3. CASE Fetched \/ FetchedShort \/ FetchedOther
  <2>1. stage = "fetch" /\ UNCHANGED queue
    BY <1>3 DEF Fetched, FetchedShort, FetchedOther
  <2>2. \/ Settle("listen", "empty") \/ Settle("listen", "garbled")
        \/ stage' = "save" /\ UNCHANGED gap
    BY <1>3 DEF Fetched, FetchedShort, FetchedOther, Take
  <2> QED
    BY <2>1, <2>2 DEF Settle, InHand
<1>4. CASE FetchBusy
  <2>1. stage = "fetch" /\ UNCHANGED queue
    BY <1>4 DEF FetchBusy
  <2>2. \/ Settle("listen", "dropped")
        \/ stage' = "pause" /\ UNCHANGED gap
    BY <1>4 DEF FetchBusy
  <2> QED
    BY <2>1, <2>2 DEF Settle, InHand
<1>5. CASE FetchRefused \/ SaveBadRow \/ SaveViolates \/ SaveError
  <2>1. /\ Settle("listen", "dropped") \/ Settle("exit", "failed")
        /\ UNCHANGED queue /\ stage \in {"fetch", "save"}
    BY <1>5 DEF FetchRefused, SaveBadRow, SaveViolates, SaveError
  <2> QED
    BY <2>1 DEF Settle, InHand
<1>6. CASE Save
  <2>1. \/ queue' = {} /\ Settle("listen", "filled")
        \/ stage' = "send" /\ UNCHANGED gap
    BY <1>6 DEF Save
  <2>2. stage = "save"
    BY <1>6 DEF Save
  <2> QED
    BY <2>1, <2>2 DEF Settle, InHand
<1>7. CASE Send
  <2>1. \/ queue' = {} /\ Settle("listen", "filled")
        \/ UNCHANGED <<stage, gap>>
    BY <1>7 DEF Send
  <2>2. stage = "send"
    BY <1>7 DEF Send
  <2> QED
    BY <2>1, <2>2 DEF Settle, InHand
<1>8. CASE SendError
  BY <1>8 DEF SendError, Settle, InHand
<1>9. CASE ListenError \/ ConnectError \/ Exit
  BY <1>9 DEF ListenError, ConnectError, Exit, InHand
<1>10. CASE Crash
  BY <1>10 DEF Crash, InHand
<1>11. CASE \/ \E w \in Windows : Announce(w)
            \/ \E c \in Candles : StoreLive(c)
            \/ UNCHANGED vars
  <2>1. UNCHANGED <<stage, gap, queue>>
    BY <1>11 DEF Announce, StoreLive, vars
  <2> QED
    BY <1>1, <2>1
<1> QED
  BY <1>2, <1>3, <1>4, <1>5, <1>6, <1>7, <1>8, <1>9, <1>10, <1>11 DEF Next, Work

\* Only stored candles are queued, and only queued ones published.
LEMMA NextStored == FillInv /\ [Next]_vars => Stored'
<1> SUFFICES ASSUME FillInv, [Next]_vars
             PROVE  Stored'
  OBVIOUS
<1> USE DEF FillInv
<1>1. \A c \in Candles : klines[c] = "recovered" => klines'[c] = "recovered"
  BY NextKlines
<1>2. CASE sent' \cup queue' \subseteq sent \cup queue
  <2>1. sent \cup queue \subseteq Candles
    BY DEF TypeOK
  <2> QED
    BY <1>1, <1>2, <2>1 DEF Stored
<1>3. CASE Save
  <2>1. /\ sent' = sent /\ queue' = rows /\ klines' = Upsert
        /\ rows \subseteq Candles /\ sent \subseteq Candles
    BY <1>3 DEF Save, TypeOK, history
  <2> QED
    BY <1>1, <2>1, UpsertRecovers DEF Stored, TypeOK
<1>4. CASE ~Save
  <2>1. sent' \cup queue' \subseteq sent \cup queue
    BY <1>4, DueQueued
       DEF Next, Work, vars, hand, tables, history, Announce, StoreLive, Subscribe,
           StartUp, Receive, Fetched, FetchedShort, FetchedOther, Take,
           FetchBusy, PauseEnds, FetchRefused,
           SaveBadRow, SaveViolates, SaveError, Send, SendError, ListenError,
           ConnectError, Exit, Crash
  <2> QED
    BY <1>2, <2>1
<1> QED
  BY <1>3, <1>4

-----------------------------------------------------------------------------
\* Types; no window is asked for more than three times (_fetch_gap_klines).
THEOREM WorkerTyped == Spec => []TypeOK
<1> QED
  BY InitTyped, NextTyped, PTL DEF Spec

LEMMA FillInvariant == Spec => []FillInv
<1>1. Init => FillInv
  BY InitTyped, InitHeld DEF FillInv
<1>2. FillInv /\ [Next]_vars => FillInv'
  BY NextTyped, NextInHand, NextStored DEF FillInv
<1> QED
  BY <1>1, <1>2, PTL DEF Spec

\* Whoever is sent a recovered candle finds it in klines: the publication follows
\* the commit, over errors, crashes and retries (_save_and_rebroadcast).
THEOREM PublishedIsStored == Spec => []SentStored
<1>1. FillInv => SentStored
  BY DEF FillInv, Stored, SentStored
<1> QED
  BY <1>1, FillInvariant, PTL

\* A recovered row never turns into a live one, whichever worker writes last
\* (the two ON CONFLICT clauses).
THEOREM RecoveredIsFinal == Spec => RecoveredStays
<1>1. TypeOK /\ [Next]_vars =>
        [\A c \in Candles : klines[c] = "recovered" => klines'[c] = "recovered"]_vars
  BY NextKlines
<1> QED
  BY <1>1, WorkerTyped, PTL DEF Spec, RecoveredStays

-----------------------------------------------------------------------------
\* An API that selects by open time returns all of a window but its first candle,
\* unless the window is longer than a request.
Tail1(w) == {w.key} \X ((w.from + 1)..w.to)

LEMMA TailReturned ==
  ASSUME RestKey = "open", NEW w \in Windows, w.to - w.from <= Limit
  PROVE  Tail1(w) \subseteq Returned(w)
<1>1. /\ w.from \in 1..MaxCandle /\ w.to \in 1..MaxCandle /\ w.from < w.to
      /\ MaxCandle \in Nat /\ Limit \in Nat
  BY GapFillAssumption
<1>2. Selected(w) = (w.from + 1)..w.to
  <2>1. \A n \in 1..MaxCandle :
          CloseTime(w.from) <= RestTime(n) /\ RestTime(n) <= CloseTime(w.to)
            <=> n \in (w.from + 1)..w.to
    BY <1>1 DEF CloseTime, RestTime, OpenTime
  <2>2. (w.from + 1)..w.to \subseteq 1..MaxCandle
    BY <1>1
  <2> QED
    BY <2>1, <2>2 DEF Selected
<1>3. ASSUME NEW n \in (w.from + 1)..w.to
      PROVE  Cardinality({m \in Selected(w) : m < n}) < Limit
  <2> DEFINE below == {m \in Selected(w) : m < n}
             range == (w.from + 1)..(n - 1)
  <2>1. w.from + 1 \in Int /\ n - 1 \in Int /\ n \in Int
    BY <1>1
  <2>2. /\ IsFiniteSet(range)
        /\ Cardinality(range) = IF w.from + 1 > n - 1 THEN 0 ELSE (n - 1) - (w.from + 1) + 1
    BY <2>1, FS_Interval
  <2>3. below \in SUBSET range
    BY <1>1, <1>2
  <2>4. Cardinality(below) <= Cardinality(range)
    <3> HIDE DEF below, range
    <3> QED
      BY <2>2, <2>3, FS_Subset
  <2>5. IsFiniteSet(below) /\ Cardinality(below) \in Nat
    <3> HIDE DEF below, range
    <3> QED
      BY <2>2, <2>3, FS_Subset, FS_CardinalityType
  <2>6. Cardinality(range) < Limit
    <3> HIDE DEF below, range
    <3> QED
      BY <1>1, <2>1, <2>2
  <2>7. Cardinality(range) \in Nat
    <3> HIDE DEF below, range
    <3> QED
      BY <2>2, FS_CardinalityType
  <2> HIDE DEF below, range
  <2>8. Cardinality(below) < Limit
    BY <1>1, <2>4, <2>5, <2>6, <2>7
  <2> QED
    BY <2>8 DEF below
<1>4. \A n \in (w.from + 1)..w.to : <<w.key, n>> \in Returned(w)
  BY <1>2, <1>3 DEF Returned
<1> QED
  BY <1>4 DEF Tail1

LEMMA NextSending == FillInv /\ Sending /\ [Next]_vars => Sending'
<1> SUFFICES ASSUME FillInv, Sending, [Next]_vars,
                    NEW w \in gap', stage' \in {"save", "send"}
             PROVE  /\ Returned(w) \subseteq rows' \cup short'[w]
                    /\ stage' = "send" => rows' \subseteq sent' \cup queue'
  BY DEF Sending
<1> USE DEF hand, tables, history, FillInv
<1>1. CASE UNCHANGED <<stage, gap, rows, sent, queue, short>>
  BY <1>1 DEF Sending
<1>2. CASE Fetched \/ FetchedShort
  <2>1. PICK v \in gap : \E whole \in SUBSET Returned(v) : Take(v, whole)
    <3>1. CASE Fetched
      BY <1>2, <3>1 DEF Fetched, Settle
    <3>2. CASE FetchedShort
      BY <3>2 DEF FetchedShort
    <3> QED
      BY <1>2, <3>1, <3>2
  <2>2. v \in Windows /\ w = v
    BY <2>1 DEF Take, InHand, TypeOK
  <2> QED
    BY <2>1, <2>2 DEF Take, TypeOK
<1>3. CASE Save
  <2>1. /\ stage' = "send" /\ stage = "save" /\ UNCHANGED <<gap, rows, short>>
        /\ queue' = rows
    BY <1>3 DEF Save, Settle
  <2> QED
    BY <2>1 DEF Sending
<1>4. CASE Send
  <2>1. UNCHANGED <<stage, gap, rows, short>>
    BY <1>4 DEF Send, Settle
  <2>2. sent' \cup queue' = sent \cup queue /\ stage = "send"
    BY <1>4, DueQueued DEF Send
  <2> QED
    BY <2>1, <2>2 DEF Sending
<1>5. CASE ~(Fetched \/ FetchedShort \/ Save \/ Send)
  <2>1. \/ UNCHANGED <<stage, gap, rows, sent, queue, short>>
        \/ gap' = {}
        \/ stage' \notin {"save", "send"}
    BY <1>5
       DEF Next, Work, vars, Announce, StoreLive, Subscribe, StartUp, Receive,
           FetchedOther, FetchBusy, PauseEnds, FetchRefused, SaveBadRow,
           SaveViolates, SaveError, SendError, ListenError, ConnectError, Exit,
           Crash, Settle
  <2> QED
    BY <1>1, <2>1
<1> QED
  BY <1>2, <1>3, <1>4, <1>5

\* A window comes to count as filled, or as unsent, only at a publication, and as
\* filled only at the last one; or at a commit that leaves nothing to publish.
LEMMA NextFate ==
  ASSUME FillInv, [Next]_vars, NEW w \in Windows,
         fate'[w] \in {"filled", "unsent"}, fate[w] /= fate'[w]
  PROVE  /\ w \in gap
         /\ \/ stage = "send"
            \/ stage = "save" /\ rows = {}
         /\ fate'[w] = "filled" => queue \subseteq sent'
<1> USE DEF hand, tables, history, FillInv, TypeOK
<1>1. CASE Send
  <2>1. Settle("listen", "filled") /\ queue' = {} /\ stage = "send"
    BY <1>1 DEF Send
  <2>2. queue \subseteq sent'
    BY <1>1, <2>1 DEF Send
  <2> QED
    BY <2>1, <2>2 DEF Settle
<1>2. CASE SendError
  BY <1>2 DEF SendError, Settle
<1>3. CASE Crash
  BY <1>3 DEF Crash
<1>4. CASE Exit
  BY <1>4 DEF Exit
<1>5. CASE \E v \in Windows : Announce(v)
  BY <1>5 DEF Announce
<1>6. CASE Save
  <2>1. Settle("listen", "filled") /\ rows = {} /\ stage = "save"
    BY <1>6 DEF Save
  <2>2. queue = {}
    BY <2>1 DEF InHand
  <2> QED
    BY <2>1, <2>2 DEF Settle
<1>7. CASE ~(\/ Send \/ SendError \/ Crash \/ Exit \/ Save
             \/ \E v \in Windows : Announce(v))
  <2>1. \/ UNCHANGED fate
        \/ Settle("listen", "empty") \/ Settle("listen", "garbled")
        \/ Settle("listen", "dropped") \/ Settle("exit", "failed")
    BY <1>7
       DEF Next, Work, vars, StoreLive, Subscribe, StartUp, Receive, Fetched,
           FetchedShort, FetchedOther, Take, FetchBusy, PauseEnds, FetchRefused,
           SaveBadRow, SaveViolates, SaveError, ListenError, ConnectError
  <2> QED
    BY <2>1 DEF Settle
<1> QED
  BY <1>1, <1>2, <1>3, <1>4, <1>5, <1>6, <1>7

LEMMA SentGrows ==
  ASSUME [Next]_vars
  PROVE  sent \subseteq sent'
BY DEF Next, Work, vars, hand, tables, history, Announce, StoreLive, Subscribe,
       StartUp, Receive, Fetched, FetchedShort, FetchedOther, Take,
           FetchBusy, PauseEnds, FetchRefused, Save,
       SaveBadRow, SaveViolates, SaveError, Send, SendError, ListenError,
       ConnectError, Exit, Crash

\* What came short of a window stays on record.
LEMMA ShortGrows ==
  ASSUME TypeOK, [Next]_vars, NEW w \in Windows
  PROVE  short[w] \subseteq short'[w]
<1>1. CASE UNCHANGED short
  BY <1>1
<1>2. CASE ~UNCHANGED short
  <2>1. \E v \in gap : \E whole : Take(v, whole)
    BY <1>2
       DEF Next, Work, vars, hand, tables, history, Announce, StoreLive, Subscribe,
           StartUp, Receive, Fetched, FetchedShort, FetchedOther, FetchBusy,
           PauseEnds, FetchRefused, Save, SaveBadRow, SaveViolates, SaveError, Send,
           SendError, ListenError, ConnectError, Exit, Crash
  <2> QED
    BY <2>1 DEF Take, TypeOK
<1> QED
  BY <1>1, <1>2

LEMMA NextTailFilled ==
  ASSUME RestKey = "open", FillInv, Sending, TailFilled, [Next]_vars
  PROVE  TailFilled'
<1> SUFFICES ASSUME NEW w \in Windows, w.to - w.from <= Limit,
                    fate'[w] \in {"filled", "unsent"}
             PROVE  /\ \A c \in Tail1(w) \ short'[w] : klines'[c] = "recovered"
                    /\ fate'[w] = "filled" => Tail1(w) \ short'[w] \subseteq sent'
  BY DEF TailFilled, Tail1
<1>1. Tail1(w) \subseteq Returned(w) /\ Tail1(w) \subseteq Candles
  BY TailReturned, ReturnedCandles
<1>2. \A c \in Candles : klines[c] = "recovered" => klines'[c] = "recovered"
  BY NextKlines DEF FillInv
<1>3. short[w] \subseteq short'[w]
  BY ShortGrows DEF FillInv
<1>4. CASE fate[w] = fate'[w]
  <2>1. /\ \A c \in Tail1(w) \ short[w] : klines[c] = "recovered"
        /\ fate[w] = "filled" => Tail1(w) \ short[w] \subseteq sent
    BY <1>4 DEF TailFilled, Tail1
  <2> QED
    BY <1>1, <1>2, <1>3, <1>4, <2>1, SentGrows
<1>5. CASE fate[w] /= fate'[w]
  <2>1. /\ w \in gap
        /\ \/ stage = "send"
           \/ stage = "save" /\ rows = {}
        /\ fate'[w] = "filled" => queue \subseteq sent'
    BY <1>5, NextFate
  <2>2. Tail1(w) \ short[w] \subseteq sent \cup queue
    BY <1>1, <2>1 DEF Sending
  <2> QED
    BY <1>1, <1>2, <1>3, <2>1, <2>2, SentGrows DEF FillInv, Stored
<1> QED
  BY <1>4, <1>5

\* A window that counts as filled is stored as recovered and was published, but
\* for its first candle, for rows that came short of fields and for what exceeds a
\* request: with an API that selects by open time, whatever the other writer does
\* (_fetch_gap_klines and _save_and_rebroadcast).
THEOREM TailsFilled ==
  ASSUME RestKey = "open"
  PROVE  Spec => []TailFilled
<1> DEFINE Inv == FillInv /\ Sending /\ TailFilled
<1>1. Init => Inv
  <2>1. Init => TailFilled
    BY DEF Init, TailFilled
  <2> QED
    BY <2>1, InitTyped, InitHeld DEF FillInv
<1>2. Inv /\ [Next]_vars => Inv'
  BY NextTyped, NextInHand, NextStored, NextSending, NextTailFilled DEF FillInv
<1> QED
  BY <1>1, <1>2, PTL DEF Spec

-----------------------------------------------------------------------------
\* For the composition: the API has a candle for every window, that of its end at
\* least, and a window that was announced stays so.
LEMMA SomethingReturned ==
  ASSUME NEW w \in Windows
  PROVE  Returned(w) /= {}
<1>1. /\ w.from \in 1..MaxCandle /\ w.to \in 1..MaxCandle /\ w.from < w.to
      /\ MaxCandle \in Nat /\ Limit \in Nat \ {0} /\ RestKey \in {"open", "close"}
  BY GapFillAssumption
<1> DEFINE m == IF RestKey = "open" THEN w.from + 1 ELSE w.from
<1>2. m \in Selected(w) /\ \A k \in Selected(w) : k \in Nat /\ m <= k
  BY <1>1 DEF Selected, CloseTime, RestTime, OpenTime
<1> HIDE DEF m
<1>3. {k \in Selected(w) : k < m} = {}
  BY <1>2
<1>4. Cardinality({k \in Selected(w) : k < m}) < Limit
  BY <1>1, <1>3, FS_EmptySet
<1>5. <<w.key, m>> \in Returned(w)
  BY <1>2, <1>4 DEF Returned
<1> QED
  BY <1>5

LEMMA NextBorn ==
  ASSUME TypeOK, [Next]_vars, NEW w \in Windows
  PROVE  /\ fate'[w] = "unborn" => fate[w] = "unborn"
         /\ fate'[w] = "empty" => fate[w] = "empty"
<1> USE DEF hand, tables, history, TypeOK
<1>1. CASE \E v \in Windows : Announce(v)
  BY <1>1 DEF Announce
<1>2. CASE Fetched
  <2>1. UNCHANGED fate
    BY <1>2, SomethingReturned DEF Fetched, Take
  <2> QED
    BY <2>1
<1>3. CASE Exit \/ Crash
  BY <1>3 DEF Exit, Crash
<1>4. CASE ~(Fetched \/ Exit \/ Crash \/ \E v \in Windows : Announce(v))
  <2>1. \/ UNCHANGED fate
        \/ \E next, f : /\ Settle(next, f)
                        /\ f \in {"dropped", "failed", "filled", "unsent", "garbled"}
    BY <1>4
       DEF Next, Work, vars, StoreLive, Subscribe, StartUp, Receive, FetchedShort,
           FetchedOther, Take, FetchBusy, PauseEnds, FetchRefused, Save, SaveBadRow,
           SaveViolates, SaveError, Send, SendError, ListenError, ConnectError
  <2> QED
    BY <2>1 DEF Settle
<1> QED
  BY <1>1, <1>2, <1>3, <1>4

-----------------------------------------------------------------------------
\* The inbox has no window twice, nor the one in hand: a verdict on that one says
\* nothing of those that wait.
Apart ==
  /\ \A i, j \in DOMAIN inbox : inbox[i] = inbox[j] => i = j
  /\ gap \cap Range(inbox) = {}

HeldInv == TypeOK /\ InHand /\ Apart /\ NoneMislaid

LEMMA RangeAppend ==
  ASSUME NEW S, NEW s \in Seq(S), NEW x \in S
  PROVE  Range(Append(s, x)) = Range(s) \cup {x}
BY AppendProperties DEF Range

LEMMA RangeHeadTail ==
  ASSUME NEW S, NEW s \in Seq(S), s /= <<>>
  PROVE  Range(s) = {Head(s)} \cup Range(Tail(s))
<1>1. /\ <<Head(s)>> \in Seq(S) /\ Tail(s) \in Seq(S)
      /\ s = <<Head(s)>> \o Tail(s)
  BY HeadTailProperties
<1>2. DOMAIN <<Head(s)>> = {1}
  OBVIOUS
<1>3. Range(<<Head(s)>>) = {Head(s)}
  BY <1>2 DEF Range
<1>4. Range(<<Head(s)>> \o Tail(s)) = Range(<<Head(s)>>) \cup Range(Tail(s))
  BY <1>1, RangeConcatenation
<1> QED
  BY <1>1, <1>3, <1>4

LEMMA AnnounceHeld ==
  ASSUME HeldInv, NEW w \in Windows, Announce(w)
  PROVE  Apart' /\ NoneMislaid'
<1> USE DEF HeldInv, hand
<1>1. CASE stage = "down"
  <2>1. /\ UNCHANGED <<inbox, gap>> /\ fate[w] = "unborn"
        /\ fate' = [fate EXCEPT ![w] = "missed"]
    BY <1>1 DEF Announce
  <2> QED
    BY <2>1 DEF Apart, NoneMislaid, TypeOK
<1>2. CASE stage /= "down"
  <2>1. /\ UNCHANGED gap /\ fate[w] = "unborn" /\ inbox' = Append(inbox, w)
        /\ fate' = [fate EXCEPT ![w] = "open"]
    BY <1>2 DEF Announce
  <2>2. w \notin gap \cup Range(inbox)
    BY <2>1 DEF NoneMislaid
  <2>3. Range(inbox') = Range(inbox) \cup {w}
    BY <2>1, RangeAppend DEF TypeOK
  <2>4. NoneMislaid'
    BY <2>1, <2>3 DEF NoneMislaid, TypeOK
  <2>5. ASSUME NEW i \in DOMAIN inbox', NEW j \in DOMAIN inbox', inbox'[i] = inbox'[j]
        PROVE  i = j
    <3>1. /\ Len(inbox) \in Nat /\ DOMAIN inbox = 1..Len(inbox)
          /\ DOMAIN inbox' = 1..(Len(inbox) + 1)
          /\ \A k \in 1..Len(inbox) : inbox'[k] = inbox[k] /\ inbox[k] \in Range(inbox)
          /\ inbox'[Len(inbox) + 1] = w
      BY <2>1, AppendProperties DEF TypeOK, Range
    <3> QED
      BY <2>2, <2>5, <3>1 DEF Apart
  <2> QED
    BY <2>1, <2>2, <2>3, <2>4, <2>5 DEF Apart
<1> QED
  BY <1>1, <1>2

LEMMA ReceiveHeld ==
  ASSUME HeldInv, Receive
  PROVE  Apart' /\ NoneMislaid'
<1> USE DEF HeldInv, history
<1>1. /\ gap = {} /\ gap' = {Head(inbox)} /\ inbox' = Tail(inbox)
      /\ UNCHANGED fate /\ inbox /= <<>> /\ inbox \in Seq(Windows)
  BY DEF Receive, InHand, TypeOK
<1>2. gap' \cup Range(inbox') = gap \cup Range(inbox)
  BY <1>1, RangeHeadTail
<1>3. /\ Len(inbox) \in Nat \ {0} /\ DOMAIN inbox = 1..Len(inbox)
      /\ DOMAIN inbox' = 1..(Len(inbox) - 1) /\ Head(inbox) = inbox[1]
      /\ \A k \in 1..(Len(inbox) - 1) : inbox'[k] = inbox[k + 1]
  BY <1>1, HeadTailProperties, EmptySeq
<1>4. \A i, j \in DOMAIN inbox' : inbox'[i] = inbox'[j] => i = j
  <2> SUFFICES ASSUME NEW i \in DOMAIN inbox', NEW j \in DOMAIN inbox',
                      inbox'[i] = inbox'[j]
               PROVE  i = j
    OBVIOUS
  <2>1. /\ i + 1 \in DOMAIN inbox /\ j + 1 \in DOMAIN inbox
        /\ inbox[i + 1] = inbox[j + 1] /\ i \in Int /\ j \in Int
    BY <1>3
  <2>2. i + 1 = j + 1
    BY <2>1 DEF Apart
  <2> QED
    BY <2>1, <2>2
<1>5. Head(inbox) \notin Range(inbox')
  <2> SUFFICES ASSUME NEW k \in DOMAIN inbox', inbox'[k] = inbox[1]
               PROVE  FALSE
    BY <1>3 DEF Range
  <2>1. k + 1 \in DOMAIN inbox /\ 1 \in DOMAIN inbox /\ inbox[k + 1] = inbox[1] /\ k \in 1..(Len(inbox) - 1)
    BY <1>3
  <2>2. k + 1 = 1
    BY <2>1 DEF Apart
  <2> QED
    BY <1>3, <2>1, <2>2
<1> QED
  BY <1>1, <1>2, <1>4, <1>5 DEF Apart, NoneMislaid

LEMMA SettleHeld ==
  ASSUME HeldInv, NEW next, NEW f, Settle(next, f), f /= "open", UNCHANGED inbox
  PROVE  Apart' /\ NoneMislaid'
<1>1. /\ gap' = {} /\ inbox' = inbox
      /\ \A w \in Windows : fate'[w] = IF w \in gap THEN f ELSE fate[w]
  BY DEF Settle
<1> QED
  BY <1>1 DEF HeldInv, Apart, NoneMislaid

\* Messages leave the memory of the process with the process.
LEMMA EndHeld ==
  ASSUME HeldInv, Exit \/ Crash
  PROVE  Apart' /\ NoneMislaid'
<1> USE DEF HeldInv, hand
<1>1. gap' = {} /\ inbox' = <<>>
  BY DEF Exit, Crash, InHand
<1>2. \A w \in Windows : fate'[w] /= "open"
  <2>1. CASE Exit
    <3>1. gap = {}
      BY <2>1 DEF Exit, InHand
    <3>2. \A w \in Windows : fate'[w] = IF w \in Range(inbox) THEN "unread" ELSE fate[w]
      BY <2>1 DEF Exit
    <3> QED
      BY <3>1, <3>2 DEF NoneMislaid
  <2>2. CASE Crash
    BY <2>2 DEF Crash
  <2> QED
    BY <2>1, <2>2
<1>3. DOMAIN inbox' = {} /\ Range(inbox') = {}
  BY <1>1 DEF Range
<1> QED
  BY <1>1, <1>2, <1>3 DEF Apart, NoneMislaid

LEMMA NextHeld == HeldInv /\ [Next]_vars => HeldInv'
<1> SUFFICES ASSUME HeldInv, [Next]_vars
             PROVE  HeldInv'
  OBVIOUS
<1> USE DEF hand, tables, history
<1>1. TypeOK' /\ InHand'
  BY NextTyped, NextInHand DEF HeldInv
<1>2. CASE UNCHANGED <<inbox, gap, fate>>
  BY <1>1, <1>2 DEF HeldInv, Apart, NoneMislaid
<1>3. CASE \E w \in Windows : Announce(w)
  BY <1>1, <1>3, AnnounceHeld DEF HeldInv
<1>4. CASE Receive
  BY <1>1, <1>4, ReceiveHeld DEF HeldInv
<1>5. CASE Exit \/ Crash
  BY <1>1, <1>5, EndHeld DEF HeldInv
<1>6. CASE ~(Receive \/ Exit \/ Crash \/ \E w \in Windows : Announce(w))
  <2>1. \/ UNCHANGED <<inbox, gap, fate>>
        \/ UNCHANGED inbox /\ \E next, f : Settle(next, f) /\ f /= "open"
    <3>1. CASE (\E c \in Candles : StoreLive(c)) \/ UNCHANGED vars
      BY <3>1 DEF StoreLive, vars
    <3>2. CASE Subscribe \/ StartUp \/ PauseEnds \/ ListenError \/ ConnectError
      BY <3>2 DEF Subscribe, StartUp, PauseEnds, ListenError, ConnectError
    <3>3. CASE Fetched \/ FetchedShort \/ FetchedOther \/ FetchBusy
      <4>1. UNCHANGED inbox
        BY <3>3 DEF Fetched, FetchedShort, FetchedOther, FetchBusy
      <4>2. \/ UNCHANGED <<gap, fate>>
            \/ Settle("listen", "empty") \/ Settle("listen", "garbled")
            \/ Settle("listen", "dropped")
        BY <3>3 DEF Fetched, FetchedShort, FetchedOther, Take, FetchBusy
      <4> QED
        BY <4>1, <4>2
    <3>4. CASE Save \/ Send
      <4>1. UNCHANGED inbox
        BY <3>4 DEF Save, Send
      <4>2. UNCHANGED <<gap, fate>> \/ Settle("listen", "filled")
        BY <3>4 DEF Save, Send
      <4> QED
        BY <4>1, <4>2
    <3>5. CASE FetchRefused \/ SaveBadRow \/ SaveViolates \/ SaveError \/ SendError
      <4>1. UNCHANGED inbox
        BY <3>5 DEF FetchRefused, SaveBadRow, SaveViolates, SaveError, SendError
      <4>2. \/ Settle("listen", "dropped") \/ Settle("exit", "failed")
            \/ Settle("exit", "unsent")
        BY <3>5 DEF FetchRefused, SaveBadRow, SaveViolates, SaveError, SendError
      <4> QED
        BY <4>1, <4>2
    <3> QED
      BY <1>6, <3>1, <3>2, <3>3, <3>4, <3>5 DEF Next, Work
  <2> QED
    BY <1>1, <1>2, <2>1, SettleHeld DEF HeldInv
<1> QED
  BY <1>3, <1>4, <1>5, <1>6

\* A window is open exactly while the worker has it in hand or has still to read
\* it, over retries, errors and restarts (run_forever, _fetch_gap_klines, close).
THEOREM EachHasItsPlace == Spec => []NoneMislaid
<1>1. Init => HeldInv
  <2>1. ASSUME Init PROVE DOMAIN inbox = {} /\ Range(inbox) = {}
    BY <2>1 DEF Init, Range
  <2> QED
    BY <2>1, InitTyped, InitHeld DEF HeldInv, Init, Apart, NoneMislaid
<1>2. HeldInv => NoneMislaid
  BY DEF HeldInv
<1> QED
  BY <1>1, <1>2, NextHeld, PTL DEF Spec
=============================================================================
