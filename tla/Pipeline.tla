-------------------------------- MODULE Pipeline --------------------------------
(***************************************************************************)
(* The ingestor and the gap fill worker over one klines table, with Redis  *)
(* pub/sub between them: the publication of a window and its delivery are  *)
(* one step, and Redis keeps nothing for a worker that is not subscribed.  *)
(* The DataSaver worker stores what either of them published.              *)
(***************************************************************************)
EXTENDS Integers, Sequences, FiniteSets, Functions

CONSTANTS
  Keys, MaxCandle, ReconnectMax,     \* of Ingestor
  IngestorFaults, MaxIngestorFaults, \* its FaultKinds and MaxFaults
  RestKey, Limit,                    \* of GapFill
  FillFaults, MaxFillFaults          \* its FaultKinds and MaxFaults

ASSUME PipelineAssumption ==
  /\ MaxCandle \in Nat
  /\ ReconnectMax \in Nat \ {0}
  /\ IngestorFaults \subseteq {"stream", "connect", "malformed", "bus", "crash"}
  /\ MaxIngestorFaults \in Nat
  /\ RestKey \in {"open", "close"}
  /\ Limit \in Nat \ {0}
  /\ FillFaults \subseteq {"busy", "refused", "shape", "row", "db", "bus", "crash"}
  /\ MaxFillFaults \in Nat

VARIABLES
  closed, stream, link, ingesting, attempt, sleep, event, window, last,
  published, announced, lost, seen, ingestorFaults,
  inbox, filling, gap, tries, rows, queue, ids, dims, klines, sent, fate,
  short, fillFaults

ingestor == <<closed, stream, link, ingesting, attempt, sleep, event, window,
              last, published, announced, lost, seen, ingestorFaults>>
filler   == <<inbox, filling, gap, tries, rows, queue, ids, dims, klines, sent,
              fate, short, fillFaults>>
vars     == <<ingestor, filler>>

I == INSTANCE Ingestor WITH
       stage <- ingesting, faults <- ingestorFaults, GapDetection <- TRUE,
       FaultKinds <- IngestorFaults, MaxFaults <- MaxIngestorFaults

Candles == Keys \X (1..MaxCandle)
Windows == {w \in I!Windows : w.from < w.to}

G == INSTANCE GapFill WITH
       stage <- filling, faults <- fillFaults, LiveCandles <- Candles,
       FaultKinds <- FillFaults, MaxFaults <- MaxFillFaults

Init == I!Init /\ G!Init

\* A step of the ingestor; a window that it publishes reaches the worker.
Told == announced' \ announced
Ingest ==
  /\ I!Next
  /\ IF Told = {} THEN UNCHANGED filler ELSE \E w \in Told : G!Announce(w)

Fill == G!Work /\ UNCHANGED ingestor

\* The DataSaver worker commits a candle that was published.
Store(c) ==
  /\ c \in published \cup sent
  /\ G!StoreLive(c)
  /\ UNCHANGED ingestor

Next == Ingest \/ Fill \/ \E c \in Candles : Store(c)

Spec == Init /\ [][Next]_vars

\* Both processes run on and are restarted; see the two modules.
Fairness == I!Fairness /\ G!Fairness

FairSpec == Spec /\ Fairness

-----------------------------------------------------------------------------
\* The table is what CandleStore promises: for a candle to be recovered the
\* window the detector publishes must end with a candle that has closed, by the
\* way the worker asks the REST API for it (to_ts of gap_detector.py, endTime of
\* gap_fill_worker.py); and a live row never replaces a recovered one.
Store0 == INSTANCE CandleStore
StoreSpec == Store0!Spec

\* What the ingestor skipped, between two candles that one process of it saw,
\* is stored as recovered and published again by the time its window counts as
\* filled, but for the first candle of a window, for what exceeds a request and
\* for rows that came short of fields; or the window is on its way, or what became
\* of it is on record: not published, not received, answered by no list, dropped
\* by the REST API or the database, or cut off by a restart.  No other hole is left, except around a restart of the ingestor,
\* which begins with an empty detector.
HolesExplained ==
  \A c, d \in seen :
    c[1] = d[1] =>
      \A n \in (c[2] + 1)..(d[2] - 1) :
        \/ <<c[1], n>> \in seen
        \/ \E w \in Windows :
             /\ <<c[1], n>> \in I!Missing(w)
             /\ \/ w \in window \cup lost
                \/ fate[w] \in {"open", "missed", "garbled", "dropped", "failed",
                                "unsent", "unread"}
                \/ /\ fate[w] = "filled"
                   /\ \/ n = w.from
                      \/ w.to - w.from > Limit
                      \/ <<c[1], n>> \in short[w]
                      \/ klines[<<c[1], n>>] = "recovered" /\ <<c[1], n>> \in sent

\* A gap that the ingestor found is settled: its window was not published, or
\* the worker was not there, or has filled it or given it up; whatever either
\* process meets meanwhile, it is not left half done.  A window is named by the
\* candle that revealed it.
RevealedBy(c) == {w \in Windows : <<w.key, w.to>> = c}

GapsSettled ==
  \A c \in Candles :
    RevealedBy(c) \cap window /= {} ~>
      \E w \in RevealedBy(c) : w \in lost \/ fate[w] \notin {"unborn", "open"}
=============================================================================
