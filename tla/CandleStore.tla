------------------------------ MODULE CandleStore ------------------------------
(***************************************************************************)
(* What the backend promises of the klines table, whoever writes it: a row *)
(* is that of a candle the exchange has closed, it is written once as a    *)
(* live one, and it may be replaced only by a recovered one, which stays   *)
(* (is_recovered_by_rest in migrations/0001_init.sql).                     *)
(***************************************************************************)
EXTENDS Naturals

CONSTANTS Keys, MaxCandle

VARIABLES
  closed,  \* candles the exchange has closed, per key
  klines   \* the source of each candle's row, or "none"

Candles == Keys \X (1..MaxCandle)
IsClosed(c) == c[2] <= closed[c[1]]

Init ==
  /\ closed = [k \in Keys |-> 0]
  /\ klines = [c \in Candles |-> "none"]

Close(k) ==
  /\ closed' = [closed EXCEPT ![k] = @ + 1]
  /\ UNCHANGED klines

StoreLive(c) ==
  /\ IsClosed(c)
  /\ klines[c] = "none"
  /\ klines' = [klines EXCEPT ![c] = "live"]
  /\ UNCHANGED closed

\* One transaction.
Recover(S) ==
  /\ \A c \in S : IsClosed(c)
  /\ klines' = [c \in Candles |-> IF c \in S THEN "recovered" ELSE klines[c]]
  /\ UNCHANGED closed

Next ==
  \/ \E k \in Keys : Close(k)
  \/ \E c \in Candles : StoreLive(c)
  \/ \E S \in SUBSET Candles : Recover(S)

Spec == Init /\ [][Next]_<<closed, klines>>
=============================================================================
