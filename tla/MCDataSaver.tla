---------------------------- MODULE MCDataSaver ----------------------------
(* Small instances of DataSaver for TLC. *)
EXTENDS DataSaver, TLC

CONSTANTS c1, c2, c3,   \* candles
          btc, eth,     \* symbols
          m1            \* an interval

\* Four messages; the last one repeats the candle of the first.
MCCandleOf   == <<c1, c2, c3, c1>>
MCSymbolOf   == c1 :> btc @@ c2 :> eth @@ c3 :> btc
MCIntervalOf == c1 :> m1 @@ c2 :> m1 @@ c3 :> m1
MCAllNames   == {btc, eth, m1}
MCNoNames    == {}
=============================================================================
