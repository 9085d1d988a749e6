--------------------------- MODULE MCWatchlistTicks ---------------------------
(* A small instance of WatchlistTicks for TLC. *)
EXTENDS WatchlistTicks, TLC

CONSTANT btc   \* a symbol

MCSymbols == {btc}
=============================================================================
