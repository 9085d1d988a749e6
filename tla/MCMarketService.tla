---------------------------- MODULE MCMarketService ----------------------------
(* Small instances of MarketService for TLC. *)
EXTENDS MarketService

CONSTANTS first, second   \* requests

MCRequests == {first, second}
=============================================================================
