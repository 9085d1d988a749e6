--------------------------- MODULE MCMarketGateway ---------------------------
(* Small instances of MarketGateway for TLC. *)
EXTENDS MarketGateway

CONSTANTS tab1, tab2   \* clients

MCClients == {tab1, tab2}

\* A trade tick of the first symbol.
MCEvents == {[symbol |-> 1, interval |-> NoInterval]}

\* More symbols than MaxSymbols, of one interval: cut to what the tick matches, as
\* it has no interval.  And everything of the second symbol.
MCWatchlists ==
  {[symbols |-> {1, 2}, intervals |-> {1}],
   [symbols |-> {2}, intervals |-> {}]}
=============================================================================
