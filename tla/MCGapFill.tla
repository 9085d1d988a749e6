------------------------------ MODULE MCGapFill ------------------------------
(* Small instances of GapFill for TLC. *)
EXTENDS GapFill, TLC

CONSTANTS btc1m, eth1m   \* keys

MCKeys == {btc1m, eth1m}

\* A window longer than one request, and two that are not.
MCWindows ==
  {[key |-> btc1m, from |-> 2, to |-> 5],
   [key |-> eth1m, from |-> 1, to |-> 3],
   [key |-> eth1m, from |-> 4, to |-> 5]}

\* Two of the candles that revealed a window.
MCLive == {<<btc1m, 5>>, <<eth1m, 3>>}
=============================================================================
