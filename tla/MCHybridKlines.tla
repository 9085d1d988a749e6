---------------------------- MODULE MCHybridKlines ----------------------------
(* Small instances of HybridKlines for TLC. *)
EXTENDS HybridKlines, TLC

CONSTANTS btc1m, btc5m, btc   \* two intervals of one symbol

MCKeys == {btc1m, btc5m}
MCSymbol == [k \in MCKeys |-> btc]
MCInterval == btc1m :> 2 @@ btc5m :> 4
MCPhase == [k \in MCKeys |-> 0]
=============================================================================
