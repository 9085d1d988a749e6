------------------------------ MODULE MCIngestor ------------------------------
(* Small instances of Ingestor for TLC. *)
EXTENDS Ingestor, TLC

CONSTANTS btc1m, eth1m   \* keys

MCKeys == {btc1m, eth1m}
=============================================================================
