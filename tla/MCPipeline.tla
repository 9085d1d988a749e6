------------------------------ MODULE MCPipeline ------------------------------
(* Small instances of Pipeline for TLC. *)
EXTENDS Pipeline, TLC

CONSTANTS btc1m   \* a key

MCKeys == {btc1m}
=============================================================================
