SPECIFICATION FairSpec
CONSTANTS
  btc1m = btc1m  eth1m = eth1m
  Keys <- MCKeys
  MaxCandle = 5
  Windows <- MCWindows
  LiveCandles <- MCLive
  RestKey = "open"
  Limit = 2
  FaultKinds = {"busy", "refused", "shape", "row", "db", "bus", "crash"}
  MaxFaults = 2
INVARIANTS
  TypeOK
  TailFilled
  SentStored
  NoneMislaid
PROPERTIES
  RecoveredStays
  EverySettled
