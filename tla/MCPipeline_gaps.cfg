SPECIFICATION FairSpec
CONSTANTS
  btc1m = btc1m
  Keys <- MCKeys
  MaxCandle = 5
  ReconnectMax = 1
  IngestorFaults = {"bus", "crash"}
  MaxIngestorFaults = 1
  RestKey = "open"
  Limit = 2
  FillFaults = {"busy", "shape", "db", "bus", "crash"}
  MaxFillFaults = 1
INVARIANTS
  HolesExplained
PROPERTIES
  StoreSpec
  GapsSettled
