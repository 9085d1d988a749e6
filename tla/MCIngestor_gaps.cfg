SPECIFICATION FairSpec
CONSTANTS
  btc1m = btc1m  eth1m = eth1m
  Keys <- MCKeys
  MaxCandle = 4
  GapDetection = TRUE
  ReconnectMax = 3
  FaultKinds = {"stream", "connect", "malformed", "bus", "crash"}
  MaxFaults = 2
INVARIANTS
  TypeOK
  GapsFound
  GapsAreReal
PROPERTIES
  StreamResumes
