SPECIFICATION FairSpec
CONSTANTS
  btc1m = btc1m  btc5m = btc5m  btc = btc
  Keys <- MCKeys
  Symbol <- MCSymbol
  Interval <- MCInterval
  Phase <- MCPhase
  Limit = 2
  MaxFill = 2
  Skews = {0, 2}
  Start = 3
  MaxTime = 4
  MaxEffects = 3
  MaxBus = 2
  MaxStale = 1
  FaultKinds = {"http", "socket", "outage", "sources"}
  MaxFaults = 1
CHECK_DEADLOCK FALSE
INVARIANTS
  TypeOK
  OwnCandles
  FinalShown
  Aligned
PROPERTIES
  LoadingEnds
