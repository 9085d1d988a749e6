SPECIFICATION Spec
CONSTANTS
  c1 = c1  c2 = c2  c3 = c3
  btc = btc  eth = eth  m1 = m1
  NumMsgs = 4
  CandleOf <- MCCandleOf
  SymbolOf <- MCSymbolOf
  IntervalOf <- MCIntervalOf
  SeedNames <- MCNoNames
  BatchSize = 2
  MaxBatchSize = 3
  FaultKinds = {"redis", "db", "stop", "crash"}
  MaxFaults = 2
INVARIANTS
  TypeOK
  Accounted
  SavedInKlines
  CacheBacked
  NoUpsertCycle
PROPERTIES
  SinkSpec
CHECK_DEADLOCK FALSE
