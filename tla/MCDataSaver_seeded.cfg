SPECIFICATION FairSpec
CONSTANTS
  c1 = c1  c2 = c2  c3 = c3
  btc = btc  eth = eth  m1 = m1
  NumMsgs = 4
  CandleOf <- MCCandleOf
  SymbolOf <- MCSymbolOf
  IntervalOf <- MCIntervalOf
  SeedNames <- MCAllNames
  BatchSize = 2
  MaxBatchSize = 3
  FaultKinds = {"redis", "db", "stop", "crash"}
  MaxFaults = 2
INVARIANTS
  LossHasCause
PROPERTIES
  EventuallySettled
CHECK_DEADLOCK FALSE
