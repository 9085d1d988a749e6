SPECIFICATION FairSpec
CONSTANTS
  first = first  second = second
  Requests <- MCRequests
  Limits = {1, 3}
  MaxKlineLimit = 2
  CacheLimit = 2
  CacheEnabled = TRUE
  MaxCandle = 3
  FaultKinds = {"cache", "db", "http", "body"}
  MaxFaults = 2
INVARIANTS
  TypeOK
  AnswerInOrder
  LastResort
PROPERTIES
  ClosedStays
  Answered
