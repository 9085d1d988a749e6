SPECIFICATION FairSpec
CONSTANTS
  tab1 = tab1  tab2 = tab2
  Clients <- MCClients
  Symbols = {1, 2}
  Intervals = {1}
  Events <- MCEvents
  Watchlists <- MCWatchlists
  MaxSymbols = 1
  MaxIntervals = 1
  MaxEvents = 2
  MaxMessages = 1
  MaxFaults = 1
CHECK_DEADLOCK FALSE
INVARIANTS
  TypeOK
  Served
  Tended
PROPERTIES
  GoneForgotten
  BusDrained
