SPECIFICATION Spec
CONSTANTS
  tab1 = tab1  tab2 = tab2
  Clients <- MCClients
  Symbols = {1, 2}
  Intervals = {1}
  Events <- MCEvents
  Watchlists <- MCWatchlists
  MaxSymbols = 1
  MaxIntervals = 1
  MaxEvents = 1
  MaxMessages = 0
  MaxFaults = 1
CHECK_DEADLOCK FALSE
INVARIANT ReadyMeansReading
