SPECIFICATION Spec
CONSTANTS
  btc1m = btc1m  eth1m = eth1m
  Keys <- MCKeys
  MaxCandle = 5
  Windows <- MCWindows
  LiveCandles <- MCLive
  RestKey = "open"
  Limit = 2
  FaultKinds = {}
  MaxFaults = 0
INVARIANTS
  WindowFilled
