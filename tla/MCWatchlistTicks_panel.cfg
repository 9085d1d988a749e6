SPECIFICATION FairSpec
CONSTANTS
  btc = btc
  Symbols <- MCSymbols
  Prices = {1, 2}
  MaxTrades = 3
  MaxPolls = 1
  MaxEffects = 2
  MaxDrops = 1
  MaxQueue = 2
CHECK_DEADLOCK FALSE
INVARIANTS
  TypeOK
  RowsOfCurrent
  FlashTended
PROPERTIES
  FlashEnds
