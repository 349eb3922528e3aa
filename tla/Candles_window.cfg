\* One chart: buckets of three seconds, a window of four.
SPECIFICATION CandlesSpec
CONSTANTS
  BUCKET = 3
  WINDOW = 4
  TradePrices = {1, 2}
  MaxClock = 8
  MaxTrades = 3
  NoCandle = NoCandle
INVARIANTS
  CandlesWhole
CHECK_DEADLOCK FALSE
