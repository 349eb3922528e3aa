SPECIFICATION IndexerSpec
CONSTANTS
  DbcPools = {p, q}
  Holders = {w1, w2}
  w1 = w1
  w2 = w2
  EpochIds = {0}
  EPOCH_LOOKAHEAD = 2
  LIMIT = 5
  MaxLegs = 2
  Mixes <- Routes
INVARIANTS OneTradePerSwap
CHECK_DEADLOCK FALSE
