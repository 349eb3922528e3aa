\* One pool through its life; one chart; one market's status and price; one
\* coin bought back.
SPECIFICATION ServicesSpec
CONSTANTS
  DbcPools = {p}
  Holders = {w1, w2}
  w1 = w1
  w2 = w2
  EpochIds = {0}
  EPOCH_LOOKAHEAD = 2
  LIMIT = 3
  MaxLegs = 1
  Mixes <- OneMarket
  BUCKET = 3
  WINDOW = 4
  TradePrices = {1, 2}
  MaxClock = 8
  MaxTrades = 3
  NoCandle = NoCandle
  MaxStatusEvents = 5
  Quotes = {1, 2}
  POST_GAP = 1
  POST_MIN_INTERVAL = 1
  POST_SKEW = 1
  MaxChainTime = 3
  NoPrice = NoPrice
  gold = gold
  adm = adm
  Coins = {gold}
  Actors = {adm}
  Deployer = adm
  MAX_KEEPERS = 0
  BPS_DENOM = 10
  MIN_SPEND_TOLERANCE_BPS = 2
  MAX_ROUTE_HAIRCUT_BPS = 1
  Slippages = {0, 4}
  USDC_UNIT = 2
  PRICE_SCALE = 2
  BuybackParams <- MCSetups
  Anchors = {4}
  Bids = {2, 3}
  MaxVault = 3
  MaxResidue = 1
  MaxIce = 5
  MaxCycles = 2
  BuybackStart = 2
  BuybackEnd = 3
INVARIANTS
  IndexerTypeOK
  BalancesAreReplays
  EpochBooksHonest
  EarningsCountedOnce
  CursorCovers
  RecentCandlesWhole
  RowHidesNothing
  MirrorIsNewestRow
  RateFloor
  SameRateAccepted
  SpendPaced
  QuoteFits
PROPERTIES
  HaltStands
CHECK_DEADLOCK FALSE
