SPECIFICATION MigrationSpec
CONSTANTS
  alpha = alpha  beta = beta  gold = gold  posA = posA  posB = posB
  Pools = {alpha, beta}
  Coins = {gold}
  CoinOf <- MCCoinOf
  Positions = {posA, posB}
  BaseOf <- MCBaseOf
  QuoteOf <- MCQuoteOf
  Actors = {k}
  Deployer = k
  Keeper = k
  MAX_KEEPERS = 1
  BPS_DENOM = 1
  Splits <- MCSplits
  Programs = {prog1}
  PERMISSIONLESS_CLAIM_INTERVAL = 1
  MaxU64 = 3
  StartTime = 2
  MaxTime = 2
  Settled = TRUE
  MaxFaults = 1
  MaxFees = 1
INVARIANTS RecordsOwnPosition RowsMatchRecords
PROPERTY GraduatesClaimed
