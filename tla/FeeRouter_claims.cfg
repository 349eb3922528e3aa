SPECIFICATION Spec
CONSTANTS
  alpha = alpha  beta = beta  gold = gold  posA = posA  posB = posB  prog1 = prog1  prog2 = prog2
  Pools = {alpha, beta}
  Coins = {gold}
  CoinOf <- MCCoinOf
  Positions = {posA, posB}
  BaseOf <- MCBaseOf
  QuoteOf <- MCQuoteOf
  Actors = {adm, eve}
  Deployer = adm
  MAX_KEEPERS = 1
  BPS_DENOM = 4
  Splits <- MCSplits
  Programs = {prog1, prog2}
  PERMISSIONLESS_CLAIM_INTERVAL = 1
  MaxU64 = 3
  StartTime = 2
  MaxTime = 5
CONSTRAINT Bounds
SYMMETRY Alike
INVARIANTS TypeOK HoldersGetOwnFees SharedVaultsAddUp SplitKeepsShares
PROPERTY OutsidersPaced
