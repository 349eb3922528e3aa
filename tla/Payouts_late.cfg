\* What still holds when answers are lost: two epochs, late landings.
SPECIFICATION PayoutsSpec
CONSTANTS
  a = a
  b = b
  Pools = {p}
  Pool = p
  Wallets = {a, b}
  WalletOrder <- MCOrder
  Actors = {keeper}
  Deployer = keeper
  Keeper = keeper
  Routers = {fr}
  Epochs = {0, 1}
  PoolOf <- MCPoolOf
  Roots <- MCRoots
  MaxU64 = 3
  Supply = 3
  SWEEP_DELAY_SECS = 9
  MAX_EPOCH_AGE_SECS = 9
  BPS_DENOM = 2
  MAX_KEEPERS = 1
  MAX_PUSH_ITEMS = 2
  PushBps = {1, 2}
  MaxTime = 2
  Twabs <- MCTwabs
  FEE_CYCLE_SECS = 1
  PUSH_CHUNK_SIZE = 1
  MAX_ATTEMPTS = 2
  LateLanding = TRUE
  MaxFaults = 2
  None = None
INVARIANTS
  RowsAreLandedPushes
  LeavesMatchRoot
  OneEpochAtATime
