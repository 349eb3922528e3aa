\* Two epochs of one pool, two wallets, every interleaving of keepers, claimants,
\* donors and the admin.
SPECIFICATION Spec
CONSTANTS
  w1 = w1
  w2 = w2
  p1 = p1
  MaxLeaf = 2
  Pools = {p1}
  Wallets = {w1, w2}
  Actors = {adm}
  Deployer = adm
  Routers = {fr}
  Epochs = {e1, e2}
  PoolOf <- MCPoolOf
  Roots <- MCRoots
  MaxU64 = 3
  Supply = 3
  SWEEP_DELAY_SECS = 0
  MAX_EPOCH_AGE_SECS = 1
  BPS_DENOM = 2
  MAX_KEEPERS = 1
  MAX_PUSH_ITEMS = 2
  PushBps = {1, 2}
  MaxTime = 2
INVARIANTS
  TypeOK
  EpochSolvent
  NeverOverAllocated
  ClaimsStayPayable
  BooksMatchPayments
PROPERTIES
  NoPayoutAfterSweep
