\* One market: posts, trades, sweeps and the admin, over two daily windows.
SPECIFICATION Spec
CONSTANTS
  PRICE_SCALE = 10
  BPS = 10
  MAX_SPREAD_BPS = 5
  MAX_DEVIATION_WINDOWS = 20
  Unlimited = 1000000
  Actors = {adm}
  Deployer = adm
  NoKey = NoKey
  MAX_KEEPERS = 1
  ParamSets <- MCParamSets
  MAX_CONF_BPS = 2
  RESERVE_WARN_BPS = 11
  RESERVE_HALT_BPS = 8
  DAILY_WINDOW_SECS = 1
  DEFAULT_MAX_MOVE_BPS = 5
  DEFAULT_MIN_INTERVAL = 1
  MAX_FUTURE_SKEW_SECS = 0
  KeeperBounds <- MCBounds
  Prices = {10, 12}
  Confs = {0, 1}
  UsdcSupply = 4
  StartTime = 2
  MaxTime = 3
INVARIANTS
  TypeOK
  CountersCoverFlow
PROPERTIES
  TradesKeepBacking
  NetFlowCapped
  AnchorPaced
CONSTRAINT TradesBound
