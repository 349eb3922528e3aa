------------------------------ MODULE Candles ------------------------------
(***************************************************************************)
(* The candle job (apps/indexer/src/candles.ts) over the trades of one     *)
(* pool and one timeframe.  The ingester adds trades, also late ones; a    *)
(* pass of the job, run by a timer, rebuilds the candles of the trades in  *)
(* a window that ends now.                                                 *)
(***************************************************************************)
EXTENDS Naturals, FiniteSets, FiniteSetsExt, Functions

CONSTANTS
  BUCKET,       \* seconds of a candle
  WINDOW,       \* sinceHours
  TradePrices,  \* prices trades are made at
  MaxClock,     \* bound: time
  MaxTrades,    \* bound: trades
  NoCandle

ASSUME CandlesAssumption ==
  /\ BUCKET \in Nat \ {0} /\ WINDOW \in Nat
  /\ TradePrices \subseteq Nat \ {0} /\ MaxClock \in Nat /\ MaxTrades \in Nat

VARIABLES
  clock,
  trades,       \* table trades: price by time; every trade is of one token
  candles,      \* table candles
  passed,       \* the time of the last pass
  seen          \* history: the trades the last pass had before it

candlesVars == <<clock, trades, candles, passed, seen>>

BucketOf(ts) == ts \div BUCKET
Buckets == 0..BucketOf(MaxClock)

\* Those of a table that are in bucket b and after since, oldest to newest.
InBucket(table, b, since) ==
  Restrict(table, {ts \in DOMAIN table : BucketOf(ts) = b /\ ts >= since})

Aggregate(table) ==
  [o |-> table[Min(DOMAIN table)], h |-> Max(Range(table)), l |-> Min(Range(table)),
   c |-> table[Max(DOMAIN table)], v |-> Cardinality(DOMAIN table)]

CandlesInit ==
  /\ clock = 0 /\ passed = 0
  /\ trades = <<>> /\ seen = <<>>
  /\ candles = [b \in Buckets |-> NoCandle]

\* The first moment of the window: ts > now() - interval.
WindowStart(now) == IF now < WINDOW THEN 0 ELSE now - WINDOW + 1

\* Faulty variant: a candle that is there stays (on conflict do nothing).
Pass_keeps ==
  /\ candles' = [b \in Buckets |->
       LET recent == InBucket(trades, b, WindowStart(clock))
       IN IF DOMAIN recent = {} \/ candles[b] # NoCandle THEN candles[b] ELSE Aggregate(recent)]
  /\ passed' = clock /\ seen' = trades
  /\ UNCHANGED <<clock, trades>>

\* rebuildCandles: an upsert of every bucket with a trade in the window.
Pass ==
  /\ candles' = [b \in Buckets |->
       LET recent == InBucket(trades, b, WindowStart(clock))
       IN IF DOMAIN recent = {} THEN candles[b] ELSE Aggregate(recent)]
  /\ passed' = clock /\ seen' = trades
  /\ UNCHANGED <<clock, trades>>

\* The webhook records a trade at once, the backfill later.
TradeIngested(ts, price) ==
  /\ ts \in 0..clock \ DOMAIN trades          \* bound: a trade a second
  /\ Cardinality(DOMAIN trades) < MaxTrades
  /\ trades' = [s \in DOMAIN trades \cup {ts} |-> IF s = ts THEN price ELSE trades[s]]
  /\ UNCHANGED <<clock, candles, passed, seen>>

TimeGoesBy ==
  /\ clock < MaxClock
  /\ clock' = clock + 1
  /\ UNCHANGED <<trades, candles, passed, seen>>

CandlesNext ==
  \/ Pass
  \/ \E ts \in 0..MaxClock, price \in TradePrices : TradeIngested(ts, price)
  \/ TimeGoesBy

CandlesSpec == CandlesInit /\ [][CandlesNext]_candlesVars
-----------------------------------------------------------------------------
\* A candle that has not reached the end of the window shows every trade of its
\* bucket the database had at the last pass, however late or out of order it
\* was ingested.
RecentCandlesWhole ==
  \A b \in Buckets :
    LET all == InBucket(seen, b, 0)
    IN b * BUCKET >= WindowStart(passed) /\ DOMAIN all # {} => candles[b] = Aggregate(all)

\* candles.ts:4: the job aggregates trades rows into OHLCV candles.  A candle
\* is that of the trades of its bucket.
CandlesWhole ==
  \A b \in Buckets :
    LET all == InBucket(seen, b, 0)
    IN candles[b] # NoCandle => candles[b] = Aggregate(all)
=============================================================================
