# ICEmarkets in TLA+

A verification project for the programs, the keeper and the indexer of this
repository: TLA+ modules of the parts that move money or keep its books, TLC
runs over small instances, and TLAPS proofs of what holds for every instance.

    tlc -config Distributor.cfg MCDistributor         # any run of the table below
    tlapm DistributorProofs.tla                       # any *Proofs module

## 1. The system

| part | state | operations | talks to |
|---|---|---|---|
| `programs/peg_desk` | config, one `Commodity` per coin, `KeeperPrice`, USDC reserve vault, coin mint | buy, buy_exact_out, sell, sweep_spread_fees, deposit_reserve, keeper_update_price, set_status, admin setters | called by users, by the keeper's oracle and session cycles, by the buyback cycle |
| `programs/fee_router` | `RouterConfig`, one `PoolState` per pool, holder/buyback/treasury vaults, a receiving account per coin | register_pool, claim_dbc, claim_dbc_surplus, claim_damm, record_migration, withdraw_for_epoch, withdraw_for_buyback, withdraw_treasury, setters | calls Meteora DBC and DAMM v2; called by the keeper, the distributor and the buyback program |
| `programs/distributor` | `DistConfig`, one `Epoch` per (pool, index) with its vault, one `Claimed` per (epoch, wallet) | open_epoch, push_payouts, finalize_epoch, claim, sweep_unclaimed, setters | calls fee_router; called by the keeper, by holders and the admin |
| `programs/buyback` | config with the rate anchor and the cycle clock, work accounts | convert_and_burn, set_params, sweep_work_account | calls fee_router, peg_desk and an AMM; called by the keeper |
| keeper (`apps/keeper`) | Postgres tables, the locals of each running cycle | cycles: oracle, session, fees, migrate, payouts, buyback, each rescheduled after it ends or throws | RPC node, all programs, the database it shares with the indexer |
| indexer (`apps/indexer`) | Postgres: pools, trades, balance_events, payouts, epochs, merkle_leaves, candles | webhook, backfill, candles, API | decodes program events; serves Merkle proofs |
| `packages/sdk` | none | TWAB, shares, Merkle tree, pricing mirror, instruction builders | used by keeper, indexer and web |
| `packages/registry`, `apps/web`, `scripts` | static tables, user interface, one-shot tools | | |

What is hard in it: a transaction may land after the sender gave up on it; the
keeper may stop between a transaction and the database write that records it;
the keeper and the indexer write the same rows; a payout epoch runs over many
transactions while keepers, holders and the admin act on the same accounts; the
desk's breakers depend on the order of posts and trades and on what the clock
does in between; and all of it is integer arithmetic with rounding.
PROJECT.json lists these places under "hazards", each at its line, with the
properties that cover it or the reason none does yet.

What makes each part correct:

- distributor: an epoch can always pay what it still owes; wallets are paid at
  most once; what holders have proofs of does not change; a sweep is final.
- payout cycle: every holder gets exactly the share of the plan the epoch was
  opened with, once, whatever fails on the way; rows and leaves agree with the
  chain; epochs do not overlap.
- peg desk: no trade lowers a full backing; the daily caps bound the net flow;
  posts and trades cannot walk the deviation anchor; bookkeeping never
  overstates the reserve.
- fee router: a pool's holders receive their share of that pool's fees and of
  no other; coins are conserved over claims and withdrawals; rounding costs
  holders less than a unit per claim.
- migrate and fee cycles: the router's record of a graduated pool is the pool's
  own position, the keeper's table agrees with it, and its fees get claimed.
- buyback: no run of cycles lowers the rate it accepts below what the admin's
  anchor allows, nor locks it out of a rate it just accepted; the cap and the
  interval bound the spending of all coins together; what the keeper computes
  off-chain fits what the program checks.
- indexer: replaying, losing or reordering deliveries never counts anything
  twice; a cursor never passes over a transaction whose rows are missing.
- candles: a candle is that of all the trades of its bucket.
- session and oracle cycles: a halt stands until the admin lifts it; the row of a
  market says what the chain says once events have been handed over; the price
  shown is the newest posted one, although two processes write it.

## 2. Modules

| module | models | source |
|---|---|---|
| `Distributor` | the distributor program, with the holder vault and pause switch of the fee router it draws on | `programs/distributor`, `fee_router` withdraw/split/pause |
| `DistributorProofs` | its theorems | |
| `IdealPayouts` | what payouts promise: one plan per epoch, each wallet paid its whole share once | `payouts.ts:8-16` |
| `Payouts` | the keeper's payout cycle, its tables, the network and the indexer's payout rows, over the actions of `Distributor`; implements `IdealPayouts` | `cycles/payouts.ts`, `db.ts`, `rpc.ts`, `twab.ts` computeShares |
| `PayoutsProofs` | its theorems, on top of those of `Distributor` | |
| `PegPricing` | the pure arithmetic of the desk | `peg_desk/src/pricing.rs` |
| `PegDesk` | the desk for one keeper-priced commodity | `peg_desk/src/instructions/*.rs` |
| `PegDeskProofs` | theorems of both | |
| `FeeRouter` | the fee router program, with Meteora's curves and positions as external sources of fees | `programs/fee_router` |
| `Migration` | the keeper's migrate and fee cycles and the pools table, over the actions of `FeeRouter` | `cycles/migrate.ts`, `cycles/fees.ts`, `positions.ts`, `db.ts`, indexer `ingest.ts` |
| `MigrationProofs` | its theorems | |
| `FeeRouterProofs` | the router's theorems | |
| `Indexer` | ingestTransaction under the webhook, the backfill with its cursors, the API server's reconcile, and the rows the keeper writes beside them | `decode/ingest.ts`, `decode/swaps.ts`, `backfill.ts`, `webhook.ts`, `server.ts`, keeper `db.ts` |
| `Candles` | the candle job over trades that come late | `candles.ts` |
| `Sessions` | one market's status: chain, row, session cycle, indexer, admin | `cycles/session.ts`, `peg_desk` set_status, `ingest.ts` |
| `Prices` | one market's posts and the two writers of its price rows | `cycles/oracle.ts`, `db.ts` insertPrice, `peg_desk` keeper_update_price, `ingest.ts` |
| `Buyback` | the buyback program and the keeper's buyback cycle | `programs/buyback`, `cycles/buyback.ts` |
| `ServicesProofs` | theorems of `Candles`, `Sessions`, `Prices` and `Buyback` | |
| `IndexerProofs` | theorems of `Indexer` | |
| `ArithmeticLemmas` | facts about products, `\div` and sums over finite sets that the proof modules cite | |
| `MCDistributor`, `MCPayouts`, `MCPegDesk`, `MCFeeRouter`, `MCMigration`, `MCIndexer` | instances for TLC | |
| `MCServices` | the instance of `Indexer`, `Candles`, `Sessions`, `Prices` and `Buyback` | |

### Distributor

State: the fields of `DistConfig` are variables of their own; `epoch[e]` is the
`Epoch` account of one (pool, index), `vault[e]` its token account, `claimed[e][w]`
the `Claimed` receipt. `outside`, `paid`, `treasury` and `holderVault` complete the
ledger, so that the books can be compared with the coins; `swept` is a history variable.
Every instruction is one action; Anchor's account constraints (`init`, seeds,
signer) are conjuncts of its guard. A Merkle root is the set of its leaves: with
a collision-free hash a proof verifies exactly for the leaves. The program does
not check that a posted root has one leaf per wallet or that the leaves add up
to `merkle_total`, so `Roots` contains trees that break both. Anyone may send
coins to an epoch's account, also before the epoch is opened (`Donate`).
Operators named `X_fault` are variants with a plausible bug; no specification
uses them, they show that each property can fail.

### Payouts

One action per `await` with an effect. `pc` names the await, `loc` holds the
locals; `progress`, `rows`, `leaves` and `marked` are the tables
`epoch_progress`, `payouts` (kind 0), `merkle_leaves` and `epochs.finalized`.
`net` holds transactions in flight; `Land` runs the instruction on the
distributor's state, `Reject` is a failure on the chain, `Drop` a transaction that
never lands. `sendWithPriority` signs every attempt with a fresh blockhash, so
each attempt is a transaction of its own. `LateLanding` says whether an attempt
may land although the keeper saw an error for it or was restarted since; the
code cannot tell, and the runs show both worlds. `Crash` loses the locals only.
The locals `queue` and `record` are sets of
wallets, taken in `WalletOrder`; `events[e]` has one entry per push that landed, with the
amount of each wallet. `faults` bounds crashes, drops, lost answers and cap changes together. TWABs come
out of `Twabs`: which one depends on the balance events the indexer has written
by then and on prices, so computing a plan twice may give two plans. The amount
of dust, prices and thresholds only decide whether `SkipEpoch` is taken, which is
always allowed.

Actions and code: `StartCycle` runPayoutsForPool up to the branch; `PlanEpoch`,
`SendOpen`, `OpenConfirmed` openNewEpoch; `ResumeEpoch` resumeEpoch;
`ReconcilePushed` reconcilePushed; `Split`, `SendPush`, `PushConfirmed`,
`RecordPayout`, `SendFinalize`, `FinalizeConfirmed` pushAndFinalize; `WriteLeaves`,
`MarkFinalized`, `SetFinalized` writeFinalized; `RepairBookkeeping`
repairFinalizedBookkeeping; `AttemptFails` the catch block of sendWithPriority;
`IndexPayout` the indexer's Payout event.

### PegPricing and PegDesk

`PegPricing` translates each function of pricing.rs. Intermediates are u128
there and cannot overflow for u64 arguments, so integers are unbounded; the
saturating subtractions are `Minus`. `PegDesk` has one action per instruction of
a commodity with `OracleKind::KeeperSigned`: the posted price is the `KeeperPrice`
account `kp`, `quote()` is the guard `QuoteOK` with `Spread`, and the oracle
bookkeeping that ends every trade is `AcceptPrice`. `flow` and `base` are history
variables: the net flow of users who are not exempt since the daily window
started, and the anchor a run of deviation windows started from. Slippage limits
of the caller only refuse trades, and are left out. USDC and coins have the same
decimals, so no conversion is lost.

### FeeRouter

State: `RouterConfig` field by field, `pool[p]` the `PoolState` account of a pool, and
the token accounts: `holderVault` per pool, `buybackVault` and the receiving account
`recv` per coin, `treasury` per mint. A pool stands for its memecoin as well, so
`Mints` is `Coins \cup Pools`. `curve` and `damm` are Meteora's side: the fees that a
pool's curve and a position have accrued, the surplus that graduation leaves, and
whether the router holds the position's NFT. Meteora checks the mints of the
accounts it pays into, which is the guard of `ClaimDamm` on the recorded position.
`withdrawn`, `given`, `taken`, `claims`, `splitsSeen` and `outsider` are history
variables: they say where the coins came from and went, and when an outsider
last claimed.

One action per instruction. The three claims share `SplitToVaults` as they share
`split` in common.rs; what a claim brought is the difference of the receiving
account's balance, `Delta`, since anyone may send coins there (`GiveRouter`).
`record_migration` checks neither the mints of the position nor an earlier record,
so `RecordMigration` does not. `register_pool` reads bytes of Meteora's and the
desk's accounts; every element of `Pools` passes that check, and
`register_pool_admin` is the same action without it. The destinations of
withdrawals are outside the model.

### Migration

`cycle` holds where the migrate cycle is and its locals (the pools still to do, the
pool in hand, the positions known, the one found); `rows` is the pools table as the
cycle uses it. One action per `await`: `StartCycle` the query, `TakePool` the loop,
`ReadState` getPoolState, `SendMigrate` migrateToDammV2, `ReadKnown` and
`FindPosition` the two halves of findNewPosition, `SendRecord` record_migration,
`MarkMigrated` the update. `ReadFails` and the failing branches go to the next pool,
as the catch block does; `Restart` loses the locals; `flight` holds a record that
may land after its sender gave up. Queries return rows and positions in any
order, so the choice of the first is any choice. The indexer's two events arrive
in any order and at any time, or never (`IngestRecorded`). The fee cycle is one
action per claim with the account it takes from the row. When pools graduate is
not up to the keeper: `Settled` says whether a pool graduates only after the table
has caught up with the ones before it, or only after the router has.
Positions that others send to the router are left out here, as the cycle could
pick one of them in any regime; `FeeRouter` has them (`GiftPosition`).

### Indexer

`log` is the chain, a sequence of transactions, of which each names its operation
and the pool, epoch and wallets it is about; `db` is the database as a record of
tables; `cursor` is `ingest_cursor` and `job` the backfill process. `Ingest` is
ingestTransaction: events first (`ApplyEvents`, with the reconcile when the log of a
launch was cut), then swaps and balance deltas of the pools the table knows by
then. It is a set of databases since loadPoolRefs returns pools in no order, and
since it may throw, which takes everything back to the savepoint. A webhook delivery is `Webhook(t, logged)` for any transaction at any time, so
deliveries are lost, repeated and reordered without bound; `logged` is FALSE for an
enhanced payload that comes without logs. The backfill has one action per await
that matters: reconcile, address list, one signature list per address (the chain
grows in between), one ingest per transaction, one cursor per address, and it
may die anywhere. A listing is cut at LIMIT, at its old end; `BackfillSkips` is a
transaction that is pruned, whose ingest throws or whose events do not decode: the
run goes on in each case and its cursors move as if it had not happened. `gaps`, a
history variable, holds what the last run to meet it left out so, or ingested as an
`Orphan`: of a pool the table does not have, because the launch was left out, nothing
is written and no error is counted. `KeeperInsertsEpoch`, `KeeperRecordsPayout`, `KeeperInsertsLeaves`,
`KeeperMarksFinalized` and `KeeperMarksMigrated` are the keeper's writes to the same
rows, at any time after the transaction they follow, and again.

Simplifications: every transaction has a slot of its own; amounts are 1 and a
push pays one wallet; all commodities are seeded; a transaction touches a pool
once; an RPC node is configured, so reconciling works. The rows of fee_claims,
fee_splits, buybacks and commodity_trades are inserted once by key and read by
nobody here; they are left out.

### Candles, Sessions, Prices

`Candles`: `trades` maps a second to a price, `Pass` is one rebuildCandles, `seen` what
the last pass had before it. `Sessions`: `status` and `row` are the two copies of the
status, `flip` the session cycle between its read, its send and its update, `late`
the attempts given up that may still land. `orderly` is chosen once: in an orderly
run events are handed over in order and once and nothing lands late. The admin and
the keepers who halt by hand act at any time, also between a flip's landing and its
update of the row: the flip is then `overtaken`, and `behind`, a history variable, says
that the row was last written by such a flip, until the next event. `Prices`: `posts` are the PriceUpdated events, `poster` is
the oracle cycle between its send and the two statements of insertPrice, `adrift`
the attempts given up. `relay` says whether the price is stamped with the chain's
time (relaySwitchboardPrices) or the file's (runKeeperSignedBatch). The limit on how
far a price may move only refuses posts, which any post may be.

### Buyback

`ConvertAndBurn` is the instruction with all its checks in their order. The desk
is external, `desk[c]` being the bid at the base spread, which the keeper computes
with, and the bid it pays; the route takes any USDC and gives any ICE, and the
program's checks are all that restrains it. `KeeperConverts` is a keeper that sends
what it likes; `KeeperQuotes`, `KeeperSends` and `KeeperGivesUp` are runBuybackCycle,
between whose reading and sending anything may change. `floor`, `lastRate` and `paced`
are history variables: the anchor the admin set last, the last executed rate
under the present breaker, and what was spent since the pace was set. Which vault
is the most valuable is any choice. Integers are unbounded.

## 3. Runs

| run | what it asks | instance | result |
|---|---|---|---|
| `distributor` | type, solvency, allocation, claims to the deadline, books, final sweeps | two epochs of a pool, two wallets, 3 coins, push caps of 1/2 and 1, clock 0..2, honest roots, a root beyond the total and one with two leaves of a wallet | holds, 785,056 states |
| `payouts_faults` | exact allocation, stored plan = opened plan, refinement of `IdealPayouts`, every holder paid in the end | two epochs, two wallets, 3 coins, chunks of one wallet, two attempts, two faults, errors are truthful | holds, about 78,000 states |
| `payouts_late` | rows, leaves and the order of epochs when errors are not truthful | as above with `LateLanding` | holds, 1,313,525 states |
| `payouts_retry` | exact allocation when errors are not truthful | one epoch | violated |
| `pegdesk_trades` | type, net-flow caps, counters, backing, anchor | prices 1.0 and 1.2, confidences 0 and 0.1, spread 10 %, caps of one coin and one dollar-tenth, 4 units of USDC, two daily windows | holds, about 1,435,000 states |
| `pegdesk_anchor` | one deviation per window | prices 1.0, 1.2, 1.4, deviation 10 %, windows of two seconds | violated |
| `fee_router_claims` | type, own fees, shared vaults, rounding, pacing of outsiders | two alike pools of one coin, a position each, shares in quarters, three splits, books of up to 3 coins, interval 1, clock 2..5 | holds, 96,547 states |
| `migration_settled` | records, rows, and claims in the end, while the table keeps up | two pools, one failure or restart, one fee per pool | holds, 22,030 states |
| `migration_cycle` | no position on record for two pools | as above, but the second pool graduates between cycles as soon as the router has the first one's record | violated |
| `services` | the rows of the indexer, candles, status and price; the buyback's breaker, pace and quotes | one pool and two wallets with logs of up to 5 transactions, up to two of them gaps (`OneMarket`), LIMIT 3; buckets of 3 and a window of 4 seconds, three trades; five status events; two prices over 3 seconds; one coin, two sets of parameters, two cycles | holds, 1,524,375 states |
| `indexer_routes` | one trade per swap | two pools, one swap through both | violated |
| `candles_window` | a candle is that of its bucket's trades | as in `services` | violated |

Bounds. In `distributor` three coins are enough for an epoch of two wallets with
different leaves, for a push and a claim, or for two small epochs and a donation;
the clock reaches one second past the deadline. It has one signer and one router:
who may sign and which router pays are guards the proofs cover for any number. In `payouts_*` a fault budget of two reaches every pair of
crash, drop, lost answer and cap change, including a crash during the resume of
a crash; chunk size one makes a two-wallet plan take two pushes; two attempts
show every retry. In `pegdesk_trades` `TradesBound` limits exploration: switches
that only stop trading (pause, halt, removed keepers, other keeper bounds) are
explored while nobody holds the coin; at most one unit is swept or transferred
plainly; posts are at most a second old when the market opens, and one of them
has a confidence interval. `pegdesk_anchor` explores trading only (`AnchorBound`).
`fee_router_claims` explores the union of
three regimes (`Bounds`): `Money`, two coins through all sources, claims, gifts and
withdrawals of both pools under one configuration; `Clock`, configuration changes
and claims over time while there are no coins; `OnePool`, four coins of one curve
under changing splits, up to the overflow of the books. The pools are exchanged
by `Alike`, with their positions. In `migration_*` one failure is enough to part the
router's record from the row, in each of the ways the code can.
Clocks, `MaxTime` and the numbers of epochs are bounds of the instances; the
proofs do not use them.

In `services` a behaviour is one of five services that share nothing here (`world`);
the others rest in one initial state, so the state space is the sum and not the
product. The six mixes of `OneMarket` bound a log and its gaps: trades and a
migration, and a whole epoch with its push, finalize and claim, without gaps; a
launch with trades, and one with an opening and pushes, with one gap; a launch, whose
log may be cut, and a trade with two gaps, so that the launch is skipped and the trade
an orphan; and a launch with four transfers, longer than LIMIT, with one gap. Only
what the backfill leaves out counts towards the gaps: the webhook loses and fails as
it likes. Each is long enough for what its properties are about (an epoch with all its
transactions, a trade on either side of the migration), and a log that is short
is delivered in every order, again and in part, with every backfill. The window of
the candles is longer than a bucket, as 48 hours are longer than a day, and ends
inside a bucket. BPS_DENOM is 10, so that rounding shows with amounts up to 5.

Deadlock is checked in every run: administrative instructions are always possible
in `Distributor`, `PegDesk` and `FeeRouter`, and the cycles of `Payouts` and
`Migration` always start again. It is not checked in `services`, `indexer_routes` and
`candles_window`, whose logs, clocks and events have bounds that end a behaviour.

Fairness. `Migration`: weak fairness of the keeper's next step in the migrate
cycle and of the fee cycle's claims, since `scheduleCycle` runs a cycle again after
it returns or throws, and of the ingestion of registrations; none of
`IngestRecorded`, of failures or of trades. `Payouts`: weak fairness of the keeper's next step, because
`scheduleCycle` runs the cycle again after it returns or throws; weak fairness
of landing or rejecting a transaction in flight, because validators decide
every transaction or it expires (`Drop` counts as a fault); and weak fairness of a
holder's claim with a served proof. Nothing is assumed of crashes, the admin or
the clock. The claim window of the instance does not end: a holder who never
claims in 180 days loses its share by design.

### What the violated runs show

- `payouts_retry`: the header of payouts.ts says that a resumed epoch pays exactly
  the allocation it was opened with. A push whose confirmation times out is sent
  again under a new blockhash; when both land, the chain, which only checks sums,
  pays the same wallets twice, and the remaining wallets get less.
- `pegdesk_anchor`: pricing.rs says that a keeper cannot move the price by more
  than max_deviation_bps per window. The allowance counts windows begun, and the
  window in which the anchor moves is counted for both anchors: a trade exactly
  when a window has elapsed may move the anchor by twice the bound, each window.
- `migration_cycle`: the comment at findNewPosition says that the position is one
  whose DAMM pool is not recorded for any other pool. What is recorded is read
  from the pools table, which is written after the router's record. When the
  keeper stops between the two, the next cycle takes the same position for the
  pool that graduated since, and the router accepts it: that pool's DAMM claims
  then fail, since the position belongs to another memecoin. The comment's
  caveat is about pools that migrate in one cycle; here they do not.
- `indexer_routes`: ingest.ts says that ingesting again is a no-op. The key of a
  trade is its position among the swaps of the pools the table knew, and a swap
  through two pools that was ingested while only one of them was known is
  ingested again with other positions: one pool's trade is there twice, the
  other's is dropped as a duplicate.
- `candles_window`: candles.ts aggregates trades into candles, but cuts the trades
  at now - 48 h instead of a bucket's start, and the upsert replaces all columns:
  a candle the boundary passes through is rebuilt from its last trades.

Divergences that no run checks. saveEpochPlan (db.ts:262-270) replaces a plan of
phase `planned` also when the open_epoch made from it may still land; when it does,
the epoch is resumed under the later plan although payouts.ts:15-16 promises the
one it was opened with (`StoredPlanIsOpened` holds only in `payouts_faults`, where
errors are truthful). Three comments of the buyback's state.rs are older than its
code: max_per_cycle_usdc "0 = unlimited" (line 22; 0 is refused), the anchor "0 = unset
(first cycle sets it)" (line 28; a cycle without anchor is refused), and the anchor
moves "in either direction" (line 32; it only rises).

What backfill.ts:14 calls a completed run may have left transactions out, and a later
--resume does not look for them: pruned ones (line 133, a warning), failed ones (line
142, counted) and those with an event that does not decode (ingest.ts:91, a warning);
and, without a word, the oldest beyond --limit (line 79) and every trade of a pool
whose launch was among them, until the server's reconciliation adds the pool.
`CursorCovers` says that these are all. A run without --resume closes the gaps it
can still read.

## 4. Proofs

| theorem | says | module |
|---|---|---|
| `TypeCorrect` | `Spec => []TypeOK` | DistributorProofs |
| `SolventAlways` | `Spec => []EpochSolvent` | DistributorProofs |
| `AllocationBounded` | `Spec => []NeverOverAllocated` | DistributorProofs |
| `SettledForGood` | `Spec => SettledFrozen` | DistributorProofs |
| `SweepIsFinal` | `Spec => NoPayoutAfterSweep` | DistributorProofs |
| `ClaimIsOnce` | `Spec => ClaimedOnce` | DistributorProofs |
| `RoundTripNeverProfits` | buying and selling back at one price never gains | PegDeskProofs |
| `PegTypeCorrect` | `Spec => []TypeOK` | PegDeskProofs |
| `CountersSound` | `Spec => []CountersCoverFlow` | PegDeskProofs |
| `CacheSound` | `Spec => []CachedNeverOverstates` | PegDeskProofs |
| `NetFlowBounded` | `Spec => NetFlowCapped` | PegDeskProofs |
| `BackingKept` | `Spec => TradesKeepBacking` | PegDeskProofs |
| `AnchorIsPaced` | `Spec => AnchorPaced` | PegDeskProofs |
| `FeeRouterTypeCorrect` | `Spec => []TypeOK` | FeeRouterProofs |
| `PoolsGetOwnFees` | `Spec => []HoldersGetOwnFees` | FeeRouterProofs |
| `RoundingBounded` | `Spec => []SplitKeepsShares` | FeeRouterProofs |
| `OutsidersArePaced` | `Spec => OutsidersPaced` | FeeRouterProofs |
| `BooksAlwaysMatch` | `Spec => []BooksMatchPayments` | DistributorProofs |
| `ClaimsAlwaysPayable` | `Spec => []ClaimsStayPayable` | DistributorProofs |
| `SharedVaultsAlwaysAddUp` | `Spec => []SharedVaultsAddUp` | FeeRouterProofs |
| `PayoutsRunTheDistributor` | `PayoutsSpec => Spec` | PayoutsProofs |
| `PayoutsTypeCorrect` | `PayoutsSpec => []PayoutsTypeOK` | PayoutsProofs |
| `EpochsOpenInTurn` | `PayoutsSpec => []OneEpochAtATime` | PayoutsProofs |
| `ServedLeavesMatchRoot` | `PayoutsSpec => []LeavesMatchRoot` | PayoutsProofs |
| `RowsAlwaysLandedPushes` | `PayoutsSpec => []RowsAreLandedPushes` | PayoutsProofs |
| `StoredPlanKept` | `~LateLanding => (PayoutsSpec => []StoredPlanIsOpened)` | PayoutsProofs |
| `AllocationIsExact` | `~LateLanding => (PayoutsSpec => []ExactAllocation)` | PayoutsProofs |
| `PayoutsImplementIdeal` | `~LateLanding => (PayoutsSpec => ImplementsIdeal)` | PayoutsProofs |
| `MigrationRunsTheRouter` | `MigrationSpec => Spec` | MigrationProofs |
| `RecordsAlwaysOwn` | `Settled => (MigrationSpec => []RecordsOwnPosition)` | MigrationProofs |
| `RowsAlwaysMatch` | `Settled => (MigrationSpec => []RowsMatchRecords)` | MigrationProofs |
| `RecentCandlesAlwaysWhole` | `CandlesSpec => [](CandlesType /\ RecentCandlesWhole)` | ServicesProofs |
| `HaltAlwaysStands` | `SessionsSpec => HaltStands` | ServicesProofs |
| `RowNeverHides` | `SessionsSpec => []RowHidesNothing` | ServicesProofs |
| `MirrorAlwaysNewest` | `PricesSpec => []MirrorIsNewestRow` | ServicesProofs |
| `BreakerHolds` | `BuybackSpec => []RateFloor` | ServicesProofs |
| `RateAcceptedAgain` | `BuybackSpec => []SameRateAccepted` | ServicesProofs |
| `SpendAlwaysPaced` | `BuybackSpec => []SpendPaced` | ServicesProofs |
| `QuotesAlwaysFit` | `BuybackSpec => []QuoteFits` | ServicesProofs |
| `RowsStayTrue` | `IndexerSpec => [](RowsInv /\ JobType)` | IndexerProofs |
| `TypeCorrect` | `IndexerSpec => []IndexerTypeOK` | IndexerProofs |
| `BooksStayHonest` | `IndexerSpec => []EpochBooksHonest` | IndexerProofs |
| `NoShareCountedTwice` | `IndexerSpec => []EarningsCountedOnce` | IndexerProofs |
| `BalancesStayReplays` | `IndexerSpec => []BalancesAreReplays` | IndexerProofs |
| `CursorsStayCovered` | `IndexerSpec => []CursorCovers` | IndexerProofs |

They hold for every number of epochs, wallets, routers, pools, coins, positions and
actors, every u64, every clock and every parameter, under `DistributorAssumption`,
`PricingAssumption`, `PegDeskAssumption`, `FeeRouterAssumption`, `CandlesAssumption`,
`PricesAssumption`, `BuybackAssumption`, `PayoutsAssumption`, `MigrationAssumption` and
`IndexerAssumption`, which say of the constants what their types and the validating
setters say; the last also that pools, wallets and epochs are finitely many, as
counting needs, and that epochs are numbered from 0.

Distributor. None of the safety properties is inductive. `EpochInv` relates, for
each epoch, the vault to the books (`vault + pushed + claimed >= total` until the
sweep), ties the root to `finalized` and the sweep to the end of the claim window.
That last part is why a swept epoch cannot pay: claims are closed by the clock,
which never goes back, pushes by `finalized`. The proof goes action by action; the
epochs an action does not touch keep their part, the touched one is arithmetic.

Sums. A book is the sum of what wallets received, a shared vault that of what its
pools booked. `ArithmeticLemmas` proves what such arguments need about the sum over
a finite set: that one element can be taken out (`SumTake`), that equal terms
give equal sums (`SumSame`), that sums add, compare and can be indexed anew
(`SumAdd`, `SumLeq`, `SumReindex`). `BooksAlwaysMatch` and `SharedVaultsAlwaysAddUp` take
out the wallet or the pool an action touches. `ClaimsAlwaysPayable` compares two sums
over the leaves of an honest root: those already claimed, which is the book
`claimed_amount`, and all of them, which is at most `merkle_total`; the leaf that is
not claimed is the room between the two, and `EpochInv` says the vault has the coins.

Payouts. Every step of the cycle is a step of `Distributor` or leaves it alone
(`PayoutsRunTheDistributor`), so `EpochInv` and the books hold of the cycle too. `PInv`
is what holds whatever lands late. `ChainInv`: a transaction that was sent was
right when it was sent and still is (`IxOK`), since a plan is frozen once its epoch
is `Started`; the events tell what the pushes did, and rows come from events
(`EventsOK`); at finalize the rows are the pushes, wallet by wallet, and with the
leaves they make the plan (`FinalizedOK`). `KeeperInv` says at each await what the
locals still know of the tables and the chain. The one step where the argument is
not local is the landing of finalize_epoch: rows are at most the pushes for each
wallet, rows and leaves cover the plan, pushes and leaves together are at most the
funding, and the plan is the funding; so all of these are equal. `TruthInv` adds
what only truthful answers give: there is never a transaction in flight but the
one the cycle waits for (`OneInFlight`), so what the cycle read stays true, nobody in
the queue has been pushed (`CycleTruth`), the database is at most one epoch ahead of
the chain (`KnownInTurn`), and each wallet got its whole share of the plan of the
open that landed, or nothing (`AsOpened`). With late landings the
allocation is not exact, as `payouts_retry` shows, so these three theorems have
the hypothesis `~LateLanding`. The refinement maps the open that
lands to `Open`, the pushes and claims that land to `Pay`, and everything else to a
stutter.

Migration. Every step is one of the router's (`MigrationRunsTheRouter`). `MInv`
says that graduation is the only way a position comes to the router, one per pool
(`OwnedOnce`); that of the pools that have graduated at most one is not yet in the
table (`Lonely`, which is what `Settled` is for); that records, transactions in
flight and events name the pool's own position (`RecordsOwn`); and that all other
owned positions are known by the time the cycle picks one (`CycleOwn`), so the one
it finds is the pool's own. `migration_cycle` shows that without `Settled` records can
be another pool's.

Peg desk. `IInv` adds to the types that the counters cover the net flow and the
cache does not exceed the vault. `CountersCoverFlow` is preserved because a
release stops at zero while the flow may go negative, and because whichever
counter rolls resets both. `TradesKeepBacking` rests on four lemmas
about the direction of every rounding (`DivLemma`, `CeilDivLemma`
and the bounds on ask and bid): a buy pays at least the price for its coins, a
sell receives at most the price.

Fee router. `IInv` joins to the types and to the two properties what makes them
inductive. `BlankUntilRegistered`: a pool without an account has no books, so that
registration, which writes zeros, loses nothing. `SplitSeen`: the split in force
is one of `splitsSeen`, which a claim needs to name the split that bounds its
rounding. `ClocksOrdered`: an outsider's last claim is no later than the pool's
clock, and that no later than the time, so that the gate on `last_claim_ts` bounds
the distance between outsiders' claims although keepers' claims set it too. The three
claims differ in their source only, so one lemma about `SplitToVaults` serves all;
`SplitKeepsShares` rests on `DivLemma` and on the fact that the split with the
lowest and the one with the highest share among those seen bound every claim.

Market. `SessionsInv` says where the row can differ from the status in an orderly
run: only while an event is not handed over, between a flip's landing and its
update, or when that update came after another status (`overtaken`, then `behind`);
and that the last event is the status. `PricesInv` says that posts have
different times, since the program asks each to be newer; without it two rows
could share a key and the mirror be that of neither. A bucket that starts inside
the window has all its trades inside it (`InsideWindow`), by the division alone.

Buyback. `BuybackInv` adds that the anchor has only risen since the admin set it,
so the floor of the first anchor stays below every later one (`ShareMono`); that
each cycle since the pace was set has an interval of its own (`CyclesPaced`), from
which the bound on the spending follows with `DivStep`; and that a quote is what
the keeper's formulas make of what it saw (`QuoteHonest`). `SizesOfQuote` is the heart
of `QuotesAlwaysFit`: the output at the base bid is at most the cap, and the larger
the haircut, the smaller the share (`ShareAnti`), so the route's amount is at least
the smallest spend the program accepts as long as the keeper's 0.9 % is less than
the program's 1 %.

Indexer. `RowsInv` is the one inductive invariant behind all six theorems: whatever a
row says is so on the chain (`DbTrue`, table by table), the chain has every pool's
launch before anything about it (`ChainInv`), and what the keeper has done on the
chain has the rows it relied on (`KeeperKnows`). Two facts make the argument short.
The chain only grows, and each fact a row states stays true (`LandingKeepsRows`).
And every writer, whichever process runs it, is a sequence of the same few writes
(`UpsertPool`, `UpsertEpoch`, `Payout`, `FinalizeRow`, ...); each takes a database that is
sound to one that is sound and has lost no row (`Sound`, `Grows`), so ingestTransaction
and the backfill's steps are chains of such lemmas. The delicate write is `Payout`: it
counts only when its row is new and the epoch is not yet marked finalized, so the
count is at most the rows until EpochFinalized replaces it by what the chain paid.
The share that is claimed is taken from the leaves in the same write, also when the
leaves come later, which is why no share is counted twice. `Balanced` adds that a
balance is the sum of its recorded moves: writeBalanceDeltas adds to the record
exactly the moves it adds to the balance (`DeltasBalanced`, with the sums over finite
sets of `ArithmeticLemmas`).

Cursors need more. `CursorInv` says that every transaction at or before the newest
one a run has listed of an address is still in `sigs`, has its rows or is a gap
(`NewestCovered`), so writing that one as the cursor passes over gaps only; that a run
only lists addresses of its pool, whose transactions are about that pool
(`JobListed`, `JobAbout`); and that the pool is in the table, or its launch is the first
of `sigs`, or is a gap (`JobReady`), since rows of a pool the table does not know are
not written. That a pool with a cursor is known or has its launch among the gaps
(`KnownCursors`) is what an `Orphan` rests on: a transaction ingested of any other pool
before the cursor gets its rows (`IngestCovers`), also when an earlier run had left it
out. The theorem has no hypothesis about --limit, and of a swap through several pools
it promises one trade: which pool's is the question of `indexer_routes`.

Four theorems state properties no run checks: `SettledForGood`, `ClaimIsOnce`,
`CacheSound` and `RowsStayTrue`. They are part of the inductive argument or close to
the guards.

Only model-checked: the two liveness properties (`EveryHolderPaid` of `Payouts`,
`GraduatesClaimed` of `Migration`), since fairness and the `ENABLED` of `Reject` are out of
TLAPS's reach; and the violated properties.

## 5. Not modelled

The components with their reasons are in PROJECT.json. In short:

- of the peg desk, Pyth and Switchboard accounts, metadata and several commodities
  at once;
- of the keeper, the Pyth path of the oracle cycle (batches, rejected feeds, the
  receiver's transactions), the price sources and their medians, and the
  thresholds and `fee_claims` rows of the fee cycle; the calendars of the session
  cycle are any sequence of open and closed;
- of the indexer, decoding of payloads and of Anchor events, metadata, rows that are inserted once, rollups other than the earnings, and the
  read-only queries of the API;
- TWAB and Merkle hashing: a TWAB is any of a set of outcomes and a tree the set of
  its leaves, so what the models say holds for whichever values these functions
  return, and what they compute is left to their unit tests;
- the parts without state of their own: sdk builders and layouts, registry, web,
  scripts.

## 6. Plan

Done: 1. Distributor. 2. Payouts over Distributor and IdealPayouts. 3. PegPricing
and PegDesk. 4. FeeRouter, and Migration over it. 5. Buyback. 6. Indexer, Candles,
Sessions and Prices. 7. Proofs of every invariant and safety property that a
passing run checks, with the refinements of 2 and 4.

Open, in this order:

8. Twab as a pure function against the integral of the balance, and the Merkle
   tree's odd leaves, over bounded inputs.
9. The Pyth path of the oracle cycle.
