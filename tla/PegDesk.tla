------------------------------ MODULE PegDesk ------------------------------
(***************************************************************************)
(* The peg_desk program (programs/peg_desk) for one commodity whose price  *)
(* keepers sign (OracleKind::KeeperSigned): one action per instruction.    *)
(* Users buy the coin from the desk at the ask, which mints it, and sell   *)
(* it back at the bid, which burns it; the desk holds the USDC reserve.    *)
(***************************************************************************)
EXTENDS PegPricing, FiniteSets

CONSTANTS
  Actors,           \* signers that may be admin, keeper or the exempt seller
  Deployer,         \* the upgrade authority, first admin
  NoKey,            \* Pubkey::default()
  MAX_KEEPERS,
  ParamSets,        \* the market parameters the admin may set
  MAX_CONF_BPS,     \* config.max_conf_bps
  RESERVE_WARN_BPS, \* config.reserve_warn_bps
  RESERVE_HALT_BPS, \* config.reserve_halt_bps
  DAILY_WINDOW_SECS,
  DEFAULT_MAX_MOVE_BPS,
  DEFAULT_MIN_INTERVAL,
  MAX_FUTURE_SKEW_SECS,
  KeeperBounds,     \* (max_move_bps, min_interval) pairs the admin may set
  Prices, Confs,    \* prices and confidences keepers post
  UsdcSupply,       \* USDC that exists
  StartTime,        \* the clock when the market is created
  MaxTime           \* bound on the clock, for TLC only

Params ==
  [base_spread_bps : 0..MAX_SPREAD_BPS, closed_spread_bps : 0..MAX_SPREAD_BPS,
   conf_mult_bps : Nat, max_age_open : Nat \ {0}, max_age_closed : Nat \ {0},
   supply_cap : Nat, per_tx_cap : Nat, daily_mint_cap : Nat, daily_redeem_cap : Nat,
   max_deviation_bps : 0..BPS, deviation_window_secs : Nat]

ASSUME PegDeskAssumption ==
  /\ Deployer \in Actors /\ NoKey \notin Actors
  /\ MAX_CONF_BPS \in Nat /\ RESERVE_WARN_BPS \in Nat /\ RESERVE_HALT_BPS \in Nat
  /\ ParamSets \subseteq Params                  \* validate_market_params
  /\ \A p \in ParamSets : p.per_tx_cap <= p.supply_cap
  /\ DAILY_WINDOW_SECS \in Nat \ {0}
  /\ DEFAULT_MAX_MOVE_BPS \in Nat /\ DEFAULT_MIN_INTERVAL \in Nat
  /\ MAX_FUTURE_SKEW_SECS \in Nat
  /\ KeeperBounds \subseteq [max_move_bps : 1..BPS, min_interval : Nat \ {0}]
  /\ Prices \subseteq Nat \ {0} /\ Confs \subseteq Nat
  /\ UsdcSupply \in Nat /\ StartTime \in Nat /\ MaxTime \in Nat

VARIABLES
  now,
  admin, pendingAdmin, keepers, paused, exempt,     \* GlobalConfig
  status, params,   \* Commodity: status, and what set_commodity_params sets
  last,             \* last_price, last_publish_time
  anchor,           \* anchor_price, anchor_ts
  window,           \* window_start, window_minted, window_redeemed
  kp,               \* the KeeperPrice account
  reserve,          \* USDC in the reserve vault
  cached,           \* reserve_balance_cached
  supply,           \* coins minted and not burned
  treasury,         \* USDC swept
  flow,             \* history: net coins minted and net USDC redeemed by users
                    \* who are not exempt, since the window started
  base              \* history: the anchor set first since it was cleared or
                    \* the deviation parameters were changed

configVars == <<admin, pendingAdmin, keepers, paused, exempt>>
marketVars == <<last, anchor, window, flow, base>>
moneyVars == <<reserve, cached, supply, treasury>>
vars == <<now, configVars, status, params, marketVars, kp, moneyVars>>

NoAnchor == [price |-> 0, ts |-> 0]

(***************************************************************************)
(* initialize_config and create_commodity: the breakers start disabled.    *)
(***************************************************************************)
Init ==
  /\ now = StartTime
  /\ admin = Deployer /\ pendingAdmin = NoKey /\ keepers = {}
  /\ paused = FALSE /\ exempt = NoKey
  /\ status = "Open"
  /\ \E p \in ParamSets :
       params = [p EXCEPT !.daily_mint_cap = 0, !.daily_redeem_cap = 0,
                          !.max_deviation_bps = 0, !.deviation_window_secs = 0]
  /\ last = [price |-> 0, time |-> 0]
  /\ anchor = NoAnchor
  /\ window = [start |-> 0, minted |-> 0, redeemed |-> 0]
  /\ kp = [price |-> 0, conf |-> 0, publish_time |-> 0, last_update_ts |-> 0,
           max_move_bps |-> DEFAULT_MAX_MOVE_BPS, min_interval |-> DEFAULT_MIN_INTERVAL]
  /\ reserve = 0 /\ cached = 0 /\ supply = 0 /\ treasury = 0
  /\ flow = [minted |-> 0, redeemed |-> 0]
  /\ base = NoAnchor

UserUsdc == UsdcSupply - reserve - treasury

(***************************************************************************)
(* Admin                                                                   *)
(***************************************************************************)
IsAdminOrKeeper(who) == who = admin \/ who \in keepers

SetKeepers(a, ks) ==
  /\ a = admin
  /\ Cardinality(ks) <= MAX_KEEPERS
  /\ keepers' = ks
  /\ UNCHANGED <<now, admin, pendingAdmin, paused, exempt, status, params, marketVars,
                 kp, moneyVars>>

ProposeAdmin(a, new) ==
  /\ a = admin
  /\ pendingAdmin' = new
  /\ UNCHANGED <<now, admin, keepers, paused, exempt, status, params, marketVars, kp,
                 moneyVars>>

AcceptAdmin(a) ==
  /\ a = pendingAdmin
  /\ admin' = a
  /\ pendingAdmin' = NoKey
  /\ UNCHANGED <<now, keepers, paused, exempt, status, params, marketVars, kp, moneyVars>>

\* Keepers may pause, only the admin may resume.
SetGlobalPause(who, pause) ==
  /\ who = admin \/ (pause /\ who \in keepers)
  /\ paused' = pause
  /\ UNCHANGED <<now, admin, pendingAdmin, keepers, exempt, status, params, marketVars,
                 kp, moneyVars>>

SetRedeemCapExempt(a, who) ==
  /\ a = admin
  /\ exempt' = who
  /\ UNCHANGED <<now, admin, pendingAdmin, keepers, paused, status, params, marketVars,
                 kp, moneyVars>>

SetCommodityParams(a, p) ==
  /\ a = admin
  /\ params' = p
  /\ base' = NoAnchor
  /\ UNCHANGED <<now, configVars, status, last, anchor, window, flow, kp, moneyVars>>

ClearPriceAnchor(a) ==
  /\ a = admin
  /\ anchor' = NoAnchor
  /\ base' = NoAnchor
  /\ UNCHANGED <<now, configVars, status, params, last, window, flow, kp, moneyVars>>

\* Keepers: Open <-> Closed and anything to Halted.  Admin: anything.
SetStatus(who, new) ==
  /\ \/ who = admin
     \/ who \in keepers /\ (new = "Halted" \/ status # "Halted")
  /\ status' = new
  /\ UNCHANGED <<now, configVars, params, marketVars, kp, moneyVars>>

SetKeeperBounds(a, b) ==
  /\ a = admin
  /\ kp.price > 0                             \* the account exists
  /\ kp' = [kp EXCEPT !.max_move_bps = b.max_move_bps, !.min_interval = b.min_interval]
  /\ UNCHANGED <<now, configVars, status, params, marketVars, moneyVars>>

(***************************************************************************)
(* keeper_update_price                                                     *)
(***************************************************************************)
KeeperUpdatePrice(k, price, conf, publishTime) ==
  /\ k \in keepers
  /\ conf < price
  /\ publishTime <= now + MAX_FUTURE_SKEW_SECS
  /\ kp.publish_time # 0 =>
       /\ publishTime > kp.publish_time
       /\ now - kp.last_update_ts >= (IF kp.min_interval >= 1 THEN kp.min_interval ELSE 1)
  /\ kp.price > 0 => (AbsDiff(price, kp.price) * BPS) \div kp.price <= kp.max_move_bps
  /\ kp' = [kp EXCEPT !.price = price, !.conf = conf, !.publish_time = publishTime,
                      !.last_update_ts = now]
  /\ UNCHANGED <<now, configVars, status, params, marketVars, moneyVars>>

(***************************************************************************)
(* Trades                                                                  *)
(***************************************************************************)
MaxAge == IF status = "Open" THEN params.max_age_open ELSE params.max_age_closed

Age(time) == Minus(now, time)

\* quote: what every trade needs of the switches, the oracle and the anchor.
QuoteOK(isBuy) ==
  /\ ~paused
  /\ status # "Halted" /\ (isBuy => status = "Open")
  /\ kp.price > 0
  /\ Age(kp.publish_time) <= MaxAge
  /\ kp.publish_time >= last.time
  /\ ConfBps(kp.conf, kp.price) <= MAX_CONF_BPS
  /\ DeviationOK(kp.price, anchor, now, params.max_deviation_bps, params.deviation_window_secs)

Spread ==
  EffectiveSpread(params, kp.conf, kp.price, Age(kp.publish_time), MaxAge,
                  status = "Closed", ReserveRatio(reserve, supply, kp.price),
                  RESERVE_WARN_BPS)

\* The oracle bookkeeping at the end of a trade.
AcceptPrice ==
  LET set == [price |-> kp.price, ts |-> now]
      re == ShouldReanchor(anchor, now, params.deviation_window_secs)
  IN /\ last' = [price |-> kp.price, time |-> kp.publish_time]
     /\ anchor' = IF re THEN set ELSE anchor
     /\ base' = IF re /\ base.price = 0 THEN set ELSE base

Start == WindowStart(window.start, now, DAILY_WINDOW_SECS)
Rolls == Start # window.start

ExecuteBuy(usdcIn, coinOut) ==
  LET minted == WindowUsed(window.start, window.minted, now, DAILY_WINDOW_SECS) + coinOut
      redeemed == IF Rolls THEN 0 ELSE window.redeemed
  IN /\ usdcIn > 0 /\ coinOut > 0
     /\ coinOut <= params.per_tx_cap
     /\ supply + coinOut <= params.supply_cap
     /\ ReserveRatio(reserve + usdcIn, supply + coinOut, kp.price) >= RESERVE_HALT_BPS
     /\ FitsCap(minted, params.daily_mint_cap)
     /\ usdcIn <= UserUsdc                   \* the token program's check
     /\ reserve' = reserve + usdcIn
     /\ cached' = reserve'
     /\ supply' = supply + coinOut
     /\ window' = [start |-> Start, minted |-> minted,
                   redeemed |-> WindowRelease(redeemed, usdcIn)]
     /\ flow' = [minted |-> (IF Rolls THEN 0 ELSE flow.minted) + coinOut,
                 redeemed |-> (IF Rolls THEN 0 ELSE flow.redeemed) - usdcIn]
     /\ AcceptPrice
     /\ UNCHANGED <<now, configVars, status, params, kp, treasury>>

\* The caller's slippage limits only refuse a trade that would go through.
Buy(usdcIn) ==
  /\ QuoteOK(TRUE)
  /\ ExecuteBuy(usdcIn, CoinOutForUsdc(usdcIn, Ask(kp.price, Spread)))

BuyExactOut(coinOut) ==
  /\ QuoteOK(TRUE)
  /\ ExecuteBuy(UsdcInForCoin(coinOut, Ask(kp.price, Spread)), coinOut)

Sell(user, coinIn) ==
  LET usdcOut == UsdcOutForCoin(coinIn, Bid(kp.price, Spread))
      counted == IF user = exempt THEN 0 ELSE usdcOut
      cap == IF user = exempt THEN 0 ELSE params.daily_redeem_cap
      redeemed == WindowUsed(window.start, window.redeemed, now, DAILY_WINDOW_SECS) + counted
      minted == IF Rolls THEN 0 ELSE window.minted
  IN /\ QuoteOK(FALSE)
     /\ coinIn > 0 /\ usdcOut > 0
     /\ coinIn <= params.per_tx_cap
     /\ usdcOut <= reserve
     /\ FitsCap(redeemed, cap)
     /\ coinIn <= supply                     \* the seller has the coins
     /\ reserve' = reserve - usdcOut
     /\ cached' = reserve'
     /\ supply' = supply - coinIn
     /\ window' = [start |-> Start, minted |-> WindowRelease(minted, coinIn),
                   redeemed |-> redeemed]
     /\ flow' = [minted |-> (IF Rolls THEN 0 ELSE flow.minted) - coinIn,
                 redeemed |-> (IF Rolls THEN 0 ELSE flow.redeemed) + counted]
     /\ AcceptPrice
     /\ UNCHANGED <<now, configVars, status, params, kp, treasury>>

(***************************************************************************)
(* sweep_spread_fees, deposit_reserve                                      *)
(***************************************************************************)
SweepOK(who, amount) ==
  /\ IsAdminOrKeeper(who)
  /\ ~paused
  /\ amount > 0 /\ amount <= reserve
  /\ supply > 0 =>
       /\ last.price > 0
       /\ now - last.time <= MaxAge
       /\ ReserveRatio(reserve - amount, supply, last.price) >= RESERVE_WARN_BPS

SweepSpreadFees(who, amount) ==
  /\ SweepOK(who, amount)
  /\ reserve' = reserve - amount
  /\ cached' = reserve'
  /\ treasury' = treasury + amount
  /\ UNCHANGED <<now, configVars, status, params, marketVars, kp, supply>>

DepositReserve(amount) ==
  /\ amount > 0 /\ amount <= UserUsdc
  /\ reserve' = reserve + amount
  /\ cached' = reserve'
  /\ UNCHANGED <<now, configVars, status, params, marketVars, kp, supply, treasury>>

(***************************************************************************)
(* The surroundings: the clock, and a plain transfer to the reserve vault  *)
(***************************************************************************)
Tick ==
  /\ now < MaxTime
  /\ now' = now + 1
  /\ UNCHANGED <<configVars, status, params, marketVars, kp, moneyVars>>

TransferToReserve(amount) ==
  /\ amount > 0 /\ amount <= UserUsdc
  /\ reserve' = reserve + amount
  /\ UNCHANGED <<now, configVars, status, params, marketVars, kp, cached, supply, treasury>>

Next ==
  \/ \E a \in Actors, ks \in SUBSET Actors : SetKeepers(a, ks)
  \/ \E a \in Actors, b \in Actors \cup {NoKey} : ProposeAdmin(a, b) \/ SetRedeemCapExempt(a, b)
  \/ \E a \in Actors : AcceptAdmin(a) \/ ClearPriceAnchor(a)
  \/ \E a \in Actors, b \in BOOLEAN : SetGlobalPause(a, b)
  \/ \E a \in Actors, p \in ParamSets : SetCommodityParams(a, p)
  \/ \E a \in Actors, new \in {"Open", "Closed", "Halted"} : SetStatus(a, new)
  \/ \E a \in Actors, b \in KeeperBounds : SetKeeperBounds(a, b)
  \/ \E k \in Actors, price \in Prices, conf \in Confs,
        t \in 0..(now + MAX_FUTURE_SKEW_SECS) : KeeperUpdatePrice(k, price, conf, t)
  \/ \E amount \in 1..UsdcSupply :
       Buy(amount) \/ DepositReserve(amount) \/ TransferToReserve(amount)
  \/ \E coins \in 1..params.per_tx_cap : BuyExactOut(coins)
  \/ \E user \in Actors, coins \in 1..params.per_tx_cap : Sell(user, coins)
  \/ \E who \in Actors, amount \in 1..UsdcSupply : SweepSpreadFees(who, amount)
  \/ Tick

Spec == Init /\ [][Next]_vars
-----------------------------------------------------------------------------
(***************************************************************************)
(* Properties                                                              *)
(***************************************************************************)

\* The accounts keep their layout: what trades and sweeps take out of the
\* reserve and the supply is always there.
TypeOK ==
  /\ now \in Nat
  /\ admin \in Actors /\ pendingAdmin \in Actors \cup {NoKey}
  /\ keepers \in SUBSET Actors /\ paused \in BOOLEAN /\ exempt \in Actors \cup {NoKey}
  /\ status \in {"Open", "Closed", "Halted"} /\ params \in Params
  /\ last \in [price : Nat, time : Nat] /\ anchor \in [price : Nat, ts : Nat]
  /\ window \in [start : Nat, minted : Nat, redeemed : Nat]
  /\ kp \in [price : Nat, conf : Nat, publish_time : Nat, last_update_ts : Nat,
             max_move_bps : Nat, min_interval : Nat]
  /\ reserve \in Nat /\ cached \in Nat /\ supply \in Nat /\ treasury \in Nat
  /\ reserve + treasury <= UsdcSupply
  /\ flow \in [minted : Int, redeemed : Int] /\ base \in [price : Nat, ts : Nat]

\* The reserve covers every coin at a price.
Backed(price) == reserve * PRICE_SCALE >= supply * price

\* Rounding favours the reserve: no trade, of whatever size and whatever came
\* before it, turns a reserve that covers the supply at the trade's price into
\* one that does not.
BackingStep == supply' # supply /\ Backed(kp.price) => Backed(kp.price)'
TradesKeepBacking == [][BackingStep]_vars

\* The daily caps bound the net flow of their window: a buy never takes the
\* coins minted less those burned since the window began above the mint cap,
\* and a sell by anyone who is not exempt never takes the USDC paid out less
\* that paid in above the redeem cap, in whatever order trades released
\* capacity, the window rolled and the exempt seller sold.
NetFlowStep ==
  /\ supply' > supply /\ params.daily_mint_cap > 0 => flow'.minted <= params.daily_mint_cap
  /\ flow'.redeemed > flow.redeemed /\ supply' < supply /\ params.daily_redeem_cap > 0 =>
       flow'.redeemed <= params.daily_redeem_cap
NetFlowCapped == [][NetFlowStep]_vars

\* The counters never understate the net flow of their window.
CountersCoverFlow == flow.minted <= window.minted /\ flow.redeemed <= window.redeemed

\* A trade moves the anchor only when a whole deviation window has passed, and
\* by no more than max_deviation_bps for each window begun: small trades in
\* between cannot walk it.
AnchorStep ==
  anchor' # anchor /\ anchor.price # 0 /\ anchor'.price # 0 =>
    /\ now - anchor.ts >= params.deviation_window_secs
    /\ params.max_deviation_bps > 0 =>
         AbsDiff(anchor'.price, anchor.price) * BPS <=
           anchor.price * params.max_deviation_bps
             * Windows(anchor.ts, now, params.deviation_window_secs)
AnchorPaced == [][AnchorStep]_vars

\* What the account says the reserve holds is never more than it holds.
CachedNeverOverstates == cached <= reserve

\* pricing.rs:227-228: "a keeper cannot jump more than max_deviation_bps per
\* window of validator time regardless of how many posts or trades it makes".
\* Over n windows since the first anchor the anchor has moved up at most by
\* max_deviation_bps, compounded, n + 1 times (one more than the words allow).
OneDeviationPerWindow ==
  LET n == (anchor.ts - base.ts) \div params.deviation_window_secs + 1
  IN base.price # 0 /\ params.max_deviation_bps > 0 /\ params.deviation_window_secs > 0 =>
       anchor.price * BPS ^ n <= base.price * (BPS + params.max_deviation_bps) ^ n

\* The inductive invariant of the proofs.
IInv == TypeOK /\ CountersCoverFlow /\ CachedNeverOverstates
=============================================================================
