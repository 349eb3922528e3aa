----------------------------- MODULE PegPricing -----------------------------
(***************************************************************************)
(* programs/peg_desk/src/pricing.rs: the pure arithmetic of the desk.      *)
(* USDC and every COIN have the same number of decimals, so DEC_NUM and    *)
(* DEC_DEN are 1.  Intermediates are u128 in the code and cannot overflow  *)
(* for u64 arguments except where noted; integers here are unbounded.      *)
(***************************************************************************)
EXTENDS Integers

CONSTANTS
  PRICE_SCALE,            \* a price of $1.00
  BPS,                    \* basis points in the whole
  MAX_SPREAD_BPS,
  MAX_DEVIATION_WINDOWS,
  Unlimited               \* u64::MAX, the ratio when nothing is owed

ASSUME PricingAssumption ==
  /\ PRICE_SCALE \in Nat \ {0}
  /\ BPS \in Nat \ {0}
  /\ MAX_SPREAD_BPS \in 0..BPS
  /\ MAX_DEVIATION_WINDOWS \in Nat \ {0}
  /\ Unlimited \in Nat

Least(m, n) == IF m <= n THEN m ELSE n

\* saturating_sub on u64
Minus(m, n) == IF m >= n THEN m - n ELSE 0

CeilDiv(n, d) == n \div d + (IF n % d = 0 THEN 0 ELSE 1)

AbsDiff(m, n) == IF m >= n THEN m - n ELSE n - m

(***************************************************************************)
(* Quotes                                                                  *)
(***************************************************************************)

\* p is the market's parameters; doubled when the reserve is below warn.
EffectiveSpread(p, conf, price, age, maxAge, closed, ratio, warn) ==
  LET base == IF closed THEN p.closed_spread_bps ELSE p.base_spread_bps
      confTerm == CeilDiv(p.conf_mult_bps * conf * 100, price)
      half == maxAge \div 2
      ageTerm == IF age > half /\ maxAge > half
                 THEN CeilDiv(p.base_spread_bps * (Least(age, maxAge) - half), maxAge - half)
                 ELSE 0
      sum == base + confTerm + ageTerm
  IN Least(IF ratio < warn THEN 2 * sum ELSE sum, MAX_SPREAD_BPS)

Ask(price, spread) == CeilDiv(price * (BPS + spread), BPS)

Bid(price, spread) == (price * Minus(BPS, spread)) \div BPS

CoinOutForUsdc(usdcIn, ask) == (usdcIn * PRICE_SCALE) \div ask

\* faulty: the price of an exact amount is rounded down
UsdcInForCoin_roundsDown(coinOut, ask) == (coinOut * ask) \div PRICE_SCALE

UsdcInForCoin(coinOut, ask) == CeilDiv(coinOut * ask, PRICE_SCALE)

UsdcOutForCoin(coinIn, bid) == (coinIn * bid) \div PRICE_SCALE

ReserveRatio(reserve, supply, price) ==
  IF supply = 0 \/ price = 0 THEN Unlimited
  ELSE (reserve * BPS * PRICE_SCALE) \div (supply * price)

ConfBps(conf, price) == CeilDiv(conf * BPS, price)

(***************************************************************************)
(* Circuit breakers                                                        *)
(***************************************************************************)
DeviationBps(price, last) == CeilDiv(AbsDiff(price, last) * BPS, last)

\* The deviation windows begun since the anchor was set.
Windows(anchorTs, now, windowSecs) ==
  IF windowSecs = 0 THEN 1
  ELSE Least(Minus(now, anchorTs) \div windowSecs + 1, MAX_DEVIATION_WINDOWS)

DeviationOK(price, anchor, now, maxDeviation, windowSecs) ==
  maxDeviation > 0 /\ anchor.price > 0 =>
    DeviationBps(price, anchor.price) <= maxDeviation * Windows(anchor.ts, now, windowSecs)

\* faulty: every trade moves the anchor
ShouldReanchor_always(anchor, now, windowSecs) == TRUE

ShouldReanchor(anchor, now, windowSecs) ==
  anchor.price = 0 \/ now - anchor.ts >= windowSecs

\* window_add: the start of the window now runs in, and what it has used.
WindowStart(start, now, secs) == IF now - start >= secs THEN now ELSE start

\* faulty: forgets what the window used one second before it ends
WindowUsed_early(start, used, now, secs) == IF now - start + 1 >= secs THEN 0 ELSE used

WindowUsed(start, used, now, secs) == IF now - start >= secs THEN 0 ELSE used

FitsCap(used, cap) == cap = 0 \/ used <= cap

\* faulty: does not stop at zero
WindowRelease_wraps(used, amount) == used - amount

\* faulty: the operands are swapped
WindowRelease_swapped(used, amount) == Minus(amount, used)

WindowRelease(used, amount) == Minus(used, amount)
=============================================================================
