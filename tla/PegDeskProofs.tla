--------------------------- MODULE PegDeskProofs ---------------------------
(***************************************************************************)
(* Theorems about PegPricing and PegDesk, for every value of their         *)
(* constants: which way each quote of pricing.rs rounds, and what the desk *)
(* keeps through any sequence of its instructions.                         *)
(***************************************************************************)
EXTENDS PegDesk, ArithmeticLemmas, TLAPS

\* ceil_div rounds up.
LEMMA CeilDivLemma ==
  ASSUME NEW n \in Nat, NEW d \in Nat \ {0}
  PROVE  CeilDiv(n, d) \in Nat /\ n <= d * CeilDiv(n, d)
<1>1. n \div d \in Nat /\ n % d \in 0..(d - 1) /\ n = d * (n \div d) + (n % d)
  BY SMT
<1>2. CASE n % d = 0
  BY <1>1, <1>2 DEF CeilDiv
<1>3. CASE n % d # 0
  <2>1. CeilDiv(n, d) = n \div d + 1
    BY <1>3 DEF CeilDiv
  <2>2. d * (n \div d + 1) = d * (n \div d) + d
    BY <1>1
  <2> QED BY <1>1, <2>1, <2>2
<1> QED BY <1>2, <1>3

\* The ask is never below the price and the bid never above it (pricing::ask,
\* pricing::bid), whatever the spread.
LEMMA AskAtLeastPrice ==
  ASSUME NEW price \in Nat, NEW spread \in Nat
  PROVE  Ask(price, spread) \in Nat /\ price <= Ask(price, spread)
<1> USE PricingAssumption
<1> DEFINE n == price * (BPS + spread)
<1>1. n \in Nat /\ price * BPS <= n
  BY TimesMono
<1>2. Ask(price, spread) = CeilDiv(n, BPS)
  BY DEF Ask
<1>3. CeilDiv(n, BPS) \in Nat /\ n <= BPS * CeilDiv(n, BPS)
  BY <1>1, CeilDivLemma
<1>4. BPS * price <= BPS * CeilDiv(n, BPS)
  <2>1. BPS * price = price * BPS /\ BPS * price \in Nat /\ BPS * CeilDiv(n, BPS) \in Nat
    BY <1>3
  <2> QED BY <1>1, <1>3, <2>1
<1> QED BY <1>2, <1>3, <1>4, TimesCancel

LEMMA BidAtMostPrice ==
  ASSUME NEW price \in Nat, NEW spread \in Nat
  PROVE  Bid(price, spread) \in Nat /\ Bid(price, spread) <= price
<1> USE PricingAssumption
<1> DEFINE n == price * Minus(BPS, spread)
<1>1. Minus(BPS, spread) \in Nat /\ Minus(BPS, spread) <= BPS
  BY DEF Minus
<1>2. n \in Nat /\ n <= price * BPS
  BY <1>1, TimesMono
<1>3. Bid(price, spread) = n \div BPS
  BY DEF Bid
<1>4. n \div BPS \in Nat /\ BPS * (n \div BPS) <= n
  BY <1>2, DivLemma
<1>5. BPS * (n \div BPS) <= BPS * price
  <2>1. BPS * price = price * BPS /\ BPS * price \in Nat /\ BPS * (n \div BPS) \in Nat
    BY <1>4
  <2> QED BY <1>2, <1>4, <2>1
<1> QED BY <1>3, <1>4, <1>5, TimesCancel

\* A buyer pays at least the ask for the coins received (coin_out_for_usdc,
\* usdc_in_for_coin), a seller receives at most the bid (usdc_out_for_coin).
LEMMA BuyerPaysAsk ==
  ASSUME NEW u \in Nat, NEW ask \in Nat \ {0}
  PROVE  /\ CoinOutForUsdc(u, ask) \in Nat
         /\ CoinOutForUsdc(u, ask) * ask <= u * PRICE_SCALE
<1>1. u * PRICE_SCALE \in Nat
  BY PricingAssumption
<1> DEFINE c == (u * PRICE_SCALE) \div ask
<1>2. c \in Nat /\ ask * c <= u * PRICE_SCALE
  BY <1>1, DivLemma
<1>3. ask * c = c * ask
  BY <1>2
<1> QED BY <1>2, <1>3 DEF CoinOutForUsdc

LEMMA ExactBuyerPaysAsk ==
  ASSUME NEW c \in Nat, NEW ask \in Nat
  PROVE  /\ UsdcInForCoin(c, ask) \in Nat
         /\ c * ask <= UsdcInForCoin(c, ask) * PRICE_SCALE
<1>1. c * ask \in Nat /\ PRICE_SCALE \in Nat \ {0}
  BY PricingAssumption
<1> DEFINE u == CeilDiv(c * ask, PRICE_SCALE)
<1>2. u \in Nat /\ c * ask <= PRICE_SCALE * u
  BY <1>1, CeilDivLemma
<1>3. PRICE_SCALE * u = u * PRICE_SCALE
  BY <1>1, <1>2
<1> QED BY <1>2, <1>3 DEF UsdcInForCoin

LEMMA SellerGetsBid ==
  ASSUME NEW c \in Nat, NEW bid \in Nat
  PROVE  /\ UsdcOutForCoin(c, bid) \in Nat
         /\ UsdcOutForCoin(c, bid) * PRICE_SCALE <= c * bid
<1>1. c * bid \in Nat /\ PRICE_SCALE \in Nat \ {0}
  BY PricingAssumption
<1> DEFINE u == (c * bid) \div PRICE_SCALE
<1>2. u \in Nat /\ PRICE_SCALE * u <= c * bid
  BY <1>1, DivLemma
<1>3. PRICE_SCALE * u = u * PRICE_SCALE
  BY <1>1, <1>2
<1> QED BY <1>2, <1>3 DEF UsdcOutForCoin

\* Buying and selling back at one oracle price never returns more USDC than
\* was spent, whatever the two spreads: rounding cannot be farmed by splitting
\* an amount into dust.
THEOREM RoundTripNeverProfits ==
  ASSUME NEW price \in Nat \ {0}, NEW s1 \in Nat, NEW s2 \in Nat, NEW u \in Nat
  PROVE  UsdcOutForCoin(CoinOutForUsdc(u, Ask(price, s1)), Bid(price, s2)) <= u
<1> DEFINE ask == Ask(price, s1)
           bid == Bid(price, s2)
           c == CoinOutForUsdc(u, ask)
           out == UsdcOutForCoin(c, bid)
<1>1. ask \in Nat \ {0} /\ price <= ask
  BY AskAtLeastPrice
<1>2. bid \in Nat /\ bid <= price
  BY BidAtMostPrice
<1> HIDE DEF ask, bid
<1>3. c \in Nat /\ c * ask <= u * PRICE_SCALE
  BY <1>1, BuyerPaysAsk
<1> HIDE DEF c
<1>4. out \in Nat /\ out * PRICE_SCALE <= c * bid
  BY <1>2, <1>3, SellerGetsBid
<1> HIDE DEF out
<1>5. c * bid <= c * ask /\ c * bid \in Nat /\ c * ask \in Nat
  BY <1>1, <1>2, <1>3, TimesMono
<1>6. PRICE_SCALE * out <= PRICE_SCALE * u
  <2>1. /\ PRICE_SCALE * out = out * PRICE_SCALE /\ PRICE_SCALE * out \in Nat
        /\ PRICE_SCALE * u = u * PRICE_SCALE /\ PRICE_SCALE * u \in Nat
    BY <1>4, PricingAssumption
  <2> QED BY <1>3, <1>4, <1>5, <2>1
<1>7. out <= u
  BY <1>4, <1>6, TimesCancel, PricingAssumption
<1> QED BY <1>7 DEF out, c, ask, bid

-----------------------------------------------------------------------------
USE PegDeskAssumption, PricingAssumption

\* The quantities every trade computes from a well-typed state.
LEMMA SpreadType ==
  ASSUME TypeOK, kp.price > 0
  PROVE  Spread \in Nat
<1> DEFINE age == Age(kp.publish_time)
           flat == IF status = "Closed" THEN params.closed_spread_bps
                   ELSE params.base_spread_bps
           confTerm == CeilDiv(params.conf_mult_bps * kp.conf * 100, kp.price)
           half == MaxAge \div 2
           ageTerm == IF age > half /\ MaxAge > half
                      THEN CeilDiv(params.base_spread_bps * (Least(age, MaxAge) - half),
                                   MaxAge - half)
                      ELSE 0
           sum == flat + confTerm + ageTerm
<1>1. /\ params.base_spread_bps \in Nat /\ params.closed_spread_bps \in Nat
      /\ params.conf_mult_bps \in Nat
      /\ params.max_age_open \in Nat /\ params.max_age_closed \in Nat
      /\ kp.conf \in Nat /\ kp.price \in Nat /\ kp.publish_time \in Nat /\ now \in Nat
  BY DEF TypeOK, Params
<1>2. flat \in Nat
  BY <1>1
<1>3. MaxAge \in Nat /\ age \in Nat
  BY <1>1 DEF MaxAge, Age, Minus
<1>4. half \in Nat
  BY <1>3, DivLemma
<1>5. confTerm \in Nat
  <2>1. params.conf_mult_bps * kp.conf * 100 \in Nat
    BY <1>1
  <2> QED BY <1>1, <2>1, CeilDivLemma
<1>6. ageTerm \in Nat
  <2>1. CASE age > half /\ MaxAge > half
    <3> HIDE DEF half, age
    <3>1. Least(age, MaxAge) - half \in Nat /\ MaxAge - half \in Nat \ {0}
      BY <1>3, <1>4, <2>1 DEF Least
    <3>2. params.base_spread_bps * (Least(age, MaxAge) - half) \in Nat
      BY <1>1, <3>1
    <3>3. CeilDiv(params.base_spread_bps * (Least(age, MaxAge) - half), MaxAge - half) \in Nat
      BY <3>1, <3>2, CeilDivLemma
    <3> QED BY <2>1, <3>3
  <2>2. CASE ~(age > half /\ MaxAge > half)
    BY <2>2
  <2> QED BY <2>1, <2>2
<1>7. sum \in Nat
  <2> HIDE DEF flat, confTerm, ageTerm
  <2> QED BY <1>2, <1>5, <1>6
<1> DEFINE ratio == ReserveRatio(reserve, supply, kp.price)
           spread == Least(IF ratio < RESERVE_WARN_BPS THEN 2 * sum ELSE sum, MAX_SPREAD_BPS)
<1>8. Spread = spread
  BY DEF Spread, EffectiveSpread
<1>9. spread \in Nat
  <2> HIDE DEF sum, ratio
  <2> QED BY <1>7 DEF Least
<1> QED BY <1>8, <1>9

\* A buy that goes through, seen through what it does to money and supply.
LEMMA BuyEffect ==
  ASSUME TypeOK,
         \/ \E u \in 1..UsdcSupply : Buy(u)
         \/ \E c \in 1..params.per_tx_cap : BuyExactOut(c)
  PROVE  \E u \in Nat \ {0}, c \in Nat \ {0} :
           /\ ExecuteBuy(u, c)
           /\ kp.price \in Nat \ {0}
           /\ c * kp.price <= u * PRICE_SCALE
<1>1. kp.price \in Nat \ {0} /\ Spread \in Nat
  <2>1. kp.price > 0
    BY DEF Buy, BuyExactOut, QuoteOK
  <2> QED BY <2>1, SpreadType DEF TypeOK
<1> DEFINE ask == Ask(kp.price, Spread)
<1>2. ask \in Nat \ {0} /\ kp.price <= ask
  <2>1. kp.price \in Nat
    BY <1>1
  <2>2. ask \in Nat /\ kp.price <= ask
    BY <1>1, <2>1, AskAtLeastPrice
  <2> HIDE DEF ask
  <2> QED BY <1>1, <2>2
<1> HIDE DEF ask
<1>3. ASSUME NEW u \in 1..UsdcSupply, Buy(u)
      PROVE  /\ ExecuteBuy(u, CoinOutForUsdc(u, ask))
             /\ CoinOutForUsdc(u, ask) \in Nat \ {0}
             /\ CoinOutForUsdc(u, ask) * kp.price <= u * PRICE_SCALE
  <2>1. ExecuteBuy(u, CoinOutForUsdc(u, ask))
    BY <1>3 DEF Buy, ask
  <2>2. u \in Nat
    OBVIOUS
  <2> DEFINE c == CoinOutForUsdc(u, ask)
  <2>3. c \in Nat /\ c * ask <= u * PRICE_SCALE
    BY <1>2, <2>2, BuyerPaysAsk
  <2>4. c > 0
    BY <2>1 DEF ExecuteBuy
  <2> HIDE DEF c
  <2>5. c * kp.price <= c * ask /\ c * kp.price \in Nat /\ c * ask \in Nat
    BY <1>1, <1>2, <2>3, TimesMono
  <2>6. u * PRICE_SCALE \in Nat
    BY <2>2
  <2>7. c * kp.price <= u * PRICE_SCALE
    BY <2>3, <2>5, <2>6
  <2> QED BY <2>1, <2>3, <2>4, <2>7 DEF c
<1>4. ASSUME NEW c \in 1..params.per_tx_cap, BuyExactOut(c)
      PROVE  /\ ExecuteBuy(UsdcInForCoin(c, ask), c)
             /\ UsdcInForCoin(c, ask) \in Nat \ {0}
             /\ c * kp.price <= UsdcInForCoin(c, ask) * PRICE_SCALE
  <2>1. ExecuteBuy(UsdcInForCoin(c, ask), c)
    BY <1>4 DEF BuyExactOut, ask
  <2>2. c \in Nat
    BY DEF TypeOK, Params
  <2> DEFINE u == UsdcInForCoin(c, ask)
  <2>3. u \in Nat /\ c * ask <= u * PRICE_SCALE
    BY <1>2, <2>2, ExactBuyerPaysAsk
  <2>4. u > 0
    BY <2>1 DEF ExecuteBuy
  <2> HIDE DEF u
  <2>5. c * kp.price <= c * ask /\ c * kp.price \in Nat /\ c * ask \in Nat
    BY <1>1, <1>2, <2>2, TimesMono
  <2>6. u * PRICE_SCALE \in Nat
    BY <2>3
  <2>7. c * kp.price <= u * PRICE_SCALE
    BY <2>3, <2>5, <2>6
  <2> QED BY <2>1, <2>3, <2>4, <2>7 DEF u
<1>5. CASE \E u \in 1..UsdcSupply : Buy(u)
  <2> PICK u \in 1..UsdcSupply : Buy(u)
    BY <1>5
  <2>1. u \in Nat \ {0}
    OBVIOUS
  <2> QED BY <1>1, <1>3, <2>1
<1>6. CASE \E c \in 1..params.per_tx_cap : BuyExactOut(c)
  <2> PICK c \in 1..params.per_tx_cap : BuyExactOut(c)
    BY <1>6
  <2>1. c \in Nat \ {0}
    BY DEF TypeOK, Params
  <2> QED BY <1>1, <1>4, <2>1
<1> QED BY <1>5, <1>6

\* A sell that goes through: out is the USDC it pays.
LEMMA SellEffect ==
  ASSUME TypeOK, NEW user, NEW c \in 1..params.per_tx_cap, Sell(user, c)
  PROVE  \E out \in Nat \ {0} :
           /\ out = UsdcOutForCoin(c, Bid(kp.price, Spread))
           /\ kp.price \in Nat \ {0}
           /\ c \in Nat \ {0} /\ out <= reserve /\ c <= supply
           /\ out * PRICE_SCALE <= c * kp.price
<1>1. kp.price \in Nat \ {0} /\ Spread \in Nat
  <2>1. kp.price > 0
    BY DEF Sell, QuoteOK
  <2> QED BY <2>1, SpreadType DEF TypeOK
<1> DEFINE bid == Bid(kp.price, Spread)
           out == UsdcOutForCoin(c, bid)
<1>2. out > 0 /\ out <= reserve /\ c <= supply
  BY DEF Sell
<1>3. bid \in Nat /\ bid <= kp.price
  BY <1>1, BidAtMostPrice
<1>4. c \in Nat \ {0}
  BY DEF TypeOK, Params
<1> HIDE DEF bid
<1>5. out \in Nat /\ out * PRICE_SCALE <= c * bid
  BY <1>3, <1>4, SellerGetsBid
<1> HIDE DEF out
<1>6. c * bid <= c * kp.price /\ c * bid \in Nat /\ c * kp.price \in Nat
  BY <1>1, <1>3, <1>4, TimesMono
<1>7. out * PRICE_SCALE <= c * kp.price
  <2>1. out * PRICE_SCALE \in Nat
    BY <1>5
  <2> QED BY <1>5, <1>6, <2>1
<1> QED BY <1>1, <1>2, <1>4, <1>5, <1>7 DEF out, bid

\* Both window computations agree on whether the daily window has ended.
LEMMA WindowAccounting ==
  ASSUME TypeOK, NEW used \in Nat
  PROVE  /\ Start \in Nat
         /\ WindowUsed(window.start, used, now, DAILY_WINDOW_SECS) = IF Rolls THEN 0 ELSE used
<1>1. now \in Nat /\ window.start \in Nat
  BY DEF TypeOK
<1> QED BY <1>1 DEF Start, Rolls, WindowStart, WindowUsed

LEMMA AcceptPriceType ==
  ASSUME TypeOK, AcceptPrice
  PROVE  last' \in [price : Nat, time : Nat] /\ anchor' \in [price : Nat, ts : Nat]
         /\ base' \in [price : Nat, ts : Nat]
<1>1. kp.price \in Nat /\ kp.publish_time \in Nat /\ now \in Nat
      /\ anchor \in [price : Nat, ts : Nat] /\ base \in [price : Nat, ts : Nat]
  BY DEF TypeOK
<1> QED BY <1>1 DEF AcceptPrice

\* What a buy leaves behind.
LEMMA BuyStep ==
  ASSUME IInv, NEW u \in Nat \ {0}, NEW c \in Nat \ {0}, ExecuteBuy(u, c)
  PROVE  /\ IInv'
         /\ reserve' = reserve + u /\ supply' = supply + c /\ supply \in Nat
         /\ params.daily_mint_cap > 0 => flow'.minted <= params.daily_mint_cap
<1> DEFINE minted == (IF Rolls THEN 0 ELSE window.minted) + c
           redeemed == IF Rolls THEN 0 ELSE window.redeemed
           fm == (IF Rolls THEN 0 ELSE flow.minted) + c
           fr == (IF Rolls THEN 0 ELSE flow.redeemed) - u
<1>1. TypeOK /\ CountersCoverFlow /\ CachedNeverOverstates
  BY DEF IInv
<1>2. /\ window.minted \in Nat /\ window.redeemed \in Nat
      /\ flow.minted \in Int /\ flow.redeemed \in Int
      /\ flow.minted <= window.minted /\ flow.redeemed <= window.redeemed
      /\ reserve \in Nat /\ supply \in Nat /\ treasury \in Nat
      /\ params.daily_mint_cap \in Nat
  BY <1>1 DEF TypeOK, CountersCoverFlow, Params
<1>3. Start \in Nat
      /\ WindowUsed(window.start, window.minted, now, DAILY_WINDOW_SECS) + c = minted
  BY <1>1, <1>2, WindowAccounting
<1>4. /\ window' = [start |-> Start, minted |-> minted,
                    redeemed |-> WindowRelease(redeemed, u)]
      /\ flow' = [minted |-> fm, redeemed |-> fr]
      /\ FitsCap(minted, params.daily_mint_cap)
      /\ u <= UserUsdc /\ reserve' = reserve + u /\ cached' = reserve' /\ supply' = supply + c
      /\ AcceptPrice
      /\ UNCHANGED <<now, configVars, status, params, kp, treasury>>
  BY <1>3 DEF ExecuteBuy
<1>5. minted \in Nat /\ redeemed \in Nat /\ WindowRelease(redeemed, u) \in Nat
      /\ fm \in Int /\ fr \in Int /\ fm <= minted /\ fr <= WindowRelease(redeemed, u)
  BY <1>2 DEF WindowRelease, Minus
<1> HIDE DEF minted, redeemed, fm, fr
<1>6. window' \in [start : Nat, minted : Nat, redeemed : Nat]
      /\ flow' \in [minted : Int, redeemed : Int]
      /\ flow'.minted = fm /\ flow'.redeemed = fr
      /\ window'.minted = minted /\ window'.redeemed = WindowRelease(redeemed, u)
  BY <1>3, <1>4, <1>5
<1>7. reserve' \in Nat /\ cached' \in Nat /\ cached' <= reserve' /\ supply' \in Nat
      /\ reserve' + treasury' <= UsdcSupply
  BY <1>2, <1>4 DEF UserUsdc
<1>8. TypeOK'
  BY <1>1, <1>4, <1>6, <1>7, AcceptPriceType DEF TypeOK, configVars
<1>9. CountersCoverFlow' /\ CachedNeverOverstates'
  BY <1>5, <1>6, <1>7 DEF CountersCoverFlow, CachedNeverOverstates
<1>10. params.daily_mint_cap > 0 => flow'.minted <= params.daily_mint_cap
  BY <1>2, <1>4, <1>5, <1>6 DEF FitsCap
<1> QED BY <1>2, <1>4, <1>8, <1>9, <1>10 DEF IInv

\* What a sell leaves behind.
LEMMA SellStep ==
  ASSUME IInv, NEW user, NEW c \in 1..params.per_tx_cap, Sell(user, c)
  PROVE  /\ IInv'
         /\ flow'.redeemed > flow.redeemed /\ params.daily_redeem_cap > 0 =>
              flow'.redeemed <= params.daily_redeem_cap
<1> DEFINE out == UsdcOutForCoin(c, Bid(kp.price, Spread))
           counted == IF user = exempt THEN 0 ELSE out
           cap == IF user = exempt THEN 0 ELSE params.daily_redeem_cap
           redeemed == (IF Rolls THEN 0 ELSE window.redeemed) + counted
           minted == IF Rolls THEN 0 ELSE window.minted
           fm == (IF Rolls THEN 0 ELSE flow.minted) - c
           fr == (IF Rolls THEN 0 ELSE flow.redeemed) + counted
<1>1. TypeOK /\ CountersCoverFlow /\ CachedNeverOverstates
  BY DEF IInv
<1>2. /\ window.minted \in Nat /\ window.redeemed \in Nat
      /\ flow.minted \in Int /\ flow.redeemed \in Int
      /\ flow.minted <= window.minted /\ flow.redeemed <= window.redeemed
      /\ reserve \in Nat /\ supply \in Nat /\ treasury \in Nat
      /\ reserve + treasury <= UsdcSupply
      /\ params.daily_redeem_cap \in Nat
  BY <1>1 DEF TypeOK, CountersCoverFlow, Params
<1>3. out \in Nat \ {0} /\ c \in Nat \ {0} /\ out <= reserve /\ c <= supply
  BY <1>1, SellEffect
<1>4. Start \in Nat
      /\ WindowUsed(window.start, window.redeemed, now, DAILY_WINDOW_SECS) + counted = redeemed
  BY <1>1, <1>2, WindowAccounting
<1>5. /\ window' = [start |-> Start, minted |-> WindowRelease(minted, c), redeemed |-> redeemed]
      /\ flow' = [minted |-> fm, redeemed |-> fr]
      /\ FitsCap(redeemed, cap)
      /\ reserve' = reserve - out /\ cached' = reserve' /\ supply' = supply - c
      /\ AcceptPrice
      /\ UNCHANGED <<now, configVars, status, params, kp, treasury>>
  BY <1>4 DEF Sell
<1> HIDE DEF out
<1>6. minted \in Nat /\ redeemed \in Nat /\ WindowRelease(minted, c) \in Nat
      /\ fm \in Int /\ fr \in Int /\ fr <= redeemed /\ fm <= WindowRelease(minted, c)
  BY <1>2, <1>3 DEF WindowRelease, Minus
<1>7. fr > flow.redeemed /\ params.daily_redeem_cap > 0 => fr <= params.daily_redeem_cap
  <2>1. CASE user = exempt
    BY <1>2, <2>1
  <2>2. CASE user # exempt
    BY <1>2, <1>3, <1>5, <1>6, <2>2 DEF FitsCap
  <2> QED BY <2>1, <2>2
<1> HIDE DEF minted, redeemed, fm, fr, counted, cap
<1>8. window' \in [start : Nat, minted : Nat, redeemed : Nat]
      /\ flow' \in [minted : Int, redeemed : Int]
      /\ flow'.minted = fm /\ flow'.redeemed = fr
      /\ window'.redeemed = redeemed /\ window'.minted = WindowRelease(minted, c)
  BY <1>4, <1>5, <1>6
<1>9. reserve' \in Nat /\ cached' \in Nat /\ cached' <= reserve' /\ supply' \in Nat
      /\ reserve' + treasury' <= UsdcSupply
  BY <1>2, <1>3, <1>5
<1>10. TypeOK'
  BY <1>1, <1>5, <1>8, <1>9, AcceptPriceType DEF TypeOK, configVars
<1>11. CountersCoverFlow' /\ CachedNeverOverstates'
  BY <1>6, <1>8, <1>9 DEF CountersCoverFlow, CachedNeverOverstates
<1> QED BY <1>7, <1>8, <1>10, <1>11 DEF IInv

LEMMA InitIInv == Init => IInv
<1> SUFFICES ASSUME Init PROVE IInv
  OBVIOUS
<1>1. params \in Params
  <2> PICK p \in ParamSets :
        params = [p EXCEPT !.daily_mint_cap = 0, !.daily_redeem_cap = 0,
                           !.max_deviation_bps = 0, !.deviation_window_secs = 0]
    BY DEF Init
  <2> DEFINE q == [p EXCEPT !.daily_mint_cap = 0, !.daily_redeem_cap = 0,
                            !.max_deviation_bps = 0, !.deviation_window_secs = 0]
  <2>1. p \in Params
    OBVIOUS
  <2>2. 0 \in Nat /\ 0 \in 0..BPS
    OBVIOUS
  <2>3. q \in Params
    BY <2>1, <2>2 DEF Params
  <2> QED BY <2>3
<1>2. /\ anchor \in [price : Nat, ts : Nat] /\ base \in [price : Nat, ts : Nat]
      /\ last \in [price : Nat, time : Nat]
      /\ window \in [start : Nat, minted : Nat, redeemed : Nat]
      /\ flow \in [minted : Int, redeemed : Int]
  BY DEF Init, NoAnchor
<1>3. kp \in [price : Nat, conf : Nat, publish_time : Nat, last_update_ts : Nat,
              max_move_bps : Nat, min_interval : Nat]
  BY DEF Init
<1>4. TypeOK
  <2>1. /\ now \in Nat /\ reserve = 0 /\ cached = 0 /\ supply = 0 /\ treasury = 0
        /\ reserve + treasury <= UsdcSupply
    BY DEF Init
  <2>2. /\ admin \in Actors /\ pendingAdmin = NoKey /\ keepers = {} /\ paused = FALSE
        /\ exempt = NoKey /\ status = "Open"
    BY DEF Init
  <2>3. keepers \in SUBSET Actors /\ paused \in BOOLEAN
    BY <2>2
  <2> QED BY <1>1, <1>2, <1>3, <2>1, <2>2, <2>3 DEF TypeOK
<1>5. CountersCoverFlow /\ CachedNeverOverstates
  BY DEF Init, CountersCoverFlow, CachedNeverOverstates
<1> QED BY <1>4, <1>5 DEF IInv

\* Every instruction preserves the invariant: one step per action.
LEMMA NextIInv == IInv /\ [Next]_vars => IInv'
<1> SUFFICES ASSUME IInv, [Next]_vars PROVE IInv'
  OBVIOUS
<1>0. TypeOK /\ CountersCoverFlow /\ CachedNeverOverstates
  BY DEF IInv
<1> USE DEF IInv, CountersCoverFlow, CachedNeverOverstates
<1>1. ASSUME NEW a \in Actors, NEW ks \in SUBSET Actors, SetKeepers(a, ks)
      PROVE  IInv'
  BY <1>0, <1>1 DEF SetKeepers, TypeOK, marketVars, moneyVars
<1>2. ASSUME NEW a \in Actors, NEW b \in Actors \cup {NoKey},
             ProposeAdmin(a, b) \/ SetRedeemCapExempt(a, b)
      PROVE  IInv'
  BY <1>0, <1>2 DEF ProposeAdmin, SetRedeemCapExempt, TypeOK, marketVars, moneyVars
<1>3. ASSUME NEW a \in Actors, AcceptAdmin(a)
      PROVE  IInv'
  BY <1>0, <1>3 DEF AcceptAdmin, TypeOK, marketVars, moneyVars
<1>4. ASSUME NEW a \in Actors, ClearPriceAnchor(a)
      PROVE  IInv'
  BY <1>0, <1>4 DEF ClearPriceAnchor, NoAnchor, TypeOK, configVars, moneyVars
<1>5. ASSUME NEW a \in Actors, NEW b \in BOOLEAN, SetGlobalPause(a, b)
      PROVE  IInv'
  BY <1>0, <1>5 DEF SetGlobalPause, TypeOK, marketVars, moneyVars
<1>6. ASSUME NEW a \in Actors, NEW p \in ParamSets, SetCommodityParams(a, p)
      PROVE  IInv'
  <2>1. p \in Params
    OBVIOUS
  <2> QED BY <1>0, <1>6, <2>1 DEF SetCommodityParams, NoAnchor, TypeOK, configVars, moneyVars
<1>7. ASSUME NEW a \in Actors, NEW new \in {"Open", "Closed", "Halted"}, SetStatus(a, new)
      PROVE  IInv'
  BY <1>0, <1>7 DEF SetStatus, TypeOK, configVars, marketVars, moneyVars
<1>8. ASSUME NEW a \in Actors, NEW b \in KeeperBounds, SetKeeperBounds(a, b)
      PROVE  IInv'
  <2>1. b.max_move_bps \in Nat /\ b.min_interval \in Nat
    OBVIOUS
  <2>2. kp' \in [price : Nat, conf : Nat, publish_time : Nat, last_update_ts : Nat,
                 max_move_bps : Nat, min_interval : Nat]
    BY <1>0, <1>8, <2>1 DEF SetKeeperBounds, TypeOK
  <2> QED BY <1>0, <1>8, <2>2 DEF SetKeeperBounds, TypeOK, configVars, marketVars, moneyVars
<1>9. ASSUME NEW k \in Actors, NEW price \in Prices, NEW conf \in Confs,
             NEW t \in 0..(now + MAX_FUTURE_SKEW_SECS), KeeperUpdatePrice(k, price, conf, t)
      PROVE  IInv'
  <2>1. price \in Nat /\ conf \in Nat /\ t \in Nat /\ now \in Nat
    BY <1>0 DEF TypeOK
  <2>2. kp' \in [price : Nat, conf : Nat, publish_time : Nat, last_update_ts : Nat,
                 max_move_bps : Nat, min_interval : Nat]
    BY <1>0, <1>9, <2>1 DEF KeeperUpdatePrice, TypeOK
  <2>3. UNCHANGED <<now, configVars, status, params, marketVars, moneyVars>>
    BY <1>9 DEF KeeperUpdatePrice
  <2> QED BY <1>0, <2>2, <2>3 DEF TypeOK, configVars, marketVars, moneyVars
<1>10. ASSUME \/ \E u \in 1..UsdcSupply : Buy(u)
              \/ \E c \in 1..params.per_tx_cap : BuyExactOut(c)
       PROVE  IInv'
  BY <1>0, <1>10, BuyEffect, BuyStep
<1>11. ASSUME NEW user \in Actors, NEW c \in 1..params.per_tx_cap, Sell(user, c)
       PROVE  IInv'
  BY <1>11, SellStep
<1>12. ASSUME NEW amount \in 1..UsdcSupply, DepositReserve(amount)
       PROVE  IInv'
  BY <1>0, <1>12 DEF DepositReserve, UserUsdc, TypeOK, configVars, marketVars
<1>13. ASSUME NEW amount \in 1..UsdcSupply, TransferToReserve(amount)
       PROVE  IInv'
  BY <1>0, <1>13 DEF TransferToReserve, UserUsdc, TypeOK, configVars, marketVars
<1>14. ASSUME NEW who \in Actors, NEW amount \in 1..UsdcSupply, SweepSpreadFees(who, amount)
       PROVE  IInv'
  <2>1. amount <= reserve
    BY <1>14 DEF SweepSpreadFees, SweepOK
  <2> QED BY <1>0, <1>14, <2>1 DEF SweepSpreadFees, TypeOK, configVars, marketVars
<1>15. CASE Tick
  BY <1>0, <1>15 DEF Tick, TypeOK, configVars, marketVars, moneyVars
<1>16. CASE UNCHANGED vars
  BY <1>0, <1>16 DEF TypeOK, vars, configVars, marketVars, moneyVars
<1> QED
  BY <1>1, <1>2, <1>3, <1>4, <1>5, <1>6, <1>7, <1>8, <1>9, <1>10, <1>11, <1>12, <1>13,
     <1>14, <1>15, <1>16 DEF Next

\* The coin supply moves only in trades.
LEMMA SupplyMovesInTrades ==
  ASSUME [Next]_vars, supply' # supply
  PROVE  \/ \E u \in 1..UsdcSupply : Buy(u)
         \/ \E c \in 1..params.per_tx_cap : BuyExactOut(c)
         \/ \E user \in Actors, c \in 1..params.per_tx_cap : Sell(user, c)
  BY DEF Next, vars, moneyVars, SetKeepers, ProposeAdmin, SetRedeemCapExempt, AcceptAdmin,
         ClearPriceAnchor, SetGlobalPause, SetCommodityParams, SetStatus, SetKeeperBounds,
         KeeperUpdatePrice, DepositReserve, TransferToReserve, SweepSpreadFees, Tick

LEMMA BackingPreserved == IInv /\ [Next]_vars => BackingStep
<1> SUFFICES ASSUME IInv, [Next]_vars, supply' # supply, Backed(kp.price)
             PROVE  Backed(kp.price)'
  BY DEF BackingStep
<1>0. TypeOK /\ reserve \in Nat /\ supply \in Nat
  BY DEF IInv, TypeOK
<1>1. CASE \/ \E u \in 1..UsdcSupply : Buy(u)
           \/ \E c \in 1..params.per_tx_cap : BuyExactOut(c)
  <2>1. PICK u \in Nat \ {0}, c \in Nat \ {0} :
          ExecuteBuy(u, c) /\ kp.price \in Nat \ {0} /\ c * kp.price <= u * PRICE_SCALE
    BY <1>0, <1>1, BuyEffect
  <2>2. reserve' = reserve + u /\ supply' = supply + c /\ kp' = kp
    BY <2>1 DEF ExecuteBuy
  <2>3. /\ (reserve + u) * PRICE_SCALE = reserve * PRICE_SCALE + u * PRICE_SCALE
        /\ (supply + c) * kp.price = supply * kp.price + c * kp.price
        /\ reserve * PRICE_SCALE \in Nat /\ u * PRICE_SCALE \in Nat
        /\ supply * kp.price \in Nat /\ c * kp.price \in Nat
    BY <1>0, <2>1
  <2>4. reserve * PRICE_SCALE >= supply * kp.price
    BY DEF Backed
  <2>5. (reserve + u) * PRICE_SCALE >= (supply + c) * kp.price
    BY <2>1, <2>3, <2>4
  <2> QED BY <2>2, <2>5 DEF Backed
<1>2. CASE \E user \in Actors, c \in 1..params.per_tx_cap : Sell(user, c)
  <2>1. PICK user \in Actors, c \in 1..params.per_tx_cap : Sell(user, c)
    BY <1>2
  <2>2. PICK out \in Nat \ {0} :
          /\ out = UsdcOutForCoin(c, Bid(kp.price, Spread))
          /\ kp.price \in Nat \ {0}
          /\ c \in Nat \ {0} /\ out <= reserve /\ c <= supply
          /\ out * PRICE_SCALE <= c * kp.price
    BY <1>0, <2>1, SellEffect
  <2>3. reserve' = reserve - out /\ supply' = supply - c /\ kp' = kp
    BY <2>1, <2>2 DEF Sell
  <2>4. /\ (reserve - out) * PRICE_SCALE = reserve * PRICE_SCALE - out * PRICE_SCALE
        /\ (supply - c) * kp.price = supply * kp.price - c * kp.price
        /\ reserve * PRICE_SCALE \in Nat /\ out * PRICE_SCALE \in Nat
        /\ supply * kp.price \in Nat /\ c * kp.price \in Nat
    BY <1>0, <2>2
  <2>5. reserve * PRICE_SCALE >= supply * kp.price
    BY DEF Backed
  <2>6. (reserve - out) * PRICE_SCALE >= (supply - c) * kp.price
    BY <2>2, <2>4, <2>5
  <2> QED BY <2>3, <2>6 DEF Backed
<1> QED BY <1>1, <1>2, SupplyMovesInTrades

LEMMA NetFlowPreserved == IInv /\ [Next]_vars => NetFlowStep
<1> SUFFICES ASSUME IInv, [Next]_vars PROVE NetFlowStep
  OBVIOUS
<1>0. TypeOK
  BY DEF IInv
<1>1. CASE supply' = supply
  <2>1. supply \in Nat
    BY <1>0 DEF TypeOK
  <2> QED BY <1>1, <2>1 DEF NetFlowStep
<1>2. CASE \/ \E u \in 1..UsdcSupply : Buy(u)
           \/ \E c \in 1..params.per_tx_cap : BuyExactOut(c)
  <2>1. PICK u \in Nat \ {0}, c \in Nat \ {0} : ExecuteBuy(u, c)
    BY <1>0, <1>2, BuyEffect
  <2>2. supply' = supply + c /\ supply \in Nat
        /\ (params.daily_mint_cap > 0 => flow'.minted <= params.daily_mint_cap)
    BY <2>1, BuyStep
  <2>3. ~(supply' < supply)
    BY <2>2
  <2> QED BY <2>2, <2>3 DEF NetFlowStep
<1>3. CASE \E user \in Actors, c \in 1..params.per_tx_cap : Sell(user, c)
  <2>1. PICK user \in Actors, c \in 1..params.per_tx_cap : Sell(user, c)
    BY <1>3
  <2>2. flow'.redeemed > flow.redeemed /\ params.daily_redeem_cap > 0 =>
          flow'.redeemed <= params.daily_redeem_cap
    BY <2>1, SellStep
  <2>3. supply' = supply - c /\ supply \in Nat /\ c \in Nat \ {0}
    BY <1>0, <2>1, SellEffect DEF Sell, TypeOK
  <2>4. ~(supply' > supply)
    BY <2>3
  <2> QED BY <2>2, <2>4 DEF NetFlowStep
<1> QED BY <1>1, <1>2, <1>3, SupplyMovesInTrades

LEMMA InvariantHolds == Spec => []IInv
  BY InitIInv, NextIInv, PTL DEF Spec

\* Nothing a trade, a sweep or an admin does corrupts the accounts: the
\* reserve, the supply and the counters of trade.rs never go below zero.
THEOREM PegTypeCorrect == Spec => []TypeOK
<1>1. IInv => TypeOK
  BY DEF IInv
<1> QED BY <1>1, InvariantHolds, PTL

\* The counters of the daily caps never understate the net flow of their
\* window (pricing::window_add, window_release).
THEOREM CountersSound == Spec => []CountersCoverFlow
<1>1. IInv => CountersCoverFlow
  BY DEF IInv
<1> QED BY <1>1, InvariantHolds, PTL

\* reserve_balance_cached never overstates the reserve vault.
THEOREM CacheSound == Spec => []CachedNeverOverstates
<1>1. IInv => CachedNeverOverstates
  BY DEF IInv
<1> QED BY <1>1, InvariantHolds, PTL

\* The daily caps bound the net flow (execute_buy, handle_sell).
THEOREM NetFlowBounded == Spec => NetFlowCapped
  BY InvariantHolds, NetFlowPreserved, PTL DEF Spec, NetFlowCapped

\* No trade takes a covered supply out of cover (pricing.rs rounding as used by
\* execute_buy and handle_sell).
THEOREM BackingKept == Spec => TradesKeepBacking
  BY InvariantHolds, BackingPreserved, PTL DEF Spec, TradesKeepBacking

\* A trade at a price the deviation breaker accepts moves the anchor as allowed.
LEMMA AcceptedPriceIsPaced ==
  ASSUME TypeOK, AcceptPrice, anchor.price # 0, anchor' # anchor, kp.price \in Nat,
         DeviationOK(kp.price, anchor, now, params.max_deviation_bps,
                     params.deviation_window_secs)
  PROVE  AnchorStep
<1> DEFINE W == Windows(anchor.ts, now, params.deviation_window_secs)
           d == params.max_deviation_bps
           diff == AbsDiff(kp.price, anchor.price)
<1>0. /\ anchor \in [price : Nat, ts : Nat] /\ now \in Nat
      /\ d \in Nat /\ params.deviation_window_secs \in Nat
  BY DEF TypeOK, Params
<1>1. ShouldReanchor(anchor, now, params.deviation_window_secs)
      /\ anchor' = [price |-> kp.price, ts |-> now]
  BY DEF AcceptPrice
<1>2. now - anchor.ts >= params.deviation_window_secs
  BY <1>1 DEF ShouldReanchor
<1>3. W \in Nat /\ diff \in Nat
  <2>1. CASE params.deviation_window_secs = 0
    BY <1>0, <2>1 DEF Windows, AbsDiff
  <2>2. CASE params.deviation_window_secs # 0
    <3> DEFINE n == Minus(now, anchor.ts)
    <3>1. n \in Nat
      BY <1>0 DEF Minus
    <3> HIDE DEF n
    <3>2. n \div params.deviation_window_secs \in Nat
      BY <1>0, <2>2, <3>1, DivLemma
    <3>3. W = Least(n \div params.deviation_window_secs + 1, MAX_DEVIATION_WINDOWS)
      BY <2>2 DEF Windows, n
    <3> QED BY <1>0, <3>2, <3>3 DEF Least, AbsDiff
  <2> QED BY <2>1, <2>2
<1>4. ASSUME d > 0
      PROVE  diff * BPS <= anchor.price * d * W
  <2>1. DeviationBps(kp.price, anchor.price) <= d * W
    BY <1>0, <1>4 DEF DeviationOK
  <2> HIDE DEF d, W, diff
  <2>2. DeviationBps(kp.price, anchor.price) = CeilDiv(diff * BPS, anchor.price)
    BY DEF DeviationBps, diff
  <2> DEFINE q == CeilDiv(diff * BPS, anchor.price)
  <2>3. diff * BPS \in Nat /\ anchor.price \in Nat \ {0}
    BY <1>0, <1>3
  <2>4. q \in Nat /\ diff * BPS <= anchor.price * q
    BY <2>3, CeilDivLemma
  <2> HIDE DEF q
  <2>5. d * W \in Nat /\ q <= d * W
    BY <1>0, <1>3, <2>1, <2>2 DEF q
  <2>6. anchor.price * q <= anchor.price * (d * W)
        /\ anchor.price * q \in Nat /\ anchor.price * (d * W) \in Nat
    <3> DEFINE x == d * W
    <3>1. x \in Nat /\ q <= x
      BY <2>5
    <3> HIDE DEF x
    <3>2. anchor.price * q <= anchor.price * x
      BY <2>3, <2>4, <3>1, TimesMono
    <3>3. anchor.price * q \in Nat /\ anchor.price * x \in Nat
      BY <2>3, <2>4, <3>1
    <3> QED BY <3>2, <3>3 DEF x
  <2>7. anchor.price * (d * W) = anchor.price * d * W
    BY <1>0, <1>3
  <2> QED BY <2>3, <2>4, <2>6, <2>7
<1>5. anchor'.price = kp.price
  BY <1>1
<1> QED BY <1>2, <1>4, <1>5 DEF AnchorStep

LEMMA AnchorPacedStep == IInv /\ [Next]_vars => AnchorStep
<1> SUFFICES ASSUME IInv, [Next]_vars, anchor' # anchor, anchor.price # 0, anchor'.price # 0
             PROVE  AnchorStep
  BY DEF AnchorStep
<1>0. TypeOK /\ kp.price \in Nat
  BY DEF IInv, TypeOK
<1>1. CASE \E u \in 1..UsdcSupply : Buy(u)
  BY <1>0, <1>1, AcceptedPriceIsPaced DEF Buy, ExecuteBuy, QuoteOK
<1>2. CASE \E c \in 1..params.per_tx_cap : BuyExactOut(c)
  BY <1>0, <1>2, AcceptedPriceIsPaced DEF BuyExactOut, ExecuteBuy, QuoteOK
<1>3. CASE \E user \in Actors, c \in 1..params.per_tx_cap : Sell(user, c)
  BY <1>0, <1>3, AcceptedPriceIsPaced DEF Sell, QuoteOK
<1>4. CASE \E a \in Actors : ClearPriceAnchor(a)
  BY <1>4 DEF ClearPriceAnchor, NoAnchor
<1> QED
  BY <1>1, <1>2, <1>3, <1>4
  DEF Next, vars, marketVars, SetKeepers, ProposeAdmin, SetRedeemCapExempt, AcceptAdmin,
      SetGlobalPause, SetCommodityParams, SetStatus, SetKeeperBounds, KeeperUpdatePrice,
      DepositReserve, TransferToReserve, SweepSpreadFees, Tick

\* The deviation anchor moves only after a whole window, and by no more than
\* max_deviation_bps for each window begun (deviation_ok, should_reanchor).
THEOREM AnchorIsPaced == Spec => AnchorPaced
  BY InvariantHolds, AnchorPacedStep, PTL DEF Spec, AnchorPaced
=============================================================================
