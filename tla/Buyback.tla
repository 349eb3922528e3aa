------------------------------ MODULE Buyback ------------------------------
(***************************************************************************)
(* The buyback program (programs/buyback) and the keeper's cycle that uses *)
(* it (apps/keeper/src/cycles/buyback.ts).  One instruction takes COIN     *)
(* from fee_router's buyback vault, sells it to the Peg Desk for USDC,     *)
(* sends USDC through a swap route the keeper chose, and burns the ICE     *)
(* that comes back.                                                        *)
(*                                                                         *)
(* The desk is external: it pays the bid, or refuses.  The route is        *)
(* external: it takes any part of the USDC in the work account and gives   *)
(* any amount of ICE.  Integers are unbounded; the code uses u128.         *)
(***************************************************************************)
EXTENDS Naturals, FiniteSets

CONSTANTS
  Coins,
  Actors,                   \* signers that may be admin or keeper
  Deployer,                 \* the upgrade authority, first admin
  MAX_KEEPERS,
  BPS_DENOM,
  MIN_SPEND_TOLERANCE_BPS,
  MAX_ROUTE_HAIRCUT_BPS,    \* the keeper's 90 in Math.min(slippageBps, 90)
  Slippages,                \* BUYBACK_SLIPPAGE_BPS
  USDC_UNIT, PRICE_SCALE,
  BuybackParams,            \* parameters the admin may set
  Anchors,                  \* anchors the admin may set
  Bids,                     \* bids of the desk
  MaxVault, MaxResidue, MaxIce, MaxCycles, BuybackStart, BuybackEnd   \* bounds

ASSUME BuybackAssumption ==
  /\ Deployer \in Actors /\ MAX_KEEPERS \in Nat
  /\ BPS_DENOM \in Nat \ {0}
  /\ MIN_SPEND_TOLERANCE_BPS \in 0..BPS_DENOM
  /\ MAX_ROUTE_HAIRCUT_BPS \in 0..MIN_SPEND_TOLERANCE_BPS
  /\ Slippages \subseteq 0..BPS_DENOM
  /\ USDC_UNIT \in Nat \ {0} /\ PRICE_SCALE \in Nat \ {0}
  /\ BuybackParams \subseteq
       [buffer : 0..BPS_DENOM - 1, cap : Nat \ {0}, dev : 0..BPS_DENOM - 1,
        move : 0..BPS_DENOM - 1, interval : Nat]
  /\ Anchors \subseteq Nat \ {0} /\ Bids \subseteq Nat \ {0}
  /\ MaxVault \in Nat /\ MaxResidue \in Nat /\ MaxIce \in Nat /\ MaxCycles \in Nat
  /\ BuybackStart \in Nat /\ BuybackEnd \in Nat

VARIABLES
  time,
  chief, crew,      \* BuybackState.admin and .keepers
  setup,            \* reserve_buffer_bps, max_per_cycle_usdc, max_deviation_bps,
                    \* anchor_move_bps, min_interval_secs
  rateAnchor,       \* ice_per_usdc_anchor
  stopped,          \* paused
  lastCycle,        \* last_cycle_ts
  vault,            \* buyback vault of every coin
  bbUsdc,           \* USDC in the work account
  desk,             \* the bid at the base spread, and the bid it pays
  quote,            \* what the keeper is about to send
  floor,            \* history: the anchor the admin set last
  lastRate,         \* history: the last rate since the breaker was set, or 0
  paced,            \* history: USDC spent since the pace was set, and when that was
  cycles            \* number of cycles, for the bound

stateVars == <<chief, crew, setup, rateAnchor, stopped>>
buybackVars == <<time, stateVars, lastCycle, vault, bbUsdc, desk, quote,
                 floor, lastRate, paced, cycles>>

NoQuote == [coin |-> 0, minUsdc |-> 0, routeIn |-> 0, asOf |-> <<>>]

Lower(m, n) == IF m <= n THEN m ELSE n

(***************************************************************************)
(* Arithmetic                                                              *)
(***************************************************************************)
RatePerUsdc(ice, usdc) == (ice * USDC_UNIT) \div usdc

\* Faulty variant: the anchor follows the rate down too.
NextAnchor_bothWays(anchor, rate, move) ==
  IF rate <= anchor THEN rate
  ELSE LET step == (anchor * move) \div BPS_DENOM
       IN Lower(anchor + (IF step = 0 THEN 1 ELSE step), rate)

\* Faulty variant: the step is not stopped at the rate.
NextAnchor_overshoots(anchor, rate, move) ==
  IF rate <= anchor THEN anchor
  ELSE LET step == (anchor * move) \div BPS_DENOM
       IN anchor + (IF step = 0 THEN 1 ELSE step)

NextAnchor(anchor, rate, move) ==
  IF rate <= anchor THEN anchor
  ELSE LET step == (anchor * move) \div BPS_DENOM
       IN Lower(anchor + (IF step = 0 THEN 1 ELSE step), rate)

MinRate(anchor, dev) == (anchor * (BPS_DENOM - dev)) \div BPS_DENOM

\* vault x (1 - buffer), in the program and in the keeper
Usable(balance, buffer) == (balance * (BPS_DENOM - buffer)) \div BPS_DENOM

MinSpend(out) ==
  LET least == (out * (BPS_DENOM - MIN_SPEND_TOLERANCE_BPS)) \div BPS_DENOM
  IN IF least = 0 THEN 1 ELSE least

\* pricing.ts usdcOutForCoinIn, and what the desk pays
UsdcOut(coin, bid) == (coin * bid) \div PRICE_SCALE

HaircutBps(x, bps) == (x * (BPS_DENOM - bps)) \div BPS_DENOM

(***************************************************************************)
(* initialize and set_params                                               *)
(***************************************************************************)
BuybackInit ==
  /\ time = BuybackStart
  /\ chief = Deployer /\ crew = {}
  /\ setup \in BuybackParams
  /\ rateAnchor \in Anchors /\ stopped = FALSE /\ lastCycle = 0
  /\ vault = [c \in Coins |-> 0]
  /\ bbUsdc = 0
  /\ desk \in [Coins -> {d \in [base : Bids, pays : Bids] : d.pays <= d.base}]
  /\ quote = NoQuote
  /\ floor = rateAnchor /\ lastRate = 0
  /\ paced = [since |-> BuybackStart, spent |-> 0]
  /\ cycles = 0

\* set_params: any of its optional fields, each of which may keep its value.
SetParams(a, p, anchor, stop, ks, new) ==
  /\ a = chief
  /\ Cardinality(ks) <= MAX_KEEPERS
  /\ setup' = p /\ rateAnchor' = anchor /\ stopped' = stop
  /\ crew' = ks /\ chief' = new
  /\ floor' = IF anchor = rateAnchor THEN floor ELSE anchor
  /\ lastRate' = IF anchor = rateAnchor /\ p.dev = setup.dev THEN lastRate ELSE 0
  /\ paced' = IF p.cap = setup.cap /\ p.interval = setup.interval THEN paced
              ELSE [since |-> time, spent |-> 0]
  /\ UNCHANGED <<time, lastCycle, vault, bbUsdc, desk, quote, cycles>>

SweepWorkAccount(a, amount) ==
  /\ a = chief
  /\ amount \in 1..bbUsdc
  /\ bbUsdc' = bbUsdc - amount
  /\ UNCHANGED <<time, stateVars, lastCycle, vault, desk, quote, floor, lastRate,
                 paced, cycles>>

(***************************************************************************)
(* convert_and_burn.  The route takes spent and gives ice.                 *)
(***************************************************************************)

\* What the program asks of the amounts of a cycle, in its order.
SizesFit(out, minUsdc, spent) ==
  /\ out > 0 /\ out >= minUsdc
  /\ out <= setup.cap
  /\ spent >= MinSpend(out)
  /\ spent <= bbUsdc + out
  /\ spent <= setup.cap

\* Faulty variant: a second early.
CycleDue_early == ~stopped /\ time - lastCycle + 1 >= setup.interval

CycleDue == ~stopped /\ time - lastCycle >= setup.interval

ConvertAndBurn(who, c, requested, minUsdc, spent, ice, minIce) ==
  LET coin == Lower(requested, Usable(vault[c], setup.buffer))
      out == UsdcOut(coin, desk[c].pays)
      rate == RatePerUsdc(ice, spent)
  IN /\ CycleDue
     /\ who = chief \/ who \in crew
     /\ coin > 0
     /\ SizesFit(out, minUsdc, spent)
     /\ ice > 0 /\ ice >= minIce
     /\ rate > 0 /\ rate >= MinRate(rateAnchor, setup.dev)
     /\ vault' = [vault EXCEPT ![c] = @ - coin]
     /\ bbUsdc' = bbUsdc + out - spent
     /\ rateAnchor' = NextAnchor(rateAnchor, rate, setup.move)
     /\ lastCycle' = time
     /\ lastRate' = rate
     /\ paced' = [paced EXCEPT !.spent = @ + spent]
     /\ cycles < MaxCycles /\ cycles' = cycles + 1
     /\ UNCHANGED <<time, chief, crew, setup, stopped, desk, floor>>

\* Any keeper, with any amounts and no minimum.
KeeperConverts(who, c, requested, spent, ice) ==
  /\ ConvertAndBurn(who, c, requested, 0, spent, ice, 0)
  /\ UNCHANGED quote

(***************************************************************************)
(* runBuybackCycle                                                         *)
(***************************************************************************)

\* What a quote for c depends on, besides the price of ICE.
Seen(c) == <<c, setup, vault[c], desk[c].base>>

\* Faulty variant: the route is quoted below the output by the whole slippage.
RouteIn_slippage(expected, slippage) == HaircutBps(expected, slippage)

RouteIn(expected, slippage) ==
  HaircutBps(expected, Lower(slippage, MAX_ROUTE_HAIRCUT_BPS))

\* Up to the route; it prices the coin at the base spread.
KeeperQuotes(c, slippage) ==
  LET coin == Lower(Usable(vault[c], setup.buffer),
                    (setup.cap * PRICE_SCALE) \div desk[c].base)
      expected == UsdcOut(coin, desk[c].base)
      minUsdc == HaircutBps(expected, slippage)
  IN /\ quote = NoQuote
     /\ CycleDue
     /\ coin > 0 /\ minUsdc > 0
     /\ quote' = [coin |-> coin, minUsdc |-> minUsdc,
                  routeIn |-> RouteIn(expected, slippage), asOf |-> Seen(c)]
     /\ UNCHANGED <<time, stateVars, lastCycle, vault, bbUsdc, desk, floor, lastRate,
                    paced, cycles>>

KeeperSends(who, c, ice) ==
  /\ quote # NoQuote /\ quote.asOf[1] = c
  /\ ConvertAndBurn(who, c, quote.coin, quote.minUsdc, quote.routeIn, ice, 1)
  /\ quote' = NoQuote

\* The route or the transaction fails, or the keeper dies; nothing is written.
KeeperGivesUp ==
  /\ quote # NoQuote
  /\ quote' = NoQuote
  /\ UNCHANGED <<time, stateVars, lastCycle, vault, bbUsdc, desk, floor, lastRate,
                 paced, cycles>>

(***************************************************************************)
(* The world                                                               *)
(***************************************************************************)
FeesArrive(c) ==
  /\ vault[c] < MaxVault
  /\ vault' = [vault EXCEPT ![c] = @ + 1]
  /\ UNCHANGED <<time, stateVars, lastCycle, bbUsdc, desk, quote, floor, lastRate,
                 paced, cycles>>

\* Anyone may send USDC to the work account.
UsdcGiven ==
  /\ bbUsdc < MaxResidue
  /\ bbUsdc' = bbUsdc + 1
  /\ UNCHANGED <<time, stateVars, lastCycle, vault, desk, quote, floor, lastRate, paced, cycles>>

DeskMoves(c, d) ==
  /\ d.pays <= d.base
  /\ desk' = [desk EXCEPT ![c] = d]
  /\ UNCHANGED <<time, stateVars, lastCycle, vault, bbUsdc, quote, floor, lastRate,
                 paced, cycles>>

BuybackTick ==
  /\ time < BuybackEnd
  /\ time' = time + 1
  /\ UNCHANGED <<stateVars, lastCycle, vault, bbUsdc, desk, quote, floor, lastRate,
                 paced, cycles>>

BuybackNext ==
  \/ \E a \in Actors, p \in BuybackParams, anchor \in Anchors \cup {rateAnchor},
        stop \in BOOLEAN, ks \in SUBSET Actors, new \in Actors :
       SetParams(a, p, anchor, stop, ks, new)
  \/ \E a \in Actors, amount \in 1..bbUsdc : SweepWorkAccount(a, amount)
  \/ \E who \in Actors, c \in Coins, requested \in 1..MaxVault,
        spent \in 1..setup.cap, ice \in 1..MaxIce :
       KeeperConverts(who, c, requested, spent, ice)
  \/ \E c \in Coins, slippage \in Slippages : KeeperQuotes(c, slippage)
  \/ \E who \in Actors, c \in Coins, ice \in 1..MaxIce : KeeperSends(who, c, ice)
  \/ KeeperGivesUp
  \/ \E c \in Coins : FeesArrive(c)
  \/ UsdcGiven
  \/ \E c \in Coins, d \in [base : Bids, pays : Bids] : DeskMoves(c, d)
  \/ BuybackTick

BuybackSpec == BuybackInit /\ [][BuybackNext]_buybackVars
-----------------------------------------------------------------------------
(***************************************************************************)
(* Properties                                                              *)
(***************************************************************************)
\* convert_and_burn.rs:90-94: keepers cannot walk the breaker down.  After any
\* sequence of cycles no rate is accepted that the anchor the admin set last
\* would have refused.
RateFloor == lastRate # 0 => lastRate >= MinRate(floor, setup.dev)

\* The breaker never locks itself out: after a cycle at some rate the program
\* accepts that rate again, until the admin sets the breaker anew.
SameRateAccepted == lastRate # 0 => lastRate >= MinRate(rateAnchor, setup.dev)

\* state.rs:24: the interval bounds how fast a bad keeper can drain the vaults,
\* of all coins together: the cap, once at the start and once per interval.
SpendPaced ==
  setup.interval > 0 =>
    paced.spent <= setup.cap * (1 + (time - paced.since) \div setup.interval)

\* buyback.ts:110-129: as long as the parameters, the vault and the desk are
\* what the keeper saw, the amounts it sends fit every limit of the program.
QuoteFits ==
  \A c \in Coins :
    quote # NoQuote /\ quote.asOf = Seen(c) /\ desk[c].pays = desk[c].base =>
      /\ quote.coin <= Usable(vault[c], setup.buffer)
      /\ SizesFit(UsdcOut(quote.coin, desk[c].pays), quote.minUsdc, quote.routeIn)
=============================================================================
