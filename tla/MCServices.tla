----------------------------- MODULE MCServices -----------------------------
(***************************************************************************)
(* The services beside the payouts, one at a time: a behaviour is one of   *)
(* the indexer, the candle job, the session cycle, the oracle cycle or the *)
(* buyback, and the variables of the others rest.                          *)
(***************************************************************************)
EXTENDS MCIndexer, Candles, Sessions, Prices, Buyback

CONSTANTS gold, adm

VARIABLE world
servicesVars == <<world, indexerVars, candlesVars, sessionsVars, pricesVars, buybackVars>>

Setup(buffer, cap, dev, move, interval) ==
  [buffer |-> buffer, cap |-> cap, dev |-> dev, move |-> move, interval |-> interval]

\* An anchor no rate may fall below, with large steps; a wide band, never moved.
MCSetups == {Setup(0, 3, 0, 5, 1), Setup(2, 5, 4, 0, 2)}

ServicesInit ==
  /\ world \in {"indexer", "candles", "sessions", "prices", "buyback"}
  /\ IndexerInit /\ CandlesInit /\ SessionsInit /\ PricesInit /\ BuybackInit
  /\ world # "sessions" => orderly /\ calendar = "Open"
  /\ world # "prices" => relay /\ file = CHOOSE f \in [price : Quotes, at : {1}] : TRUE
  /\ world # "buyback" =>
       /\ setup = CHOOSE p \in BuybackParams : TRUE
       /\ desk = CHOOSE d \in [Coins -> [base : Bids, pays : Bids]] :
                   \A c \in Coins : d[c].pays <= d[c].base
       /\ rateAnchor = CHOOSE a \in Anchors : TRUE

ServicesNext ==
  \/ /\ world = "indexer" /\ IndexerNext
     /\ UNCHANGED <<world, candlesVars, sessionsVars, pricesVars, buybackVars>>
  \/ /\ world = "candles" /\ CandlesNext
     /\ UNCHANGED <<world, indexerVars, sessionsVars, pricesVars, buybackVars>>
  \/ /\ world = "sessions" /\ SessionsNext
     /\ UNCHANGED <<world, indexerVars, candlesVars, pricesVars, buybackVars>>
  \/ /\ world = "prices" /\ PricesNext
     /\ UNCHANGED <<world, indexerVars, candlesVars, sessionsVars, buybackVars>>
  \/ /\ world = "buyback" /\ BuybackNext
     /\ UNCHANGED <<world, indexerVars, candlesVars, sessionsVars, pricesVars>>

ServicesSpec == ServicesInit /\ [][ServicesNext]_servicesVars
=============================================================================
