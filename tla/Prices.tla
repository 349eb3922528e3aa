------------------------------- MODULE Prices -------------------------------
(***************************************************************************)
(* The price of one market whose oracle is keeper_update_price: the posts  *)
(* on the chain, the oracle cycle that makes them from a price file or     *)
(* from live sources (apps/keeper/src/cycles/oracle.ts), and the two       *)
(* writers of its rows: insertPrice of the keeper (db.ts), which is two    *)
(* statements, and PriceUpdated in the indexer (decode/ingest.ts).         *)
(*                                                                         *)
(* The webhook hands events over in any order, again or never.  A post may *)
(* land although the keeper saw it fail.  The bound on how far a price may *)
(* move is left out: it refuses a post, which any post may be.             *)
(***************************************************************************)
EXTENDS Naturals

CONSTANTS
  Quotes,             \* prices
  POST_GAP,           \* seconds between two posts the cycle keeps to
  POST_MIN_INTERVAL,  \* KeeperPrice.min_interval
  POST_SKEW,          \* MAX_FUTURE_SKEW_SECS
  MaxChainTime,       \* bound: time
  NoPrice

Post == [price : Quotes, at : Nat]

ASSUME PricesAssumption ==
  /\ POST_GAP \in Nat /\ POST_MIN_INTERVAL \in Nat \ {0} /\ POST_SKEW \in Nat
  /\ MaxChainTime \in Nat
  /\ NoPrice \notin Post

VARIABLES
  relay,       \* live sources, stamped with the chain's time, or the file
  chainTime,
  file,        \* the entry of manual-prices.json: price and updatedAt
  posts,       \* PriceUpdated events: [price, at]
  postedOn,    \* KeeperPrice.last_update_ts
  priceRows,   \* table prices
  mirror,      \* commodities.last_price_usd and last_publish_time
  poster,      \* the oracle cycle: its step and its post
  adrift,      \* posts the keeper has given up that may still land
  cut          \* history: rows whose keeper died before the mirror

pricesVars == <<relay, chainTime, file, posts, postedOn, priceRows, mirror, poster, adrift, cut>>

Resting == [at |-> "idle", post |-> NoPrice]

PricesInit ==
  /\ relay \in BOOLEAN
  /\ chainTime = 1 /\ file \in [price : Quotes, at : {1}]
  /\ posts = {} /\ postedOn = 0
  /\ priceRows = {} /\ mirror = NoPrice
  /\ poster = Resting /\ adrift = {} /\ cut = {}

(***************************************************************************)
(* The chain                                                               *)
(***************************************************************************)

\* handle_keeper_update_price
PostLands(p) ==
  /\ p.at <= chainTime + POST_SKEW
  /\ posts # {} => /\ \A q \in posts : p.at > q.at
                   /\ chainTime - postedOn >= POST_MIN_INTERVAL
  /\ posts' = posts \cup {p}
  /\ postedOn' = chainTime

AdriftLands(p) ==
  /\ p \in adrift
  /\ PostLands(p)
  /\ adrift' = adrift \ {p}
  /\ UNCHANGED <<relay, chainTime, file, priceRows, mirror, poster, cut>>

ChainTimePasses ==
  /\ chainTime < MaxChainTime
  /\ chainTime' = chainTime + 1
  /\ UNCHANGED <<relay, file, posts, postedOn, priceRows, mirror, poster, adrift, cut>>

\* Someone edits the file.
FileEdited(price) ==
  /\ ~relay
  /\ file' = [price |-> price, at |-> chainTime]
  /\ UNCHANGED <<relay, chainTime, posts, postedOn, priceRows, mirror, poster, adrift, cut>>

(***************************************************************************)
(* The rows                                                                *)
(***************************************************************************)

\* on conflict (commodity, ts, source) do nothing
RowsWith(p) == IF \E r \in priceRows : r.at = p.at THEN priceRows ELSE priceRows \cup {p}

\* Faulty variant: the later statement wins.
MirrorWith_last(p) == p

MirrorWith(p) == IF mirror = NoPrice \/ mirror.at <= p.at THEN p ELSE mirror

(***************************************************************************)
(* runKeeperSignedBatch and relaySwitchboardPrices                         *)
(***************************************************************************)
DecidePost(p) ==
  /\ poster = Resting
  /\ IF relay THEN p.at = chainTime ELSE p = file
  /\ \A r \in priceRows : p.at >= r.at + POST_GAP
  /\ poster' = [at |-> "sent", post |-> p]
  /\ UNCHANGED <<relay, chainTime, file, posts, postedOn, priceRows, mirror, adrift, cut>>

SentPostLands ==
  /\ poster.at = "sent"
  /\ PostLands(poster.post)
  /\ poster' = [poster EXCEPT !.at = "landed"]
  /\ UNCHANGED <<relay, chainTime, file, priceRows, mirror, adrift, cut>>

\* An error is logged; the next cycle decides anew.
SentPostFails ==
  /\ poster.at = "sent"
  /\ poster' = Resting
  /\ adrift' \in {adrift, adrift \cup {poster.post}}
  /\ UNCHANGED <<relay, chainTime, file, posts, postedOn, priceRows, mirror, cut>>

InsertRow ==
  /\ poster.at = "landed"
  /\ priceRows' = RowsWith(poster.post)
  /\ poster' = [poster EXCEPT !.at = "rowed"]
  /\ UNCHANGED <<relay, chainTime, file, posts, postedOn, mirror, adrift, cut>>

MirrorRow ==
  /\ poster.at = "rowed"
  /\ mirror' = MirrorWith(poster.post)
  /\ poster' = Resting
  /\ UNCHANGED <<relay, chainTime, file, posts, postedOn, priceRows, adrift, cut>>

PosterDies ==
  /\ poster # Resting
  /\ poster' = Resting
  /\ adrift' = IF poster.at = "sent" THEN adrift \cup {poster.post} ELSE adrift
  /\ cut' = IF poster.at = "rowed" THEN cut \cup {poster.post} ELSE cut
  /\ UNCHANGED <<relay, chainTime, file, posts, postedOn, priceRows, mirror>>

\* PriceUpdated: both statements in one savepoint.
IngestPrice(p) ==
  /\ p \in posts
  /\ priceRows' = RowsWith(p)
  /\ mirror' = MirrorWith(p)
  /\ cut' = cut \ {p}
  /\ UNCHANGED <<relay, chainTime, file, posts, postedOn, poster, adrift>>

PricesNext ==
  \/ ChainTimePasses
  \/ \E price \in Quotes : FileEdited(price)
  \/ \E p \in adrift : AdriftLands(p)
  \/ \E p \in [price : Quotes, at : 1..MaxChainTime] : DecidePost(p)
  \/ SentPostLands \/ SentPostFails \/ InsertRow \/ MirrorRow \/ PosterDies
  \/ \E p \in posts : IngestPrice(p)

PricesSpec == PricesInit /\ [][PricesNext]_pricesVars
-----------------------------------------------------------------------------
\* Rows that wait for their mirror, or whose keeper never came to it.
Unmirrored == cut \cup IF poster.at = "rowed" THEN {poster.post} ELSE {}

\* db.ts:50: two writers record the same post.  Rows are posts that landed, and
\* the market's price is its newest row, in whatever order the two write, a
\* keeper's unfinished pair of statements aside.
MirrorIsNewestRow ==
  /\ priceRows \subseteq posts
  /\ mirror # NoPrice => mirror \in priceRows
  /\ \A r \in priceRows \ Unmirrored : mirror # NoPrice /\ mirror.at >= r.at
=============================================================================
