--------------------------- MODULE ServicesProofs ---------------------------
(***************************************************************************)
(* The services around the coins.  The rows of a market, its candles, its  *)
(* status and its price, for every window, every price and however many    *)
(* trades, events and posts.  The buyback program and the keeper's quotes, *)
(* for every parameter, rate and amount: the breaker holds, it does not    *)
(* lock itself out, spending keeps its pace, and what the keeper sends     *)
(* fits.                                                                   *)
(***************************************************************************)
EXTENDS Candles, Sessions, Prices, Buyback, ArithmeticLemmas, SequenceTheorems, TLAPS

(***************************************************************************)
(* Candles                                                                 *)
(***************************************************************************)
CandlesType == clock \in Nat /\ DOMAIN trades \subseteq Nat

\* A bucket that starts inside the window has all its trades inside it.
LEMMA InsideWindow ==
  ASSUME NEW b \in Nat, NEW since \in Nat, NEW ts \in Nat, b * BUCKET >= since, BucketOf(ts) = b
  PROVE  ts >= since
<1> USE CandlesAssumption
<1> DEFINE q == ts \div BUCKET
<1>1. q \in Nat /\ BUCKET * q <= ts
  BY SMT
<1>2. q = b
  BY DEF BucketOf
<1>3. BUCKET * b = b * BUCKET /\ BUCKET * b \in Nat
  BY SMT
<1> QED BY <1>1, <1>2, <1>3

LEMMA BucketsNat == Buckets \subseteq Nat
  BY DEF Buckets

\* The candle job (candles.ts): however late and out of order trades come, a
\* candle that starts inside the window shows every trade of its bucket.
THEOREM RecentCandlesAlwaysWhole == CandlesSpec => [](CandlesType /\ RecentCandlesWhole)
<1> USE CandlesAssumption
<1>1. CandlesInit => CandlesType /\ RecentCandlesWhole
  <2> SUFFICES ASSUME CandlesInit PROVE CandlesType /\ RecentCandlesWhole
    OBVIOUS
  <2>1. DOMAIN trades = {} /\ DOMAIN seen = {}
    BY DEF CandlesInit
  <2>2. CandlesType
    BY <2>1 DEF CandlesInit, CandlesType
  <2>3. ASSUME NEW b \in Buckets PROVE DOMAIN InBucket(seen, b, 0) = {}
    BY <2>1 DEF InBucket, Restrict
  <2> QED BY <2>2, <2>3 DEF RecentCandlesWhole
<1>2. CandlesType /\ RecentCandlesWhole /\ [CandlesNext]_candlesVars
        => (CandlesType /\ RecentCandlesWhole)'
  <2> SUFFICES ASSUME CandlesType, RecentCandlesWhole, [CandlesNext]_candlesVars
               PROVE  CandlesType' /\ RecentCandlesWhole'
    OBVIOUS
  <2>1. CASE Pass
    <3>1. CandlesType'
      BY <2>1 DEF Pass, CandlesType
    <3>2. ASSUME NEW b \in Buckets, b * BUCKET >= WindowStart(clock),
                 DOMAIN InBucket(trades, b, 0) # {}
          PROVE  candles'[b] = Aggregate(InBucket(trades, b, 0))
      <4>1. b \in Nat /\ WindowStart(clock) \in Nat
        BY BucketsNat DEF CandlesType, WindowStart
      <4>2. \A ts \in DOMAIN trades : BucketOf(ts) = b => ts >= WindowStart(clock) /\ ts >= 0
        BY <3>2, <4>1, InsideWindow DEF CandlesType
      <4>3. InBucket(trades, b, 0) = InBucket(trades, b, WindowStart(clock))
        <5>1. {ts \in DOMAIN trades : BucketOf(ts) = b /\ ts >= 0}
                = {ts \in DOMAIN trades : BucketOf(ts) = b /\ ts >= WindowStart(clock)}
          BY <4>2
        <5> QED BY <5>1 DEF InBucket
      <4> QED BY <2>1, <3>2, <4>3 DEF Pass
    <3>3. passed' = clock /\ seen' = trades
      BY <2>1 DEF Pass
    <3>4. RecentCandlesWhole'
      BY <3>2, <3>3 DEF RecentCandlesWhole
    <3> QED BY <3>1, <3>4
  <2>2. ASSUME NEW ts \in 0..MaxClock, NEW price \in TradePrices, TradeIngested(ts, price)
        PROVE  CandlesType' /\ RecentCandlesWhole'
    <3>1. CandlesType'
      BY <2>2 DEF TradeIngested, CandlesType
    <3>2. UNCHANGED <<candles, passed, seen>>
      BY <2>2 DEF TradeIngested
    <3> QED BY <3>1, <3>2 DEF RecentCandlesWhole
  <2>3. CASE TimeGoesBy
    BY <2>3 DEF TimeGoesBy, CandlesType, RecentCandlesWhole
  <2>4. CASE UNCHANGED candlesVars
    BY <2>4 DEF candlesVars, CandlesType, RecentCandlesWhole
  <2> QED BY <2>1, <2>2, <2>3, <2>4 DEF CandlesNext
<1> QED BY <1>1, <1>2, PTL DEF CandlesSpec

(***************************************************************************)
(* Status                                                                  *)
(***************************************************************************)

\* The keeper's rules never leave "Halted" (handle_set_status).
LEMMA KeeperKeepsHalt ==
  ASSUME NEW new, status = "Halted", KeeperMay(new)
  PROVE  new = "Halted"
<1>1. {status, new} # {"Open", "Closed"}
  OBVIOUS
<1> QED BY <1>1 DEF KeeperMay

\* session.ts:12-16: only the admin ends a halt, whatever stale rows, late
\* transactions and replayed events make the keeper send.
THEOREM HaltAlwaysStands == SessionsSpec => HaltStands
<1>1. [SessionsNext]_sessionsVars => [HaltStep]_sessionsVars
  <2> SUFFICES ASSUME SessionsNext, status = "Halted", status' # "Halted"
               PROVE  \E new \in Statuses : AdminSetsStatus(new)
    BY DEF HaltStep
  <2>1. CASE KeeperHalts
    BY <2>1 DEF KeeperHalts, SetStatusTo
  <2>2. CASE FlipLands
    BY <2>2, KeeperKeepsHalt DEF FlipLands, SetStatusTo
  <2>3. ASSUME NEW new \in Statuses, LateFlipLands(new) PROVE FALSE
    BY <2>3, KeeperKeepsHalt DEF LateFlipLands, SetStatusTo
  <2>4. CASE CalendarTurns \/ DecideFlip \/ FlipFails \/ RowFollowsFlip \/ SessionCycleDies
             \/ IngestStatus
    BY <2>4 DEF CalendarTurns, DecideFlip, FlipFails, RowFollowsFlip, SessionCycleDies,
                IngestStatus
  <2> QED BY <2>1, <2>2, <2>3, <2>4 DEF SessionsNext
<1> QED BY <1>1, PTL DEF SessionsSpec, HaltStands

FlipTypes == [at : {"idle", "sent", "landed", "overtaken"}, wants : Statuses]

\* In an orderly run the row is what the last event handed over says, or what
\* the keeper has just set, unless its flip was overtaken.
SessionsInv ==
  /\ status \in Statuses /\ statusLog \in Seq(Statuses)
  /\ ingested \in 0..Len(statusLog)
  /\ orderly =>
       /\ late = {}
       /\ Len(statusLog) > 0 => statusLog[Len(statusLog)] = status
       /\ ingested = Len(statusLog) => row = status \/ behind
       /\ flip.at = "landed" => flip.wants = status

\* An event is added, by the keeper's own flip or while it has none.
LEMMA SessionsEvent ==
  ASSUME SessionsInv, NEW new \in Statuses, SetStatusTo(new),
         UNCHANGED <<orderly, ingested>>,
         orderly => late' = {} /\ (flip'.at = "landed" => flip'.wants = new)
  PROVE  SessionsInv'
<1>1. /\ statusLog' \in Seq(Statuses)
      /\ Len(statusLog') = Len(statusLog) + 1
      /\ statusLog'[Len(statusLog')] = new
      /\ status' = new /\ Len(statusLog) \in Nat
  BY DEF SetStatusTo, SessionsInv
<1>2. ingested' \in 0..Len(statusLog') /\ ingested' # Len(statusLog')
  BY <1>1 DEF SessionsInv
<1> QED BY <1>1, <1>2 DEF SessionsInv

LEMMA SessionsInductive ==
  ASSUME SessionsInv, [SessionsNext]_sessionsVars, flip \in FlipTypes,
         late \subseteq Statuses
  PROVE  SessionsInv'
<1>1. ASSUME NEW new \in Statuses, AdminSetsStatus(new) PROVE SessionsInv'
  <2>1. orderly => late' = {} /\ flip'.at # "landed"
    BY <1>1 DEF AdminSetsStatus, Overtakes, SessionsInv, FlipTypes
  <2> QED BY <1>1, <2>1, SessionsEvent DEF AdminSetsStatus
<1>2. CASE KeeperHalts
  <2>1. orderly => late' = {} /\ flip'.at # "landed"
    BY <1>2 DEF KeeperHalts, Overtakes, SessionsInv, FlipTypes
  <2> QED BY <1>2, <2>1, SessionsEvent DEF KeeperHalts, Statuses
<1>3. CASE FlipLands
  <2>1. orderly => late' = {} /\ flip'.wants = flip.wants
    BY <1>3 DEF FlipLands, SessionsInv
  <2> QED BY <1>3, <2>1, SessionsEvent DEF FlipLands, FlipTypes
<1>4. ASSUME NEW new \in Statuses, LateFlipLands(new) PROVE SessionsInv'
  <2>1. ~orderly
    BY <1>4 DEF LateFlipLands, SessionsInv
  <2> QED BY <1>4, <2>1, SessionsEvent DEF LateFlipLands
<1>5. CASE CalendarTurns
  BY <1>5 DEF CalendarTurns, SessionsInv
<1>6. CASE DecideFlip
  BY <1>6 DEF DecideFlip, SessionsInv
<1>7. CASE FlipFails
  BY <1>7 DEF FlipFails, SessionsInv, NoFlip
<1>8. CASE RowFollowsFlip
  BY <1>8 DEF RowFollowsFlip, SessionsInv, NoFlip
<1>9. CASE SessionCycleDies
  BY <1>9 DEF SessionCycleDies, SessionsInv, NoFlip
<1>10. CASE IngestStatus
  <2>1. CASE orderly
    <3>1. /\ ingested < Len(statusLog) /\ ingested' = ingested + 1
          /\ row' = statusLog[ingested + 1]
      BY <1>10, <2>1 DEF IngestStatus
    <3>2. UNCHANGED <<orderly, status, flip, late, statusLog>>
      BY <1>10 DEF IngestStatus
    <3>3. ingested' \in 0..Len(statusLog') /\ Len(statusLog) \in Nat
      BY <3>1, <3>2 DEF SessionsInv
    <3>4. ingested' = Len(statusLog') => row' = status'
      BY <2>1, <3>1, <3>2, <3>3 DEF SessionsInv
    <3> QED BY <2>1, <3>2, <3>3, <3>4 DEF SessionsInv
  <2>2. CASE ~orderly
    BY <1>10, <2>2 DEF IngestStatus, SessionsInv
  <2> QED BY <2>1, <2>2
<1>11. CASE UNCHANGED sessionsVars
  BY <1>11 DEF sessionsVars, SessionsInv
<1> QED
  BY <1>1, <1>2, <1>3, <1>4, <1>5, <1>6, <1>7, <1>8, <1>9, <1>10, <1>11 DEF SessionsNext

SessionsShape == flip \in FlipTypes /\ late \subseteq Statuses
                 /\ calendar \in Statuses

\* The session cycle (session.ts) and StatusChanged (ingest.ts): an orderly run
\* with every event handed over leaves a market standing otherwise than its row
\* says only where the cycle wrote the row after it was overtaken.
THEOREM RowNeverHides == SessionsSpec => []RowHidesNothing
<1>1. SessionsInit => SessionsInv /\ SessionsShape
  <2> SUFFICES ASSUME SessionsInit PROVE SessionsInv /\ SessionsShape
    OBVIOUS
  <2>1. /\ Len(statusLog) = 0 /\ statusLog \in Seq(Statuses)
        /\ ingested = 0 /\ late = {} /\ status = row /\ status \in Statuses
    BY DEF SessionsInit, Statuses
  <2>2. flip = NoFlip /\ flip.at # "landed"
    BY DEF SessionsInit, NoFlip
  <2>3. flip \in FlipTypes
    BY <2>2 DEF NoFlip, FlipTypes, Statuses
  <2>4. SessionsShape
    BY <2>1, <2>3 DEF SessionsInit, SessionsShape, Statuses
  <2> QED BY <2>1, <2>2, <2>4 DEF SessionsInv
<1>2. SessionsInv /\ SessionsShape /\ [SessionsNext]_sessionsVars => (SessionsInv /\ SessionsShape)'
  <2> SUFFICES ASSUME SessionsInv, SessionsShape, [SessionsNext]_sessionsVars
               PROVE  SessionsInv' /\ SessionsShape'
    OBVIOUS
  <2>1. SessionsInv'
    BY SessionsInductive DEF SessionsShape
  <2>2. ASSUME UNCHANGED calendar, flip' \in FlipTypes, late' \subseteq late
        PROVE  SessionsShape'
    BY <2>2 DEF SessionsShape
  <2>3. CASE KeeperHalts \/ IngestStatus \/ (\E new \in Statuses : AdminSetsStatus(new))
             \/ (\E new \in Statuses : LateFlipLands(new)) \/ UNCHANGED sessionsVars
    <3>1. UNCHANGED calendar /\ late' \subseteq late /\ (Overtakes \/ UNCHANGED flip)
      BY <2>3 DEF KeeperHalts, IngestStatus, AdminSetsStatus, LateFlipLands, sessionsVars
    <3>2. flip' \in FlipTypes
      BY <3>1 DEF Overtakes, SessionsShape, FlipTypes
    <3> QED BY <2>1, <2>2, <3>1, <3>2
  <2>4. CASE CalendarTurns
    BY <2>1, <2>4 DEF CalendarTurns, SessionsShape, Statuses
  <2>5. CASE DecideFlip
    BY <2>1, <2>5 DEF DecideFlip, SessionsShape, FlipTypes
  <2>6. CASE FlipLands
    BY <2>1, <2>6 DEF FlipLands, SessionsShape, FlipTypes
  <2>7. CASE FlipFails \/ RowFollowsFlip \/ SessionCycleDies
    <3>1. NoFlip \in FlipTypes
      BY DEF NoFlip, FlipTypes, Statuses
    <3>2. flip' = NoFlip /\ calendar' = calendar
      BY <2>7 DEF FlipFails, RowFollowsFlip, SessionCycleDies
    <3>3. flip.wants \in Statuses
      BY DEF SessionsShape, FlipTypes
    <3>4. late' \subseteq late \cup {flip.wants}
      BY <2>7 DEF FlipFails, RowFollowsFlip, SessionCycleDies
    <3> QED BY <2>1, <3>1, <3>2, <3>3, <3>4 DEF SessionsShape
  <2> QED BY <2>3, <2>4, <2>5, <2>6, <2>7 DEF SessionsNext
<1>3. SessionsInv => RowHidesNothing
  BY DEF SessionsInv, RowHidesNothing
<1> QED BY <1>1, <1>2, <1>3, PTL DEF SessionsSpec

(***************************************************************************)
(* Price                                                                   *)
(***************************************************************************)

\* Posts are told apart by their time, and a post that the keeper writes down
\* has landed.
PricesInv ==
  /\ posts \subseteq Post
  /\ \A p, q \in posts : p.at = q.at => p = q
  /\ poster.at \in {"landed", "rowed"} => poster.post \in posts
  /\ poster.at = "rowed" => poster.post \in priceRows
  /\ MirrorIsNewestRow

\* Both writers add the post they write down, and no other.
LEMMA RowsWithPost ==
  ASSUME PricesInv, NEW p \in posts
  PROVE  RowsWith(p) = priceRows \cup {p}
<1>1. ASSUME NEW r \in priceRows, r.at = p.at PROVE p \in priceRows
  BY <1>1 DEF PricesInv, MirrorIsNewestRow
<1> QED BY <1>1 DEF RowsWith

\* The mirror never moves back, and covers the post.
LEMMA MirrorMovesOn ==
  ASSUME PricesInv, NEW p \in posts
  PROVE  /\ MirrorWith(p) \in priceRows \cup {p} /\ MirrorWith(p) # NoPrice
         /\ MirrorWith(p).at >= p.at
         /\ mirror # NoPrice => MirrorWith(p).at >= mirror.at
<1>1. p.at \in Nat /\ p # NoPrice
  BY PricesAssumption DEF PricesInv, Post
<1>2. CASE mirror = NoPrice
  BY <1>1, <1>2 DEF MirrorWith
<1>3. CASE mirror # NoPrice
  <2>1. mirror \in priceRows /\ mirror \in posts
    BY <1>3 DEF PricesInv, MirrorIsNewestRow
  <2>2. mirror.at \in Nat
    BY <2>1 DEF PricesInv, Post
  <2> QED BY <1>1, <1>3, <2>1, <2>2 DEF MirrorWith
<1> QED BY <1>2, <1>3

\* A step that writes neither table and whose new posts are newer.
LEMMA PricesRest ==
  ASSUME PricesInv, UNCHANGED <<priceRows, mirror>>,
         posts' = posts \/ \E p \in Post : PostLands(p),
         Unmirrored \cap priceRows \subseteq Unmirrored',
         poster'.at \in {"landed", "rowed"} => poster'.post \in posts',
         poster'.at = "rowed" => poster'.post \in priceRows
  PROVE  PricesInv'
<1>1. posts \subseteq posts' /\ posts' \subseteq Post
  BY DEF PostLands, PricesInv
<1>2. \A p, q \in posts' : p.at = q.at => p = q
  <2>1. CASE posts' = posts
    BY <2>1 DEF PricesInv
  <2>2. ASSUME NEW p \in Post, PostLands(p) PROVE \A x, y \in posts' : x.at = y.at => x = y
    <3>1. posts' = posts \cup {p} /\ \A q \in posts : p.at > q.at
      BY <2>2 DEF PostLands
    <3>2. \A q \in posts : q.at \in Nat /\ p.at \in Nat /\ p.at # q.at
      BY <3>1 DEF PricesInv, Post
    <3> QED BY <3>1, <3>2 DEF PricesInv
  <2> QED BY <2>1, <2>2
<1>3. MirrorIsNewestRow'
  BY <1>1 DEF PricesInv, MirrorIsNewestRow
<1> QED BY <1>1, <1>2, <1>3 DEF PricesInv

LEMMA PricesInductive ==
  ASSUME PricesInv, [PricesNext]_pricesVars, poster.at = "sent" => poster.post \in Post,
         adrift \subseteq Post
  PROVE  PricesInv'
<1>1. CASE ChainTimePasses
  BY <1>1, PricesRest DEF ChainTimePasses, PricesInv, Unmirrored
<1>2. ASSUME NEW price \in Quotes, FileEdited(price) PROVE PricesInv'
  BY <1>2, PricesRest DEF FileEdited, PricesInv, Unmirrored
<1>3. ASSUME NEW p \in adrift, AdriftLands(p) PROVE PricesInv'
  <2>1. p \in Post /\ PostLands(p) /\ UNCHANGED <<priceRows, mirror, poster, cut>>
    BY <1>3 DEF AdriftLands
  <2>2. posts \subseteq posts' /\ Unmirrored' = Unmirrored
    BY <2>1 DEF PostLands, Unmirrored
  <2> QED BY <2>1, <2>2, PricesRest DEF PricesInv
<1>4. ASSUME NEW p, DecidePost(p) PROVE PricesInv'
  <2>1. poster.at = "idle" /\ poster'.at = "sent"
    BY <1>4 DEF DecidePost, Resting
  <2>2. Unmirrored' = Unmirrored
    BY <1>4, <2>1 DEF DecidePost, Unmirrored
  <2> QED BY <1>4, <2>1, <2>2, PricesRest DEF DecidePost
<1>5. CASE SentPostLands
  <2>1. poster.post \in Post /\ PostLands(poster.post)
    BY <1>5 DEF SentPostLands
  <2>2. poster'.at = "landed" \/ poster' = [poster EXCEPT !.at = "landed"]
    BY <1>5 DEF SentPostLands
  <2> QED BY <1>5, <2>1, <2>2, PricesRest DEF SentPostLands, PostLands, Unmirrored
<1>6. CASE SentPostFails
  BY <1>6, PricesRest DEF SentPostFails, Unmirrored, Resting
<1>7. CASE InsertRow
  <2>1. poster.post \in posts
    BY <1>7 DEF InsertRow, PricesInv
  <2>2. priceRows' = priceRows \cup {poster.post}
    BY <1>7, <2>1, RowsWithPost DEF InsertRow
  <2> QED BY <1>7, <2>1, <2>2 DEF InsertRow, PricesInv, MirrorIsNewestRow, Unmirrored
<1>8. CASE MirrorRow
  <2> DEFINE p == poster.post
  <2>1. p \in priceRows /\ p \in posts
    BY <1>8 DEF MirrorRow, PricesInv
  <2>2. mirror' = MirrorWith(p) /\ UNCHANGED <<posts, priceRows, cut>> /\ poster' = Resting
    BY <1>8 DEF MirrorRow
  <2>3. /\ mirror' \in priceRows /\ mirror' # NoPrice /\ mirror'.at >= p.at
        /\ mirror # NoPrice => mirror'.at >= mirror.at
    BY <2>1, <2>2, MirrorMovesOn
  <2>4. ASSUME NEW r \in priceRows, r \notin cut PROVE mirror'.at >= r.at
    <3>1. CASE r = p
      BY <2>3, <3>1
    <3>2. CASE r # p
      <4>1. mirror # NoPrice /\ mirror.at >= r.at
        BY <2>4, <3>2 DEF PricesInv, MirrorIsNewestRow, Unmirrored
      <4>2. r.at \in Nat /\ mirror.at \in Nat /\ mirror'.at \in Nat
        BY <2>3, <4>1 DEF PricesInv, MirrorIsNewestRow, Post
      <4> QED BY <2>3, <4>1, <4>2
    <3> QED BY <3>1, <3>2
  <2>5. MirrorIsNewestRow'
    BY <2>2, <2>3, <2>4 DEF PricesInv, MirrorIsNewestRow, Unmirrored, Resting
  <2> QED BY <2>2, <2>5 DEF PricesInv, Resting
<1>9. CASE PosterDies
  BY <1>9, PricesRest DEF PosterDies, Unmirrored, Resting
<1>10. ASSUME NEW p \in posts, IngestPrice(p) PROVE PricesInv'
  <2>1. priceRows' = priceRows \cup {p}
    BY <1>10, RowsWithPost DEF IngestPrice
  <2>2. mirror' = MirrorWith(p) /\ UNCHANGED <<posts, poster>> /\ cut' = cut \ {p}
    BY <1>10 DEF IngestPrice
  <2>3. /\ mirror' \in priceRows' /\ mirror' # NoPrice /\ mirror'.at >= p.at
        /\ mirror # NoPrice => mirror'.at >= mirror.at
    BY <2>1, <2>2, MirrorMovesOn
  <2>4. ASSUME NEW r \in priceRows' \ Unmirrored' PROVE mirror'.at >= r.at
    <3>1. CASE r = p
      BY <2>3, <3>1
    <3>2. CASE r # p
      <4>1. r \in priceRows \ Unmirrored
        BY <2>1, <2>2, <2>4, <3>2 DEF Unmirrored
      <4>2. mirror # NoPrice /\ mirror.at >= r.at
        BY <4>1 DEF PricesInv, MirrorIsNewestRow
      <4>3. r.at \in Nat /\ mirror.at \in Nat /\ mirror'.at \in Nat
        BY <2>1, <2>3, <4>1, <4>2 DEF PricesInv, MirrorIsNewestRow, Post
      <4> QED BY <2>3, <4>2, <4>3
    <3> QED BY <3>1, <3>2
  <2>5. MirrorIsNewestRow'
    BY <2>1, <2>2, <2>3, <2>4 DEF PricesInv, MirrorIsNewestRow
  <2> QED BY <2>1, <2>2, <2>5 DEF PricesInv
<1>11. CASE UNCHANGED pricesVars
  BY <1>11, PricesRest DEF pricesVars, PricesInv, Unmirrored
<1> QED
  BY <1>1, <1>2, <1>3, <1>4, <1>5, <1>6, <1>7, <1>8, <1>9, <1>10, <1>11 DEF PricesNext

PricesShape ==
  /\ chainTime \in Nat /\ file \in Post /\ adrift \subseteq Post
  /\ poster \in [at : {"idle", "sent", "landed", "rowed"}, post : Post \cup {NoPrice}]
  /\ poster.at = "sent" => poster.post \in Post

\* insertPrice (db.ts) and PriceUpdated (ingest.ts): in whatever order the two
\* write, the market's price is its newest row and was posted.
THEOREM MirrorAlwaysNewest == PricesSpec => []MirrorIsNewestRow
<1>1. PricesInit => PricesInv /\ PricesShape
  BY DEF PricesInit, PricesInv, PricesShape, MirrorIsNewestRow, Unmirrored, Resting, Post
<1>2. PricesInv /\ PricesShape /\ [PricesNext]_pricesVars => (PricesInv /\ PricesShape)'
  <2> SUFFICES ASSUME PricesInv, PricesShape, [PricesNext]_pricesVars
               PROVE  PricesInv' /\ PricesShape'
    OBVIOUS
  <2>1. PricesInv'
    BY PricesInductive DEF PricesShape
  <2>2. CASE ChainTimePasses
    BY <2>1, <2>2 DEF ChainTimePasses, PricesShape
  <2>3. ASSUME NEW price \in Quotes, FileEdited(price) PROVE PricesShape'
    BY <2>3 DEF FileEdited, PricesShape, Post
  <2>4. ASSUME NEW p \in adrift, AdriftLands(p) PROVE PricesShape'
    BY <2>4 DEF AdriftLands, PricesShape
  <2>5. ASSUME NEW p \in [price : Quotes, at : 1..MaxChainTime], DecidePost(p) PROVE PricesShape'
    <3>1. p \in Post
      BY PricesAssumption DEF Post
    <3> QED BY <2>5, <3>1 DEF DecidePost, PricesShape
  <2>6. CASE SentPostLands
    BY <2>1, <2>6 DEF SentPostLands, PricesShape
  <2>7. CASE SentPostFails \/ InsertRow \/ MirrorRow \/ PosterDies
    BY <2>1, <2>7 DEF SentPostFails, InsertRow, MirrorRow, PosterDies, PricesShape, Resting
  <2>8. ASSUME NEW p \in posts, IngestPrice(p) PROVE PricesShape'
    BY <2>8 DEF IngestPrice, PricesShape
  <2>9. CASE UNCHANGED pricesVars
    BY <2>1, <2>9 DEF pricesVars, PricesShape
  <2> QED BY <2>1, <2>2, <2>3, <2>4, <2>5, <2>6, <2>7, <2>8, <2>9 DEF PricesNext
<1>3. PricesInv => MirrorIsNewestRow
  BY DEF PricesInv
<1> QED BY <1>1, <1>2, <1>3, PTL DEF PricesSpec

(***************************************************************************)
(* Buyback                                                                 *)
(***************************************************************************)

(***************************************************************************)
(* Arithmetic                                                              *)
(***************************************************************************)

\* A share of an amount, as Usable, MinRate and HaircutBps take it.
Share(x, bps) == (x * (BPS_DENOM - bps)) \div BPS_DENOM

LEMMA ShareBound ==
  ASSUME NEW x \in Nat, NEW bps \in 0..BPS_DENOM
  PROVE  Share(x, bps) \in Nat /\ Share(x, bps) <= x
<1> USE BuybackAssumption
<1> DEFINE part == x * (BPS_DENOM - bps)
<1>1. BPS_DENOM - bps \in Nat /\ BPS_DENOM - bps <= BPS_DENOM
  OBVIOUS
<1>2. part \in Nat /\ part <= BPS_DENOM * x
  BY <1>1, TimesMono
<1> HIDE DEF part
<1>3. part \div BPS_DENOM \in Nat /\ BPS_DENOM * (part \div BPS_DENOM) <= part
  BY <1>2, DivLemma
<1>4. /\ BPS_DENOM * x \in Nat /\ BPS_DENOM * (part \div BPS_DENOM) \in Nat
      /\ BPS_DENOM * (part \div BPS_DENOM) <= BPS_DENOM * x
  BY <1>2, <1>3, SMT
<1>5. part \div BPS_DENOM <= x
  BY <1>3, <1>4, TimesCancel
<1> QED BY <1>3, <1>5 DEF Share, part

\* A larger amount has the larger share, and a larger cut leaves the smaller.
LEMMA ShareMono ==
  ASSUME NEW x \in Nat, NEW y \in Nat, NEW bps \in 0..BPS_DENOM, x <= y
  PROVE  Share(x, bps) <= Share(y, bps)
<1> USE BuybackAssumption
<1>1. BPS_DENOM - bps \in Nat
  OBVIOUS
<1>2. /\ x * (BPS_DENOM - bps) \in Nat /\ y * (BPS_DENOM - bps) \in Nat
      /\ x * (BPS_DENOM - bps) <= y * (BPS_DENOM - bps)
  BY <1>1, TimesMono
<1> QED BY <1>2, DivMono DEF Share

LEMMA ShareAnti ==
  ASSUME NEW x \in Nat, NEW low \in 0..BPS_DENOM, NEW high \in 0..BPS_DENOM, low <= high
  PROVE  Share(x, high) <= Share(x, low)
<1> USE BuybackAssumption
<1>1. /\ BPS_DENOM - high \in Nat /\ BPS_DENOM - low \in Nat
      /\ BPS_DENOM - high <= BPS_DENOM - low
  OBVIOUS
<1>2. /\ x * (BPS_DENOM - high) \in Nat /\ x * (BPS_DENOM - low) \in Nat
      /\ x * (BPS_DENOM - high) <= x * (BPS_DENOM - low)
  BY <1>1, TimesMono
<1> QED BY <1>2, DivMono DEF Share

\* next_anchor (convert_and_burn.rs): the anchor never falls, and rises no
\* further than the rate.
LEMMA AnchorSteps ==
  ASSUME NEW anchor \in Nat \ {0}, NEW rate \in Nat, NEW move \in 0..BPS_DENOM
  PROVE  /\ NextAnchor(anchor, rate, move) \in Nat \ {0}
         /\ NextAnchor(anchor, rate, move) >= anchor
         /\ rate > anchor => NextAnchor(anchor, rate, move) <= rate
         /\ rate <= anchor => NextAnchor(anchor, rate, move) = anchor
<1> USE BuybackAssumption
<1> DEFINE step == (anchor * move) \div BPS_DENOM
<1>1. anchor * move \in Nat
  BY SMT
<1>2. step \in Nat
  BY <1>1, DivLemma
<1>3. CASE rate <= anchor
  BY <1>3 DEF NextAnchor
<1>4. CASE rate > anchor
  <2>1. NextAnchor(anchor, rate, move) = Lower(anchor + (IF step = 0 THEN 1 ELSE step), rate)
    BY <1>4 DEF NextAnchor
  <2> HIDE DEF step
  <2> QED BY <1>2, <1>4, <2>1 DEF Lower
<1> QED BY <1>3, <1>4

(***************************************************************************)
(* The invariant                                                           *)
(***************************************************************************)
BuybackType ==
  /\ time \in Nat /\ lastCycle \in 0..time
  /\ setup \in BuybackParams /\ rateAnchor \in Nat \ {0}
  /\ vault \in [Coins -> Nat] /\ bbUsdc \in Nat
  /\ desk \in [Coins -> [base : Bids, pays : Bids]]
  /\ floor \in Nat \ {0} /\ lastRate \in Nat
  /\ paced \in [since : 0..time, spent : Nat]

\* The anchor has only risen since the admin set it.
AnchorRose == floor <= rateAnchor

\* Every cycle since the pace was set had its interval to itself.
CyclesPaced ==
  setup.interval > 0 /\ paced.spent > 0 =>
    /\ paced.since <= lastCycle
    /\ paced.spent <= setup.cap * (1 + (lastCycle - paced.since) \div setup.interval)

\* A quote was made from what its asOf says.
QuotedFrom(coin, minUsdc, routeIn, su, balance, bid, slippage) ==
  LET expected == UsdcOut(coin, bid)
  IN /\ coin = Lower(Usable(balance, su.buffer), (su.cap * PRICE_SCALE) \div bid)
     /\ minUsdc = HaircutBps(expected, slippage) /\ minUsdc > 0
     /\ routeIn = RouteIn(expected, slippage)

QuoteHonest ==
  quote # NoQuote =>
    \E c \in Coins, su \in BuybackParams, balance \in Nat, bid \in Bids, slippage \in Slippages :
      /\ quote.asOf = <<c, su, balance, bid>>
      /\ QuotedFrom(quote.coin, quote.minUsdc, quote.routeIn, su, balance, bid, slippage)

BuybackInv ==
  /\ BuybackType /\ AnchorRose /\ RateFloor /\ SameRateAccepted
  /\ CyclesPaced /\ QuoteHonest

LEMMA ParamsType ==
  ASSUME NEW p \in BuybackParams
  PROVE  /\ p.buffer \in 0..BPS_DENOM /\ p.cap \in Nat \ {0} /\ p.dev \in 0..BPS_DENOM
         /\ p.move \in 0..BPS_DENOM /\ p.interval \in Nat
  BY BuybackAssumption

(***************************************************************************)
(* Steps                                                                   *)
(***************************************************************************)

\* A step of the breaker's and the pace's surroundings.
LEMMA BreakerRests ==
  ASSUME AnchorRose, RateFloor, SameRateAccepted, CyclesPaced,
         UNCHANGED <<setup, rateAnchor, floor, lastRate, lastCycle, paced>>
  PROVE  AnchorRose' /\ RateFloor' /\ SameRateAccepted' /\ CyclesPaced'
  BY DEF AnchorRose, RateFloor, SameRateAccepted, CyclesPaced, MinRate

\* set_params re-bases what it changes.
LEMMA SetParamsKeeps ==
  ASSUME BuybackInv,
         NEW a, NEW p \in BuybackParams, NEW anchor \in Anchors \cup {rateAnchor},
         NEW stop \in BOOLEAN, NEW ks, NEW new, SetParams(a, p, anchor, stop, ks, new)
  PROVE  BuybackInv'
<1> USE DEF BuybackInv
<1>1. /\ setup' = p /\ rateAnchor' = anchor
      /\ floor' = IF anchor = rateAnchor THEN floor ELSE anchor
      /\ lastRate' = IF anchor = rateAnchor /\ p.dev = setup.dev THEN lastRate ELSE 0
      /\ paced' = IF p.cap = setup.cap /\ p.interval = setup.interval THEN paced
                  ELSE [since |-> time, spent |-> 0]
      /\ UNCHANGED <<time, lastCycle, vault, bbUsdc, desk, quote>>
  BY DEF SetParams
<1>2. anchor \in Nat \ {0}
  BY BuybackAssumption DEF BuybackType
<1>3. BuybackType'
  <2>1. paced' \in [since : 0..time, spent : Nat]
    BY <1>1 DEF BuybackType
  <2> QED BY <1>1, <1>2, <2>1 DEF BuybackType
<1>4. AnchorRose'
  BY <1>1, <1>2 DEF AnchorRose
<1>5. RateFloor' /\ SameRateAccepted'
  BY <1>1 DEF RateFloor, SameRateAccepted, MinRate
<1>6. CyclesPaced'
  <2>1. CASE p.cap = setup.cap /\ p.interval = setup.interval
    BY <1>1, <2>1 DEF CyclesPaced
  <2>2. CASE ~(p.cap = setup.cap /\ p.interval = setup.interval)
    <3>1. paced'.spent = 0
      BY <1>1, <2>2
    <3> QED BY <3>1 DEF CyclesPaced
  <2> QED BY <2>1, <2>2
<1>7. QuoteHonest'
  BY <1>1 DEF QuoteHonest
<1> QED BY <1>3, <1>4, <1>5, <1>6, <1>7

\* A cycle: the rate passes the breaker, and the anchor follows it part way up.
LEMMA CycleKeepsBreaker ==
  ASSUME BuybackType, AnchorRose, NEW rate \in Nat, rate >= MinRate(rateAnchor, setup.dev),
         rateAnchor' = NextAnchor(rateAnchor, rate, setup.move), lastRate' = rate,
         UNCHANGED <<setup, floor>>
  PROVE  rateAnchor' \in Nat \ {0} /\ AnchorRose' /\ RateFloor' /\ SameRateAccepted'
<1>1. /\ setup.dev \in 0..BPS_DENOM /\ setup.move \in 0..BPS_DENOM
      /\ rateAnchor \in Nat \ {0} /\ floor \in Nat \ {0} /\ floor <= rateAnchor
  BY ParamsType DEF BuybackType, AnchorRose
<1>2. /\ rateAnchor' \in Nat \ {0} /\ rateAnchor' >= rateAnchor
      /\ rate > rateAnchor => rateAnchor' <= rate
      /\ rate <= rateAnchor => rateAnchor' = rateAnchor
  BY <1>1, AnchorSteps
<1>3. AnchorRose'
  BY <1>1, <1>2 DEF AnchorRose
<1>4. RateFloor'
  <2>1. MinRate(floor, setup.dev) <= MinRate(rateAnchor, setup.dev)
    BY <1>1, ShareMono DEF MinRate, Share
  <2>2. MinRate(floor, setup.dev) \in Nat /\ MinRate(rateAnchor, setup.dev) \in Nat
    BY <1>1, ShareBound DEF MinRate, Share
  <2>3. rate >= MinRate(floor, setup.dev)
    BY <2>1, <2>2
  <2> QED BY <2>3 DEF RateFloor, MinRate
<1>5. SameRateAccepted'
  <2>1. CASE rate <= rateAnchor
    BY <1>2, <2>1 DEF SameRateAccepted, MinRate
  <2>2. CASE rate > rateAnchor
    <3>1. rateAnchor' <= rate
      BY <1>2, <2>2
    <3>2. /\ MinRate(rateAnchor', setup.dev) \in Nat
          /\ MinRate(rateAnchor', setup.dev) <= rateAnchor'
      BY <1>1, <1>2, ShareBound DEF MinRate, Share
    <3>3. rate >= MinRate(rateAnchor', setup.dev)
      BY <1>2, <3>1, <3>2
    <3> QED BY <3>3 DEF SameRateAccepted, MinRate
  <2> QED BY <1>1, <2>1, <2>2
<1> QED BY <1>2, <1>3, <1>4, <1>5

\* A cycle spends at most the cap, and comes an interval after the last.
LEMMA CycleKeepsPace ==
  ASSUME BuybackType, CyclesPaced, NEW spent \in Nat, spent <= setup.cap,
         time - lastCycle >= setup.interval,
         lastCycle' = time, paced' = [paced EXCEPT !.spent = @ + spent], setup' = setup
  PROVE  CyclesPaced'
<1> DEFINE interval == setup.interval
<1> DEFINE cap == setup.cap
<1> DEFINE since == paced.since
<1> DEFINE k == (lastCycle - since) \div interval
<1> DEFINE n == (time - since) \div interval
<1>1. /\ interval \in Nat /\ cap \in Nat \ {0} /\ since \in Nat /\ since <= time
      /\ paced.spent \in Nat /\ lastCycle \in Nat /\ lastCycle <= time /\ time \in Nat
  BY ParamsType DEF BuybackType
<1>2. paced'.since = since /\ paced'.spent = paced.spent + spent
  BY DEF BuybackType
<1>3. CASE interval = 0
  BY <1>3 DEF CyclesPaced
<1>4. CASE interval > 0
  <2>1. n \in Nat
    <3>1. time - since \in Nat
      BY <1>1
    <3> QED BY <1>1, <1>4, <3>1, DivLemma
  <2>2. CASE paced.spent = 0
    <3>1. cap * 1 <= cap * (1 + n) /\ cap * (1 + n) \in Nat
      BY <1>1, <2>1, TimesMono
    <3>2. cap * 1 = cap
      BY <1>1
    <3>3. paced.spent + spent <= cap * (1 + n)
      BY <1>1, <2>2, <3>1, <3>2
    <3> QED BY <1>1, <1>2, <3>3 DEF CyclesPaced
  <2>3. CASE paced.spent > 0
    <3>1. since <= lastCycle /\ paced.spent <= cap * (1 + k)
      BY <1>4, <2>3 DEF CyclesPaced
    <3>2. lastCycle - since \in Nat /\ time - since \in Nat
          /\ (lastCycle - since) + interval <= time - since
      BY <1>1, <3>1
    <3>3. k \in Nat /\ k + 1 <= n
      BY <1>1, <1>4, <3>2, DivStep, DivLemma
    <3> HIDE DEF k, n, cap
    <3>4. /\ cap * ((1 + k) + 1) <= cap * (1 + n) /\ cap * (1 + n) \in Nat
          /\ cap * ((1 + k) + 1) \in Nat
      BY <1>1, <2>1, <3>3, TimesMono
    <3>5. cap * ((1 + k) + 1) = cap * (1 + k) + cap /\ cap * (1 + k) \in Nat
      BY <1>1, <3>3, SMT
    <3>6. paced.spent + spent <= cap * (1 + n)
      BY <1>1, <3>1, <3>4, <3>5 DEF cap
    <3> QED BY <1>1, <1>2, <3>6 DEF CyclesPaced, n, cap
  <2> QED BY <1>1, <2>2, <2>3
<1> QED BY <1>1, <1>3, <1>4

\* KeeperSends and KeeperConverts: one cycle, whatever amounts it is asked for.
LEMMA ConvertKeeps ==
  ASSUME BuybackInv, NEW who, NEW c \in Coins, NEW requested \in Nat, NEW minUsdc \in Nat,
         NEW spent \in Nat, NEW ice \in Nat, NEW minIce,
         ConvertAndBurn(who, c, requested, minUsdc, spent, ice, minIce)
  PROVE  BuybackType' /\ AnchorRose' /\ RateFloor' /\ SameRateAccepted' /\ CyclesPaced'
<1> USE DEF BuybackInv
<1> DEFINE coin == Lower(requested, Usable(vault[c], setup.buffer))
<1> DEFINE out == UsdcOut(coin, desk[c].pays)
<1> DEFINE rate == RatePerUsdc(ice, spent)
<1>1. /\ CycleDue /\ SizesFit(out, minUsdc, spent)
      /\ rate >= MinRate(rateAnchor, setup.dev)
      /\ vault' = [vault EXCEPT ![c] = @ - coin]
      /\ bbUsdc' = bbUsdc + out - spent
      /\ rateAnchor' = NextAnchor(rateAnchor, rate, setup.move)
      /\ lastCycle' = time /\ lastRate' = rate
      /\ paced' = [paced EXCEPT !.spent = @ + spent]
      /\ UNCHANGED <<time, setup, desk, floor>>
  BY DEF ConvertAndBurn
<1>2. vault[c] \in Nat /\ setup \in BuybackParams /\ desk[c].pays \in Nat
  BY BuybackAssumption DEF BuybackType
<1>3. coin \in Nat /\ coin <= vault[c]
  <2>1. /\ Usable(vault[c], setup.buffer) \in Nat
        /\ Usable(vault[c], setup.buffer) <= vault[c]
    BY <1>2, ParamsType, ShareBound DEF Usable, Share
  <2> QED BY <1>2, <2>1 DEF Lower
<1>4. out \in Nat
  <2>1. coin * desk[c].pays \in Nat
    BY <1>2, <1>3, SMT
  <2> QED BY <2>1, BuybackAssumption, DivLemma DEF UsdcOut
<1>5. spent >= 1 /\ spent <= bbUsdc + out /\ spent <= setup.cap
  <2>1. out * (BPS_DENOM - MIN_SPEND_TOLERANCE_BPS) \in Nat
    <3>1. BPS_DENOM - MIN_SPEND_TOLERANCE_BPS \in Nat
      BY BuybackAssumption
    <3> QED BY <1>4, <3>1, SMT
  <2>2. MinSpend(out) \in Nat /\ MinSpend(out) >= 1
    <3> DEFINE least == (out * (BPS_DENOM - MIN_SPEND_TOLERANCE_BPS)) \div BPS_DENOM
    <3>1. least \in Nat
      BY <2>1, BuybackAssumption, DivLemma
    <3> HIDE DEF least
    <3>2. MinSpend(out) = IF least = 0 THEN 1 ELSE least
      BY DEF MinSpend, least
    <3> QED BY <3>1, <3>2
  <2>3. spent >= MinSpend(out) /\ spent <= bbUsdc + out /\ spent <= setup.cap
    BY <1>1 DEF SizesFit
  <2> QED BY <2>2, <2>3
<1>6. rate \in Nat
  <2>1. ice * USDC_UNIT \in Nat
    BY BuybackAssumption, SMT
  <2> QED BY <1>5, <2>1, DivLemma DEF RatePerUsdc
<1> HIDE DEF coin, out, rate
<1>7. rateAnchor' \in Nat \ {0} /\ AnchorRose' /\ RateFloor' /\ SameRateAccepted'
  BY <1>1, <1>6, CycleKeepsBreaker
<1>8. CyclesPaced'
  BY <1>1, <1>5, CycleKeepsPace DEF CycleDue
<1>9. BuybackType'
  <2>1. vault' \in [Coins -> Nat]
    <3>1. vault[c] - coin \in Nat
      BY <1>2, <1>3
    <3> QED BY <1>1, <3>1 DEF BuybackType
  <2>2. bbUsdc' \in Nat
    BY <1>1, <1>4, <1>5 DEF BuybackType
  <2>3. paced' \in [since : 0..time, spent : Nat]
    <3>1. paced.spent + spent \in Nat
      BY DEF BuybackType
    <3> QED BY <1>1, <3>1 DEF BuybackType
  <2>4. time \in Nat /\ time \in 0..time
    BY DEF BuybackType
  <2> QED BY <1>1, <1>6, <1>7, <2>1, <2>2, <2>3, <2>4 DEF BuybackType
<1> QED BY <1>7, <1>8, <1>9

\* The keeper's amounts fit what the program asks, when it sees what the
\* keeper saw: the lemma of QuoteFits, from one quote.
LEMMA SizesOfQuote ==
  ASSUME BuybackType, NEW balance \in Nat, NEW bid \in Bids, NEW slippage \in Slippages,
         NEW coin, NEW minUsdc, NEW routeIn,
         QuotedFrom(coin, minUsdc, routeIn, setup, balance, bid, slippage)
  PROVE  /\ coin <= Usable(balance, setup.buffer)
         /\ SizesFit(UsdcOut(coin, bid), minUsdc, routeIn)
<1> DEFINE usable == Usable(balance, setup.buffer)
<1> DEFINE limit == (setup.cap * PRICE_SCALE) \div bid
<1> DEFINE expected == UsdcOut(coin, bid)
<1> DEFINE haircut == Lower(slippage, MAX_ROUTE_HAIRCUT_BPS)
<1>1. /\ bid \in Nat \ {0} /\ PRICE_SCALE \in Nat \ {0} /\ BPS_DENOM \in Nat \ {0}
      /\ setup.cap \in Nat /\ setup.buffer \in 0..BPS_DENOM
      /\ slippage \in 0..BPS_DENOM /\ MAX_ROUTE_HAIRCUT_BPS \in 0..MIN_SPEND_TOLERANCE_BPS
      /\ MIN_SPEND_TOLERANCE_BPS \in 0..BPS_DENOM /\ bbUsdc \in Nat
  BY ParamsType, BuybackAssumption DEF BuybackType
<1>2. usable \in Nat
  BY <1>1, ShareBound DEF Usable, Share
<1>3. setup.cap * PRICE_SCALE \in Nat
  BY <1>1, SMT
<1>4. limit \in Nat /\ bid * limit <= setup.cap * PRICE_SCALE
  BY <1>1, <1>3, DivLemma
<1>5. coin = Lower(usable, limit) /\ minUsdc = Share(expected, slippage) /\ minUsdc > 0
      /\ routeIn = Share(expected, haircut)
  BY DEF QuotedFrom, HaircutBps, Share, RouteIn
<1> HIDE DEF usable, limit
<1>6. coin \in Nat /\ coin <= usable /\ coin <= limit
  BY <1>2, <1>4, <1>5 DEF Lower
<1>7. expected \in Nat /\ expected <= setup.cap
  <2>1. coin * bid \in Nat /\ coin * bid <= bid * limit
    BY <1>1, <1>4, <1>6, TimesMono
  <2>2. coin * bid <= PRICE_SCALE * setup.cap
    <3>1. bid * limit \in Nat /\ setup.cap * PRICE_SCALE = PRICE_SCALE * setup.cap
      BY <1>1, <1>4, SMT
    <3> QED BY <1>3, <1>4, <2>1, <3>1
  <2> DEFINE q == (coin * bid) \div PRICE_SCALE
  <2>3. q \in Nat /\ PRICE_SCALE * q <= coin * bid
    BY <1>1, <2>1, DivLemma
  <2> HIDE DEF q
  <2>4. PRICE_SCALE * q <= PRICE_SCALE * setup.cap
    <3>1. PRICE_SCALE * q \in Nat /\ PRICE_SCALE * setup.cap \in Nat
      BY <1>1, <2>3, SMT
    <3> QED BY <2>1, <2>2, <2>3, <3>1
  <2>5. q <= setup.cap
    BY <1>1, <2>3, <2>4, TimesCancel
  <2> QED BY <2>3, <2>5 DEF UsdcOut, q
<1>8. haircut \in 0..BPS_DENOM /\ haircut <= slippage /\ haircut <= MIN_SPEND_TOLERANCE_BPS
  BY <1>1 DEF Lower
<1> HIDE DEF expected, haircut
<1>9. /\ minUsdc \in Nat /\ minUsdc <= expected
      /\ routeIn \in Nat /\ routeIn <= expected /\ minUsdc <= routeIn
  BY <1>1, <1>5, <1>7, <1>8, ShareBound, ShareAnti
<1>10. routeIn >= MinSpend(expected)
  <2>1. Share(expected, MIN_SPEND_TOLERANCE_BPS) <= routeIn
        /\ Share(expected, MIN_SPEND_TOLERANCE_BPS) \in Nat
    BY <1>1, <1>5, <1>7, <1>8, ShareAnti, ShareBound
  <2>2. MinSpend(expected) = IF Share(expected, MIN_SPEND_TOLERANCE_BPS) = 0 THEN 1
                             ELSE Share(expected, MIN_SPEND_TOLERANCE_BPS)
    BY DEF MinSpend, Share
  <2>3. routeIn >= 1
    BY <1>5, <1>9
  <2> QED BY <2>1, <2>2, <2>3, <1>9
<1>11. SizesFit(expected, minUsdc, routeIn)
  <2>1. expected > 0 /\ expected >= minUsdc
    BY <1>5, <1>7, <1>9
  <2>2. routeIn <= bbUsdc + expected /\ routeIn <= setup.cap
    BY <1>1, <1>7, <1>9
  <2> QED BY <1>7, <1>10, <2>1, <2>2 DEF SizesFit
<1> QED BY <1>6, <1>11 DEF expected, usable

\* A quote is of amounts.
LEMMA QuoteNat ==
  ASSUME BuybackInv, quote # NoQuote
  PROVE  quote.coin \in Nat /\ quote.minUsdc \in Nat /\ quote.routeIn \in Nat
<1>1. PICK c \in Coins, su \in BuybackParams, balance \in Nat, bid \in Bids,
           slippage \in Slippages :
             QuotedFrom(quote.coin, quote.minUsdc, quote.routeIn, su, balance, bid, slippage)
  BY DEF BuybackInv, QuoteHonest
<1> DEFINE expected == UsdcOut(quote.coin, bid)
<1> DEFINE haircut == Lower(slippage, MAX_ROUTE_HAIRCUT_BPS)
<1>2. /\ bid \in Nat \ {0} /\ PRICE_SCALE \in Nat \ {0} /\ su.cap \in Nat
      /\ su.buffer \in 0..BPS_DENOM /\ slippage \in 0..BPS_DENOM
      /\ MAX_ROUTE_HAIRCUT_BPS \in 0..BPS_DENOM
  BY ParamsType, BuybackAssumption
<1>3. quote.coin \in Nat
  <2>1. Usable(balance, su.buffer) \in Nat
    BY <1>2, ShareBound DEF Usable, Share
  <2>2. su.cap * PRICE_SCALE \in Nat
    BY <1>2, SMT
  <2>3. (su.cap * PRICE_SCALE) \div bid \in Nat
    BY <1>2, <2>2, DivLemma
  <2> QED BY <1>1, <2>1, <2>3 DEF QuotedFrom, Lower
<1>4. expected \in Nat
  <2>1. quote.coin * bid \in Nat
    BY <1>2, <1>3, SMT
  <2> QED BY <1>2, <2>1, DivLemma DEF UsdcOut
<1>5. haircut \in 0..BPS_DENOM
  BY <1>2 DEF Lower
<1>6. quote.minUsdc = Share(expected, slippage) /\ quote.routeIn = Share(expected, haircut)
  BY <1>1 DEF QuotedFrom, HaircutBps, Share, RouteIn
<1> HIDE DEF expected, haircut
<1> QED BY <1>2, <1>3, <1>4, <1>5, <1>6, ShareBound

(***************************************************************************)
(* The theorems                                                            *)
(***************************************************************************)
LEMMA BuybackInductive ==
  ASSUME BuybackInv, [BuybackNext]_buybackVars
  PROVE  BuybackInv'
<1> USE DEF BuybackInv
<1>1. ASSUME NEW a \in Actors, NEW p \in BuybackParams, NEW anchor \in Anchors \cup {rateAnchor},
             NEW stop \in BOOLEAN, NEW ks \in SUBSET Actors, NEW new \in Actors,
             SetParams(a, p, anchor, stop, ks, new)
      PROVE  BuybackInv'
  BY <1>1, SetParamsKeeps
<1>2. ASSUME NEW a \in Actors, NEW amount \in 1..bbUsdc, SweepWorkAccount(a, amount)
      PROVE  BuybackInv'
  <2>1. UNCHANGED <<setup, rateAnchor, floor, lastRate, lastCycle, paced>>
    BY <1>2 DEF SweepWorkAccount, stateVars
  <2>2. BuybackType' /\ QuoteHonest'
    BY <1>2 DEF SweepWorkAccount, stateVars, BuybackType, QuoteHonest
  <2> QED BY <2>1, <2>2, BreakerRests
<1>3. ASSUME NEW who \in Actors, NEW c \in Coins, NEW requested \in 1..MaxVault,
             NEW spent \in 1..setup.cap, NEW ice \in 1..MaxIce,
             KeeperConverts(who, c, requested, spent, ice)
      PROVE  BuybackInv'
  <2>1. requested \in Nat /\ spent \in Nat /\ ice \in Nat /\ 0 \in Nat
    OBVIOUS
  <2>2. ConvertAndBurn(who, c, requested, 0, spent, ice, 0) /\ quote' = quote
    BY <1>3 DEF KeeperConverts
  <2>3. BuybackType' /\ AnchorRose' /\ RateFloor' /\ SameRateAccepted' /\ CyclesPaced'
    BY <2>1, <2>2, ConvertKeeps
  <2> QED BY <2>2, <2>3 DEF QuoteHonest
<1>4. ASSUME NEW c \in Coins, NEW slippage \in Slippages, KeeperQuotes(c, slippage)
      PROVE  BuybackInv'
  <2> DEFINE coin == Lower(Usable(vault[c], setup.buffer),
                           (setup.cap * PRICE_SCALE) \div desk[c].base)
  <2> DEFINE expected == UsdcOut(coin, desk[c].base)
  <2> DEFINE minUsdc == HaircutBps(expected, slippage)
  <2> DEFINE routeIn == RouteIn(expected, slippage)
  <2>1. UNCHANGED <<time, setup, rateAnchor, floor, lastRate, lastCycle, paced, vault, bbUsdc,
                    desk>>
    BY <1>4 DEF KeeperQuotes, stateVars
  <2>2. /\ minUsdc > 0
        /\ quote' = [coin |-> coin, minUsdc |-> minUsdc, routeIn |-> routeIn, asOf |-> Seen(c)]
    BY <1>4 DEF KeeperQuotes
  <2>3. QuotedFrom(coin, minUsdc, routeIn, setup, vault[c], desk[c].base, slippage)
    BY <2>2 DEF QuotedFrom
  <2>4. /\ setup \in BuybackParams /\ vault[c] \in Nat /\ desk[c].base \in Bids
        /\ Seen(c) = <<c, setup, vault[c], desk[c].base>>
    BY DEF BuybackType, Seen
  <2> HIDE DEF coin, minUsdc, routeIn
  <2>5. QuoteHonest'
    BY <2>2, <2>3, <2>4 DEF QuoteHonest
  <2>6. BuybackType'
    BY <2>1 DEF BuybackType
  <2> QED BY <2>1, <2>5, <2>6, BreakerRests
<1>5. ASSUME NEW who \in Actors, NEW c \in Coins, NEW ice \in 1..MaxIce, KeeperSends(who, c, ice)
      PROVE  BuybackInv'
  <2>1. quote # NoQuote /\ quote' = NoQuote
        /\ ConvertAndBurn(who, c, quote.coin, quote.minUsdc, quote.routeIn, ice, 1)
    BY <1>5 DEF KeeperSends
  <2>2. quote.coin \in Nat /\ quote.minUsdc \in Nat /\ quote.routeIn \in Nat /\ ice \in Nat
    BY <2>1, QuoteNat
  <2>3. BuybackType' /\ AnchorRose' /\ RateFloor' /\ SameRateAccepted' /\ CyclesPaced'
    BY <2>1, <2>2, ConvertKeeps
  <2> QED BY <2>1, <2>3 DEF QuoteHonest
<1>6. CASE KeeperGivesUp
  <2>1. UNCHANGED <<setup, rateAnchor, floor, lastRate, lastCycle, paced>>
    BY <1>6 DEF KeeperGivesUp, stateVars
  <2>2. BuybackType' /\ QuoteHonest'
    BY <1>6 DEF KeeperGivesUp, stateVars, BuybackType, QuoteHonest
  <2> QED BY <2>1, <2>2, BreakerRests
<1>7. ASSUME NEW c \in Coins, FeesArrive(c) PROVE BuybackInv'
  <2>1. UNCHANGED <<setup, rateAnchor, floor, lastRate, lastCycle, paced>>
    BY <1>7 DEF FeesArrive, stateVars
  <2>2. BuybackType' /\ QuoteHonest'
    BY <1>7 DEF FeesArrive, stateVars, BuybackType, QuoteHonest
  <2> QED BY <2>1, <2>2, BreakerRests
<1>8. CASE UsdcGiven
  <2>1. UNCHANGED <<setup, rateAnchor, floor, lastRate, lastCycle, paced>>
    BY <1>8 DEF UsdcGiven, stateVars
  <2>2. BuybackType' /\ QuoteHonest'
    BY <1>8 DEF UsdcGiven, stateVars, BuybackType, QuoteHonest
  <2> QED BY <2>1, <2>2, BreakerRests
<1>9. ASSUME NEW c \in Coins, NEW d \in [base : Bids, pays : Bids], DeskMoves(c, d)
      PROVE  BuybackInv'
  <2>1. UNCHANGED <<setup, rateAnchor, floor, lastRate, lastCycle, paced>>
    BY <1>9 DEF DeskMoves, stateVars
  <2>2. BuybackType' /\ QuoteHonest'
    BY <1>9 DEF DeskMoves, stateVars, BuybackType, QuoteHonest
  <2> QED BY <2>1, <2>2, BreakerRests
<1>10. CASE BuybackTick
  <2>1. UNCHANGED <<setup, rateAnchor, floor, lastRate, lastCycle, paced>>
    BY <1>10 DEF BuybackTick, stateVars
  <2>2. BuybackType' /\ QuoteHonest'
    BY <1>10 DEF BuybackTick, stateVars, BuybackType, QuoteHonest
  <2> QED BY <2>1, <2>2, BreakerRests
<1>11. CASE UNCHANGED buybackVars
  <2>1. UNCHANGED <<setup, rateAnchor, floor, lastRate, lastCycle, paced>>
    BY <1>11 DEF buybackVars, stateVars
  <2>2. BuybackType' /\ QuoteHonest'
    BY <1>11 DEF buybackVars, stateVars, BuybackType, QuoteHonest
  <2> QED BY <2>1, <2>2, BreakerRests
<1> QED
  BY <1>1, <1>2, <1>3, <1>4, <1>5, <1>6, <1>7, <1>8, <1>9, <1>10, <1>11 DEF BuybackNext

LEMMA BuybackStarts == BuybackInit => BuybackInv
<1> SUFFICES ASSUME BuybackInit PROVE BuybackInv
  OBVIOUS
<1>1. BuybackType
  <2>1. /\ time = BuybackStart /\ lastCycle = 0 /\ lastRate = 0 /\ bbUsdc = 0
        /\ paced = [since |-> BuybackStart, spent |-> 0]
        /\ vault = [c \in Coins |-> 0] /\ rateAnchor \in Anchors /\ floor = rateAnchor
        /\ setup \in BuybackParams
        /\ desk \in [Coins -> {d \in [base : Bids, pays : Bids] : d.pays <= d.base}]
    BY DEF BuybackInit
  <2>2. desk \in [Coins -> [base : Bids, pays : Bids]]
    BY <2>1
  <2>3. paced \in [since : 0..time, spent : Nat]
    BY <2>1, BuybackAssumption
  <2> QED BY <2>1, <2>2, <2>3, BuybackAssumption DEF BuybackType
<1>2. /\ floor = rateAnchor /\ lastRate = 0 /\ paced.spent = 0 /\ quote = NoQuote
  BY DEF BuybackInit
<1>3. AnchorRose
  BY <1>1, <1>2 DEF AnchorRose, BuybackType
<1> QED BY <1>1, <1>2, <1>3 DEF BuybackInv, RateFloor, SameRateAccepted, CyclesPaced, QuoteHonest

LEMMA BuybackInvariant == BuybackSpec => []BuybackInv
<1>1. BuybackInv /\ [BuybackNext]_buybackVars => BuybackInv'
  BY BuybackInductive
<1> QED BY <1>1, BuybackStarts, PTL DEF BuybackSpec

\* min_rate (convert_and_burn.rs:90-106): for every set of parameters and any
\* sequence of cycles, no rate below what the admin's last anchor allows is
\* accepted.
THEOREM BreakerHolds == BuybackSpec => []RateFloor
<1>1. BuybackInv => RateFloor
  BY DEF BuybackInv
<1> QED BY <1>1, BuybackInvariant, PTL

\* next_anchor (convert_and_burn.rs:90-106): however often the anchor has
\* ratcheted, the rate a cycle just got is accepted again.
THEOREM RateAcceptedAgain == BuybackSpec => []SameRateAccepted
<1>1. BuybackInv => SameRateAccepted
  BY DEF BuybackInv
<1> QED BY <1>1, BuybackInvariant, PTL

\* min_interval_secs and max_per_cycle_usdc (state.rs:24): together they bound
\* what is spent over any time, whoever holds the keeper's key.
THEOREM SpendAlwaysPaced == BuybackSpec => []SpendPaced
<1>1. BuybackInv => SpendPaced
  <2> SUFFICES ASSUME BuybackInv, setup.interval > 0
               PROVE  paced.spent <= setup.cap * (1 + (time - paced.since) \div setup.interval)
    BY DEF SpendPaced
  <2> DEFINE interval == setup.interval
  <2> DEFINE cap == setup.cap
  <2> DEFINE since == paced.since
  <2> DEFINE k == (lastCycle - since) \div interval
  <2> DEFINE n == (time - since) \div interval
  <2>1. /\ interval \in Nat \ {0} /\ cap \in Nat \ {0} /\ since \in Nat /\ since <= time
        /\ paced.spent \in Nat /\ lastCycle \in Nat /\ lastCycle <= time /\ time \in Nat
    BY ParamsType DEF BuybackInv, BuybackType
  <2>2. time - since \in Nat
    BY <2>1
  <2>3. n \in Nat
    BY <2>1, <2>2, DivLemma
  <2>4. CASE paced.spent = 0
    <3> HIDE DEF n
    <3>1. cap * (1 + n) \in Nat
      BY <2>1, <2>3, SMT
    <3> QED BY <2>4, <3>1 DEF n
  <2>5. CASE paced.spent > 0
    <3>1. since <= lastCycle /\ paced.spent <= cap * (1 + k)
      BY <2>5 DEF BuybackInv, CyclesPaced
    <3>2. lastCycle - since \in Nat /\ lastCycle - since <= time - since
      BY <2>1, <3>1
    <3>3. k \in Nat /\ k <= n
      BY <2>1, <2>2, <3>2, DivMono, DivLemma
    <3> HIDE DEF k, n, cap
    <3>4. /\ cap * (1 + k) \in Nat /\ cap * (1 + n) \in Nat
          /\ cap * (1 + k) <= cap * (1 + n)
      <4>1. 1 + k \in Nat /\ 1 + n \in Nat /\ 1 + k <= 1 + n
        BY <2>3, <3>3
      <4>2. cap * (1 + k) \in Nat /\ cap * (1 + n) \in Nat
        BY <2>1, <4>1, SMT
      <4> QED BY <2>1, <4>1, <4>2, TimesMono
    <3>5. paced.spent <= cap * (1 + n)
      BY <2>1, <3>1, <3>4
    <3> QED BY <3>5 DEF n, cap
  <2> QED BY <2>1, <2>4, <2>5
<1> QED BY <1>1, BuybackInvariant, PTL

\* runBuybackCycle (buyback.ts:110-129): the amounts of a quote pass the checks
\* of convert_and_burn whenever it still sees what the keeper saw.
THEOREM QuotesAlwaysFit == BuybackSpec => []QuoteFits
<1>1. BuybackInv => QuoteFits
  <2> SUFFICES ASSUME BuybackInv, NEW c \in Coins, quote # NoQuote,
                      quote.asOf = Seen(c), desk[c].pays = desk[c].base
               PROVE  /\ quote.coin <= Usable(vault[c], setup.buffer)
                      /\ SizesFit(UsdcOut(quote.coin, desk[c].pays), quote.minUsdc,
                                  quote.routeIn)
    BY DEF QuoteFits
  <2>1. PICK d \in Coins, su \in BuybackParams, balance \in Nat, bid \in Bids,
             slippage \in Slippages :
               /\ quote.asOf = <<d, su, balance, bid>>
               /\ QuotedFrom(quote.coin, quote.minUsdc, quote.routeIn, su, balance, bid,
                             slippage)
    BY DEF BuybackInv, QuoteHonest
  <2>2. su = setup /\ balance = vault[c] /\ bid = desk[c].base
    BY <2>1 DEF Seen
  <2>3. BuybackType
    BY DEF BuybackInv
  <2> QED BY <2>1, <2>2, <2>3, SizesOfQuote
<1> QED BY <1>1, BuybackInvariant, PTL
=============================================================================
