-------------------------- MODULE FeeRouterProofs --------------------------
(***************************************************************************)
(* Theorems about FeeRouter, for every value of its constants.             *)
(***************************************************************************)
EXTENDS FeeRouter, ArithmeticLemmas, TLAPS

\* The invariant: beside the books themselves, an account that is not
\* registered is blank, the split in force is among those seen, and a pool's
\* clock is never behind its last outside claim nor ahead of time.
BlankUntilRegistered == \A p \in Pools : pool[p].registered \/ pool[p] = Unregistered
SplitSeen == split \in splitsSeen
ClocksOrdered ==
  \A p \in Pools : outsider[p] <= pool[p].last_claim_ts /\ pool[p].last_claim_ts <= now

IInv ==
  /\ TypeOK
  /\ HoldersGetOwnFees
  /\ SplitKeepsShares
  /\ BlankUntilRegistered
  /\ SplitSeen
  /\ ClocksOrdered

-----------------------------------------------------------------------------
\* A share is rounded down by less than one unit.
LEMMA ShareRounds ==
  ASSUME NEW n \in Nat
  PROVE  /\ n \div BPS_DENOM \in Nat
         /\ BPS_DENOM * (n \div BPS_DENOM) \in Nat
         /\ BPS_DENOM * (n \div BPS_DENOM) <= n
         /\ n <= BPS_DENOM * (n \div BPS_DENOM) + (BPS_DENOM - 1)
<1> USE FeeRouterAssumption
<1>1. /\ n \div BPS_DENOM \in Nat /\ n % BPS_DENOM \in 0..(BPS_DENOM - 1)
      /\ n = BPS_DENOM * (n \div BPS_DENOM) + (n % BPS_DENOM)
  BY SMT
<1>2. BPS_DENOM * (n \div BPS_DENOM) \in Nat
  BY <1>1
<1> QED BY <1>1, <1>2

\* split_amounts distributes exactly the amount, and its checked subtractions
\* never fail under a split that adds up.
LEMMA SharesAddUp ==
  ASSUME split \in Splits, CheckSplit(split), NEW amount \in Nat
  PROVE  LET s == SplitAmounts(amount)
             n == amount * split.holders
         IN /\ s.holders \in Nat /\ s.buyback \in Nat /\ s.protocol \in Nat
            /\ s.holders + s.buyback + s.protocol = amount
            /\ n \in Nat
            /\ BPS_DENOM * s.holders <= n
            /\ n <= BPS_DENOM * s.holders + (BPS_DENOM - 1)
<1> USE FeeRouterAssumption
<1> DEFINE n == amount * split.holders
           m == amount * split.buyback
           h == n \div BPS_DENOM
           b == m \div BPS_DENOM
<1>1. /\ split.holders \in Nat /\ split.buyback \in Nat
      /\ split.holders + split.buyback <= BPS_DENOM
  BY DEF CheckSplit
<1>2. n \in Nat /\ m \in Nat /\ n + m = amount * (split.holders + split.buyback)
  BY <1>1
<1>3. /\ h \in Nat /\ BPS_DENOM * h <= n /\ n <= BPS_DENOM * h + (BPS_DENOM - 1)
      /\ b \in Nat /\ BPS_DENOM * b <= m /\ BPS_DENOM * h \in Nat /\ BPS_DENOM * b \in Nat
  BY <1>2, ShareRounds
<1>4. h + b <= amount
  <2>1. amount * (split.holders + split.buyback) <= amount * BPS_DENOM
    BY <1>1, TimesMono
  <2>2. BPS_DENOM * (h + b) = BPS_DENOM * h + BPS_DENOM * b
    BY <1>3
  <2>3. amount * BPS_DENOM = BPS_DENOM * amount
    OBVIOUS
  <2> HIDE DEF n, m, h, b
  <2>4. BPS_DENOM * (h + b) <= BPS_DENOM * amount
    BY <1>2, <1>3, <2>1, <2>2, <2>3
  <2> QED BY <1>3, <2>4, TimesCancel
<1> HIDE DEF n, m, h, b
<1>5. SplitAmounts(amount) = [holders |-> h, buyback |-> b, protocol |-> amount - h - b]
  BY DEF SplitAmounts, h, b, n, m
<1>6. n \in Nat /\ n = amount * split.holders
  BY <1>2 DEF n
<1> QED BY <1>3, <1>4, <1>5, <1>6

\* What a claim does: it leaves the receiving account as it was, moves what it
\* brought, and books the shares.
SplitDone(p, received, base, ts, h, b, d) ==
  LET c == CoinOf[p] IN
  /\ h + b + d = received
  /\ BPS_DENOM * h <= received * split.holders
  /\ received * split.holders <= BPS_DENOM * h + (BPS_DENOM - 1)
  /\ pool[p].total_claimed + received <= MaxU64
  /\ holderVault' = [holderVault EXCEPT ![p] = @ + h]
  /\ buybackVault' = [buybackVault EXCEPT ![c] = @ + b]
  /\ treasury' = [treasury EXCEPT ![c] = @ + d, ![p] = @ + base]
  /\ recv' = recv
  /\ pool' = [pool EXCEPT ![p] =
                [@ EXCEPT !.total_claimed = pool[p].total_claimed + received,
                          !.total_to_holders = pool[p].total_to_holders + h,
                          !.total_to_buyback = pool[p].total_to_buyback + b,
                          !.total_to_protocol = pool[p].total_to_protocol + d,
                          !.last_claim_ts = ts]]
  /\ claims' = [claims EXCEPT ![p] = @ + (IF received > 0 THEN 1 ELSE 0)]

LEMMA SplitEffect ==
  ASSUME TypeOK, NEW p \in Pools, NEW received \in Nat, NEW base \in Nat, NEW ts \in Nat,
         SplitToVaults(p, received, base, ts)
  PROVE  \E h, b, d \in Nat : SplitDone(p, received, base, ts, h, b, d)
<1> USE FeeRouterAssumption
<1> DEFINE c == CoinOf[p]
           s == SplitAmounts(received)
<1>1. c \in Coins /\ recv[c] \in Nat /\ split \in Splits /\ CheckSplit(split)
  BY DEF TypeOK, ConfigType, BooksType, HistoryType
<1>2. Delta(recv[c], recv[c] + received) = received
  BY <1>1 DEF Delta
<1>3. /\ s.holders \in Nat /\ s.buyback \in Nat /\ s.protocol \in Nat
      /\ s.holders + s.buyback + s.protocol = received
      /\ BPS_DENOM * s.holders <= received * split.holders
      /\ received * split.holders <= BPS_DENOM * s.holders + (BPS_DENOM - 1)
  BY <1>1, SharesAddUp
<1>4. recv' = recv
  <2>1. recv' = [recv EXCEPT ![c] = @ + received - received]
    BY <1>2 DEF SplitToVaults
  <2>2. recv[c] + received - received = recv[c]
    BY <1>1
  <2> QED BY <1>1, <2>1, <2>2 DEF TypeOK, BooksType
<1> HIDE DEF s
<1>5. /\ pool[p].total_claimed + received <= MaxU64
      /\ holderVault' = [holderVault EXCEPT ![p] = @ + s.holders]
      /\ buybackVault' = [buybackVault EXCEPT ![c] = @ + s.buyback]
      /\ treasury' = [treasury EXCEPT ![c] = @ + s.protocol, ![p] = @ + base]
      /\ claims' = [claims EXCEPT ![p] = @ + (IF received > 0 THEN 1 ELSE 0)]
  BY <1>2 DEF SplitToVaults, s
<1>6. pool' = [pool EXCEPT ![p] =
                [@ EXCEPT !.total_claimed = pool[p].total_claimed + received,
                          !.total_to_holders = pool[p].total_to_holders + s.holders,
                          !.total_to_buyback = pool[p].total_to_buyback + s.buyback,
                          !.total_to_protocol = pool[p].total_to_protocol + s.protocol,
                          !.last_claim_ts = ts]]
  BY <1>2 DEF SplitToVaults, s, TypeOK, BooksType, PoolState
<1> QED
  <2>1. SplitDone(p, received, base, ts, s.holders, s.buyback, s.protocol)
    BY <1>3, <1>4, <1>5, <1>6 DEF SplitDone
  <2> QED BY <1>3, <2>1

\* The accounts a claim writes keep their types.
LEMMA SplitType ==
  ASSUME TypeOK, NEW p \in Pools, NEW received \in Nat, NEW base \in Nat, NEW ts \in Nat,
         NEW h \in Nat, NEW b \in Nat, NEW d \in Nat,
         SplitDone(p, received, base, ts, h, b, d)
  PROVE  /\ pool' \in [Pools -> PoolState]
         /\ holderVault' \in [Pools -> Nat] /\ buybackVault' \in [Coins -> Nat]
         /\ treasury' \in [Mints -> Nat] /\ recv' \in [Coins -> Nat]
         /\ claims' \in [Pools -> Nat]
<1> USE FeeRouterAssumption
<1>1. pool[p] \in PoolState /\ claims[p] \in Nat
  BY DEF TypeOK, ConfigType, BooksType, HistoryType
<1>2. pool' \in [Pools -> PoolState]
  <2>1. pool[p].total_claimed + received \in 0..MaxU64
    BY <1>1 DEF SplitDone, PoolState
  <2>2. /\ pool[p].total_to_holders + h \in Nat
        /\ pool[p].total_to_buyback + b \in Nat
        /\ pool[p].total_to_protocol + d \in Nat
    BY <1>1 DEF PoolState
  <2> QED BY <1>1, <2>1, <2>2 DEF SplitDone, PoolState, TypeOK, BooksType
<1>3. holderVault' \in [Pools -> Nat] /\ buybackVault' \in [Coins -> Nat] /\ recv' \in [Coins -> Nat]
  <2>1. /\ CoinOf[p] \in Coins /\ BooksType
    BY DEF TypeOK
  <2>2. holderVault' \in [Pools -> Nat]
    BY <2>1 DEF SplitDone, BooksType
  <2>3. buybackVault' \in [Coins -> Nat]
    BY <2>1 DEF SplitDone, BooksType
  <2>4. recv' \in [Coins -> Nat]
    BY <2>1 DEF SplitDone, BooksType
  <2> QED BY <2>2, <2>3, <2>4
<1>4. treasury' \in [Mints -> Nat]
  <2>1. p \in Mints /\ CoinOf[p] \in Mints /\ p # CoinOf[p]
    BY DEF Mints
  <2>2. treasury \in [Mints -> Nat]
    BY DEF TypeOK, BooksType
  <2> DEFINE t == [treasury EXCEPT ![CoinOf[p]] = @ + d]
  <2>3. t \in [Mints -> Nat]
    BY <2>1, <2>2
  <2>4. treasury' = [t EXCEPT ![p] = @ + base]
    BY DEF SplitDone
  <2> HIDE DEF t
  <2> QED BY <2>1, <2>3, <2>4
<1>5. claims' \in [Pools -> Nat]
  BY <1>1 DEF SplitDone, TypeOK, HistoryType
<1> QED BY <1>2, <1>3, <1>4, <1>5

LEMMA UnregisteredType == Unregistered \in PoolState
  BY FeeRouterAssumption DEF Unregistered, PoolState

LEMMA InitTypeOK == Init => TypeOK
<1> SUFFICES ASSUME Init PROVE TypeOK
  OBVIOUS
<1> USE FeeRouterAssumption
<1>1. ConfigType /\ SourceType
  BY DEF Init, ConfigType, SourceType
<1>2. BooksType
  BY UnregisteredType DEF Init, BooksType
<1>3. HistoryType
  BY DEF Init, HistoryType
<1> QED BY <1>1, <1>2, <1>3 DEF TypeOK

LEMMA TypesStay ==
  /\ ConfigType /\ UNCHANGED configVars => ConfigType'
  /\ BooksType /\ UNCHANGED <<pool, vaultVars>> => BooksType'
  /\ SourceType /\ UNCHANGED <<now, curve, damm>> => SourceType'
  /\ HistoryType /\ UNCHANGED history => HistoryType'
<1>1. ConfigType /\ UNCHANGED configVars => ConfigType'
  BY DEF ConfigType, configVars, CheckSplit
<1>2. BooksType /\ UNCHANGED <<pool, vaultVars>> => BooksType'
  BY DEF BooksType, vaultVars
<1>3. SourceType /\ UNCHANGED <<now, curve, damm>> => SourceType'
  BY DEF SourceType
<1>4. HistoryType /\ UNCHANGED history => HistoryType'
  BY DEF HistoryType, history
<1> QED BY <1>1, <1>2, <1>3, <1>4

\* Every instruction leaves the accounts well-typed: one step per action.
LEMMA NextTypeOK == TypeOK /\ [Next]_vars => TypeOK'
<1> SUFFICES ASSUME TypeOK, [Next]_vars PROVE TypeOK'
  OBVIOUS
<1>0. /\ ConfigType /\ BooksType /\ SourceType /\ HistoryType
      /\ Amounts \subseteq Nat
  BY FeeRouterAssumption DEF TypeOK, Amounts
<1>1. ASSUME NEW a \in Actors, NEW s \in Splits,
             SetSplit(a, s)
      PROVE  TypeOK'
  <2>1. BooksType' /\ SourceType'
    <3>1. UNCHANGED <<pool, vaultVars, now, curve, damm>>
      BY <1>1 DEF SetSplit, configVars, vaultVars, history
    <3> QED BY <1>0, <3>1, TypesStay
  <2>2. ConfigType'
    BY <1>1, <1>0 DEF SetSplit, ConfigType, CheckSplit
  <2>3. HistoryType'
    BY <1>1, <1>0 DEF SetSplit, HistoryType
  <2> QED BY <2>1, <2>2, <2>3 DEF TypeOK
<1>2. ASSUME NEW a \in Actors, NEW ks \in SUBSET Actors,
             SetKeepers(a, ks)
      PROVE  TypeOK'
  <2>1. BooksType' /\ SourceType' /\ HistoryType'
    <3>1. UNCHANGED <<pool, vaultVars, now, curve, damm, history>>
      BY <1>2 DEF SetKeepers, configVars, vaultVars, history
    <3> QED BY <1>0, <3>1, TypesStay
  <2>2. ConfigType'
    BY <1>2, <1>0 DEF SetKeepers, ConfigType, CheckSplit
  <2> QED BY <2>1, <2>2 DEF TypeOK
<1>3. ASSUME NEW a \in Actors, NEW b \in BOOLEAN,
             Pause(a, b)
      PROVE  TypeOK'
  <2>1. BooksType' /\ SourceType' /\ HistoryType'
    <3>1. UNCHANGED <<pool, vaultVars, now, curve, damm, history>>
      BY <1>3 DEF Pause, configVars, vaultVars, history
    <3> QED BY <1>0, <3>1, TypesStay
  <2>2. ConfigType'
    BY <1>3, <1>0 DEF Pause, ConfigType, CheckSplit
  <2> QED BY <2>1, <2>2 DEF TypeOK
<1>4. ASSUME NEW a \in Actors, NEW b \in Actors, NEW dist \in Programs, NEW bb \in Programs,
             SetPrograms(a, dist, bb, b)
      PROVE  TypeOK'
  <2>1. BooksType' /\ SourceType' /\ HistoryType'
    <3>1. UNCHANGED <<pool, vaultVars, now, curve, damm, history>>
      BY <1>4 DEF SetPrograms, configVars, vaultVars, history
    <3> QED BY <1>0, <3>1, TypesStay
  <2>2. ConfigType'
    BY <1>4, <1>0 DEF SetPrograms, ConfigType, CheckSplit
  <2> QED BY <2>1, <2>2 DEF TypeOK
<1>5. ASSUME NEW p \in Pools,
             RegisterPool(p)
      PROVE  TypeOK'
  <2>1. ConfigType' /\ SourceType' /\ HistoryType'
    <3>1. UNCHANGED <<configVars, now, curve, damm, history>>
      BY <1>5 DEF RegisterPool, configVars, vaultVars, history
    <3> QED BY <1>0, <3>1, TypesStay
  <2>2. BooksType'
    <3>1. [Unregistered EXCEPT !.registered = TRUE] \in PoolState
      BY UnregisteredType DEF PoolState
    <3> QED BY <1>5, <1>0, <3>1 DEF RegisterPool, BooksType, vaultVars
  <2> QED BY <2>1, <2>2 DEF TypeOK
<1>6. ASSUME NEW a \in Actors, NEW p \in Pools, NEW x \in Positions,
             RecordMigration(a, p, x)
      PROVE  TypeOK'
  <2>1. ConfigType' /\ SourceType' /\ HistoryType'
    <3>1. UNCHANGED <<configVars, now, curve, damm, history>>
      BY <1>6 DEF RecordMigration, configVars, vaultVars, history
    <3> QED BY <1>0, <3>1, TypesStay
  <2>2. BooksType'
    <3>1. pool' \in [Pools -> PoolState]
      <4>1. pool' = [pool EXCEPT ![p].migrated = TRUE, ![p].damm_position = x]
        BY <1>6 DEF RecordMigration
      <4>2. pool[p] \in PoolState /\ x \in Positions \cup {NoPosition}
        BY <1>0 DEF BooksType
      <4>3. [pool[p] EXCEPT !.migrated = TRUE, !.damm_position = x] \in PoolState
        BY <4>2 DEF PoolState
      <4> QED BY <4>1, <4>3, <1>0 DEF BooksType
    <3> QED BY <1>6, <1>0, <3>1 DEF RecordMigration, BooksType, vaultVars
  <2> QED BY <2>1, <2>2 DEF TypeOK
<1>7. ASSUME NEW a \in Actors, NEW p \in Pools,
             ClaimDbc(a, p)
      PROVE  TypeOK'
  <2>1. ConfigType'
    <3>1. UNCHANGED <<configVars>>
      BY <1>7 DEF ClaimDbc, configVars, vaultVars, history
    <3> QED BY <1>0, <3>1, TypesStay
  <2>2. BooksType'
    <3>1. curve[p].fees \in Nat /\ 0 \in Nat /\ now \in Nat
      BY <1>0 DEF SourceType, BooksType, PoolState
    <3>2. SplitToVaults(p, curve[p].fees, 0, now)
      BY <1>7 DEF ClaimDbc
    <3>3. PICK h, b, d \in Nat : SplitDone(p, curve[p].fees, 0, now, h, b, d)
      BY <3>1, <3>2, SplitEffect
    <3> QED BY <3>1, <3>3, SplitType DEF BooksType
  <2>3. SourceType'
    BY <1>7, <1>0 DEF ClaimDbc, SourceType
  <2>4. HistoryType'
    <3>1. curve[p].fees \in Nat /\ 0 \in Nat /\ now \in Nat
      BY <1>0 DEF SourceType, BooksType, PoolState
    <3>2. SplitToVaults(p, curve[p].fees, 0, now)
      BY <1>7 DEF ClaimDbc
    <3>3. PICK h, b, d \in Nat : SplitDone(p, curve[p].fees, 0, now, h, b, d)
      BY <3>1, <3>2, SplitEffect
    <3>4. claims' \in [Pools -> Nat]
      BY <3>1, <3>3, SplitType
    <3>5. taken' \in [Pools -> Nat] /\ outsider' \in [Pools -> Nat]
      BY <1>7, <1>0, <3>1 DEF ClaimDbc, HistoryType, SourceType, Outsider
    <3> QED BY <1>7, <1>0, <3>4, <3>5 DEF ClaimDbc, HistoryType
  <2> QED BY <2>1, <2>2, <2>3, <2>4 DEF TypeOK
<1>8. ASSUME NEW a \in Actors, NEW p \in Pools,
             ClaimDbcSurplus(a, p)
      PROVE  TypeOK'
  <2>1. ConfigType'
    <3>1. UNCHANGED <<configVars>>
      BY <1>8 DEF ClaimDbcSurplus, configVars, vaultVars, history
    <3> QED BY <1>0, <3>1, TypesStay
  <2>2. BooksType'
    <3>1. curve[p].surplus \in Nat /\ 0 \in Nat /\ pool[p].last_claim_ts \in Nat
      BY <1>0 DEF SourceType, BooksType, PoolState
    <3>2. SplitToVaults(p, curve[p].surplus, 0, pool[p].last_claim_ts)
      BY <1>8 DEF ClaimDbcSurplus
    <3>3. PICK h, b, d \in Nat : SplitDone(p, curve[p].surplus, 0, pool[p].last_claim_ts, h, b, d)
      BY <3>1, <3>2, SplitEffect
    <3> QED BY <3>1, <3>3, SplitType DEF BooksType
  <2>3. SourceType'
    BY <1>8, <1>0 DEF ClaimDbcSurplus, SourceType
  <2>4. HistoryType'
    <3>1. curve[p].surplus \in Nat /\ 0 \in Nat /\ pool[p].last_claim_ts \in Nat
      BY <1>0 DEF SourceType, BooksType, PoolState
    <3>2. SplitToVaults(p, curve[p].surplus, 0, pool[p].last_claim_ts)
      BY <1>8 DEF ClaimDbcSurplus
    <3>3. PICK h, b, d \in Nat : SplitDone(p, curve[p].surplus, 0, pool[p].last_claim_ts, h, b, d)
      BY <3>1, <3>2, SplitEffect
    <3>4. claims' \in [Pools -> Nat]
      BY <3>1, <3>3, SplitType
    <3>5. taken' \in [Pools -> Nat] /\ outsider' \in [Pools -> Nat]
      BY <1>8, <1>0, <3>1 DEF ClaimDbcSurplus, HistoryType, SourceType
    <3> QED BY <1>8, <1>0, <3>4, <3>5 DEF ClaimDbcSurplus, HistoryType
  <2> QED BY <2>1, <2>2, <2>3, <2>4 DEF TypeOK
<1>9. ASSUME NEW a \in Actors, NEW p \in Pools, NEW x \in Positions,
             ClaimDamm(a, p, x)
      PROVE  TypeOK'
  <2>1. ConfigType'
    <3>1. UNCHANGED <<configVars>>
      BY <1>9 DEF ClaimDamm, configVars, vaultVars, history
    <3> QED BY <1>0, <3>1, TypesStay
  <2>2. BooksType'
    <3>1. damm[x].quote \in Nat /\ damm[x].base \in Nat /\ now \in Nat
      BY <1>0 DEF SourceType, BooksType, PoolState
    <3>2. SplitToVaults(p, damm[x].quote, damm[x].base, now)
      BY <1>9 DEF ClaimDamm
    <3>3. PICK h, b, d \in Nat : SplitDone(p, damm[x].quote, damm[x].base, now, h, b, d)
      BY <3>1, <3>2, SplitEffect
    <3> QED BY <3>1, <3>3, SplitType DEF BooksType
  <2>3. SourceType'
    <3>1. UNCHANGED <<now, curve>> /\ damm' = [damm EXCEPT ![x].quote = 0, ![x].base = 0]
      BY <1>9 DEF ClaimDamm
    <3> QED BY <1>0, <3>1 DEF SourceType
  <2>4. HistoryType'
    <3>1. damm[x].quote \in Nat /\ damm[x].base \in Nat /\ now \in Nat
      BY <1>0 DEF SourceType, BooksType, PoolState
    <3>2. SplitToVaults(p, damm[x].quote, damm[x].base, now)
      BY <1>9 DEF ClaimDamm
    <3>3. PICK h, b, d \in Nat : SplitDone(p, damm[x].quote, damm[x].base, now, h, b, d)
      BY <3>1, <3>2, SplitEffect
    <3>4. claims' \in [Pools -> Nat]
      BY <3>1, <3>3, SplitType
    <3>5. taken' \in [Pools -> Nat] /\ outsider' \in [Pools -> Nat]
      BY <1>9, <1>0, <3>1 DEF ClaimDamm, HistoryType, SourceType, Outsider
    <3> QED BY <1>9, <1>0, <3>4, <3>5 DEF ClaimDamm, HistoryType
  <2> QED BY <2>1, <2>2, <2>3, <2>4 DEF TypeOK
<1>10. ASSUME NEW gm \in Programs, NEW p \in Pools, NEW amount \in Amounts,
              WithdrawForEpoch(gm, p, amount)
       PROVE  TypeOK'
  <2>1. ConfigType' /\ SourceType'
    <3>1. UNCHANGED <<configVars, now, curve, damm>>
      BY <1>10 DEF WithdrawForEpoch, configVars, vaultVars, history
    <3> QED BY <1>0, <3>1, TypesStay
  <2>2. BooksType'
    BY <1>10, <1>0 DEF WithdrawForEpoch, BooksType
  <2>3. HistoryType'
    <3>1. withdrawn' \in [epoch : [Pools -> Nat], buyback : [Coins -> Nat], treasury : [Mints -> Nat]]
      BY <1>10, <1>0 DEF WithdrawForEpoch, HistoryType
    <3> QED BY <1>10, <1>0, <3>1 DEF WithdrawForEpoch, HistoryType
  <2> QED BY <2>1, <2>2, <2>3 DEF TypeOK
<1>11. ASSUME NEW gm \in Programs, NEW c \in Coins, NEW amount \in Amounts,
              WithdrawForBuyback(gm, c, amount)
       PROVE  TypeOK'
  <2>1. ConfigType' /\ SourceType'
    <3>1. UNCHANGED <<configVars, now, curve, damm>>
      BY <1>11 DEF WithdrawForBuyback, configVars, vaultVars, history
    <3> QED BY <1>0, <3>1, TypesStay
  <2>2. BooksType'
    BY <1>11, <1>0 DEF WithdrawForBuyback, BooksType
  <2>3. HistoryType'
    <3>1. withdrawn' \in [epoch : [Pools -> Nat], buyback : [Coins -> Nat], treasury : [Mints -> Nat]]
      BY <1>11, <1>0 DEF WithdrawForBuyback, HistoryType
    <3> QED BY <1>11, <1>0, <3>1 DEF WithdrawForBuyback, HistoryType
  <2> QED BY <2>1, <2>2, <2>3 DEF TypeOK
<1>12. ASSUME NEW a \in Actors, NEW m \in Mints, NEW amount \in Amounts,
              WithdrawTreasury(a, m, amount)
       PROVE  TypeOK'
  <2>1. ConfigType' /\ SourceType'
    <3>1. UNCHANGED <<configVars, now, curve, damm>>
      BY <1>12 DEF WithdrawTreasury, configVars, vaultVars, history
    <3> QED BY <1>0, <3>1, TypesStay
  <2>2. BooksType'
    BY <1>12, <1>0 DEF WithdrawTreasury, BooksType
  <2>3. HistoryType'
    <3>1. withdrawn' \in [epoch : [Pools -> Nat], buyback : [Coins -> Nat], treasury : [Mints -> Nat]]
      BY <1>12, <1>0 DEF WithdrawTreasury, HistoryType
    <3> QED BY <1>12, <1>0, <3>1 DEF WithdrawTreasury, HistoryType
  <2> QED BY <2>1, <2>2, <2>3 DEF TypeOK
<1>13. ASSUME NEW p \in Pools, NEW amount \in Amounts,
              CurveTrade(p, amount)
       PROVE  TypeOK'
  <2>1. ConfigType' /\ BooksType' /\ HistoryType'
    <3>1. UNCHANGED <<configVars, pool, vaultVars, history>>
      BY <1>13 DEF CurveTrade, configVars, vaultVars, history
    <3> QED BY <1>0, <3>1, TypesStay
  <2>2. SourceType'
    BY <1>13, <1>0 DEF CurveTrade, SourceType
  <2> QED BY <2>1, <2>2 DEF TypeOK
<1>14. ASSUME NEW p \in Pools, NEW amount \in Amounts,
              GiveHolders(p, amount)
       PROVE  TypeOK'
  <2>1. ConfigType' /\ SourceType'
    <3>1. UNCHANGED <<configVars, now, curve, damm>>
      BY <1>14 DEF GiveHolders, configVars, vaultVars, history
    <3> QED BY <1>0, <3>1, TypesStay
  <2>2. BooksType'
    BY <1>14, <1>0 DEF GiveHolders, BooksType
  <2>3. HistoryType'
    <3>1. given' \in [holder : [Pools -> Nat], recv : [Coins -> Nat]]
      BY <1>14, <1>0 DEF GiveHolders, HistoryType
    <3> QED BY <1>14, <1>0, <3>1 DEF GiveHolders, HistoryType
  <2> QED BY <2>1, <2>2, <2>3 DEF TypeOK
<1>15. ASSUME NEW p \in Pools, NEW x \in Positions, NEW surplus \in Amounts,
              Graduate(p, x, surplus)
       PROVE  TypeOK'
  <2>1. ConfigType' /\ BooksType' /\ HistoryType'
    <3>1. UNCHANGED <<configVars, pool, vaultVars, history>>
      BY <1>15 DEF Graduate, configVars, vaultVars, history
    <3> QED BY <1>0, <3>1, TypesStay
  <2>2. SourceType'
    <3>1. /\ curve' = [curve EXCEPT ![p].migrated = TRUE, ![p].surplus = surplus]
          /\ damm' = [damm EXCEPT ![x].owned = TRUE]
          /\ UNCHANGED now
      BY <1>15 DEF Graduate
    <3>2. surplus \in Nat
      BY FeeRouterAssumption DEF Amounts
    <3>3. curve' \in [Pools -> [fees : Nat, surplus : Nat, migrated : BOOLEAN]]
      BY <1>0, <3>1, <3>2 DEF SourceType
    <3>4. damm' \in [Positions -> [quote : Nat, base : Nat, owned : BOOLEAN]]
      BY <1>0, <3>1 DEF SourceType
    <3> QED BY <1>0, <3>1, <3>3, <3>4 DEF SourceType
  <2> QED BY <2>1, <2>2 DEF TypeOK
<1>16. ASSUME NEW x \in Positions,
              GiftPosition(x)
       PROVE  TypeOK'
  <2>1. ConfigType' /\ BooksType' /\ HistoryType'
    <3>1. UNCHANGED <<configVars, pool, vaultVars, history>>
      BY <1>16 DEF GiftPosition, configVars, vaultVars, history
    <3> QED BY <1>0, <3>1, TypesStay
  <2>2. SourceType'
    BY <1>16, <1>0 DEF GiftPosition, SourceType
  <2> QED BY <2>1, <2>2 DEF TypeOK
<1>17. ASSUME NEW x \in Positions, NEW quote \in Amounts, NEW base \in Amounts,
              DammTrade(x, quote, base)
       PROVE  TypeOK'
  <2>1. ConfigType' /\ BooksType' /\ HistoryType'
    <3>1. UNCHANGED <<configVars, pool, vaultVars, history>>
      BY <1>17 DEF DammTrade, configVars, vaultVars, history
    <3> QED BY <1>0, <3>1, TypesStay
  <2>2. SourceType'
    <3>1. /\ damm[x] \in [quote : Nat, base : Nat, owned : BOOLEAN]
          /\ damm[x].quote + quote \in Nat /\ damm[x].base + base \in Nat
      BY <1>0 DEF SourceType
    <3>2. damm' \in [Positions -> [quote : Nat, base : Nat, owned : BOOLEAN]]
      BY <1>17, <1>0, <3>1 DEF DammTrade, SourceType
    <3> QED BY <1>17, <1>0, <3>2 DEF DammTrade, SourceType
  <2> QED BY <2>1, <2>2 DEF TypeOK
<1>18. ASSUME NEW c \in Coins, NEW amount \in Amounts,
              GiveRouter(c, amount)
       PROVE  TypeOK'
  <2>1. ConfigType' /\ SourceType'
    <3>1. UNCHANGED <<configVars, now, curve, damm>>
      BY <1>18 DEF GiveRouter, configVars, vaultVars, history
    <3> QED BY <1>0, <3>1, TypesStay
  <2>2. BooksType'
    <3>1. recv' \in [Coins -> Nat]
      BY <1>18, <1>0 DEF GiveRouter, BooksType
    <3> QED BY <1>18, <1>0, <3>1 DEF GiveRouter, BooksType
  <2>3. HistoryType'
    <3>1. given' \in [holder : [Pools -> Nat], recv : [Coins -> Nat]]
      BY <1>18, <1>0 DEF GiveRouter, HistoryType
    <3> QED BY <1>18, <1>0, <3>1 DEF GiveRouter, HistoryType
  <2> QED BY <2>1, <2>2, <2>3 DEF TypeOK
<1>19. ASSUME Tick PROVE TypeOK'
  <2>1. ConfigType' /\ BooksType' /\ HistoryType'
    BY <1>19, <1>0, TypesStay DEF Tick, vaultVars
  <2>2. SourceType'
    BY <1>19, <1>0 DEF Tick, SourceType
  <2> QED BY <2>1, <2>2 DEF TypeOK
<1>20. CASE UNCHANGED vars
  BY <1>20, <1>0, TypesStay DEF vars, TypeOK
<1> QED
  BY <1>1, <1>2, <1>3, <1>4, <1>5, <1>6, <1>7, <1>8, <1>9, <1>10, <1>11, <1>12, <1>13, <1>14, <1>15, <1>16, <1>17, <1>18, <1>19, <1>20 DEF Next

-----------------------------------------------------------------------------
\* The parts of HoldersGetOwnFees and of the clock's invariant for one pool.
OwnFees(p) ==
  /\ pool[p].total_claimed = taken[p]
  /\ pool[p].total_claimed =
       pool[p].total_to_holders + pool[p].total_to_buyback + pool[p].total_to_protocol
  /\ holderVault[p] + withdrawn.epoch[p] = pool[p].total_to_holders + given.holder[p]

\* A claim books for its own pool what it takes from that pool's sources, and
\* leaves the books of every other pool alone.
LEMMA SplitKeepsOwnFees ==
  ASSUME TypeOK, HoldersGetOwnFees,
         NEW p \in Pools, NEW received \in Nat, NEW base \in Nat, NEW ts \in Nat,
         SplitToVaults(p, received, base, ts),
         taken' = [taken EXCEPT ![p] = @ + received],
         UNCHANGED <<withdrawn, given>>
  PROVE  HoldersGetOwnFees'
<1>1. PICK h, b, d \in Nat : SplitDone(p, received, base, ts, h, b, d)
  BY SplitEffect
<1>2. recv' = given'.recv
  BY <1>1 DEF SplitDone, HoldersGetOwnFees
<1>3. ASSUME NEW i \in Pools PROVE OwnFees(i)'
  <2>1. /\ pool[i] \in PoolState /\ taken[i] \in Nat /\ holderVault[i] \in Nat
        /\ withdrawn.epoch[i] \in Nat /\ given.holder[i] \in Nat
    BY DEF TypeOK, BooksType, HistoryType
  <2>2. OwnFees(i)
    BY DEF HoldersGetOwnFees, OwnFees
  <2>3. /\ pool \in [Pools -> PoolState] /\ taken \in [Pools -> Nat]
        /\ holderVault \in [Pools -> Nat]
    BY DEF TypeOK, BooksType, HistoryType
  <2>4. CASE i = p
    <3>1. /\ pool'[i].total_claimed = pool[i].total_claimed + received
          /\ pool'[i].total_to_holders = pool[i].total_to_holders + h
          /\ pool'[i].total_to_buyback = pool[i].total_to_buyback + b
          /\ pool'[i].total_to_protocol = pool[i].total_to_protocol + d
      BY <1>1, <2>1, <2>3, <2>4 DEF SplitDone, PoolState
    <3>2. /\ taken'[i] = taken[i] + received /\ holderVault'[i] = holderVault[i] + h
          /\ withdrawn'.epoch[i] = withdrawn.epoch[i] /\ given'.holder[i] = given.holder[i]
          /\ h + b + d = received
      BY <1>1, <2>3, <2>4 DEF SplitDone
    <3>3. /\ pool[i].total_claimed \in Nat /\ pool[i].total_to_holders \in Nat
          /\ pool[i].total_to_buyback \in Nat /\ pool[i].total_to_protocol \in Nat
      BY <2>1, FeeRouterAssumption DEF PoolState
    <3> QED BY <2>1, <2>2, <3>1, <3>2, <3>3 DEF OwnFees
  <2>5. CASE i # p
    <3>1. pool'[i] = pool[i] /\ taken'[i] = taken[i] /\ holderVault'[i] = holderVault[i]
      BY <1>1, <2>3, <2>5 DEF SplitDone
    <3> QED BY <2>2, <3>1 DEF OwnFees
  <2> QED BY <2>4, <2>5
<1> QED BY <1>2, <1>3 DEF HoldersGetOwnFees, OwnFees

LEMMA NextHoldersGetOwnFees ==
  TypeOK /\ HoldersGetOwnFees /\ BlankUntilRegistered /\ [Next]_vars => HoldersGetOwnFees'
<1> SUFFICES ASSUME TypeOK, HoldersGetOwnFees, BlankUntilRegistered, [Next]_vars
             PROVE  HoldersGetOwnFees'
  OBVIOUS
<1>0. /\ BooksType /\ HistoryType /\ SourceType /\ Amounts \subseteq Nat
  BY FeeRouterAssumption DEF TypeOK, Amounts
<1>1. CASE UNCHANGED <<pool, holderVault, recv, withdrawn, given, taken>>
  BY <1>1 DEF HoldersGetOwnFees
<1>2. ASSUME NEW p \in Pools, RegisterPool(p)
      PROVE  HoldersGetOwnFees'
  <2>1. ASSUME NEW i \in Pools
        PROVE  /\ pool'[i].total_claimed = pool[i].total_claimed
               /\ pool'[i].total_to_holders = pool[i].total_to_holders
               /\ pool'[i].total_to_buyback = pool[i].total_to_buyback
               /\ pool'[i].total_to_protocol = pool[i].total_to_protocol
    BY <1>0, <1>2 DEF RegisterPool, BlankUntilRegistered, Unregistered, BooksType
  <2>2. UNCHANGED <<holderVault, recv, withdrawn, given, taken>>
    BY <1>2 DEF RegisterPool, vaultVars, history
  <2> QED BY <2>1, <2>2 DEF HoldersGetOwnFees
<1>3. ASSUME NEW a \in Actors, NEW p \in Pools, NEW x \in Positions, RecordMigration(a, p, x)
      PROVE  HoldersGetOwnFees'
  <2>1. ASSUME NEW i \in Pools
        PROVE  /\ pool'[i].total_claimed = pool[i].total_claimed
               /\ pool'[i].total_to_holders = pool[i].total_to_holders
               /\ pool'[i].total_to_buyback = pool[i].total_to_buyback
               /\ pool'[i].total_to_protocol = pool[i].total_to_protocol
    BY <1>0, <1>3 DEF RecordMigration, PoolState, BooksType
  <2>2. UNCHANGED <<holderVault, recv, withdrawn, given, taken>>
    BY <1>3 DEF RecordMigration, vaultVars, history
  <2> QED BY <2>1, <2>2 DEF HoldersGetOwnFees
<1>4. ASSUME NEW a \in Actors, NEW p \in Pools, ClaimDbc(a, p)
      PROVE  HoldersGetOwnFees'
  <2>1. curve[p].fees \in Nat /\ now \in Nat
    BY <1>0 DEF SourceType
  <2> QED BY <1>4, <2>1, SplitKeepsOwnFees DEF ClaimDbc
<1>5. ASSUME NEW a \in Actors, NEW p \in Pools, ClaimDbcSurplus(a, p)
      PROVE  HoldersGetOwnFees'
  <2>1. curve[p].surplus \in Nat /\ pool[p].last_claim_ts \in Nat
    BY <1>0 DEF SourceType, BooksType, PoolState
  <2> QED BY <1>5, <2>1, SplitKeepsOwnFees DEF ClaimDbcSurplus
<1>6. ASSUME NEW a \in Actors, NEW p \in Pools, NEW x \in Positions, ClaimDamm(a, p, x)
      PROVE  HoldersGetOwnFees'
  <2>1. damm[x].quote \in Nat /\ damm[x].base \in Nat /\ now \in Nat
    BY <1>0 DEF SourceType
  <2> QED BY <1>6, <2>1, SplitKeepsOwnFees DEF ClaimDamm
<1>7. ASSUME NEW gm \in Programs, NEW p \in Pools, NEW amount \in Amounts,
             WithdrawForEpoch(gm, p, amount)
      PROVE  HoldersGetOwnFees'
  <2>1. amount \in Nat
    BY <1>0
  <2>2. UNCHANGED <<pool, recv, given, taken>>
    BY <1>7 DEF WithdrawForEpoch
  <2>3. ASSUME NEW i \in Pools
        PROVE  holderVault'[i] + withdrawn'.epoch[i] = holderVault[i] + withdrawn.epoch[i]
    <3>1. holderVault' = [holderVault EXCEPT ![p] = holderVault[p] - amount]
      BY <1>7 DEF WithdrawForEpoch
    <3>2. withdrawn'.epoch = [withdrawn.epoch EXCEPT ![p] = withdrawn.epoch[p] + amount]
      BY <1>0, <1>7 DEF WithdrawForEpoch, HistoryType
    <3>3. /\ holderVault \in [Pools -> Nat] /\ withdrawn.epoch \in [Pools -> Nat]
          /\ holderVault[i] \in Nat /\ withdrawn.epoch[i] \in Nat
      BY <1>0 DEF BooksType, HistoryType
    <3> HIDE DEF BooksType
    <3> QED BY <2>1, <3>1, <3>2, <3>3
  <2> QED BY <2>2, <2>3 DEF HoldersGetOwnFees
<1>8. ASSUME NEW p \in Pools, NEW amount \in Amounts, GiveHolders(p, amount)
      PROVE  HoldersGetOwnFees'
  <2>1. amount \in Nat
    BY <1>0
  <2>2. UNCHANGED <<pool, recv, withdrawn, taken>>
    BY <1>8 DEF GiveHolders
  <2>3. ASSUME NEW i \in Pools
        PROVE  holderVault'[i] + withdrawn'.epoch[i] = pool'[i].total_to_holders + given'.holder[i]
    <3>1. holderVault' = [holderVault EXCEPT ![p] = holderVault[p] + amount]
      BY <1>8 DEF GiveHolders
    <3>2. given'.holder = [given.holder EXCEPT ![p] = given.holder[p] + amount]
      BY <1>0, <1>8 DEF GiveHolders, HistoryType
    <3>3. /\ holderVault \in [Pools -> Nat] /\ given.holder \in [Pools -> Nat]
          /\ holderVault[i] \in Nat /\ given.holder[i] \in Nat /\ withdrawn.epoch[i] \in Nat
          /\ pool[i].total_to_holders \in Nat
      BY <1>0 DEF BooksType, HistoryType, PoolState
    <3>4. holderVault[i] + withdrawn.epoch[i] = pool[i].total_to_holders + given.holder[i]
      BY DEF HoldersGetOwnFees
    <3> QED BY <2>1, <2>2, <3>1, <3>2, <3>3, <3>4
  <2>4. given'.recv = given.recv
    BY <1>0, <1>8 DEF GiveHolders, HistoryType
  <2> QED BY <2>2, <2>3, <2>4 DEF HoldersGetOwnFees
<1>9. ASSUME NEW c \in Coins, NEW amount \in Amounts, GiveRouter(c, amount)
      PROVE  HoldersGetOwnFees'
  <2>1. /\ UNCHANGED <<pool, holderVault, withdrawn, taken>>
        /\ recv' = [recv EXCEPT ![c] = recv[c] + amount]
    BY <1>9 DEF GiveRouter
  <2>2. /\ given'.holder = given.holder
        /\ given'.recv = [given.recv EXCEPT ![c] = given.recv[c] + amount]
    BY <1>0, <1>9 DEF GiveRouter, HistoryType
  <2> QED BY <2>1, <2>2 DEF HoldersGetOwnFees
<1>10. ASSUME NEW a \in Actors, NEW s \in Splits, SetSplit(a, s)
       PROVE  HoldersGetOwnFees'
  BY <1>1, <1>10 DEF SetSplit, vaultVars, history
<1>11. ASSUME NEW a \in Actors, NEW ks \in SUBSET Actors, SetKeepers(a, ks)
       PROVE  HoldersGetOwnFees'
  BY <1>1, <1>11 DEF SetKeepers, vaultVars, history
<1>12. ASSUME NEW a \in Actors, NEW b \in BOOLEAN, Pause(a, b)
       PROVE  HoldersGetOwnFees'
  BY <1>1, <1>12 DEF Pause, vaultVars, history
<1>13. ASSUME NEW a \in Actors, NEW b \in Actors, NEW dist \in Programs, NEW bb \in Programs, SetPrograms(a, dist, bb, b)
       PROVE  HoldersGetOwnFees'
  BY <1>1, <1>13 DEF SetPrograms, vaultVars, history
<1>14. ASSUME NEW gm \in Programs, NEW c \in Coins, NEW amount \in Amounts, WithdrawForBuyback(gm, c, amount)
       PROVE  HoldersGetOwnFees'
  <2>1. withdrawn'.epoch = withdrawn.epoch
    BY <1>0, <1>14 DEF WithdrawForBuyback, HistoryType
  <2> QED BY <1>14, <2>1 DEF WithdrawForBuyback, HoldersGetOwnFees
<1>15. ASSUME NEW a \in Actors, NEW m \in Mints, NEW amount \in Amounts, WithdrawTreasury(a, m, amount)
       PROVE  HoldersGetOwnFees'
  <2>1. withdrawn'.epoch = withdrawn.epoch
    BY <1>0, <1>15 DEF WithdrawTreasury, HistoryType
  <2> QED BY <1>15, <2>1 DEF WithdrawTreasury, HoldersGetOwnFees
<1>16. ASSUME NEW p \in Pools, NEW amount \in Amounts, CurveTrade(p, amount)
       PROVE  HoldersGetOwnFees'
  BY <1>1, <1>16 DEF CurveTrade, vaultVars, history
<1>17. ASSUME NEW p \in Pools, NEW x \in Positions, NEW surplus \in Amounts, Graduate(p, x, surplus)
       PROVE  HoldersGetOwnFees'
  BY <1>1, <1>17 DEF Graduate, vaultVars, history
<1>18. ASSUME NEW x \in Positions, GiftPosition(x)
       PROVE  HoldersGetOwnFees'
  BY <1>1, <1>18 DEF GiftPosition, vaultVars, history
<1>19. ASSUME NEW x \in Positions, NEW quote \in Amounts, NEW base \in Amounts, DammTrade(x, quote, base)
       PROVE  HoldersGetOwnFees'
  BY <1>1, <1>19 DEF DammTrade, vaultVars, history
<1>20. CASE Tick \/ UNCHANGED vars
  BY <1>1, <1>20 DEF Tick, vars, vaultVars, history
<1> QED
  BY <1>2, <1>3, <1>4, <1>5, <1>6, <1>7, <1>8, <1>9, <1>10, <1>11, <1>12, <1>13, <1>14, <1>15, <1>16, <1>17, <1>18, <1>19, <1>20 DEF Next

-----------------------------------------------------------------------------
\* Registering leaves no trace of what the account held before: there was none.
LEMMA NextBlank == TypeOK /\ BlankUntilRegistered /\ [Next]_vars => BlankUntilRegistered'
<1> SUFFICES ASSUME TypeOK, BlankUntilRegistered, [Next]_vars PROVE BlankUntilRegistered'
  OBVIOUS
<1>0. pool \in [Pools -> PoolState] /\ now \in Nat /\ Amounts \subseteq Nat
  BY FeeRouterAssumption DEF TypeOK, BooksType, SourceType, Amounts
<1>1. CASE pool' = pool
  BY <1>1 DEF BlankUntilRegistered
<1>2. ASSUME NEW p \in Pools, NEW s \in PoolState, s.registered, pool' = [pool EXCEPT ![p] = s]
      PROVE  BlankUntilRegistered'
  BY <1>0, <1>2 DEF BlankUntilRegistered
<1>3. ASSUME NEW p \in Pools, NEW received \in Nat, NEW base \in Nat, NEW ts \in Nat,
             pool[p].registered, SplitToVaults(p, received, base, ts)
      PROVE  BlankUntilRegistered'
  <2>1. PICK h, b, d \in Nat : SplitDone(p, received, base, ts, h, b, d)
    BY <1>3, SplitEffect
  <2>2. pool'[p].registered
    BY <1>0, <1>3, <2>1 DEF SplitDone, PoolState
  <2>3. ASSUME NEW i \in Pools, i # p PROVE pool'[i] = pool[i]
    BY <1>0, <2>1, <2>3 DEF SplitDone
  <2> QED BY <2>2, <2>3 DEF BlankUntilRegistered
<1>4. ASSUME NEW p \in Pools, RegisterPool(p) PROVE BlankUntilRegistered'
  <2>1. /\ [Unregistered EXCEPT !.registered = TRUE] \in PoolState
        /\ [Unregistered EXCEPT !.registered = TRUE].registered
    BY UnregisteredType DEF PoolState
  <2> QED BY <1>2, <1>4, <2>1 DEF RegisterPool
<1>5. ASSUME NEW a \in Actors, NEW p \in Pools, NEW x \in Positions, RecordMigration(a, p, x)
      PROVE  BlankUntilRegistered'
  <2>1. pool'[p].registered
    BY <1>0, <1>5 DEF RecordMigration, PoolState
  <2>2. ASSUME NEW i \in Pools, i # p PROVE pool'[i] = pool[i]
    BY <1>0, <1>5, <2>2 DEF RecordMigration
  <2> QED BY <2>1, <2>2 DEF BlankUntilRegistered
<1>6. ASSUME NEW a \in Actors, NEW p \in Pools, ClaimDbc(a, p) PROVE BlankUntilRegistered'
  <2>1. curve[p].fees \in Nat
    BY DEF TypeOK, SourceType
  <2> QED BY <1>0, <1>3, <1>6, <2>1 DEF ClaimDbc
<1>7. ASSUME NEW a \in Actors, NEW p \in Pools, ClaimDbcSurplus(a, p)
      PROVE  BlankUntilRegistered'
  <2>1. curve[p].surplus \in Nat /\ pool[p].last_claim_ts \in Nat
    BY <1>0 DEF TypeOK, SourceType, PoolState
  <2> QED BY <1>3, <1>7, <2>1 DEF ClaimDbcSurplus
<1>8. ASSUME NEW a \in Actors, NEW p \in Pools, NEW x \in Positions, ClaimDamm(a, p, x)
      PROVE  BlankUntilRegistered'
  <2>1. damm[x].quote \in Nat /\ damm[x].base \in Nat
    BY DEF TypeOK, SourceType
  <2> QED BY <1>0, <1>3, <1>8, <2>1 DEF ClaimDamm
<1> QED
  BY <1>1, <1>4, <1>5, <1>6, <1>7, <1>8
  DEF Next, SetSplit, SetKeepers, Pause, SetPrograms, WithdrawForEpoch, WithdrawForBuyback,
      WithdrawTreasury, CurveTrade, GiveHolders, Graduate, GiftPosition, DammTrade,
      GiveRouter, Tick, vars, vaultVars

-----------------------------------------------------------------------------
\* Claims move a pool's clock to the present, and nothing moves it back.
LEMMA SplitSetsClock ==
  ASSUME TypeOK, ClocksOrdered,
         NEW p \in Pools, NEW received \in Nat, NEW base \in Nat, NEW ts \in Nat,
         SplitToVaults(p, received, base, ts),
         pool[p].last_claim_ts <= ts, ts <= now, UNCHANGED now,
         \/ UNCHANGED outsider
         \/ ts = now /\ outsider' = [outsider EXCEPT ![p] = now]
  PROVE  ClocksOrdered'
<1>1. PICK h, b, d \in Nat : SplitDone(p, received, base, ts, h, b, d)
  BY SplitEffect
<1>2. /\ pool \in [Pools -> PoolState] /\ now \in Nat
      /\ outsider \in [Pools -> Nat] /\ pool[p].last_claim_ts \in Nat
  BY DEF TypeOK, BooksType, SourceType, HistoryType, PoolState
<1>3. pool'[p].last_claim_ts = ts
  BY <1>1, <1>2 DEF SplitDone, PoolState
<1>4. ASSUME NEW i \in Pools, i # p PROVE pool'[i] = pool[i]
  BY <1>1, <1>2, <1>4 DEF SplitDone
<1>5. ASSUME NEW i \in Pools
      PROVE  outsider'[i] <= pool'[i].last_claim_ts /\ pool'[i].last_claim_ts <= now'
  <2>1. CASE i # p
    BY <1>2, <1>4, <2>1 DEF ClocksOrdered
  <2>2. CASE i = p
    <3>1. outsider[p] <= pool[p].last_claim_ts /\ outsider[p] \in Nat
      BY <1>2 DEF ClocksOrdered
    <3> QED BY <1>2, <1>3, <2>2, <3>1
  <2> QED BY <2>1, <2>2
<1> QED BY <1>5 DEF ClocksOrdered

LEMMA NextClocksOrdered ==
  TypeOK /\ BlankUntilRegistered /\ ClocksOrdered /\ [Next]_vars => ClocksOrdered'
<1> SUFFICES ASSUME TypeOK, BlankUntilRegistered, ClocksOrdered, [Next]_vars
             PROVE  ClocksOrdered'
  OBVIOUS
<1>0. /\ pool \in [Pools -> PoolState] /\ now \in Nat /\ outsider \in [Pools -> Nat]
  BY DEF TypeOK, BooksType, SourceType, HistoryType
<1>1. CASE UNCHANGED <<pool, now, outsider>>
  BY <1>1 DEF ClocksOrdered
<1>2. ASSUME NEW p \in Pools, RegisterPool(p) PROVE ClocksOrdered'
  <2>1. ASSUME NEW i \in Pools PROVE pool'[i].last_claim_ts = pool[i].last_claim_ts
    BY <1>0, <1>2 DEF RegisterPool, BlankUntilRegistered, Unregistered
  <2>2. UNCHANGED <<now, outsider>>
    BY <1>2 DEF RegisterPool, history
  <2> QED BY <2>1, <2>2 DEF ClocksOrdered
<1>3. ASSUME NEW a \in Actors, NEW p \in Pools, NEW x \in Positions, RecordMigration(a, p, x)
      PROVE  ClocksOrdered'
  <2>1. ASSUME NEW i \in Pools PROVE pool'[i].last_claim_ts = pool[i].last_claim_ts
    BY <1>0, <1>3 DEF RecordMigration, PoolState
  <2>2. UNCHANGED <<now, outsider>>
    BY <1>3 DEF RecordMigration, history
  <2> QED BY <2>1, <2>2 DEF ClocksOrdered
<1>4. ASSUME NEW a \in Actors, NEW p \in Pools, ClaimDbc(a, p) PROVE ClocksOrdered'
  <2>1. curve[p].fees \in Nat /\ pool[p].last_claim_ts <= now
    BY DEF TypeOK, SourceType, ClocksOrdered
  <2>2. SplitToVaults(p, curve[p].fees, 0, now) /\ UNCHANGED now
    BY <1>4 DEF ClaimDbc
  <2>3. UNCHANGED outsider \/ outsider' = [outsider EXCEPT ![p] = now]
    BY <1>4 DEF ClaimDbc, Outsider
  <2>4. 0 \in Nat /\ now <= now
    BY <1>0
  <2> QED BY <1>0, <2>1, <2>2, <2>3, <2>4, SplitSetsClock
<1>5. ASSUME NEW a \in Actors, NEW p \in Pools, ClaimDbcSurplus(a, p) PROVE ClocksOrdered'
  <2>1. /\ curve[p].surplus \in Nat /\ pool[p].last_claim_ts \in Nat
        /\ pool[p].last_claim_ts <= pool[p].last_claim_ts /\ pool[p].last_claim_ts <= now
    BY <1>0 DEF TypeOK, SourceType, ClocksOrdered, PoolState
  <2> QED BY <1>5, <2>1, SplitSetsClock DEF ClaimDbcSurplus
<1>6. ASSUME NEW a \in Actors, NEW p \in Pools, NEW x \in Positions, ClaimDamm(a, p, x)
      PROVE  ClocksOrdered'
  <2>1. damm[x].quote \in Nat /\ damm[x].base \in Nat /\ pool[p].last_claim_ts <= now
    BY DEF TypeOK, SourceType, ClocksOrdered
  <2>2. SplitToVaults(p, damm[x].quote, damm[x].base, now) /\ UNCHANGED now
    BY <1>6 DEF ClaimDamm
  <2>3. UNCHANGED outsider \/ outsider' = [outsider EXCEPT ![p] = now]
    BY <1>6 DEF ClaimDamm, Outsider
  <2>4. 0 \in Nat /\ now <= now
    BY <1>0
  <2> QED BY <1>0, <2>1, <2>2, <2>3, <2>4, SplitSetsClock
<1>7. ASSUME Tick PROVE ClocksOrdered'
  <2>1. ASSUME NEW i \in Pools PROVE pool[i].last_claim_ts \in Nat
    BY <1>0 DEF PoolState
  <2> QED BY <1>0, <1>7, <2>1 DEF Tick, ClocksOrdered, history
<1> QED
  BY <1>1, <1>2, <1>3, <1>4, <1>5, <1>6, <1>7
  DEF Next, SetSplit, SetKeepers, Pause, SetPrograms, WithdrawForEpoch, WithdrawForBuyback,
      WithdrawTreasury, CurveTrade, GiveHolders, Graduate, GiftPosition, DammTrade,
      GiveRouter, vars, history

\* An outsider who claims has waited since the pool's last claim, so since the
\* last outsider's.
LEMMA NextPaced ==
  ASSUME TypeOK, ClocksOrdered, Next
  PROVE  PacedStep
<1>0. now \in Nat /\ outsider \in [Pools -> Nat] /\ pool \in [Pools -> PoolState]
  BY DEF TypeOK, BooksType, SourceType, HistoryType
<1>1. ASSUME NEW a \in Actors, NEW p \in Pools, CheckClaimGate(a, p), Outsider(a, p)
      PROVE  PacedStep
  <2>1. CASE IsAdminOrKeeper(a)
    BY <1>1, <2>1 DEF Outsider, PacedStep
  <2>2. CASE ~IsAdminOrKeeper(a)
    <3>1. /\ outsider' = [outsider EXCEPT ![p] = now]
          /\ now - pool[p].last_claim_ts > PERMISSIONLESS_CLAIM_INTERVAL
      BY <1>1, <2>2 DEF Outsider, CheckClaimGate
    <3>2. outsider[p] <= pool[p].last_claim_ts /\ pool[p].last_claim_ts \in Nat
      BY <1>0 DEF ClocksOrdered, PoolState
    <3>3. now - outsider[p] > PERMISSIONLESS_CLAIM_INTERVAL
      BY <1>0, <3>1, <3>2, FeeRouterAssumption
    <3> QED BY <1>0, <3>1, <3>3 DEF PacedStep
  <2> QED BY <2>1, <2>2
<1>2. CASE UNCHANGED outsider
  BY <1>2 DEF PacedStep
<1> QED
  BY <1>1, <1>2
  DEF Next, SetSplit, SetKeepers, Pause, SetPrograms, RegisterPool, RecordMigration,
      ClaimDbc, ClaimDbcSurplus, ClaimDamm, WithdrawForEpoch, WithdrawForBuyback,
      WithdrawTreasury, CurveTrade, GiveHolders, Graduate, GiftPosition, DammTrade,
      GiveRouter, Tick, history

-----------------------------------------------------------------------------
\* One claim of a, of which the holders get h, keeps the two bounds of
\* SplitKeepsShares, with m a share that is as low, or as high, as both the
\* share x so far and the share g of the split in force.
LEMMA LowestShare ==
  ASSUME NEW D \in Nat \ {0}, NEW x \in Nat, NEW g \in Nat, NEW m \in Nat,
         NEW T \in Nat, NEW a \in Nat, NEW H \in Nat, NEW h \in Nat, NEW n \in Nat,
         m <= x, m <= g,
         D * H + (D - 1) * n >= x * T, a * g <= D * h + (D - 1)
  PROVE  D * (H + h) + (D - 1) * (n + 1) >= m * (T + a)
<1>1. m * T <= x * T /\ m * a <= g * a /\ m * T \in Nat /\ m * a \in Nat
  BY TimesMono
<1>2. /\ m * (T + a) = m * T + m * a /\ g * a = a * g
      /\ D * (H + h) = D * H + D * h
      /\ (D - 1) * (n + 1) = (D - 1) * n + (D - 1)
  BY SMT
<1>3. /\ x * T \in Nat /\ a * g \in Nat /\ D * H \in Nat /\ D * h \in Nat
      /\ D - 1 \in Nat /\ (D - 1) * n \in Nat
  BY SMT
<1> QED BY <1>1, <1>2, <1>3

LEMMA HighestShare ==
  ASSUME NEW D \in Nat \ {0}, NEW x \in Nat, NEW g \in Nat, NEW m \in Nat,
         NEW T \in Nat, NEW a \in Nat, NEW H \in Nat, NEW h \in Nat,
         x <= m, g <= m,
         D * H <= x * T, D * h <= a * g
  PROVE  D * (H + h) <= m * (T + a)
<1>1. x * T <= m * T /\ g * a <= m * a /\ m * T \in Nat /\ m * a \in Nat
  BY TimesMono
<1>2. /\ m * (T + a) = m * T + m * a /\ g * a = a * g
      /\ D * (H + h) = D * H + D * h
  BY SMT
<1>3. x * T \in Nat /\ a * g \in Nat /\ D * H \in Nat /\ D * h \in Nat
  BY SMT
<1> QED BY <1>1, <1>2, <1>3

\* The bounds of SplitKeepsShares for one pool.
SharesKept(p) ==
  /\ \E s \in splitsSeen :
       BPS_DENOM * pool[p].total_to_holders + (BPS_DENOM - 1) * claims[p]
         >= s.holders * pool[p].total_claimed
  /\ \E s \in splitsSeen :
       BPS_DENOM * pool[p].total_to_holders <= s.holders * pool[p].total_claimed

LEMMA SplitKeepsBounds ==
  ASSUME TypeOK, SplitSeen, SplitKeepsShares,
         NEW p \in Pools, NEW received \in Nat, NEW base \in Nat, NEW ts \in Nat,
         SplitToVaults(p, received, base, ts), UNCHANGED splitsSeen
  PROVE  SplitKeepsShares'
<1>1. PICK h, b, d \in Nat : SplitDone(p, received, base, ts, h, b, d)
  BY SplitEffect
<1> DEFINE T == pool[p].total_claimed
           H == pool[p].total_to_holders
           n == claims[p]
           g == split.holders
<1>2. /\ pool \in [Pools -> PoolState] /\ claims \in [Pools -> Nat]
      /\ T \in Nat /\ H \in Nat /\ n \in Nat /\ g \in Nat /\ split \in Splits
      /\ BPS_DENOM \in Nat \ {0}
      /\ \A s \in splitsSeen : s.holders \in Nat
  BY FeeRouterAssumption DEF TypeOK, ConfigType, BooksType, HistoryType, PoolState
<1>3. split \in splitsSeen
  BY DEF SplitSeen
<1>4. /\ pool'[p].total_claimed = T + received
      /\ pool'[p].total_to_holders = H + h
      /\ claims'[p] = n + (IF received > 0 THEN 1 ELSE 0)
      /\ BPS_DENOM * h <= received * g /\ received * g <= BPS_DENOM * h + (BPS_DENOM - 1)
  BY <1>1, <1>2 DEF SplitDone, PoolState
<1>5. ASSUME NEW i \in Pools, i # p PROVE pool'[i] = pool[i] /\ claims'[i] = claims[i]
  BY <1>1, <1>2, <1>5 DEF SplitDone
<1>6. SharesKept(p)
  BY DEF SplitKeepsShares, SharesKept
<1>7. SharesKept(p)'
  <2> HIDE DEF T, H, n, g
  <2>1. CASE received = 0
    <3>1. received * g = 0
      BY <1>2, <2>1
    <3>2. BPS_DENOM * 1 <= BPS_DENOM * h \/ h = 0
      BY <1>2, TimesMono
    <3>3. h = 0
      BY <1>2, <1>4, <3>1, <3>2
    <3>4. /\ pool'[p].total_claimed = pool[p].total_claimed
          /\ pool'[p].total_to_holders = pool[p].total_to_holders /\ claims'[p] = claims[p]
      BY <1>2, <1>4, <2>1, <3>3 DEF T, H, n
    <3> QED BY <1>6, <3>4 DEF SharesKept
  <2>2. CASE received > 0
    <3>1. claims'[p] = n + 1
      BY <1>4, <2>2
    <3>2. PICK s \in splitsSeen : BPS_DENOM * H + (BPS_DENOM - 1) * n >= s.holders * T
      BY <1>6 DEF SharesKept, H, T, n
    <3>3. PICK t \in splitsSeen : BPS_DENOM * H <= t.holders * T
      BY <1>6 DEF SharesKept, H, T
    <3>4. \E m \in splitsSeen : BPS_DENOM * (H + h) + (BPS_DENOM - 1) * (n + 1)
                                  >= m.holders * (T + received)
      <4>1. PICK m \in splitsSeen : m.holders <= s.holders /\ m.holders <= g
        BY <1>2, <1>3 DEF g
      <4>2. /\ s.holders \in Nat /\ m.holders \in Nat
        BY <1>2
      <4>3. BPS_DENOM * (H + h) + (BPS_DENOM - 1) * (n + 1) >= m.holders * (T + received)
        BY <1>2, <1>4, <3>2, <4>1, <4>2, LowestShare
      <4> QED BY <4>3
    <3>5. \E m \in splitsSeen : BPS_DENOM * (H + h) <= m.holders * (T + received)
      <4>1. PICK m \in splitsSeen : t.holders <= m.holders /\ g <= m.holders
        BY <1>2, <1>3 DEF g
      <4>2. /\ t.holders \in Nat /\ m.holders \in Nat
        BY <1>2
      <4>3. BPS_DENOM * (H + h) <= m.holders * (T + received)
        BY <1>2, <1>4, <3>3, <4>1, <4>2, HighestShare
      <4> QED BY <4>3
    <3> QED BY <1>4, <3>1, <3>4, <3>5 DEF SharesKept
  <2> QED BY <2>1, <2>2
<1>8. ASSUME NEW i \in Pools PROVE SharesKept(i)'
  <2>1. CASE i = p
    BY <1>7, <2>1
  <2>2. CASE i # p
    <3>1. SharesKept(i)
      BY DEF SplitKeepsShares, SharesKept
    <3> QED BY <1>5, <2>2, <3>1 DEF SharesKept
  <2> QED BY <2>1, <2>2
<1> QED BY <1>8 DEF SplitKeepsShares, SharesKept

\* Changing the split only adds to the splits seen, and the other instructions
\* leave the books and the claims alone.
LEMMA NextSplitKeepsShares ==
  /\ TypeOK /\ SplitSeen /\ SplitKeepsShares /\ BlankUntilRegistered /\ [Next]_vars
  => SplitSeen' /\ SplitKeepsShares'
<1> SUFFICES ASSUME TypeOK, SplitSeen, SplitKeepsShares, BlankUntilRegistered, [Next]_vars
             PROVE  SplitSeen' /\ SplitKeepsShares'
  OBVIOUS
<1>0. pool \in [Pools -> PoolState] /\ now \in Nat
  BY DEF TypeOK, BooksType, SourceType
<1>1. CASE UNCHANGED <<split, pool, claims, splitsSeen>>
  BY <1>1 DEF SplitSeen, SplitKeepsShares
<1>2. ASSUME NEW a \in Actors, NEW s \in Splits, SetSplit(a, s)
      PROVE  SplitSeen' /\ SplitKeepsShares'
  <2>1. /\ pool' = pool /\ claims' = claims
        /\ splitsSeen' = splitsSeen \cup {s} /\ split' = s
    BY <1>2 DEF SetSplit
  <2>2. SplitSeen'
    BY <2>1 DEF SplitSeen
  <2>3. ASSUME NEW i \in Pools PROVE SharesKept(i)'
    <3>1. SharesKept(i)
      BY DEF SplitKeepsShares, SharesKept
    <3> QED BY <2>1, <3>1 DEF SharesKept
  <2> QED BY <2>2, <2>3 DEF SplitKeepsShares, SharesKept
<1>3. ASSUME NEW p \in Pools, RegisterPool(p) PROVE SplitSeen' /\ SplitKeepsShares'
  <2>1. ASSUME NEW i \in Pools
        PROVE  /\ pool'[i].total_claimed = pool[i].total_claimed
               /\ pool'[i].total_to_holders = pool[i].total_to_holders
    BY <1>0, <1>3 DEF RegisterPool, BlankUntilRegistered, Unregistered
  <2>2. UNCHANGED <<split, claims, splitsSeen>>
    BY <1>3 DEF RegisterPool, configVars, history
  <2> QED BY <2>1, <2>2 DEF SplitSeen, SplitKeepsShares
<1>4. ASSUME NEW a \in Actors, NEW p \in Pools, NEW x \in Positions, RecordMigration(a, p, x)
      PROVE  SplitSeen' /\ SplitKeepsShares'
  <2>1. ASSUME NEW i \in Pools
        PROVE  /\ pool'[i].total_claimed = pool[i].total_claimed
               /\ pool'[i].total_to_holders = pool[i].total_to_holders
    BY <1>0, <1>4 DEF RecordMigration, PoolState
  <2>2. UNCHANGED <<split, claims, splitsSeen>>
    BY <1>4 DEF RecordMigration, configVars, history
  <2> QED BY <2>1, <2>2 DEF SplitSeen, SplitKeepsShares
<1>5. ASSUME NEW a \in Actors, NEW p \in Pools, ClaimDbc(a, p)
      PROVE  SplitSeen' /\ SplitKeepsShares'
  <2>1. curve[p].fees \in Nat
    BY DEF TypeOK, SourceType
  <2> QED BY <1>0, <1>5, <2>1, SplitKeepsBounds DEF ClaimDbc, configVars, SplitSeen
<1>6. ASSUME NEW a \in Actors, NEW p \in Pools, ClaimDbcSurplus(a, p)
      PROVE  SplitSeen' /\ SplitKeepsShares'
  <2>1. curve[p].surplus \in Nat /\ pool[p].last_claim_ts \in Nat
    BY <1>0 DEF TypeOK, SourceType, PoolState
  <2> QED BY <1>6, <2>1, SplitKeepsBounds DEF ClaimDbcSurplus, configVars, SplitSeen
<1>7. ASSUME NEW a \in Actors, NEW p \in Pools, NEW x \in Positions, ClaimDamm(a, p, x)
      PROVE  SplitSeen' /\ SplitKeepsShares'
  <2>1. damm[x].quote \in Nat /\ damm[x].base \in Nat
    BY DEF TypeOK, SourceType
  <2> QED BY <1>0, <1>7, <2>1, SplitKeepsBounds DEF ClaimDamm, configVars, SplitSeen
<1> QED
  BY <1>1, <1>2, <1>3, <1>4, <1>5, <1>6, <1>7
  DEF Next, SetKeepers, Pause, SetPrograms, WithdrawForEpoch, WithdrawForBuyback,
      WithdrawTreasury, CurveTrade, GiveHolders, Graduate, GiftPosition, DammTrade,
      GiveRouter, Tick, vars, configVars, history

-----------------------------------------------------------------------------
\* SharedVaultsAddUp as sums over the pools of a coin of what each has booked.
PoolsOf(c) == {q \in Pools : CoinOf[q] = c}
ToBuyback == [p \in Pools |-> pool[p].total_to_buyback]
ToProtocol == [p \in Pools |-> pool[p].total_to_protocol]

SharedBooks ==
  \A c \in Coins :
    /\ buybackVault[c] + withdrawn.buyback[c] = SumFunctionOnSet(ToBuyback, PoolsOf(c))
    /\ treasury[c] + withdrawn.treasury[c] = SumFunctionOnSet(ToProtocol, PoolsOf(c))

LEMMA PoolsOfFinite == \A c : IsFiniteSet(PoolsOf(c)) /\ PoolsOf(c) \subseteq Pools
<1>1. \A c : PoolsOf(c) \subseteq Pools
  BY DEF PoolsOf
<1> QED BY <1>1, FS_Subset, FeeRouterAssumption

LEMMA SharedBooksDef == TypeOK => (SharedBooks <=> SharedVaultsAddUp)
<1> SUFFICES ASSUME TypeOK, NEW c \in Coins
             PROVE  /\ SumFunctionOnSet(ToBuyback, PoolsOf(c))
                         = BookedFor(c, LAMBDA s : s.total_to_buyback)
                    /\ SumFunctionOnSet(ToProtocol, PoolsOf(c))
                         = BookedFor(c, LAMBDA s : s.total_to_protocol)
  BY DEF SharedBooks, SharedVaultsAddUp
<1> DEFINE f == [p \in PoolsOf(c) |-> pool[p].total_to_buyback]
           g == [p \in PoolsOf(c) |-> pool[p].total_to_protocol]
<1>1. /\ BookedFor(c, LAMBDA s : s.total_to_buyback) = SumFunctionOnSet(f, PoolsOf(c))
      /\ BookedFor(c, LAMBDA s : s.total_to_protocol) = SumFunctionOnSet(g, PoolsOf(c))
  BY DEF BookedFor, SumFunction, PoolsOf
<1>2. \A p \in PoolsOf(c) : f[p] = ToBuyback[p] /\ g[p] = ToProtocol[p]
  BY PoolsOfFinite DEF ToBuyback, ToProtocol
<1> HIDE DEF f, g
<1> QED BY <1>1, <1>2, PoolsOfFinite, SumSame

LEMMA BookedType ==
  TypeOK => \A p \in Pools : ToBuyback[p] \in Nat /\ ToProtocol[p] \in Nat
  BY DEF TypeOK, BooksType, PoolState, ToBuyback, ToProtocol

LEMMA InitShared == Init => SharedBooks
<1> SUFFICES ASSUME Init, NEW c \in Coins
             PROVE  /\ buybackVault[c] + withdrawn.buyback[c] = SumFunctionOnSet(ToBuyback, PoolsOf(c))
                    /\ treasury[c] + withdrawn.treasury[c] = SumFunctionOnSet(ToProtocol, PoolsOf(c))
  BY DEF SharedBooks
<1>1. /\ buybackVault[c] = 0 /\ withdrawn.buyback[c] = 0
      /\ treasury[c] = 0 /\ withdrawn.treasury[c] = 0
  BY DEF Init, Mints
<1>2. \A p \in PoolsOf(c) : ToBuyback[p] = 0 /\ ToProtocol[p] = 0
  BY PoolsOfFinite DEF Init, Unregistered, ToBuyback, ToProtocol
<1> QED BY <1>1, <1>2, PoolsOfFinite, SumZero

\* Instructions that change no booked share and no shared vault.
LEMMA SharedStay ==
  ASSUME TypeOK, SharedBooks, UNCHANGED <<buybackVault, treasury>>,
         withdrawn'.buyback = withdrawn.buyback, withdrawn'.treasury = withdrawn.treasury,
         \A p \in Pools : /\ pool'[p].total_to_buyback = pool[p].total_to_buyback
                          /\ pool'[p].total_to_protocol = pool[p].total_to_protocol
  PROVE  SharedBooks'
<1>1. ToBuyback' = ToBuyback /\ ToProtocol' = ToProtocol
  BY DEF ToBuyback, ToProtocol
<1> QED BY <1>1 DEF SharedBooks, PoolsOf

\* A claim adds to the vaults of its coin what it books.
LEMMA SplitShares ==
  ASSUME TypeOK, SharedBooks, NEW p \in Pools, NEW received \in Nat, NEW base \in Nat,
         NEW ts \in Nat, SplitToVaults(p, received, base, ts), UNCHANGED withdrawn
  PROVE  SharedBooks'
<1>1. PICK h, b, d \in Nat : SplitDone(p, received, base, ts, h, b, d)
  BY SplitEffect
<1> DEFINE k == CoinOf[p]
<1>2. /\ pool \in [Pools -> PoolState] /\ buybackVault \in [Coins -> Nat]
      /\ treasury \in [Mints -> Nat] /\ k \in Coins /\ k \in Mints /\ p \in Mints
      /\ \A c \in Coins : c # p /\ c \in Mints
      /\ withdrawn.buyback \in [Coins -> Nat] /\ withdrawn.treasury \in [Mints -> Nat]
  BY FeeRouterAssumption DEF TypeOK, BooksType, HistoryType, Mints
<1> HIDE DEF k
<1>3. /\ buybackVault' = [buybackVault EXCEPT ![k] = @ + b]
      /\ treasury' = [treasury EXCEPT ![k] = @ + d, ![p] = @ + base]
  BY <1>1 DEF SplitDone, k
<1>4. \A c \in Coins :
        /\ buybackVault'[c] = IF c = k THEN buybackVault[c] + b ELSE buybackVault[c]
        /\ treasury'[c] = IF c = k THEN treasury[c] + d ELSE treasury[c]
  BY <1>2, <1>3
<1>5. /\ pool'[p].total_to_buyback = pool[p].total_to_buyback + b
      /\ pool'[p].total_to_protocol = pool[p].total_to_protocol + d
      /\ \A i \in Pools : i # p => pool'[i] = pool[i]
  BY <1>1, <1>2 DEF SplitDone, PoolState
<1>6. /\ ToBuyback'[p] = ToBuyback[p] + b /\ ToProtocol'[p] = ToProtocol[p] + d
      /\ \A i \in Pools : i # p => ToBuyback'[i] = ToBuyback[i] /\ ToProtocol'[i] = ToProtocol[i]
  BY <1>5 DEF ToBuyback, ToProtocol
<1>7. \A i \in Pools : /\ ToBuyback[i] \in Nat /\ ToProtocol[i] \in Nat
                       /\ ToBuyback'[i] \in Nat /\ ToProtocol'[i] \in Nat
  BY <1>6, BookedType
<1>8. ASSUME NEW c \in Coins
      PROVE  /\ SumFunctionOnSet(ToBuyback', PoolsOf(c))
                  = SumFunctionOnSet(ToBuyback, PoolsOf(c)) + (IF c = k THEN b ELSE 0)
             /\ SumFunctionOnSet(ToProtocol', PoolsOf(c))
                  = SumFunctionOnSet(ToProtocol, PoolsOf(c)) + (IF c = k THEN d ELSE 0)
  <2>0. /\ \A i \in PoolsOf(c) : /\ ToBuyback[i] \in Int /\ ToProtocol[i] \in Int
                                 /\ ToBuyback'[i] \in Int /\ ToProtocol'[i] \in Int
        /\ p \in PoolsOf(c) <=> c = k
    BY <1>7, PoolsOfFinite DEF PoolsOf, k
  <2>1. /\ SumFunctionOnSet(ToBuyback, PoolsOf(c)) \in Int
        /\ SumFunctionOnSet(ToProtocol, PoolsOf(c)) \in Int
    BY <2>0, PoolsOfFinite, SumInt
  <2>2. CASE c = k
    <3>1. p \in PoolsOf(c) /\ \A i \in PoolsOf(c) : i # p => /\ ToBuyback'[i] = ToBuyback[i]
                                                            /\ ToProtocol'[i] = ToProtocol[i]
      BY <1>6, <2>0, <2>2, PoolsOfFinite
    <3>2. /\ SumFunctionOnSet(ToBuyback', PoolsOf(c))
               = SumFunctionOnSet(ToBuyback, PoolsOf(c)) - ToBuyback[p] + ToBuyback'[p]
          /\ SumFunctionOnSet(ToProtocol', PoolsOf(c))
               = SumFunctionOnSet(ToProtocol, PoolsOf(c)) - ToProtocol[p] + ToProtocol'[p]
      BY <2>0, <3>1, PoolsOfFinite, SumChange
    <3> QED BY <1>6, <1>7, <2>1, <2>2, <3>2
  <2>3. CASE c # k
    <3>1. \A i \in PoolsOf(c) : ToBuyback'[i] = ToBuyback[i] /\ ToProtocol'[i] = ToProtocol[i]
      BY <1>6, <2>0, <2>3, PoolsOfFinite
    <3>2. /\ SumFunctionOnSet(ToBuyback', PoolsOf(c)) = SumFunctionOnSet(ToBuyback, PoolsOf(c))
          /\ SumFunctionOnSet(ToProtocol', PoolsOf(c)) = SumFunctionOnSet(ToProtocol, PoolsOf(c))
      BY <3>1, PoolsOfFinite, SumSame
    <3> QED BY <2>1, <2>3, <3>2
  <2> QED BY <2>2, <2>3
<1>9. ASSUME NEW c \in Coins
      PROVE  /\ buybackVault'[c] + withdrawn'.buyback[c] = SumFunctionOnSet(ToBuyback', PoolsOf(c))
             /\ treasury'[c] + withdrawn'.treasury[c] = SumFunctionOnSet(ToProtocol', PoolsOf(c))
  <2>1. /\ buybackVault[c] + withdrawn.buyback[c] = SumFunctionOnSet(ToBuyback, PoolsOf(c))
        /\ treasury[c] + withdrawn.treasury[c] = SumFunctionOnSet(ToProtocol, PoolsOf(c))
    BY DEF SharedBooks
  <2>2. /\ buybackVault[c] \in Nat /\ withdrawn.buyback[c] \in Nat
        /\ treasury[c] \in Nat /\ withdrawn.treasury[c] \in Nat
    BY <1>2
  <2> QED BY <1>4, <1>8, <2>1, <2>2
<1> QED BY <1>9 DEF SharedBooks, PoolsOf

LEMMA NextShared ==
  TypeOK /\ BlankUntilRegistered /\ SharedBooks /\ [Next]_vars => SharedBooks'
<1> SUFFICES ASSUME TypeOK, BlankUntilRegistered, SharedBooks, [Next]_vars PROVE SharedBooks'
  OBVIOUS
<1>0. /\ pool \in [Pools -> PoolState] /\ buybackVault \in [Coins -> Nat]
      /\ treasury \in [Mints -> Nat] /\ now \in Nat
      /\ withdrawn \in [epoch : [Pools -> Nat], buyback : [Coins -> Nat], treasury : [Mints -> Nat]]
      /\ Amounts \subseteq Nat /\ Coins \subseteq Mints
  BY FeeRouterAssumption DEF TypeOK, BooksType, SourceType, HistoryType, Amounts, Mints
<1>1. CASE UNCHANGED <<pool, buybackVault, treasury, withdrawn>>
  BY <1>1, SharedStay
<1>2. ASSUME NEW p \in Pools, RegisterPool(p) PROVE SharedBooks'
  <2>1. \A i \in Pools : /\ pool'[i].total_to_buyback = pool[i].total_to_buyback
                         /\ pool'[i].total_to_protocol = pool[i].total_to_protocol
    BY <1>0, <1>2 DEF RegisterPool, BlankUntilRegistered, Unregistered
  <2>2. UNCHANGED <<buybackVault, treasury, withdrawn>>
    BY <1>2 DEF RegisterPool, vaultVars, history
  <2> QED BY <2>1, <2>2, SharedStay
<1>3. ASSUME NEW a \in Actors, NEW p \in Pools, NEW x \in Positions, RecordMigration(a, p, x)
      PROVE  SharedBooks'
  <2>1. \A i \in Pools : /\ pool'[i].total_to_buyback = pool[i].total_to_buyback
                         /\ pool'[i].total_to_protocol = pool[i].total_to_protocol
    BY <1>0, <1>3 DEF RecordMigration, PoolState
  <2>2. UNCHANGED <<buybackVault, treasury, withdrawn>>
    BY <1>3 DEF RecordMigration, vaultVars, history
  <2> QED BY <2>1, <2>2, SharedStay
<1>4. ASSUME NEW a \in Actors, NEW p \in Pools, ClaimDbc(a, p) PROVE SharedBooks'
  <2>1. curve[p].fees \in Nat /\ 0 \in Nat
    BY DEF TypeOK, SourceType
  <2> QED BY <1>0, <1>4, <2>1, SplitShares DEF ClaimDbc
<1>5. ASSUME NEW a \in Actors, NEW p \in Pools, ClaimDbcSurplus(a, p) PROVE SharedBooks'
  <2>1. curve[p].surplus \in Nat /\ pool[p].last_claim_ts \in Nat /\ 0 \in Nat
    BY <1>0 DEF TypeOK, SourceType, PoolState
  <2> QED BY <1>5, <2>1, SplitShares DEF ClaimDbcSurplus
<1>6. ASSUME NEW a \in Actors, NEW p \in Pools, NEW x \in Positions, ClaimDamm(a, p, x)
      PROVE  SharedBooks'
  <2>1. damm[x].quote \in Nat /\ damm[x].base \in Nat
    BY DEF TypeOK, SourceType
  <2> QED BY <1>0, <1>6, <2>1, SplitShares DEF ClaimDamm
<1>7. ASSUME NEW g \in Programs, NEW amount \in Amounts, NEW p \in Pools,
             WithdrawForEpoch(g, p, amount)
      PROVE  SharedBooks'
  <2>1. /\ withdrawn'.buyback = withdrawn.buyback /\ withdrawn'.treasury = withdrawn.treasury
    BY <1>0, <1>7 DEF WithdrawForEpoch
  <2> QED BY <1>7, <2>1, SharedStay DEF WithdrawForEpoch
<1>8. ASSUME NEW g \in Programs, NEW amount \in Amounts, NEW c \in Coins,
             WithdrawForBuyback(g, c, amount)
      PROVE  SharedBooks'
  <2>1. /\ UNCHANGED <<pool, treasury>>
        /\ buybackVault' = [buybackVault EXCEPT ![c] = @ - amount]
        /\ withdrawn' = [withdrawn EXCEPT !.buyback[c] = @ + amount]
    BY <1>8 DEF WithdrawForBuyback
  <2>2. /\ withdrawn'.treasury = withdrawn.treasury
        /\ \A i \in Coins : buybackVault'[i] + withdrawn'.buyback[i]
                              = buybackVault[i] + withdrawn.buyback[i]
    BY <1>0, <2>1
  <2>3. ToBuyback' = ToBuyback /\ ToProtocol' = ToProtocol
    BY <2>1 DEF ToBuyback, ToProtocol
  <2> QED BY <2>1, <2>2, <2>3 DEF SharedBooks, PoolsOf
<1>9. ASSUME NEW a \in Actors, NEW m \in Mints, NEW amount \in Amounts,
             WithdrawTreasury(a, m, amount)
      PROVE  SharedBooks'
  <2>1. /\ UNCHANGED <<pool, buybackVault>>
        /\ treasury' = [treasury EXCEPT ![m] = @ - amount]
        /\ withdrawn' = [withdrawn EXCEPT !.treasury[m] = @ + amount]
    BY <1>9 DEF WithdrawTreasury
  <2>2. /\ withdrawn'.buyback = withdrawn.buyback
        /\ \A i \in Coins : treasury'[i] + withdrawn'.treasury[i]
                              = treasury[i] + withdrawn.treasury[i]
    BY <1>0, <2>1
  <2>3. ToBuyback' = ToBuyback /\ ToProtocol' = ToProtocol
    BY <2>1 DEF ToBuyback, ToProtocol
  <2> QED BY <2>1, <2>2, <2>3 DEF SharedBooks, PoolsOf
<1> QED
  BY <1>1, <1>2, <1>3, <1>4, <1>5, <1>6, <1>7, <1>8, <1>9
  DEF Next, SetSplit, SetKeepers, Pause, SetPrograms, CurveTrade, GiveHolders, Graduate,
      GiftPosition, DammTrade, GiveRouter, Tick, vars, vaultVars, history

-----------------------------------------------------------------------------
LEMMA InitInv == Init => IInv
<1> SUFFICES ASSUME Init PROVE IInv
  OBVIOUS
<1>1. TypeOK
  BY InitTypeOK
<1>2. /\ pool = [p \in Pools |-> Unregistered] /\ splitsSeen = {split} /\ now = StartTime
      /\ taken = [p \in Pools |-> 0] /\ claims = [p \in Pools |-> 0]
      /\ holderVault = [p \in Pools |-> 0] /\ outsider = [p \in Pools |-> 0]
      /\ withdrawn.epoch = [p \in Pools |-> 0] /\ given.holder = [p \in Pools |-> 0]
      /\ recv = given.recv /\ StartTime \in Nat
  BY FeeRouterAssumption DEF Init
<1>3. \A p \in Pools : /\ pool[p].total_claimed = 0 /\ pool[p].total_to_holders = 0
                       /\ pool[p].total_to_buyback = 0 /\ pool[p].total_to_protocol = 0
                       /\ pool[p].last_claim_ts = 0
  BY <1>2 DEF Unregistered
<1>4. HoldersGetOwnFees
  BY <1>2, <1>3 DEF HoldersGetOwnFees
<1>5. SplitKeepsShares
  <2>1. split.holders \in Nat /\ BPS_DENOM \in Nat
    BY <1>1, FeeRouterAssumption DEF TypeOK, ConfigType
  <2>2. split.holders * 0 = 0 /\ BPS_DENOM * 0 = 0 /\ (BPS_DENOM - 1) * 0 = 0
    BY <2>1
  <2> QED BY <1>2, <1>3, <2>1, <2>2 DEF SplitKeepsShares
<1>6. BlankUntilRegistered /\ SplitSeen /\ ClocksOrdered
  BY <1>2, <1>3 DEF BlankUntilRegistered, SplitSeen, ClocksOrdered
<1> QED BY <1>1, <1>4, <1>5, <1>6 DEF IInv

LEMMA NextInv == IInv /\ [Next]_vars => IInv'
  BY NextTypeOK, NextHoldersGetOwnFees, NextBlank, NextClocksOrdered, NextSplitKeepsShares DEF IInv

LEMMA SpecInv == Spec => []IInv
  BY InitInv, NextInv, PTL DEF Spec

\* The accounts of the router keep their layout and the split keeps adding up,
\* whatever the admin sets.
THEOREM FeeRouterTypeCorrect == Spec => []TypeOK
<1>1. IInv => TypeOK
  BY DEF IInv
<1> QED BY <1>1, SpecInv, PTL

\* claim_dbc, claim_dbc_surplus, claim_damm: for any number of pools, coins and
\* positions, every pool books exactly what its own sources paid.
THEOREM PoolsGetOwnFees == Spec => []HoldersGetOwnFees
<1>1. IInv => HoldersGetOwnFees
  BY DEF IInv
<1> QED BY <1>1, SpecInv, PTL

\* split_amounts over any sequence of claims and splits: the holders of a pool
\* lose less than one unit per claim to rounding, and never gain.
THEOREM RoundingBounded == Spec => []SplitKeepsShares
<1>1. IInv => SplitKeepsShares
  BY DEF IInv
<1> QED BY <1>1, SpecInv, PTL

\* check_claim_gate: outsiders' claims from a pool are always more than the
\* interval apart.
THEOREM OutsidersArePaced == Spec => OutsidersPaced
<1>1. IInv /\ [Next]_vars => [PacedStep]_vars
  BY NextPaced DEF IInv
<1> QED BY <1>1, SpecInv, PTL DEF Spec, OutsidersPaced

\* claim_dbc, claim_dbc_surplus, claim_damm, withdraw_for_buyback,
\* withdraw_treasury: for any number of pools of any number of coins, the
\* vaults a coin's pools share hold exactly what those pools booked for them,
\* less what was withdrawn.
THEOREM SharedVaultsAlwaysAddUp == Spec => []SharedVaultsAddUp
<1>1. Init => SharedBooks
  BY InitShared
<1>2. IInv /\ SharedBooks /\ [Next]_vars => SharedBooks'
  BY NextShared DEF IInv
<1>3. IInv /\ SharedBooks => SharedVaultsAddUp
  BY SharedBooksDef DEF IInv
<1> QED BY <1>1, <1>2, <1>3, SpecInv, PTL DEF Spec
=============================================================================
