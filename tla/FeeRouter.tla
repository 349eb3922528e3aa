----------------------------- MODULE FeeRouter -----------------------------
(***************************************************************************)
(* The fee router program (programs/fee_router): one action per            *)
(* instruction.  It owns the fee claims of every registered pool, first at *)
(* the bonding curve (DBC), after graduation through a DAMM v2 position,   *)
(* and splits what a claim brings among the pool's holder vault, the       *)
(* coin's buyback vault and the treasury.  Pools of one coin share all     *)
(* accounts but the holder vault.                                          *)
(*                                                                         *)
(* Meteora is external: its accounts hold fees, pay them out to whoever    *)
(* signs for the router, and check the mints of the accounts they pay to.  *)
(***************************************************************************)
EXTENDS Integers, FiniteSets, Functions

CONSTANTS
  Pools,            \* bonding curve pools; a pool also stands for its memecoin
  Coins,            \* quote mints
  CoinOf,           \* the quote mint of each pool
  Positions,        \* DAMM v2 positions
  BaseOf,           \* the memecoin in the DAMM v2 pool of each position
  QuoteOf,          \* the other mint of that pool
  Actors, Deployer,
  MAX_KEEPERS,
  BPS_DENOM,
  Splits,           \* (holders, buyback, protocol) in bps that may be asked for
  Programs,         \* program ids the admin may configure
  PERMISSIONLESS_CLAIM_INTERVAL,
  MaxU64,
  StartTime,        \* the clock when the router is initialized
  MaxTime           \* bound on the clock, for TLC only

Mints == Coins \cup Pools

ASSUME FeeRouterAssumption ==
  /\ IsFiniteSet(Pools)
  /\ CoinOf \in [Pools -> Coins] /\ Coins \cap Pools = {}
  /\ BaseOf \in [Positions -> Pools] /\ QuoteOf \in [Positions -> Coins]
  /\ Deployer \in Actors /\ MAX_KEEPERS \in Nat
  /\ BPS_DENOM \in Nat \ {0}
  /\ Splits \subseteq [holders : 0..BPS_DENOM, buyback : 0..BPS_DENOM, protocol : 0..BPS_DENOM]
  /\ PERMISSIONLESS_CLAIM_INTERVAL \in Nat /\ MaxU64 \in Nat
  /\ StartTime \in Nat /\ MaxTime \in Nat

VARIABLES
  now,
  admin, keepers, paused, split, distributor, buyback,   \* RouterConfig
  pool,         \* the PoolState accounts
  holderVault, buybackVault, treasury, recv,             \* token accounts
  curve,        \* DBC: fees and surplus of the partner, and is_migrated
  damm,         \* DAMM v2: fees of each position, and whether the router owns it
  withdrawn,    \* history: what the three withdrawals took from each vault
  given,        \* history: coins that others sent to the router's accounts
  taken,        \* history: coins each pool's own fee sources have paid
  claims,       \* history: the claims of each pool that brought coins
  splitsSeen,   \* history: the splits that were in force
  outsider      \* history: when someone who is no keeper last claimed, per pool

configVars == <<admin, keepers, paused, split, distributor, buyback>>
vaultVars == <<holderVault, buybackVault, treasury, recv>>
history == <<withdrawn, given, taken, claims, splitsSeen, outsider>>
vars == <<now, configVars, pool, vaultVars, curve, damm, history>>

NoPosition == "default"

Unregistered ==
  [registered |-> FALSE, migrated |-> FALSE, damm_position |-> NoPosition,
   total_claimed |-> 0, total_to_holders |-> 0, total_to_buyback |-> 0,
   total_to_protocol |-> 0, last_claim_ts |-> 0]

CheckSplit(s) == s.holders + s.buyback + s.protocol = BPS_DENOM

(***************************************************************************)
(* initialize_router                                                       *)
(***************************************************************************)
Init ==
  /\ now = StartTime
  /\ admin = Deployer /\ keepers = {} /\ paused = FALSE
  /\ split \in {s \in Splits : CheckSplit(s)}
  /\ distributor \in Programs /\ buyback \in Programs
  /\ pool = [p \in Pools |-> Unregistered]
  /\ holderVault = [p \in Pools |-> 0]
  /\ buybackVault = [c \in Coins |-> 0]
  /\ treasury = [m \in Mints |-> 0]
  /\ recv = [c \in Coins |-> 0]
  /\ curve = [p \in Pools |-> [fees |-> 0, surplus |-> 0, migrated |-> FALSE]]
  /\ damm = [x \in Positions |-> [quote |-> 0, base |-> 0, owned |-> FALSE]]
  /\ withdrawn = [epoch |-> [p \in Pools |-> 0], buyback |-> [c \in Coins |-> 0],
                  treasury |-> [m \in Mints |-> 0]]
  /\ given = [holder |-> [p \in Pools |-> 0], recv |-> [c \in Coins |-> 0]]
  /\ taken = [p \in Pools |-> 0]
  /\ claims = [p \in Pools |-> 0]
  /\ splitsSeen = {split}
  /\ outsider = [p \in Pools |-> 0]

(***************************************************************************)
(* Admin                                                                   *)
(***************************************************************************)
IsAdminOrKeeper(k) == k = admin \/ k \in keepers

\* Faulty variant: the shares are not checked to add up.
SetSplit_unchecked(a, s) ==
  /\ a = admin
  /\ split' = s
  /\ splitsSeen' = splitsSeen \cup {s}
  /\ UNCHANGED <<now, admin, keepers, paused, distributor, buyback, pool, vaultVars,
                 curve, damm, withdrawn, given, taken, claims, outsider>>

SetSplit(a, s) ==
  /\ a = admin
  /\ CheckSplit(s)
  /\ split' = s
  /\ splitsSeen' = splitsSeen \cup {s}
  /\ UNCHANGED <<now, admin, keepers, paused, distributor, buyback, pool, vaultVars,
                 curve, damm, withdrawn, given, taken, claims, outsider>>

SetKeepers(a, ks) ==
  /\ a = admin
  /\ Cardinality(ks) <= MAX_KEEPERS
  /\ keepers' = ks
  /\ UNCHANGED <<now, admin, paused, split, distributor, buyback, pool, vaultVars,
                 curve, damm, history>>

Pause(a, b) ==
  /\ a = admin
  /\ paused' = b
  /\ UNCHANGED <<now, admin, keepers, split, distributor, buyback, pool, vaultVars,
                 curve, damm, history>>

\* A default new_admin leaves the admin as it is.
SetPrograms(a, dist, bb, newAdmin) ==
  /\ a = admin
  /\ distributor' = dist /\ buyback' = bb
  /\ admin' = newAdmin
  /\ UNCHANGED <<now, keepers, paused, split, pool, vaultVars, curve, damm, history>>

(***************************************************************************)
(* register_pool, register_pool_admin, record_migration                    *)
(***************************************************************************)

\* The bytes of DBC and peg_desk accounts that register_pool reads are right
\* for every element of Pools; register_pool_admin does the same without them.
RegisterPool(p) ==
  /\ ~paused
  /\ ~pool[p].registered                    \* Anchor's init on PoolState
  /\ pool' = [pool EXCEPT ![p] = [Unregistered EXCEPT !.registered = TRUE]]
  /\ UNCHANGED <<now, configVars, vaultVars, curve, damm, history>>

\* Neither the mints of the position's pool nor an earlier record matter.  The
\* admin may force a record before the curve has graduated.
RecordMigration(a, p, x) ==
  /\ IsAdminOrKeeper(a)
  /\ pool[p].registered
  /\ a = admin \/ curve[p].migrated
  /\ damm[x].owned                          \* the position NFT is the router's
  /\ pool' = [pool EXCEPT ![p].migrated = TRUE, ![p].damm_position = x]
  /\ UNCHANGED <<now, configVars, vaultVars, curve, damm, history>>

(***************************************************************************)
(* Claims                                                                  *)
(***************************************************************************)
CheckClaimGate(caller, p) ==
  IsAdminOrKeeper(caller) \/ now - pool[p].last_claim_ts > PERMISSIONLESS_CLAIM_INTERVAL

\* Faulty variant: the amount is divided before it is multiplied.
SplitAmounts_dividesFirst(amount) ==
  LET h == (amount \div BPS_DENOM) * split.holders
      b == (amount \div BPS_DENOM) * split.buyback
  IN [holders |-> h, buyback |-> b, protocol |-> amount - h - b]

\* Holders and buyback are rounded down; the rest is the protocol's.
SplitAmounts(amount) ==
  LET h == (amount * split.holders) \div BPS_DENOM
      b == (amount * split.buyback) \div BPS_DENOM
  IN [holders |-> h, buyback |-> b, protocol |-> amount - h - b]

\* Faulty variant: everything in the receiving account is split.
Delta_all(before, after) == after

\* What a claim brought, by the balance of the receiving account.
Delta(before, after) == IF after >= before THEN after - before ELSE 0

\* Faulty variant: the buyback share is booked for the holders.
SplitToVaults_books(p, received, base, ts) ==
  LET c == CoinOf[p]
      amount == Delta(recv[c], recv[c] + received)
      s == SplitAmounts(amount)
  IN /\ pool[p].total_claimed + amount <= MaxU64
     /\ holderVault' = [holderVault EXCEPT ![p] = @ + s.holders]
     /\ buybackVault' = [buybackVault EXCEPT ![c] = @ + s.buyback]
     /\ treasury' = [treasury EXCEPT ![c] = @ + s.protocol, ![p] = @ + base]
     /\ recv' = [recv EXCEPT ![c] = @ + received - amount]
     /\ pool' = [pool EXCEPT ![p].total_claimed = @ + amount,
                             ![p].total_to_holders = @ + s.holders + s.buyback,
                             ![p].total_to_protocol = @ + s.protocol,
                             ![p].last_claim_ts = ts]
     /\ claims' = [claims EXCEPT ![p] = @ + (IF amount > 0 THEN 1 ELSE 0)]

\* What the receiving account got is moved on, and booked by the pool.
SplitToVaults(p, received, base, ts) ==
  LET c == CoinOf[p]
      amount == Delta(recv[c], recv[c] + received)
      s == SplitAmounts(amount)
  IN /\ pool[p].total_claimed + amount <= MaxU64
     /\ holderVault' = [holderVault EXCEPT ![p] = @ + s.holders]
     /\ buybackVault' = [buybackVault EXCEPT ![c] = @ + s.buyback]
     /\ treasury' = [treasury EXCEPT ![c] = @ + s.protocol, ![p] = @ + base]
     /\ recv' = [recv EXCEPT ![c] = @ + received - amount]
     /\ pool' = [pool EXCEPT ![p].total_claimed = @ + amount,
                             ![p].total_to_holders = @ + s.holders,
                             ![p].total_to_buyback = @ + s.buyback,
                             ![p].total_to_protocol = @ + s.protocol,
                             ![p].last_claim_ts = ts]
     /\ claims' = [claims EXCEPT ![p] = @ + (IF amount > 0 THEN 1 ELSE 0)]

Outsider(caller, p) ==
  outsider' = IF IsAdminOrKeeper(caller) THEN outsider ELSE [outsider EXCEPT ![p] = now]

ClaimDbc(caller, p) ==
  /\ ~paused
  /\ pool[p].registered
  /\ CheckClaimGate(caller, p)
  /\ SplitToVaults(p, curve[p].fees, 0, now)
  /\ curve' = [curve EXCEPT ![p].fees = 0]
  /\ taken' = [taken EXCEPT ![p] = @ + curve[p].fees]
  /\ Outsider(caller, p)
  /\ UNCHANGED <<now, configVars, damm, withdrawn, given, splitsSeen>>

\* The surplus is paid once, after graduation; the claim clock stays.
ClaimDbcSurplus(k, p) ==
  /\ ~paused
  /\ pool[p].registered
  /\ IsAdminOrKeeper(k)
  /\ curve[p].migrated /\ curve[p].surplus > 0
  /\ SplitToVaults(p, curve[p].surplus, 0, pool[p].last_claim_ts)
  /\ curve' = [curve EXCEPT ![p].surplus = 0]
  /\ taken' = [taken EXCEPT ![p] = @ + curve[p].surplus]
  /\ UNCHANGED <<now, configVars, damm, withdrawn, given, splitsSeen, outsider>>

\* Faulty variant: the claim clock of the pool is not set.
ClaimDamm_noClock(caller, p, x) ==
  /\ ~paused /\ pool[p].registered /\ pool[p].migrated /\ pool[p].damm_position = x
  /\ CheckClaimGate(caller, p)
  /\ BaseOf[x] = p /\ QuoteOf[x] = CoinOf[p]
  /\ SplitToVaults(p, damm[x].quote, damm[x].base, pool[p].last_claim_ts)
  /\ damm' = [damm EXCEPT ![x].quote = 0, ![x].base = 0]
  /\ taken' = [taken EXCEPT ![p] = @ + damm[x].quote]
  /\ Outsider(caller, p)
  /\ UNCHANGED <<now, configVars, curve, withdrawn, given, splitsSeen>>

\* The position is the one on record.  DAMM v2 pays only into accounts of its
\* pool's mints, which the router's accounts are when the record is right.
ClaimDamm(caller, p, x) ==
  /\ ~paused
  /\ pool[p].registered /\ pool[p].migrated
  /\ pool[p].damm_position = x
  /\ CheckClaimGate(caller, p)
  /\ BaseOf[x] = p /\ QuoteOf[x] = CoinOf[p]
  /\ SplitToVaults(p, damm[x].quote, damm[x].base, now)
  /\ damm' = [damm EXCEPT ![x].quote = 0, ![x].base = 0]
  /\ taken' = [taken EXCEPT ![p] = @ + damm[x].quote]
  /\ Outsider(caller, p)
  /\ UNCHANGED <<now, configVars, curve, withdrawn, given, splitsSeen>>

(***************************************************************************)
(* Withdrawals.  The signer is the PDA of the program that is configured.  *)
(***************************************************************************)
WithdrawForEpoch(program, p, amount) ==
  /\ ~paused /\ amount > 0
  /\ program = distributor
  /\ pool[p].registered
  /\ holderVault[p] >= amount
  /\ holderVault' = [holderVault EXCEPT ![p] = @ - amount]
  /\ withdrawn' = [withdrawn EXCEPT !.epoch[p] = @ + amount]
  /\ UNCHANGED <<now, configVars, pool, buybackVault, treasury, recv, curve, damm,
                 given, taken, claims, splitsSeen, outsider>>

WithdrawForBuyback(program, c, amount) ==
  /\ ~paused /\ amount > 0
  /\ program = buyback
  /\ buybackVault[c] >= amount
  /\ buybackVault' = [buybackVault EXCEPT ![c] = @ - amount]
  /\ withdrawn' = [withdrawn EXCEPT !.buyback[c] = @ + amount]
  /\ UNCHANGED <<now, configVars, pool, holderVault, treasury, recv, curve, damm,
                 given, taken, claims, splitsSeen, outsider>>

\* Of any mint, paused or not.
WithdrawTreasury(a, m, amount) ==
  /\ a = admin
  /\ amount > 0
  /\ treasury[m] >= amount
  /\ treasury' = [treasury EXCEPT ![m] = @ - amount]
  /\ withdrawn' = [withdrawn EXCEPT !.treasury[m] = @ + amount]
  /\ UNCHANGED <<now, configVars, pool, holderVault, buybackVault, recv, curve, damm,
                 given, taken, claims, splitsSeen, outsider>>

(***************************************************************************)
(* Meteora and everyone else                                               *)
(***************************************************************************)
CurveTrade(p, fee) ==
  /\ ~curve[p].migrated /\ fee > 0
  /\ curve' = [curve EXCEPT ![p].fees = @ + fee]
  /\ UNCHANGED <<now, configVars, pool, vaultVars, damm, history>>

\* Anyone may run the migration of a full curve.  It mints the NFT of the
\* partner's position x to the router.
Graduate(p, x, surplus) ==
  /\ ~curve[p].migrated
  /\ BaseOf[x] = p /\ QuoteOf[x] = CoinOf[p] /\ ~damm[x].owned
  /\ curve' = [curve EXCEPT ![p].migrated = TRUE, ![p].surplus = surplus]
  /\ damm' = [damm EXCEPT ![x].owned = TRUE]
  /\ UNCHANGED <<now, configVars, pool, vaultVars, history>>

\* Anyone may send the router the NFT of any position.
GiftPosition(x) ==
  /\ ~damm[x].owned
  /\ damm' = [damm EXCEPT ![x].owned = TRUE]
  /\ UNCHANGED <<now, configVars, pool, vaultVars, curve, history>>

DammTrade(x, quote, base) ==
  /\ damm[x].owned /\ quote + base > 0
  /\ damm' = [damm EXCEPT ![x].quote = @ + quote, ![x].base = @ + base]
  /\ UNCHANGED <<now, configVars, pool, vaultVars, curve, history>>

GiveHolders(p, amount) ==
  /\ pool[p].registered /\ amount > 0
  /\ holderVault' = [holderVault EXCEPT ![p] = @ + amount]
  /\ given' = [given EXCEPT !.holder[p] = @ + amount]
  /\ UNCHANGED <<now, configVars, pool, buybackVault, treasury, recv, curve, damm,
                 withdrawn, taken, claims, splitsSeen, outsider>>

GiveRouter(c, amount) ==
  /\ amount > 0
  /\ recv' = [recv EXCEPT ![c] = @ + amount]
  /\ given' = [given EXCEPT !.recv[c] = @ + amount]
  /\ UNCHANGED <<now, configVars, pool, holderVault, buybackVault, treasury, curve, damm,
                 withdrawn, taken, claims, splitsSeen, outsider>>

Tick ==
  /\ now < MaxTime
  /\ now' = now + 1
  /\ UNCHANGED <<configVars, pool, vaultVars, curve, damm, history>>

Amounts == 0..MaxU64

Next ==
  \/ \E a \in Actors, s \in Splits : SetSplit(a, s)
  \/ \E a \in Actors, ks \in SUBSET Actors : SetKeepers(a, ks)
  \/ \E a \in Actors, b \in BOOLEAN : Pause(a, b)
  \/ \E a, b \in Actors, dist, bb \in Programs : SetPrograms(a, dist, bb, b)
  \/ \E p \in Pools : RegisterPool(p)
  \/ \E a \in Actors, p \in Pools, x \in Positions : RecordMigration(a, p, x)
  \/ \E a \in Actors, p \in Pools : ClaimDbc(a, p) \/ ClaimDbcSurplus(a, p)
  \/ \E a \in Actors, p \in Pools, x \in Positions : ClaimDamm(a, p, x)
  \/ \E g \in Programs, amount \in Amounts :
       \/ \E p \in Pools : WithdrawForEpoch(g, p, amount)
       \/ \E c \in Coins : WithdrawForBuyback(g, c, amount)
  \/ \E a \in Actors, m \in Mints, amount \in Amounts : WithdrawTreasury(a, m, amount)
  \/ \E p \in Pools, amount \in Amounts : CurveTrade(p, amount) \/ GiveHolders(p, amount)
  \/ \E p \in Pools, x \in Positions, surplus \in Amounts : Graduate(p, x, surplus)
  \/ \E x \in Positions : GiftPosition(x)
  \/ \E x \in Positions, quote, base \in Amounts : DammTrade(x, quote, base)
  \/ \E c \in Coins, amount \in Amounts : GiveRouter(c, amount)
  \/ Tick

Spec == Init /\ [][Next]_vars
-----------------------------------------------------------------------------
(***************************************************************************)
(* Properties                                                              *)
(***************************************************************************)
PoolState ==
  [registered : BOOLEAN, migrated : BOOLEAN, damm_position : Positions \cup {NoPosition},
   total_claimed : 0..MaxU64, total_to_holders : Nat, total_to_buyback : Nat,
   total_to_protocol : Nat, last_claim_ts : Nat]

ConfigType ==
  /\ admin \in Actors /\ keepers \in SUBSET Actors /\ paused \in BOOLEAN
  /\ split \in Splits /\ CheckSplit(split)
  /\ distributor \in Programs /\ buyback \in Programs
BooksType ==
  /\ pool \in [Pools -> PoolState]
  /\ holderVault \in [Pools -> Nat] /\ buybackVault \in [Coins -> Nat]
  /\ treasury \in [Mints -> Nat] /\ recv \in [Coins -> Nat]
SourceType ==
  /\ now \in Nat
  /\ curve \in [Pools -> [fees : Nat, surplus : Nat, migrated : BOOLEAN]]
  /\ damm \in [Positions -> [quote : Nat, base : Nat, owned : BOOLEAN]]
HistoryType ==
  /\ withdrawn \in [epoch : [Pools -> Nat], buyback : [Coins -> Nat], treasury : [Mints -> Nat]]
  /\ given \in [holder : [Pools -> Nat], recv : [Coins -> Nat]]
  /\ taken \in [Pools -> Nat] /\ claims \in [Pools -> Nat]
  /\ splitsSeen \in SUBSET Splits /\ outsider \in [Pools -> Nat]

\* The accounts keep their layout, the split always adds up, and no vault or
\* share is ever negative.
TypeOK == ConfigType /\ BooksType /\ SourceType /\ HistoryType

\* programs/README-fee-stack.md:32: "a claim splits only the delta it produced in the
\* shared receiving ATA".  A pool books exactly what its own curve, surplus
\* and positions paid, its three shares add up to that, its holder vault holds
\* the holders' share less what epochs took, and the receiving account keeps
\* what others sent there: whatever position is on record for whatever pool,
\* and however claims of pools of one coin interleave.
HoldersGetOwnFees ==
  /\ \A p \in Pools :
       /\ pool[p].total_claimed = taken[p]
       /\ pool[p].total_claimed =
            pool[p].total_to_holders + pool[p].total_to_buyback + pool[p].total_to_protocol
       /\ holderVault[p] + withdrawn.epoch[p] = pool[p].total_to_holders + given.holder[p]
  /\ recv = given.recv

\* The vaults that the pools of a coin share hold what those pools booked for
\* them, less what was withdrawn: no pool's claim, and no treasury withdrawal,
\* takes from another vault.
BookedFor(c, share(_)) ==
  SumFunction([p \in {q \in Pools : CoinOf[q] = c} |-> share(pool[p])])
SharedVaultsAddUp ==
  \A c \in Coins :
    /\ buybackVault[c] + withdrawn.buyback[c] = BookedFor(c, LAMBDA s : s.total_to_buyback)
    /\ treasury[c] + withdrawn.treasury[c] = BookedFor(c, LAMBDA s : s.total_to_protocol)

\* Rounding costs the holders of a pool less than one unit per claim, in
\* however many small claims the fees were collected and however the split was
\* changed in between: their total lies between their lowest share less that
\* dust, and their highest share.
SplitKeepsShares ==
  \A p \in Pools :
    /\ \E s \in splitsSeen :
         BPS_DENOM * pool[p].total_to_holders + (BPS_DENOM - 1) * claims[p]
           >= s.holders * pool[p].total_claimed
    /\ \E s \in splitsSeen :
         BPS_DENOM * pool[p].total_to_holders <= s.holders * pool[p].total_claimed

\* Someone who is neither admin nor keeper cannot claim from a pool twice
\* within the interval, by whichever of the two claims and whatever pools in
\* between.
PacedStep ==
  \A p \in Pools :
    outsider'[p] # outsider[p] /\ outsider[p] # 0 =>
      outsider'[p] - outsider[p] > PERMISSIONLESS_CLAIM_INTERVAL
OutsidersPaced == [][PacedStep]_vars
=============================================================================
