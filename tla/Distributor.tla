---------------------------- MODULE Distributor ----------------------------
(***************************************************************************)
(* The distributor program (programs/distributor): one action per          *)
(* instruction.  Per pool and epoch, a keeper opens an epoch, funding the  *)
(* epoch's own vault from the fee router's holder vault of that pool (or   *)
(* directly), pushes payouts out of it, posts a Merkle root for the rest,  *)
(* wallets claim against the root, and 180 days after the epoch's end the  *)
(* admin sweeps what is left to the treasury.                              *)
(*                                                                         *)
(* An element of Epochs stands for one Epoch PDA, i.e. a (pool, index)     *)
(* pair.  A Merkle root stands for the set of <<wallet, amount>> leaves    *)
(* below it: with a collision-free hash a proof of a leaf verifies exactly *)
(* when the leaf is in that set, and the all-zero root of a fresh epoch    *)
(* has none.                                                               *)
(***************************************************************************)
EXTENDS Integers, FiniteSets, Functions

CONSTANTS
  Pools,            \* DBC pools registered with the fee router
  Epochs,           \* Epoch PDAs
  PoolOf,           \* the pool of each Epoch PDA
  Wallets,          \* holders
  Actors,           \* signers that may be admin or keeper
  Deployer,         \* the upgrade authority, first admin
  Routers,          \* fee_router program ids that set_params may choose
  MaxU64,           \* largest u64
  Supply,           \* tokens of the coin that exist
  SWEEP_DELAY_SECS, \* claim window after end_ts
  MAX_EPOCH_AGE_SECS,
  BPS_DENOM,
  MAX_KEEPERS,
  MAX_PUSH_ITEMS,
  PushBps,          \* values of max_push_per_epoch_bps that may be set
  Roots,            \* Merkle roots a keeper may post
  MaxTime           \* bound on the clock, for TLC only

U64 == 0..MaxU64

ASSUME DistributorAssumption ==
  /\ IsFiniteSet(Wallets)
  /\ PoolOf \in [Epochs -> Pools]
  /\ Deployer \in Actors
  /\ MaxU64 \in Nat
  /\ Supply \in U64
  /\ SWEEP_DELAY_SECS \in Nat
  /\ MAX_EPOCH_AGE_SECS \in Nat
  /\ BPS_DENOM \in Nat \ {0}
  /\ PushBps \subseteq 0..BPS_DENOM
  /\ Roots \subseteq SUBSET (Wallets \X U64)
  /\ MaxTime \in Nat

VARIABLES
  now,          \* the validator clock
  admin, keepers, feeRouter, maxPushBps, paused,   \* DistConfig
  epoch,        \* the Epoch accounts
  vault,        \* epoch_vault[e].amount
  claimed,      \* Claimed[e][w].amount, 0 when the PDA does not exist
  holderVault,  \* fee_router holder_vault, per router and pool
  routerPaused, \* RouterConfig.paused of each router
  treasury,     \* fee_router treasury[coin], per router
  outside,      \* coins held by everyone else
  paid,         \* coins each wallet has received from each epoch vault
  swept         \* history: the epochs that were swept

configVars == <<admin, keepers, feeRouter, maxPushBps, paused>>
routerVars == <<holderVault, routerPaused>>
vars == <<now, admin, keepers, feeRouter, maxPushBps, paused, epoch, vault,
          claimed, holderVault, routerPaused, treasury, outside, paid, swept>>

(***************************************************************************)
(* Account layout and helpers                                              *)
(***************************************************************************)
NoEpoch == [exists |-> FALSE, start_ts |-> 0, end_ts |-> 0, total_amount |-> 0,
            pushed_amount |-> 0, merkle_root |-> {}, merkle_total |-> 0,
            claimed_amount |-> 0, finalized |-> FALSE]

EpochAccount ==
  [exists : BOOLEAN, start_ts : Nat, end_ts : Nat, total_amount : U64,
   pushed_amount : U64, merkle_root : SUBSET (Wallets \X U64),
   merkle_total : U64, claimed_amount : U64, finalized : BOOLEAN]

IsAdminOrKeeper(k) == k = admin \/ k \in keepers

\* A proof for (epoch, wallet, amount) exists and verifies.
Verify(e, w, amount) == <<w, amount>> \in epoch[e].merkle_root

Remainder(e) == epoch[e].total_amount - epoch[e].pushed_amount

\* u64 arithmetic truncates the cap towards zero.
PushCap(e) == (epoch[e].total_amount * maxPushBps) \div BPS_DENOM

ClaimDeadline(e) == epoch[e].end_ts + SWEEP_DELAY_SECS

(***************************************************************************)
(* initialize, by the upgrade authority                                    *)
(***************************************************************************)
Init ==
  /\ now = 0
  /\ admin = Deployer
  /\ keepers = {}
  /\ feeRouter \in Routers
  /\ maxPushBps \in PushBps
  /\ paused = FALSE
  /\ epoch = [e \in Epochs |-> NoEpoch]
  /\ vault = [e \in Epochs |-> 0]
  /\ claimed = [e \in Epochs |-> [w \in Wallets |-> 0]]
  /\ holderVault = [r \in Routers |-> [p \in Pools |-> 0]]
  /\ routerPaused = [r \in Routers |-> FALSE]
  /\ treasury = [r \in Routers |-> 0]
  /\ outside = Supply
  /\ paid = [e \in Epochs |-> [w \in Wallets |-> 0]]
  /\ swept = {}

(***************************************************************************)
(* Admin                                                                   *)
(***************************************************************************)
SetKeepers(a, ks) ==
  /\ a = admin
  /\ Cardinality(ks) <= MAX_KEEPERS
  /\ keepers' = ks
  /\ UNCHANGED <<now, admin, feeRouter, maxPushBps, paused, epoch, vault,
                 claimed, routerVars, treasury, outside, paid, swept>>

\* Every argument is optional in the code; leaving a field out is setting it
\* to the value it has.
SetParams(a, router, bps, pause, newAdmin) ==
  /\ a = admin
  /\ bps <= BPS_DENOM
  /\ feeRouter' = router
  /\ maxPushBps' = bps
  /\ paused' = pause
  /\ admin' = newAdmin
  /\ UNCHANGED <<now, keepers, epoch, vault, claimed, routerVars, treasury,
                 outside, paid, swept>>

(***************************************************************************)
(* open_epoch                                                              *)
(***************************************************************************)
CanOpen(k, e, start, end, total) ==
  /\ ~paused
  /\ IsAdminOrKeeper(k)
  /\ ~epoch[e].exists                     \* Anchor's init on the Epoch PDA
  /\ end > start
  /\ end <= now
  /\ end >= now - MAX_EPOCH_AGE_SECS
  /\ total > 0

\* The account the handler writes once the vault received exactly total.
Opened(start, end, total) ==
  [NoEpoch EXCEPT !.exists = TRUE, !.start_ts = start, !.end_ts = end,
                  !.total_amount = total]

\* fee_router withdraw_for_epoch, called by CPI with the dist_auth signer.
WithdrawForEpoch(e, amount) ==
  /\ ~routerPaused[feeRouter]
  /\ amount > 0
  /\ holderVault[feeRouter][PoolOf[e]] >= amount
  /\ holderVault' = [holderVault EXCEPT ![feeRouter][PoolOf[e]] = @ - amount]
  /\ vault' = [vault EXCEPT ![e] = @ + amount]

OpenEpochRouter(k, e, start, end, total) ==
  /\ CanOpen(k, e, start, end, total)
  /\ WithdrawForEpoch(e, total)
  /\ epoch' = [epoch EXCEPT ![e] = Opened(start, end, total)]
  /\ UNCHANGED <<now, configVars, claimed, routerPaused, treasury, outside,
                 paid, swept>>

\* Direct mode: the signer's own coins, by a plain transfer.
OpenEpochDirect(k, e, start, end, total) ==
  /\ CanOpen(k, e, start, end, total)
  /\ outside >= total
  /\ outside' = outside - total
  /\ vault' = [vault EXCEPT ![e] = @ + total]
  /\ epoch' = [epoch EXCEPT ![e] = Opened(start, end, total)]
  /\ UNCHANGED <<now, configVars, claimed, routerVars, treasury, paid, swept>>

(***************************************************************************)
(* push_payouts.  items[w] is what the batch sends to w in all, 0 when w   *)
(* is not in it; a list that names a wallet twice is the same transfer.    *)
(***************************************************************************)
\* Faulty variant: pushed_amount is set to the batch's sum, not added to.
PushPayouts_overwrites(k, e, items) ==
  /\ ~paused /\ IsAdminOrKeeper(k)
  /\ epoch[e].exists /\ ~epoch[e].finalized
  /\ \E sum \in U64 :
       /\ sum = SumFunction(items)
       /\ sum <= Remainder(e)
       /\ sum <= vault[e]
       /\ vault' = [vault EXCEPT ![e] = @ - sum]
       /\ epoch' = [epoch EXCEPT ![e].pushed_amount = sum]
  /\ paid' = [paid EXCEPT ![e] = [w \in Wallets |-> @[w] + items[w]]]
  /\ UNCHANGED <<now, configVars, claimed, routerVars, treasury, outside, swept>>

PushPayouts(k, e, items) ==
  /\ ~paused
  /\ IsAdminOrKeeper(k)
  /\ Cardinality({w \in Wallets : items[w] > 0}) <= MAX_PUSH_ITEMS
  /\ epoch[e].exists
  /\ ~epoch[e].finalized
  /\ \E sum \in U64 :                          \* checked_add over the items
       /\ sum = SumFunction(items)
       /\ sum <= Remainder(e)
       /\ epoch[e].pushed_amount + sum <= PushCap(e)
       /\ sum <= vault[e]                      \* the token program's check
       /\ vault' = [vault EXCEPT ![e] = @ - sum]
       /\ epoch' = [epoch EXCEPT ![e].pushed_amount = @ + sum]
  /\ paid' = [paid EXCEPT ![e] = [w \in Wallets |-> @[w] + items[w]]]
  /\ UNCHANGED <<now, configVars, claimed, routerVars, treasury, outside, swept>>

(***************************************************************************)
(* finalize_epoch.  The program checks neither that merkle_total is the    *)
(* sum of the leaves nor that a wallet has one leaf.                       *)
(***************************************************************************)
\* Faulty variant: the root may allocate what was pushed already.
FinalizeEpoch_ignoresPushes(k, e, root, total) ==
  /\ ~paused /\ IsAdminOrKeeper(k)
  /\ epoch[e].exists /\ ~epoch[e].finalized
  /\ total <= epoch[e].total_amount
  /\ epoch' = [epoch EXCEPT ![e].merkle_root = root, ![e].merkle_total = total,
                            ![e].finalized = TRUE]
  /\ UNCHANGED <<now, configVars, vault, claimed, routerVars, treasury, outside,
                 paid, swept>>

FinalizeEpoch(k, e, root, total) ==
  /\ ~paused
  /\ IsAdminOrKeeper(k)
  /\ epoch[e].exists
  /\ ~epoch[e].finalized
  /\ total <= Remainder(e)
  /\ epoch' = [epoch EXCEPT ![e].merkle_root = root,
                            ![e].merkle_total = total,
                            ![e].finalized = TRUE]
  /\ UNCHANGED <<now, configVars, vault, claimed, routerVars, treasury, outside,
                 paid, swept>>

(***************************************************************************)
(* claim, by the wallet itself                                             *)
(***************************************************************************)
\* What every claim checks but the receipt.
Claimable(w, e, amount) ==
  /\ ~paused /\ amount > 0
  /\ epoch[e].exists /\ epoch[e].finalized
  /\ now <= ClaimDeadline(e)
  /\ Verify(e, w, amount)
  /\ epoch[e].claimed_amount + amount <= epoch[e].merkle_total
  /\ amount <= vault[e]                        \* the token program's check

\* Faulty variant: the epoch's books are not written.
Claim_offBooks(w, e, amount) ==
  /\ Claimable(w, e, amount) /\ claimed[e][w] = 0
  /\ vault' = [vault EXCEPT ![e] = @ - amount]
  /\ paid' = [paid EXCEPT ![e][w] = @ + amount]
  /\ claimed' = [claimed EXCEPT ![e][w] = amount]
  /\ UNCHANGED <<now, configVars, epoch, routerVars, treasury, outside, swept>>

Claim(w, e, amount) ==
  /\ Claimable(w, e, amount)
  /\ claimed[e][w] = 0                         \* Anchor's init on Claimed
  /\ vault' = [vault EXCEPT ![e] = @ - amount]
  /\ paid' = [paid EXCEPT ![e][w] = @ + amount]
  /\ epoch' = [epoch EXCEPT ![e].claimed_amount = @ + amount]
  /\ claimed' = [claimed EXCEPT ![e][w] = amount]
  /\ UNCHANGED <<now, configVars, routerVars, treasury, outside, swept>>

(***************************************************************************)
(* sweep_unclaimed: neither paused nor finalized is a condition.           *)
(***************************************************************************)
\* Faulty variants: a sweep opens with the last second of the claims; takes
\* what the books say is left, forgetting the pushes; leaves the epoch open to
\* pushes.
SweepOf(a, e, amount, left, wait, close) ==
  /\ a = admin /\ epoch[e].exists
  /\ now >= epoch[e].end_ts + wait
  /\ treasury' = [treasury EXCEPT ![feeRouter] = @ + amount]
  /\ vault' = [vault EXCEPT ![e] = left]
  /\ epoch' = [epoch EXCEPT ![e].finalized = @ \/ close]
  /\ swept' = swept \cup {e}
  /\ UNCHANGED <<now, configVars, claimed, routerVars, outside, paid>>
SweepUnclaimed_early(a, e) == SweepOf(a, e, vault[e], 0, SWEEP_DELAY_SECS, TRUE)
SweepUnclaimed_forgetsPushed(a, e) ==
  LET owed == epoch[e].total_amount - epoch[e].claimed_amount
  IN SweepOf(a, e, owed, vault[e] - owed, SWEEP_DELAY_SECS + 1, TRUE)
SweepUnclaimed_leavesOpen(a, e) == SweepOf(a, e, vault[e], 0, SWEEP_DELAY_SECS + 1, FALSE)

SweepUnclaimed(a, e) ==
  /\ a = admin
  /\ epoch[e].exists
  /\ now > ClaimDeadline(e)
  /\ treasury' = [treasury EXCEPT ![feeRouter] = @ + vault[e]]
  /\ vault' = [vault EXCEPT ![e] = 0]
  /\ epoch' = [epoch EXCEPT ![e].finalized = TRUE]
  /\ swept' = swept \cup {e}
  /\ UNCHANGED <<now, configVars, claimed, routerVars, outside, paid>>

(***************************************************************************)
(* The surroundings: the clock, the router's fee split and pause switch,   *)
(* and anyone sending coins to an epoch's token account, which may happen  *)
(* before the epoch exists.                                                *)
(***************************************************************************)
Tick ==
  /\ now < MaxTime
  /\ now' = now + 1
  /\ UNCHANGED <<configVars, epoch, vault, claimed, routerVars, treasury, outside,
                 paid, swept>>

AccrueFees(r, p, amount) ==
  /\ amount > 0
  /\ outside >= amount
  /\ outside' = outside - amount
  /\ holderVault' = [holderVault EXCEPT ![r][p] = @ + amount]
  /\ UNCHANGED <<now, configVars, epoch, vault, claimed, routerPaused, treasury,
                 paid, swept>>

SetRouterPaused(r, b) ==
  /\ routerPaused' = [routerPaused EXCEPT ![r] = b]
  /\ UNCHANGED <<now, configVars, epoch, vault, claimed, holderVault, treasury,
                 outside, paid, swept>>

Donate(e, amount) ==
  /\ amount > 0
  /\ outside >= amount
  /\ outside' = outside - amount
  /\ vault' = [vault EXCEPT ![e] = @ + amount]
  /\ UNCHANGED <<now, configVars, epoch, claimed, routerVars, treasury, paid, swept>>

Next ==
  \/ \E a \in Actors, ks \in SUBSET Actors : SetKeepers(a, ks)
  \/ \E a, b \in Actors, r \in Routers, bps \in PushBps, p \in BOOLEAN :
       SetParams(a, r, bps, p, b)
  \/ \E k \in Actors, e \in Epochs, start, end \in 0..now, total \in U64 :
       \/ OpenEpochRouter(k, e, start, end, total)
       \/ OpenEpochDirect(k, e, start, end, total)
  \/ \E k \in Actors, e \in Epochs, items \in [Wallets -> U64] : PushPayouts(k, e, items)
  \/ \E k \in Actors, e \in Epochs, root \in Roots, total \in U64 :
       FinalizeEpoch(k, e, root, total)
  \/ \E w \in Wallets, e \in Epochs, amount \in U64 : Claim(w, e, amount)
  \/ \E a \in Actors, e \in Epochs : SweepUnclaimed(a, e)
  \/ \E r \in Routers, p \in Pools, amount \in U64 : AccrueFees(r, p, amount)
  \/ \E r \in Routers, b \in BOOLEAN : SetRouterPaused(r, b)
  \/ \E e \in Epochs, amount \in U64 : Donate(e, amount)
  \/ Tick

Spec == Init /\ [][Next]_vars
-----------------------------------------------------------------------------
(***************************************************************************)
(* Properties                                                              *)
(***************************************************************************)

\* The accounts keep their layout, and no token balance goes below zero or
\* beyond what exists: what the handlers subtract and add always fits.
TypeOK ==
  /\ now \in Nat
  /\ admin \in Actors /\ keepers \in SUBSET Actors
  /\ feeRouter \in Routers /\ maxPushBps \in PushBps /\ paused \in BOOLEAN
  /\ epoch \in [Epochs -> EpochAccount]
  /\ vault \in [Epochs -> Nat]
  /\ claimed \in [Epochs -> [Wallets -> U64]]
  /\ holderVault \in [Routers -> [Pools -> Nat]]
  /\ routerPaused \in [Routers -> BOOLEAN]
  /\ treasury \in [Routers -> Nat]
  /\ outside \in Nat
  /\ paid \in [Epochs -> [Wallets -> Nat]]
  /\ swept \in SUBSET Epochs

\* An opened epoch that was not swept holds at least what its books say it
\* still owes, whatever was donated to it and whatever keepers posted: push
\* and claim never fail for want of coins, and total - pushed never wraps.
EpochSolvent ==
  \A e \in Epochs : epoch[e].exists /\ e \notin swept =>
    vault[e] >= epoch[e].total_amount - epoch[e].pushed_amount - epoch[e].claimed_amount

\* Pushes and claims together never promise more than the epoch was funded
\* with: what was pushed and what the posted root may still pay fit the total.
\* It takes a push racing a finalize to break it.
NeverOverAllocated ==
  \A e \in Epochs : epoch[e].exists =>
    /\ epoch[e].pushed_amount + epoch[e].merkle_total <= epoch[e].total_amount
    /\ epoch[e].claimed_amount <= epoch[e].merkle_total

\* A root whose leaves fit merkle_total, with one leaf per wallet: what
\* finalize_epoch leaves to the keeper to get right.
HonestRoot(e) ==
  /\ \A x, y \in epoch[e].merkle_root : x[1] = y[1] => x = y
  /\ SumFunction([x \in epoch[e].merkle_root |-> x[2]]) <= epoch[e].merkle_total

\* Until the claim deadline every wallet of an honest root that has not
\* claimed can, in whatever order the others claim: the books have room for
\* its leaf and the vault has the coins.
ClaimsStayPayable ==
  \A e \in Epochs :
    epoch[e].finalized /\ now <= ClaimDeadline(e) /\ HonestRoot(e) =>
      \A leaf \in epoch[e].merkle_root : claimed[e][leaf[1]] = 0 =>
        /\ epoch[e].claimed_amount + leaf[2] <= epoch[e].merkle_total
        /\ leaf[2] <= vault[e]

\* The books of every epoch agree with the coins that left its vault: wallets
\* received exactly what was pushed and claimed, and the claims add up.
BooksMatchPayments ==
  \A e \in Epochs :
    /\ SumFunction([w \in Wallets |-> claimed[e][w]]) = epoch[e].claimed_amount
    /\ SumFunction([w \in Wallets |-> paid[e][w]]) =
         epoch[e].pushed_amount + epoch[e].claimed_amount

\* A wallet that has claimed from an epoch receives nothing from it again,
\* neither by a second claim nor by a late push.
ClaimedOnceStep ==
  \A e \in Epochs, w \in Wallets : claimed[e][w] # 0 => paid'[e][w] = paid[e][w]
ClaimedOnce == [][ClaimedOnceStep]_vars

\* Once an epoch was swept, nobody is paid from it, not even from coins sent
\* to its vault afterwards: claims are closed when the sweep opens, and the
\* sweep closes pushes.
SweptStep == \A e \in swept : paid'[e] = paid[e]
NoPayoutAfterSweep == [][SweptStep]_vars

\* What wallets hold proofs of does not change under them: after finalize (or
\* the sweep) neither the root, its total, nor the pushed amount moves.
SettledStep ==
  \A e \in Epochs : epoch[e].finalized =>
    /\ epoch'[e].finalized
    /\ epoch'[e].merkle_root = epoch[e].merkle_root
    /\ epoch'[e].merkle_total = epoch[e].merkle_total
    /\ epoch'[e].pushed_amount = epoch[e].pushed_amount
SettledFrozen == [][SettledStep]_vars

\* The strengthening the proofs need (DistributorProofs): per epoch, the
\* relation of the vault, the books and the sweep.
EpochInv(e) ==
  /\ ~epoch[e].exists => epoch[e] = NoEpoch /\ e \notin swept
  /\ ~epoch[e].finalized => epoch[e].merkle_total = 0 /\ epoch[e].merkle_root = {}
  /\ epoch[e].pushed_amount + epoch[e].merkle_total <= epoch[e].total_amount
  /\ epoch[e].claimed_amount <= epoch[e].merkle_total
  /\ e \in swept => epoch[e].finalized /\ now > ClaimDeadline(e)
  /\ epoch[e].exists /\ e \notin swept =>
       vault[e] + epoch[e].pushed_amount + epoch[e].claimed_amount
         >= epoch[e].total_amount
  /\ \A w \in Wallets : claimed[e][w] # 0 => epoch[e].finalized

IInv == \A e \in Epochs : EpochInv(e)

\* A receipt is of a leaf of the posted root.
ReceiptsAreLeaves ==
  \A e \in Epochs, w \in Wallets :
    claimed[e][w] # 0 => <<w, claimed[e][w]>> \in epoch[e].merkle_root
=============================================================================
