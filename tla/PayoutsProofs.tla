--------------------------- MODULE PayoutsProofs ---------------------------
(***************************************************************************)
(* Theorems about Payouts, for every value of its constants.  A behavior   *)
(* of the payout cycle is one of the distributor (module Distributor), so  *)
(* everything proved of the program holds of the cycle too.                *)
(***************************************************************************)
EXTENDS Payouts, DistributorProofs, SequenceTheorems

-----------------------------------------------------------------------------
(***************************************************************************)
(* What the keeper's memory and the network hold                           *)
(***************************************************************************)
OpenIx == [op : {"open"}, e : Epochs, start : Nat, end : Nat, plan : Plan]
PushIx == [op : {"push"}, e : Epochs, items : Plan]
FinalizeIx == [op : {"finalize"}, e : Epochs, root : SUBSET (Wallets \X U64)]
Ix == OpenIx \cup PushIx \cup FinalizeIx
Tx == [ix : Ix, id : Nat]

Locals ==
  [e : Int, start : Nat, end : Nat, total : U64, pushed : U64, plan : Plan,
   already : SUBSET Wallets, queue : SUBSET Wallets, merkle : SUBSET (Wallets \X U64),
   pushedTotal : Nat, record : SUBSET Wallets, tx : Tx \cup {None}, attempt : Nat,
   repair : BOOLEAN]

\* The epoch the cycle works on: the last one at the gate, -1 for none, and an
\* epoch that has an index everywhere else.
CycleEpoch ==
  /\ pc = "gate" => loc.e \in Epochs \cup {-1}
  /\ pc \notin {"idle", "gate"} => loc.e \in Epochs
  /\ pc = "wait" => loc.tx \in Tx /\ loc.tx.ix.e = loc.e

\* Coins in the holder vaults never exceed what exists.
FundsBounded ==
  \A r \in Routers, p \in Pools : outside + holderVault[r][p] <= Supply

KeeperTypeOK ==
  /\ progress \in [Epochs -> Progress \cup {None}]
  /\ rows \in [Epochs -> Plan]
  /\ leaves \in [Epochs -> SUBSET (Wallets \X U64)]
  /\ marked \in [Epochs -> BOOLEAN]
  /\ openedPlan \in [Epochs -> Plan \cup {None}]
  /\ events \in [Epochs -> Seq(Plan)]
  /\ loc \in Locals /\ net \in SUBSET Tx
  /\ confirmed \in BOOLEAN /\ faults \in Nat

TypeInv ==
  /\ TypeOK /\ IInv /\ \A e \in Epochs : Books(e)
  /\ KeeperTypeOK /\ CycleEpoch /\ FundsBounded

-----------------------------------------------------------------------------
(***************************************************************************)
(* The invariant, whatever lands late                                      *)
(***************************************************************************)
\* The keeper has begun to work on the epoch: from then on the stored plan is
\* frozen.
Started(e) == progress[e] # None /\ progress[e].phase # "planned"

\* What the chain took from the epoch for w by pushes.
Pushed(e, w) == paid[e][w] - claimed[e][w]

StartedOK ==
  \A e \in Epochs :
    /\ Started(e) => epoch[e].exists /\ progress[e].total = epoch[e].total_amount
    /\ progress[e] # None =>
         progress[e].plan = NoPlan \/ Amount(progress[e].plan) = progress[e].total

\* A transaction that was sent was right when it was sent, and still is.
OpenOK(ix) ==
  progress[ix.e] # None /\ \A d \in Epochs : d < ix.e => epoch[d].finalized
PushOK(ix) ==
  Started(ix.e) /\ \A w \in Wallets : ix.items[w] \in {0, progress[ix.e].plan[w]}
Covers(e, root) ==
  \A w \in Wallets : progress[e].plan[w] > 0 =>
    rows[e][w] > 0 \/ <<w, progress[e].plan[w]>> \in root
OfPlan(root, plan) == \A leaf \in root : leaf[2] = plan[leaf[1]] /\ leaf[2] > 0
FinalizeOK(ix) ==
  Started(ix.e) /\ Covers(ix.e, ix.root) /\ OfPlan(ix.root, progress[ix.e].plan)
IxOK(ix) ==
  /\ ix.op = "open" => OpenOK(ix)
  /\ ix.op = "push" => PushOK(ix)
  /\ ix.op = "finalize" => FinalizeOK(ix)

\* The events tell what the pushes did, and the rows what the events told.
EventsOK(e) ==
  /\ events[e] # <<>> => Started(e)
  /\ \A i \in DOMAIN events[e], w \in Wallets :
       /\ events[e][i][w] \in {0, progress[e].plan[w]}
       /\ events[e][i][w] <= Pushed(e, w)
  /\ \A w \in Wallets :
       /\ Pushed(e, w) \in Nat
       /\ Pushed(e, w) > 0 => \E i \in DOMAIN events[e] : events[e][i][w] > 0
       /\ rows[e][w] > 0 => \E i \in DOMAIN events[e] : events[e][i][w] = rows[e][w]

\* A wallet's share of a plan that a root pays.
Leaf(root, plan, w) == IF plan[w] > 0 /\ <<w, plan[w]>> \in root THEN plan[w] ELSE 0

\* At the end the rows are the pushes, and with the leaves of the root they
\* make the plan.
FinalizedOK(e) ==
  epoch[e].finalized =>
    /\ Started(e)
    /\ \A w \in Wallets : rows[e][w] = Pushed(e, w)
    /\ OfPlan(epoch[e].merkle_root, progress[e].plan)
    /\ progress[e].plan # NoPlan =>
         \A w \in Wallets :
           rows[e][w] + Leaf(epoch[e].merkle_root, progress[e].plan, w) = progress[e].plan[w]

ChainInv ==
  /\ \A e \in Epochs : epoch[e].exists => progress[e] # None
  /\ StartedOK /\ OneEpochAtATime /\ LeavesMatchRoot
  /\ \A e \in Epochs : EventsOK(e) /\ FinalizedOK(e)
  /\ \A tx \in net : IxOK(tx.ix)

\* What the cycle knows at each await.
OpenKnown ==
  \/ /\ progress[loc.e] # None /\ progress[loc.e].phase = "planned"
     /\ progress[loc.e].plan = loc.plan /\ progress[loc.e].total = Amount(loc.plan)
  \/ epoch[loc.e].exists /\ (pc = "wait" => ~confirmed)
PlanKnown == Started(loc.e) /\ progress[loc.e].plan = loc.plan
Accounted(ws) ==
  \A w \in Wallets : loc.plan[w] > 0 =>
    rows[loc.e][w] > 0 \/ w \in ws \/ <<w, loc.plan[w]>> \in loc.merkle
InEvents(ws) ==
  \A w \in ws : \E i \in DOMAIN events[loc.e] : events[loc.e][i][w] = loc.plan[w]
RootKnown == epoch[loc.e].finalized /\ epoch[loc.e].merkle_root = loc.merkle

WaitInv ==
  /\ IxOK(loc.tx.ix)
  /\ loc.tx.ix.op = "open" =>
       /\ OpenKnown /\ loc.tx.ix.plan = loc.plan
       /\ confirmed => epoch[loc.e].exists /\ epoch[loc.e].total_amount = Amount(loc.plan)
  /\ loc.tx.ix.op = "push" =>
       /\ PlanKnown /\ OfPlan(loc.merkle, loc.plan) /\ Accounted(loc.queue \cup loc.record)
       /\ loc.tx.ix.items = Items(loc.plan, loc.record)
       /\ confirmed => InEvents(loc.record)
  /\ loc.tx.ix.op = "finalize" =>
       /\ PlanKnown /\ loc.tx.ix.root = loc.merkle
       /\ confirmed => RootKnown

KeeperInv ==
  /\ pc = "gate" => \A d \in Epochs : d <= loc.e => epoch[d].finalized
  /\ pc = "open" =>
       OpenKnown /\ \A d \in Epochs : d < loc.e => epoch[d].finalized
  /\ pc = "wait" => WaitInv
  /\ pc = "resume" => epoch[loc.e].exists /\ loc.total = epoch[loc.e].total_amount
  /\ pc = "reconcile" => PlanKnown
  /\ pc = "split" => PlanKnown /\ \A w \in loc.already : rows[loc.e][w] > 0
  /\ pc = "push" => PlanKnown /\ OfPlan(loc.merkle, loc.plan) /\ Accounted(loc.queue)
  /\ pc = "record" =>
       /\ PlanKnown /\ OfPlan(loc.merkle, loc.plan) /\ Accounted(loc.queue \cup loc.record)
       /\ InEvents(loc.record)
  /\ pc = "repair" => epoch[loc.e].finalized
  /\ pc \in {"leaves", "mark", "finalized"} => RootKnown
  /\ pc = "mark" => leaves[loc.e] = loc.merkle

PInv == TypeInv /\ ChainInv /\ KeeperInv

-----------------------------------------------------------------------------
(***************************************************************************)
(* The invariant when answers are truthful                                 *)
(***************************************************************************)
\* The only transaction in flight is the one the cycle waits for, so the chain
\* only moves under it there.
OneInFlight == net # {} => net = {loc.tx} /\ pc = "wait" /\ ~confirmed

\* The stored plan is the one the epoch was opened with, and each wallet got
\* its share by push or did not.
AsOpened(e) ==
  IF epoch[e].exists
  THEN /\ openedPlan[e] # None /\ openedPlan[e] # NoPlan
       /\ progress[e].plan = openedPlan[e] /\ progress[e].total = epoch[e].total_amount
       /\ \A w \in Wallets : Pushed(e, w) \in {0, openedPlan[e][w]}
  ELSE openedPlan[e] = None

\* The database is at most one epoch ahead of the chain.
KnownInTurn == \A e \in Epochs : progress[e] # None => e = 0 \/ epoch[e - 1].exists

Unpushed(ws) == \A w \in ws : Pushed(loc.e, w) = 0
WaitTruth ==
  /\ loc.tx.ix.op = "open" => (epoch[loc.e].exists <=> confirmed) /\ loc.plan # NoPlan
  /\ loc.tx.ix.op = "push" =>
       /\ Unpushed(loc.queue) /\ loc.queue \cap loc.record = {}
       /\ ~confirmed => Unpushed(loc.record)

CycleTruth ==
  /\ loc.repair => pc \in {"leaves", "mark", "finalized"}
  /\ pc \in {"gate", "repair"} \/ loc.repair =>
       (loc.e + 1 \in Epochs => ~epoch[loc.e + 1].exists)
  /\ pc = "open" => ~epoch[loc.e].exists /\ loc.plan # NoPlan
  /\ pc = "wait" => WaitTruth
  /\ pc \in {"resume", "reconcile"} => loc.pushed = epoch[loc.e].pushed_amount
  /\ pc = "split" => Unpushed(Wallets \ loc.already)
  /\ pc \in {"push", "record"} => Unpushed(loc.queue)

TruthInv ==
  OneInFlight /\ (\A e \in Epochs : AsOpened(e)) /\ KnownInTurn /\ CycleTruth

-----------------------------------------------------------------------------
(***************************************************************************)
(* computeShares and findLatestOnChainEpoch                                *)
(***************************************************************************)
LEMMA U64Type == U64 \subseteq Nat /\ 0 \in U64 /\ NoPlan \in Plan
  BY DistributorAssumption DEF U64, NoPlan, Plan

LEMMA U64Nat == \A x \in U64 : x \in Nat /\ x \in Int /\ x >= 0
  BY U64Type

LEMMA AmountDef == ASSUME NEW plan \in Plan PROVE Amount(plan) = SumFunctionOnSet(plan, Wallets)
  BY DEF Amount, SumFunction, Plan

LEMMA AmountNat == ASSUME NEW plan \in Plan PROVE Amount(plan) \in Nat
  BY AmountDef, SumNat, U64Type, DistributorAssumption DEF Plan

LEMMA NoPlanAmount == Amount(NoPlan) = 0
  BY AmountDef, U64Type, SumZero, DistributorAssumption DEF NoPlan

LEMMA LargestIn ==
  ASSUME NEW twab \in [Wallets -> Nat], Wallets # {}
  PROVE  Largest(twab) \in Wallets
<1> DEFINE Above(w, v) == twab[w] > twab[v] \/ (twab[w] = twab[v] /\ WalletOrder[w] <= WalletOrder[v])
<1> DEFINE R == {p \in Wallets \X Wallets : Above(p[1], p[2])}
<1>1. \A w, v \in Wallets : <<w, v>> \in R <=> Above(w, v)
  OBVIOUS
<1> HIDE DEF R
<1>2. \A w \in Wallets : WalletOrder[w] \in Nat /\ twab[w] \in Nat
  BY PayoutsAssumption DEF Injection, IsInjective
<1>3. /\ \A x, y \in Wallets : <<x, y>> \in R \/ <<y, x>> \in R
      /\ \A x, y, z \in Wallets : <<x, y>> \in R /\ <<y, z>> \in R => <<x, z>> \in R
  BY <1>1, <1>2
<1>4. \E m \in Wallets : \A x \in Wallets : <<m, x>> \in R
  BY <1>3, LeastExists, DistributorAssumption
<1>5. \E m \in Wallets : \A x \in Wallets : Above(m, x)
  BY <1>1, <1>4
<1> QED BY <1>5 DEF Largest

\* computeShares distributes exactly the total, except to nobody.
LEMMA SharesAddUp ==
  ASSUME NEW twab \in [Wallets -> Nat], NEW total \in U64
  PROVE  /\ ComputeShares(twab, total) \in Plan
         /\ ComputeShares(twab, total) = NoPlan \/ Amount(ComputeShares(twab, total)) = total
<1> DEFINE S == SumFunction(twab)
           floor == [w \in Wallets |-> (total * twab[w]) \div S]
           F == SumFunction(floor)
           k == Largest(twab)
           plan == [floor EXCEPT ![k] = @ + total - F]
<1>0. IsFiniteSet(Wallets) /\ total \in Nat
  BY U64Type, DistributorAssumption
<1>1. S = SumFunctionOnSet(twab, Wallets) /\ F = SumFunctionOnSet(floor, Wallets)
  BY DEF SumFunction
<1>2. S \in Nat
  BY <1>0, <1>1, SumNat
<1>3. CASE S = 0
  BY <1>3, U64Type DEF ComputeShares
<1>4. CASE S # 0
  <2>1. ComputeShares(twab, total) = plan
    BY <1>4 DEF ComputeShares
  <2>2. Wallets # {}
    BY <1>1, <1>4, SumEmpty
  <2>3. k \in Wallets
    BY <2>2, LargestIn
  <2> HIDE DEF S
  <2>4. \A w \in Wallets : floor[w] \in Nat /\ S * floor[w] <= total * twab[w]
    <3> SUFFICES ASSUME NEW w \in Wallets PROVE floor[w] \in Nat /\ S * floor[w] <= total * twab[w]
      OBVIOUS
    <3>1. total * twab[w] \in Nat /\ S \in Nat \ {0}
      BY <1>0, <1>2, <1>4
    <3>2. (total * twab[w]) \div S \in Nat /\ S * ((total * twab[w]) \div S) <= total * twab[w]
      BY <3>1, DivLemma
    <3> QED BY <3>2
  <2>5. floor \in [Wallets -> Nat]
    BY <2>4
  <2> HIDE DEF floor, F, k
  <2>6. F \in Nat /\ F <= total
    <3> DEFINE sf == [w \in Wallets |-> S * floor[w]]
               tt == [w \in Wallets |-> total * twab[w]]
    <3>1. F \in Nat
      BY <1>0, <1>1, <2>4, SumNat
    <3>2. \A w \in Wallets : /\ sf[w] \in Int /\ tt[w] \in Int /\ sf[w] <= tt[w]
                             /\ sf[w] = S * floor[w] /\ tt[w] = total * twab[w]
                             /\ floor[w] \in Int /\ twab[w] \in Int
      BY <1>0, <1>2, <2>4
    <3> HIDE DEF sf, tt
    <3>3. SumFunctionOnSet(sf, Wallets) = S * F
      BY <1>0, <1>1, <1>2, <3>2, SumScale
    <3>4. SumFunctionOnSet(tt, Wallets) = total * S
      BY <1>0, <1>1, <3>2, SumScale
    <3>5. S * F <= S * total
      BY <1>0, <1>2, <3>2, <3>3, <3>4, SumLeq
    <3> QED BY <1>0, <1>2, <1>4, <3>1, <3>5, TimesCancel
  <2>7. /\ \A w \in Wallets : plan[w] \in Nat /\ floor[w] \in Int /\ plan[w] \in Int
        /\ \A w \in Wallets : w # k => plan[w] = floor[w]
        /\ plan[k] = floor[k] + total - F
        /\ plan \in [Wallets -> Nat]
    <3>1. floor[k] + total - F \in Nat
      BY <1>0, <2>3, <2>5, <2>6
    <3>2. plan \in [Wallets -> Nat] /\ plan[k] = floor[k] + total - F
      BY <2>3, <2>5, <3>1
    <3>3. \A w \in Wallets : w # k => plan[w] = floor[w]
      BY <2>5
    <3> HIDE DEF plan
    <3> QED BY <2>5, <3>2, <3>3
  <2> HIDE DEF plan
  <2>8. SumFunctionOnSet(plan, Wallets) = total
    <3>1. SumFunctionOnSet(plan, Wallets) = SumFunctionOnSet(floor, Wallets) - floor[k] + plan[k]
      BY <1>0, <2>3, <2>7, SumChange
    <3> QED BY <1>0, <1>1, <2>3, <2>6, <2>7, <3>1
  <2>9. plan \in Plan
    <3>1. \A w \in Wallets : plan[w] <= total
      BY <1>0, <2>7, <2>8, SumAbove
    <3>2. \A w \in Wallets : plan[w] \in U64
      BY <2>7, <3>1, DistributorAssumption DEF U64
    <3> QED BY <2>7, <3>2 DEF Plan
  <2> QED BY <2>1, <2>8, <2>9, AmountDef
<1> QED BY <1>3, <1>4

LEMMA EpochsType == IsFiniteSet(Epochs) /\ Epochs \subseteq Nat
                    /\ \A e \in Epochs, d \in Nat : d <= e => d \in Epochs
<1>1. IsFiniteSet(Epochs) /\ Epochs = 0..Cardinality(Epochs) - 1
  BY PayoutsAssumption
<1>2. Cardinality(Epochs) \in Nat
  BY <1>1, FS_CardinalityType
<1> QED BY <1>1, <1>2

\* findLatestOnChainEpoch finds an epoch that is on the chain, or none; and
\* when the database knows of every epoch on the chain and of one more at
\* most, it is the last.
LEMMA LatestEpochFound ==
  /\ LatestEpoch \in Epochs \cup {-1}
  /\ LatestEpoch # -1 => epoch[LatestEpoch].exists
  /\ /\ \A e \in Epochs : epoch[e].exists => progress[e] # None
     /\ \A e \in Epochs : progress[e] # None => e = 0 \/ epoch[e - 1].exists
     => \A e \in Epochs : e > LatestEpoch => ~epoch[e].exists
<1> DEFINE known == {-1} \cup {e \in Epochs : progress[e] # None}
           last  == CHOOSE e \in known : \A d \in known : d <= e
           ahead == {e \in Epochs : e > last /\ \A d \in (last + 1)..e : epoch[d].exists}
           idx   == CHOOSE e \in ahead \cup {last} : \A d \in ahead : d <= e
           found == {-1} \cup {e \in Epochs : e \in (idx - 2)..idx /\ epoch[e].exists}
<1>0. LatestEpoch = CHOOSE e \in found : \A d \in found : d <= e
  BY DEF LatestEpoch
<1>1. \A T \in SUBSET Epochs : IsFiniteSet({-1} \cup T) /\ {-1} \cup T \subseteq Int /\ {-1} \cup T # {}
  <2> SUFFICES ASSUME NEW T \in SUBSET Epochs
               PROVE  IsFiniteSet({-1} \cup T) /\ {-1} \cup T \subseteq Int /\ {-1} \cup T # {}
    OBVIOUS
  <2>1. IsFiniteSet(T)
    BY EpochsType, FS_Subset
  <2>2. {-1} \cup T = T \cup {-1} /\ T \subseteq Int
    BY EpochsType
  <2> QED BY <2>1, <2>2, FS_AddElement
<1>2. \A T \in SUBSET Epochs : \E m \in {-1} \cup T : \A x \in {-1} \cup T : x <= m
  BY <1>1, LargestInt
<1>3. LatestEpoch \in found /\ \A d \in found : d <= LatestEpoch
  <2>1. \E m \in found : \A x \in found : x <= m
    BY <1>2
  <2> HIDE DEF found
  <2> QED BY <1>0, <2>1
<1>4. last \in known /\ \A d \in known : d <= last
  <2>1. \E m \in known : \A x \in known : x <= m
    BY <1>2
  <2> HIDE DEF known
  <2> QED BY <2>1
<1>4a. known \subseteq Epochs \cup {-1} /\ \A e \in known : e # -1 => progress[e] # None
  OBVIOUS
<1>5. LatestEpoch \in Epochs \cup {-1} /\ (LatestEpoch # -1 => epoch[LatestEpoch].exists)
  BY <1>3
<1>6. ASSUME \A e \in Epochs : epoch[e].exists => progress[e] # None,
             \A e \in Epochs : progress[e] # None => e = 0 \/ epoch[e - 1].exists,
             NEW e \in Epochs, e > LatestEpoch, epoch[e].exists
      PROVE  FALSE
  <2>1. e <= last
    BY <1>4, <1>6
  <2> HIDE DEF known, last
  <2>0. last \in Int /\ last \in Epochs \cup {-1} /\ e \in Nat /\ LatestEpoch \in Int
    BY <1>4, <1>4a, <1>5, EpochsType
  <2>2. last \in Epochs /\ progress[last] # None /\ last \in Nat
    BY <1>4, <1>4a, <2>0, <2>1
  <2>3. ahead = {}
    <3> SUFFICES ASSUME NEW d \in ahead PROVE FALSE
      OBVIOUS
    <3>1. d \in Epochs /\ d \in Nat /\ d > last /\ d \in (last + 1)..d
      BY <2>0, EpochsType
    <3>2. epoch[d].exists
      BY <3>1
    <3>3. d \in known
      BY <1>6, <3>1, <3>2 DEF known
    <3>4. d <= last
      BY <1>4, <3>3
    <3> QED BY <2>0, <3>1, <3>4
  <2>4. idx = last
    BY <2>3
  <2> HIDE DEF ahead, idx
  <2>5. last = 0 \/ epoch[last - 1].exists
    BY <1>6, <2>2
  <2>6. CASE epoch[last].exists
    <3>1. last \in found
      BY <2>2, <2>4, <2>6
    <3> QED BY <1>3, <1>6, <2>0, <2>1, <3>1
  <2>7. CASE ~epoch[last].exists
    <3>1. last # 0 /\ e # last
      BY <1>6, <2>1, <2>0, <2>7
    <3>2. last - 1 \in Nat /\ last - 1 \in Epochs /\ epoch[last - 1].exists
      BY <2>2, <2>5, <3>1, EpochsType
    <3>3. last - 1 \in (idx - 2)..idx
      BY <2>2, <2>4, <3>2
    <3>3a. last - 1 \in found
      BY <3>2, <3>3
    <3>4. e <= last - 1
      BY <2>0, <2>1, <3>1
    <3> QED BY <1>3, <1>6, <2>0, <3>2, <3>3a, <3>4
  <2> QED BY <2>6, <2>7
<1> QED BY <1>5, <1>6

-----------------------------------------------------------------------------
(***************************************************************************)
(* The steps of the cycle, as steps of the distributor                     *)
(***************************************************************************)
\* Only transactions, the admin, claims and the surroundings move the chain.
LEMMA ChainSteps ==
  ASSUME PayoutsNext
  PROVE  \/ UNCHANGED vars
         \/ \E tx \in net : Land(tx)
         \/ ChangePushCap \/ Surroundings
         \/ \E w \in Wallets, e \in Epochs : ClaimServed(w, e)
<1>1. CASE StartCycle \/ PlanEpoch \/ SkipEpoch \/ OpenConfirmed \/ ResumeEpoch \/ ReconcilePushed
  BY <1>1 DEF StartCycle, PlanEpoch, SkipEpoch, OpenConfirmed, ResumeEpoch, ReconcilePushed
<1>2. CASE Split \/ PushConfirmed \/ RecordPayout \/ FinalizeConfirmed \/ WriteLeaves
  BY <1>2 DEF Split, PushConfirmed, RecordPayout, FinalizeConfirmed, WriteLeaves
<1>3. CASE MarkFinalized \/ SetFinalized \/ RepairBookkeeping \/ AttemptFails \/ Crash
  BY <1>3 DEF MarkFinalized, SetFinalized, RepairBookkeeping, AttemptFails, Crash
<1>4. CASE SendOpen \/ SendPush \/ SendFinalize
  BY <1>4 DEF SendOpen, SendPush, SendFinalize, SendOnly
<1>5. CASE \E tx \in net : Reject(tx) \/ Drop(tx)
  BY <1>5 DEF Reject, Drop
<1>6. CASE \E e \in Epochs : \E i \in DOMAIN events[e], w \in Wallets : IndexPayout(e, i, w)
  BY <1>6 DEF IndexPayout
<1> QED BY <1>1, <1>2, <1>3, <1>4, <1>5, <1>6 DEF PayoutsNext, KeeperStep, NetworkStep

LEMMA LeafTotalNat ==
  ASSUME NEW root \in SUBSET (Wallets \X U64)
  PROVE  LeafTotal(root) = SumFunctionOnSet([x \in root |-> x[2]], root) /\ LeafTotal(root) \in Nat
<1>1. LeafTotal(root) = SumFunctionOnSet([x \in root |-> x[2]], root)
  BY DEF LeafTotal, SumFunction
<1>2. \A x \in root : [y \in root |-> y[2]][x] \in Nat
  BY U64Type
<1> QED BY <1>1, <1>2, FiniteRoot, SumNat

\* The transaction that lands, by its kind.
LEMMA LandCases ==
  ASSUME TypeInv, NEW tx \in net, Land(tx)
  PROVE  /\ tx \in Tx /\ tx.ix.e \in Epochs
         /\ \/ /\ tx.ix.op = "open" /\ tx.ix.plan \in Plan /\ Amount(tx.ix.plan) \in U64
               /\ tx.ix.start \in 0..now /\ tx.ix.end \in 0..now
               /\ OpenEpochRouter(Keeper, tx.ix.e, tx.ix.start, tx.ix.end, Amount(tx.ix.plan))
            \/ /\ tx.ix.op = "push" /\ tx.ix.items \in Plan
               /\ PushPayouts(Keeper, tx.ix.e, tx.ix.items)
            \/ /\ tx.ix.op = "finalize" /\ tx.ix.root \in SUBSET (Wallets \X U64)
               /\ LeafTotal(tx.ix.root) \in U64
               /\ FinalizeEpoch(Keeper, tx.ix.e, tx.ix.root, LeafTotal(tx.ix.root))
<1> DEFINE ix == tx.ix
<1>0. /\ tx \in Tx /\ ix \in Ix /\ Execute(ix)
  BY DEF TypeInv, KeeperTypeOK, Land, Tx
<1> HIDE DEF ix
<1>1. CASE ix.op = "open"
  <2>1. ix \in OpenIx
    BY <1>0, <1>1 DEF Ix, PushIx, FinalizeIx
  <2>2. ix.e \in Epochs /\ ix.start \in Nat /\ ix.end \in Nat /\ ix.plan \in Plan
    BY <2>1 DEF OpenIx
  <2>3. OpenEpochRouter(Keeper, ix.e, ix.start, ix.end, Amount(ix.plan))
    BY <1>0, <1>1 DEF Execute
  <2>4. ix.end > ix.start /\ ix.end <= now /\ now \in Nat
    BY <2>3 DEF OpenEpochRouter, CanOpen, TypeInv, TypeOK
  <2>5. Amount(ix.plan) \in U64
    <3>1. holderVault[feeRouter][PoolOf[ix.e]] >= Amount(ix.plan)
      BY <2>3 DEF OpenEpochRouter, WithdrawForEpoch
    <3>2. /\ feeRouter \in Routers /\ PoolOf[ix.e] \in Pools /\ outside \in Nat
          /\ holderVault[feeRouter][PoolOf[ix.e]] \in Nat
      BY <2>2, DistributorAssumption DEF TypeInv, TypeOK
    <3>3. outside + holderVault[feeRouter][PoolOf[ix.e]] <= Supply
      BY <3>2 DEF TypeInv, FundsBounded
    <3>4. Amount(ix.plan) \in Nat /\ Supply \in 0..MaxU64 /\ MaxU64 \in Nat
      BY <2>2, AmountNat, DistributorAssumption DEF U64
    <3> QED BY <3>1, <3>2, <3>3, <3>4 DEF U64
  <2> QED BY <1>0, <1>1, <2>2, <2>3, <2>4, <2>5 DEF ix
<1>2. CASE ix.op = "push"
  <2>1. ix \in PushIx
    BY <1>0, <1>2 DEF Ix, OpenIx, FinalizeIx
  <2>2. ix.e \in Epochs /\ ix.items \in Plan
    BY <2>1 DEF PushIx
  <2>3. PushPayouts(Keeper, ix.e, ix.items)
    BY <1>0, <1>2 DEF Execute
  <2> QED BY <1>0, <1>2, <2>2, <2>3 DEF ix
<1>3. CASE ix.op = "finalize"
  <2>1. ix \in FinalizeIx
    BY <1>0, <1>3 DEF Ix, OpenIx, PushIx
  <2>2. ix.e \in Epochs /\ ix.root \in SUBSET (Wallets \X U64)
    BY <2>1 DEF FinalizeIx
  <2>3. FinalizeEpoch(Keeper, ix.e, ix.root, LeafTotal(ix.root))
    BY <1>0, <1>3 DEF Execute
  <2>4. LeafTotal(ix.root) <= Remainder(ix.e) /\ LeafTotal(ix.root) \in Nat
    BY <2>2, <2>3, LeafTotalNat DEF FinalizeEpoch
  <2>5. epoch[ix.e].total_amount \in U64 /\ epoch[ix.e].pushed_amount \in U64
    BY <2>2 DEF TypeInv, TypeOK, EpochAccount
  <2>6. LeafTotal(ix.root) \in U64
    BY <2>4, <2>5, DistributorAssumption DEF Remainder, U64
  <2> QED BY <1>0, <1>3, <2>2, <2>3, <2>6 DEF ix
<1>4. ix.op \in {"open", "push", "finalize"}
  BY <1>0 DEF Ix, OpenIx, PushIx, FinalizeIx
<1> QED BY <1>1, <1>2, <1>3, <1>4

\* A step of the cycle is a step of the program, or none.
LEMMA StepOfDistributor == TypeInv /\ [PayoutsNext]_payoutsVars => [Next]_vars
<1> SUFFICES ASSUME TypeInv, PayoutsNext PROVE [Next]_vars
  BY DEF payoutsVars, vars
<1>1. ASSUME NEW tx \in net, Land(tx) PROVE Next
  <2>0. Keeper \in Actors
    BY PayoutsAssumption
  <2>1. CASE tx.ix.op = "open"
    BY <1>1, <2>0, <2>1, LandCases DEF Next
  <2>2. CASE tx.ix.op = "push"
    BY <1>1, <2>0, <2>2, LandCases DEF Next, Plan
  <2>3. CASE tx.ix.op = "finalize"
    BY <1>1, <2>0, <2>3, LandCases, PayoutsAssumption DEF Next
  <2> QED BY <1>1, <2>1, <2>2, <2>3, LandCases
<1>2. CASE ChangePushCap
  <2>1. admin \in Actors /\ feeRouter \in Routers /\ FALSE \in BOOLEAN
    BY DEF TypeInv, TypeOK
  <2>2. PICK bps \in PushBps : SetParams(admin, feeRouter, bps, FALSE, admin)
    BY <1>2 DEF ChangePushCap
  <2> QED BY <2>1, <2>2 DEF Next
<1>3. CASE Surroundings
  <2>1. feeRouter \in Routers /\ Pool \in Pools
    BY PayoutsAssumption DEF TypeInv, TypeOK
  <2> QED BY <1>3, <2>1 DEF Surroundings, Next
<1>4. ASSUME NEW w \in Wallets, NEW e \in Epochs, ClaimServed(w, e) PROVE Next
  <2>1. PICK leaf \in leaves[e] : leaf[1] = w /\ Claim(w, e, leaf[2])
    BY <1>4 DEF ClaimServed
  <2>2. leaf[2] \in U64
    BY <2>1 DEF TypeInv, KeeperTypeOK
  <2> QED BY <2>1, <2>2 DEF Next
<1> QED BY <1>1, <1>2, <1>3, <1>4, ChainSteps

\* Fees come from outside, and an open takes them out of a holder vault.
LEMMA NextFunds == TypeInv /\ [PayoutsNext]_payoutsVars => FundsBounded'
<1> SUFFICES ASSUME TypeInv, [PayoutsNext]_payoutsVars PROVE FundsBounded'
  OBVIOUS
<1>0. /\ holderVault \in [Routers -> [Pools -> Nat]] /\ outside \in Nat /\ feeRouter \in Routers
      /\ \A r \in Routers, p \in Pools : outside + holderVault[r][p] <= Supply
      /\ Supply \in Nat /\ PoolOf \in [Epochs -> Pools] /\ U64 \subseteq Nat
  BY DistributorAssumption, U64Type DEF TypeInv, TypeOK, FundsBounded
<1>1. CASE UNCHANGED <<holderVault, outside>>
  BY <1>0, <1>1 DEF FundsBounded
<1>2. ASSUME NEW tx \in net, Land(tx) PROVE FundsBounded'
  <2>1. CASE tx.ix.op = "open"
    <3> DEFINE a == Amount(tx.ix.plan)
               q == PoolOf[tx.ix.e]
    <3>1. /\ OpenEpochRouter(Keeper, tx.ix.e, tx.ix.start, tx.ix.end, a) /\ a \in U64
          /\ tx.ix.e \in Epochs
      BY <1>2, <2>1, LandCases
    <3> HIDE DEF a
    <3>2. /\ holderVault[feeRouter][q] >= a /\ outside' = outside
          /\ holderVault' = [holderVault EXCEPT ![feeRouter][q] = @ - a]
      BY <3>1 DEF OpenEpochRouter, WithdrawForEpoch
    <3>3. q \in Pools /\ a \in Nat
      BY <1>0, <3>1
    <3> HIDE DEF q
    <3>4. \A r \in Routers, p \in Pools : holderVault'[r][p] \in Nat /\ holderVault'[r][p] <= holderVault[r][p]
      BY <1>0, <3>2, <3>3
    <3> QED BY <1>0, <3>2, <3>4 DEF FundsBounded
  <2>2. CASE tx.ix.op = "push"
    BY <1>1, <1>2, <2>2, LandCases DEF PushPayouts, routerVars
  <2>3. CASE tx.ix.op = "finalize"
    BY <1>1, <1>2, <2>3, LandCases DEF FinalizeEpoch, routerVars
  <2> QED BY <1>2, <2>1, <2>2, <2>3, LandCases
<1>3. CASE ChangePushCap
  BY <1>1, <1>3 DEF ChangePushCap, SetParams, routerVars
<1>4. CASE Surroundings
  <2>1. CASE Tick
    BY <1>1, <2>1 DEF Tick, routerVars
  <2>2. ASSUME NEW amount \in U64, AccrueFees(feeRouter, Pool, amount) PROVE FundsBounded'
    <3>1. /\ outside >= amount /\ outside' = outside - amount /\ amount \in Nat
          /\ holderVault' = [holderVault EXCEPT ![feeRouter][Pool] = @ + amount]
      BY <1>0, <2>2 DEF AccrueFees
    <3>2. Pool \in Pools
      BY PayoutsAssumption
    <3>3. \A r \in Routers, p \in Pools :
            holderVault'[r][p] \in {holderVault[r][p], holderVault[r][p] + amount}
      BY <1>0, <3>1, <3>2
    <3> QED BY <1>0, <3>1, <3>3 DEF FundsBounded
  <2> QED BY <1>4, <2>1, <2>2 DEF Surroundings
<1>5. ASSUME NEW w \in Wallets, NEW e \in Epochs, ClaimServed(w, e) PROVE FundsBounded'
  <2>1. PICK leaf \in leaves[e] : Claim(w, e, leaf[2])
    BY <1>5 DEF ClaimServed
  <2> QED BY <1>1, <2>1 DEF Claim, routerVars
<1> QED BY <1>1, <1>2, <1>3, <1>4, <1>5, ChainSteps DEF vars, payoutsVars

-----------------------------------------------------------------------------
(***************************************************************************)
(* Types of the cycle's locals and tables                                  *)
(***************************************************************************)
LEMMA NoLocType == NoLoc \in Locals
  BY U64Type DEF NoLoc, Locals

LEMMA SnapshotType ==
  ASSUME TypeOK, NEW e \in Epochs
  PROVE  /\ Snapshot(e) \in Locals /\ Snapshot(e).e = e
         /\ Snapshot(e).total = epoch[e].total_amount
         /\ Snapshot(e).pushed = epoch[e].pushed_amount
         /\ Snapshot(e).already = {} /\ Snapshot(e).repair = FALSE
<1>1. /\ epoch[e].end_ts \in Nat /\ epoch[e].total_amount \in U64
      /\ epoch[e].pushed_amount \in U64 /\ e \in Int
  BY EpochsType DEF TypeOK, EpochAccount
<1> QED BY <1>1, NoLocType DEF Snapshot, Locals, NoLoc

\* Sending changes only the locals tx and attempt.
SameWork(l, m) ==
  /\ l.e = m.e /\ l.start = m.start /\ l.end = m.end /\ l.total = m.total
  /\ l.pushed = m.pushed /\ l.plan = m.plan /\ l.already = m.already /\ l.queue = m.queue
  /\ l.merkle = m.merkle /\ l.pushedTotal = m.pushedTotal /\ l.record = m.record
  /\ l.repair = m.repair

LEMMA SendType ==
  ASSUME NEW l \in Locals, NEW ix \in Ix, NEW id \in Nat, NEW n \in Nat,
         net \in SUBSET Tx, Send(ix, n, id, l)
  PROVE  /\ loc' \in Locals /\ SameWork(loc', l) /\ pc' = "wait"
         /\ loc'.tx = [ix |-> ix, id |-> id] /\ loc'.tx \in Tx
         /\ net' = net \cup {loc'.tx} /\ net' \in SUBSET Tx /\ confirmed' = FALSE
<1> DEFINE t == [ix |-> ix, id |-> id]
<1>1. t \in Tx
  BY DEF Tx
<1> HIDE DEF t
<1>2. /\ net' = net \cup {t} /\ confirmed' = FALSE /\ pc' = "wait"
      /\ loc' = [l EXCEPT !.tx = t, !.attempt = n]
  BY DEF Send, Goto, t
<1>3. loc' \in Locals /\ SameWork(loc', l) /\ loc'.tx = t
  BY <1>1, <1>2 DEF Locals, SameWork
<1> QED BY <1>1, <1>2, <1>3 DEF t

LEMMA SavePlanType ==
  ASSUME progress \in [Epochs -> Progress \cup {None}],
         NEW e \in Epochs, NEW total \in U64, NEW plan \in Plan
  PROVE  SavePlan(e, total, plan) \in [Epochs -> Progress \cup {None}]
<1>1. [phase |-> "planned", total |-> total, plan |-> plan] \in Progress
  BY DEF Progress
<1> QED BY <1>1 DEF SavePlan

LEMMA SetPhaseType ==
  ASSUME NEW table \in [Epochs -> Progress \cup {None}], NEW e \in Epochs,
         NEW phase \in {"planned", "opened", "pushed", "finalized"}
  PROVE  SetPhase(table, e, phase) \in [Epochs -> Progress \cup {None}]
<1>1. CASE table[e] = None
  BY <1>1 DEF SetPhase
<1>2. CASE table[e] # None
  <2>1. table[e] \in Progress
    BY <1>2
  <2>2. [table[e] EXCEPT !.phase = phase] \in Progress
    BY <2>1 DEF Progress
  <2> QED BY <1>2, <2>2 DEF SetPhase
<1> QED BY <1>1, <1>2

\* reconcilePushed adds to the rows the first event of wallets without one.
LEMMA ReconciledRows ==
  ASSUME KeeperTypeOK, NEW e \in Epochs, NEW n
  PROVE  /\ Reconciled(e, n) \in Plan
         /\ \A w \in Wallets :
              \/ Reconciled(e, n)[w] = rows[e][w]
              \/ /\ rows[e][w] = 0
                 /\ \E i \in DOMAIN events[e] :
                      Reconciled(e, n)[w] = events[e][i][w] /\ events[e][i][w] > 0
<1> DEFINE pays(w) == {i \in DOMAIN events[e] : events[e][i][w] > 0}
           first(w) == CHOOSE i \in pays(w) : \A j \in pays(w) : i <= j
<1>0. rows[e] \in Plan /\ events[e] \in Seq(Plan)
  BY DEF KeeperTypeOK
<1>1. ASSUME NEW w, pays(w) # {}
      PROVE  first(w) \in DOMAIN events[e] /\ events[e][first(w)][w] > 0
  <2>1. IsFiniteSet(DOMAIN events[e]) /\ DOMAIN events[e] \subseteq Int
    <3>1. DOMAIN events[e] = 1..Len(events[e]) /\ Len(events[e]) \in Nat
      BY <1>0, LenProperties
    <3> QED BY <3>1, FS_Interval
  <2>2. pays(w) \subseteq DOMAIN events[e]
    OBVIOUS
  <2>3. IsFiniteSet(pays(w)) /\ pays(w) \subseteq Int
    BY <2>1, <2>2, FS_Subset
  <2>4. \E m \in pays(w) : \A x \in pays(w) : m <= x
    BY <1>1, <2>3, SmallestInt
  <2>5. first(w) \in pays(w)
    BY <2>4
  <2> QED BY <2>5
<1>2. Reconciled(e, n) =
        IF Amount(rows[e]) = n THEN rows[e]
        ELSE [w \in Wallets |-> IF rows[e][w] = 0 /\ pays(w) # {} THEN events[e][first(w)][w]
                                                                 ELSE rows[e][w]]
  BY DEF Reconciled
<1> HIDE DEF pays, first
<1>3. ASSUME NEW w \in Wallets
      PROVE  \/ Reconciled(e, n)[w] = rows[e][w]
             \/ /\ rows[e][w] = 0
                /\ \E i \in DOMAIN events[e] :
                      Reconciled(e, n)[w] = events[e][i][w] /\ events[e][i][w] > 0
  <2>1. CASE Amount(rows[e]) = n
    BY <1>2, <2>1
  <2>2. CASE Amount(rows[e]) # n
    <3>1. Reconciled(e, n)[w] = IF rows[e][w] = 0 /\ pays(w) # {} THEN events[e][first(w)][w]
                                                                  ELSE rows[e][w]
      BY <1>2, <2>2
    <3>2. CASE rows[e][w] = 0 /\ pays(w) # {}
      BY <1>1, <3>1, <3>2
    <3>3. CASE ~(rows[e][w] = 0 /\ pays(w) # {})
      BY <3>1, <3>3
    <3> QED BY <3>2, <3>3
  <2> QED BY <2>1, <2>2
<1>4. \A w \in Wallets : Reconciled(e, n)[w] \in U64
  <2> SUFFICES ASSUME NEW w \in Wallets PROVE Reconciled(e, n)[w] \in U64
    OBVIOUS
  <2>1. rows[e][w] \in U64
    BY <1>0 DEF Plan
  <2>2. \A i \in DOMAIN events[e] : events[e][i][w] \in U64
    <3>1. \A i \in DOMAIN events[e] : events[e][i] \in Plan
      BY <1>0, ElementOfSeq, LenProperties
    <3> QED BY <3>1 DEF Plan
  <2> QED BY <1>3, <2>1, <2>2
<1>5. Reconciled(e, n) = [w \in Wallets |-> Reconciled(e, n)[w]]
  BY <1>0, <1>2 DEF Plan
<1> QED BY <1>3, <1>4, <1>5 DEF Plan

LEMMA PlansType ==
  ASSUME NEW total \in U64, NEW plan \in Plans(total)
  PROVE  plan \in Plan /\ (plan = NoPlan \/ Amount(plan) = total)
<1>1. PICK twab \in Twabs : plan = ComputeShares(twab, total)
  BY DEF Plans
<1> QED BY <1>1, SharesAddUp, PayoutsAssumption

LEMMA LeafOfPlan ==
  ASSUME NEW plan \in Plan, NEW ws \in SUBSET Wallets
  PROVE  {<<w, plan[w]>> : w \in ws} \in SUBSET (Wallets \X U64)
  BY DEF Plan

LEMMA ItemsType == ASSUME NEW plan \in Plan, NEW ws PROVE Items(plan, ws) \in Plan
  BY U64Type DEF Items, Plan

LEMMA LocalsOf ==
  ASSUME NEW l \in Locals
  PROVE  /\ l.plan \in Plan /\ l.total \in U64 /\ l.pushed \in U64 /\ l.end \in Nat
         /\ l.start \in Nat /\ l.merkle \in SUBSET (Wallets \X U64) /\ l.attempt \in Nat
         /\ l.queue \in SUBSET Wallets /\ l.record \in SUBSET Wallets
         /\ l.already \in SUBSET Wallets /\ l.pushedTotal \in Nat /\ l.e \in Int
  BY DEF Locals

Tables == <<progress, rows, leaves, marked, openedPlan, events>>
TablesOK ==
  /\ progress \in [Epochs -> Progress \cup {None}] /\ rows \in [Epochs -> Plan]
  /\ leaves \in [Epochs -> SUBSET (Wallets \X U64)] /\ marked \in [Epochs -> BOOLEAN]
  /\ openedPlan \in [Epochs -> Plan \cup {None}] /\ events \in [Epochs -> Seq(Plan)]
MemoryOK ==
  loc \in Locals /\ net \in SUBSET Tx /\ confirmed \in BOOLEAN /\ faults \in Nat

LEMMA TypeParts == /\ KeeperTypeOK <=> TablesOK /\ MemoryOK
                   /\ TablesOK /\ UNCHANGED Tables => TablesOK'
  BY DEF KeeperTypeOK, TablesOK, MemoryOK, Tables

\* The tables after a step of the keeper.
LEMMA KeeperTables ==
  ASSUME TypeInv, KeeperStep
  PROVE  TablesOK'
<1> USE DEF netVars, dbVars
<1>0. TablesOK /\ MemoryOK /\ KeeperTypeOK /\ TypeOK /\ CycleEpoch
  BY TypeParts DEF TypeInv
<1>1. CASE UNCHANGED Tables
  BY <1>0, <1>1, TypeParts
<1>2. CASE PlanEpoch
  <2>1. pc = "gate" /\ UNCHANGED <<rows, leaves, marked, openedPlan, events>>
    BY <1>2 DEF PlanEpoch
  <2> DEFINE total == holderVault[feeRouter][Pool]
  <2>2. total \in U64
    <3>1. feeRouter \in Routers /\ Pool \in Pools /\ total \in Nat /\ outside \in Nat
      BY <1>0, PayoutsAssumption DEF TypeOK
    <3>2. outside + total <= Supply
      BY <3>1 DEF TypeInv, FundsBounded
    <3> QED BY <3>1, <3>2, DistributorAssumption DEF U64
  <2> HIDE DEF total
  <2>3. \E plan \in Plans(total) : loc.e + 1 \in Epochs /\ progress' = SavePlan(loc.e + 1, total, plan)
    BY <1>2 DEF PlanEpoch, total
  <2>4. progress' \in [Epochs -> Progress \cup {None}]
    BY <1>0, <2>2, <2>3, SavePlanType, PlansType DEF TablesOK
  <2> QED BY <1>0, <2>1, <2>4 DEF TablesOK
<1>3. CASE OpenConfirmed
  <2>1. loc.e \in Epochs /\ progress' = SetPhase(progress, loc.e, "opened")
        /\ UNCHANGED <<rows, leaves, marked, openedPlan, events>>
    BY <1>0, <1>3 DEF OpenConfirmed, CycleEpoch
  <2> QED BY <1>0, <2>1, SetPhaseType DEF TablesOK
<1>4. CASE ResumeEpoch
  <2>1. loc.e \in Epochs /\ loc.total \in U64
        /\ UNCHANGED <<rows, leaves, marked, openedPlan, events>>
    BY <1>0, <1>4, LocalsOf DEF ResumeEpoch, CycleEpoch, MemoryOK
  <2>2. \/ progress' = SetPhase(progress, loc.e, "opened")
        \/ \E plan \in Plans(loc.total) :
             progress' = SetPhase(SavePlan(loc.e, loc.total, plan), loc.e, "opened")
    BY <1>4 DEF ResumeEpoch
  <2>3. progress' \in [Epochs -> Progress \cup {None}]
    <3>1. ASSUME NEW plan \in Plans(loc.total)
          PROVE  SavePlan(loc.e, loc.total, plan) \in [Epochs -> Progress \cup {None}]
      BY <1>0, <2>1, SavePlanType, PlansType DEF TablesOK
    <3>2. ASSUME NEW table \in [Epochs -> Progress \cup {None}]
          PROVE  SetPhase(table, loc.e, "opened") \in [Epochs -> Progress \cup {None}]
      BY <2>1, SetPhaseType
    <3> QED BY <1>0, <2>2, <3>1, <3>2 DEF TablesOK
  <2> QED BY <1>0, <2>1, <2>3 DEF TablesOK
<1>5. CASE ReconcilePushed \/ RepairBookkeeping
  <2>1. loc.e \in Epochs /\ rows' = [rows EXCEPT ![loc.e] = Reconciled(loc.e, loc.pushed)]
        /\ UNCHANGED <<progress, leaves, marked, openedPlan, events>>
    BY <1>0, <1>5 DEF ReconcilePushed, RepairBookkeeping, CycleEpoch
  <2>2. Reconciled(loc.e, loc.pushed) \in Plan
    BY <1>0, <2>1, ReconciledRows
  <2> QED BY <1>0, <2>1, <2>2 DEF TablesOK
<1>6. CASE RecordPayout
  <2>1. PICK w \in loc.record :
          rows' = [rows EXCEPT ![loc.e][w] = IF @ = 0 THEN loc.plan[w] ELSE @]
    BY <1>6 DEF RecordPayout
  <2>2. loc.e \in Epochs /\ w \in Wallets /\ loc.plan \in Plan
        /\ UNCHANGED <<progress, leaves, marked, openedPlan, events>>
    BY <1>0, <1>6, LocalsOf DEF RecordPayout, CycleEpoch, MemoryOK
  <2>3. rows \in [Epochs -> [Wallets -> U64]] /\ loc.plan[w] \in U64
    BY <1>0, <2>2 DEF TablesOK, Plan
  <2>4. rows' \in [Epochs -> [Wallets -> U64]]
    BY <2>1, <2>2, <2>3
  <2> QED BY <1>0, <2>2, <2>4 DEF TablesOK, Plan
<1>7. CASE SendFinalize
  <2>1. loc.e \in Epochs /\ progress' = SetPhase(progress, loc.e, "pushed")
        /\ UNCHANGED <<rows, leaves, marked, openedPlan, events>>
    BY <1>0, <1>7 DEF SendFinalize, SendOnly, CycleEpoch
  <2> QED BY <1>0, <2>1, SetPhaseType DEF TablesOK
<1>8. CASE WriteLeaves
  <2>1. /\ loc.e \in Epochs /\ loc.merkle \in SUBSET (Wallets \X U64)
        /\ UNCHANGED <<progress, rows, marked, openedPlan, events>>
        /\ leaves' = [leaves EXCEPT ![loc.e] =
                        {old \in @ : \A leaf \in loc.merkle : leaf[1] # old[1]} \cup loc.merkle]
    BY <1>0, <1>8, LocalsOf DEF WriteLeaves, CycleEpoch, MemoryOK
  <2> QED BY <1>0, <2>1 DEF TablesOK
<1>9. CASE MarkFinalized
  BY <1>0, <1>9 DEF MarkFinalized, TablesOK
<1>10. CASE SetFinalized
  <2>1. loc.e \in Epochs /\ progress' = SetPhase(progress, loc.e, "finalized")
        /\ UNCHANGED <<rows, leaves, marked, openedPlan, events>>
    BY <1>0, <1>10 DEF SetFinalized, CycleEpoch
  <2> QED BY <1>0, <2>1, SetPhaseType DEF TablesOK
<1>11. CASE StartCycle \/ SkipEpoch \/ Split \/ PushConfirmed \/ FinalizeConfirmed
  BY <1>1, <1>11 DEF StartCycle, SkipEpoch, Split, PushConfirmed, FinalizeConfirmed, Tables
<1>12. CASE SendOpen \/ SendPush \/ AttemptFails
  BY <1>1, <1>12 DEF SendOpen, SendPush, AttemptFails, SendOnly, Tables
<1> QED
  BY <1>2, <1>3, <1>4, <1>5, <1>6, <1>7, <1>8, <1>9, <1>10, <1>11, <1>12 DEF KeeperStep

LEMMA GotoType ==
  ASSUME MemoryOK, UNCHANGED <<net, confirmed, faults>>, NEW l \in Locals, NEW label,
         Goto(label, l), label # "wait", l.e \in Epochs \/ label \in {"gate", "idle"},
         label = "gate" => l.e \in Epochs \cup {-1}
  PROVE  MemoryOK' /\ CycleEpoch' /\ loc' = l /\ pc' = label
  BY DEF MemoryOK, CycleEpoch, Goto

LEMMA SendOK ==
  ASSUME MemoryOK, NEW l \in Locals, NEW ix \in Ix, NEW id \in Nat, NEW n \in Nat,
         Send(ix, n, id, l), faults' \in Nat, l.e \in Epochs, ix.e = l.e
  PROVE  MemoryOK' /\ CycleEpoch'
<1>1. /\ loc' \in Locals /\ SameWork(loc', l) /\ pc' = "wait"
      /\ loc'.tx = [ix |-> ix, id |-> id] /\ loc'.tx \in Tx
      /\ net' = net \cup {loc'.tx} /\ net' \in SUBSET Tx /\ confirmed' = FALSE
  BY SendType DEF MemoryOK
<1>2. loc'.e = l.e /\ loc'.tx.ix = ix
  BY <1>1 DEF SameWork
<1>3. confirmed' \in BOOLEAN
  BY <1>1
<1> QED BY <1>1, <1>2, <1>3 DEF MemoryOK, CycleEpoch

LEMMA EndCycleOK ==
  ASSUME EndCycle, net' \in SUBSET Tx, confirmed' \in BOOLEAN, faults' \in Nat
  PROVE  MemoryOK' /\ CycleEpoch'
  BY NoLocType DEF EndCycle, Goto, MemoryOK, CycleEpoch

LEMMA IxType ==
  /\ \A e \in Epochs, start, end \in Nat, plan \in Plan :
       OpenTx(e, start, end, plan) \in Ix /\ OpenTx(e, start, end, plan).e = e
  /\ \A e \in Epochs, items \in Plan : PushTx(e, items) \in Ix /\ PushTx(e, items).e = e
  /\ \A e \in Epochs, root \in SUBSET (Wallets \X U64) :
       FinalizeTx(e, root) \in Ix /\ FinalizeTx(e, root).e = e
  BY DEF OpenTx, PushTx, FinalizeTx, Ix, OpenIx, PushIx, FinalizeIx

\* The keeper's memory and the network after a step of the keeper.
LEMMA KeeperMemory ==
  ASSUME TypeInv, KeeperStep
  PROVE  MemoryOK' /\ CycleEpoch'
<1> USE DEF netVars, dbVars
<1>0. /\ TablesOK /\ MemoryOK /\ KeeperTypeOK /\ TypeOK /\ CycleEpoch /\ now \in Nat
      /\ loc \in Locals /\ net \in SUBSET Tx /\ confirmed \in BOOLEAN /\ faults \in Nat
  BY TypeParts DEF TypeInv, MemoryOK, TypeOK
<1>0a. /\ loc.plan \in Plan /\ loc.total \in U64 /\ loc.pushed \in U64 /\ loc.end \in Nat
       /\ loc.start \in Nat /\ loc.merkle \in SUBSET (Wallets \X U64) /\ loc.attempt \in Nat
       /\ loc.queue \in SUBSET Wallets /\ loc.record \in SUBSET Wallets
       /\ loc.already \in SUBSET Wallets /\ loc.pushedTotal \in Nat /\ loc.e \in Int
  BY <1>0, LocalsOf
<1>0b. pc \notin {"idle", "gate"} => loc.e \in Epochs
  BY <1>0 DEF CycleEpoch
<1>0c. \A e \in Epochs : e \in Int /\ Snapshot(e) \in Locals /\ Snapshot(e).e = e
  <2> SUFFICES ASSUME NEW e \in Epochs
               PROVE  e \in Int /\ Snapshot(e) \in Locals /\ Snapshot(e).e = e
    OBVIOUS
  <2>1. TypeOK
    BY <1>0
  <2>2. Snapshot(e) \in Locals /\ Snapshot(e).e = e
    BY <2>1, SnapshotType
  <2>3. e \in Int
    BY EpochsType
  <2> QED BY <2>2, <2>3
<1>1. CASE StartCycle
  <2> DEFINE e == LatestEpoch
             next == IF e = -1 THEN "gate"
                     ELSE IF ~epoch[e].finalized THEN "resume"
                     ELSE IF progress[e] # None /\ progress[e].phase # "finalized" THEN "repair"
                     ELSE "gate"
             l == IF e = -1 THEN [NoLoc EXCEPT !.e = -1] ELSE Snapshot(e)
  <2>1. Goto(next, l) /\ UNCHANGED <<net, confirmed, faults>>
    BY <1>1 DEF StartCycle
  <2>2. e \in Epochs \cup {-1}
    BY LatestEpochFound
  <2>2a. \A d \in Epochs : d # -1
    BY EpochsType
  <2>3. [NoLoc EXCEPT !.e = -1] \in Locals /\ [NoLoc EXCEPT !.e = -1].e = -1
    BY NoLocType DEF Locals
  <2> HIDE DEF e
  <2>4. /\ l \in Locals /\ next \in {"gate", "resume", "repair"} /\ l.e = e
        /\ next # "gate" => e # -1
    BY <1>0c, <2>2, <2>2a, <2>3
  <2> HIDE DEF l, next
  <2> QED BY <1>0, <2>1, <2>2, <2>4, GotoType
<1>2. CASE PlanEpoch
  <2>1. PICK plan \in Plans(holderVault[feeRouter][Pool]), s \in Int :
          /\ loc.e + 1 \in Epochs /\ s >= 0
          /\ Goto("open", [NoLoc EXCEPT !.e = loc.e + 1, !.start = s, !.end = now, !.plan = plan])
          /\ UNCHANGED <<net, confirmed, faults>>
    <3>1. (IF loc.e = -1 THEN now - FEE_CYCLE_SECS ELSE loc.end) \in Int
      BY <1>0, <1>0a, PayoutsAssumption
    <3> QED BY <1>2, <3>1 DEF PlanEpoch
  <2>2. holderVault[feeRouter][Pool] \in U64
    <3>1. /\ feeRouter \in Routers /\ Pool \in Pools /\ outside \in Nat
          /\ holderVault[feeRouter][Pool] \in Nat
      BY <1>0, PayoutsAssumption DEF TypeOK
    <3>2. outside + holderVault[feeRouter][Pool] <= Supply
      BY <3>1 DEF TypeInv, FundsBounded
    <3> QED BY <3>1, <3>2, DistributorAssumption DEF U64
  <2>3. plan \in Plan
    BY <2>1, <2>2, PlansType
  <2> DEFINE l == [NoLoc EXCEPT !.e = loc.e + 1, !.start = s, !.end = now, !.plan = plan]
  <2>4. l \in Locals /\ l.e = loc.e + 1
    <3>1. s \in Nat /\ loc.e + 1 \in Int
      BY <1>0a, <2>1
    <3> QED BY <1>0, <2>3, <3>1, NoLocType DEF Locals
  <2> HIDE DEF l
  <2> QED BY <1>0, <2>1, <2>4, GotoType DEF l
<1>3. CASE SkipEpoch
  BY <1>0, <1>3, EndCycleOK DEF SkipEpoch
<1>4. CASE SendOpen
  <2>1. /\ Send(OpenTx(loc.e, loc.start, loc.end, loc.plan), 1, faults, loc)
        /\ faults' = faults /\ loc.e \in Epochs
    BY <1>0b, <1>4 DEF SendOpen, SendOnly
  <2> QED BY <1>0, <1>0a, <2>1, SendOK, IxType
<1>5. CASE OpenConfirmed
  <2> DEFINE l == [Snapshot(loc.e) EXCEPT !.plan = loc.plan]
  <2>1. Goto("split", l) /\ UNCHANGED <<net, confirmed, faults>> /\ loc.e \in Epochs
    BY <1>0b, <1>5 DEF OpenConfirmed
  <2>2. l \in Locals /\ l.e = loc.e
    BY <1>0a, <1>0c, <2>1 DEF Locals
  <2> HIDE DEF l
  <2> QED BY <1>0, <2>1, <2>2, GotoType
<1>6. CASE ResumeEpoch
  <2>1. loc.e \in Epochs /\ UNCHANGED <<net, confirmed, faults>>
    BY <1>0b, <1>6 DEF ResumeEpoch
  <2> DEFINE saved == progress[loc.e] # None /\ progress[loc.e].total = loc.total
  <2>2. PICK plan \in IF saved THEN {progress[loc.e].plan} ELSE Plans(loc.total) :
          Goto("reconcile", [loc EXCEPT !.plan = plan])
    BY <1>6 DEF ResumeEpoch
  <2>3. plan \in Plan
    <3>1. progress[loc.e] # None => progress[loc.e].plan \in Plan
      BY <1>0, <2>1 DEF TablesOK, Progress
    <3> QED BY <1>0a, <2>2, <3>1, PlansType
  <2> DEFINE l == [loc EXCEPT !.plan = plan]
  <2>4. l \in Locals /\ l.e = loc.e
    BY <1>0, <2>3 DEF Locals
  <2> HIDE DEF l
  <2> QED BY <1>0, <2>1, <2>2, <2>4, GotoType DEF l
<1>7. CASE ReconcilePushed
  <2>1. loc.e \in Epochs /\ UNCHANGED <<net, confirmed, faults>>
    BY <1>0b, <1>7 DEF ReconcilePushed
  <2> DEFINE l == [loc EXCEPT !.already = {w \in Wallets : rows'[loc.e][w] > 0}]
  <2>2. Goto("split", l) \/ EndCycle
    BY <1>7 DEF ReconcilePushed
  <2>3. l \in Locals /\ l.e = loc.e
    BY <1>0 DEF Locals
  <2> HIDE DEF l
  <2> QED BY <1>0, <2>1, <2>2, <2>3, GotoType, EndCycleOK
<1>8. CASE Split
  <2>1. loc.e \in Epochs /\ UNCHANGED <<net, confirmed, faults>>
    BY <1>0b, <1>8 DEF Split
  <2>2. PICK push \in SUBSET Wallets, ws \in SUBSET Wallets :
          Goto("push", [loc EXCEPT !.queue = push, !.merkle = {<<w, loc.plan[w]>> : w \in ws},
                          !.pushedTotal = loc.pushed + SumFunctionOnSet(loc.plan, push)])
    <3> DEFINE remaining == {w \in Wallets : loc.plan[w] > 0 /\ w \notin loc.already}
    <3>1. PICK push \in SUBSET Wallets :
            Goto("push", [loc EXCEPT !.queue = push,
                            !.merkle = {<<w, loc.plan[w]>> : w \in remaining \ push},
                            !.pushedTotal = loc.pushed + SumFunctionOnSet(loc.plan, push)])
      BY <1>8 DEF Split
    <3>2. remaining \ push \in SUBSET Wallets
      OBVIOUS
    <3> HIDE DEF remaining
    <3> QED BY <3>1, <3>2
  <2>3. {<<w, loc.plan[w]>> : w \in ws} \in SUBSET (Wallets \X U64)
    BY <1>0a, LeafOfPlan
  <2>4. loc.pushed + SumFunctionOnSet(loc.plan, push) \in Nat
    <3>1. IsFiniteSet(push) /\ \A w \in push : loc.plan[w] \in Nat
      BY <1>0a, U64Type, FS_Subset, DistributorAssumption DEF Plan
    <3> DEFINE u == loc.pushed
               v == SumFunctionOnSet(loc.plan, push)
    <3> SUFFICES u + v \in Nat
      OBVIOUS
    <3>2. v \in Nat
      BY <3>1, SumNat
    <3>3. u \in Nat
      BY <1>0a, U64Type
    <3> HIDE DEF u, v
    <3> QED BY <3>2, <3>3
  <2> DEFINE l == [loc EXCEPT !.queue = push, !.merkle = {<<w, loc.plan[w]>> : w \in ws},
                     !.pushedTotal = loc.pushed + SumFunctionOnSet(loc.plan, push)]
  <2>5. l \in Locals /\ l.e = loc.e
    BY <1>0, <2>3, <2>4 DEF Locals
  <2> HIDE DEF l
  <2> QED BY <1>0, <2>1, <2>2, <2>5, GotoType DEF l
<1>9. CASE SendPush
  <2> DEFINE chunk == Chunk(loc.queue)
             l == [loc EXCEPT !.queue = @ \ chunk, !.record = chunk]
  <2>1. /\ Send(PushTx(loc.e, Items(loc.plan, chunk)), 1, faults, l)
        /\ faults' = faults /\ loc.e \in Epochs
    BY <1>0b, <1>9 DEF SendPush, SendOnly
  <2>2. chunk \in SUBSET Wallets
    BY <1>0a DEF Chunk
  <2>3. l \in Locals /\ l.e = loc.e
    BY <1>0, <2>2 DEF Locals
  <2>4. Items(loc.plan, chunk) \in Plan
    BY <1>0a, ItemsType
  <2> HIDE DEF l, chunk
  <2> QED BY <1>0, <2>1, <2>3, <2>4, SendOK, IxType
<1>10. CASE PushConfirmed \/ FinalizeConfirmed \/ WriteLeaves \/ MarkFinalized
  <2>1. loc.e \in Epochs /\ UNCHANGED <<net, confirmed, faults>>
    BY <1>0b, <1>10 DEF PushConfirmed, FinalizeConfirmed, WriteLeaves, MarkFinalized
  <2>2. \E label \in {"record", "leaves", "mark", "finalized"} : Goto(label, loc)
    BY <1>10 DEF PushConfirmed, FinalizeConfirmed, WriteLeaves, MarkFinalized
  <2> QED BY <1>0, <2>1, <2>2, GotoType
<1>11. CASE RecordPayout
  <2>1. loc.e \in Epochs /\ UNCHANGED <<net, confirmed, faults>>
    BY <1>0b, <1>11 DEF RecordPayout
  <2>2. PICK rest \in SUBSET Wallets, label \in {"push", "record"} :
          Goto(label, [loc EXCEPT !.record = rest])
    <3>1. PICK w \in loc.record :
            Goto(IF loc.record \ {w} = {} THEN "push" ELSE "record",
                 [loc EXCEPT !.record = loc.record \ {w}])
      BY <1>11 DEF RecordPayout
    <3>2. loc.record \ {w} \in SUBSET Wallets
      BY <1>0a
    <3>3. (IF loc.record \ {w} = {} THEN "push" ELSE "record") \in {"push", "record"}
      OBVIOUS
    <3> QED BY <3>1, <3>2, <3>3
  <2> DEFINE l == [loc EXCEPT !.record = rest]
  <2>3. l \in Locals /\ l.e = loc.e
    BY <1>0 DEF Locals
  <2> HIDE DEF l
  <2> QED BY <1>0, <2>1, <2>2, <2>3, GotoType DEF l
<1>12. CASE SendFinalize
  <2>0. loc.e \in Epochs
    BY <1>0b, <1>12 DEF SendFinalize
  <2>1. \/ EndCycle /\ UNCHANGED <<net, confirmed, faults>>
        \/ Send(FinalizeTx(loc.e, loc.merkle), 1, faults, loc) /\ faults' = faults
    BY <1>12 DEF SendFinalize, SendOnly
  <2> QED BY <1>0, <1>0a, <2>0, <2>1, SendOK, IxType, EndCycleOK
<1>13. CASE SetFinalized
  <2>1. loc.e \in Epochs /\ UNCHANGED <<net, confirmed, faults>>
        /\ (Goto("gate", Snapshot(loc.e)) \/ EndCycle)
    BY <1>0b, <1>13 DEF SetFinalized
  <2> QED BY <1>0, <1>0c, <2>1, GotoType, EndCycleOK
<1>14. CASE RepairBookkeeping
  <2>1. loc.e \in Epochs /\ UNCHANGED <<net, confirmed, faults>>
    BY <1>0b, <1>14 DEF RepairBookkeeping
  <2>2. PICK ws \in SUBSET Wallets :
          \/ Goto("leaves", [loc EXCEPT !.merkle = {<<w, progress[loc.e].plan[w]>> : w \in ws},
                                        !.repair = TRUE])
             /\ {<<w, progress[loc.e].plan[w]>> : w \in ws} = epoch[loc.e].merkle_root
          \/ Goto("gate", loc)
    <3> DEFINE ws == {v \in Wallets : progress[loc.e].plan[v] > 0 /\ rows'[loc.e][v] = 0}
    <3>1. ws \in SUBSET Wallets
      OBVIOUS
    <3>2. \/ Goto("leaves", [loc EXCEPT !.merkle = {<<w, progress[loc.e].plan[w]>> : w \in ws},
                                        !.repair = TRUE])
             /\ {<<w, progress[loc.e].plan[w]>> : w \in ws} = epoch[loc.e].merkle_root
          \/ Goto("gate", loc)
      BY <1>14 DEF RepairBookkeeping
    <3> HIDE DEF ws
    <3> QED BY <3>1, <3>2
  <2> DEFINE root == {<<w, progress[loc.e].plan[w]>> : w \in ws}
             l == [loc EXCEPT !.merkle = root, !.repair = TRUE]
  <2>3. root = epoch[loc.e].merkle_root => root \in SUBSET (Wallets \X U64)
    <3>1. epoch[loc.e].merkle_root \in SUBSET (Wallets \X U64)
      BY <1>0, <2>1 DEF TypeOK, EpochAccount
    <3> QED BY <3>1
  <2> HIDE DEF root
  <2>4. root \in SUBSET (Wallets \X U64) => l \in Locals /\ l.e = loc.e
    BY <1>0 DEF Locals
  <2>5. (Goto("leaves", l) /\ root = epoch[loc.e].merkle_root) \/ Goto("gate", loc)
    BY <2>2 DEF root
  <2> HIDE DEF l
  <2> QED BY <1>0, <2>1, <2>3, <2>4, <2>5, GotoType
<1>15. CASE AttemptFails
  <2>0. faults' \in Nat /\ pc = "wait" /\ loc.e \in Epochs
    BY <1>0, <1>0b, <1>15 DEF AttemptFails
  <2>1. loc.tx \in Tx /\ loc.tx.ix.e = loc.e /\ loc.tx.ix \in Ix
    BY <1>0, <2>0 DEF CycleEpoch, Tx
  <2>2. \/ Send(loc.tx.ix, loc.attempt + 1, faults', loc)
        \/ EndCycle /\ UNCHANGED <<net, confirmed>>
    BY <1>15 DEF AttemptFails
  <2>3. CASE Send(loc.tx.ix, loc.attempt + 1, faults', loc)
    <3>1. loc.attempt + 1 \in Nat
      BY <1>0a
    <3> QED BY <1>0, <2>0, <2>1, <2>3, <3>1, SendOK
  <2> QED BY <1>0, <2>0, <2>2, <2>3, EndCycleOK
<1> QED
  BY <1>1, <1>2, <1>3, <1>4, <1>5, <1>6, <1>7, <1>8, <1>9, <1>10, <1>11, <1>12, <1>13, <1>14,
     <1>15 DEF KeeperStep

\* The other steps leave the keeper's memory alone, but for a crash.
LEMMA OtherSteps ==
  ASSUME TypeInv, PayoutsNext, ~KeeperStep
  PROVE  TablesOK' /\ MemoryOK' /\ CycleEpoch'
<1> USE DEF netVars, dbVars, keeperVars
<1>0. /\ TablesOK /\ MemoryOK /\ CycleEpoch
      /\ loc \in Locals /\ net \in SUBSET Tx /\ confirmed \in BOOLEAN /\ faults \in Nat
  BY TypeParts DEF TypeInv, MemoryOK
\* What keeps the cycle's place keeps what it knows of it.
<1>a. ASSUME UNCHANGED <<pc, loc>>, net' \in SUBSET Tx, confirmed' \in BOOLEAN, faults' \in Nat
      PROVE  MemoryOK' /\ CycleEpoch'
  BY <1>0, <1>a DEF MemoryOK, CycleEpoch
<1>1. ASSUME NEW tx \in net, Land(tx) PROVE TablesOK' /\ MemoryOK' /\ CycleEpoch'
  <2>1. /\ UNCHANGED <<pc, loc, progress, rows, leaves, marked, faults>>
        /\ net' = net \ {tx} /\ confirmed' \in BOOLEAN
        /\ events' = IF tx.ix.op # "push" THEN events
                     ELSE [events EXCEPT ![tx.ix.e] = Append(@, tx.ix.items)]
        /\ openedPlan' = IF tx.ix.op # "open" THEN openedPlan
                         ELSE [openedPlan EXCEPT ![tx.ix.e] = tx.ix.plan]
    BY <1>0, <1>1 DEF Land
  <2>2. /\ tx.ix.e \in Epochs /\ (tx.ix.op = "push" => tx.ix.items \in Plan)
        /\ (tx.ix.op = "open" => tx.ix.plan \in Plan)
    BY <1>1, LandCases
  <2>3. events' \in [Epochs -> Seq(Plan)]
    <3>1. tx.ix.op = "push" => Append(events[tx.ix.e], tx.ix.items) \in Seq(Plan)
      BY <1>0, <2>2, AppendProperties DEF TablesOK
    <3>2. events \in [Epochs -> Seq(Plan)]
      BY <1>0 DEF TablesOK
    <3> QED BY <2>1, <2>2, <3>1, <3>2
  <2>4. openedPlan' \in [Epochs -> Plan \cup {None}]
    BY <1>0, <2>1, <2>2 DEF TablesOK
  <2>5. TablesOK'
    BY <1>0, <2>1, <2>3, <2>4 DEF TablesOK
  <2>6. net' \in SUBSET Tx /\ faults' \in Nat
    BY <1>0, <2>1
  <2> QED BY <1>a, <2>1, <2>5, <2>6
<1>2. ASSUME NEW tx \in net, Reject(tx) \/ Drop(tx) PROVE TablesOK' /\ MemoryOK' /\ CycleEpoch'
  <2>1. /\ UNCHANGED <<pc, loc, confirmed>> /\ UNCHANGED Tables
        /\ net' = net \ {tx} /\ (faults' = faults \/ faults' = faults + 1)
    BY <1>2 DEF Reject, Drop, Tables
  <2>2. net' \in SUBSET Tx /\ faults' \in Nat /\ confirmed' \in BOOLEAN
    BY <1>0, <2>1
  <2> QED BY <1>0, <1>a, <2>1, <2>2, TypeParts
<1>3. CASE Crash
  <2>1. /\ EndCycle /\ confirmed' = FALSE /\ net' = net /\ faults' = faults + 1
        /\ UNCHANGED Tables
    BY <1>3 DEF Crash, Tables
  <2>2. faults' \in Nat /\ net' \in SUBSET Tx
    BY <1>0, <2>1
  <2>3. confirmed' \in BOOLEAN
    BY <2>1
  <2> QED BY <1>0, <2>1, <2>2, <2>3, EndCycleOK, TypeParts
<1>4. CASE ChangePushCap \/ Surroundings \/ \E w \in Wallets, e \in Epochs : ClaimServed(w, e)
  <2>1. /\ UNCHANGED <<pc, loc, net, confirmed>> /\ UNCHANGED Tables
        /\ (faults' = faults \/ faults' = faults + 1)
    BY <1>4 DEF ChangePushCap, Surroundings, ClaimServed, Tables
  <2>2. confirmed' \in BOOLEAN /\ faults' \in Nat /\ net' \in SUBSET Tx
    BY <1>0, <2>1
  <2> QED BY <1>0, <1>a, <2>1, <2>2, TypeParts
<1>5. ASSUME NEW e \in Epochs, NEW i \in DOMAIN events[e], NEW w \in Wallets, IndexPayout(e, i, w)
      PROVE  TablesOK' /\ MemoryOK' /\ CycleEpoch'
  <2>1. /\ UNCHANGED <<pc, loc, net, confirmed, faults, progress, leaves, marked, openedPlan, events>>
        /\ rows' = [rows EXCEPT ![e][w] = events[e][i][w]]
    BY <1>5 DEF IndexPayout
  <2>2. events[e] \in Seq(Plan)
    BY <1>0 DEF TablesOK
  <2>3. events[e][i] \in Plan
    BY <2>2, ElementOfSeq, LenProperties
  <2>4. rows \in [Epochs -> [Wallets -> U64]] /\ events[e][i][w] \in U64
    BY <1>0, <2>3 DEF TablesOK, Plan
  <2>5. rows' \in [Epochs -> [Wallets -> U64]]
    BY <2>1, <2>4
  <2>6. TablesOK'
    BY <1>0, <2>1, <2>5 DEF TablesOK, Plan
  <2>7. confirmed' \in BOOLEAN /\ faults' \in Nat /\ net' \in SUBSET Tx
    BY <1>0, <2>1
  <2> QED BY <1>a, <2>1, <2>6, <2>7
<1> QED BY <1>1, <1>2, <1>3, <1>4, <1>5 DEF PayoutsNext, NetworkStep

LEMMA NextTypes == TypeInv /\ [PayoutsNext]_payoutsVars => TypeInv'
<1> SUFFICES ASSUME TypeInv, [PayoutsNext]_payoutsVars PROVE TypeInv'
  OBVIOUS
<1>1. [Next]_vars /\ FundsBounded'
  BY StepOfDistributor, NextFunds
<1>2. TypeOK /\ IInv /\ \A e \in Epochs : Books(e)
  BY DEF TypeInv
<1>3. TypeOK'
  BY <1>1, <1>2, NextTypeOK
<1>4. IInv'
  BY <1>1, <1>2, <1>3, NextIInv
<1>5. \A e \in Epochs : Books(e)'
  BY <1>1, <1>2, <1>3, NextBooks
<1>6. KeeperTypeOK' /\ CycleEpoch'
  <2>1. CASE KeeperStep
    <3>1. TablesOK' /\ MemoryOK' /\ CycleEpoch'
      BY <2>1, KeeperTables, KeeperMemory
    <3> QED BY <3>1, TypeParts, PTL
  <2>2. CASE PayoutsNext /\ ~KeeperStep
    <3>1. TablesOK' /\ MemoryOK' /\ CycleEpoch'
      BY <2>2, OtherSteps
    <3> QED BY <3>1, TypeParts, PTL
  <2>3. CASE UNCHANGED payoutsVars
    <3>1. UNCHANGED <<progress, rows, leaves, marked, openedPlan, events, pc, loc, net, confirmed, faults>>
      BY <2>3 DEF payoutsVars, keeperVars, dbVars, netVars
    <3>2. KeeperTypeOK /\ CycleEpoch
      BY DEF TypeInv
    <3>3. KeeperTypeOK'
      BY <3>1, <3>2 DEF KeeperTypeOK
    <3>4. CycleEpoch'
      BY <3>1, <3>2 DEF CycleEpoch
    <3> QED BY <3>3, <3>4
  <2> QED BY <2>1, <2>2, <2>3
<1> QED BY <1>1, <1>3, <1>4, <1>5, <1>6 DEF TypeInv

LEMMA InitTypes == PayoutsInit => TypeInv
<1> SUFFICES ASSUME PayoutsInit PROVE TypeInv
  OBVIOUS
<1>1. TypeOK /\ IInv /\ \A e \in Epochs : Books(e)
  BY InitTypeOK, InitIInv, InitBooks DEF PayoutsInit
<1>2. FundsBounded
  <2>1. /\ outside = Supply /\ \A r \in Routers, p \in Pools : holderVault[r][p] = 0
        /\ Supply \in Nat
    BY DistributorAssumption, U64Type DEF PayoutsInit, Init
  <2> QED BY <2>1 DEF FundsBounded
<1>3. KeeperTypeOK
  <2>1. <<>> \in Seq(Plan) /\ NoPlan \in Plan
    BY EmptySeq, U64Type
  <2> QED BY <2>1, NoLocType DEF PayoutsInit, KeeperTypeOK
<1>4. CycleEpoch
  BY DEF PayoutsInit, CycleEpoch
<1> QED BY <1>1, <1>2, <1>3, <1>4 DEF TypeInv

LEMMA TypesInductive == PayoutsSpec => []TypeInv
  BY InitTypes, NextTypes, PTL DEF PayoutsSpec

\* The payout cycle drives the distributor program within its rules: whatever
\* the keeper sends, resends and replays, a behavior of the cycle, its database
\* and the network is one of the program, so what is proved of the program
\* (solvency, no over-allocation, books that match, claims once) holds of it.
THEOREM PayoutsRunTheDistributor == PayoutsSpec => Spec
<1>1. PayoutsInit => Init
  BY DEF PayoutsInit
<1>2. TypeInv /\ [PayoutsNext]_payoutsVars => [Next]_vars
  BY StepOfDistributor
<1> QED BY <1>1, <1>2, TypesInductive, PTL DEF PayoutsSpec, Spec

-----------------------------------------------------------------------------
(***************************************************************************)
(* What a step does to the chain                                           *)
(***************************************************************************)
\* Claims aside, nothing happens to the epoch.
SameChain(e) ==
  /\ epoch'[e].exists = epoch[e].exists
  /\ epoch'[e].total_amount = epoch[e].total_amount
  /\ epoch'[e].pushed_amount = epoch[e].pushed_amount
  /\ epoch'[e].merkle_root = epoch[e].merkle_root
  /\ epoch'[e].finalized = epoch[e].finalized
  /\ \A w \in Wallets : Pushed(e, w)' = Pushed(e, w)

LEMMA PushedType ==
  ASSUME TypeOK
  PROVE  \A e \in Epochs, w \in Wallets :
           Pushed(e, w) \in Int /\ paid[e][w] \in Nat /\ claimed[e][w] \in Nat
<1> SUFFICES ASSUME NEW e \in Epochs, NEW w \in Wallets
             PROVE  Pushed(e, w) \in Int /\ paid[e][w] \in Nat /\ claimed[e][w] \in Nat
  OBVIOUS
<1>1. paid[e][w] \in Nat
  BY DEF TypeOK
<1>2. claimed[e][w] \in U64
  BY DEF TypeOK
<1>3. claimed[e][w] \in Nat
  BY <1>2, U64Nat
<1> QED BY <1>1, <1>3 DEF Pushed

LEMMA FinalizedExists ==
  ASSUME TypeInv, NEW e \in Epochs, epoch[e].finalized
  PROVE  epoch[e].exists
<1>1. EpochInv(e)
  BY DEF TypeInv, IInv
<1> QED BY <1>1 DEF EpochInv, NoEpoch

\* A claim is paid in the amount of its receipt.
LEMMA ClaimEffect ==
  ASSUME TypeInv, NEW w \in Wallets, NEW e \in Epochs, ClaimServed(w, e)
  PROVE  \E amount \in U64 :
           /\ amount > 0 /\ claimed[e][w] = 0 /\ <<w, amount>> \in epoch[e].merkle_root
           /\ epoch[e].exists /\ epoch[e].finalized
           /\ paid' = [paid EXCEPT ![e][w] = @ + amount]
           /\ claimed' = [claimed EXCEPT ![e][w] = amount]
           /\ \A f \in Epochs : SameChain(f)
           /\ UNCHANGED <<keeperVars, dbVars, netVars, faults>>
<1>1. PICK leaf \in leaves[e] : leaf[1] = w /\ Claim(w, e, leaf[2])
  BY DEF ClaimServed
<1> DEFINE amount == leaf[2]
<1>2. amount \in U64 /\ leaves[e] \in SUBSET (Wallets \X U64)
  BY <1>1 DEF TypeInv, KeeperTypeOK
<1> HIDE DEF amount
<1>3. /\ amount > 0 /\ claimed[e][w] = 0 /\ <<w, amount>> \in epoch[e].merkle_root
      /\ epoch[e].exists /\ epoch[e].finalized
      /\ paid' = [paid EXCEPT ![e][w] = @ + amount]
      /\ claimed' = [claimed EXCEPT ![e][w] = amount]
      /\ epoch' = [epoch EXCEPT ![e].claimed_amount = @ + amount]
  BY <1>1 DEF Claim, Claimable, Verify, amount
<1>4. /\ epoch \in [Epochs -> EpochAccount] /\ paid \in [Epochs -> [Wallets -> Nat]]
      /\ claimed \in [Epochs -> [Wallets -> U64]] /\ TypeOK
  BY DEF TypeInv, TypeOK
<1>5. ASSUME NEW f \in Epochs PROVE SameChain(f)
  <2>1. /\ epoch'[f].exists = epoch[f].exists
        /\ epoch'[f].total_amount = epoch[f].total_amount
        /\ epoch'[f].pushed_amount = epoch[f].pushed_amount
        /\ epoch'[f].merkle_root = epoch[f].merkle_root
        /\ epoch'[f].finalized = epoch[f].finalized
    BY <1>3, <1>4 DEF EpochAccount
  <2>2. ASSUME NEW v \in Wallets PROVE Pushed(f, v)' = Pushed(f, v)
    <3>1. CASE f = e /\ v = w
      <4>1. paid'[f][v] = paid[f][v] + amount /\ claimed'[f][v] = amount /\ claimed[f][v] = 0
        BY <1>3, <1>4, <3>1
      <4>2. paid[f][v] \in Nat /\ amount \in Nat
        BY <1>2, <1>4, U64Type
      <4> QED BY <4>1, <4>2 DEF Pushed
    <3>2. CASE ~(f = e /\ v = w)
      <4>1. paid'[f][v] = paid[f][v] /\ claimed'[f][v] = claimed[f][v]
        BY <1>3, <1>4, <3>2
      <4> QED BY <4>1 DEF Pushed
    <3> QED BY <3>1, <3>2
  <2> QED BY <2>1, <2>2 DEF SameChain
<1> QED BY <1>2, <1>3, <1>5 DEF ClaimServed

LEMMA QuietChain ==
  ASSUME TypeInv, PayoutsNext, ~ \E tx \in net : Land(tx)
  PROVE  /\ \A f \in Epochs : SameChain(f)
         /\ UNCHANGED <<events, openedPlan>>
<1>1. ASSUME UNCHANGED <<epoch, paid, claimed>> PROVE \A f \in Epochs : SameChain(f)
  BY <1>1 DEF SameChain, Pushed
<1>2. \A f \in Epochs : SameChain(f)
  <2>1. CASE ChangePushCap
    BY <1>1, <2>1 DEF ChangePushCap, SetParams
  <2>2. CASE Surroundings
    BY <1>1, <2>2 DEF Surroundings, Tick, AccrueFees
  <2>3. CASE \E w \in Wallets, e \in Epochs : ClaimServed(w, e)
    BY <2>3, ClaimEffect
  <2>4. CASE UNCHANGED vars
    BY <1>1, <2>4 DEF vars
  <2> QED BY <2>1, <2>2, <2>3, <2>4, ChainSteps
<1>3. UNCHANGED <<events, openedPlan>>
  <2> USE DEF netVars
  <2>1. CASE StartCycle \/ PlanEpoch \/ SkipEpoch \/ OpenConfirmed \/ ResumeEpoch \/ ReconcilePushed
    BY <2>1 DEF StartCycle, PlanEpoch, SkipEpoch, OpenConfirmed, ResumeEpoch, ReconcilePushed
  <2>2. CASE Split \/ PushConfirmed \/ RecordPayout \/ FinalizeConfirmed \/ WriteLeaves
    BY <2>2 DEF Split, PushConfirmed, RecordPayout, FinalizeConfirmed, WriteLeaves
  <2>3. CASE MarkFinalized \/ SetFinalized \/ RepairBookkeeping \/ AttemptFails \/ Crash
    BY <2>3 DEF MarkFinalized, SetFinalized, RepairBookkeeping, AttemptFails, Crash
  <2>4. CASE SendOpen \/ SendPush \/ SendFinalize
    BY <2>4 DEF SendOpen, SendPush, SendFinalize, SendOnly
  <2>5. CASE \E tx \in net : Reject(tx) \/ Drop(tx)
    BY <2>5 DEF Reject, Drop
  <2>6. CASE \E e \in Epochs : \E i \in DOMAIN events[e], w \in Wallets : IndexPayout(e, i, w)
    BY <2>6 DEF IndexPayout
  <2>7. CASE ChangePushCap \/ Surroundings \/ \E w \in Wallets, e \in Epochs : ClaimServed(w, e)
    BY <2>7 DEF ChangePushCap, Surroundings, ClaimServed
  <2> QED
    BY <2>1, <2>2, <2>3, <2>4, <2>5, <2>6, <2>7 DEF PayoutsNext, KeeperStep, NetworkStep
<1> QED BY <1>2, <1>3

\* What a landing leaves alone, whatever lands.
LandFrame(tx) ==
  /\ net' = net \ {tx} /\ confirmed' = (confirmed \/ tx = loc.tx)
  /\ UNCHANGED <<keeperVars, dbVars, faults>>

LEMMA OpenLands ==
  ASSUME TypeInv, NEW tx \in net, Land(tx), tx.ix.op = "open"
  PROVE  /\ LandFrame(tx) /\ tx.ix \in OpenIx /\ tx.ix.e \in Epochs
         /\ ~epoch[tx.ix.e].exists
         /\ epoch'[tx.ix.e].exists /\ ~epoch'[tx.ix.e].finalized
         /\ epoch'[tx.ix.e].total_amount = Amount(tx.ix.plan) /\ Amount(tx.ix.plan) > 0
         /\ \A w \in Wallets : Pushed(tx.ix.e, w)' = Pushed(tx.ix.e, w)
         /\ \A f \in Epochs : f # tx.ix.e => SameChain(f)
         /\ UNCHANGED <<events, paid, claimed>>
         /\ openedPlan' = [openedPlan EXCEPT ![tx.ix.e] = tx.ix.plan]
<1> DEFINE ix == tx.ix
<1>1. /\ ix.e \in Epochs /\ tx \in Tx
      /\ OpenEpochRouter(Keeper, ix.e, ix.start, ix.end, Amount(ix.plan))
  BY LandCases
<1>2. ix \in OpenIx
  BY <1>1 DEF Tx, Ix, OpenIx, PushIx, FinalizeIx
<1>3. /\ ~epoch[ix.e].exists /\ Amount(ix.plan) > 0
      /\ epoch' = [epoch EXCEPT ![ix.e] = Opened(ix.start, ix.end, Amount(ix.plan))]
      /\ UNCHANGED <<paid, claimed>>
  BY <1>1 DEF OpenEpochRouter, CanOpen
<1>4. epoch \in [Epochs -> EpochAccount]
  BY DEF TypeInv, TypeOK
<1>5. /\ LandFrame(tx) /\ events' = events
      /\ openedPlan' = [openedPlan EXCEPT ![ix.e] = ix.plan]
  BY DEF Land, LandFrame
<1>6. /\ epoch'[ix.e].exists /\ ~epoch'[ix.e].finalized
      /\ epoch'[ix.e].total_amount = Amount(ix.plan)
  BY <1>1, <1>3, <1>4 DEF Opened, NoEpoch
<1>7. \A f \in Epochs : f # ix.e => SameChain(f)
  BY <1>3, <1>4 DEF SameChain, Pushed
<1>8. \A w \in Wallets : Pushed(ix.e, w)' = Pushed(ix.e, w)
  BY <1>3 DEF Pushed
<1> QED BY <1>1, <1>2, <1>3, <1>5, <1>6, <1>7, <1>8

LEMMA PushLands ==
  ASSUME TypeInv, NEW tx \in net, Land(tx), tx.ix.op = "push"
  PROVE  /\ LandFrame(tx) /\ tx.ix \in PushIx /\ tx.ix.e \in Epochs
         /\ epoch[tx.ix.e].exists /\ ~epoch[tx.ix.e].finalized
         /\ epoch'[tx.ix.e].exists /\ ~epoch'[tx.ix.e].finalized
         /\ epoch'[tx.ix.e].total_amount = epoch[tx.ix.e].total_amount
         /\ epoch'[tx.ix.e].merkle_root = epoch[tx.ix.e].merkle_root
         /\ \A w \in Wallets : Pushed(tx.ix.e, w)' = Pushed(tx.ix.e, w) + tx.ix.items[w]
         /\ \A f \in Epochs : f # tx.ix.e => SameChain(f)
         /\ events' = [events EXCEPT ![tx.ix.e] = Append(@, tx.ix.items)]
         /\ openedPlan' = openedPlan /\ claimed' = claimed
         /\ paid' = [paid EXCEPT ![tx.ix.e] = [w \in Wallets |-> @[w] + tx.ix.items[w]]]
<1> DEFINE ix == tx.ix
<1>1. ix.e \in Epochs /\ tx \in Tx /\ ix.items \in Plan /\ PushPayouts(Keeper, ix.e, ix.items)
  BY LandCases
<1>2. ix \in PushIx
  BY <1>1 DEF Tx, Ix, OpenIx, PushIx, FinalizeIx
<1>3. PICK sum \in U64 : epoch' = [epoch EXCEPT ![ix.e].pushed_amount = @ + sum]
  BY <1>1 DEF PushPayouts
<1>4. /\ epoch[ix.e].exists /\ ~epoch[ix.e].finalized /\ claimed' = claimed
      /\ paid' = [paid EXCEPT ![ix.e] = [w \in Wallets |-> @[w] + ix.items[w]]]
  BY <1>1 DEF PushPayouts
<1>5. /\ epoch \in [Epochs -> EpochAccount] /\ paid \in [Epochs -> [Wallets -> Nat]]
      /\ claimed \in [Epochs -> [Wallets -> U64]]
  BY DEF TypeInv, TypeOK
<1>6. /\ LandFrame(tx) /\ openedPlan' = openedPlan
      /\ events' = [events EXCEPT ![ix.e] = Append(@, ix.items)]
  BY DEF Land, LandFrame
<1>7. /\ epoch'[ix.e].exists /\ ~epoch'[ix.e].finalized
      /\ epoch'[ix.e].total_amount = epoch[ix.e].total_amount
      /\ epoch'[ix.e].merkle_root = epoch[ix.e].merkle_root
  BY <1>1, <1>3, <1>4, <1>5 DEF EpochAccount
<1>8. \A f \in Epochs : f # ix.e => SameChain(f)
  BY <1>3, <1>4, <1>5 DEF SameChain, Pushed
<1>9. ASSUME NEW w \in Wallets PROVE Pushed(ix.e, w)' = Pushed(ix.e, w) + ix.items[w]
  <2>1. paid'[ix.e][w] = paid[ix.e][w] + ix.items[w]
    BY <1>1, <1>4, <1>5
  <2>2. paid[ix.e][w] \in Int /\ ix.items[w] \in Int /\ claimed[ix.e][w] \in Int
    <3>1. ix.items[w] \in U64
      BY <1>1 DEF Plan
    <3>2. claimed[ix.e][w] \in U64 /\ paid[ix.e][w] \in Nat
      BY <1>1, <1>5
    <3> HIDE DEF ix
    <3> QED BY <3>1, <3>2, U64Nat
  <2> QED BY <1>4, <2>1, <2>2 DEF Pushed
<1> QED BY <1>1, <1>2, <1>4, <1>6, <1>7, <1>8, <1>9

LEMMA FinalizeLands ==
  ASSUME TypeInv, NEW tx \in net, Land(tx), tx.ix.op = "finalize"
  PROVE  /\ LandFrame(tx) /\ tx.ix \in FinalizeIx /\ tx.ix.e \in Epochs
         /\ epoch[tx.ix.e].exists /\ ~epoch[tx.ix.e].finalized
         /\ epoch'[tx.ix.e].exists /\ epoch'[tx.ix.e].finalized
         /\ epoch'[tx.ix.e].merkle_root = tx.ix.root
         /\ epoch'[tx.ix.e].total_amount = epoch[tx.ix.e].total_amount
         /\ LeafTotal(tx.ix.root) <= epoch[tx.ix.e].total_amount - epoch[tx.ix.e].pushed_amount
         /\ \A w \in Wallets : Pushed(tx.ix.e, w)' = Pushed(tx.ix.e, w)
         /\ \A f \in Epochs : f # tx.ix.e => SameChain(f)
         /\ UNCHANGED <<events, openedPlan, paid, claimed>>
<1> DEFINE ix == tx.ix
<1>1. /\ ix.e \in Epochs /\ tx \in Tx
      /\ FinalizeEpoch(Keeper, ix.e, ix.root, LeafTotal(ix.root))
  BY LandCases
<1>2. ix \in FinalizeIx
  BY <1>1 DEF Tx, Ix, OpenIx, PushIx, FinalizeIx
<1>3. /\ epoch[ix.e].exists /\ ~epoch[ix.e].finalized /\ LeafTotal(ix.root) <= Remainder(ix.e)
      /\ epoch' = [epoch EXCEPT ![ix.e].merkle_root = ix.root,
                                ![ix.e].merkle_total = LeafTotal(ix.root),
                                ![ix.e].finalized = TRUE]
      /\ UNCHANGED <<paid, claimed>>
  BY <1>1 DEF FinalizeEpoch
<1>4. epoch \in [Epochs -> EpochAccount]
  BY DEF TypeInv, TypeOK
<1>5. LandFrame(tx) /\ UNCHANGED <<events, openedPlan>>
  BY DEF Land, LandFrame
<1>6. /\ epoch'[ix.e].exists /\ epoch'[ix.e].finalized
      /\ epoch'[ix.e].total_amount = epoch[ix.e].total_amount
      /\ epoch'[ix.e].merkle_root = ix.root
  BY <1>1, <1>3, <1>4 DEF EpochAccount
<1>7. \A f \in Epochs : f # ix.e => SameChain(f)
  BY <1>3, <1>4 DEF SameChain, Pushed
<1>8. \A w \in Wallets : Pushed(ix.e, w)' = Pushed(ix.e, w)
  BY <1>3 DEF Pushed
<1> QED BY <1>1, <1>2, <1>3, <1>5, <1>6, <1>7, <1>8 DEF Remainder

LEMMA LandKinds ==
  ASSUME TypeInv, NEW tx \in net, Land(tx)
  PROVE  tx.ix.op \in {"open", "push", "finalize"}
  BY LandCases

-----------------------------------------------------------------------------
(***************************************************************************)
(* What a step does to the database                                        *)
(***************************************************************************)
\* A stored plan is written once, and from the moment the keeper starts on
\* the epoch it is there for good.
Keeps(table, e) ==
  /\ progress[e] # None => table[e] # None
  /\ Started(e) => /\ table[e] # None /\ table[e].phase # "planned"
                   /\ table[e].plan = progress[e].plan /\ table[e].total = progress[e].total

LEMMA SetPhaseKeeps ==
  ASSUME NEW table \in [Epochs -> Progress \cup {None}], NEW e \in Epochs,
         NEW phase \in {"opened", "pushed", "finalized"}
  PROVE  /\ \A f \in Epochs : f # e => SetPhase(table, e, phase)[f] = table[f]
         /\ table[e] = None => SetPhase(table, e, phase)[e] = None
         /\ table[e] # None =>
              /\ SetPhase(table, e, phase)[e] # None
              /\ SetPhase(table, e, phase)[e].phase = phase
              /\ SetPhase(table, e, phase)[e].plan = table[e].plan
              /\ SetPhase(table, e, phase)[e].total = table[e].total
<1>1. CASE table[e] = None
  BY <1>1 DEF SetPhase
<1>2. CASE table[e] # None
  <2> DEFINE row == [table[e] EXCEPT !.phase = phase]
  <2>1. table[e] \in Progress
    BY <1>2
  <2>2. /\ row \in Progress /\ row.phase = phase
        /\ row.plan = table[e].plan /\ row.total = table[e].total
    BY <2>1 DEF Progress
  <2>3. row # None
    BY <2>2, PayoutsAssumption
  <2>4. SetPhase(table, e, phase) = [table EXCEPT ![e] = row]
    BY <1>2 DEF SetPhase
  <2> HIDE DEF row
  <2> QED BY <1>2, <2>2, <2>3, <2>4
<1> QED BY <1>1, <1>2

LEMMA SavePlanElsewhere ==
  ASSUME TypeInv, NEW e, NEW total, NEW plan, NEW f \in Epochs, f # e
  PROVE  SavePlan(e, total, plan)[f] = progress[f]
  BY DEF SavePlan, TypeInv, KeeperTypeOK

LEMMA SavePlanKeeps ==
  ASSUME TypeInv, NEW e \in Epochs, NEW total \in U64, NEW plan \in Plan
  PROVE  /\ SavePlan(e, total, plan)[e] # None
         /\ Started(e) => SavePlan(e, total, plan)[e] = progress[e]
         /\ ~Started(e) =>
              SavePlan(e, total, plan)[e] = [phase |-> "planned", total |-> total, plan |-> plan]
<1> DEFINE row == [phase |-> "planned", total |-> total, plan |-> plan]
<1>1. row \in Progress /\ row # None
  BY PayoutsAssumption DEF Progress
<1>2. progress \in [Epochs -> Progress \cup {None}]
  BY DEF TypeInv, KeeperTypeOK
<1>3. CASE Started(e)
  BY <1>3 DEF SavePlan, Started
<1>4. CASE ~Started(e)
  <2>1. SavePlan(e, total, plan) = [progress EXCEPT ![e] = row]
    BY <1>4 DEF SavePlan, Started
  <2> HIDE DEF row
  <2>2. \A f \in Epochs : SavePlan(e, total, plan)[f] = IF f = e THEN row ELSE progress[f]
    BY <1>2, <2>1
  <2> QED BY <1>1, <1>4, <2>2 DEF row
<1> QED BY <1>3, <1>4

\* The steps that write the progress table.
LEMMA ProgressSteps ==
  ASSUME TypeInv, PayoutsNext
  PROVE  \/ UNCHANGED progress
         \/ /\ PlanEpoch
            /\ \E total \in U64 : \E plan \in Plans(total) \ {NoPlan} :
                 loc.e + 1 \in Epochs /\ progress' = SavePlan(loc.e + 1, total, plan)
         \/ OpenConfirmed /\ progress' = SetPhase(progress, loc.e, "opened")
         \/ /\ ResumeEpoch
            /\ \/ progress' = SetPhase(progress, loc.e, "opened")
               \/ \E plan \in Plans(loc.total) :
                    progress' = SetPhase(SavePlan(loc.e, loc.total, plan), loc.e, "opened")
         \/ SendFinalize /\ progress' = SetPhase(progress, loc.e, "pushed")
         \/ SetFinalized /\ progress' = SetPhase(progress, loc.e, "finalized")
<1> USE DEF netVars, dbVars
<1>1. CASE PlanEpoch
  <2> DEFINE total == holderVault[feeRouter][Pool]
  <2>1. total \in U64
    <3>1. /\ feeRouter \in Routers /\ Pool \in Pools /\ outside \in Nat /\ total \in Nat
      BY PayoutsAssumption DEF TypeInv, TypeOK
    <3>2. outside + total <= Supply
      BY <3>1 DEF TypeInv, FundsBounded
    <3> QED BY <3>1, <3>2, DistributorAssumption DEF U64
  <2> HIDE DEF total
  <2>2. \E plan \in Plans(total) \ {NoPlan} :
          loc.e + 1 \in Epochs /\ progress' = SavePlan(loc.e + 1, total, plan)
    BY <1>1 DEF PlanEpoch, total
  <2> QED BY <1>1, <2>1, <2>2
<1>2. CASE OpenConfirmed
  BY <1>2 DEF OpenConfirmed
<1>3. CASE ResumeEpoch
  <2> DEFINE saved == progress[loc.e] # None /\ progress[loc.e].total = loc.total
  <2>1. PICK plan \in IF saved THEN {progress[loc.e].plan} ELSE Plans(loc.total) :
          progress' = SetPhase(IF saved THEN progress ELSE SavePlan(loc.e, loc.total, plan),
                               loc.e, "opened")
    BY <1>3 DEF ResumeEpoch
  <2> HIDE DEF saved
  <2> QED BY <1>3, <2>1
<1>4. CASE SendFinalize
  BY <1>4 DEF SendFinalize
<1>5. CASE SetFinalized
  BY <1>5 DEF SetFinalized
<1>6. CASE \/ StartCycle \/ SkipEpoch \/ SendOpen \/ ReconcilePushed \/ Split \/ SendPush
           \/ PushConfirmed
  BY <1>6 DEF StartCycle, SkipEpoch, SendOpen, ReconcilePushed, Split, SendPush, PushConfirmed
<1>7. CASE \/ RecordPayout \/ FinalizeConfirmed \/ WriteLeaves \/ MarkFinalized
           \/ RepairBookkeeping \/ AttemptFails \/ Crash
  BY <1>7 DEF RecordPayout, FinalizeConfirmed, WriteLeaves, MarkFinalized, RepairBookkeeping,
              AttemptFails, Crash
<1>8. CASE \E tx \in net : Land(tx) \/ Reject(tx) \/ Drop(tx)
  BY <1>8 DEF Land, Reject, Drop
<1>9. CASE \E e \in Epochs : \E i \in DOMAIN events[e], w \in Wallets : IndexPayout(e, i, w)
  BY <1>9 DEF IndexPayout
<1>10. CASE ChangePushCap \/ Surroundings \/ \E w \in Wallets, e \in Epochs : ClaimServed(w, e)
  BY <1>10 DEF ChangePushCap, Surroundings, ClaimServed
<1> QED
  BY <1>1, <1>2, <1>3, <1>4, <1>5, <1>6, <1>7, <1>8, <1>9, <1>10
     DEF PayoutsNext, KeeperStep, NetworkStep

LEMMA ProgressKept ==
  ASSUME TypeInv, PayoutsNext, NEW f \in Epochs
  PROVE  Keeps(progress', f)
<1>0. /\ progress \in [Epochs -> Progress \cup {None}] /\ loc.total \in U64
      /\ pc \notin {"idle", "gate"} => loc.e \in Epochs
  BY LocalsOf DEF TypeInv, KeeperTypeOK, CycleEpoch
<1>1. ASSUME NEW e \in Epochs, NEW phase \in {"opened", "pushed", "finalized"},
             progress' = SetPhase(progress, e, phase)
      PROVE  Keeps(progress', f)
  <2>1. CASE f = e
    BY <1>0, <1>1, <2>1, SetPhaseKeeps DEF Keeps, Started
  <2>2. CASE f # e
    BY <1>0, <1>1, <2>2, SetPhaseKeeps DEF Keeps, Started
  <2> QED BY <2>1, <2>2
<1>2. ASSUME NEW e \in Epochs, NEW total \in U64, NEW plan \in Plan
      PROVE  Keeps(SavePlan(e, total, plan), f)
  <2>1. CASE f = e
    BY <2>1, SavePlanKeeps DEF Keeps, Started
  <2>2. CASE f # e
    <3>1. SavePlan(e, total, plan)[f] = progress[f]
      BY <2>2, SavePlanElsewhere
    <3> QED BY <3>1 DEF Keeps, Started
  <2> QED BY <2>1, <2>2
<1>3. CASE UNCHANGED progress
  BY <1>3 DEF Keeps, Started
<1>4. ASSUME NEW total \in U64, NEW plan \in Plans(total), loc.e + 1 \in Epochs,
             progress' = SavePlan(loc.e + 1, total, plan)
      PROVE  Keeps(progress', f)
  BY <1>2, <1>4, PlansType
<1>5. ASSUME ResumeEpoch, NEW plan \in Plans(loc.total),
             progress' = SetPhase(SavePlan(loc.e, loc.total, plan), loc.e, "opened")
      PROVE  Keeps(progress', f)
  <2> DEFINE t == SavePlan(loc.e, loc.total, plan)
  <2>1. loc.e \in Epochs /\ plan \in Plan
    BY <1>0, <1>5, PlansType DEF ResumeEpoch
  <2>2. t \in [Epochs -> Progress \cup {None}] /\ Keeps(t, f)
    BY <1>0, <1>2, <2>1, SavePlanType
  <2> HIDE DEF t
  <2>3. progress' = SetPhase(t, loc.e, "opened")
    BY <1>5 DEF t
  <2>4. CASE f = loc.e
    BY <2>1, <2>2, <2>3, <2>4, SetPhaseKeeps DEF Keeps, Started
  <2>5. CASE f # loc.e
    BY <2>1, <2>2, <2>3, <2>5, SetPhaseKeeps DEF Keeps, Started
  <2> QED BY <2>4, <2>5
<1>6. CASE OpenConfirmed \/ ResumeEpoch \/ SendFinalize \/ SetFinalized
  <2>1. loc.e \in Epochs
    BY <1>0, <1>6 DEF OpenConfirmed, ResumeEpoch, SendFinalize, SetFinalized
  <2>2. CASE OpenConfirmed /\ progress' = SetPhase(progress, loc.e, "opened")
    BY <1>1, <2>1, <2>2
  <2>3. CASE ResumeEpoch /\ progress' = SetPhase(progress, loc.e, "opened")
    BY <1>1, <2>1, <2>3
  <2>4. CASE SendFinalize /\ progress' = SetPhase(progress, loc.e, "pushed")
    BY <1>1, <2>1, <2>4
  <2>5. CASE SetFinalized /\ progress' = SetPhase(progress, loc.e, "finalized")
    BY <1>1, <2>1, <2>5
  <2> QED BY <1>3, <1>4, <1>5, <2>2, <2>3, <2>4, <2>5, ProgressSteps
<1> QED BY <1>3, <1>4, <1>6, ProgressSteps

\* A row is written once, from an event or from the push that was confirmed.
LEMMA RowSteps ==
  ASSUME TypeInv, PayoutsNext, NEW e \in Epochs, NEW w \in Wallets
  PROVE  \/ rows'[e][w] = rows[e][w]
         \/ rows[e][w] = 0 /\ \E i \in DOMAIN events[e] : rows'[e][w] = events[e][i][w]
         \/ /\ rows[e][w] = 0 /\ RecordPayout
            /\ e = loc.e /\ w \in loc.record /\ rows'[e][w] = loc.plan[w]
<1> USE DEF netVars, dbVars
<1>0. /\ rows \in [Epochs -> Plan] /\ rows \in [Epochs -> [Wallets -> U64]] /\ KeeperTypeOK
      /\ pc \notin {"idle", "gate"} => loc.e \in Epochs
  BY DEF TypeInv, KeeperTypeOK, CycleEpoch, Plan
<1>1. CASE ReconcilePushed \/ RepairBookkeeping
  <2>1. /\ loc.e \in Epochs
        /\ rows' = [rows EXCEPT ![loc.e] = Reconciled(loc.e, loc.pushed)]
    BY <1>0, <1>1 DEF ReconcilePushed, RepairBookkeeping
  <2>2. CASE e = loc.e
    <3>1. rows'[e] = Reconciled(e, loc.pushed)
      BY <1>0, <2>1, <2>2
    <3>2. \/ Reconciled(e, loc.pushed)[w] = rows[e][w]
          \/ /\ rows[e][w] = 0
             /\ \E i \in DOMAIN events[e] :
                  Reconciled(e, loc.pushed)[w] = events[e][i][w] /\ events[e][i][w] > 0
      BY <1>0, ReconciledRows
    <3> QED BY <3>1, <3>2
  <2>3. CASE e # loc.e
    BY <1>0, <2>1, <2>3
  <2> QED BY <2>2, <2>3
<1>2. CASE RecordPayout
  <2>1. PICK v \in loc.record :
          rows' = [rows EXCEPT ![loc.e][v] = IF @ = 0 THEN loc.plan[v] ELSE @]
    BY <1>2 DEF RecordPayout
  <2>2. CASE e = loc.e /\ w = v
    <3>1. rows'[e][w] = IF rows[e][w] = 0 THEN loc.plan[w] ELSE rows[e][w]
      BY <1>0, <2>1, <2>2
    <3> QED BY <1>2, <2>1, <2>2, <3>1
  <2>3. CASE ~(e = loc.e /\ w = v)
    BY <1>0, <2>1, <2>3
  <2> QED BY <2>2, <2>3
<1>3. ASSUME NEW f \in Epochs, NEW i \in DOMAIN events[f], NEW v \in Wallets, IndexPayout(f, i, v)
      PROVE  \/ rows'[e][w] = rows[e][w]
             \/ rows[e][w] = 0 /\ \E j \in DOMAIN events[e] : rows'[e][w] = events[e][j][w]
  <2>1. rows[f][v] = 0 /\ rows' = [rows EXCEPT ![f][v] = events[f][i][v]]
    BY <1>3 DEF IndexPayout
  <2> QED BY <1>0, <2>1
<1>4. CASE UNCHANGED rows
  BY <1>4
<1>5. CASE \/ StartCycle \/ PlanEpoch \/ SkipEpoch \/ SendOpen \/ OpenConfirmed \/ ResumeEpoch
           \/ Split \/ SendPush \/ PushConfirmed
  BY <1>4, <1>5 DEF StartCycle, PlanEpoch, SkipEpoch, SendOpen, OpenConfirmed, ResumeEpoch,
                    Split, SendPush, PushConfirmed
<1>6. CASE \/ SendFinalize \/ FinalizeConfirmed \/ WriteLeaves \/ MarkFinalized \/ SetFinalized
           \/ AttemptFails \/ Crash
  BY <1>4, <1>6 DEF SendFinalize, FinalizeConfirmed, WriteLeaves, MarkFinalized, SetFinalized,
                    AttemptFails, Crash
<1>7. CASE \E tx \in net : Land(tx) \/ Reject(tx) \/ Drop(tx)
  BY <1>4, <1>7 DEF Land, Reject, Drop
<1>8. CASE ChangePushCap \/ Surroundings \/ \E v \in Wallets, f \in Epochs : ClaimServed(v, f)
  BY <1>4, <1>8 DEF ChangePushCap, Surroundings, ClaimServed
<1> QED
  BY <1>1, <1>2, <1>3, <1>5, <1>6, <1>7, <1>8 DEF PayoutsNext, KeeperStep, NetworkStep

-----------------------------------------------------------------------------
(***************************************************************************)
(* What never goes back                                                    *)
(***************************************************************************)
Grown(e) ==
  /\ epoch[e].exists => epoch'[e].exists /\ epoch'[e].total_amount = epoch[e].total_amount
  /\ epoch[e].finalized =>
       /\ epoch'[e].finalized /\ epoch'[e].merkle_root = epoch[e].merkle_root
       /\ epoch'[e].pushed_amount = epoch[e].pushed_amount
       /\ \A w \in Wallets : Pushed(e, w)' = Pushed(e, w)
  /\ Keeps(progress', e)
  /\ \A w \in Wallets : rows[e][w] > 0 => rows'[e][w] = rows[e][w]
  /\ \A i \in DOMAIN events[e] : i \in DOMAIN events'[e] /\ events'[e][i] = events[e][i]

LEMMA Appended ==
  ASSUME NEW s \in Seq(Plan), NEW x \in Plan
  PROVE  /\ \A i \in DOMAIN s : i \in DOMAIN Append(s, x) /\ Append(s, x)[i] = s[i]
         /\ \A i \in DOMAIN Append(s, x) : i \in DOMAIN s \/ Append(s, x)[i] = x
         /\ \E i \in DOMAIN Append(s, x) : Append(s, x)[i] = x
<1>1. /\ Append(s, x) \in Seq(Plan) /\ Len(Append(s, x)) = Len(s) + 1
      /\ \A i \in 1..Len(s) : Append(s, x)[i] = s[i]
      /\ Append(s, x)[Len(s) + 1] = x
  BY AppendProperties
<1>2. DOMAIN s = 1..Len(s) /\ Len(s) \in Nat
  BY LenProperties
<1>3. DOMAIN Append(s, x) = 1..Len(s) + 1
  BY <1>1, LenProperties
<1> DEFINE t == Append(s, x)
           n == Len(s)
<1>4. DOMAIN t = 1..n + 1 /\ DOMAIN s = 1..n /\ n \in Nat /\ (\A i \in 1..n : t[i] = s[i])
      /\ t[n + 1] = x
  BY <1>1, <1>2, <1>3
<1> HIDE DEF t, n
<1>5. /\ \A i \in DOMAIN s : i \in DOMAIN t /\ t[i] = s[i]
      /\ \A i \in DOMAIN t : i \in DOMAIN s \/ t[i] = x
      /\ \E i \in DOMAIN t : t[i] = x
  BY <1>4
<1> QED BY <1>5 DEF t

LEMMA Grows ==
  ASSUME TypeInv, PayoutsNext, NEW e \in Epochs
  PROVE  Grown(e)
<1>1. Keeps(progress', e)
  BY ProgressKept
<1>2. ASSUME NEW w \in Wallets, rows[e][w] > 0 PROVE rows'[e][w] = rows[e][w]
  <2>1. rows[e][w] # 0
    BY <1>2
  <2> QED BY <2>1, RowSteps
<1> DEFINE Chain ==
      /\ epoch[e].exists => epoch'[e].exists /\ epoch'[e].total_amount = epoch[e].total_amount
      /\ epoch[e].finalized =>
           /\ epoch'[e].finalized /\ epoch'[e].merkle_root = epoch[e].merkle_root
           /\ epoch'[e].pushed_amount = epoch[e].pushed_amount
           /\ \A w \in Wallets : Pushed(e, w)' = Pushed(e, w)
      /\ \A i \in DOMAIN events[e] : i \in DOMAIN events'[e] /\ events'[e][i] = events[e][i]
<1>3. Chain
  <2>1. CASE ~ \E tx \in net : Land(tx)
    BY <2>1, QuietChain DEF SameChain
  <2>2. ASSUME NEW tx \in net, Land(tx), tx.ix.op = "open"
        PROVE  Chain
    <3>1. CASE tx.ix.e = e
      BY <2>2, <3>1, OpenLands, FinalizedExists
    <3>2. CASE tx.ix.e # e
      BY <2>2, <3>2, OpenLands DEF SameChain
    <3> QED BY <3>1, <3>2
  <2>3. ASSUME NEW tx \in net, Land(tx), tx.ix.op = "push"
        PROVE  Chain
    <3>0. /\ events[e] \in Seq(Plan) /\ tx.ix.items \in Plan /\ tx.ix.e \in Epochs
          /\ events \in [Epochs -> Seq(Plan)]
          /\ events' = [events EXCEPT ![tx.ix.e] = Append(@, tx.ix.items)]
      BY <2>3, PushLands DEF TypeInv, KeeperTypeOK, PushIx
    <3>1. CASE tx.ix.e = e
      <4>1. events'[e] = Append(events[e], tx.ix.items)
        BY <3>0, <3>1
      <4>2. \A i \in DOMAIN events[e] : i \in DOMAIN events'[e] /\ events'[e][i] = events[e][i]
        BY <3>0, <4>1, Appended
      <4> QED BY <2>3, <3>1, <4>2, PushLands
    <3>2. CASE tx.ix.e # e
      <4>1. events'[e] = events[e]
        BY <3>0, <3>2
      <4> QED BY <2>3, <3>2, <4>1, PushLands DEF SameChain
    <3> QED BY <3>1, <3>2
  <2>4. ASSUME NEW tx \in net, Land(tx), tx.ix.op = "finalize"
        PROVE  Chain
    <3>1. CASE tx.ix.e = e
      BY <2>4, <3>1, FinalizeLands
    <3>2. CASE tx.ix.e # e
      BY <2>4, <3>2, FinalizeLands DEF SameChain
    <3> QED BY <3>1, <3>2
  <2> QED BY <2>1, <2>2, <2>3, <2>4, LandKinds
<1> QED BY <1>1, <1>2, <1>3 DEF Grown

\* A transaction that was right when it was sent stays right.
LEMMA IxStable ==
  ASSUME TypeInv, PayoutsNext, NEW ix \in Ix, IxOK(ix)
  PROVE  IxOK(ix)'
<1>0. ix.e \in Epochs
  BY DEF Ix, OpenIx, PushIx, FinalizeIx
<1>g. \A e \in Epochs : Grown(e)
  BY Grows
<1>k. Keeps(progress', ix.e) /\ \A w \in Wallets : rows[ix.e][w] > 0 => rows'[ix.e][w] = rows[ix.e][w]
  BY <1>0, <1>g DEF Grown
<1>1. CASE ix.op = "open"
  <2>1. progress[ix.e] # None /\ \A d \in Epochs : d < ix.e => epoch[d].finalized
    BY <1>1 DEF IxOK, OpenOK
  <2>2. progress'[ix.e] # None /\ \A d \in Epochs : d < ix.e => epoch'[d].finalized
    BY <1>g, <1>k, <2>1 DEF Grown, Keeps
  <2> QED BY <1>1, <2>2 DEF IxOK, OpenOK
<1>2. CASE ix.op = "push"
  <2>1. Started(ix.e) /\ \A w \in Wallets : ix.items[w] \in {0, progress[ix.e].plan[w]}
    BY <1>2 DEF IxOK, PushOK
  <2>2. Started(ix.e)' /\ progress'[ix.e].plan = progress[ix.e].plan
    BY <1>k, <2>1 DEF Keeps, Started
  <2> QED BY <1>2, <2>1, <2>2 DEF IxOK, PushOK
<1>3. CASE ix.op = "finalize"
  <2>1. Started(ix.e) /\ Covers(ix.e, ix.root) /\ OfPlan(ix.root, progress[ix.e].plan)
    BY <1>3 DEF IxOK, FinalizeOK
  <2>2. Started(ix.e)' /\ progress'[ix.e].plan = progress[ix.e].plan
    BY <1>k, <2>1 DEF Keeps, Started
  <2>3. Covers(ix.e, ix.root)'
    BY <1>k, <2>1, <2>2 DEF Covers
  <2>4. OfPlan(ix.root, progress[ix.e].plan)'
    BY <2>1, <2>2 DEF OfPlan
  <2> QED BY <1>3, <2>2, <2>3, <2>4 DEF IxOK, FinalizeOK
<1> QED BY <1>1, <1>2, <1>3 DEF Ix, OpenIx, PushIx, FinalizeIx

\* The database knows of every epoch on the chain.
LEMMA NextKnown ==
  ASSUME PInv, PayoutsNext, NEW e \in Epochs, epoch'[e].exists
  PROVE  progress'[e] # None
<1>0. TypeInv /\ ChainInv /\ Keeps(progress', e)
  BY ProgressKept DEF PInv
<1>1. CASE epoch[e].exists
  BY <1>0, <1>1 DEF ChainInv, Keeps
<1>2. CASE ~epoch[e].exists
  <2>1. PICK tx \in net : Land(tx)
    BY <1>0, <1>2, QuietChain DEF SameChain
  <2>2. tx.ix.op = "open" /\ tx.ix.e = e
    <3>1. CASE tx.ix.op = "open"
      BY <1>0, <1>2, <2>1, <3>1, OpenLands DEF SameChain
    <3>2. CASE tx.ix.op = "push"
      BY <1>0, <1>2, <2>1, <3>2, PushLands DEF SameChain
    <3>3. CASE tx.ix.op = "finalize"
      BY <1>0, <1>2, <2>1, <3>3, FinalizeLands DEF SameChain
    <3> QED BY <1>0, <2>1, <3>1, <3>2, <3>3, LandKinds
  <2>3. progress[e] # None
    BY <1>0, <2>2 DEF ChainInv, IxOK, OpenOK
  <2> QED BY <1>0, <2>3 DEF Keeps
<1> QED BY <1>1, <1>2

\* An epoch opens when those before it are finalized.
LEMMA NextOneAtATime ==
  ASSUME PInv, PayoutsNext
  PROVE  OneEpochAtATime'
<1> SUFFICES ASSUME NEW e \in Epochs, epoch'[e].exists, NEW d \in Epochs, d < e
             PROVE  epoch'[d].finalized
  BY DEF OneEpochAtATime
<1>0. TypeInv /\ ChainInv /\ Grown(d)
  BY Grows DEF PInv
<1>1. CASE epoch[e].exists
  <2>1. epoch[d].finalized
    BY <1>0, <1>1 DEF ChainInv, OneEpochAtATime
  <2> QED BY <1>0, <2>1 DEF Grown
<1>2. CASE ~epoch[e].exists
  <2>1. PICK tx \in net : Land(tx)
    BY <1>0, <1>2, QuietChain DEF SameChain
  <2>2. tx.ix.op = "open" /\ tx.ix.e = e
    <3>1. CASE tx.ix.op = "open"
      BY <1>0, <1>2, <2>1, <3>1, OpenLands DEF SameChain
    <3>2. CASE tx.ix.op = "push"
      BY <1>0, <1>2, <2>1, <3>2, PushLands DEF SameChain
    <3>3. CASE tx.ix.op = "finalize"
      BY <1>0, <1>2, <2>1, <3>3, FinalizeLands DEF SameChain
    <3> QED BY <1>0, <2>1, <3>1, <3>2, <3>3, LandKinds
  <2>3. epoch[d].finalized
    BY <1>0, <2>2 DEF ChainInv, IxOK, OpenOK
  <2> QED BY <1>0, <2>3 DEF Grown
<1> QED BY <1>1, <1>2

\* The keeper starts on an epoch when it sees it on the chain, with the total
\* it planned for.
LEMMA NextStarted ==
  ASSUME PInv, PayoutsNext
  PROVE  StartedOK'
<1>0. TypeInv /\ ChainInv /\ KeeperInv /\ StartedOK
  BY DEF PInv, ChainInv
<1>0a. /\ progress \in [Epochs -> Progress \cup {None}] /\ loc.total \in U64
       /\ pc \notin {"idle", "gate"} => loc.e \in Epochs
  BY <1>0, LocalsOf DEF TypeInv, KeeperTypeOK, CycleEpoch
<1> DEFINE Sound(t, e) ==
      /\ t[e] # None /\ t[e].phase # "planned" =>
           epoch[e].exists /\ t[e].total = epoch[e].total_amount
      /\ t[e] # None => t[e].plan = NoPlan \/ Amount(t[e].plan) = t[e].total
<1>1. SUFFICES ASSUME NEW f \in Epochs PROVE Sound(progress', f)
  <2>1. \A e \in Epochs : Grown(e) /\ Sound(progress', e)
    BY <1>0, <1>1, Grows
  <2> QED BY <2>1 DEF StartedOK, Started, Grown
<1>2. \A e \in Epochs : Sound(progress, e)
  BY <1>0 DEF StartedOK, Started
<1>3. ASSUME NEW t \in [Epochs -> Progress \cup {None}], NEW e \in Epochs,
             NEW phase \in {"opened", "pushed", "finalized"},
             \A d \in Epochs : Sound(t, d),
             t[e] # None => epoch[e].exists /\ t[e].total = epoch[e].total_amount,
             progress' = SetPhase(t, e, phase)
      PROVE  Sound(progress', f)
  <2>1. CASE f = e
    <3>1. CASE t[e] = None
      BY <1>3, <2>1, <3>1, SetPhaseKeeps
    <3>2. CASE t[e] # None
      <4>1. progress'[f].plan = t[e].plan /\ progress'[f].total = t[e].total
        BY <1>3, <2>1, <3>2, SetPhaseKeeps
      <4>2. t[e].plan = NoPlan \/ Amount(t[e].plan) = t[e].total
        BY <1>3, <3>2
      <4> QED BY <1>3, <2>1, <3>2, <4>1, <4>2
    <3> QED BY <3>1, <3>2
  <2>2. CASE f # e
    <3>1. progress'[f] = t[f]
      BY <1>3, <2>2, SetPhaseKeeps
    <3> QED BY <1>3, <3>1
  <2> QED BY <2>1, <2>2
<1>4. ASSUME NEW e \in Epochs, NEW total \in U64, NEW plan \in Plan,
             plan = NoPlan \/ Amount(plan) = total
      PROVE  \A d \in Epochs : Sound(SavePlan(e, total, plan), d)
  <2> SUFFICES ASSUME NEW d \in Epochs PROVE Sound(SavePlan(e, total, plan), d)
    OBVIOUS
  <2>1. CASE d # e
    <3>1. SavePlan(e, total, plan)[d] = progress[d]
      BY <1>0, <2>1, SavePlanElsewhere
    <3> QED BY <1>2, <3>1
  <2>2. CASE d = e /\ Started(e)
    <3>1. SavePlan(e, total, plan)[d] = progress[d]
      BY <1>0, <2>2, SavePlanKeeps
    <3> QED BY <1>2, <3>1
  <2>3. CASE d = e /\ ~Started(e)
    <3> DEFINE row == SavePlan(e, total, plan)[d]
    <3>1. row = [phase |-> "planned", total |-> total, plan |-> plan]
      BY <1>0, <2>3, SavePlanKeeps
    <3>2. row.phase = "planned" /\ row.plan = plan /\ row.total = total
      BY <3>1
    <3> QED BY <1>4, <3>2
  <2> QED BY <2>1, <2>2, <2>3
<1> HIDE DEF Sound
<1>5. CASE UNCHANGED progress
  BY <1>2, <1>5 DEF Sound
<1>6. ASSUME NEW total \in U64, NEW plan \in Plans(total), loc.e + 1 \in Epochs,
             progress' = SavePlan(loc.e + 1, total, plan)
      PROVE  Sound(progress', f)
  BY <1>4, <1>6, PlansType
<1>7. CASE OpenConfirmed /\ progress' = SetPhase(progress, loc.e, "opened")
  <2>1. /\ loc.e \in Epochs /\ WaitInv /\ confirmed /\ loc.tx.ix.op = "open" /\ pc = "wait"
    BY <1>0, <1>0a, <1>7 DEF OpenConfirmed, KeeperInv
  <2>2. /\ epoch[loc.e].exists /\ progress[loc.e] # None
        /\ progress[loc.e].total = epoch[loc.e].total_amount
    BY <2>1 DEF WaitInv, OpenKnown
  <2> QED BY <1>0a, <1>2, <1>3, <1>7, <2>1, <2>2
<1>8. CASE ResumeEpoch
  <2>1. /\ loc.e \in Epochs /\ epoch[loc.e].exists /\ loc.total = epoch[loc.e].total_amount
        /\ progress[loc.e] # None
    BY <1>0, <1>0a, <1>8 DEF ResumeEpoch, KeeperInv, ChainInv
  <2>2. CASE progress[loc.e].total = loc.total
    <3>1. progress' = SetPhase(progress, loc.e, "opened")
      BY <1>8, <2>1, <2>2 DEF ResumeEpoch
    <3> QED BY <1>0a, <1>2, <1>3, <2>1, <2>2, <3>1
  <2>3. CASE progress[loc.e].total # loc.total
    <3>1. PICK plan \in Plans(loc.total) :
            progress' = SetPhase(SavePlan(loc.e, loc.total, plan), loc.e, "opened")
      BY <1>8, <2>3 DEF ResumeEpoch
    <3> DEFINE t == SavePlan(loc.e, loc.total, plan)
    <3>2. plan \in Plan /\ (plan = NoPlan \/ Amount(plan) = loc.total)
      BY <1>0a, <3>1, PlansType
    <3>3. t \in [Epochs -> Progress \cup {None}] /\ \A d \in Epochs : Sound(t, d)
      BY <1>0a, <1>4, <2>1, <3>2, SavePlanType
    <3>4. ~Started(loc.e)
      BY <1>0, <2>1, <2>3 DEF StartedOK
    <3>5. t[loc.e] = [phase |-> "planned", total |-> loc.total, plan |-> plan]
      BY <1>0, <1>0a, <2>1, <3>2, <3>4, SavePlanKeeps
    <3>6. t[loc.e].total = epoch[loc.e].total_amount
      BY <2>1, <3>5
    <3>7. progress' = SetPhase(t, loc.e, "opened")
      BY <3>1
    <3> HIDE DEF t
    <3> QED BY <1>3, <2>1, <3>3, <3>6, <3>7
  <2> QED BY <2>2, <2>3
<1>9. ASSUME loc.e \in Epochs, Started(loc.e), NEW phase \in {"pushed", "finalized"},
             progress' = SetPhase(progress, loc.e, phase)
      PROVE  Sound(progress', f)
  <2>1. epoch[loc.e].exists /\ progress[loc.e].total = epoch[loc.e].total_amount
    BY <1>0, <1>9 DEF StartedOK
  <2> QED BY <1>0a, <1>2, <1>3, <1>9, <2>1
<1>10. CASE SendFinalize /\ progress' = SetPhase(progress, loc.e, "pushed")
  <2>1. loc.e \in Epochs /\ Started(loc.e)
    BY <1>0, <1>0a, <1>10 DEF SendFinalize, KeeperInv, PlanKnown
  <2> QED BY <1>9, <1>10, <2>1
<1>11. CASE SetFinalized /\ progress' = SetPhase(progress, loc.e, "finalized")
  <2>1. loc.e \in Epochs /\ epoch[loc.e].finalized
    BY <1>0, <1>0a, <1>11 DEF SetFinalized, KeeperInv, RootKnown
  <2>2. Started(loc.e)
    BY <1>0, <2>1 DEF ChainInv, FinalizedOK
  <2> QED BY <1>9, <1>11, <2>1, <2>2
<1> QED BY <1>0, <1>5, <1>6, <1>7, <1>8, <1>10, <1>11, ProgressSteps

\* Leaves are written once the root is posted, and only the leaves of it.
LEMMA LeafSteps ==
  ASSUME PayoutsNext
  PROVE  UNCHANGED <<leaves, marked>> \/ WriteLeaves \/ MarkFinalized
<1> USE DEF netVars, dbVars
<1>1. CASE \/ StartCycle \/ PlanEpoch \/ SkipEpoch \/ SendOpen \/ OpenConfirmed \/ ResumeEpoch
           \/ ReconcilePushed \/ Split \/ SendPush
  BY <1>1 DEF StartCycle, PlanEpoch, SkipEpoch, SendOpen, OpenConfirmed, ResumeEpoch,
              ReconcilePushed, Split, SendPush
<1>2. CASE \/ PushConfirmed \/ RecordPayout \/ SendFinalize \/ FinalizeConfirmed \/ SetFinalized
           \/ RepairBookkeeping \/ AttemptFails \/ Crash
  BY <1>2 DEF PushConfirmed, RecordPayout, SendFinalize, FinalizeConfirmed, SetFinalized,
              RepairBookkeeping, AttemptFails, Crash
<1>3. CASE \E tx \in net : Land(tx) \/ Reject(tx) \/ Drop(tx)
  BY <1>3 DEF Land, Reject, Drop
<1>4. CASE \E e \in Epochs : \E i \in DOMAIN events[e], w \in Wallets : IndexPayout(e, i, w)
  BY <1>4 DEF IndexPayout
<1>5. CASE ChangePushCap \/ Surroundings \/ \E w \in Wallets, e \in Epochs : ClaimServed(w, e)
  BY <1>5 DEF ChangePushCap, Surroundings, ClaimServed
<1> QED BY <1>1, <1>2, <1>3, <1>4, <1>5 DEF PayoutsNext, KeeperStep, NetworkStep

\* Every leaf is in the root, so what an upsert leaves of the old ones is too.
LEMMA WrittenLeaves ==
  ASSUME PInv, WriteLeaves
  PROVE  /\ loc.e \in Epochs /\ RootKnown
         /\ leaves'[loc.e] = loc.merkle
         /\ \A e \in Epochs : e # loc.e => leaves'[e] = leaves[e]
         /\ UNCHANGED marked
<1>1. /\ loc.e \in Epochs /\ RootKnown
      /\ leaves \in [Epochs -> SUBSET (Wallets \X U64)]
      /\ leaves[loc.e] # {} => leaves[loc.e] = epoch[loc.e].merkle_root
  BY DEF PInv, TypeInv, KeeperTypeOK, CycleEpoch, WriteLeaves, KeeperInv, ChainInv, LeavesMatchRoot
<1> DEFINE kept == {old \in leaves[loc.e] : \A leaf \in loc.merkle : leaf[1] # old[1]}
<1>2. kept = {}
  BY <1>1 DEF RootKnown
<1>3. leaves' = [leaves EXCEPT ![loc.e] = kept \cup loc.merkle] /\ UNCHANGED marked
  BY DEF WriteLeaves
<1> HIDE DEF kept
<1> QED BY <1>1, <1>2, <1>3

LEMMA NextLeaves ==
  ASSUME PInv, PayoutsNext
  PROVE  LeavesMatchRoot'
<1> SUFFICES ASSUME NEW e \in Epochs
             PROVE  (leaves'[e] # {} \/ marked'[e]) =>
                       epoch'[e].finalized /\ leaves'[e] = epoch'[e].merkle_root
  BY DEF LeavesMatchRoot
<1>0. TypeInv /\ ChainInv /\ KeeperInv /\ LeavesMatchRoot /\ Grown(e)
  BY Grows DEF PInv, ChainInv
<1>1. CASE UNCHANGED <<leaves, marked>>
  BY <1>0, <1>1 DEF LeavesMatchRoot, Grown
<1>2. CASE WriteLeaves
  <2>1. CASE e = loc.e
    <3>1. epoch[e].finalized /\ leaves'[e] = epoch[e].merkle_root
      BY <1>2, <2>1, WrittenLeaves DEF RootKnown
    <3> QED BY <1>0, <3>1 DEF Grown
  <2>2. CASE e # loc.e
    <3>1. leaves'[e] = leaves[e] /\ marked'[e] = marked[e]
      BY <1>2, <2>2, WrittenLeaves
    <3> QED BY <1>0, <3>1 DEF LeavesMatchRoot, Grown
  <2> QED BY <2>1, <2>2
<1>3. CASE MarkFinalized
  <2>1. /\ loc.e \in Epochs /\ RootKnown /\ leaves[loc.e] = loc.merkle /\ leaves' = leaves
        /\ marked' = [marked EXCEPT ![loc.e] = TRUE] /\ marked \in [Epochs -> BOOLEAN]
    BY <1>0, <1>3 DEF MarkFinalized, KeeperInv, CycleEpoch, TypeInv, KeeperTypeOK
  <2>2. CASE e = loc.e
    <3>1. epoch[e].finalized /\ leaves'[e] = epoch[e].merkle_root
      BY <2>1, <2>2 DEF RootKnown
    <3> QED BY <1>0, <3>1 DEF Grown
  <2>3. CASE e # loc.e
    <3>1. leaves'[e] = leaves[e] /\ marked'[e] = marked[e]
      BY <2>1, <2>3
    <3> QED BY <1>0, <3>1 DEF LeavesMatchRoot, Grown
  <2> QED BY <2>2, <2>3
<1> QED BY <1>1, <1>2, <1>3, LeafSteps

-----------------------------------------------------------------------------
(***************************************************************************)
(* Events, pushes and rows                                                 *)
(***************************************************************************)
\* The rows' part of EventsOK.
RowsFromEvents(e) ==
  \A w \in Wallets : rows[e][w] > 0 => \E i \in DOMAIN events[e] : events[e][i][w] = rows[e][w]
PushesFromEvents(e) ==
  /\ events[e] # <<>> => Started(e)
  /\ \A i \in DOMAIN events[e], w \in Wallets :
       /\ events[e][i][w] \in {0, progress[e].plan[w]}
       /\ events[e][i][w] <= Pushed(e, w)
  /\ \A w \in Wallets :
       /\ Pushed(e, w) \in Nat
       /\ Pushed(e, w) > 0 => \E i \in DOMAIN events[e] : events[e][i][w] > 0

LEMMA NextRows ==
  ASSUME PInv, PayoutsNext, NEW e \in Epochs
  PROVE  RowsFromEvents(e)'
<1>0. TypeInv /\ ChainInv /\ KeeperInv /\ Grown(e) /\ RowsFromEvents(e)
  BY Grows DEF PInv, ChainInv, EventsOK, RowsFromEvents
<1> SUFFICES ASSUME NEW w \in Wallets, rows'[e][w] > 0
             PROVE  \E i \in DOMAIN events'[e] : events'[e][i][w] = rows'[e][w]
  BY DEF RowsFromEvents
<1>1. SUFFICES \E i \in DOMAIN events[e] : events[e][i][w] = rows'[e][w]
  BY <1>0 DEF Grown
<1>2. CASE rows'[e][w] = rows[e][w]
  BY <1>0, <1>2 DEF RowsFromEvents
<1>3. CASE RecordPayout /\ e = loc.e /\ w \in loc.record /\ rows'[e][w] = loc.plan[w]
  <2>1. InEvents(loc.record)
    BY <1>0, <1>3 DEF RecordPayout, KeeperInv
  <2> QED BY <1>3, <2>1 DEF InEvents
<1> QED BY <1>0, <1>2, <1>3, RowSteps

LEMMA NextPushes ==
  ASSUME PInv, PayoutsNext, NEW e \in Epochs
  PROVE  PushesFromEvents(e)'
<1>0. /\ TypeInv /\ ChainInv /\ Grown(e) /\ PushesFromEvents(e)
      /\ events \in [Epochs -> Seq(Plan)] /\ events[e] \in Seq(Plan)
  BY Grows DEF PInv, ChainInv, EventsOK, PushesFromEvents, TypeInv, KeeperTypeOK
<1>0a. Started(e) => Started(e)' /\ progress'[e].plan = progress[e].plan
  BY <1>0 DEF Grown, Keeps, Started
<1>0b. events[e] = <<>> => DOMAIN events[e] = {}
  OBVIOUS
<1>1. ASSUME events'[e] = events[e], \A w \in Wallets : Pushed(e, w)' = Pushed(e, w)
      PROVE  PushesFromEvents(e)'
  <2>1. CASE events[e] = <<>>
    BY <1>0, <1>0b, <1>1, <2>1 DEF PushesFromEvents
  <2>2. CASE events[e] # <<>>
    BY <1>0, <1>0a, <1>1, <2>2 DEF PushesFromEvents
  <2> QED BY <2>1, <2>2
<1>2. CASE ~ \E tx \in net : Land(tx)
  BY <1>0, <1>1, <1>2, QuietChain DEF SameChain
<1>3. ASSUME NEW tx \in net, Land(tx), tx.ix.op = "open" PROVE PushesFromEvents(e)'
  <2>1. events' = events /\ \A w \in Wallets : Pushed(e, w)' = Pushed(e, w)
    BY <1>0, <1>3, OpenLands DEF SameChain
  <2> QED BY <1>1, <2>1
<1>4. ASSUME NEW tx \in net, Land(tx), tx.ix.op = "finalize" PROVE PushesFromEvents(e)'
  <2>1. events' = events /\ \A w \in Wallets : Pushed(e, w)' = Pushed(e, w)
    BY <1>0, <1>4, FinalizeLands DEF SameChain
  <2> QED BY <1>1, <2>1
<1>5. ASSUME NEW tx \in net, Land(tx), tx.ix.op = "push" PROVE PushesFromEvents(e)'
  <2>1. /\ tx.ix.items \in Plan /\ tx.ix.e \in Epochs
        /\ events' = [events EXCEPT ![tx.ix.e] = Append(@, tx.ix.items)]
        /\ \A w \in Wallets : Pushed(tx.ix.e, w)' = Pushed(tx.ix.e, w) + tx.ix.items[w]
        /\ \A f \in Epochs : f # tx.ix.e => SameChain(f)
    BY <1>0, <1>5, PushLands DEF PushIx
  <2>2. CASE tx.ix.e # e
    <3>1. events'[e] = events[e]
      BY <1>0, <2>1, <2>2
    <3> QED BY <1>1, <2>1, <2>2, <3>1 DEF SameChain
  <2>3. CASE tx.ix.e = e
    <3> DEFINE x == tx.ix.items
    <3>1. Started(e) /\ \A w \in Wallets : x[w] \in {0, progress[e].plan[w]}
      BY <1>0, <1>5, <2>3 DEF ChainInv, IxOK, PushOK
    <3>2. \A w \in Wallets : x[w] \in Nat /\ Pushed(e, w) \in Nat
      BY <1>0, <2>1, U64Nat DEF PushesFromEvents, Plan
    <3>3. events'[e] = Append(events[e], x) /\ \A w \in Wallets : Pushed(e, w)' = Pushed(e, w) + x[w]
      BY <1>0, <2>1, <2>3
    <3>4. /\ \A i \in DOMAIN events[e] : i \in DOMAIN events'[e] /\ events'[e][i] = events[e][i]
          /\ \A i \in DOMAIN events'[e] :
               (i \in DOMAIN events[e] /\ events'[e][i] = events[e][i]) \/ events'[e][i] = x
          /\ \E i \in DOMAIN events'[e] : events'[e][i] = x
      BY <1>0, <2>1, <3>3, Appended
    <3> HIDE DEF x
    <3>5. ASSUME NEW i \in DOMAIN events'[e], NEW w \in Wallets
          PROVE  /\ events'[e][i][w] \in {0, progress'[e].plan[w]}
                 /\ events'[e][i][w] <= Pushed(e, w)'
      <4>1. CASE events'[e][i] = x
        BY <1>0a, <3>1, <3>2, <3>3, <4>1
      <4>2. CASE i \in DOMAIN events[e] /\ events'[e][i] = events[e][i]
        <5>1. /\ events[e][i][w] \in {0, progress[e].plan[w]} /\ events[e][i][w] <= Pushed(e, w)
          BY <1>0, <4>2 DEF PushesFromEvents
        <5>2. events[e][i][w] \in Nat
          <6>1. events[e][i] \in Plan
            BY <1>0, <4>2, ElementOfSeq, LenProperties
          <6> QED BY <6>1, U64Nat DEF Plan
        <5>3. x[w] \in Nat /\ Pushed(e, w) \in Nat /\ Pushed(e, w)' = Pushed(e, w) + x[w]
          BY <3>2, <3>3
        <5> QED BY <1>0a, <3>1, <4>2, <5>1, <5>2, <5>3
      <4> QED BY <3>4, <4>1, <4>2
    <3>6. ASSUME NEW w \in Wallets
          PROVE  /\ Pushed(e, w)' \in Nat
                 /\ Pushed(e, w)' > 0 => \E i \in DOMAIN events'[e] : events'[e][i][w] > 0
      <4>1. x[w] \in Nat /\ Pushed(e, w) \in Nat /\ Pushed(e, w)' = Pushed(e, w) + x[w]
        BY <3>2, <3>3
      <4>2. CASE x[w] > 0
        BY <3>4, <4>1, <4>2
      <4>3. CASE ~(x[w] > 0)
        <5>1. Pushed(e, w)' = Pushed(e, w)
          BY <4>1, <4>3
        <5>2. Pushed(e, w) > 0 => \E i \in DOMAIN events[e] : events[e][i][w] > 0
          BY <1>0 DEF PushesFromEvents
        <5> QED BY <3>4, <4>1, <5>1, <5>2
      <4> QED BY <4>2, <4>3
    <3> QED BY <1>0a, <3>1, <3>5, <3>6 DEF PushesFromEvents
  <2> QED BY <2>2, <2>3
<1> QED BY <1>0, <1>2, <1>3, <1>4, <1>5, LandKinds

-----------------------------------------------------------------------------
(***************************************************************************)
(* Finalized epochs: the rows are the pushes, and with the root the plan.  *)
(***************************************************************************)
FromEvents == \A e \in Epochs : PushesFromEvents(e) /\ RowsFromEvents(e)
RowsBelowPushes ==
  \A e \in Epochs, w \in Wallets :
    rows[e][w] \in Nat /\ Pushed(e, w) \in Nat /\ rows[e][w] <= Pushed(e, w)

LEMMA RowsBelow == TypeInv /\ FromEvents => RowsBelowPushes
<1> SUFFICES ASSUME TypeInv, NEW e \in Epochs, PushesFromEvents(e), RowsFromEvents(e),
                    NEW w \in Wallets
             PROVE  rows[e][w] \in Nat /\ Pushed(e, w) \in Nat /\ rows[e][w] <= Pushed(e, w)
  BY DEF FromEvents, RowsBelowPushes
<1>1. rows[e][w] \in U64
  BY DEF TypeInv, KeeperTypeOK, Plan
<1>2. rows[e][w] \in Nat /\ Pushed(e, w) \in Nat
  BY <1>1, U64Nat DEF PushesFromEvents
<1>3. CASE rows[e][w] > 0
  BY <1>2, <1>3 DEF PushesFromEvents, RowsFromEvents
<1>4. CASE ~(rows[e][w] > 0)
  BY <1>2, <1>4
<1> QED BY <1>2, <1>3, <1>4

\* The leaves of the plan in a root add up to no more than the root's leaves.
LEMMA LeafSum ==
  ASSUME NEW plan \in Plan, NEW root \in SUBSET (Wallets \X U64)
  PROVE  SumFunctionOnSet([w \in Wallets |-> Leaf(root, plan, w)], Wallets) <= LeafTotal(root)
<1> DEFINE lf == [w \in Wallets |-> Leaf(root, plan, w)]
           T == {w \in Wallets : plan[w] > 0 /\ <<w, plan[w]>> \in root}
           p == [w \in Wallets |-> <<w, plan[w]>>]
           g == [x \in root |-> x[2]]
           I == {p[w] : w \in T}
<1>0. IsFiniteSet(Wallets) /\ IsFiniteSet(root) /\ T \in SUBSET Wallets
  BY FiniteRoot, DistributorAssumption
<1>1. IsFiniteSet(T) /\ IsFiniteSet(Wallets \ T)
  BY <1>0, FS_Subset
<1>2. \A w \in Wallets : plan[w] \in Nat /\ plan[w] \in Int
  BY U64Nat DEF Plan
<1>3. /\ \A w \in Wallets : lf[w] \in Int
      /\ \A w \in Wallets \ T : lf[w] = 0
      /\ \A w \in T : lf[w] = g[p[w]] /\ lf[w] \in Int /\ p[w] \in root
      /\ \A v, w \in T : p[v] = p[w] => v = w
  BY <1>2 DEF Leaf
<1>4. \A x \in root : g[x] \in Nat
  BY U64Nat
<1>4a. LeafTotal(root) = SumFunctionOnSet(g, root)
  BY LeafTotalNat
<1>5. I \in SUBSET root
  <2>1. \A w \in T : p[w] \in root
    BY <1>3
  <2> HIDE DEF p, T
  <2> QED BY <2>1
<1> HIDE DEF lf, T, p, g
<1>6. SumFunctionOnSet(lf, T) = SumFunctionOnSet(g, I)
  BY <1>1, <1>3, SumReindex
<1> HIDE DEF I
<1>7. SumFunctionOnSet(lf, Wallets) = SumFunctionOnSet(lf, T) + SumFunctionOnSet(lf, Wallets \ T)
  BY <1>0, <1>3, SumSplit
<1>8. SumFunctionOnSet(lf, Wallets \ T) = 0
  BY <1>1, <1>3, SumZero
<1>9. SumFunctionOnSet(g, I) <= SumFunctionOnSet(g, root)
  BY <1>0, <1>4, <1>5, SumSubset
<1>10. SumFunctionOnSet(lf, T) \in Int
  BY <1>1, <1>3, SumInt
<1>11. SumFunctionOnSet(lf, Wallets) <= LeafTotal(root)
  BY <1>4a, <1>6, <1>7, <1>8, <1>9, <1>10
<1> QED BY <1>11 DEF lf

\* The pushes add up to the amount the epoch's books give for them.
LEMMA PushedSum ==
  ASSUME TypeInv, NEW e \in Epochs
  PROVE  SumFunctionOnSet([w \in Wallets |-> Pushed(e, w)], Wallets) = epoch[e].pushed_amount
<1> DEFINE f == [w \in Wallets |-> Pushed(e, w)]
<1>0. /\ TypeOK /\ Books(e) /\ IsFiniteSet(Wallets) /\ epoch[e] \in EpochAccount
      /\ paid[e] \in [Wallets -> Nat] /\ claimed[e] \in [Wallets -> U64]
  BY DistributorAssumption DEF TypeInv, TypeOK
<1>1. \A w \in Wallets : /\ f[w] \in Int /\ claimed[e][w] \in Int
                         /\ paid[e][w] = f[w] + claimed[e][w]
  <2> SUFFICES ASSUME NEW w \in Wallets
               PROVE  /\ Pushed(e, w) \in Int /\ claimed[e][w] \in Int
                      /\ paid[e][w] = Pushed(e, w) + claimed[e][w]
    OBVIOUS
  <2>1. paid[e][w] \in Nat /\ claimed[e][w] \in Nat
    BY <1>0, PushedType
  <2> QED BY <2>1 DEF Pushed
<1> HIDE DEF f
<1>2. SumFunctionOnSet(paid[e], Wallets) =
        SumFunctionOnSet(f, Wallets) + SumFunctionOnSet(claimed[e], Wallets)
  BY <1>0, <1>1, SumAdd
<1>3. /\ SumFunctionOnSet(claimed[e], Wallets) = epoch[e].claimed_amount
      /\ SumFunctionOnSet(paid[e], Wallets) = epoch[e].pushed_amount + epoch[e].claimed_amount
  BY <1>0 DEF Books
<1>4. epoch[e].pushed_amount \in Int /\ epoch[e].claimed_amount \in Int
  BY <1>0, U64Nat DEF EpochAccount
<1>5. SumFunctionOnSet(f, Wallets) \in Int
  BY <1>0, <1>1, SumInt
<1>6. SumFunctionOnSet(f, Wallets) = epoch[e].pushed_amount
  <2> DEFINE x == SumFunctionOnSet(f, Wallets)
             a == epoch[e].pushed_amount
             c == epoch[e].claimed_amount
  <2>1. x \in Int /\ a \in Int /\ c \in Int /\ x + c = a + c
    BY <1>2, <1>3, <1>4, <1>5
  <2> HIDE DEF x, a, c
  <2>2. x = a
    BY <2>1
  <2> QED BY <2>2 DEF x, a
<1> QED BY <1>6 DEF f

\* What the program checks of a root, against what the plan says: nothing was
\* pushed that the database does not know of.
LEMMA RootCompletesPlan ==
  ASSUME TypeInv, NEW e \in Epochs, PushesFromEvents(e), RowsFromEvents(e),
         NEW plan \in Plan, plan = progress[e].plan, Amount(plan) = epoch[e].total_amount,
         NEW root \in SUBSET (Wallets \X U64), Covers(e, root),
         LeafTotal(root) <= epoch[e].total_amount - epoch[e].pushed_amount
  PROVE  \A w \in Wallets : /\ rows[e][w] = Pushed(e, w)
                            /\ rows[e][w] + Leaf(root, plan, w) = plan[w]
<1> DEFINE pu == [w \in Wallets |-> Pushed(e, w)]
           lf == [w \in Wallets |-> Leaf(root, plan, w)]
           g  == [w \in Wallets |-> pu[w] + lf[w]]
<1>0. IsFiniteSet(Wallets) /\ epoch[e] \in EpochAccount
  BY DistributorAssumption DEF TypeInv, TypeOK
<1>1. \A w \in Wallets : /\ plan[w] \in Nat /\ plan[w] \in Int /\ Leaf(root, plan, w) \in Nat
                         /\ Pushed(e, w) \in Nat /\ rows[e][w] \in Nat /\ rows[e][w] <= Pushed(e, w)
  <2> SUFFICES ASSUME NEW w \in Wallets
               PROVE  /\ plan[w] \in Nat /\ plan[w] \in Int /\ Leaf(root, plan, w) \in Nat
                      /\ Pushed(e, w) \in Nat /\ rows[e][w] \in Nat /\ rows[e][w] <= Pushed(e, w)
    OBVIOUS
  <2>1. plan[w] \in Nat
    BY U64Nat DEF Plan
  <2>2. Pushed(e, w) \in Nat
    BY DEF PushesFromEvents
  <2>3. rows[e][w] \in Nat
    BY U64Nat DEF TypeInv, KeeperTypeOK, Plan
  <2>4. rows[e][w] > 0 => rows[e][w] <= Pushed(e, w)
    BY DEF PushesFromEvents, RowsFromEvents
  <2> QED BY <2>1, <2>2, <2>3, <2>4 DEF Leaf
<1>2. ASSUME NEW w \in Wallets PROVE plan[w] <= rows[e][w] + Leaf(root, plan, w)
  <2>1. CASE rows[e][w] > 0
    <3>1. rows[e][w] \in {0, plan[w]}
      BY <2>1 DEF PushesFromEvents, RowsFromEvents
    <3> QED BY <1>1, <2>1, <3>1
  <2>2. CASE ~(rows[e][w] > 0) /\ plan[w] > 0
    <3>1. <<w, plan[w]>> \in root
      BY <2>2 DEF Covers
    <3> QED BY <1>1, <2>2, <3>1 DEF Leaf
  <2>3. CASE ~(plan[w] > 0)
    BY <1>1, <2>3
  <2> QED BY <2>1, <2>2, <2>3
<1>3. \A w \in Wallets : /\ pu[w] \in Int /\ lf[w] \in Int /\ g[w] = pu[w] + lf[w]
                         /\ g[w] \in Int /\ plan[w] \in Int /\ plan[w] <= g[w]
                         /\ pu[w] = Pushed(e, w) /\ lf[w] = Leaf(root, plan, w)
  <2> SUFFICES ASSUME NEW w \in Wallets
               PROVE  /\ Pushed(e, w) \in Int /\ Leaf(root, plan, w) \in Int /\ plan[w] \in Int
                      /\ plan[w] <= Pushed(e, w) + Leaf(root, plan, w)
    OBVIOUS
  <2> QED BY <1>1, <1>2
<1>4. SumFunctionOnSet(pu, Wallets) = epoch[e].pushed_amount
  BY PushedSum
<1>5. SumFunctionOnSet(lf, Wallets) <= LeafTotal(root)
  BY LeafSum
<1> HIDE DEF pu, lf, g
<1>6. SumFunctionOnSet(g, Wallets) = SumFunctionOnSet(pu, Wallets) + SumFunctionOnSet(lf, Wallets)
  BY <1>0, <1>3, SumAdd
<1>7. /\ SumFunctionOnSet(lf, Wallets) \in Int /\ LeafTotal(root) \in Int
      /\ epoch[e].pushed_amount \in Int /\ epoch[e].total_amount \in Int
  <2>1. SumFunctionOnSet(lf, Wallets) \in Int
    BY <1>0, <1>3, SumInt
  <2>2. LeafTotal(root) \in Int
    <3>1. LeafTotal(root) \in Nat
      BY LeafTotalNat
    <3> QED BY <3>1
  <2>3. epoch[e].pushed_amount \in U64 /\ epoch[e].total_amount \in U64
    BY <1>0 DEF EpochAccount
  <2> QED BY <2>1, <2>2, <2>3, U64Nat
<1>8. SumFunctionOnSet(plan, Wallets) = epoch[e].total_amount
  BY AmountDef
<1>9. SumFunctionOnSet(g, Wallets) <= SumFunctionOnSet(plan, Wallets)
  BY <1>4, <1>5, <1>6, <1>7, <1>8
<1>10. \A w \in Wallets : plan[w] = g[w]
  BY <1>0, <1>3, <1>9, SumTight
<1> SUFFICES ASSUME NEW w \in Wallets
             PROVE  /\ rows[e][w] = Pushed(e, w)
                    /\ rows[e][w] + Leaf(root, plan, w) = plan[w]
  OBVIOUS
<1>11. plan[w] = Pushed(e, w) + Leaf(root, plan, w)
  BY <1>3, <1>10
<1> QED BY <1>1, <1>2, <1>11

\* A null plan pushes nothing.
LEMMA NothingPushed ==
  ASSUME TypeInv, NEW e \in Epochs, PushesFromEvents(e), RowsFromEvents(e),
         progress[e].plan = NoPlan
  PROVE  \A w \in Wallets : rows[e][w] = 0 /\ Pushed(e, w) = 0
<1> SUFFICES ASSUME NEW w \in Wallets PROVE rows[e][w] = 0 /\ Pushed(e, w) = 0
  OBVIOUS
<1>1. \A i \in DOMAIN events[e] : events[e][i][w] = 0
  BY DEF PushesFromEvents, NoPlan
<1>2. rows[e][w] \in U64 /\ Pushed(e, w) \in Nat
  BY DEF TypeInv, KeeperTypeOK, Plan, PushesFromEvents
<1>3. rows[e][w] \in Nat
  BY <1>2, U64Nat
<1>4. ~(rows[e][w] > 0) /\ ~(Pushed(e, w) > 0)
  BY <1>1, <1>2, <1>3 DEF PushesFromEvents, RowsFromEvents
<1> QED BY <1>2, <1>3, <1>4

LEMMA NextFinalized ==
  ASSUME PInv, PayoutsNext, NEW e \in Epochs
  PROVE  FinalizedOK(e)'
<1>0. /\ TypeInv /\ TypeInv' /\ ChainInv /\ Grown(e) /\ FinalizedOK(e) /\ StartedOK
      /\ PushesFromEvents(e) /\ RowsFromEvents(e)
  BY Grows, NextTypes
     DEF PInv, ChainInv, EventsOK, PushesFromEvents, RowsFromEvents
<1>1. \A w \in Wallets : /\ rows'[e][w] \in Nat /\ Pushed(e, w)' \in Nat
                         /\ rows'[e][w] <= Pushed(e, w)'
  <2>1. FromEvents'
    BY NextPushes, NextRows DEF FromEvents
  <2>2. RowsBelowPushes'
    BY <1>0, <2>1, RowsBelow, PTL
  <2> QED BY <2>2 DEF RowsBelowPushes
<1>1a. \A w \in Wallets : rows[e][w] \in Nat
  BY <1>0, U64Nat DEF TypeInv, KeeperTypeOK, Plan
\* The rows were the pushes, or are now.
<1>2. ASSUME Started(e), OfPlan(epoch'[e].merkle_root, progress[e].plan), epoch'[e].finalized,
             \A w \in Wallets : rows[e][w] = Pushed(e, w) /\ Pushed(e, w)' = Pushed(e, w),
             progress[e].plan # NoPlan =>
               \A w \in Wallets : rows[e][w] + Leaf(epoch'[e].merkle_root, progress[e].plan, w)
                                    = progress[e].plan[w]
      PROVE  FinalizedOK(e)'
  <2>1. Started(e)' /\ progress'[e].plan = progress[e].plan
    BY <1>0, <1>2 DEF Grown, Keeps, Started
  <2>2. ASSUME NEW w \in Wallets PROVE rows'[e][w] = rows[e][w] /\ rows'[e][w] = Pushed(e, w)'
    <3>1. CASE rows[e][w] > 0
      BY <1>0, <1>2, <3>1 DEF Grown
    <3>2. CASE ~(rows[e][w] > 0)
      BY <1>1, <1>1a, <1>2, <3>2
    <3> QED BY <3>1, <3>2
  <2> QED BY <1>2, <2>1, <2>2 DEF FinalizedOK, OfPlan, Leaf
<1>3. CASE epoch[e].finalized
  <2>1. /\ epoch'[e].finalized /\ epoch'[e].merkle_root = epoch[e].merkle_root
        /\ \A w \in Wallets : Pushed(e, w)' = Pushed(e, w)
    BY <1>0, <1>3 DEF Grown
  <2> QED BY <1>0, <1>2, <1>3, <2>1 DEF FinalizedOK
<1>4. CASE ~epoch[e].finalized /\ epoch'[e].finalized
  <2>1. PICK tx \in net : Land(tx)
    BY <1>0, <1>4, QuietChain DEF SameChain
  <2>2. tx.ix.op = "finalize" /\ tx.ix.e = e
    <3>1. CASE tx.ix.op = "open"
      BY <1>0, <1>4, <2>1, <3>1, OpenLands DEF SameChain
    <3>2. CASE tx.ix.op = "push"
      BY <1>0, <1>4, <2>1, <3>2, PushLands DEF SameChain
    <3>3. CASE tx.ix.op = "finalize"
      BY <1>0, <1>4, <2>1, <3>3, FinalizeLands DEF SameChain
    <3> QED BY <1>0, <2>1, <3>1, <3>2, <3>3, LandKinds
  <2> DEFINE root == tx.ix.root
             plan == progress[e].plan
  <2>3. /\ tx.ix \in FinalizeIx /\ root \in SUBSET (Wallets \X U64)
        /\ epoch[e].exists /\ epoch'[e].merkle_root = root
        /\ LeafTotal(root) <= epoch[e].total_amount - epoch[e].pushed_amount
        /\ \A w \in Wallets : Pushed(e, w)' = Pushed(e, w)
    BY <1>0, <2>1, <2>2, FinalizeLands DEF FinalizeIx
  <2>4. Started(e) /\ Covers(e, root) /\ OfPlan(root, plan)
    BY <1>0, <2>2 DEF ChainInv, IxOK, FinalizeOK
  <2>5. /\ plan \in Plan /\ progress[e].total = epoch[e].total_amount
        /\ plan = NoPlan \/ Amount(plan) = epoch[e].total_amount
    BY <1>0, <2>4 DEF TypeInv, KeeperTypeOK, Progress, Started, StartedOK
  <2>6. CASE plan = NoPlan
    <3>1. \A w \in Wallets : rows[e][w] = 0 /\ Pushed(e, w) = 0
      BY <1>0, <2>6, NothingPushed
    <3> QED BY <1>2, <1>4, <2>3, <2>4, <2>6, <3>1
  <2>7. CASE plan # NoPlan
    <3>1. \A w \in Wallets : rows[e][w] = Pushed(e, w) /\ rows[e][w] + Leaf(root, plan, w) = plan[w]
      BY <1>0, <2>3, <2>4, <2>5, <2>7, RootCompletesPlan
    <3> QED BY <1>2, <1>4, <2>3, <2>4, <3>1
  <2> QED BY <2>6, <2>7
<1>5. CASE ~epoch'[e].finalized
  BY <1>5 DEF FinalizedOK
<1> QED BY <1>3, <1>4, <1>5

-----------------------------------------------------------------------------
(***************************************************************************)
(* What the cycle knows, step by step                                      *)
(***************************************************************************)
\* What is known of an epoch stays known.
LEMMA KnownStays ==
  ASSUME TypeInv, PayoutsNext, loc.e \in Epochs,
         loc'.e = loc.e, loc'.plan = loc.plan, loc'.merkle = loc.merkle
  PROVE  /\ PlanKnown => PlanKnown'
         /\ RootKnown => RootKnown'
         /\ \A w \in Wallets : rows[loc.e][w] > 0 => rows'[loc'.e][w] > 0
         /\ \A w : (\E i \in DOMAIN events[loc.e] : events[loc.e][i][w] = loc.plan[w]) =>
                     \E i \in DOMAIN events'[loc'.e] : events'[loc'.e][i][w] = loc'.plan[w]
<1>1. Grown(loc.e)
  BY Grows
<1>2. PlanKnown => PlanKnown'
  BY <1>1 DEF PlanKnown, Started, Grown, Keeps
<1>3. RootKnown => RootKnown'
  BY <1>1 DEF RootKnown, Grown
<1>4. /\ \A w \in Wallets : rows[loc.e][w] > 0 => rows'[loc.e][w] = rows[loc.e][w]
      /\ \A i \in DOMAIN events[loc.e] : i \in DOMAIN events'[loc.e]
                                           /\ events'[loc.e][i] = events[loc.e][i]
  BY <1>1 DEF Grown
<1> QED BY <1>2, <1>3, <1>4

\* Steps of others: the cycle is where it was and knows what it knew.
LEMMA WaitStays ==
  ASSUME PInv, PayoutsNext, pc = "wait", UNCHANGED <<pc, loc, progress>>,
         confirmed' => confirmed \/ Land(loc.tx)
  PROVE  WaitInv'
<1>0. /\ TypeInv /\ ChainInv /\ WaitInv /\ loc.e \in Epochs
      /\ loc.tx \in Tx /\ loc.tx.ix \in Ix /\ loc.tx.ix.e = loc.e
      /\ loc' = loc /\ pc' = pc /\ progress' = progress
  BY DEF PInv, KeeperInv, TypeInv, CycleEpoch, Tx
<1>0a. \A tx : Land(tx) => tx \in net
  BY DEF Land
<1> DEFINE ix == loc.tx.ix
<1>1. IxOK(loc.tx.ix)'
  <2> DEFINE jx == loc.tx.ix
  <2>1. \A kx \in Ix : IxOK(kx) => IxOK(kx)'
    BY <1>0, IxStable
  <2>2. IxOK(jx)
    BY <1>0 DEF WaitInv
  <2> QED BY <1>0, <2>1, <2>2 DEF IxOK, OpenOK, PushOK, FinalizeOK, Covers, OfPlan, Started
<1>2. Grown(loc.e)
  BY <1>0, Grows
<1>3. CASE ix.op = "open"
  <2>1. OpenKnown /\ ix.plan = loc.plan
        /\ (confirmed => epoch[loc.e].exists /\ epoch[loc.e].total_amount = Amount(loc.plan))
    BY <1>0, <1>3 DEF WaitInv
  <2>2. CASE Land(loc.tx)
    <3>1. /\ ~epoch[loc.e].exists /\ epoch'[loc.e].exists
          /\ epoch'[loc.e].total_amount = Amount(loc.plan)
      BY <1>0, <1>0a, <1>3, <2>1, <2>2, OpenLands
    <3>2. OpenKnown'
      BY <1>0, <2>1, <3>1 DEF OpenKnown
    <3> QED BY <1>0, <1>1, <1>3, <2>1, <3>1, <3>2 DEF WaitInv
  <2>3. CASE ~Land(loc.tx)
    <3>1. confirmed' => confirmed
      BY <2>3
    <3>2. OpenKnown'
      BY <1>0, <1>2, <2>1, <3>1 DEF OpenKnown, Grown
    <3>3. confirmed' => epoch'[loc.e].exists /\ epoch'[loc.e].total_amount = Amount(loc.plan)
      BY <1>2, <2>1, <3>1 DEF Grown
    <3> QED BY <1>0, <1>1, <1>3, <2>1, <3>2, <3>3 DEF WaitInv
  <2> QED BY <2>2, <2>3
<1>4. CASE ix.op = "push"
  <2>1. /\ PlanKnown /\ OfPlan(loc.merkle, loc.plan) /\ Accounted(loc.queue \cup loc.record)
        /\ ix.items = Items(loc.plan, loc.record)
        /\ confirmed => InEvents(loc.record)
    BY <1>0, <1>4 DEF WaitInv
  <2>2. PlanKnown' /\ OfPlan(loc.merkle, loc.plan)' /\ Accounted(loc.queue \cup loc.record)'
    BY <1>0, <2>1, KnownStays DEF OfPlan, Accounted
  <2>3. confirmed' => InEvents(loc.record)'
    <3>1. CASE Land(loc.tx)
      <4>1. /\ events'[loc.e] = Append(events[loc.e], ix.items) /\ events[loc.e] \in Seq(Plan)
            /\ ix.items \in Plan
        <5>1. /\ events' = [events EXCEPT ![ix.e] = Append(@, ix.items)] /\ ix \in PushIx
          BY <1>0, <1>0a, <1>4, <3>1, PushLands
        <5>2. events \in [Epochs -> Seq(Plan)]
          BY <1>0 DEF TypeInv, KeeperTypeOK
        <5> QED BY <1>0, <5>1, <5>2 DEF PushIx
      <4>2. PICK i \in DOMAIN events'[loc.e] : events'[loc.e][i] = ix.items
        BY <4>1, Appended
      <4>3. \A w \in loc.record : w \in Wallets /\ ix.items[w] = loc.plan[w]
        BY <1>0, <2>1, LocalsOf DEF Items, TypeInv, KeeperTypeOK
      <4> QED BY <1>0, <4>2, <4>3 DEF InEvents
    <3>2. CASE confirmed
      BY <1>0, <2>1, <3>2, KnownStays DEF InEvents
    <3> QED BY <3>1, <3>2
  <2> QED BY <1>0, <1>1, <1>4, <2>1, <2>2, <2>3 DEF WaitInv
<1>5. CASE ix.op = "finalize"
  <2>1. PlanKnown /\ ix.root = loc.merkle /\ (confirmed => RootKnown)
    BY <1>0, <1>5 DEF WaitInv
  <2>2. PlanKnown' /\ (RootKnown => RootKnown')
    BY <1>0, <2>1, KnownStays
  <2>3. confirmed' => RootKnown'
    <3>1. CASE Land(loc.tx)
      <4>1. epoch'[loc.e].finalized /\ epoch'[loc.e].merkle_root = loc.merkle
        BY <1>0, <1>0a, <1>5, <2>1, <3>1, FinalizeLands
      <4> QED BY <1>0, <4>1 DEF RootKnown
    <3>2. CASE confirmed
      BY <2>1, <2>2, <3>2
    <3> QED BY <3>1, <3>2
  <2> QED BY <1>0, <1>1, <1>5, <2>1, <2>2, <2>3 DEF WaitInv
<1> QED BY <1>0, <1>3, <1>4, <1>5 DEF Ix, OpenIx, PushIx, FinalizeIx

LEMMA KeeperStays ==
  ASSUME PInv, PayoutsNext, ~KeeperStep
  PROVE  KeeperInv'
<1>0. TypeInv /\ ChainInv /\ KeeperInv /\ CycleEpoch /\ Epochs \subseteq Nat
  BY EpochsType DEF PInv, TypeInv
<1>1. CASE Crash
  <2>1. pc' = "idle"
    BY <1>1 DEF Crash, EndCycle, Goto
  <2> QED BY <2>1 DEF KeeperInv
<1>2. CASE ~Crash
  <2>1. /\ pc' = pc /\ loc' = loc /\ progress' = progress /\ leaves' = leaves
        /\ confirmed' => confirmed \/ Land(loc.tx)
    <3> USE DEF netVars, dbVars, keeperVars
    <3>1. CASE \E tx \in net : Land(tx)
      BY <3>1 DEF Land
    <3>2. CASE \E tx \in net : Reject(tx) \/ Drop(tx)
      BY <3>2 DEF Reject, Drop
    <3>3. CASE \E e \in Epochs : \E i \in DOMAIN events[e], w \in Wallets : IndexPayout(e, i, w)
      BY <3>3 DEF IndexPayout
    <3>4. CASE ChangePushCap \/ Surroundings \/ \E w \in Wallets, e \in Epochs : ClaimServed(w, e)
      <4>1. UNCHANGED <<pc, loc, progress, leaves, confirmed>>
        BY <3>4 DEF ChangePushCap, Surroundings, ClaimServed
      <4> QED BY <4>1
    <3> QED BY <1>2, <3>1, <3>2, <3>3, <3>4 DEF PayoutsNext, NetworkStep
  <2>2. \A d \in Epochs : epoch[d].finalized => epoch'[d].finalized
    BY <1>0, Grows DEF Grown
  <2>3. pc = "idle" => KeeperInv'
    BY <2>1 DEF KeeperInv
  <2>4. pc = "gate" => KeeperInv'
    BY <1>0, <2>1, <2>2 DEF KeeperInv
  <2>5. ASSUME pc \notin {"idle", "gate"} PROVE KeeperInv'
    <3>0. loc.e \in Epochs
      BY <1>0, <2>5 DEF CycleEpoch
    <3>1. Grown(loc.e)
      BY <1>0, <3>0, Grows
    <3>2. /\ PlanKnown => PlanKnown'
          /\ RootKnown => RootKnown'
          /\ \A w \in Wallets : rows[loc.e][w] > 0 => rows'[loc.e][w] > 0
          /\ \A w : (\E i \in DOMAIN events[loc.e] : events[loc.e][i][w] = loc.plan[w]) =>
                      \E i \in DOMAIN events'[loc.e] : events'[loc.e][i][w] = loc.plan[w]
      BY <1>0, <2>1, <3>0, KnownStays
    <3>3. loc.already \subseteq Wallets
      BY <1>0, LocalsOf DEF TypeInv, KeeperTypeOK
    <3>4. CASE pc = "wait"
      <4>1. WaitInv'
        BY <2>1, <3>4, WaitStays
      <4> QED BY <2>1, <3>4, <4>1 DEF KeeperInv
    <3>5. CASE pc = "open"
      <4>1. OpenKnown'
        BY <1>0, <2>1, <3>1, <3>5 DEF KeeperInv, OpenKnown, Grown
      <4> QED BY <1>0, <2>1, <2>2, <3>5, <4>1 DEF KeeperInv
    <3>6. CASE pc \in {"resume", "repair"}
      BY <1>0, <2>1, <3>1, <3>6 DEF KeeperInv, Grown
    <3>7. CASE pc \in {"reconcile", "split"}
      BY <1>0, <2>1, <3>2, <3>3, <3>7 DEF KeeperInv
    <3>8. CASE pc \in {"push", "record"}
      <4>1. \A ws : Accounted(ws) =>
              \A w \in Wallets : loc.plan[w] > 0 =>
                rows'[loc.e][w] > 0 \/ w \in ws \/ <<w, loc.plan[w]>> \in loc.merkle
        BY <3>2 DEF Accounted
      <4>2. InEvents(loc.record) => InEvents(loc.record)'
        BY <2>1, <3>2 DEF InEvents
      <4>3. /\ Accounted(loc.queue) => Accounted(loc.queue)'
            /\ Accounted(loc.queue \cup loc.record) => Accounted(loc.queue \cup loc.record)'
        BY <2>1, <4>1 DEF Accounted
      <4>4. OfPlan(loc.merkle, loc.plan) => OfPlan(loc.merkle, loc.plan)'
        BY <2>1 DEF OfPlan
      <4> QED BY <1>0, <2>1, <3>2, <3>8, <4>2, <4>3, <4>4 DEF KeeperInv
    <3>9. CASE pc \in {"leaves", "mark", "finalized"}
      BY <1>0, <2>1, <3>2, <3>9 DEF KeeperInv
    <3>10. CASE pc \notin {"wait", "open", "resume", "repair", "reconcile", "split", "push",
                           "record", "leaves", "mark", "finalized"}
      BY <2>1, <2>5, <3>10 DEF KeeperInv
    <3> QED BY <3>4, <3>5, <3>6, <3>7, <3>8, <3>9, <3>10
  <2> QED BY <2>3, <2>4, <2>5
<1> QED BY <1>1, <1>2

\* The steps of the keeper.
LEMMA StartKnows == ASSUME PInv, StartCycle, TypeInv' PROVE KeeperInv'
<1>0. TypeInv /\ ChainInv /\ TypeOK /\ Epochs \subseteq Nat
  BY EpochsType DEF PInv, TypeInv
<1> DEFINE e == LatestEpoch
<1>1. /\ e \in Epochs \cup {-1} /\ (e # -1 => epoch[e].exists) /\ \A d \in Epochs : d # -1
  BY <1>0, LatestEpochFound
<1>2. UNCHANGED <<vars, progress, rows, leaves, marked, events>>
  BY DEF StartCycle, dbVars, netVars
<1>3. epoch' = epoch
  BY <1>2 DEF vars
<1>4. CASE e = -1
  <2>1. pc' = "gate" /\ loc' = [NoLoc EXCEPT !.e = -1]
    BY <1>4 DEF StartCycle, Goto
  <2>2. loc'.e = -1
    BY <2>1, NoLocType DEF Locals
  <2> QED BY <1>0, <2>1, <2>2 DEF KeeperInv
<1>5. CASE e # -1
  <2>0. e \in Epochs /\ epoch[e].exists
    BY <1>1, <1>5
  <2>1. /\ loc' = Snapshot(e)
        /\ \/ pc' = "resume"
           \/ pc' \in {"repair", "gate"} /\ epoch[e].finalized
    BY <1>5 DEF StartCycle, Goto
  <2>2. Snapshot(e).e = e /\ Snapshot(e).total = epoch[e].total_amount
    BY <1>0, <2>0, SnapshotType
  <2>3. loc'.e = e /\ loc'.total = epoch[e].total_amount
    BY <2>1, <2>2
  <2> HIDE DEF e
  <2>4. CASE pc' = "resume"
    BY <1>3, <2>0, <2>3, <2>4 DEF KeeperInv
  <2>5. CASE pc' = "repair" /\ epoch[e].finalized
    BY <1>3, <2>0, <2>3, <2>5 DEF KeeperInv
  <2>6. CASE pc' = "gate" /\ epoch[e].finalized
    <3>1. \A d \in Epochs : d <= e => epoch[d].finalized
      <4>1. \A d \in Epochs : d < e => epoch[d].finalized
        BY <1>0, <2>0 DEF ChainInv, OneEpochAtATime
      <4>2. \A d \in Epochs : d <= e => d < e \/ d = e
        BY <1>0, <2>0
      <4> QED BY <2>6, <4>1, <4>2
    <3> QED BY <1>3, <2>3, <2>6, <3>1 DEF KeeperInv
  <2> QED BY <2>1, <2>4, <2>5, <2>6
<1> QED BY <1>4, <1>5

LEMMA PlanKnows == ASSUME PInv, PlanEpoch, PayoutsNext PROVE KeeperInv'
<1>0. TypeInv /\ ChainInv /\ KeeperInv /\ pc = "gate" /\ loc.e \in Int
  BY LocalsOf DEF PInv, PlanEpoch, TypeInv, KeeperTypeOK
<1>1. PICK total \in U64, plan \in Plan, s \in Int :
        /\ plan \in Plans(total) \ {NoPlan}
        /\ loc.e + 1 \in Epochs /\ progress' = SavePlan(loc.e + 1, total, plan)
        /\ loc' = [NoLoc EXCEPT !.e = loc.e + 1, !.start = s, !.end = now, !.plan = plan]
        /\ pc' = "open"
  <2> DEFINE total == holderVault[feeRouter][Pool]
  <2>1. total \in U64
    <3>1. /\ feeRouter \in Routers /\ Pool \in Pools /\ outside \in Nat /\ total \in Nat
      BY <1>0, PayoutsAssumption DEF TypeInv, TypeOK
    <3>2. outside + total <= Supply
      BY <1>0, <3>1 DEF TypeInv, FundsBounded
    <3> QED BY <3>1, <3>2, DistributorAssumption DEF U64
  <2>2. (IF loc.e = -1 THEN now - FEE_CYCLE_SECS ELSE loc.end) \in Int
    BY <1>0, LocalsOf, PayoutsAssumption DEF TypeInv, TypeOK, KeeperTypeOK
  <2>3. \E plan \in Plans(total) \ {NoPlan}, s \in Int :
        /\ plan \in Plans(total) \ {NoPlan}
        /\ loc.e + 1 \in Epochs /\ progress' = SavePlan(loc.e + 1, total, plan)
        /\ loc' = [NoLoc EXCEPT !.e = loc.e + 1, !.start = s, !.end = now, !.plan = plan]
        /\ pc' = "open"
    BY <2>2 DEF PlanEpoch, Goto
  <2> HIDE DEF total
  <2>4. Plans(total) \subseteq Plan
    BY <2>1, PlansType
  <2> QED BY <2>1, <2>3, <2>4
<1>2. epoch' = epoch
  BY DEF PlanEpoch, vars
<1>3. plan \in Plan /\ Amount(plan) = total
  BY <1>1, PlansType
<1>4. loc'.e = loc.e + 1 /\ loc'.plan = plan
  BY <1>1, NoLocType DEF Locals
<1>5. \A d \in Epochs : d < loc.e + 1 => epoch[d].finalized
  <2>1. \A d \in Epochs : d <= loc.e => epoch[d].finalized
    BY <1>0 DEF KeeperInv
  <2>2. \A d \in Epochs : d < loc.e + 1 => d <= loc.e
    BY <1>0, EpochsType
  <2> QED BY <2>1, <2>2
<1>6. OpenKnown'
  <2>1. CASE Started(loc.e + 1)
    BY <1>0, <1>1, <1>2, <1>4, <2>1 DEF ChainInv, StartedOK, OpenKnown
  <2>2. CASE ~Started(loc.e + 1)
    <3>1. /\ progress'[loc.e + 1] = [phase |-> "planned", total |-> total, plan |-> plan]
          /\ progress'[loc.e + 1] # None
      BY <1>0, <1>1, <1>3, <2>2, SavePlanKeeps
    <3> QED BY <1>3, <1>4, <3>1 DEF OpenKnown
  <2> QED BY <2>1, <2>2
<1> QED BY <1>1, <1>2, <1>4, <1>5, <1>6 DEF KeeperInv

LEMMA SendOpenKnows == ASSUME PInv, SendOpen, TypeInv' PROVE KeeperInv'
<1>0. /\ TypeInv /\ ChainInv /\ KeeperInv /\ pc = "open" /\ loc.e \in Epochs
      /\ loc \in Locals /\ faults \in Nat /\ net \in SUBSET Tx
  BY DEF PInv, SendOpen, TypeInv, CycleEpoch, KeeperTypeOK
<1> DEFINE ix == OpenTx(loc.e, loc.start, loc.end, loc.plan)
<1>1. ix \in Ix
  BY <1>0, LocalsOf, IxType
<1>2. Send(ix, 1, faults, loc) /\ UNCHANGED <<vars, progress, rows, leaves, marked, events>>
  BY DEF SendOpen, SendOnly, dbVars
<1>3. epoch' = epoch
  BY <1>2 DEF vars
<1> HIDE DEF ix
<1>4. /\ SameWork(loc', loc) /\ pc' = "wait" /\ loc'.tx = [ix |-> ix, id |-> faults]
      /\ confirmed' = FALSE
  BY <1>0, <1>1, <1>2, SendType
<1>5. loc'.tx.ix = ix /\ loc'.e = loc.e /\ loc'.plan = loc.plan
  BY <1>4 DEF SameWork
<1>6. /\ OpenKnown /\ \A d \in Epochs : d < loc.e => epoch[d].finalized
      /\ progress[loc.e] # None
  BY <1>0 DEF KeeperInv, OpenKnown, ChainInv
<1>7. ix.op = "open" /\ ix.e = loc.e /\ ix.plan = loc.plan
  BY DEF ix, OpenTx
<1>8. OpenKnown'
  BY <1>2, <1>3, <1>4, <1>5, <1>6 DEF OpenKnown
<1>9. IxOK(loc.tx.ix)'
  BY <1>2, <1>3, <1>5, <1>6, <1>7 DEF IxOK, OpenOK
<1>10. WaitInv'
  BY <1>4, <1>5, <1>7, <1>8, <1>9 DEF WaitInv
<1> QED BY <1>4, <1>10 DEF KeeperInv

LEMMA OpenConfirmedKnows == ASSUME PInv, OpenConfirmed, PayoutsNext PROVE KeeperInv'
<1>0. /\ TypeInv /\ KeeperInv /\ pc = "wait" /\ loc.e \in Epochs /\ TypeOK /\ loc \in Locals
      /\ loc.tx.ix.op = "open" /\ confirmed /\ WaitInv
      /\ progress \in [Epochs -> Progress \cup {None}]
  BY DEF PInv, OpenConfirmed, TypeInv, CycleEpoch, KeeperTypeOK, KeeperInv
<1>1. /\ progress[loc.e] # None /\ progress[loc.e].plan = loc.plan
  BY <1>0 DEF WaitInv, OpenKnown
<1>2. /\ progress' = SetPhase(progress, loc.e, "opened") /\ pc' = "split"
      /\ loc' = [Snapshot(loc.e) EXCEPT !.plan = loc.plan]
  BY DEF OpenConfirmed, Goto
<1>3. loc'.e = loc.e /\ loc'.plan = loc.plan /\ loc'.already = {}
  <2>1. Snapshot(loc.e) \in Locals /\ Snapshot(loc.e).e = loc.e /\ Snapshot(loc.e).already = {}
    BY <1>0, SnapshotType
  <2> QED BY <1>2, <2>1 DEF Locals
<1>4. PlanKnown'
  BY <1>0, <1>1, <1>2, <1>3, SetPhaseKeeps DEF PlanKnown, Started
<1> QED BY <1>2, <1>3, <1>4 DEF KeeperInv

LEMMA ResumeKnows == ASSUME PInv, ResumeEpoch, PayoutsNext PROVE KeeperInv'
<1>0. /\ TypeInv /\ ChainInv /\ KeeperInv /\ pc = "resume" /\ loc.e \in Epochs /\ loc \in Locals
      /\ progress \in [Epochs -> Progress \cup {None}] /\ loc.total \in U64
      /\ epoch[loc.e].exists /\ loc.total = epoch[loc.e].total_amount
      /\ progress[loc.e] # None /\ StartedOK
  BY LocalsOf DEF PInv, ResumeEpoch, TypeInv, CycleEpoch, KeeperTypeOK, KeeperInv, ChainInv
<1>1. CASE progress[loc.e].total = loc.total
  <2>1. /\ progress' = SetPhase(progress, loc.e, "opened") /\ pc' = "reconcile"
        /\ loc' = [loc EXCEPT !.plan = progress[loc.e].plan]
    BY <1>0, <1>1 DEF ResumeEpoch, Goto
  <2>2. loc'.e = loc.e /\ loc'.plan = progress[loc.e].plan
    BY <1>0, <2>1 DEF Locals
  <2>3. PlanKnown'
    BY <1>0, <2>1, <2>2, SetPhaseKeeps DEF PlanKnown, Started
  <2> QED BY <2>1, <2>3 DEF KeeperInv
<1>2. CASE progress[loc.e].total # loc.total
  <2>1. PICK plan \in Plans(loc.total) :
          /\ progress' = SetPhase(SavePlan(loc.e, loc.total, plan), loc.e, "opened")
          /\ pc' = "reconcile" /\ loc' = [loc EXCEPT !.plan = plan]
    BY <1>2 DEF ResumeEpoch, Goto
  <2> DEFINE t == SavePlan(loc.e, loc.total, plan)
  <2>2. plan \in Plan
    BY <1>0, <2>1, PlansType
  <2>3. ~Started(loc.e)
    BY <1>0, <1>2 DEF StartedOK
  <2>4. /\ t \in [Epochs -> Progress \cup {None}] /\ t[loc.e] # None
        /\ t[loc.e] = [phase |-> "planned", total |-> loc.total, plan |-> plan]
    BY <1>0, <2>2, <2>3, SavePlanType, SavePlanKeeps
  <2>5. loc'.e = loc.e /\ loc'.plan = plan /\ progress' = SetPhase(t, loc.e, "opened")
    BY <1>0, <2>1 DEF Locals
  <2> HIDE DEF t
  <2>6. PlanKnown'
    BY <1>0, <2>4, <2>5, SetPhaseKeeps DEF PlanKnown, Started
  <2> QED BY <2>1, <2>6 DEF KeeperInv
<1> QED BY <1>1, <1>2

LEMMA ReconcileKnows == ASSUME PInv, ReconcilePushed, PayoutsNext PROVE KeeperInv'
<1>0. /\ TypeInv /\ KeeperInv /\ pc = "reconcile" /\ loc.e \in Epochs /\ loc \in Locals /\ PlanKnown
  BY DEF PInv, ReconcilePushed, TypeInv, CycleEpoch, KeeperTypeOK, KeeperInv
<1>1. CASE pc' = "idle"
  BY <1>1 DEF KeeperInv
<1>2. CASE pc' # "idle"
  <2>1. /\ pc' = "split" /\ UNCHANGED progress
        /\ loc' = [loc EXCEPT !.already = {w \in Wallets : rows'[loc.e][w] > 0}]
    BY <1>2 DEF ReconcilePushed, Goto, EndCycle
  <2>2. /\ loc'.e = loc.e /\ loc'.plan = loc.plan
        /\ loc'.already = {w \in Wallets : rows'[loc.e][w] > 0}
    BY <1>0, <2>1 DEF Locals
  <2>3. PlanKnown'
    BY <1>0, <2>1, <2>2 DEF PlanKnown, Started
  <2>4. \A w \in loc'.already : rows'[loc'.e][w] > 0
    BY <2>2
  <2> QED BY <2>1, <2>3, <2>4 DEF KeeperInv
<1> QED BY <1>1, <1>2

LEMMA SplitKnows == ASSUME PInv, Split, PayoutsNext PROVE KeeperInv'
<1>0. /\ TypeInv /\ KeeperInv /\ pc = "split" /\ loc.e \in Epochs /\ loc \in Locals /\ PlanKnown
      /\ \A w \in loc.already : rows[loc.e][w] > 0
  BY DEF PInv, Split, TypeInv, CycleEpoch, KeeperTypeOK, KeeperInv
<1> DEFINE remaining == {w \in Wallets : loc.plan[w] > 0 /\ w \notin loc.already}
<1>0a. PICK push \in SUBSET Wallets : \E n :
        loc' = [loc EXCEPT !.queue = push,
                           !.merkle = {<<w, loc.plan[w]>> : w \in remaining \ push},
                           !.pushedTotal = n]
  BY DEF Split, Goto
<1>1. PICK n :
        loc' = [loc EXCEPT !.queue = push,
                           !.merkle = {<<w, loc.plan[w]>> : w \in remaining \ push},
                           !.pushedTotal = n]
  BY <1>0a
<1>2. pc' = "push" /\ progress' = progress /\ rows' = rows
  BY DEF Split, Goto, dbVars
<1>3. /\ loc'.e = loc.e /\ loc'.plan = loc.plan /\ loc'.queue = push
      /\ loc'.merkle = {<<w, loc.plan[w]>> : w \in remaining \ push}
  BY <1>0, <1>1 DEF Locals
<1>4. PlanKnown'
  BY <1>0, <1>2, <1>3 DEF PlanKnown, Started
<1>5. OfPlan(loc.merkle, loc.plan)'
  BY <1>3 DEF OfPlan
<1>6. Accounted(loc.queue)'
  <2> SUFFICES ASSUME NEW w \in Wallets, loc.plan[w] > 0
               PROVE  rows[loc.e][w] > 0 \/ w \in push \/ <<w, loc.plan[w]>> \in loc'.merkle
    BY <1>2, <1>3 DEF Accounted
  <2>1. w \in loc.already \/ w \in remaining
    OBVIOUS
  <2> HIDE DEF remaining
  <2> QED BY <1>0, <1>3, <2>1
<1> QED BY <1>2, <1>4, <1>5, <1>6 DEF KeeperInv

LEMMA SendPushKnows == ASSUME PInv, SendPush, PayoutsNext PROVE KeeperInv'
<1>0. /\ TypeInv /\ KeeperInv /\ pc = "push" /\ loc.e \in Epochs /\ loc \in Locals /\ PlanKnown
      /\ OfPlan(loc.merkle, loc.plan) /\ Accounted(loc.queue)
      /\ faults \in Nat /\ net \in SUBSET Tx /\ loc.plan \in Plan /\ loc.queue \in SUBSET Wallets
  BY LocalsOf DEF PInv, SendPush, TypeInv, CycleEpoch, KeeperTypeOK, KeeperInv
<1> DEFINE chunk == Chunk(loc.queue)
           l == [loc EXCEPT !.queue = @ \ chunk, !.record = chunk]
           ix == PushTx(loc.e, Items(loc.plan, chunk))
<1>1. /\ Send(ix, 1, faults, l) /\ progress' = progress /\ rows' = rows
  BY DEF SendPush, SendOnly, dbVars
<1>2. chunk \subseteq loc.queue
  BY DEF Chunk
<1>3. ix \in Ix /\ ix.e = loc.e /\ ix.op = "push" /\ ix.items = Items(loc.plan, chunk)
  BY <1>0, IxType, ItemsType DEF PushTx
<1> HIDE DEF chunk, ix
<1>4. /\ l \in Locals /\ l.e = loc.e /\ l.plan = loc.plan /\ l.merkle = loc.merkle
      /\ l.queue = loc.queue \ chunk /\ l.record = chunk
  BY <1>0, <1>2 DEF Locals
<1> HIDE DEF l
<1>5. /\ SameWork(loc', l) /\ pc' = "wait" /\ loc'.tx = [ix |-> ix, id |-> faults]
      /\ confirmed' = FALSE
  BY <1>0, <1>1, <1>3, <1>4, SendType
<1>6. /\ loc'.tx.ix = ix /\ loc'.e = loc.e /\ loc'.plan = loc.plan /\ loc'.merkle = loc.merkle
      /\ loc'.queue = loc.queue \ chunk /\ loc'.record = chunk
  BY <1>4, <1>5 DEF SameWork
<1>7. PlanKnown' /\ OfPlan(loc.merkle, loc.plan)'
  BY <1>0, <1>1, <1>6 DEF PlanKnown, Started, OfPlan
<1>8. Accounted(loc.queue \cup loc.record)'
  <2>1. loc'.queue \cup loc'.record = loc.queue
    BY <1>2, <1>6
  <2> QED BY <1>0, <1>1, <1>6, <2>1 DEF Accounted
<1>9. IxOK(loc.tx.ix)'
  <2>1. \A w \in Wallets : ix.items[w] \in {0, loc.plan[w]}
    BY <1>3 DEF Items
  <2>2. PushOK(loc.tx.ix)'
    BY <1>3, <1>6, <1>7, <2>1 DEF PushOK, PlanKnown
  <2> QED BY <1>3, <1>6, <2>2 DEF IxOK
<1>10. WaitInv'
  BY <1>3, <1>5, <1>6, <1>7, <1>8, <1>9 DEF WaitInv
<1> QED BY <1>5, <1>10 DEF KeeperInv

LEMMA ConfirmedKnows ==
  ASSUME PInv, PushConfirmed \/ FinalizeConfirmed, PayoutsNext
  PROVE  KeeperInv'
<1>0. /\ KeeperInv /\ pc = "wait" /\ WaitInv /\ confirmed
      /\ loc' = loc /\ progress' = progress /\ rows' = rows /\ events' = events /\ epoch' = epoch
  BY DEF PInv, PushConfirmed, FinalizeConfirmed, KeeperInv, Goto, dbVars, netVars, vars
<1>1. CASE PushConfirmed
  <2>1. /\ pc' = "record" /\ loc.tx.ix.op = "push"
    BY <1>1 DEF PushConfirmed, Goto
  <2>2. /\ PlanKnown /\ OfPlan(loc.merkle, loc.plan) /\ Accounted(loc.queue \cup loc.record)
        /\ InEvents(loc.record)
    BY <1>0, <2>1 DEF WaitInv
  <2>3. /\ PlanKnown' /\ OfPlan(loc.merkle, loc.plan)' /\ Accounted(loc.queue \cup loc.record)'
        /\ InEvents(loc.record)'
    BY <1>0, <2>2 DEF PlanKnown, Started, OfPlan, Accounted, InEvents
  <2> QED BY <2>1, <2>3 DEF KeeperInv
<1>2. CASE FinalizeConfirmed
  <2>1. /\ pc' = "leaves" /\ loc.tx.ix.op = "finalize"
    BY <1>2 DEF FinalizeConfirmed, Goto
  <2>2. RootKnown
    BY <1>0, <2>1 DEF WaitInv
  <2>3. RootKnown'
    BY <1>0, <2>2 DEF RootKnown
  <2> QED BY <2>1, <2>3 DEF KeeperInv
<1> QED BY <1>1, <1>2

LEMMA RecordKnows == ASSUME PInv, RecordPayout, PayoutsNext PROVE KeeperInv'
<1>0. /\ TypeInv /\ KeeperInv /\ pc = "record" /\ loc.e \in Epochs /\ loc \in Locals /\ PlanKnown
      /\ OfPlan(loc.merkle, loc.plan) /\ Accounted(loc.queue \cup loc.record) /\ InEvents(loc.record)
      /\ rows \in [Epochs -> [Wallets -> U64]] /\ loc.record \in SUBSET Wallets
  BY LocalsOf DEF PInv, RecordPayout, TypeInv, CycleEpoch, KeeperTypeOK, KeeperInv, Plan
<1>1. PICK w \in loc.record :
        /\ rows' = [rows EXCEPT ![loc.e][w] = IF @ = 0 THEN loc.plan[w] ELSE @]
        /\ Goto(IF loc.record \ {w} = {} THEN "push" ELSE "record",
                [loc EXCEPT !.record = loc.record \ {w}])
  BY DEF RecordPayout
<1>2. progress' = progress /\ events' = events
  BY DEF RecordPayout, netVars
<1>3. /\ loc'.e = loc.e /\ loc'.plan = loc.plan /\ loc'.merkle = loc.merkle
      /\ loc'.queue = loc.queue /\ loc'.record = loc.record \ {w}
      /\ pc' \in {"push", "record"} /\ (pc' = "push" => loc'.record = {})
  BY <1>0, <1>1 DEF Locals, Goto
<1>4. PlanKnown' /\ OfPlan(loc.merkle, loc.plan)'
  BY <1>0, <1>2, <1>3 DEF PlanKnown, Started, OfPlan
<1>5. InEvents(loc.record)'
  BY <1>0, <1>2, <1>3 DEF InEvents
<1>6. Accounted(loc.queue \cup loc.record)'
  <2> SUFFICES ASSUME NEW v \in Wallets, loc.plan[v] > 0
               PROVE  rows'[loc.e][v] > 0 \/ v \in loc'.queue \cup loc'.record
                        \/ <<v, loc.plan[v]>> \in loc.merkle
    BY <1>3 DEF Accounted
  <2>1. rows[loc.e][v] > 0 \/ v \in loc.queue \cup loc.record \/ <<v, loc.plan[v]>> \in loc.merkle
    BY <1>0 DEF Accounted
  <2>2. CASE v = w
    <3>1. rows'[loc.e][w] = IF rows[loc.e][w] = 0 THEN loc.plan[w] ELSE rows[loc.e][w]
      BY <1>0, <1>1
    <3>2. rows[loc.e][w] \in Nat
      BY <1>0, <1>1, U64Nat
    <3> QED BY <2>2, <3>1, <3>2
  <2>3. CASE v # w
    <3>1. rows'[loc.e][v] = rows[loc.e][v]
      BY <1>0, <1>1, <2>3
    <3> QED BY <1>3, <2>1, <2>3, <3>1
  <2> QED BY <2>2, <2>3
<1>7. pc' = "push" => Accounted(loc.queue)'
  BY <1>3, <1>6 DEF Accounted
<1> QED BY <1>3, <1>4, <1>5, <1>6, <1>7 DEF KeeperInv

LEMMA SendFinalizeKnows == ASSUME PInv, SendFinalize, PayoutsNext PROVE KeeperInv'
<1>0. /\ TypeInv /\ KeeperInv /\ pc = "push" /\ loc.e \in Epochs /\ loc \in Locals /\ PlanKnown
      /\ OfPlan(loc.merkle, loc.plan) /\ Accounted({})
      /\ faults \in Nat /\ net \in SUBSET Tx /\ loc.merkle \in SUBSET (Wallets \X U64)
      /\ progress \in [Epochs -> Progress \cup {None}]
  BY LocalsOf DEF PInv, SendFinalize, TypeInv, CycleEpoch, KeeperTypeOK, KeeperInv
<1> DEFINE ix == FinalizeTx(loc.e, loc.merkle)
<1>1. /\ progress' = SetPhase(progress, loc.e, "pushed") /\ rows' = rows
      /\ pc' = "idle" \/ Send(ix, 1, faults, loc)
  BY DEF SendFinalize, SendOnly, EndCycle, Goto
<1>2. ix \in Ix /\ ix.e = loc.e /\ ix.op = "finalize" /\ ix.root = loc.merkle
  BY <1>0, IxType DEF FinalizeTx
<1> HIDE DEF ix
<1>3. CASE pc' = "idle"
  BY <1>3 DEF KeeperInv
<1>4. CASE Send(ix, 1, faults, loc)
  <2>1. /\ SameWork(loc', loc) /\ pc' = "wait" /\ loc'.tx = [ix |-> ix, id |-> faults]
        /\ confirmed' = FALSE
    BY <1>0, <1>2, <1>4, SendType
  <2>2. /\ loc'.tx.ix = ix /\ loc'.e = loc.e /\ loc'.plan = loc.plan /\ loc'.merkle = loc.merkle
    BY <2>1 DEF SameWork
  <2>3. /\ progress'[loc.e] # None /\ progress'[loc.e].phase = "pushed"
        /\ progress'[loc.e].plan = loc.plan
    BY <1>0, <1>1, SetPhaseKeeps DEF PlanKnown, Started
  <2>4. PlanKnown'
    BY <2>2, <2>3 DEF PlanKnown, Started
  <2>5. FinalizeOK(loc.tx.ix)'
    BY <1>0, <1>1, <1>2, <2>2, <2>3 DEF FinalizeOK, Started, Covers, OfPlan, Accounted
  <2>6. WaitInv'
    BY <1>2, <2>1, <2>2, <2>4, <2>5 DEF WaitInv, IxOK
  <2> QED BY <2>1, <2>6 DEF KeeperInv
<1> QED BY <1>1, <1>3, <1>4

LEMMA BookkeepingKnows ==
  ASSUME PInv, WriteLeaves \/ MarkFinalized \/ SetFinalized \/ RepairBookkeeping, PayoutsNext
  PROVE  KeeperInv'
<1>0. /\ TypeInv /\ ChainInv /\ KeeperInv /\ loc.e \in Epochs /\ loc \in Locals /\ TypeOK
      /\ epoch' = epoch /\ Epochs \subseteq Nat
  BY EpochsType DEF PInv, WriteLeaves, MarkFinalized, SetFinalized, RepairBookkeeping, TypeInv,
     CycleEpoch, KeeperTypeOK, vars
\* What is finalized comes after what was.
<1>1. ASSUME epoch[loc.e].finalized PROVE \A d \in Epochs : d <= loc.e => epoch[d].finalized
  <2>1. epoch[loc.e].exists
    BY <1>0, <1>1, FinalizedExists
  <2>2. \A d \in Epochs : d < loc.e => epoch[d].finalized
    BY <1>0, <2>1 DEF ChainInv, OneEpochAtATime
  <2>3. loc.e \in Nat /\ \A d \in Epochs : d \in Nat
    BY <1>0
  <2>4. \A d \in Epochs : d <= loc.e => d < loc.e \/ d = loc.e
    BY <2>3
  <2> QED BY <1>1, <2>2, <2>4
<1>2. CASE WriteLeaves
  <2>1. pc' = "mark" /\ loc' = loc /\ RootKnown /\ leaves'[loc.e] = loc.merkle
    BY <1>2, WrittenLeaves DEF WriteLeaves, Goto
  <2> QED BY <1>0, <2>1 DEF KeeperInv, RootKnown
<1>3. CASE MarkFinalized
  <2>1. pc' = "finalized" /\ loc' = loc /\ RootKnown
    BY <1>0, <1>3 DEF MarkFinalized, Goto, KeeperInv
  <2> QED BY <1>0, <2>1 DEF KeeperInv, RootKnown
<1>4. CASE SetFinalized
  <2>1. RootKnown /\ (pc' = "idle" \/ (pc' = "gate" /\ loc' = Snapshot(loc.e)))
    BY <1>0, <1>4 DEF SetFinalized, EndCycle, Goto, KeeperInv
  <2>2. Snapshot(loc.e).e = loc.e
    BY <1>0, SnapshotType
  <2> QED BY <1>0, <1>1, <2>1, <2>2 DEF KeeperInv, RootKnown
<1>5. CASE RepairBookkeeping
  <2>1. epoch[loc.e].finalized
    BY <1>0, <1>5 DEF RepairBookkeeping, KeeperInv
  <2>2. CASE pc' = "gate" /\ loc' = loc
    BY <1>0, <1>1, <2>1, <2>2 DEF KeeperInv
  <2>3. ASSUME NEW root, root = epoch[loc.e].merkle_root, pc' = "leaves",
               loc' = [loc EXCEPT !.merkle = root, !.repair = TRUE]
        PROVE  KeeperInv'
    <3>1. loc'.e = loc.e /\ loc'.merkle = root
      BY <1>0, <2>3 DEF Locals
    <3>2. RootKnown'
      BY <1>0, <2>1, <2>3, <3>1 DEF RootKnown
    <3> QED BY <2>3, <3>2 DEF KeeperInv
  <2> QED BY <1>5, <2>2, <2>3 DEF RepairBookkeeping, Goto
<1> QED BY <1>2, <1>3, <1>4, <1>5

LEMMA FailKnows == ASSUME PInv, AttemptFails, PayoutsNext PROVE KeeperInv'
<1>0. /\ TypeInv /\ KeeperInv /\ pc = "wait" /\ WaitInv /\ loc.e \in Epochs /\ loc \in Locals
      /\ net \in SUBSET Tx /\ loc.tx \in Tx /\ loc.tx.ix \in Ix /\ faults \in Nat
      /\ loc.attempt \in Nat
  BY LocalsOf DEF PInv, AttemptFails, TypeInv, CycleEpoch, KeeperTypeOK, KeeperInv, Tx
<1>1. /\ faults' \in Nat /\ progress' = progress /\ rows' = rows /\ epoch' = epoch
      /\ pc' = "idle" \/ Send(loc.tx.ix, loc.attempt + 1, faults', loc)
  BY <1>0 DEF AttemptFails, EndCycle, Goto, dbVars, vars
<1>2. CASE pc' = "idle"
  BY <1>2 DEF KeeperInv
<1>3. CASE Send(loc.tx.ix, loc.attempt + 1, faults', loc)
  <2>0. loc.attempt + 1 \in Nat
    BY <1>0
  <2>1. /\ SameWork(loc', loc) /\ pc' = "wait" /\ loc'.tx = [ix |-> loc.tx.ix, id |-> faults']
        /\ confirmed' = FALSE
    BY <1>0, <1>1, <1>3, <2>0, SendType
  <2>2. /\ loc'.tx.ix = loc.tx.ix /\ loc'.e = loc.e /\ loc'.plan = loc.plan
        /\ loc'.merkle = loc.merkle /\ loc'.queue = loc.queue /\ loc'.record = loc.record
    BY <2>1 DEF SameWork
  <2>3. IxOK(loc.tx.ix)'
    BY <1>0, <1>1, <2>2 DEF WaitInv, IxOK, OpenOK, PushOK, FinalizeOK, Covers, OfPlan, Started
  <2>4. OpenKnown => OpenKnown'
    BY <1>1, <2>1, <2>2 DEF OpenKnown
  <2>5. /\ PlanKnown => PlanKnown'
        /\ OfPlan(loc.merkle, loc.plan) => OfPlan(loc.merkle, loc.plan)'
        /\ Accounted(loc.queue \cup loc.record) => Accounted(loc.queue \cup loc.record)'
    BY <1>1, <2>2 DEF PlanKnown, Started, OfPlan, Accounted
  <2>6. WaitInv'
    BY <1>0, <2>1, <2>2, <2>3, <2>4, <2>5 DEF WaitInv
  <2> QED BY <2>1, <2>6 DEF KeeperInv
<1> QED BY <1>1, <1>2, <1>3

LEMMA NextKnows == ASSUME PInv, PayoutsNext PROVE KeeperInv'
<1>0. TypeInv'
  BY NextTypes DEF PInv
<1>1. CASE SkipEpoch
  <2>1. pc' = "idle"
    BY <1>1 DEF SkipEpoch, EndCycle, Goto
  <2> QED BY <2>1 DEF KeeperInv
<1>2. CASE ~KeeperStep
  BY <1>2, KeeperStays
<1> QED
  BY <1>0, <1>1, <1>2, StartKnows, PlanKnows, SendOpenKnows, OpenConfirmedKnows, ResumeKnows,
     ReconcileKnows, SplitKnows, SendPushKnows, ConfirmedKnows, RecordKnows, SendFinalizeKnows,
     BookkeepingKnows, FailKnows DEF KeeperStep

-----------------------------------------------------------------------------
(***************************************************************************)
(* The invariant is inductive                                              *)
(***************************************************************************)
\* A transaction that was not in flight is the one the cycle now waits for.
LEMMA NewTx ==
  ASSUME TypeInv, PayoutsNext, NEW tx \in net', tx \notin net
  PROVE  pc' = "wait" /\ tx = loc'.tx /\ ~confirmed'
<1>0. /\ net \in SUBSET Tx /\ faults \in Nat /\ loc \in Locals
      /\ pc \notin {"idle", "gate"} => loc.e \in Epochs
      /\ pc = "wait" => loc.tx.ix \in Ix
  BY DEF TypeInv, KeeperTypeOK, CycleEpoch, Tx
<1> USE DEF netVars, dbVars
<1>1. ASSUME NEW ix \in Ix, NEW n \in Nat, NEW id \in Nat, NEW l \in Locals, Send(ix, n, id, l)
      PROVE  pc' = "wait" /\ tx = loc'.tx /\ ~confirmed'
  BY <1>0, <1>1, SendType
<1>2. CASE SendOpen
  <2>1. OpenTx(loc.e, loc.start, loc.end, loc.plan) \in Ix
    BY <1>0, <1>2, IxType, LocalsOf DEF SendOpen
  <2> QED BY <1>0, <1>1, <1>2, <2>1 DEF SendOpen, SendOnly
<1>3. CASE SendPush
  <2> DEFINE chunk == Chunk(loc.queue)
             l == [loc EXCEPT !.queue = @ \ chunk, !.record = chunk]
             ix == PushTx(loc.e, Items(loc.plan, chunk))
  <2>1. Send(ix, 1, faults, l) /\ chunk \subseteq loc.queue /\ loc.e \in Epochs
    BY <1>0, <1>3 DEF SendPush, SendOnly, Chunk
  <2>2. ix \in Ix
    BY <1>0, <2>1, IxType, ItemsType, LocalsOf
  <2> HIDE DEF chunk, ix
  <2>3. l \in Locals
    BY <1>0, <2>1 DEF Locals
  <2> HIDE DEF l
  <2> QED BY <1>0, <1>1, <2>1, <2>2, <2>3
<1>4. CASE SendFinalize
  <2>1. FinalizeTx(loc.e, loc.merkle) \in Ix
    BY <1>0, <1>4, IxType, LocalsOf DEF SendFinalize
  <2>2. SendOnly(FinalizeTx(loc.e, loc.merkle), loc) \/ UNCHANGED net
    BY <1>4 DEF SendFinalize
  <2> QED BY <1>0, <1>1, <2>1, <2>2 DEF SendOnly
<1>5. CASE AttemptFails
  <2>1. /\ pc = "wait" /\ faults' \in Nat
        /\ UNCHANGED net \/ Send(loc.tx.ix, loc.attempt + 1, faults', loc)
    BY <1>0, <1>5 DEF AttemptFails
  <2>2. loc.attempt + 1 \in Nat
    BY <1>0, LocalsOf
  <2> QED BY <1>0, <1>1, <2>1, <2>2
<1>6. CASE StartCycle \/ PlanEpoch \/ SkipEpoch \/ OpenConfirmed \/ ResumeEpoch \/ ReconcilePushed
  BY <1>6 DEF StartCycle, PlanEpoch, SkipEpoch, OpenConfirmed, ResumeEpoch, ReconcilePushed
<1>7. CASE Split \/ PushConfirmed \/ RecordPayout \/ FinalizeConfirmed \/ WriteLeaves
  BY <1>7 DEF Split, PushConfirmed, RecordPayout, FinalizeConfirmed, WriteLeaves
<1>8. CASE MarkFinalized \/ SetFinalized \/ RepairBookkeeping \/ Crash
  BY <1>8 DEF MarkFinalized, SetFinalized, RepairBookkeeping, Crash
<1>9. CASE \E t \in net : Land(t) \/ Reject(t) \/ Drop(t)
  BY <1>9 DEF Land, Reject, Drop
<1>10. CASE \E e \in Epochs : \E i \in DOMAIN events[e], w \in Wallets : IndexPayout(e, i, w)
  BY <1>10 DEF IndexPayout
<1>11. CASE ChangePushCap \/ Surroundings \/ \E w \in Wallets, e \in Epochs : ClaimServed(w, e)
  BY <1>11 DEF ChangePushCap, Surroundings, ClaimServed
<1> QED
  BY <1>2, <1>3, <1>4, <1>5, <1>6, <1>7, <1>8, <1>9, <1>10, <1>11
     DEF PayoutsNext, KeeperStep, NetworkStep

\* Every transaction in flight is right.
LEMMA NextNet ==
  ASSUME PInv, PayoutsNext, NEW tx \in net'
  PROVE  IxOK(tx.ix)'
<1>0. TypeInv /\ ChainInv /\ net \in SUBSET Tx /\ \A ix \in Ix : IxOK(ix) => IxOK(ix)'
  BY IxStable DEF PInv, TypeInv, KeeperTypeOK
<1> DEFINE Right(t) == IxOK(t.ix)'
<1>1. CASE tx \in net
  <2>1. tx.ix \in Ix /\ IxOK(tx.ix)
    BY <1>0, <1>1 DEF Tx, ChainInv
  <2> QED BY <1>0, <2>1
<1>2. CASE tx \notin net
  <2>1. pc' = "wait" /\ tx = loc'.tx
    BY <1>0, <1>2, NewTx
  <2>2. WaitInv'
    BY <2>1, NextKnows DEF KeeperInv
  <2>3. IxOK(loc.tx.ix)'
    BY <2>2 DEF WaitInv
  <2> QED BY <2>1, <2>3 DEF IxOK, OpenOK, PushOK, FinalizeOK, Covers, OfPlan, Started
<1> QED BY <1>1, <1>2

LEMMA NextPInv == PInv /\ [PayoutsNext]_payoutsVars => PInv'
<1>1. ASSUME PInv, PayoutsNext PROVE PInv'
  <2>1. TypeInv'
    BY <1>1, NextTypes DEF PInv
  <2>2. ASSUME NEW e \in Epochs PROVE EventsOK(e)' /\ FinalizedOK(e)'
    <3>1. PushesFromEvents(e)' /\ RowsFromEvents(e)'
      BY <1>1, NextPushes, NextRows
    <3> QED BY <1>1, <3>1, NextFinalized DEF EventsOK, PushesFromEvents, RowsFromEvents
  <2>3. ChainInv'
    BY <1>1, <2>2, NextKnown, NextStarted, NextOneAtATime, NextLeaves, NextNet DEF ChainInv
  <2>4. KeeperInv'
    BY <1>1, NextKnows
  <2> QED BY <2>1, <2>3, <2>4 DEF PInv
<1>2. ASSUME PInv, UNCHANGED payoutsVars PROVE PInv'
  <2>1. TypeInv'
    BY <1>2, NextTypes DEF PInv
  <2> USE DEF payoutsVars, vars, keeperVars, dbVars, netVars
  <2>2. ChainInv'
    BY <1>2 DEF PInv, ChainInv, StartedOK, Started, OneEpochAtATime, LeavesMatchRoot, EventsOK,
                Pushed, FinalizedOK, OfPlan, Leaf, IxOK, OpenOK, PushOK, FinalizeOK, Covers
  <2>3. KeeperInv'
    <3>1. WaitInv => WaitInv'
      BY <1>2 DEF WaitInv, IxOK, OpenOK, PushOK, FinalizeOK, Covers, OpenKnown, PlanKnown,
                  Accounted, InEvents, RootKnown, Started, OfPlan
    <3> QED BY <1>2, <3>1 DEF PInv, KeeperInv, OpenKnown, PlanKnown, Accounted, InEvents,
                              RootKnown, Started, OfPlan
  <2> QED BY <2>1, <2>2, <2>3 DEF PInv
<1> QED BY <1>1, <1>2

LEMMA InitPInv == PayoutsInit => PInv
<1> SUFFICES ASSUME PayoutsInit PROVE PInv
  OBVIOUS
<1>1. TypeInv
  BY InitTypes
<1>2. /\ pc = "idle" /\ net = {}
      /\ \A e \in Epochs : /\ progress[e] = None /\ rows[e] = NoPlan /\ leaves[e] = {}
                           /\ ~marked[e] /\ events[e] = <<>> /\ epoch[e] = NoEpoch
                           /\ \A w \in Wallets : paid[e][w] = 0 /\ claimed[e][w] = 0
  BY DEF PayoutsInit, Init
<1>3. \A e \in Epochs : ~epoch[e].exists /\ ~epoch[e].finalized /\ DOMAIN events[e] = {}
  BY <1>2 DEF NoEpoch
<1>4. \A e \in Epochs, w \in Wallets : Pushed(e, w) = 0 /\ rows[e][w] = 0
  BY <1>2 DEF Pushed, NoPlan
<1>5. ChainInv
  BY <1>2, <1>3, <1>4 DEF ChainInv, StartedOK, Started, OneEpochAtATime, LeavesMatchRoot,
                          EventsOK, FinalizedOK
<1>6. KeeperInv
  BY <1>2 DEF KeeperInv
<1> QED BY <1>1, <1>5, <1>6 DEF PInv

LEMMA PInvHolds == PayoutsSpec => []PInv
  BY InitPInv, NextPInv, PTL DEF PayoutsSpec

-----------------------------------------------------------------------------
(***************************************************************************)
(* What holds whether or not transactions land late                        *)
(***************************************************************************)
\* The memory of the keeper, the database and the network keep their shape
\* over crashes, retries and resumes, and no epoch is on the chain that the
\* database has not heard of.
THEOREM PayoutsTypeCorrect == PayoutsSpec => []PayoutsTypeOK
<1>1. PInv => PayoutsTypeOK
  BY DEF PInv, TypeInv, KeeperTypeOK, ChainInv, PayoutsTypeOK
<1> QED BY <1>1, PInvHolds, PTL

\* openNewEpoch is reached only past a finalized epoch, and an open_epoch that
\* a crash or a lost answer left in flight still finds it finalized: two epochs
\* of a pool are never being pushed at once.
THEOREM EpochsOpenInTurn == PayoutsSpec => []OneEpochAtATime
<1>1. PInv => OneEpochAtATime
  BY DEF PInv, ChainInv
<1> QED BY <1>1, PInvHolds, PTL

\* writeFinalized and repairFinalizedBookkeeping serve the leaves below the
\* root that was posted, whatever was interrupted before.
THEOREM ServedLeavesMatchRoot == PayoutsSpec => []LeavesMatchRoot
<1>1. PInv => LeavesMatchRoot
  BY DEF PInv, ChainInv
<1> QED BY <1>1, PInvHolds, PTL

\* recordPayout, reconcilePushed and the indexer write only what a Payout
\* event told, and when an epoch is marked finalized the rows are the pushes:
\* restarts may trust them.
THEOREM RowsAlwaysLandedPushes == PayoutsSpec => []RowsAreLandedPushes
<1>1. ASSUME PInv PROVE RowsAreLandedPushes
  <2>0. TypeInv /\ ChainInv /\ rows \in [Epochs -> Plan]
    BY <1>1 DEF PInv, TypeInv, KeeperTypeOK
  <2>1. ASSUME NEW e \in Epochs, marked[e] PROVE Amount(rows[e]) = epoch[e].pushed_amount
    <3>1. epoch[e].finalized
      BY <2>0, <2>1 DEF ChainInv, LeavesMatchRoot
    <3>2. \A w \in Wallets : rows[e][w] = Pushed(e, w)
      BY <2>0, <3>1 DEF ChainInv, FinalizedOK
    <3>3. rows[e] \in Plan /\ rows[e] = [w \in Wallets |-> Pushed(e, w)]
      BY <2>0, <3>2 DEF Plan
    <3> QED BY <2>0, <3>3, AmountDef, PushedSum
  <2>2. \A e \in Epochs, w \in Wallets : rows[e][w] > 0 =>
          \E i \in DOMAIN events[e] : events[e][i][w] = rows[e][w]
    BY <2>0 DEF ChainInv, EventsOK
  <2> QED BY <2>1, <2>2 DEF RowsAreLandedPushes
<1> QED BY <1>1, PInvHolds, PTL

-----------------------------------------------------------------------------
(***************************************************************************)
(* When no transaction lands late: the truth about the chain               *)
(***************************************************************************)
LEMMA SoleTx ==
  ASSUME TruthInv, NEW tx \in net
  PROVE  tx = loc.tx /\ net = {tx} /\ pc = "wait" /\ ~confirmed
  BY DEF TruthInv, OneInFlight

\* Nothing is sent while a transaction is in flight, and nothing but what
\* settles it ends the wait.
LEMMA NextInFlight ==
  ASSUME ~LateLanding, PInv, TruthInv, PayoutsNext
  PROVE  OneInFlight'
<1>1. CASE net = {}
  <2>1. \A tx \in net' : pc' = "wait" /\ tx = loc'.tx /\ ~confirmed'
    BY <1>1, NewTx DEF PInv
  <2> QED BY <2>1 DEF OneInFlight
<1>2. CASE net # {}
  <2>0. net = {loc.tx} /\ pc = "wait" /\ ~confirmed
    BY <1>2 DEF TruthInv, OneInFlight
  <2>1. \/ net' = {}
        \/ UNCHANGED <<net, pc, loc, confirmed>>
    <3> USE DEF netVars, dbVars, keeperVars
    <3>1. CASE KeeperStep
      <4>1. CASE StartCycle \/ PlanEpoch \/ SkipEpoch \/ SendOpen \/ OpenConfirmed \/ ResumeEpoch
        BY <2>0, <4>1 DEF StartCycle, PlanEpoch, SkipEpoch, SendOpen, OpenConfirmed, ResumeEpoch
      <4>2. CASE ReconcilePushed \/ Split \/ SendPush \/ PushConfirmed \/ RecordPayout \/ SendFinalize
        BY <2>0, <4>2 DEF ReconcilePushed, Split, SendPush, PushConfirmed, RecordPayout, SendFinalize
      <4>3. CASE FinalizeConfirmed \/ WriteLeaves \/ MarkFinalized \/ SetFinalized \/ RepairBookkeeping
        BY <2>0, <4>3
           DEF FinalizeConfirmed, WriteLeaves, MarkFinalized, SetFinalized, RepairBookkeeping
      <4>4. CASE AttemptFails
        BY <2>0, <4>4 DEF AttemptFails
      <4> QED BY <3>1, <4>1, <4>2, <4>3, <4>4 DEF KeeperStep
    <3>2. CASE \E tx \in net : Land(tx) \/ Reject(tx) \/ Drop(tx)
      <4>1. PICK tx \in net : net' = net \ {tx}
        BY <3>2 DEF Land, Reject, Drop
      <4> QED BY <2>0, <4>1
    <3>3. CASE Crash
      BY <1>2, <3>3 DEF Crash
    <3>4. CASE \E e \in Epochs : \E i \in DOMAIN events[e], w \in Wallets : IndexPayout(e, i, w)
      BY <3>4 DEF IndexPayout
    <3>5. CASE ChangePushCap \/ Surroundings \/ \E w \in Wallets, e \in Epochs : ClaimServed(w, e)
      <4>1. UNCHANGED <<keeperVars, dbVars, netVars>>
        BY <3>5 DEF ChangePushCap, Surroundings, ClaimServed
      <4> QED BY <4>1
    <3> QED BY <3>1, <3>2, <3>3, <3>4, <3>5 DEF PayoutsNext, NetworkStep
  <2> QED BY <2>0, <2>1 DEF OneInFlight
<1> QED BY <1>1, <1>2

\* A fresh epoch has nothing pushed.
LEMMA NothingBefore ==
  ASSUME PInv, NEW e \in Epochs, ~Started(e)
  PROVE  events[e] = <<>> /\ \A w \in Wallets : Pushed(e, w) = 0
<1>1. EventsOK(e)
  BY DEF PInv, ChainInv
<1>2. events[e] = <<>> /\ DOMAIN events[e] = {}
  BY <1>1 DEF EventsOK
<1>3. \A w \in Wallets : Pushed(e, w) \in Nat /\ ~(Pushed(e, w) > 0)
  BY <1>1, <1>2 DEF EventsOK
<1> QED BY <1>2, <1>3

\* Landing under the cycle's eyes.
LEMMA LandAsOpened ==
  ASSUME PInv, TruthInv, NEW tx \in net, Land(tx), NEW e \in Epochs
  PROVE  AsOpened(e)'
<1>0. /\ TypeInv /\ KeeperInv /\ AsOpened(e) /\ WaitInv /\ WaitTruth
      /\ pc = "wait" /\ tx = loc.tx /\ ~confirmed /\ tx.ix.e = loc.e /\ loc.e \in Epochs
      /\ openedPlan \in [Epochs -> Plan \cup {None}] /\ loc.plan \in Plan
      /\ progress' = progress
  BY SoleTx, LocalsOf DEF PInv, TruthInv, KeeperInv, CycleTruth, TypeInv, KeeperTypeOK, CycleEpoch,
     Land, dbVars
<1>1. ASSUME SameChain(e), openedPlan'[e] = openedPlan[e] PROVE AsOpened(e)'
  BY <1>0, <1>1 DEF AsOpened, SameChain
<1>2. CASE tx.ix.op = "open"
  <2>1. CASE e = loc.e
    <3>1. ~epoch[e].exists /\ epoch'[e].exists /\ openedPlan' = [openedPlan EXCEPT ![e] = tx.ix.plan]
          /\ epoch'[e].total_amount = Amount(tx.ix.plan)
          /\ \A w \in Wallets : Pushed(e, w)' = Pushed(e, w)
      BY <1>0, <1>2, <2>1, OpenLands
    <3>2. /\ progress[e] # None /\ progress[e].phase = "planned"
          /\ progress[e].plan = loc.plan /\ progress[e].total = Amount(loc.plan)
          /\ tx.ix.plan = loc.plan /\ loc.plan # NoPlan
      BY <1>0, <1>2, <2>1, <3>1 DEF WaitInv, OpenKnown, WaitTruth
    <3>3. \A w \in Wallets : Pushed(e, w) = 0
      BY <3>2, NothingBefore DEF Started
    <3>4. openedPlan'[e] = loc.plan /\ loc.plan # None
      BY <1>0, <3>1, <3>2, PayoutsAssumption
    <3> QED BY <1>0, <3>1, <3>2, <3>3, <3>4 DEF AsOpened
  <2>2. CASE e # loc.e
    <3>1. SameChain(e) /\ openedPlan' = [openedPlan EXCEPT ![loc.e] = tx.ix.plan]
      BY <1>0, <1>2, <2>2, OpenLands
    <3> QED BY <1>0, <1>1, <2>2, <3>1
  <2> QED BY <2>1, <2>2
<1>3. CASE tx.ix.op = "push"
  <2>1. CASE e = loc.e
    <3>1. /\ epoch[e].exists /\ epoch'[e].exists /\ openedPlan' = openedPlan
          /\ epoch'[e].total_amount = epoch[e].total_amount
          /\ \A w \in Wallets : Pushed(e, w)' = Pushed(e, w) + tx.ix.items[w]
      BY <1>0, <1>3, <2>1, PushLands
    <3>2. /\ progress[e].plan = loc.plan /\ tx.ix.items = Items(loc.plan, loc.record)
          /\ \A w \in loc.record : Pushed(e, w) = 0
      BY <1>0, <1>3, <2>1 DEF WaitInv, PlanKnown, WaitTruth, Unpushed
    <3>3. ASSUME NEW w \in Wallets PROVE Pushed(e, w)' \in {0, loc.plan[w]}
      <4>1. loc.plan[w] \in Nat
        BY <1>0, U64Nat DEF Plan
      <4>2. Pushed(e, w) \in {0, loc.plan[w]}
        BY <1>0, <3>1, <3>2 DEF AsOpened
      <4>3. tx.ix.items[w] = IF w \in loc.record THEN loc.plan[w] ELSE 0
        BY <3>2 DEF Items
      <4> QED BY <3>1, <3>2, <4>1, <4>2, <4>3
    <3> QED BY <1>0, <3>1, <3>2, <3>3 DEF AsOpened
  <2>2. CASE e # loc.e
    BY <1>0, <1>1, <1>3, <2>2, PushLands
  <2> QED BY <2>1, <2>2
<1>4. CASE tx.ix.op = "finalize"
  <2>1. /\ epoch'[e].exists <=> epoch[e].exists
        /\ epoch'[e].total_amount = epoch[e].total_amount
        /\ \A w \in Wallets : Pushed(e, w)' = Pushed(e, w)
        /\ openedPlan' = openedPlan
    <3>1. CASE e = loc.e
      BY <1>0, <1>4, <3>1, FinalizeLands
    <3>2. CASE e # loc.e
      BY <1>0, <1>4, <3>2, FinalizeLands DEF SameChain
    <3> QED BY <3>1, <3>2
  <2> QED BY <1>0, <2>1 DEF AsOpened
<1> QED BY <1>0, <1>2, <1>3, <1>4, LandKinds

\* The stored plan of an epoch on the chain is not written again.
LEMMA NextAsOpened ==
  ASSUME PInv, TruthInv, PayoutsNext, NEW e \in Epochs
  PROVE  AsOpened(e)'
<1>0. /\ TypeInv /\ KeeperInv /\ AsOpened(e) /\ CycleTruth /\ ChainInv
      /\ progress \in [Epochs -> Progress \cup {None}]
  BY DEF PInv, TruthInv, TypeInv, KeeperTypeOK
<1>1. CASE \E tx \in net : Land(tx)
  BY <1>1, LandAsOpened
<1>2. CASE ~ \E tx \in net : Land(tx)
  <2>1. SameChain(e) /\ openedPlan' = openedPlan
    BY <1>0, <1>2, QuietChain
  <2>2. CASE ~epoch[e].exists
    BY <1>0, <2>1, <2>2 DEF AsOpened, SameChain
  <2>3. CASE epoch[e].exists
    <3>0. progress[e] # None /\ progress[e].total = epoch[e].total_amount
      BY <1>0, <2>3 DEF ChainInv, AsOpened
    <3>1. progress'[e].plan = progress[e].plan /\ progress'[e].total = progress[e].total
      <4>1. CASE UNCHANGED progress
        BY <4>1
      <4>2. ASSUME PlanEpoch, loc.e + 1 \in Epochs, NEW total, NEW plan,
                   progress' = SavePlan(loc.e + 1, total, plan)
            PROVE  progress'[e] = progress[e]
        <5>1. e # loc.e + 1
          BY <1>0, <2>3, <4>2 DEF CycleTruth, PlanEpoch
        <5> QED BY <1>0, <4>2, <5>1, SavePlanElsewhere
      <4>3. ASSUME NEW f \in Epochs, NEW phase \in {"opened", "pushed", "finalized"},
                   progress' = SetPhase(progress, f, phase)
            PROVE  progress'[e].plan = progress[e].plan /\ progress'[e].total = progress[e].total
        BY <1>0, <3>0, <4>3, SetPhaseKeeps
      <4>4. pc \notin {"idle", "gate"} => loc.e \in Epochs
        BY <1>0 DEF TypeInv, CycleEpoch
      <4>5. ASSUME ResumeEpoch
            PROVE  progress'[e].plan = progress[e].plan /\ progress'[e].total = progress[e].total
        <5>1. /\ loc.e \in Epochs /\ epoch[loc.e].exists /\ loc.total = epoch[loc.e].total_amount
              /\ AsOpened(loc.e) /\ progress[loc.e] # None
          BY <1>0, <4>4, <4>5 DEF ResumeEpoch, KeeperInv, TruthInv, ChainInv
        <5>2. progress[loc.e].total = loc.total
          BY <5>1 DEF AsOpened
        <5>3. progress' = SetPhase(progress, loc.e, "opened")
          BY <4>5, <5>1, <5>2 DEF ResumeEpoch
        <5> QED BY <4>3, <5>1, <5>3
      <4>6. CASE OpenConfirmed /\ progress' = SetPhase(progress, loc.e, "opened")
        BY <4>3, <4>4, <4>6 DEF OpenConfirmed
      <4>7. CASE SendFinalize /\ progress' = SetPhase(progress, loc.e, "pushed")
        BY <4>3, <4>4, <4>7 DEF SendFinalize
      <4>8. CASE SetFinalized /\ progress' = SetPhase(progress, loc.e, "finalized")
        BY <4>3, <4>4, <4>8 DEF SetFinalized
      <4> QED BY <1>0, <4>1, <4>2, <4>5, <4>6, <4>7, <4>8, ProgressSteps
    <3> QED BY <1>0, <2>1, <2>3, <3>1 DEF AsOpened, SameChain
  <2> QED BY <2>2, <2>3
<1> QED BY <1>1, <1>2

\* The database never runs ahead.
LEMMA NextKnownInTurn ==
  ASSUME PInv, TruthInv, PayoutsNext
  PROVE  KnownInTurn'
<1>0. /\ TypeInv /\ KeeperInv /\ KnownInTurn /\ ChainInv /\ CycleEpoch
      /\ progress \in [Epochs -> Progress \cup {None}]
  BY DEF PInv, TruthInv, TypeInv, KeeperTypeOK
<1> SUFFICES ASSUME NEW e \in Epochs, progress'[e] # None
             PROVE  e = 0 \/ epoch'[e - 1].exists
  BY DEF KnownInTurn
<1>1. e = 0 \/ e - 1 \in Epochs
  <2>1. e \in Nat /\ (e # 0 => e - 1 \in Nat /\ e - 1 <= e)
    BY EpochsType
  <2> QED BY <2>1, EpochsType
<1>2. CASE e = 0 \/ epoch[e - 1].exists
  BY <1>0, <1>1, <1>2, Grows DEF Grown
<1>3. CASE e # 0 /\ ~epoch[e - 1].exists
  <2>1. progress[e] = None
    BY <1>0, <1>3 DEF KnownInTurn
  <2>2. ASSUME NEW f \in Epochs, NEW phase \in {"opened", "pushed", "finalized"},
               progress' = SetPhase(progress, f, phase)
        PROVE  FALSE
    BY <1>0, <2>1, <2>2, SetPhaseKeeps
  <2>3. ASSUME PlanEpoch, loc.e + 1 \in Epochs, NEW total, NEW plan,
               progress' = SavePlan(loc.e + 1, total, plan)
        PROVE  FALSE
    <3>1. e = loc.e + 1
      BY <1>0, <2>1, <2>3, SavePlanElsewhere
    <3>2. loc.e \in Epochs \cup {-1}
      BY <1>0, <2>3 DEF CycleEpoch, PlanEpoch
    <3>2a. (loc.e \in Nat \/ loc.e = -1) /\ e \in Nat
      BY <3>2, EpochsType
    <3>3. loc.e \in Int /\ e \in Int
      BY <3>2a
    <3>4. loc.e = e - 1 /\ loc.e \in Epochs
      BY <1>3, <3>1, <3>2, <3>3
    <3>5. epoch[loc.e].finalized
      BY <1>0, <2>3, <3>3, <3>4 DEF KeeperInv, PlanEpoch
    <3> QED BY <1>0, <1>3, <3>4, <3>5, FinalizedExists
  <2>4. pc \notin {"idle", "gate"} => loc.e \in Epochs
    BY <1>0 DEF CycleEpoch
  <2>5. CASE ResumeEpoch
    <3>1. loc.e \in Epochs /\ progress[loc.e] # None
      BY <1>0, <2>4, <2>5 DEF ResumeEpoch, KeeperInv, ChainInv
    <3>2. PICK table \in [Epochs -> Progress \cup {None}] :
            /\ progress' = SetPhase(table, loc.e, "opened")
            /\ table[e] = progress[e]
      <4>1. e # loc.e
        BY <2>1, <3>1
      <4>2. CASE progress' = SetPhase(progress, loc.e, "opened")
        BY <1>0, <4>2
      <4>3. ASSUME NEW plan \in Plans(loc.total),
                   progress' = SetPhase(SavePlan(loc.e, loc.total, plan), loc.e, "opened")
            PROVE  /\ SavePlan(loc.e, loc.total, plan) \in [Epochs -> Progress \cup {None}]
                   /\ SavePlan(loc.e, loc.total, plan)[e] = progress[e]
        <5>1. loc.total \in U64 /\ plan \in Plan
          BY <1>0, LocalsOf, PlansType DEF TypeInv, KeeperTypeOK
        <5> QED BY <1>0, <3>1, <4>1, <5>1, SavePlanElsewhere, SavePlanType
      <4> QED BY <2>5, <4>2, <4>3 DEF ResumeEpoch
    <3> QED BY <2>1, <3>1, <3>2, SetPhaseKeeps
  <2>6. CASE UNCHANGED progress
    BY <2>1, <2>6
  <2> QED
    BY <1>0, <2>2, <2>3, <2>4, <2>5, <2>6, ProgressSteps DEF OpenConfirmed, SendFinalize, SetFinalized
<1> QED BY <1>2, <1>3

\* Steps of others leave the cycle where it is, and its epoch as it is.
LEMMA StillTruth ==
  ASSUME TypeInv, CycleTruth, pc' = pc, loc' = loc, pc = "wait" => confirmed' = confirmed,
         \A f \in Epochs : SameChain(f)
  PROVE  CycleTruth'
<1>0. /\ pc \notin {"idle", "gate"} => loc.e \in Epochs
      /\ loc.queue \subseteq Wallets /\ loc.record \subseteq Wallets
  BY LocalsOf DEF TypeInv, KeeperTypeOK, CycleEpoch
<1>1. ASSUME loc.e \in Epochs
      PROVE  /\ \A w \in Wallets : Pushed(loc.e, w)' = Pushed(loc.e, w)
             /\ epoch'[loc.e].exists <=> epoch[loc.e].exists
             /\ epoch'[loc.e].pushed_amount = epoch[loc.e].pushed_amount
  BY <1>1 DEF SameChain, Pushed
<1>2. loc.e + 1 \in Epochs => (epoch'[loc.e + 1].exists <=> epoch[loc.e + 1].exists)
  BY DEF SameChain
<1>3. \A ws \in SUBSET Wallets : loc.e \in Epochs /\ Unpushed(ws) => Unpushed(ws)'
  BY <1>1 DEF Unpushed
<1>4. CASE pc = "wait"
  <2>1. WaitTruth'
    BY <1>0, <1>1, <1>3, <1>4 DEF CycleTruth, WaitTruth, Unpushed, Pushed
  <2> QED BY <1>4, <2>1 DEF CycleTruth
<1>5. CASE pc # "wait"
  <2>1. pc \in {"push", "record"} => Unpushed(loc.queue)'
    BY <1>0, <1>1 DEF CycleTruth, Unpushed, Pushed
  <2>2. pc = "split" => Unpushed(Wallets \ loc.already)'
    BY <1>0, <1>1 DEF CycleTruth, Unpushed, Pushed
  <2> QED BY <1>0, <1>1, <1>2, <1>5, <2>1, <2>2 DEF CycleTruth
<1> QED BY <1>4, <1>5

\* A transaction lands: the cycle waits for it, and finds what it did.
LEMMA LandTruth ==
  ASSUME PInv, TruthInv, NEW tx \in net, Land(tx)
  PROVE  CycleTruth'
<1>0. /\ TypeInv /\ WaitTruth /\ WaitInv /\ CycleTruth
      /\ pc = "wait" /\ tx = loc.tx /\ ~confirmed /\ tx.ix.e = loc.e /\ loc.e \in Epochs
      /\ pc' = pc /\ loc' = loc /\ confirmed'
      /\ loc.plan \in Plan /\ loc.queue \subseteq Wallets /\ loc.record \subseteq Wallets
  BY SoleTx, LocalsOf DEF PInv, TruthInv, KeeperInv, CycleTruth, TypeInv, KeeperTypeOK, CycleEpoch,
     Land, keeperVars
<1>2. ~loc.repair
  BY <1>0 DEF CycleTruth
<1>3. CASE tx.ix.op = "open"
  <2>1. epoch'[loc.e].exists
    BY <1>0, <1>3, OpenLands
  <2>2. WaitTruth'
    BY <1>0, <1>3, <2>1 DEF WaitTruth
  <2> QED BY <1>0, <1>2, <2>2 DEF CycleTruth
<1>4. CASE tx.ix.op = "push"
  <2>1. \A w \in Wallets : Pushed(loc.e, w)' = Pushed(loc.e, w) + tx.ix.items[w]
    BY <1>0, <1>4, PushLands
  <2>2. /\ Unpushed(loc.queue) /\ loc.queue \cap loc.record = {}
        /\ tx.ix.items = Items(loc.plan, loc.record)
    BY <1>0, <1>4 DEF WaitTruth, WaitInv
  <2>3. ASSUME NEW w \in loc.queue PROVE Pushed(loc.e, w)' = 0
    BY <1>0, <2>1, <2>2, <2>3 DEF Unpushed, Items
  <2>4. Unpushed(loc.queue)'
    BY <1>0, <2>3 DEF Unpushed, Pushed
  <2>5. WaitTruth'
    BY <1>0, <1>4, <2>2, <2>4 DEF WaitTruth
  <2> QED BY <1>0, <1>2, <2>5 DEF CycleTruth
<1>5. CASE tx.ix.op = "finalize"
  <2>1. WaitTruth'
    BY <1>0, <1>5 DEF WaitTruth
  <2> QED BY <1>0, <1>2, <2>1 DEF CycleTruth
<1> QED BY <1>0, <1>3, <1>4, <1>5, LandKinds

\* The steps of the keeper.
LEMMA StartTruth == ASSUME PInv, TruthInv, StartCycle PROVE CycleTruth'
<1>0. /\ TypeInv /\ ChainInv /\ KnownInTurn /\ TypeOK /\ epoch' = epoch
  BY DEF PInv, TruthInv, TypeInv, StartCycle, vars
<1> DEFINE e == LatestEpoch
<1>1. e \in Epochs \cup {-1} /\ \A d \in Epochs : d > e => ~epoch[d].exists
  BY <1>0, LatestEpochFound DEF ChainInv, KnownInTurn
<1>2. /\ pc' \in {"gate", "resume", "repair"}
      /\ e # -1 => loc' = Snapshot(e)
      /\ e = -1 => pc' = "gate" /\ loc' = [NoLoc EXCEPT !.e = -1]
  BY DEF StartCycle, Goto
<1> HIDE DEF e
<1>2a. [NoLoc EXCEPT !.e = -1].e = -1 /\ [NoLoc EXCEPT !.e = -1].repair = FALSE
  BY DEF NoLoc
<1>3. /\ loc'.e = e /\ ~loc'.repair
      /\ e # -1 => loc'.pushed = epoch[e].pushed_amount
  BY <1>0, <1>1, <1>2, <1>2a, SnapshotType
<1>4. e + 1 \in Epochs => e + 1 > e
  <2>1. e \in Nat \/ e = -1
    BY <1>1, EpochsType
  <2> QED BY <2>1
<1>5. e + 1 \in Epochs => ~epoch'[e + 1].exists
  BY <1>0, <1>1, <1>4
<1> QED BY <1>0, <1>2, <1>3, <1>5 DEF CycleTruth

LEMMA PlanTruth == ASSUME PInv, TruthInv, PlanEpoch PROVE CycleTruth'
<1>0. CycleTruth /\ epoch' = epoch /\ pc = "gate"
  BY DEF TruthInv, PlanEpoch, vars
<1>1. PICK plan : /\ plan # NoPlan /\ loc.e + 1 \in Epochs /\ pc' = "open"
                  /\ \E start : loc' = [NoLoc EXCEPT !.e = loc.e + 1, !.start = start,
                                                     !.end = now, !.plan = plan]
  BY DEF PlanEpoch, Goto
<1>2. loc'.e = loc.e + 1 /\ loc'.plan = plan /\ ~loc'.repair
  BY <1>1 DEF NoLoc
<1>3. ~epoch[loc.e + 1].exists
  BY <1>0, <1>1 DEF CycleTruth
<1> QED BY <1>0, <1>1, <1>2, <1>3 DEF CycleTruth

LEMMA SendWork ==
  ASSUME NEW l \in Locals, NEW ix \in Ix, NEW id \in Nat, NEW n \in Nat,
         net \in SUBSET Tx, Send(ix, n, id, l)
  PROVE  SameWork(loc', l) /\ pc' = "wait" /\ loc'.tx.ix = ix /\ confirmed' = FALSE
<1>1. /\ SameWork(loc', l) /\ pc' = "wait" /\ confirmed' = FALSE
      /\ loc'.tx = [ix |-> ix, id |-> id]
  BY SendType
<1> QED BY <1>1

LEMMA SendTruth ==
  ASSUME ~LateLanding, PInv, TruthInv,
         SendOpen \/ SendPush \/ SendFinalize \/ AttemptFails
  PROVE  CycleTruth'
<1>0. /\ TypeInv /\ CycleTruth /\ loc \in Locals /\ net \in SUBSET Tx /\ faults \in Nat
      /\ loc.e \in Epochs /\ loc.attempt \in Nat /\ loc.plan \in Plan
      /\ loc.queue \in SUBSET Wallets /\ ~loc.repair
      /\ epoch' = epoch /\ paid' = paid /\ claimed' = claimed
  <2>1. TypeInv /\ CycleTruth /\ loc \in Locals /\ net \in SUBSET Tx /\ faults \in Nat
    BY DEF TruthInv, PInv, TypeInv, KeeperTypeOK
  <2>2. pc \in {"open", "push", "wait"} /\ epoch' = epoch /\ paid' = paid /\ claimed' = claimed
    BY DEF SendOpen, SendPush, SendFinalize, AttemptFails, SendOnly, EndCycle, vars
  <2> QED BY <2>1, <2>2, LocalsOf DEF CycleTruth, TypeInv, CycleEpoch
<1>0a. \A e \in Epochs, w \in Wallets : Pushed(e, w)' = Pushed(e, w)
  BY <1>0 DEF Pushed
<1>1. CASE SendOpen
  <2> DEFINE ix == OpenTx(loc.e, loc.start, loc.end, loc.plan)
  <2>1. ix \in Ix /\ ix.op = "open" /\ Send(ix, 1, faults, loc)
    BY <1>0, <1>1, IxType, LocalsOf DEF SendOpen, SendOnly, OpenTx
  <2> HIDE DEF ix
  <2>2. SameWork(loc', loc) /\ pc' = "wait" /\ loc'.tx.ix = ix /\ confirmed' = FALSE
    BY <1>0, <2>1, SendWork
  <2>3. loc'.e = loc.e /\ loc'.plan = loc.plan /\ ~loc'.repair
    BY <1>0, <2>2 DEF SameWork
  <2>4. ~epoch[loc.e].exists /\ loc.plan # NoPlan
    BY <1>0, <1>1 DEF CycleTruth, SendOpen
  <2>5. WaitTruth'
    BY <1>0, <2>1, <2>2, <2>3, <2>4 DEF WaitTruth
  <2> QED BY <2>2, <2>3, <2>5 DEF CycleTruth
<1>2. CASE SendPush
  <2> DEFINE chunk == Chunk(loc.queue)
             l == [loc EXCEPT !.queue = @ \ chunk, !.record = chunk]
             ix == PushTx(loc.e, Items(loc.plan, chunk))
  <2>1. Send(ix, 1, faults, l) /\ chunk \subseteq loc.queue
    BY <1>2 DEF SendPush, SendOnly, Chunk
  <2>2. ix \in Ix /\ ix.op = "push"
    BY <1>0, IxType, ItemsType DEF PushTx
  <2> HIDE DEF chunk, ix
  <2>3. /\ l \in Locals /\ l.e = loc.e /\ l.plan = loc.plan /\ l.repair = loc.repair
        /\ l.queue = loc.queue \ chunk /\ l.record = chunk
    BY <1>0, <2>1 DEF Locals
  <2> HIDE DEF l
  <2>4. SameWork(loc', l) /\ pc' = "wait" /\ loc'.tx.ix = ix /\ confirmed' = FALSE
    BY <1>0, <2>1, <2>2, <2>3, SendWork
  <2>5. /\ loc'.e = loc.e /\ ~loc'.repair
        /\ loc'.queue = loc.queue \ chunk /\ loc'.record = chunk
    BY <1>0, <2>3, <2>4 DEF SameWork
  <2>6. loc.queue \subseteq Wallets /\ \A w \in loc.queue : Pushed(loc.e, w) = 0
    <3>1. pc = "push" /\ loc.queue \subseteq Wallets
      BY <1>0, <1>2 DEF SendPush
    <3>2. Unpushed(loc.queue)
      BY <1>0, <3>1 DEF CycleTruth
    <3> QED BY <3>1, <3>2 DEF Unpushed
  <2>7. Unpushed(loc.queue)' /\ Unpushed(loc.record)' /\ loc'.queue \cap loc'.record = {}
    BY <1>0, <1>0a, <2>1, <2>5, <2>6 DEF Unpushed, Pushed
  <2>8. WaitTruth'
    BY <2>2, <2>4, <2>7 DEF WaitTruth
  <2> QED BY <2>4, <2>5, <2>8 DEF CycleTruth
<1>3. CASE SendFinalize
  <2> DEFINE ix == FinalizeTx(loc.e, loc.merkle)
  <2>1. ix \in Ix /\ ix.op = "finalize"
    BY <1>0, IxType, LocalsOf DEF FinalizeTx
  <2>2. Send(ix, 1, faults, loc) \/ (pc' = "idle" /\ loc' = NoLoc)
    BY <1>3 DEF SendFinalize, SendOnly, EndCycle, Goto
  <2> HIDE DEF ix
  <2>3. CASE pc' = "idle" /\ loc' = NoLoc
    BY <2>3 DEF CycleTruth, NoLoc
  <2>4. CASE Send(ix, 1, faults, loc)
    <3>1. SameWork(loc', loc) /\ pc' = "wait" /\ loc'.tx.ix = ix
      BY <1>0, <2>1, <2>4, SendWork
    <3>2. WaitTruth' /\ ~loc'.repair
      BY <1>0, <2>1, <3>1 DEF WaitTruth, SameWork
    <3> QED BY <3>1, <3>2 DEF CycleTruth
  <2> QED BY <2>2, <2>3, <2>4
<1>4. CASE AttemptFails
  <2>1. \/ pc' = "idle" /\ loc' = NoLoc
        \/ Send(loc.tx.ix, loc.attempt + 1, faults', loc)
    BY <1>4 DEF AttemptFails, EndCycle, Goto
  <2>2. CASE pc' = "idle" /\ loc' = NoLoc
    BY <2>2 DEF CycleTruth, NoLoc
  <2>3. CASE Send(loc.tx.ix, loc.attempt + 1, faults', loc)
    <3>0. /\ pc = "wait" /\ faults' \in Nat /\ loc.attempt + 1 \in Nat /\ loc.tx.ix \in Ix
          /\ WaitTruth
      BY <1>0, <1>4 DEF AttemptFails, TypeInv, CycleEpoch, Tx, CycleTruth
    <3>1. /\ SameWork(loc', loc) /\ pc' = "wait" /\ loc'.tx.ix = loc.tx.ix /\ confirmed' = FALSE
      BY <1>0, <2>3, <3>0, SendWork
    <3>2. /\ loc'.e = loc.e /\ loc'.plan = loc.plan /\ loc'.queue = loc.queue
          /\ loc'.record = loc.record /\ ~loc'.repair
      BY <1>0, <3>1 DEF SameWork
    <3>3. ~confirmed
      BY <1>4 DEF AttemptFails
    <3>4. loc.tx.ix.op = "push" =>
            /\ \A w \in loc.queue \cup loc.record : Pushed(loc.e, w) = 0
            /\ loc.queue \cap loc.record = {}
      BY <3>0, <3>3 DEF WaitTruth, Unpushed
    <3>5. loc.queue \cup loc.record \subseteq Wallets
      BY <1>0, LocalsOf
    <3>6. loc.tx.ix.op = "push" => Unpushed(loc.queue)' /\ Unpushed(loc.record)'
      BY <1>0, <1>0a, <3>2, <3>4, <3>5 DEF Unpushed, Pushed
    <3>7. WaitTruth'
      BY <1>0, <3>0, <3>1, <3>2, <3>3, <3>4, <3>6 DEF WaitTruth
    <3> QED BY <3>1, <3>2, <3>7 DEF CycleTruth
  <2> QED BY <2>1, <2>2, <2>3
<1> QED BY <1>1, <1>2, <1>3, <1>4

\* What is left out of the resumed plan was not pushed: rows that add up to
\* what was pushed are what was pushed.
LEMMA ReconcileTruth ==
  ASSUME PInv, TruthInv, ReconcilePushed, PayoutsNext
  PROVE  CycleTruth'
<1>0. /\ TypeInv /\ ChainInv /\ CycleTruth /\ pc = "reconcile" /\ loc.e \in Epochs
      /\ loc \in Locals /\ rows \in [Epochs -> Plan] /\ KeeperTypeOK /\ ~loc.repair
      /\ epoch' = epoch /\ paid' = paid /\ claimed' = claimed
      /\ loc.pushed = epoch[loc.e].pushed_amount
  BY DEF PInv, TruthInv, ReconcilePushed, TypeInv, CycleEpoch, KeeperTypeOK, CycleTruth, vars
<1> DEFINE e == loc.e
           new == Reconciled(e, loc.pushed)
           pu == [w \in Wallets |-> Pushed(e, w)]
<1>1. /\ rows' = [rows EXCEPT ![e] = new]
      /\ \/ /\ Amount(rows'[e]) = loc.pushed /\ pc' = "split"
            /\ loc' = [loc EXCEPT !.already = {w \in Wallets : rows'[loc.e][w] > 0}]
         \/ pc' = "idle" /\ loc' = NoLoc
  BY DEF ReconcilePushed, EndCycle, Goto
<1>2. new \in Plan
  BY <1>0, ReconciledRows
<1>3. rows'[e] = new
  BY <1>0, <1>1
<1>4. \A w \in Wallets : /\ new[w] \in Nat /\ Pushed(e, w) \in Nat /\ new[w] <= Pushed(e, w)
  <2>1. FromEvents'
    BY NextPushes, NextRows DEF FromEvents
  <2>2. TypeInv'
    BY <1>0, NextTypes
  <2>3. RowsBelowPushes'
    BY <2>1, <2>2, RowsBelow, PTL
  <2>4. \A d \in Epochs, w \in Wallets : Pushed(d, w)' = Pushed(d, w)
    BY <1>0 DEF Pushed
  <2>5. \A w \in Wallets : /\ rows'[e][w] \in Nat /\ Pushed(e, w) \in Nat
                           /\ rows'[e][w] <= Pushed(e, w)
    BY <1>0, <2>3, <2>4 DEF RowsBelowPushes
  <2> QED BY <1>3, <2>5
<1>5. CASE pc' = "idle" /\ loc' = NoLoc
  BY <1>5 DEF CycleTruth, NoLoc
<1>6. ASSUME Amount(rows'[e]) = loc.pushed, pc' = "split",
             loc' = [loc EXCEPT !.already = {w \in Wallets : rows'[loc.e][w] > 0}]
      PROVE  CycleTruth'
  <2>1. /\ loc'.e = loc.e /\ ~loc'.repair
        /\ loc'.already = {w \in Wallets : rows'[loc.e][w] > 0}
    BY <1>0, <1>6 DEF Locals
  <2>2. SumFunctionOnSet(new, Wallets) = SumFunctionOnSet(pu, Wallets)
    BY <1>0, <1>2, <1>3, <1>6, AmountDef, PushedSum
  <2> HIDE DEF new
  <2>3. IsFiniteSet(Wallets) /\ SumFunctionOnSet(new, Wallets) \in Int
    <3>1. IsFiniteSet(Wallets) /\ \A w \in Wallets : new[w] \in Int
      BY <1>4, DistributorAssumption
    <3> QED BY <3>1, SumInt
  <2>4. \A w \in Wallets : /\ pu[w] \in Int /\ new[w] \in Int /\ new[w] <= pu[w]
                           /\ pu[w] = Pushed(e, w)
    BY <1>4
  <2> HIDE DEF pu
  <2>5. SumFunctionOnSet(pu, Wallets) <= SumFunctionOnSet(new, Wallets)
    BY <2>2, <2>3
  <2>6. \A w \in Wallets : new[w] = pu[w]
    BY <2>3, <2>4, <2>5, SumTight
  <2>7. ASSUME NEW w \in Wallets \ loc'.already PROVE Pushed(e, w) = 0
    <3>1. ~(new[w] > 0) /\ new[w] \in Nat
      BY <1>3, <1>4, <2>1, <2>7
    <3> QED BY <2>4, <2>6, <3>1
  <2>8. Unpushed(Wallets \ loc.already)'
    BY <1>0, <2>1, <2>7 DEF Unpushed, Pushed
  <2> QED BY <1>6, <2>1, <2>8 DEF CycleTruth
<1> QED BY <1>1, <1>5, <1>6

LEMMA WorkTruth ==
  ASSUME PInv, TruthInv,
         \/ OpenConfirmed \/ ResumeEpoch \/ Split \/ PushConfirmed \/ RecordPayout
         \/ FinalizeConfirmed
  PROVE  CycleTruth'
<1>0. /\ TypeInv /\ KeeperInv /\ CycleTruth /\ TypeOK /\ loc \in Locals /\ loc.e \in Epochs
      /\ ~loc.repair /\ loc.queue \in SUBSET Wallets /\ loc.plan \in Plan
      /\ epoch' = epoch /\ paid' = paid /\ claimed' = claimed
  <2>1. /\ TypeInv /\ KeeperInv /\ CycleTruth /\ TypeOK /\ loc \in Locals
    BY DEF TruthInv, PInv, TypeInv, KeeperTypeOK
  <2>2. pc \in {"wait", "resume", "split", "record"}
    BY DEF OpenConfirmed, ResumeEpoch, Split, PushConfirmed, RecordPayout, FinalizeConfirmed
  <2>3. epoch' = epoch /\ paid' = paid /\ claimed' = claimed
    BY DEF OpenConfirmed, ResumeEpoch, Split, PushConfirmed, RecordPayout, FinalizeConfirmed, vars
  <2> QED BY <2>1, <2>2, <2>3, LocalsOf DEF CycleTruth, TypeInv, CycleEpoch
<1>1. CASE OpenConfirmed
  <2>1. pc' = "split" /\ loc' = [Snapshot(loc.e) EXCEPT !.plan = loc.plan]
    BY <1>1 DEF OpenConfirmed, Goto
  <2>2. /\ Snapshot(loc.e) \in Locals /\ Snapshot(loc.e).e = loc.e
        /\ Snapshot(loc.e).already = {} /\ Snapshot(loc.e).repair = FALSE
    BY <1>0, SnapshotType
  <2>3. loc'.e = loc.e /\ ~loc'.repair /\ loc'.already = {}
    BY <2>1, <2>2 DEF Locals
  <2>4. ~Started(loc.e)
    BY <1>0, <1>1 DEF OpenConfirmed, KeeperInv, WaitInv, OpenKnown, Started
  <2>5. \A w \in Wallets : Pushed(loc.e, w) = 0
    BY <1>0, <2>4, NothingBefore
  <2>6. Unpushed(Wallets \ loc.already)'
    BY <1>0, <2>3, <2>5 DEF Unpushed, Pushed
  <2> QED BY <2>1, <2>3, <2>6 DEF CycleTruth
<1>2. CASE ResumeEpoch
  <2>1. pc' = "reconcile" /\ \E plan : loc' = [loc EXCEPT !.plan = plan]
    BY <1>2 DEF ResumeEpoch, Goto
  <2>2. loc'.e = loc.e /\ ~loc'.repair /\ loc'.pushed = loc.pushed
    BY <1>0, <2>1 DEF Locals
  <2>3. loc.pushed = epoch[loc.e].pushed_amount
    BY <1>0, <1>2 DEF ResumeEpoch, CycleTruth
  <2> QED BY <1>0, <2>1, <2>2, <2>3 DEF CycleTruth
<1>3. CASE Split
  <2> DEFINE remaining == {w \in Wallets : loc.plan[w] > 0 /\ w \notin loc.already}
  <2>1. PICK push \in SUBSET Wallets : \E merkle, n :
          /\ push \subseteq remaining /\ pc' = "push"
          /\ loc' = [loc EXCEPT !.queue = push, !.merkle = merkle, !.pushedTotal = n]
    BY <1>3 DEF Split, Goto
  <2>2. loc'.e = loc.e /\ ~loc'.repair /\ loc'.queue = push
    BY <1>0, <2>1 DEF Locals
  <2>3. Unpushed(Wallets \ loc.already) /\ push \subseteq Wallets \ loc.already
    BY <1>0, <1>3, <2>1 DEF Split, CycleTruth
  <2>4. Unpushed(loc.queue)'
    BY <1>0, <2>2, <2>3 DEF Unpushed, Pushed
  <2> QED BY <2>1, <2>2, <2>4 DEF CycleTruth
<1>4. CASE PushConfirmed
  <2>1. pc' = "record" /\ loc' = loc /\ Unpushed(loc.queue)
    BY <1>0, <1>4 DEF PushConfirmed, Goto, CycleTruth, WaitTruth
  <2>2. Unpushed(loc.queue)'
    BY <1>0, <2>1 DEF Unpushed, Pushed
  <2> QED BY <1>0, <2>1, <2>2 DEF CycleTruth
<1>5. CASE RecordPayout
  <2>1. /\ pc' \in {"push", "record"} /\ Unpushed(loc.queue)
        /\ \E rest : loc' = [loc EXCEPT !.record = rest]
    BY <1>0, <1>5 DEF RecordPayout, Goto, CycleTruth
  <2>2. loc'.e = loc.e /\ ~loc'.repair /\ loc'.queue = loc.queue
    BY <1>0, <2>1 DEF Locals
  <2>3. Unpushed(loc.queue)'
    BY <1>0, <2>1, <2>2 DEF Unpushed, Pushed
  <2> QED BY <2>1, <2>2, <2>3 DEF CycleTruth
<1>6. CASE FinalizeConfirmed
  <2>1. pc' = "leaves" /\ loc' = loc
    BY <1>6 DEF FinalizeConfirmed, Goto
  <2> QED BY <1>0, <2>1 DEF CycleTruth
<1> QED BY <1>1, <1>2, <1>3, <1>4, <1>5, <1>6

LEMMA BooksTruth ==
  ASSUME PInv, TruthInv,
         WriteLeaves \/ MarkFinalized \/ SetFinalized \/ RepairBookkeeping \/ SkipEpoch
  PROVE  CycleTruth'
<1>0. TypeInv /\ CycleTruth /\ TypeOK /\ loc \in Locals /\ epoch' = epoch
  BY DEF TruthInv, PInv, TypeInv, KeeperTypeOK, WriteLeaves, MarkFinalized, SetFinalized,
         RepairBookkeeping, SkipEpoch, vars
<1>1. ASSUME pc' = "idle" /\ loc' = NoLoc PROVE CycleTruth'
  BY <1>1 DEF CycleTruth, NoLoc
<1>2. CASE SkipEpoch
  BY <1>1, <1>2 DEF SkipEpoch, EndCycle, Goto
<1>3. CASE WriteLeaves \/ MarkFinalized
  <2>1. pc' \in {"mark", "finalized"} /\ loc' = loc
    BY <1>3 DEF WriteLeaves, MarkFinalized, Goto
  <2> QED BY <1>0, <2>1 DEF CycleTruth
<1>4. CASE SetFinalized
  <2>1. CASE loc.repair
    <3>1. pc' = "gate" /\ loc' = Snapshot(loc.e) /\ loc.e \in Epochs
      BY <1>0, <1>4, <2>1 DEF SetFinalized, Goto, TypeInv, CycleEpoch
    <3>2. loc'.e = loc.e /\ ~loc'.repair
      BY <1>0, <3>1, SnapshotType
    <3> QED BY <1>0, <2>1, <3>1, <3>2 DEF CycleTruth
  <2>2. CASE ~loc.repair
    BY <1>1, <1>4, <2>2 DEF SetFinalized, EndCycle, Goto
  <2> QED BY <2>1, <2>2
<1>5. CASE RepairBookkeeping
  <2>0. pc = "repair" /\ ~loc.repair
    BY <1>0, <1>5 DEF RepairBookkeeping, CycleTruth
  <2>1. \/ pc' = "gate" /\ loc' = loc
        \/ pc' = "leaves" /\ \E root : loc' = [loc EXCEPT !.merkle = root, !.repair = TRUE]
    BY <1>5 DEF RepairBookkeeping, Goto
  <2>2. loc'.e = loc.e /\ (pc' = "gate" => ~loc'.repair)
    BY <1>0, <2>0, <2>1 DEF Locals
  <2> QED BY <1>0, <2>0, <2>1, <2>2 DEF CycleTruth
<1> QED BY <1>2, <1>3, <1>4, <1>5

LEMMA NextCycleTruth ==
  ASSUME ~LateLanding, PInv, TruthInv, PayoutsNext
  PROVE  CycleTruth'
<1>1. CASE \E tx \in net : Land(tx)
  BY <1>1, LandTruth
<1>2. CASE KeeperStep
  BY <1>2, StartTruth, PlanTruth, SendTruth, ReconcileTruth, WorkTruth, BooksTruth DEF KeeperStep
<1>3. CASE Crash
  <2>1. pc' = "idle" /\ loc' = NoLoc
    BY <1>3 DEF Crash, EndCycle, Goto
  <2> QED BY <2>1 DEF CycleTruth, NoLoc
<1>4. CASE ~(\E tx \in net : Land(tx)) /\ ~KeeperStep /\ ~Crash
  <2>1. \A f \in Epochs : SameChain(f)
    BY <1>4, QuietChain DEF PInv
  <2>2. UNCHANGED <<pc, loc, confirmed>>
    <3> USE DEF keeperVars, netVars
    <3>1. CASE \E tx \in net : Reject(tx) \/ Drop(tx)
      BY <3>1 DEF Reject, Drop
    <3>2. CASE \E e \in Epochs : \E i \in DOMAIN events[e], w \in Wallets : IndexPayout(e, i, w)
      BY <3>2 DEF IndexPayout
    <3>3. CASE ChangePushCap \/ Surroundings \/ \E w \in Wallets, e \in Epochs : ClaimServed(w, e)
      <4>1. UNCHANGED <<keeperVars, netVars>>
        BY <3>3 DEF ChangePushCap, Surroundings, ClaimServed
      <4> QED BY <4>1
    <3> QED BY <1>4, <3>1, <3>2, <3>3 DEF PayoutsNext, NetworkStep
  <2> QED BY <2>1, <2>2, StillTruth DEF PInv, TruthInv
<1> QED BY <1>1, <1>2, <1>3, <1>4

LEMMA NextTruthInv ==
  ASSUME ~LateLanding
  PROVE  PInv /\ TruthInv /\ [PayoutsNext]_payoutsVars => TruthInv'
<1>1. ASSUME PInv, TruthInv, PayoutsNext PROVE TruthInv'
  BY <1>1, NextInFlight, NextAsOpened, NextKnownInTurn, NextCycleTruth DEF TruthInv
<1>2. ASSUME TruthInv, UNCHANGED payoutsVars PROVE TruthInv'
  <2> USE DEF payoutsVars, vars, keeperVars, dbVars, netVars
  <2>1. WaitTruth => WaitTruth'
    BY <1>2 DEF WaitTruth, Unpushed, Pushed
  <2>2. \A e \in Epochs : AsOpened(e) => AsOpened(e)'
    BY <1>2 DEF AsOpened, Pushed
  <2> QED BY <1>2, <2>1, <2>2 DEF TruthInv, OneInFlight, KnownInTurn, CycleTruth, Unpushed, Pushed
<1> QED BY <1>1, <1>2

LEMMA InitTruthInv == PayoutsInit => TruthInv
<1> SUFFICES ASSUME PayoutsInit PROVE TruthInv
  OBVIOUS
<1>1. /\ pc = "idle" /\ net = {} /\ loc = NoLoc
      /\ \A e \in Epochs : progress[e] = None /\ epoch[e] = NoEpoch /\ openedPlan[e] = None
  BY DEF PayoutsInit, Init
<1> QED
  BY <1>1 DEF TruthInv, OneInFlight, AsOpened, KnownInTurn, CycleTruth, NoEpoch, NoLoc

LEMMA TruthHolds ==
  ASSUME ~LateLanding
  PROVE  PayoutsSpec => [](PInv /\ TruthInv)
<1>1. PInv /\ TruthInv /\ [PayoutsNext]_payoutsVars => (PInv /\ TruthInv)'
  BY NextPInv, NextTruthInv
<1>2. PayoutsInit => PInv /\ TruthInv
  BY InitPInv, InitTruthInv
<1> QED BY <1>1, <1>2, PTL DEF PayoutsSpec

-----------------------------------------------------------------------------
(***************************************************************************)
(* Exact allocation                                                        *)
(***************************************************************************)
\* What a root of the plan's leaves pays to a wallet.
LEMMA RootSharePays ==
  ASSUME NEW e \in Epochs, epoch[e].merkle_root \in SUBSET (Wallets \X U64),
         NEW plan \in Plan, OfPlan(epoch[e].merkle_root, plan), NEW w \in Wallets
  PROVE  RootShare(e, w) = Leaf(epoch[e].merkle_root, plan, w)
<1> DEFINE root == epoch[e].merkle_root
           S == {y \in root : y[1] = w}
           f == [x \in S |-> x[2]]
           leaf == <<w, plan[w]>>
<1>1. RootShare(e, w) = SumFunctionOnSet(f, S)
  BY DEF RootShare, SumFunction
<1>2. \A y \in S : y = leaf /\ plan[w] > 0
  <2> SUFFICES ASSUME NEW y \in S PROVE y = leaf /\ plan[w] > 0
    OBVIOUS
  <2>1. y \in Wallets \X U64 /\ y[1] = w /\ y[2] = plan[y[1]] /\ y[2] > 0
    BY DEF OfPlan
  <2> QED BY <2>1
<1>3. CASE plan[w] > 0 /\ leaf \in root
  <2>1. S = {leaf}
    BY <1>2, <1>3
  <2>2. f[leaf] = plan[w] /\ plan[w] \in Nat /\ \A x \in S : f[x] = plan[w]
    BY <2>1, U64Nat DEF Plan
  <2> HIDE DEF f, S, leaf
  <2>3. /\ IsFiniteSet(S) /\ leaf \in S /\ S \ {leaf} = {}
        /\ \A x \in S : f[x] \in Int
    <3>1. IsFiniteSet({leaf})
      BY FS_Singleton
    <3>2. plan[w] \in Int
      BY <2>2
    <3> QED BY <2>1, <2>2, <3>1, <3>2
  <2>4. SumFunctionOnSet(f, S) = f[leaf] + SumFunctionOnSet(f, S \ {leaf})
    BY <2>3, SumTake
  <2>5. SumFunctionOnSet(f, S) = plan[w]
    BY <2>2, <2>3, <2>4, SumEmpty
  <2> QED BY <1>1, <1>3, <2>5 DEF Leaf, leaf
<1>4. CASE ~(plan[w] > 0 /\ leaf \in root)
  <2>1. S = {}
    BY <1>2, <1>4
  <2>2. SumFunctionOnSet(f, S) = 0
    BY <2>1, SumEmpty
  <2> QED BY <1>1, <1>4, <2>2 DEF Leaf
<1> QED BY <1>3, <1>4

\* A wallet that claimed got its whole share by the claim.
LEMMA ClaimedShare ==
  ASSUME PInv, TruthInv, NEW e \in Epochs, NEW w \in Wallets, NEW amount \in U64,
         epoch[e].exists, epoch[e].finalized, <<w, amount>> \in epoch[e].merkle_root
  PROVE  amount = openedPlan[e][w] /\ amount > 0 /\ Pushed(e, w) = 0
<1> DEFINE plan == progress[e].plan
           root == epoch[e].merkle_root
<1>1. /\ FinalizedOK(e) /\ AsOpened(e) /\ TypeInv
  BY DEF PInv, ChainInv, TruthInv
<1>2. /\ Started(e) /\ OfPlan(root, plan) /\ plan = openedPlan[e] /\ plan # NoPlan
      /\ rows[e][w] = Pushed(e, w)
  BY <1>1 DEF FinalizedOK, AsOpened
<1>3. rows[e][w] + Leaf(root, plan, w) = plan[w]
  BY <1>1, <1>2 DEF FinalizedOK
<1>4. amount = plan[w] /\ amount > 0
  <2>1. \A leaf \in root : leaf[2] = plan[leaf[1]] /\ leaf[2] > 0
    BY <1>2 DEF OfPlan
  <2>2. <<w, amount>>[2] = plan[<<w, amount>>[1]] /\ <<w, amount>>[2] > 0
    BY <2>1
  <2> QED BY <2>2
<1>5. rows[e][w] + amount = amount
  BY <1>3, <1>4 DEF Leaf
<1>6. rows[e][w] \in Nat /\ amount \in Nat
  BY <1>1, U64Nat DEF TypeInv, KeeperTypeOK, Plan
<1>7. rows[e][w] = 0
  BY <1>5, <1>6
<1> QED BY <1>2, <1>4, <1>7

LEMMA ExactWhenTruthful ==
  ASSUME PInv, TruthInv
  PROVE  ExactAllocation
<1> SUFFICES ASSUME NEW e \in Epochs, epoch[e].exists, NEW w \in Wallets
             PROVE  /\ paid[e][w] \in {0, openedPlan[e][w]}
                    /\ epoch[e].finalized =>
                         paid[e][w] + (IF claimed[e][w] = 0 THEN RootShare(e, w) ELSE 0)
                           = openedPlan[e][w]
  BY DEF ExactAllocation
<1> DEFINE plan == openedPlan[e]
           root == epoch[e].merkle_root
<1>0. TypeInv /\ FinalizedOK(e) /\ AsOpened(e) /\ TypeOK
  BY DEF PInv, ChainInv, TruthInv, TypeInv
<1>1. /\ progress[e].plan = plan /\ plan # NoPlan /\ plan \in Plan
      /\ Pushed(e, w) \in {0, plan[w]}
  BY <1>0 DEF AsOpened, TypeInv, KeeperTypeOK
<1>2. /\ paid[e][w] \in Nat /\ claimed[e][w] \in Nat /\ Pushed(e, w) = paid[e][w] - claimed[e][w]
      /\ Pushed(e, w) \in Int /\ claimed[e][w] \in U64
  BY <1>0, PushedType DEF Pushed, TypeOK
<1>3. CASE claimed[e][w] = 0
  <2>1. paid[e][w] = Pushed(e, w)
    BY <1>2, <1>3
  <2>2. ASSUME epoch[e].finalized PROVE paid[e][w] + RootShare(e, w) = plan[w]
    <3>1. /\ rows[e][w] = Pushed(e, w) /\ OfPlan(root, plan)
          /\ rows[e][w] + Leaf(root, plan, w) = plan[w]
      BY <1>0, <1>1, <2>2 DEF FinalizedOK
    <3>2. root \in SUBSET (Wallets \X U64)
      BY <1>0 DEF TypeOK, EpochAccount
    <3>3. RootShare(e, w) = Leaf(root, plan, w)
      BY <1>1, <3>1, <3>2, RootSharePays
    <3> QED BY <2>1, <3>1, <3>3
  <2> QED BY <1>1, <1>3, <2>1, <2>2
<1>4. CASE claimed[e][w] # 0
  <2>1. epoch[e].finalized /\ <<w, claimed[e][w]>> \in root
    BY <1>0, <1>4 DEF TypeInv, IInv, EpochInv, Books
  <2>2. claimed[e][w] = plan[w] /\ Pushed(e, w) = 0
    BY <1>2, <2>1, ClaimedShare
  <2>3. paid[e][w] = plan[w]
    BY <1>2, <2>2
  <2>4. plan[w] \in Nat
    BY <1>2, <2>2
  <2> QED BY <1>4, <2>3, <2>4
<1> QED BY <1>3, <1>4

\* saveEpochPlan and resumeEpoch: once an epoch is on the chain its stored
\* plan is the plan it was opened with, over resumes, crashes and repairs,
\* provided no transaction lands after the keeper gave it up.
THEOREM StoredPlanKept == ~LateLanding => (PayoutsSpec => []StoredPlanIsOpened)
<1> SUFFICES ASSUME ~LateLanding PROVE PayoutsSpec => []StoredPlanIsOpened
  OBVIOUS
<1>1. PInv /\ TruthInv => StoredPlanIsOpened
  BY DEF TruthInv, AsOpened, StoredPlanIsOpened
<1> QED BY <1>1, TruthHolds, PTL

\* payouts.ts:15-16: every wallet gets exactly what the plan of the open that
\* landed gives it, by push or by claim, whatever crashes and retries come
\* between, provided no transaction lands after the keeper gave it up.
THEOREM AllocationIsExact == ~LateLanding => (PayoutsSpec => []ExactAllocation)
<1> SUFFICES ASSUME ~LateLanding PROVE PayoutsSpec => []ExactAllocation
  OBVIOUS
<1>1. PInv /\ TruthInv => ExactAllocation
  BY ExactWhenTruthful
<1> QED BY <1>1, TruthHolds, PTL

-----------------------------------------------------------------------------
(***************************************************************************)
(* Payouts implement the ideal ones                                        *)
(***************************************************************************)
\* The open that lands fixes the plan.
LEMMA LandedOpen ==
  ASSUME PInv, TruthInv, NEW tx \in net, Land(tx), tx.ix.op = "open"
  PROVE  Ideal!Open(tx.ix.e)
<1>1. /\ TypeInv /\ tx.ix \in OpenIx /\ tx.ix.e \in Epochs /\ ~epoch[tx.ix.e].exists
      /\ paid' = paid /\ openedPlan' = [openedPlan EXCEPT ![tx.ix.e] = tx.ix.plan]
  BY OpenLands DEF PInv
<1>2. openedPlan[tx.ix.e] = None
  BY <1>1 DEF TruthInv, AsOpened
<1>3. tx.ix.plan # None /\ openedPlan \in [Epochs -> Plan \cup {None}]
  BY <1>1, PayoutsAssumption DEF OpenIx, TypeInv, KeeperTypeOK
<1> QED BY <1>1, <1>2, <1>3 DEF Ideal!Open

\* A push that lands pays its wallets, who had nothing, their whole shares.
LEMMA LandedPush ==
  ASSUME PInv, TruthInv, NEW tx \in net, Land(tx), tx.ix.op = "push"
  PROVE  \/ Ideal!Pay(tx.ix.e, {w \in Wallets : tx.ix.items[w] > 0})
            /\ {w \in Wallets : tx.ix.items[w] > 0} # {}
         \/ UNCHANGED <<openedPlan, paid>>
<1> DEFINE e == tx.ix.e
           items == tx.ix.items
           ws == {w \in Wallets : items[w] > 0}
<1>0. /\ TypeInv /\ KeeperInv /\ TypeOK /\ AsOpened(e) /\ WaitInv /\ WaitTruth
      /\ tx = loc.tx /\ ~confirmed /\ e = loc.e /\ e \in Epochs
  BY SoleTx DEF PInv, TruthInv, KeeperInv, CycleTruth, TypeInv, CycleEpoch
<1>1. /\ epoch[e].exists /\ ~epoch[e].finalized /\ items \in Plan
      /\ openedPlan' = openedPlan
      /\ paid' = [paid EXCEPT ![e] = [w \in Wallets |-> @[w] + items[w]]]
  BY <1>0, PushLands DEF PushIx
<1>2. /\ progress[e].plan = loc.plan /\ items = Items(loc.plan, loc.record)
      /\ \A w \in loc.record : Pushed(e, w) = 0
  BY <1>0 DEF WaitInv, PlanKnown, WaitTruth, Unpushed
<1>3. openedPlan[e] = loc.plan /\ openedPlan[e] # None
  BY <1>0, <1>1, <1>2 DEF AsOpened
<1>4. ASSUME NEW w \in Wallets PROVE claimed[e][w] = 0
  BY <1>0, <1>1 DEF TypeInv, IInv, EpochInv
<1>5. \A w \in Wallets : /\ paid[e][w] \in Nat /\ items[w] \in Nat
                         /\ Pushed(e, w) = paid[e][w]
  <2> SUFFICES ASSUME NEW w \in Wallets
               PROVE  paid[e][w] \in Nat /\ items[w] \in Nat /\ Pushed(e, w) = paid[e][w]
    OBVIOUS
  <2>1. paid[e][w] \in Nat
    BY <1>0, PushedType
  <2>2. items[w] \in Nat
    BY <1>1, U64Nat DEF Plan
  <2> QED BY <1>4, <2>1, <2>2 DEF Pushed
<1>6. \A w \in ws : paid[e][w] = 0 /\ items[w] = loc.plan[w]
  <2> SUFFICES ASSUME NEW w \in Wallets, items[w] > 0
               PROVE  paid[e][w] = 0 /\ items[w] = loc.plan[w]
    OBVIOUS
  <2>1. w \in loc.record /\ items[w] = loc.plan[w]
    BY <1>2 DEF Items
  <2> QED BY <1>2, <1>5, <2>1
<1>7. \A w \in Wallets \ ws : items[w] = 0
  BY <1>5
<1>8. [w \in Wallets |-> paid[e][w] + items[w]]
        = [w \in Wallets |-> IF w \in ws THEN openedPlan[e][w] ELSE paid[e][w]]
  BY <1>3, <1>5, <1>6, <1>7
<1>9. paid' = [paid EXCEPT ![e] = [w \in Wallets |-> IF w \in ws THEN openedPlan[e][w] ELSE @[w]]]
  BY <1>1, <1>8
<1>10. CASE ws # {}
  BY <1>1, <1>3, <1>6, <1>9, <1>10 DEF Ideal!Pay
<1>11. CASE ws = {}
  <2>1. paid \in [Epochs -> [Wallets -> Nat]]
    BY <1>0 DEF TypeOK
  <2>2. [w \in Wallets |-> IF w \in ws THEN openedPlan[e][w] ELSE paid[e][w]] = paid[e]
    BY <1>0, <1>11, <2>1
  <2>3. paid' = paid
    BY <1>0, <1>9, <2>1, <2>2
  <2> QED BY <1>1, <2>3
<1> QED BY <1>10, <1>11

\* A claim pays a wallet that had nothing its whole share.
LEMMA ServedClaim ==
  ASSUME PInv, TruthInv, NEW w \in Wallets, NEW e \in Epochs, ClaimServed(w, e)
  PROVE  Ideal!Pay(e, {w})
<1>0. TypeInv /\ TypeOK /\ AsOpened(e) /\ paid \in [Epochs -> [Wallets -> Nat]]
  BY DEF PInv, TruthInv, TypeInv, TypeOK
<1>1. PICK amount \in U64 :
        /\ claimed[e][w] = 0 /\ <<w, amount>> \in epoch[e].merkle_root
        /\ epoch[e].exists /\ epoch[e].finalized
        /\ paid' = [paid EXCEPT ![e][w] = @ + amount]
        /\ UNCHANGED <<keeperVars, dbVars, netVars, faults>>
  BY <1>0, ClaimEffect
<1>2. amount = openedPlan[e][w] /\ Pushed(e, w) = 0
  BY <1>1, ClaimedShare
<1>3. paid[e][w] = 0 /\ amount \in Nat
  BY <1>0, <1>1, <1>2, PushedType, U64Nat DEF Pushed
<1>4. openedPlan[e] # None /\ openedPlan' = openedPlan
  BY <1>0, <1>1 DEF AsOpened, netVars
<1>5. paid' = [paid EXCEPT ![e] =
                 [v \in Wallets |-> IF v \in {w} THEN openedPlan[e][v] ELSE @[v]]]
  <2>1. [paid[e] EXCEPT ![w] = @ + amount]
          = [v \in Wallets |-> IF v \in {w} THEN openedPlan[e][v] ELSE paid[e][v]]
    BY <1>0, <1>2, <1>3
  <2>2. paid' = [paid EXCEPT ![e] = [paid[e] EXCEPT ![w] = @ + amount]]
    BY <1>0, <1>1
  <2> QED BY <1>0, <2>1, <2>2
<1> QED BY <1>3, <1>4, <1>5 DEF Ideal!Pay

\* Every step of the cycle, the network and the holders is a step of the ideal
\* payouts or none.
LEMMA IdealStep ==
  PInv /\ TruthInv /\ [PayoutsNext]_payoutsVars => [Ideal!IdealNext]_<<openedPlan, paid>>
<1> SUFFICES ASSUME PInv, TruthInv, PayoutsNext
             PROVE  Ideal!IdealNext \/ UNCHANGED <<openedPlan, paid>>
  BY DEF payoutsVars, vars, netVars
<1>0. TypeInv
  BY DEF PInv
<1>1. CASE \E tx \in net : Land(tx)
  <2>1. PICK tx \in net : Land(tx)
    BY <1>1
  <2>2. tx.ix.e \in Epochs /\ tx.ix.op \in {"open", "push", "finalize"}
    BY <1>0, <2>1, LandCases
  <2>3. CASE tx.ix.op = "open"
    BY <2>1, <2>2, <2>3, LandedOpen DEF Ideal!IdealNext
  <2>4. CASE tx.ix.op = "push"
    <3> DEFINE ws == {w \in Wallets : tx.ix.items[w] > 0}
    <3>1. (Ideal!Pay(tx.ix.e, ws) /\ ws # {}) \/ UNCHANGED <<openedPlan, paid>>
      BY <2>1, <2>4, LandedPush
    <3>2. ws \in SUBSET Wallets
      OBVIOUS
    <3> HIDE DEF ws
    <3> QED BY <2>2, <3>1, <3>2 DEF Ideal!IdealNext
  <2>5. CASE tx.ix.op = "finalize"
    BY <1>0, <2>1, <2>5, FinalizeLands
  <2> QED BY <2>2, <2>3, <2>4, <2>5
<1>2. CASE \E w \in Wallets, e \in Epochs : ClaimServed(w, e)
  <2>1. PICK w \in Wallets, e \in Epochs : ClaimServed(w, e)
    BY <1>2
  <2>2. Ideal!Pay(e, {w}) /\ {w} \in (SUBSET Wallets) \ {{}}
    BY <2>1, ServedClaim
  <2> QED BY <2>2 DEF Ideal!IdealNext
<1>3. CASE ~(\E tx \in net : Land(tx)) /\ ~(\E w \in Wallets, e \in Epochs : ClaimServed(w, e))
  <2>1. openedPlan' = openedPlan
    BY <1>0, <1>3, QuietChain
  <2>2. UNCHANGED vars \/ ChangePushCap \/ Surroundings
    BY <1>3, ChainSteps
  <2>3. paid' = paid
    BY <2>2 DEF vars, ChangePushCap, SetParams, Surroundings, Tick, AccrueFees
  <2> QED BY <2>1, <2>3
<1> QED BY <1>1, <1>2, <1>3

\* Push batches, Merkle proofs, retries, crashes and resumes do not show: the
\* payout cycle implements IdealPayouts, provided no transaction lands after
\* the keeper gave it up.
THEOREM PayoutsImplementIdeal == ~LateLanding => (PayoutsSpec => ImplementsIdeal)
<1> SUFFICES ASSUME ~LateLanding PROVE PayoutsSpec => ImplementsIdeal
  OBVIOUS
<1>1. PayoutsInit => Ideal!IdealInit
  BY DEF PayoutsInit, Init, Ideal!IdealInit
<1>2. PInv /\ TruthInv /\ [PayoutsNext]_payoutsVars => [Ideal!IdealNext]_(Ideal!idealVars)
  BY IdealStep DEF Ideal!idealVars
<1> QED BY <1>1, <1>2, TruthHolds, PTL DEF PayoutsSpec, ImplementsIdeal, Ideal!IdealSpec
=============================================================================
