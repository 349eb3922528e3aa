------------------------------ MODULE Payouts ------------------------------
(***************************************************************************)
(* The keeper's payout cycle (apps/keeper/src/cycles/payouts.ts) for one   *)
(* pool, its database, and the network between it and the distributor      *)
(* program, whose actions (module Distributor) the transactions run.       *)
(*                                                                         *)
(* A step of the keeper is one await with an effect: a database write or a *)
(* transaction.  Between any two it may crash: its locals are lost, the    *)
(* database, the chain and the transactions in flight stay.                *)
(*                                                                         *)
(* Epochs are the indices 0, 1, ... of the pool's epochs.  A plan is the   *)
(* amount of each wallet, 0 for a wallet it leaves out.                    *)
(***************************************************************************)
EXTENDS Distributor, Sequences

Plan == [Wallets -> U64]
Progress == [phase : {"planned", "opened", "pushed", "finalized"}, total : U64, plan : Plan]

CONSTANTS
  Pool,             \* the pool
  Keeper,           \* the keeper's key
  WalletOrder,      \* the place of each wallet in the sort order of addresses
  Twabs,            \* results computeTwab and the min-holding filter may have
  FEE_CYCLE_SECS,   \* feeCycleIntervalSec
  PUSH_CHUNK_SIZE,
  MAX_ATTEMPTS,     \* attempts of sendWithPriority
  LateLanding,      \* a transaction may land, or have landed, although the
                    \* keeper saw an error for it or was restarted meanwhile
  MaxFaults,        \* bound on crashes, lost transactions and cap changes
  None

ASSUME PayoutsAssumption ==
  /\ Pools = {Pool} /\ Keeper \in Actors
  /\ IsFiniteSet(Epochs) /\ Epochs = 0..Cardinality(Epochs) - 1
  /\ WalletOrder \in Injection(Wallets, Nat)
  /\ Roots = SUBSET (Wallets \X U64)
  /\ None \notin Plan /\ None \notin Progress
  /\ Twabs \subseteq [Wallets -> Nat] /\ FEE_CYCLE_SECS \in Nat
  /\ PUSH_CHUNK_SIZE \in 1..MAX_PUSH_ITEMS
  /\ MAX_ATTEMPTS \in Nat \ {0} /\ LateLanding \in BOOLEAN /\ MaxFaults \in Nat

VARIABLES
  pc,           \* the await the cycle is at
  loc,          \* the locals of the cycle
  progress,     \* table epoch_progress, None for no row
  rows,         \* table payouts, kind 0: amount per epoch and wallet
  leaves,       \* table merkle_leaves
  marked,       \* epochs.finalized
  net,          \* transactions in flight
  confirmed,    \* the current attempt has landed
  events,       \* the Payout{kind: 0} events of each epoch: for every push that
                \* landed, in order, the amount of each wallet, 0 for no event
  faults,       \* faults so far
  openedPlan    \* history: the plan each epoch was opened with

dbVars == <<progress, rows, leaves, marked>>
keeperVars == <<pc, loc>>
netVars == <<net, confirmed, events, openedPlan>>
payoutsVars == <<vars, keeperVars, dbVars, netVars, faults>>

(***************************************************************************)
(* Plans: computeShares over an eligible TWAB, and computePlan's null      *)
(***************************************************************************)
NoPlan == [w \in Wallets |-> 0]

Amount(plan) == SumFunction(plan)

\* The first wallet of the largest weight.
Largest(twab) ==
  CHOOSE w \in Wallets : \A v \in Wallets :
    twab[w] > twab[v] \/ (twab[w] = twab[v] /\ WalletOrder[w] <= WalletOrder[v])

\* Pro rata, rounded down; what rounding leaves goes to the largest holder.
ComputeShares(twab, total) ==
  LET floor == [w \in Wallets |-> (total * twab[w]) \div SumFunction(twab)]
  IN IF SumFunction(twab) = 0 THEN NoPlan
     ELSE [floor EXCEPT ![Largest(twab)] = @ + total - SumFunction(floor)]

\* The TWAB of a window depends on the events the indexer has written and the
\* min-holding filter on prices of the moment, so any of Twabs may come out.
Plans(total) == {ComputeShares(twab, total) : twab \in Twabs}

(***************************************************************************)
(* The cycle's locals                                                      *)
(***************************************************************************)
NoLoc == [e |-> 0, start |-> 0, end |-> 0, total |-> 0, pushed |-> 0, plan |-> NoPlan,
          already |-> {}, queue |-> {}, merkle |-> {}, pushedTotal |-> 0,
          record |-> {}, tx |-> None, attempt |-> 0, repair |-> FALSE]

Goto(label, locals) == pc' = label /\ loc' = locals

\* The cycle returns or throws; the next one starts from scratch.
EndCycle == Goto("idle", NoLoc)

PayoutsInit ==
  /\ Init
  /\ pc = "idle" /\ loc = NoLoc
  /\ progress = [e \in Epochs |-> None]
  /\ rows = [e \in Epochs |-> NoPlan]
  /\ leaves = [e \in Epochs |-> {}]
  /\ marked = [e \in Epochs |-> FALSE]
  /\ net = {} /\ confirmed = FALSE
  /\ events = [e \in Epochs |-> <<>>]
  /\ faults = 0
  /\ openedPlan = [e \in Epochs |-> None]

(***************************************************************************)
(* The network.  faults numbers the attempts: two sends of one instruction *)
(* have a fault between them.                                              *)
(***************************************************************************)
OpenTx(e, start, end, plan) ==
  [op |-> "open", e |-> e, start |-> start, end |-> end, plan |-> plan]
PushTx(e, items) == [op |-> "push", e |-> e, items |-> items]
FinalizeTx(e, root) == [op |-> "finalize", e |-> e, root |-> root]

LeafTotal(root) == SumFunction([x \in root |-> x[2]])

\* The distributor instruction of a transaction.
Execute(tx) ==
  \/ /\ tx.op = "open"
     /\ OpenEpochRouter(Keeper, tx.e, tx.start, tx.end, Amount(tx.plan))
  \/ tx.op = "push" /\ PushPayouts(Keeper, tx.e, tx.items)
  \/ tx.op = "finalize" /\ FinalizeEpoch(Keeper, tx.e, tx.root, LeafTotal(tx.root))

Land(tx) ==
  /\ tx \in net
  /\ Execute(tx.ix)
  /\ net' = net \ {tx}
  /\ confirmed' = (confirmed \/ tx = loc.tx)
  /\ events' = IF tx.ix.op # "push" THEN events
               ELSE [events EXCEPT ![tx.ix.e] = Append(@, tx.ix.items)]
  /\ openedPlan' = IF tx.ix.op # "open" THEN openedPlan
                   ELSE [openedPlan EXCEPT ![tx.ix.e] = tx.ix.plan]
  /\ UNCHANGED <<keeperVars, dbVars, faults>>

\* The program refuses it.
Reject(tx) ==
  /\ tx \in net
  /\ ~ENABLED Execute(tx.ix)
  /\ net' = net \ {tx}
  /\ UNCHANGED <<vars, keeperVars, dbVars, confirmed, events, openedPlan, faults>>

\* It never lands: not forwarded, its blockhash expired, a token account of
\* the batch closed.
Drop(tx) ==
  /\ tx \in net
  /\ faults < MaxFaults
  /\ net' = net \ {tx}
  /\ faults' = faults + 1
  /\ UNCHANGED <<vars, keeperVars, dbVars, confirmed, events, openedPlan>>

\* sendWithPriority: each attempt is signed with a fresh blockhash, and is
\* a transaction of its own.
Send(ix, attempt, id, locals) ==
  LET tx == [ix |-> ix, id |-> id]
  IN /\ net' = net \cup {tx}
     /\ confirmed' = FALSE
     /\ Goto("wait", [locals EXCEPT !.tx = tx, !.attempt = attempt])

\* An attempt ends in an error: the transaction is known to be gone or, when
\* answers may be lost, whatever became of it.
AttemptFails ==
  /\ pc = "wait"
  /\ \/ loc.tx \notin net /\ ~confirmed /\ faults' = faults
     \/ LateLanding /\ faults < MaxFaults /\ faults' = faults + 1
  /\ \/ loc.attempt < MAX_ATTEMPTS /\ Send(loc.tx.ix, loc.attempt + 1, faults', loc)
     \/ loc.attempt = MAX_ATTEMPTS /\ EndCycle /\ UNCHANGED <<net, confirmed>>
  /\ UNCHANGED <<vars, dbVars, events, openedPlan>>

SendOnly(ix, locals) ==
  /\ Send(ix, 1, faults, locals)
  /\ UNCHANGED <<vars, events, openedPlan, faults>>

(***************************************************************************)
(* runPayoutsForPool                                                       *)
(***************************************************************************)

\* findLatestOnChainEpoch: forward from the last index the database knows,
\* then back over at most two that are not on the chain; -1 for none.
LatestEpoch ==
  LET known == {-1} \cup {e \in Epochs : progress[e] # None}
      last  == CHOOSE e \in known : \A d \in known : d <= e
      ahead == {e \in Epochs : e > last /\ \A d \in (last + 1)..e : epoch[d].exists}
      idx   == CHOOSE e \in ahead \cup {last} : \A d \in ahead : d <= e
      found == {-1} \cup {e \in Epochs : e \in (idx - 2)..idx /\ epoch[e].exists}
  IN CHOOSE e \in found : \A d \in found : d <= e

Snapshot(e) ==
  [NoLoc EXCEPT !.e = e, !.end = epoch[e].end_ts, !.total = epoch[e].total_amount,
                !.pushed = epoch[e].pushed_amount]

\* Faulty variant: an unfinalized epoch is not resumed (the v0.1 keeper).
StartCycle_opensNext ==
  /\ pc = "idle"
  /\ Goto("gate", IF LatestEpoch = -1 THEN [NoLoc EXCEPT !.e = -1] ELSE Snapshot(LatestEpoch))
  /\ UNCHANGED <<vars, dbVars, netVars, faults>>

StartCycle ==
  /\ pc = "idle"
  /\ LET e == LatestEpoch
         next == IF e = -1 THEN "gate"
                 ELSE IF ~epoch[e].finalized THEN "resume"
                 ELSE IF progress[e] # None /\ progress[e].phase # "finalized" THEN "repair"
                 ELSE "gate"
     IN Goto(next, IF e = -1 THEN [NoLoc EXCEPT !.e = -1] ELSE Snapshot(e))
  /\ UNCHANGED <<vars, dbVars, netVars, faults>>

(***************************************************************************)
(* openNewEpoch                                                            *)
(***************************************************************************)

\* saveEpochPlan: a row that is past 'planned' is left alone.
SavePlan(e, total, plan) ==
  IF progress[e] # None /\ progress[e].phase # "planned" THEN progress
  ELSE [progress EXCEPT ![e] = [phase |-> "planned", total |-> total, plan |-> plan]]

SetPhase(table, e, phase) ==
  IF table[e] = None THEN table ELSE [table EXCEPT ![e].phase = phase]

\* Faulty variant: open_epoch is sent before the plan is stored.
PlanEpoch_unsaved ==
  /\ pc = "gate"
  /\ LET e == loc.e + 1
         total == holderVault[feeRouter][Pool]
         start == IF loc.e = -1 THEN now - FEE_CYCLE_SECS ELSE loc.end
     IN /\ e \in Epochs /\ total > 0 /\ start >= 0 /\ now > start
        /\ \E plan \in Plans(total) \ {NoPlan} :
             Goto("open", [NoLoc EXCEPT !.e = e, !.start = start, !.end = now, !.plan = plan])
  /\ UNCHANGED <<vars, dbVars, netVars, faults>>

\* Up to the saved plan: the vault, the gate and the clock are read here.
PlanEpoch ==
  /\ pc = "gate"
  /\ LET e == loc.e + 1
         total == holderVault[feeRouter][Pool]
         start == IF loc.e = -1 THEN now - FEE_CYCLE_SECS ELSE loc.end
     IN /\ e \in Epochs                       \* bound: indices
        /\ total > 0
        /\ start >= 0 /\ now > start
        /\ \E plan \in Plans(total) \ {NoPlan} :
             /\ progress' = SavePlan(e, total, plan)
             /\ Goto("open", [NoLoc EXCEPT !.e = e, !.start = start, !.end = now,
                                           !.plan = plan])
  /\ UNCHANGED <<vars, rows, leaves, marked, netVars, faults>>

\* An empty or too poor vault, no price, no time gone by, nobody eligible.
SkipEpoch ==
  /\ pc = "gate"
  /\ EndCycle
  /\ UNCHANGED <<vars, dbVars, netVars, faults>>

SendOpen ==
  /\ pc = "open"
  /\ SendOnly(OpenTx(loc.e, loc.start, loc.end, loc.plan), loc)
  /\ UNCHANGED dbVars

\* setEpochPhase, insertEpoch, fetchEpoch.
OpenConfirmed ==
  /\ pc = "wait" /\ loc.tx.ix.op = "open" /\ confirmed
  /\ progress' = SetPhase(progress, loc.e, "opened")
  /\ Goto("split", [Snapshot(loc.e) EXCEPT !.plan = loc.plan])
  /\ UNCHANGED <<vars, rows, leaves, marked, netVars, faults>>

(***************************************************************************)
(* resumeEpoch, reconcilePushed                                            *)
(***************************************************************************)
\* Faulty variant: a resume computes the plan again.
ResumeEpoch_replans ==
  /\ pc = "resume"
  /\ \E plan \in Plans(loc.total) :
       /\ progress' = SetPhase(SavePlan(loc.e, loc.total, plan), loc.e, "opened")
       /\ Goto("reconcile", [loc EXCEPT !.plan = plan])
  /\ UNCHANGED <<vars, rows, leaves, marked, netVars, faults>>

ResumeEpoch ==
  /\ pc = "resume"
  /\ LET e == loc.e
         saved == progress[e] # None /\ progress[e].total = loc.total
     IN \E plan \in IF saved THEN {progress[e].plan} ELSE Plans(loc.total) :
          /\ progress' = SetPhase(IF saved THEN progress ELSE SavePlan(e, loc.total, plan),
                                  e, "opened")
          /\ Goto("reconcile", [loc EXCEPT !.plan = plan])
  /\ UNCHANGED <<vars, rows, leaves, marked, netVars, faults>>

\* Faulty variant: the chain's events are not read.
Reconciled_dbOnly(e, pushed) == rows[e]

\* The payouts rows when they add up to what the chain said, else with the
\* first event of every wallet that has no row; rows not added yet are.
Reconciled(e, pushed) ==
  LET pays(w) == {i \in DOMAIN events[e] : events[e][i][w] > 0}
      first(w) == CHOOSE i \in pays(w) : \A j \in pays(w) : i <= j
  IN IF Amount(rows[e]) = pushed THEN rows[e]
     ELSE [w \in Wallets |-> IF rows[e][w] = 0 /\ pays(w) # {} THEN events[e][first(w)][w]
                                                               ELSE rows[e][w]]

\* Faulty variant: the database is believed over the chain.
ReconcilePushed_trustsDb ==
  /\ pc = "reconcile"
  /\ Goto("split", [loc EXCEPT !.already = {w \in Wallets : rows[loc.e][w] > 0}])
  /\ UNCHANGED <<vars, dbVars, netVars, faults>>

ReconcilePushed ==
  /\ pc = "reconcile"
  /\ rows' = [rows EXCEPT ![loc.e] = Reconciled(loc.e, loc.pushed)]
  /\ IF Amount(rows'[loc.e]) = loc.pushed
     THEN Goto("split", [loc EXCEPT !.already = {w \in Wallets : rows'[loc.e][w] > 0}])
     ELSE EndCycle                            \* manual review
  /\ UNCHANGED <<vars, progress, leaves, marked, netVars, faults>>

(***************************************************************************)
(* pushAndFinalize                                                         *)
(***************************************************************************)

\* Faulty variant: wallets that were pushed are split again.
Split_ignoresPushed ==
  /\ pc = "split"
  /\ \E existing \in SUBSET Wallets :
       Goto("push", [loc EXCEPT
         !.queue = {w \in existing : loc.plan[w] > 0},
         !.merkle = {<<w, loc.plan[w]>> : w \in {v \in Wallets \ existing : loc.plan[v] > 0}}])
  /\ UNCHANGED <<vars, dbVars, netVars, faults>>

\* The remaining wallets are gone through in the plan's order.  One is pushed
\* when it has a token account and the push cap has room beside what was and
\* will have been pushed by then, else left to the Merkle tree.
Split ==
  /\ pc = "split"
  /\ \E existing, push \in SUBSET Wallets :
       LET remaining == {w \in Wallets : loc.plan[w] > 0 /\ w \notin loc.already}
           total(ws) == loc.pushed + SumFunctionOnSet(loc.plan, ws)
           upTo(w) == {v \in push : WalletOrder[v] < WalletOrder[w]} \cup {w}
       IN /\ push = {w \in remaining \cap existing : total(upTo(w)) <= PushCap(loc.e)}
          /\ Goto("push", [loc EXCEPT
               !.queue = push,
               !.merkle = {<<w, loc.plan[w]>> : w \in remaining \ push},
               !.pushedTotal = total(push)])
  /\ UNCHANGED <<vars, dbVars, netVars, faults>>

\* The first wallets of the queue, and what a push gives them.
Chunk(queue) ==
  {w \in queue : Cardinality({v \in queue : WalletOrder[v] < WalletOrder[w]}) < PUSH_CHUNK_SIZE}
Items(plan, ws) == [w \in Wallets |-> IF w \in ws THEN plan[w] ELSE 0]

\* Faulty variant: the rows are written before the push is sent.
SendPush_recordsFirst ==
  /\ pc = "push" /\ loc.queue # {}
  /\ LET chunk == Chunk(loc.queue)
         items == Items(loc.plan, chunk)
     IN /\ rows' = [rows EXCEPT ![loc.e] = [w \in Wallets |-> @[w] + items[w]]]
        /\ SendOnly(PushTx(loc.e, items), [loc EXCEPT !.queue = @ \ chunk, !.record = chunk])
  /\ UNCHANGED <<progress, leaves, marked>>

SendPush ==
  /\ pc = "push" /\ loc.queue # {}
  /\ LET chunk == Chunk(loc.queue)
     IN SendOnly(PushTx(loc.e, Items(loc.plan, chunk)),
                 [loc EXCEPT !.queue = @ \ chunk, !.record = chunk])
  /\ UNCHANGED dbVars

PushConfirmed ==
  /\ pc = "wait" /\ loc.tx.ix.op = "push" /\ confirmed
  /\ Goto("record", loc)
  /\ UNCHANGED <<vars, dbVars, netVars, faults>>

\* recordPayout for one wallet of the chunk; a row that is there stays.
RecordPayout ==
  /\ pc = "record"
  /\ \E w \in loc.record :
       LET rest == loc.record \ {w}
       IN /\ \A v \in rest : WalletOrder[w] < WalletOrder[v]
          /\ rows' = [rows EXCEPT ![loc.e][w] = IF @ = 0 THEN loc.plan[w] ELSE @]
          /\ Goto(IF rest = {} THEN "push" ELSE "record", [loc EXCEPT !.record = rest])
  /\ UNCHANGED <<vars, progress, leaves, marked, netVars, faults>>

\* Faulty variant: the leaves are served before the root is posted.
SendFinalize_leavesFirst ==
  /\ pc = "push" /\ loc.queue = {}
  /\ progress' = SetPhase(progress, loc.e, "pushed")
  /\ leaves' = [leaves EXCEPT ![loc.e] = loc.merkle]
  /\ SendOnly(FinalizeTx(loc.e, loc.merkle), loc)
  /\ UNCHANGED <<rows, marked>>

\* Phase 'pushed', then the root of what is left.
SendFinalize ==
  /\ pc = "push" /\ loc.queue = {}
  /\ progress' = SetPhase(progress, loc.e, "pushed")
  /\ IF LeafTotal(loc.merkle) > loc.total - loc.pushedTotal
     THEN EndCycle /\ UNCHANGED <<vars, netVars, faults>>
     ELSE SendOnly(FinalizeTx(loc.e, loc.merkle), loc)
  /\ UNCHANGED <<rows, leaves, marked>>

FinalizeConfirmed ==
  /\ pc = "wait" /\ loc.tx.ix.op = "finalize" /\ confirmed
  /\ Goto("leaves", loc)
  /\ UNCHANGED <<vars, dbVars, netVars, faults>>

(***************************************************************************)
(* writeFinalized, and repairFinalizedBookkeeping                          *)
(***************************************************************************)

\* insertMerkleLeaves, one database transaction: an upsert by wallet.
WriteLeaves ==
  /\ pc = "leaves"
  /\ leaves' = [leaves EXCEPT ![loc.e] =
                   {old \in @ : \A leaf \in loc.merkle : leaf[1] # old[1]} \cup loc.merkle]
  /\ Goto("mark", loc)
  /\ UNCHANGED <<vars, progress, rows, marked, netVars, faults>>

MarkFinalized ==
  /\ pc = "mark"
  /\ marked' = [marked EXCEPT ![loc.e] = TRUE]
  /\ Goto("finalized", loc)
  /\ UNCHANGED <<vars, progress, rows, leaves, netVars, faults>>

\* The last write; a repair goes on to open the next epoch.
SetFinalized ==
  /\ pc = "finalized"
  /\ progress' = SetPhase(progress, loc.e, "finalized")
  /\ IF loc.repair THEN Goto("gate", Snapshot(loc.e)) ELSE EndCycle
  /\ UNCHANGED <<vars, rows, leaves, marked, netVars, faults>>

\* Finalized on the chain, not in the database: the leaves are plan - pushed
\* if they give the root on the chain; whatever happens, the cycle goes on.
RepairBookkeeping ==
  /\ pc = "repair"
  /\ rows' = [rows EXCEPT ![loc.e] = Reconciled(loc.e, loc.pushed)]
  /\ LET plan == progress[loc.e].plan
         rebuilt == {<<w, plan[w]>> : w \in {v \in Wallets : plan[v] > 0 /\ rows'[loc.e][v] = 0}}
     IN IF Amount(rows'[loc.e]) = loc.pushed /\ rebuilt = epoch[loc.e].merkle_root
        THEN Goto("leaves", [loc EXCEPT !.merkle = rebuilt, !.repair = TRUE])
        ELSE Goto("gate", loc)
  /\ UNCHANGED <<vars, progress, leaves, marked, netVars, faults>>

(***************************************************************************)
(* Faults and the surroundings                                             *)
(***************************************************************************)

\* The process dies and is started again.
Crash ==
  /\ pc # "idle"
  /\ LateLanding \/ net = {}
  /\ faults < MaxFaults
  /\ faults' = faults + 1
  /\ EndCycle
  /\ confirmed' = FALSE
  /\ UNCHANGED <<vars, dbVars, net, events, openedPlan>>

\* The admin changes the push cap between two transactions.
ChangePushCap ==
  /\ faults < MaxFaults
  /\ faults' = faults + 1
  /\ \E bps \in PushBps \ {maxPushBps} : SetParams(admin, feeRouter, bps, FALSE, admin)
  /\ UNCHANGED <<keeperVars, dbVars, netVars>>

\* The indexer records the Payout events it sees.
IndexPayout(e, i, w) ==
  /\ i \in DOMAIN events[e]
  /\ events[e][i][w] > 0 /\ rows[e][w] = 0
  /\ rows' = [rows EXCEPT ![e][w] = events[e][i][w]]
  /\ UNCHANGED <<vars, keeperVars, progress, leaves, marked, netVars, faults>>

\* A wallet claims with the proof served from merkle_leaves.
ClaimServed(w, e) ==
  /\ \E leaf \in leaves[e] : leaf[1] = w /\ Claim(w, e, leaf[2])
  /\ UNCHANGED <<keeperVars, dbVars, netVars, faults>>

Surroundings ==
  /\ \/ Tick
     \/ \E amount \in U64 : AccrueFees(feeRouter, Pool, amount)
  /\ UNCHANGED <<keeperVars, dbVars, netVars, faults>>

KeeperStep ==
  \/ StartCycle \/ PlanEpoch \/ SkipEpoch \/ SendOpen \/ OpenConfirmed
  \/ ResumeEpoch \/ ReconcilePushed \/ Split \/ SendPush \/ PushConfirmed
  \/ RecordPayout \/ SendFinalize \/ FinalizeConfirmed \/ WriteLeaves
  \/ MarkFinalized \/ SetFinalized \/ RepairBookkeeping \/ AttemptFails

NetworkStep == \E tx \in net : Land(tx) \/ Reject(tx)

PayoutsNext ==
  \/ KeeperStep
  \/ NetworkStep
  \/ \E tx \in net : Drop(tx)
  \/ Crash \/ ChangePushCap \/ Surroundings
  \/ \E e \in Epochs : \E i \in DOMAIN events[e], w \in Wallets : IndexPayout(e, i, w)
  \/ \E w \in Wallets, e \in Epochs : ClaimServed(w, e)

\* scheduleCycle runs the cycle again after every end, error or restart;
\* validators decide every transaction; holders claim.
PayoutsFairness ==
  /\ WF_payoutsVars(KeeperStep)
  /\ WF_payoutsVars(NetworkStep)
  /\ \A w \in Wallets, e \in Epochs : WF_payoutsVars(ClaimServed(w, e))

PayoutsSpec == PayoutsInit /\ [][PayoutsNext]_payoutsVars /\ PayoutsFairness
-----------------------------------------------------------------------------
(***************************************************************************)
(* Properties                                                              *)
(***************************************************************************)
\* The keeper's memory, the database and the network hold what the code's
\* types say, and the database knows of every epoch on the chain.
PayoutsTypeOK ==
  /\ TypeOK
  /\ progress \in [Epochs -> Progress \cup {None}]
  /\ rows \in [Epochs -> Plan]
  /\ leaves \in [Epochs -> SUBSET (Wallets \X U64)]
  /\ marked \in [Epochs -> BOOLEAN]
  /\ openedPlan \in [Epochs -> Plan \cup {None}]
  /\ \A e \in Epochs : epoch[e].exists => progress[e] # None

\* What a wallet may still get from the posted root.
RootShare(e, w) == SumFunction([x \in {y \in epoch[e].merkle_root : y[1] = w} |-> x[2]])

\* payouts.ts:15-16: a resumed epoch pays exactly the allocation it was opened
\* with.  Nobody ever receives more than the plan of the open that landed gives
\* it, and once the epoch is finalized what was paid and what the root still
\* pays is that plan, wallet by wallet.
ExactAllocation ==
  \A e \in Epochs : epoch[e].exists =>
    \A w \in Wallets :
      /\ paid[e][w] \in {0, openedPlan[e][w]}
      /\ epoch[e].finalized =>
           paid[e][w] + (IF claimed[e][w] = 0 THEN RootShare(e, w) ELSE 0) = openedPlan[e][w]

\* The payouts table never names a push that did not land, and when the
\* database says an epoch is finalized its rows add up to Epoch.pushed_amount:
\* the restart logic that trusts matching totals cannot be misled by them.
RowsAreLandedPushes ==
  \A e \in Epochs :
    /\ \A w \in Wallets : rows[e][w] > 0 => \E i \in DOMAIN events[e] : events[e][i][w] = rows[e][w]
    /\ marked[e] => Amount(rows[e]) = epoch[e].pushed_amount

\* The leaves the site serves proofs from are the leaves below the root that
\* was posted, whichever of the normal path and the repair wrote them.
LeavesMatchRoot ==
  \A e \in Epochs :
    /\ leaves[e] # {} => epoch[e].finalized /\ leaves[e] = epoch[e].merkle_root
    /\ marked[e] => epoch[e].finalized /\ leaves[e] = epoch[e].merkle_root

\* Once an epoch is on the chain its stored plan is the plan it was opened
\* with and never changes again, over resumes, crashes and repairs.
StoredPlanIsOpened ==
  \A e \in Epochs : epoch[e].exists => progress[e].plan = openedPlan[e]

\* An epoch is opened only when the one before it has been finalized, so two
\* epochs of a pool are never being pushed at once.
OneEpochAtATime ==
  \A e \in Epochs : epoch[e].exists =>
    \A d \in Epochs : d < e => epoch[d].finalized

\* Payouts implement the ideal ones: the open that lands fixes the plan, and
\* every push or claim pays wallets their whole share, once.
Ideal == INSTANCE IdealPayouts WITH plan <- openedPlan, received <- paid
ImplementsIdeal == Ideal!IdealSpec

\* Whatever fails on the way, every holder of an opened epoch ends up with its
\* share in its wallet, by push or by claim.
EveryHolderPaid ==
  \A e \in Epochs, w \in Wallets :
    epoch[e].exists ~> epoch[e].exists /\ paid[e][w] = openedPlan[e][w]
=============================================================================
