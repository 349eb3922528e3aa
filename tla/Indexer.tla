------------------------------ MODULE Indexer ------------------------------
(***************************************************************************)
(* The indexer: transactions of the chain turned into database rows by     *)
(* ingestTransaction (decode/ingest.ts), which a webhook and a backfill    *)
(* job call, beside the rows the keeper writes and the pool rows the API   *)
(* server reconciles.                                                      *)
(*                                                                         *)
(* The chain is a log; a transaction's index is its signature and its      *)
(* slot.  The webhook hands over any transaction of it, any number of      *)
(* times, in any order, or never.  The ingest of one transaction is one    *)
(* savepoint: a step, which may fail and is then rolled back.              *)
(*                                                                         *)
(* Every amount is 1: a buy, a sale and a transfer move one token, an      *)
(* epoch gives every wallet one, a push pays one wallet.  The commodities  *)
(* of all pools are seeded, and a transaction touches a pool once.         *)
(***************************************************************************)
EXTENDS Integers, Sequences, FiniteSets, FiniteSetsExt, SequencesExt, Functions

CONSTANTS
  DbcPools,         \* bonding curve pools, one memecoin each
  Holders,          \* wallets
  EpochIds,         \* epoch indices of a pool
  EPOCH_LOOKAHEAD,  \* indices tried beyond the newest known epoch
  LIMIT,            \* --limit: signatures read per address
  MaxLegs,          \* bound: pools a swap is routed through
  Mixes             \* bound: the operations, traders, launches and length of a log, and its gaps

ASSUME IndexerAssumption ==
  /\ IsFiniteSet(DbcPools) /\ IsFiniteSet(Holders) /\ IsFiniteSet(EpochIds)
  /\ EpochIds = 0..Cardinality(EpochIds) - 1
  /\ EPOCH_LOOKAHEAD \in Nat \ {0} /\ LIMIT \in Nat \ {0}
  /\ MaxLegs \in Nat \ {0}
  /\ Mixes \subseteq [ops : SUBSET STRING, traders : SUBSET Holders, cuts : SUBSET BOOLEAN,
                     length : Nat, gaps : Nat]

VARIABLES
  log,      \* the chain
  db,       \* the database
  cursor,   \* ingest_cursor 'backfill:<address>': 0 for no row
  job,      \* the backfill process
  gaps      \* history: transactions the last run to meet them left out

indexerVars == <<log, db, cursor, job, gaps>>

(***************************************************************************)
(* The chain                                                               *)
(***************************************************************************)
Txs(op) == {t \in DOMAIN log : log[t].op = op}
LaunchOf(t, p) == log[t].op = "launch" /\ log[t].p = p
Launched(p) == \E t \in Txs("launch") : log[t].p = p
Graduated(p) == \E t \in Txs("graduate") : log[t].p = p
Recorded(p) == \E t \in Txs("record") : log[t].p = p
EpochTxs(op, p, e) == {t \in Txs(op) : log[t].p = p /\ log[t].e = e}
Opened(p, e) == EpochTxs("open", p, e) # {}
Finalized(p, e) == EpochTxs("finalize", p, e) # {}
PushedTo(p, e) == {log[t].w : t \in EpochTxs("push", p, e)}
ClaimedBy(p, e) == {log[t].w : t \in EpochTxs("claim", p, e)}
InRoot(p, e) == Holders \ PushedTo(p, e)

\* The pools whose vaults a transaction trades with, and on which venue.
Legs(tx) == IF tx.op = "launch" THEN {tx.p} ELSE IF tx.op = "swap" THEN tx.legs ELSE {}
OnDamm(tx) == IF tx.op = "swap" THEN tx.damm ELSE {}

\* Net memecoin change of a wallet: ownerBaseDeltas.
Delta(tx, p, w) ==
  CASE tx.op = "transfer" /\ tx.p = p -> IF w = tx.w THEN -1 ELSE IF w = tx.to THEN 1 ELSE 0
    [] p \in Legs(tx) /\ w = tx.w -> IF tx.op = "swap" /\ tx.sell THEN -1 ELSE 1
    [] OTHER -> 0

\* Accounts a transaction lists, of those the backfill scans.
Touches(tx) ==
  CASE tx.op = "launch" -> {"pool", "state", "vault", "mint"} \X {tx.p} \X {0}
    [] tx.op = "swap" -> UNION {{<<"mint", p, 0>>, <<IF p \in tx.damm THEN "damm" ELSE "pool", p, 0>>} :
                                  p \in tx.legs}
    [] tx.op = "transfer" -> {<<"mint", tx.p, 0>>}
    [] tx.op = "graduate" -> {"pool", "mint", "damm"} \X {tx.p} \X {0}
    [] tx.op = "record" -> {"pool", "state", "damm"} \X {tx.p} \X {0}
    [] tx.op = "open" -> {<<"state", tx.p, 0>>, <<"vault", tx.p, 0>>, <<"epoch", tx.p, tx.e>>}
    [] OTHER -> {<<"epoch", tx.p, tx.e>>}

\* The pool or pools a transaction is about.
About(tx, p) == IF tx.op = "swap" THEN p \in tx.legs ELSE tx.p = p

Addresses == ({"pool", "state", "vault", "mint", "damm"} \X DbcPools \X {0})
             \cup ({"epoch"} \X DbcPools \X EpochIds)

(***************************************************************************)
(* The database.  d is its state in the operators below.                   *)
(***************************************************************************)
EmptyDb == [pools |-> {}, damm |-> {}, trades |-> {}, moves |-> {},
            balances |-> [x \in DbcPools \X Holders |-> 0],
            epochs |-> <<>>, payouts |-> {}, leaves |-> {}, claimed |-> {}]

HasRow(d, p, e) == <<p, e>> \in DOMAIN d.epochs

\* The event path and the PoolState path write the same row.
UpsertPool(d, p) == [d EXCEPT !.pools = @ \cup {p}]

\* reconcilePools reads every PoolState of the chain as it is now.
ReconcilePools(d) == [d EXCEPT !.pools = @ \cup {p \in DbcPools : Launched(p)}]

MigrationRecorded(d, p) ==
  IF p \in d.pools THEN [d EXCEPT !.damm = @ \cup {p}] ELSE d

NewEpoch == [pushed |-> 0, claimed |-> 0, finalized |-> FALSE]
Counted(row, kind) ==
  IF kind = 1 THEN [row EXCEPT !.claimed = @ + 1] ELSE [row EXCEPT !.pushed = @ + 1]

\* EpochOpened and the keeper's insertEpoch: an upsert that leaves the books
\* of the row alone.
UpsertEpoch(d, p, e) ==
  IF HasRow(d, p, e) THEN d
  ELSE [d EXCEPT !.epochs =
         [x \in DOMAIN @ \cup {<<p, e>>} |-> IF x \in DOMAIN @ THEN @[x] ELSE NewEpoch]]

\* epochIndexFor finds an index for the epoch's address.
IndexFound(d, p, e) ==
  \/ HasRow(d, p, e)
  \/ \E w \in Holders : <<p, e, w>> \in d.leaves
  \/ e <= Max({0} \cup {x[2] : x \in {y \in DOMAIN d.epochs : y[1] = p}}) + EPOCH_LOOKAHEAD

\* Faulty variant: a push is added to the books of a finalized epoch.
Payout_always(d, p, e, w, kind) ==
  LET row == <<p, e, w, kind>>
  IN IF p \notin d.pools \/ ~IndexFound(d, p, e) \/ row \in d.payouts THEN d
     ELSE [d EXCEPT
       !.payouts = @ \cup {row},
       !.epochs = IF HasRow(d, p, e)
                  THEN [@ EXCEPT ![<<p, e>>] = Counted(d.epochs[<<p, e>>], kind)] ELSE @,
       !.claimed = IF kind = 1 THEN @ \cup ({<<p, e, w>>} \cap d.leaves) ELSE @]

\* The books follow only when the payouts row is new.
Payout(d, p, e, w, kind) ==
  LET row == <<p, e, w, kind>>
      books == d.epochs[<<p, e>>]
      counts == HasRow(d, p, e) /\ (kind = 1 \/ ~books.finalized)
  IN IF p \notin d.pools \/ ~IndexFound(d, p, e) \/ row \in d.payouts THEN d
     ELSE [d EXCEPT
       !.payouts = @ \cup {row},
       !.epochs = IF counts THEN [@ EXCEPT ![<<p, e>>] = Counted(books, kind)] ELSE @,
       !.claimed = IF kind = 1 THEN @ \cup ({<<p, e, w>>} \cap d.leaves) ELSE @]

\* EpochFinalized (pushed = total - remainder) and markEpochFinalized.
FinalizeRow(d, p, e, pushed) ==
  IF HasRow(d, p, e)
  THEN [d EXCEPT !.epochs[<<p, e>>].finalized = TRUE, !.epochs[<<p, e>>].pushed = pushed]
  ELSE d

\* applyEvent for the event of a transaction; a launch whose log was cut has
\* none left, and RegisterPool among its instructions makes it reconcile.
ApplyEvents(d, tx) ==
  CASE tx.op = "launch" -> IF tx.cut THEN ReconcilePools(d) ELSE UpsertPool(d, tx.p)
    [] tx.op = "record" -> MigrationRecorded(d, tx.p)
    [] tx.op = "open" -> IF tx.p \in d.pools THEN UpsertEpoch(d, tx.p, tx.e) ELSE d
    [] tx.op = "push" -> Payout(d, tx.p, tx.e, tx.w, 0)
    [] tx.op = "claim" -> Payout(d, tx.p, tx.e, tx.w, 1)
    [] tx.op = "finalize" -> FinalizeRow(d, tx.p, tx.e, Cardinality(Holders) - tx.remainder)
    [] OTHER -> d

\* Faulty variant: the pools are not looked up.
SwappedPools_any(d, tx) == {p \in Legs(tx) : p \in OnDamm(tx) => p \in d.damm}

\* decodeSwaps: the pools known that a transaction trades with, on the curve or,
\* once the table says where that is, on DAMM v2.
SwappedPools(d, tx) == {p \in Legs(tx) \cap d.pools : p \in OnDamm(tx) => p \in d.damm}

\* writeSwaps: in the order the database returned the pools, swaps are keyed by
\* their position; a key that is there stays.
WriteSwaps(d, t, order) ==
  LET new == {[sig |-> t, i |-> i, pool |-> order[i]] : i \in DOMAIN order}
      free(r) == \A s \in d.trades : <<s.sig, s.i>> # <<r.sig, r.i>>
  IN [d EXCEPT !.trades = @ \cup {r \in new : free(r)}]

\* Faulty variant: the balance moves although the row was there.
WriteBalanceDeltas_always(d, t) ==
  LET new == {x \in {t} \X d.pools \X Holders : Delta(log[t], x[2], x[3]) # 0}
  IN [d EXCEPT !.moves = @ \cup new,
               !.balances = [x \in DOMAIN @ |-> @[x] +
                 (IF <<t, x[1], x[2]>> \in new THEN Delta(log[t], x[1], x[2]) ELSE 0)]]

\* writeBalanceDeltas: balances follow the rows that are new.
WriteBalanceDeltas(d, t) ==
  LET new == {x \in {t} \X d.pools \X Holders : Delta(log[t], x[2], x[3]) # 0} \ d.moves
  IN [d EXCEPT !.moves = @ \cup new,
               !.balances = [x \in DOMAIN @ |-> @[x] +
                 (IF <<t, x[1], x[2]>> \in new THEN Delta(log[t], x[1], x[2]) ELSE 0)]]

\* ingestTransaction when nothing throws.  Without logs (an enhanced payload
\* and no RPC) there are no events; loadPoolRefs has no order.
Ingested(d, t, logged) ==
  LET known == IF logged THEN ApplyEvents(d, log[t]) ELSE d
      orders == SetToSeqs(SwappedPools(known, log[t]))
  IN {WriteBalanceDeltas(WriteSwaps(known, t, order), t) : order \in orders}

\* An error takes it back to its savepoint and goes no further.
Ingest(d, t, logged) == {d} \cup Ingested(d, t, logged)

(***************************************************************************)
(* What lands on the chain.  The keeper opens, pays and finalizes epochs   *)
(* of the pools its database lists, once insertEpoch has written the row;  *)
(* a migration may also be recorded by the admin; a claim needs the proof  *)
(* served from merkle_leaves.                                              *)
(***************************************************************************)
Transactions ==
  [op : {"launch"}, p : {q \in DbcPools : ~Launched(q)}, w : Holders, cut : BOOLEAN]
  \cup {[op |-> "swap", legs |-> legs, w |-> w, sell |-> sell,
         damm |-> {p \in legs : Graduated(p)}] :
          legs \in {s \in SUBSET {q \in DbcPools : Launched(q)} : Cardinality(s) \in 1..MaxLegs},
          w \in Holders, sell \in BOOLEAN}
  \cup {tx \in [op : {"transfer"}, p : {q \in DbcPools : Launched(q)}, w : Holders, to : Holders] :
          tx.w # tx.to}
  \cup [op : {"graduate"}, p : {q \in DbcPools : Launched(q) /\ ~Graduated(q)}]
  \cup [op : {"record"}, p : {q \in DbcPools : Graduated(q) /\ ~Recorded(q)}]
  \cup {tx \in [op : {"open"}, p : db.pools, e : EpochIds] :
          ~Opened(tx.p, tx.e) /\ \A d \in EpochIds : d < tx.e => Finalized(tx.p, d)}
  \cup {tx \in [op : {"push"}, p : DbcPools, e : EpochIds, w : Holders] :
          /\ Opened(tx.p, tx.e) /\ ~Finalized(tx.p, tx.e) /\ HasRow(db, tx.p, tx.e)
          /\ tx.w \notin PushedTo(tx.p, tx.e)}
  \cup {[op |-> "finalize", p |-> x[1], e |-> x[2],
         remainder |-> Cardinality(InRoot(x[1], x[2]))] :
          x \in {y \in DbcPools \X EpochIds : Opened(y[1], y[2]) /\ ~Finalized(y[1], y[2])
                                                /\ HasRow(db, y[1], y[2])}}
  \cup {tx \in [op : {"claim"}, p : DbcPools, e : EpochIds, w : Holders] :
          <<tx.p, tx.e, tx.w>> \in db.leaves /\ tx.w \notin ClaimedBy(tx.p, tx.e)}

Idle == [phase |-> "idle", pool |-> CHOOSE p \in DbcPools : TRUE, resume |-> FALSE,
         addresses |-> <<>>, sigs |-> {}, newest |-> <<>>]

IndexerInit ==
  /\ log = <<>> /\ db = EmptyDb
  /\ cursor = [a \in Addresses |-> 0]
  /\ job = Idle
  /\ gaps = {}

\* The bound on the log and its gaps.
InMix(txs, out) ==
  \E mix \in Mixes :
    /\ Len(txs) <= mix.length /\ Cardinality(out) <= mix.gaps
    /\ \A t \in DOMAIN txs :
         /\ txs[t].op \in mix.ops
         /\ txs[t].op \in {"launch", "swap", "transfer"} => txs[t].w \in mix.traders
         /\ txs[t].op = "launch" => txs[t].cut \in mix.cuts

TxLands ==
  /\ \E tx \in Transactions : log' = Append(log, tx)
  /\ InMix(log', gaps)
  /\ UNCHANGED <<db, cursor, job, gaps>>

(***************************************************************************)
(* The webhook, the server and the keeper write                            *)
(***************************************************************************)
Webhook(t, logged) ==
  /\ db' \in Ingest(db, t, logged)
  /\ UNCHANGED <<log, cursor, job, gaps>>

\* Every 60 s, and at the server's start.
ServerReconcile ==
  /\ db' = ReconcilePools(db)
  /\ UNCHANGED <<log, cursor, job, gaps>>

KeeperInsertsEpoch(p, e) ==
  /\ Opened(p, e)
  /\ db' = UpsertEpoch(db, p, e)
  /\ UNCHANGED <<log, cursor, job, gaps>>

KeeperRecordsPayout(p, e, w) ==
  /\ w \in PushedTo(p, e)
  /\ db' = [db EXCEPT !.payouts = @ \cup {<<p, e, w, 0>>}]
  /\ UNCHANGED <<log, cursor, job, gaps>>

\* Faulty variant: the upsert sets the leaf as good as new.
KeeperInsertsLeaves_anew(p, e) ==
  /\ Finalized(p, e)
  /\ LET leaves == {p} \X {e} \X InRoot(p, e)
     IN db' = [db EXCEPT !.leaves = @ \cup leaves, !.claimed = @ \ leaves]
  /\ UNCHANGED <<log, cursor, job, gaps>>

\* insertMerkleLeaves, again after a restart: claimed stays.
KeeperInsertsLeaves(p, e) ==
  /\ Finalized(p, e)
  /\ db' = [db EXCEPT !.leaves = @ \cup ({p} \X {e} \X InRoot(p, e))]
  /\ UNCHANGED <<log, cursor, job, gaps>>

KeeperMarksFinalized(p, e) ==
  /\ Finalized(p, e)
  /\ db' = FinalizeRow(db, p, e, Cardinality(PushedTo(p, e)))
  /\ UNCHANGED <<log, cursor, job, gaps>>

KeeperMarksMigrated(p) ==
  /\ Recorded(p)
  /\ db' = MigrationRecorded(db, p)
  /\ UNCHANGED <<log, cursor, job, gaps>>

(***************************************************************************)
(* The backfill of one pool                                                *)
(***************************************************************************)
BackfillStart(p, resume) ==
  /\ job.phase = "idle"
  /\ db' = ReconcilePools(db)
  /\ job' = [Idle EXCEPT !.phase = "addresses", !.pool = p, !.resume = resume]
  /\ UNCHANGED <<log, cursor, gaps>>

\* addressesFor
AddressesFor(p) ==
  LET upper == Max({-1} \cup {x[2] : x \in {y \in DOMAIN db.epochs : y[1] = p}}) + 1
      mint == IF p \in db.pools THEN <<<<"mint", p, 0>>>> ELSE <<>>
      damm == IF p \in db.damm THEN <<<<"damm", p, 0>>>> ELSE <<>>
      epochs == {e \in EpochIds : e <= upper}
  IN <<<<"pool", p, 0>>, <<"state", p, 0>>, <<"vault", p, 0>>>> \o mint \o damm
     \o [i \in 1..Cardinality(epochs) |-> <<"epoch", p, i - 1>>]

BackfillAddresses ==
  /\ job.phase = "addresses"
  /\ job' = [job EXCEPT !.phase = "list", !.addresses = AddressesFor(job.pool)]
  /\ UNCHANGED <<log, db, cursor, gaps>>

\* signaturesFor: newest first, down to the cursor, at most LIMIT.
Beyond(a, until) == {t \in DOMAIN log : a \in Touches(log[t]) /\ t > until}
SignaturesFor(a, until) ==
  LET found == Beyond(a, until)
  IN {t \in found : Cardinality({s \in found : s > t}) < LIMIT}

\* Faulty variant: the cursor follows the list, not the run.
BackfillList_advances ==
  /\ job.phase = "list"
  /\ LET a == Head(job.addresses)
         until == IF job.resume THEN cursor[a] ELSE 0
         sigs == SignaturesFor(a, until)
     IN /\ job' = [job EXCEPT !.addresses = Tail(@), !.sigs = @ \cup sigs,
                              !.phase = IF Len(job.addresses) = 1 THEN "ingest" ELSE "list"]
        /\ cursor' = IF sigs = {} THEN cursor ELSE [cursor EXCEPT ![a] = Max(sigs)]
        /\ gaps' = gaps \cup (Beyond(a, until) \ sigs)
  /\ UNCHANGED <<log, db>>

\* One address; the chain grows while the next ones are listed.  What is older
\* than the newest LIMIT is cut, and nothing says so.
BackfillList ==
  /\ job.phase = "list"
  /\ LET a == Head(job.addresses)
         until == IF job.resume THEN cursor[a] ELSE 0
         sigs == SignaturesFor(a, until)
         last == Len(job.addresses) = 1
     IN /\ job' = [job EXCEPT !.addresses = Tail(@), !.sigs = @ \cup sigs,
                              !.newest = IF sigs = {} THEN @ ELSE Append(@, <<a, Max(sigs)>>),
                              !.phase = IF last THEN "ingest" ELSE "list",
                              !.resume = @ /\ ~last]
        /\ gaps' = gaps \cup (Beyond(a, until) \ sigs)
  /\ UNCHANGED <<log, db, cursor>>

\* Of a pool that is not in the table, because its launch was left out, nothing
\* is written and nothing says so.
Orphan(d, t) ==
  \E p \in DbcPools \ d.pools : About(log[t], p) /\ \E s \in gaps : LaunchOf(s, p)

\* In the order of the slots.
BackfillIngest ==
  /\ job.phase = "ingest" /\ job.sigs # {}
  /\ LET t == Min(job.sigs)
     IN /\ db' \in Ingested(db, t, TRUE)
        /\ gaps' = IF Orphan(db', t) THEN gaps \cup {t} ELSE gaps \ {t}
        /\ job' = [job EXCEPT !.sigs = @ \ {t}]
  /\ UNCHANGED <<log, cursor>>

\* The RPC no longer has the transaction (pruned), its ingest throws and is
\* counted, or its events do not decode: the run goes on.
BackfillSkips ==
  /\ job.phase = "ingest" /\ job.sigs # {}
  /\ LET t == Min(job.sigs)
     IN /\ db' \in Ingest(db, t, FALSE)
        /\ gaps' = gaps \cup {t}
        /\ job' = [job EXCEPT !.sigs = @ \ {t}]
  /\ UNCHANGED <<log, cursor>>

\* "Per-address cursors are only advanced after a complete run."
BackfillAdvance ==
  /\ job.phase = "ingest" /\ job.sigs = {}
  /\ IF job.newest = <<>> THEN job' = Idle /\ UNCHANGED cursor
     ELSE LET x == Head(job.newest)
          IN /\ cursor' = [cursor EXCEPT ![x[1]] = x[2]]
             /\ job' = [job EXCEPT !.newest = Tail(@)]
  /\ UNCHANGED <<log, db, gaps>>

\* It throws or is interrupted; what it has ingested and advanced stays.
BackfillDies ==
  /\ job.phase # "idle"
  /\ job' = Idle
  /\ UNCHANGED <<log, db, cursor, gaps>>

Backfill ==
  /\ \/ \E p \in DbcPools, resume \in BOOLEAN : BackfillStart(p, resume)
     \/ BackfillAddresses \/ BackfillList \/ BackfillIngest \/ BackfillSkips
     \/ BackfillAdvance \/ BackfillDies
  /\ gaps' # gaps => InMix(log, gaps')

Writers ==
  \/ ServerReconcile
  \/ \E p \in DbcPools, e \in EpochIds :
       \/ KeeperInsertsEpoch(p, e) \/ KeeperInsertsLeaves(p, e) \/ KeeperMarksFinalized(p, e)
       \/ \E w \in Holders : KeeperRecordsPayout(p, e, w)
  \/ \E p \in DbcPools : KeeperMarksMigrated(p)

IndexerNext ==
  \/ TxLands
  \/ \E t \in DOMAIN log, logged \in BOOLEAN : Webhook(t, logged)
  \/ Writers
  \/ Backfill

IndexerSpec == IndexerInit /\ [][IndexerNext]_indexerVars
-----------------------------------------------------------------------------
(***************************************************************************)
(* Properties                                                              *)
(***************************************************************************)

\* The tables have their shape, and a row about a pool or a leaf never comes
\* before the pool or the leaf, whatever the order the transactions arrive in.
IndexerTypeOK ==
  /\ db.damm \subseteq db.pools /\ db.claimed \subseteq db.leaves
  /\ \A r \in db.trades : r.pool \in db.pools /\ r.sig \in DOMAIN log
  /\ \A x \in db.moves : x[2] \in db.pools
  /\ \A x \in db.payouts : x[1] \in db.pools
  /\ DOMAIN db.epochs \subseteq db.pools \X EpochIds
  /\ db.balances \in [DbcPools \X Holders -> Int]
  /\ cursor \in [Addresses -> 0..Len(log)]

\* ingest.ts:10-11: webhook retries and the backfill's overlap are no-ops.  A
\* wallet's balance is the sum of its recorded moves, each counted once.
BalancesAreReplays ==
  \A p \in DbcPools, w \in Holders :
    db.balances[<<p, w>>] =
      SumFunction([x \in {y \in db.moves : y[2] = p /\ y[3] = w} |-> Delta(log[x[1]], p, w)])

\* The books of an epoch count every payout once although two writers record
\* them: what is claimed is what the claim rows say, a finalized row holds what
\* the chain pushed, and before that no push is counted that did not land.
EpochBooksHonest ==
  \A x \in DOMAIN db.epochs :
    LET row == db.epochs[x]
        pushed == Cardinality(PushedTo(x[1], x[2]))
    IN /\ row.claimed = Cardinality({y \in db.payouts : y[1] = x[1] /\ y[2] = x[2] /\ y[4] = 1})
       /\ row.finalized => Finalized(x[1], x[2]) /\ row.pushed = pushed
       /\ row.pushed <= pushed

\* candles.ts:61-62 adds the payouts of a pool to its leaves that are not
\* claimed: no wallet's share is ever in both, or twice among the payouts.
EarningsCountedOnce ==
  \A p \in DbcPools, e \in EpochIds, w \in Holders :
    Cardinality({kind \in {0, 1} : <<p, e, w, kind>> \in db.payouts})
      + (IF <<p, e, w>> \in db.leaves \ db.claimed THEN 1 ELSE 0) <= 1

\* The rows an address's history stands for; of a swap through several pools,
\* a trade (which one is OneTradePerSwap's question).
RowsOf(t, kind, p) ==
  LET tx == log[t]
      traded == \E r \in db.trades : r.sig = t /\ (r.pool = p \/ Cardinality(Legs(tx)) > 1)
  IN CASE kind = "pool" -> p \in db.pools /\ (p \in Legs(tx) \ OnDamm(tx) => traded)
       [] kind = "state" -> p \in db.pools /\ (tx.op = "record" => p \in db.damm)
       [] kind = "vault" -> tx.op = "open" => HasRow(db, p, tx.e)
       [] kind = "mint" -> \A w \in Holders : Delta(tx, p, w) # 0 => <<t, p, w>> \in db.moves
       [] kind = "damm" -> p \in OnDamm(tx) => traded
       [] OTHER -> CASE tx.op = "open" -> HasRow(db, p, tx.e)
                     [] tx.op = "push" -> <<p, tx.e, tx.w, 0>> \in db.payouts
                     [] tx.op = "claim" -> /\ <<p, tx.e, tx.w, 1>> \in db.payouts
                                           /\ <<p, tx.e, tx.w>> \in db.claimed
                     [] OTHER -> db.epochs[<<p, tx.e>>].finalized

\* backfill.ts:13-14: --resume stops at a cursor and never looks behind it.  A
\* transaction of an address at or before its cursor lacks its rows only when
\* the last run that met it cut it, skipped it, failed on it or had left out its
\* pool's launch: a run that leaves nothing out leaves no gap, whatever was
\* lost, interrupted, repeated or landed meanwhile, and closes those it meets.
CursorCovers ==
  \A a \in Addresses : \A t \in 1..cursor[a] :
    a \in Touches(log[t]) => RowsOf(t, a[1], a[2]) \/ t \in gaps

\* ingest.ts:10-11: a swap of a pool in one transaction is one trade.
OneTradePerSwap ==
  \A r, s \in db.trades : r.sig = s.sig /\ r.pool = s.pool => r = s
=============================================================================
