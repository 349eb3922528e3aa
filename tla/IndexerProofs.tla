--------------------------- MODULE IndexerProofs ---------------------------
(***************************************************************************)
(* Theorems about Indexer, for every number of pools, wallets and epochs,  *)
(* every log and every order, repetition and loss of deliveries.           *)
(***************************************************************************)
EXTENDS Indexer, ArithmeticLemmas, SequenceTheorems

(***************************************************************************)
(* The chain.  Its transactions have the fields of their operation, come   *)
(* after the launch of the pools they are about, and an epoch is not       *)
(* pushed any more once it is finalized.                                   *)
(***************************************************************************)
AnyTx ==
  [op : {"launch"}, p : DbcPools, w : Holders, cut : BOOLEAN]
  \cup [op : {"swap"}, legs : SUBSET DbcPools, w : Holders, sell : BOOLEAN,
        damm : SUBSET DbcPools]
  \cup [op : {"transfer"}, p : DbcPools, w : Holders, to : Holders]
  \cup [op : {"graduate", "record"}, p : DbcPools]
  \cup [op : {"open"}, p : DbcPools, e : EpochIds]
  \cup [op : {"push", "claim"}, p : DbcPools, e : EpochIds, w : Holders]
  \cup [op : {"finalize"}, p : DbcPools, e : EpochIds, remainder : Nat]

EpochOps == {"open", "push", "finalize", "claim"}

LaunchedFirst ==
  \A t \in DOMAIN log, p \in DbcPools :
    About(log[t], p) =>
      Launched(p) /\ \A s \in Txs("launch") : log[s].p = p => s <= t
RemaindersTrue ==
  \A p \in DbcPools, e \in EpochIds : \A t \in EpochTxs("finalize", p, e) :
    log[t].remainder = Cardinality(InRoot(p, e))

ChainInv == log \in Seq(AnyTx) /\ LaunchedFirst /\ RemaindersTrue

(***************************************************************************)
(* The database d.                                                         *)
(***************************************************************************)
EpochRow == [pushed : Nat, claimed : Nat, finalized : BOOLEAN]
EpochTables == UNION {[X -> EpochRow] : X \in SUBSET (DbcPools \X EpochIds)}
Leaves == DbcPools \X EpochIds \X Holders

DbShape(d) ==
  d \in [pools : SUBSET DbcPools, damm : SUBSET DbcPools,
         trades : SUBSET [sig : Nat, i : Nat, pool : DbcPools],
         moves : SUBSET (Nat \X DbcPools \X Holders),
         balances : [DbcPools \X Holders -> Int],
         epochs : EpochTables,
         payouts : SUBSET (DbcPools \X EpochIds \X Holders \X {0, 1}),
         leaves : SUBSET Leaves, claimed : SUBSET Leaves]

\* What every row says of the chain is true.
PoolsTrue(d) == (\A p \in d.pools : Launched(p)) /\ d.damm \subseteq d.pools
TradesTrue(d) ==
  \A r \in d.trades : r.sig \in DOMAIN log /\ r.pool \in d.pools /\ r.pool \in Legs(log[r.sig])
MovesTrue(d) == \A x \in d.moves : x[1] \in DOMAIN log /\ x[2] \in d.pools
PayoutsTrue(d) ==
  \A p \in DbcPools, e \in EpochIds, w \in Holders :
    /\ <<p, e, w, 0>> \in d.payouts => w \in PushedTo(p, e)
    /\ <<p, e, w, 1>> \in d.payouts => w \in ClaimedBy(p, e) /\ <<p, e, w>> \in d.claimed
LeavesTrue(d) ==
  /\ \A p \in DbcPools, e \in EpochIds, w \in Holders :
       <<p, e, w>> \in d.leaves => Finalized(p, e) /\ w \in InRoot(p, e)
  /\ d.claimed \subseteq d.leaves

\* The payouts rows of an epoch, by kind.
PaidRows(d, p, e, kind) == {y \in d.payouts : y[1] = p /\ y[2] = e /\ y[4] = kind}
EpochsTrue(d) ==
  \A p \in DbcPools, e \in EpochIds : HasRow(d, p, e) =>
    /\ Opened(p, e) /\ p \in d.pools
    /\ d.epochs[<<p, e>>].claimed = Cardinality(PaidRows(d, p, e, 1))
    /\ d.epochs[<<p, e>>].finalized =>
         Finalized(p, e) /\ d.epochs[<<p, e>>].pushed = Cardinality(PushedTo(p, e))
    /\ ~d.epochs[<<p, e>>].finalized =>
         d.epochs[<<p, e>>].pushed <= Cardinality(PaidRows(d, p, e, 0))

DbTrue(d) ==
  PoolsTrue(d) /\ TradesTrue(d) /\ MovesTrue(d) /\ PayoutsTrue(d) /\ LeavesTrue(d) /\ EpochsTrue(d)

\* What the keeper does on the chain follows what it has in the database.
KeeperKnows(d) ==
  \A p \in DbcPools, e \in EpochIds :
    /\ Opened(p, e) => p \in d.pools
    /\ Finalized(p, e) \/ PushedTo(p, e) # {} \/ ClaimedBy(p, e) # {} => HasRow(d, p, e)
    /\ \A w \in ClaimedBy(p, e) : <<p, e, w>> \in d.leaves

RowsInv == ChainInv /\ DbShape(db) /\ DbTrue(db) /\ KeeperKnows(db)

-----------------------------------------------------------------------------
(***************************************************************************)
(* The chain grows.                                                        *)
(***************************************************************************)
LEMMA LogLength == ASSUME ChainInv PROVE Len(log) \in Nat /\ DOMAIN log = 1..Len(log)
  BY DEF ChainInv

\* A transaction lands at the end of the log, and the earlier ones stay.
LEMMA Appended ==
  ASSUME ChainInv, NEW tx \in AnyTx, log' = Append(log, tx)
  PROVE  /\ log' \in Seq(AnyTx) /\ Len(log') = Len(log) + 1
         /\ (DOMAIN log)' = DOMAIN log \cup {Len(log) + 1}
         /\ Len(log) + 1 \notin DOMAIN log
         /\ \A t \in DOMAIN log : log'[t] = log[t]
         /\ log'[Len(log) + 1] = tx
<1>1. Len(log) \in Nat /\ DOMAIN log = 1..Len(log) /\ log \in Seq(AnyTx)
  BY LogLength DEF ChainInv
<1>2. log' \in Seq(AnyTx) /\ Len(log') = Len(log) + 1
  BY <1>1
<1>3. DOMAIN log' = 1..Len(log')
  BY <1>2
<1>4. \A t \in DOMAIN log : log'[t] = log[t]
  BY <1>1
<1>5. log'[Len(log) + 1] = tx
  BY <1>1
<1>6. DOMAIN log' = DOMAIN log \cup {Len(log) + 1} /\ Len(log) + 1 \notin DOMAIN log
  BY <1>1, <1>2, <1>3
<1> QED BY <1>2, <1>4, <1>5, <1>6

\* The transactions of an operation, after one more has landed.
LEMMA TxsGrow ==
  ASSUME ChainInv, NEW tx \in AnyTx, log' = Append(log, tx), NEW op
  PROVE  Txs(op)' = Txs(op) \cup {t \in {Len(log) + 1} : tx.op = op}
<1>1. \A t \in DOMAIN log : log'[t] = log[t]
  BY Appended
<1>2. (DOMAIN log)' = DOMAIN log \cup {Len(log) + 1} /\ log'[Len(log) + 1] = tx
  BY Appended
<1>3. Txs(op)' = {t \in DOMAIN log' : log'[t].op = op}
  BY DEF Txs
<1>4. DOMAIN log' = DOMAIN log \cup {Len(log) + 1}
  BY <1>2
<1> QED BY <1>1, <1>2, <1>3, <1>4 DEF Txs

\* A pool stays launched, and only its launch makes it so.
LEMMA LaunchesGrow ==
  ASSUME ChainInv, NEW tx \in AnyTx, log' = Append(log, tx), NEW p
  PROVE  Launched(p)' <=> Launched(p) \/ (tx.op = "launch" /\ tx.p = p)
<1>1. Launched(p)' <=> \E t \in Txs("launch")' : log'[t].p = p
  BY DEF Launched
<1>2. Txs("launch")' = Txs("launch") \cup {t \in {Len(log) + 1} : tx.op = "launch"}
  BY TxsGrow
<1>3. \A t \in Txs("launch") : log'[t] = log[t]
  BY Appended DEF Txs
<1>4. log'[Len(log) + 1] = tx
  BY Appended
<1> QED BY <1>1, <1>2, <1>3, <1>4 DEF Launched

\* What the programs' accounts say after one more transaction.
LEMMA FactsGrow ==
  ASSUME ChainInv, NEW tx \in AnyTx, log' = Append(log, tx), NEW p \in DbcPools, NEW e \in EpochIds
  PROVE  /\ Opened(p, e)' <=> Opened(p, e) \/ (tx.op = "open" /\ tx.p = p /\ tx.e = e)
         /\ Finalized(p, e)' <=> Finalized(p, e) \/ (tx.op = "finalize" /\ tx.p = p /\ tx.e = e)
         /\ PushedTo(p, e)' =
              PushedTo(p, e) \cup (IF tx.op = "push" /\ tx.p = p /\ tx.e = e THEN {tx.w} ELSE {})
         /\ ClaimedBy(p, e)' =
              ClaimedBy(p, e) \cup (IF tx.op = "claim" /\ tx.p = p /\ tx.e = e THEN {tx.w} ELSE {})
<1> DEFINE n == Len(log) + 1
<1>1. \A t \in DOMAIN log : log'[t] = log[t]
  BY Appended
<1>2. log'[n] = tx /\ n \notin DOMAIN log
  BY Appended
<1> HIDE DEF n
<1>3. \A op : Txs(op)' = Txs(op) \cup {t \in {n} : tx.op = op}
  BY TxsGrow DEF n
<1>4. \A op : Txs(op) \subseteq DOMAIN log
  BY DEF Txs
<1>5. \A op : EpochTxs(op, p, e)' =
        EpochTxs(op, p, e) \cup {t \in {n} : tx.op = op /\ tx.p = p /\ tx.e = e}
  <2> TAKE op
  <2>1. EpochTxs(op, p, e)' = {t \in Txs(op)' : log'[t].p = p /\ log'[t].e = e}
    BY DEF EpochTxs
  <2> QED BY <1>1, <1>2, <1>3, <1>4, <2>1 DEF EpochTxs
<1>6. \A op : EpochTxs(op, p, e) \subseteq DOMAIN log
  BY <1>4 DEF EpochTxs
<1>8. Opened(p, e)' <=> Opened(p, e) \/ (tx.op = "open" /\ tx.p = p /\ tx.e = e)
  BY <1>5 DEF Opened
<1>9. Finalized(p, e)' <=> Finalized(p, e) \/ (tx.op = "finalize" /\ tx.p = p /\ tx.e = e)
  BY <1>5 DEF Finalized
<1>10. PushedTo(p, e)' =
         PushedTo(p, e) \cup (IF tx.op = "push" /\ tx.p = p /\ tx.e = e THEN {tx.w} ELSE {})
  <2>1. PushedTo(p, e)' = {log'[t].w : t \in EpochTxs("push", p, e)'}
    BY DEF PushedTo
  <2>2. \A t \in EpochTxs("push", p, e) : log'[t] = log[t]
    BY <1>1, <1>6
  <2>3. CASE tx.op = "push" /\ tx.p = p /\ tx.e = e
    <3>1. EpochTxs("push", p, e)' = EpochTxs("push", p, e) \cup {n}
      BY <1>5, <2>3
    <3> QED BY <1>2, <2>1, <2>2, <2>3, <3>1 DEF PushedTo
  <2>4. CASE ~(tx.op = "push" /\ tx.p = p /\ tx.e = e)
    <3>1. EpochTxs("push", p, e)' = EpochTxs("push", p, e)
      BY <1>5, <2>4
    <3> QED BY <2>1, <2>2, <2>4, <3>1 DEF PushedTo
  <2> QED BY <2>3, <2>4
<1>11. ClaimedBy(p, e)' =
         ClaimedBy(p, e) \cup (IF tx.op = "claim" /\ tx.p = p /\ tx.e = e THEN {tx.w} ELSE {})
  <2>1. ClaimedBy(p, e)' = {log'[t].w : t \in EpochTxs("claim", p, e)'}
    BY DEF ClaimedBy
  <2>2. \A t \in EpochTxs("claim", p, e) : log'[t] = log[t]
    BY <1>1, <1>6
  <2>3. CASE tx.op = "claim" /\ tx.p = p /\ tx.e = e
    <3>1. EpochTxs("claim", p, e)' = EpochTxs("claim", p, e) \cup {n}
      BY <1>5, <2>3
    <3> QED BY <1>2, <2>1, <2>2, <2>3, <3>1 DEF ClaimedBy
  <2>4. CASE ~(tx.op = "claim" /\ tx.p = p /\ tx.e = e)
    <3>1. EpochTxs("claim", p, e)' = EpochTxs("claim", p, e)
      BY <1>5, <2>4
    <3> QED BY <2>1, <2>2, <2>4, <3>1 DEF ClaimedBy
  <2> QED BY <2>3, <2>4
<1> QED BY <1>8, <1>9, <1>10, <1>11
-----------------------------------------------------------------------------
(***************************************************************************)
(* What lands.                                                             *)
(***************************************************************************)
LEMMA FiniteHolders ==
  \A S \in SUBSET Holders : IsFiniteSet(S) /\ Cardinality(S) \in Nat
  BY FS_Subset, FS_CardinalityType, IndexerAssumption

\* Only holders are pushed to, and only holders claim.
LEMMA PushedHolders ==
  ASSUME ChainInv, NEW p \in DbcPools, NEW e \in EpochIds
  PROVE  PushedTo(p, e) \subseteq Holders /\ ClaimedBy(p, e) \subseteq Holders
<1>1. \A t \in DOMAIN log : log[t] \in AnyTx
  BY DEF ChainInv
<1>2. \A t \in DOMAIN log : log[t].op \in {"push", "claim"} => log[t].w \in Holders
  BY <1>1 DEF AnyTx
<1> QED BY <1>2 DEF PushedTo, ClaimedBy, EpochTxs, Txs

\* The fields of a transaction that may land.
LEMMA LandingType ==
  ASSUME RowsInv, NEW tx \in Transactions
  PROVE  tx \in AnyTx
<1> USE DEF AnyTx
<1>1. CASE tx \in [op : {"launch"}, p : {q \in DbcPools : ~Launched(q)}, w : Holders, cut : BOOLEAN]
  BY <1>1
<1>2. CASE tx \in {[op |-> "swap", legs |-> legs, w |-> w, sell |-> sell,
                    damm |-> {p \in legs : Graduated(p)}] :
                     legs \in {s \in SUBSET {q \in DbcPools : Launched(q)} :
                                 Cardinality(s) \in 1..MaxLegs},
                     w \in Holders, sell \in BOOLEAN}
  <2>1. PICK legs \in {s \in SUBSET {q \in DbcPools : Launched(q)} : Cardinality(s) \in 1..MaxLegs},
             w \in Holders, sell \in BOOLEAN :
          tx = [op |-> "swap", legs |-> legs, w |-> w, sell |-> sell,
                damm |-> {p \in legs : Graduated(p)}]
    BY <1>2
  <2>2. legs \in SUBSET DbcPools /\ {p \in legs : Graduated(p)} \in SUBSET DbcPools
    OBVIOUS
  <2> QED BY <2>1, <2>2
<1>3. CASE tx \in [op : {"transfer"}, p : {q \in DbcPools : Launched(q)}, w : Holders, to : Holders]
  BY <1>3
<1>4. CASE tx \in [op : {"graduate"}, p : {q \in DbcPools : Launched(q) /\ ~Graduated(q)}]
  BY <1>4
<1>5. CASE tx \in [op : {"record"}, p : {q \in DbcPools : Graduated(q) /\ ~Recorded(q)}]
  BY <1>5
<1>6. CASE tx \in [op : {"open"}, p : db.pools, e : EpochIds]
  BY <1>6 DEF RowsInv, DbShape
<1>7. CASE tx \in [op : {"push", "claim"}, p : DbcPools, e : EpochIds, w : Holders]
  BY <1>7
<1>8. CASE tx \in {[op |-> "finalize", p |-> x[1], e |-> x[2],
                    remainder |-> Cardinality(InRoot(x[1], x[2]))] :
                     x \in {y \in DbcPools \X EpochIds : Opened(y[1], y[2]) /\ ~Finalized(y[1], y[2])
                                                           /\ HasRow(db, y[1], y[2])}}
  <2>1. PICK x \in DbcPools \X EpochIds :
          tx = [op |-> "finalize", p |-> x[1], e |-> x[2],
                remainder |-> Cardinality(InRoot(x[1], x[2]))]
    BY <1>8
  <2>2. Cardinality(InRoot(x[1], x[2])) \in Nat
    BY FiniteHolders DEF InRoot
  <2> QED BY <2>1, <2>2
<1> QED
  BY <1>1, <1>2, <1>3, <1>4, <1>5, <1>6, <1>7, <1>8 DEF Transactions

\* What has to be so for it to land.
LEMMA LandingGuards ==
  ASSUME RowsInv, NEW tx \in Transactions
  PROVE  /\ tx.op = "launch" => ~Launched(tx.p)
         /\ tx.op = "swap" =>
              /\ tx.legs \subseteq DbcPools /\ \A p \in tx.legs : Launched(p)
              /\ Cardinality(tx.legs) \in 1..MaxLegs /\ tx.damm \subseteq tx.legs
         /\ tx.op \in {"transfer", "graduate"} => Launched(tx.p)
         /\ tx.op = "record" => Graduated(tx.p)
         /\ tx.op = "open" => tx.p \in db.pools
         /\ tx.op \in {"push", "finalize"} =>
              Opened(tx.p, tx.e) /\ ~Finalized(tx.p, tx.e) /\ HasRow(db, tx.p, tx.e)
         /\ tx.op = "finalize" => tx.remainder = Cardinality(InRoot(tx.p, tx.e))
         /\ tx.op = "claim" => <<tx.p, tx.e, tx.w>> \in db.leaves
<1>1. CASE tx \in {[op |-> "swap", legs |-> legs, w |-> w, sell |-> sell,
                    damm |-> {p \in legs : Graduated(p)}] :
                     legs \in {s \in SUBSET {q \in DbcPools : Launched(q)} :
                                 Cardinality(s) \in 1..MaxLegs},
                     w \in Holders, sell \in BOOLEAN}
  BY <1>1
<1>2. CASE tx \in {[op |-> "finalize", p |-> x[1], e |-> x[2],
                    remainder |-> Cardinality(InRoot(x[1], x[2]))] :
                     x \in {y \in DbcPools \X EpochIds : Opened(y[1], y[2]) /\ ~Finalized(y[1], y[2])
                                                           /\ HasRow(db, y[1], y[2])}}
  BY <1>2
<1>3. CASE \/ tx \in [op : {"launch"}, p : {q \in DbcPools : ~Launched(q)}, w : Holders, cut : BOOLEAN]
           \/ tx \in [op : {"transfer"}, p : {q \in DbcPools : Launched(q)}, w : Holders, to : Holders]
           \/ tx \in [op : {"graduate"}, p : {q \in DbcPools : Launched(q) /\ ~Graduated(q)}]
           \/ tx \in [op : {"record"}, p : {q \in DbcPools : Graduated(q) /\ ~Recorded(q)}]
           \/ tx \in [op : {"open"}, p : db.pools, e : EpochIds]
  BY <1>3
<1>4. CASE tx \in {x \in [op : {"push"}, p : DbcPools, e : EpochIds, w : Holders] :
                     /\ Opened(x.p, x.e) /\ ~Finalized(x.p, x.e) /\ HasRow(db, x.p, x.e)
                     /\ x.w \notin PushedTo(x.p, x.e)}
  BY <1>4
<1>5. CASE tx \in {x \in [op : {"claim"}, p : DbcPools, e : EpochIds, w : Holders] :
                     <<x.p, x.e, x.w>> \in db.leaves /\ x.w \notin ClaimedBy(x.p, x.e)}
  BY <1>5
<1> QED
  BY <1>1, <1>2, <1>3, <1>4, <1>5 DEF Transactions

-----------------------------------------------------------------------------
(***************************************************************************)
(* The database after one transaction more.                                *)
(***************************************************************************)
LEMMA RemaindersStay ==
  ASSUME RowsInv, NEW tx \in Transactions, log' = Append(log, tx)
  PROVE  RemaindersTrue'
<1>1. tx \in AnyTx /\ ChainInv
  BY LandingType DEF RowsInv
<1> SUFFICES ASSUME NEW p \in DbcPools, NEW e \in EpochIds, NEW t \in EpochTxs("finalize", p, e)'
             PROVE  log'[t].remainder = Cardinality(InRoot(p, e)')
  BY DEF RemaindersTrue
<1>2. t \in DOMAIN log' /\ log'[t].op = "finalize" /\ log'[t].p = p /\ log'[t].e = e
  BY DEF EpochTxs, Txs
<1>3. ~(tx.op = "push" /\ tx.p = p /\ tx.e = e) => PushedTo(p, e)' = PushedTo(p, e)
  <2>1. PushedTo(p, e)' =
          PushedTo(p, e) \cup (IF tx.op = "push" /\ tx.p = p /\ tx.e = e THEN {tx.w} ELSE {})
    BY <1>1, FactsGrow
  <2> QED BY <2>1
<1>4. CASE t \in DOMAIN log
  <2>1. log'[t] = log[t]
    BY <1>1, <1>4, Appended
  <2>2. t \in EpochTxs("finalize", p, e)
    BY <1>2, <1>4, <2>1 DEF EpochTxs, Txs
  <2>3. log[t].remainder = Cardinality(InRoot(p, e)) /\ Finalized(p, e)
    BY <1>1, <2>2 DEF ChainInv, RemaindersTrue, Finalized
  <2>4. ~(tx.op = "push" /\ tx.p = p /\ tx.e = e)
    BY <2>3, LandingGuards
  <2> QED BY <1>3, <2>1, <2>3, <2>4 DEF InRoot
<1>5. CASE t = Len(log) + 1
  <2>1. log'[t] = tx
    BY <1>1, <1>5, Appended
  <2>2. tx.remainder = Cardinality(InRoot(p, e))
    BY <1>2, <2>1, LandingGuards
  <2> QED BY <1>2, <1>3, <2>1, <2>2 DEF InRoot
<1>6. (DOMAIN log)' = DOMAIN log \cup {Len(log) + 1}
  BY <1>1, Appended
<1> QED BY <1>2, <1>4, <1>5, <1>6

\* Nothing is about a pool that is not launched.
LEMMA AboutLaunched ==
  ASSUME RowsInv, NEW tx \in Transactions, NEW p \in DbcPools, About(tx, p), tx.op # "launch"
  PROVE  Launched(p)
<1>1. LaunchedFirst
  BY DEF RowsInv, ChainInv
<1>2. tx \in AnyTx
  BY LandingType
<1>3. \A t \in DOMAIN log : log[t].p = p /\ log[t].op # "swap" => Launched(p)
  BY <1>1 DEF LaunchedFirst, About
<1>4. CASE tx.op = "swap"
  BY <1>4, LandingGuards DEF About
<1>5. CASE tx.op \in {"transfer", "graduate"}
  BY <1>5, LandingGuards DEF About
<1>6. CASE tx.op = "record"
  BY <1>3, <1>6, LandingGuards DEF About, Graduated, Txs
<1>7. CASE tx.op = "open"
  BY <1>7, LandingGuards DEF About, RowsInv, DbTrue, PoolsTrue
<1>8. CASE tx.op \in {"push", "finalize"}
  BY <1>3, <1>8, LandingGuards DEF About, Opened, EpochTxs, Txs
<1>9. CASE tx.op = "claim"
  <2>1. <<p, tx.e, tx.w>> \in db.leaves /\ tx.e \in EpochIds /\ tx.w \in Holders
    BY <1>2, <1>9, LandingGuards DEF About, AnyTx
  <2>2. Finalized(p, tx.e)
    BY <2>1 DEF RowsInv, DbTrue, LeavesTrue
  <2> QED BY <1>3, <2>2 DEF Finalized, EpochTxs, Txs
<1> QED BY <1>2, <1>4, <1>5, <1>6, <1>7, <1>8, <1>9 DEF AnyTx

\* The launch of a pool stays before all that is about it.
LEMMA LaunchesStayFirst ==
  ASSUME RowsInv, NEW tx \in Transactions, log' = Append(log, tx)
  PROVE  LaunchedFirst'
<1>1. tx \in AnyTx /\ ChainInv
  BY LandingType DEF RowsInv
<1> SUFFICES ASSUME NEW t \in DOMAIN log', NEW p \in DbcPools, About(log'[t], p)
             PROVE  Launched(p)' /\ \A s \in Txs("launch")' : log'[s].p = p => s <= t
  BY DEF LaunchedFirst
<1> DEFINE n == Len(log) + 1
<1>2. /\ (DOMAIN log)' = DOMAIN log \cup {n} /\ n \notin DOMAIN log
      /\ \A s \in DOMAIN log : log'[s] = log[s] /\ s \in Nat /\ s < n
      /\ log'[n] = tx /\ n \in Nat
  BY <1>1, Appended, LogLength
<1> HIDE DEF n
<1>3. Launched(p)' <=> Launched(p) \/ (tx.op = "launch" /\ tx.p = p)
  BY <1>1, LaunchesGrow
<1>4. Txs("launch")' = Txs("launch") \cup {s \in {n} : tx.op = "launch"}
  BY <1>1, TxsGrow DEF n
<1>5. \A s \in Txs("launch") : s \in DOMAIN log
  BY DEF Txs
<1>6. CASE t \in DOMAIN log
  <2>1. Launched(p) /\ \A s \in Txs("launch") : log[s].p = p => s <= t
    BY <1>1, <1>2, <1>6 DEF ChainInv, LaunchedFirst
  <2>2. tx.op = "launch" => tx.p # p
    BY <2>1, LandingGuards
  <2> QED BY <1>2, <1>3, <1>4, <1>5, <2>1, <2>2
<1>7. CASE t = n
  <2>1. Launched(p)'
    <3>1. CASE tx.op = "launch"
      BY <1>2, <1>3, <1>7, <3>1 DEF About
    <3>2. CASE tx.op # "launch"
      BY <1>2, <1>3, <1>7, <3>2, AboutLaunched
    <3> QED BY <3>1, <3>2
  <2>2. \A s \in Txs("launch")' : s <= t
    BY <1>2, <1>4, <1>5, <1>7
  <2> QED BY <2>1, <2>2
<1> QED BY <1>2, <1>6, <1>7

\* A landing leaves the database alone, and its rows stay true.
LEMMA LandingKeepsRows ==
  ASSUME RowsInv, NEW tx \in Transactions, log' = Append(log, tx), db' = db
  PROVE  RowsInv'
<1>1. tx \in AnyTx /\ ChainInv /\ DbShape(db) /\ DbTrue(db) /\ KeeperKnows(db)
  BY LandingType DEF RowsInv
<1>2. ChainInv'
  BY <1>1, Appended, LaunchesStayFirst, RemaindersStay DEF ChainInv
<1>3. /\ \A t \in DOMAIN log : t \in DOMAIN log' /\ log'[t] = log[t]
      /\ \A p : Launched(p) => Launched(p)'
  BY <1>1, Appended, LaunchesGrow
<1>4. \A p \in DbcPools, e \in EpochIds :
        /\ Opened(p, e)' <=> Opened(p, e) \/ (tx.op = "open" /\ tx.p = p /\ tx.e = e)
        /\ Finalized(p, e)' <=> Finalized(p, e) \/ (tx.op = "finalize" /\ tx.p = p /\ tx.e = e)
  BY <1>1, FactsGrow
<1>5. \A p \in DbcPools, e \in EpochIds :
        /\ PushedTo(p, e)' =
             PushedTo(p, e) \cup (IF tx.op = "push" /\ tx.p = p /\ tx.e = e THEN {tx.w} ELSE {})
        /\ ClaimedBy(p, e)' =
             ClaimedBy(p, e) \cup (IF tx.op = "claim" /\ tx.p = p /\ tx.e = e THEN {tx.w} ELSE {})
  BY <1>1, FactsGrow
<1>6. \A p \in DbcPools, e \in EpochIds : Finalized(p, e) => PushedTo(p, e)' = PushedTo(p, e)
  <2> TAKE p \in DbcPools, e \in EpochIds
  <2> HAVE Finalized(p, e)
  <2>1. ~(tx.op = "push" /\ tx.p = p /\ tx.e = e)
    BY LandingGuards
  <2>2. PushedTo(p, e)' =
          PushedTo(p, e) \cup (IF tx.op = "push" /\ tx.p = p /\ tx.e = e THEN {tx.w} ELSE {})
    BY <1>5
  <2> QED BY <2>1, <2>2
<1>7. \A p \in DbcPools, e \in EpochIds : PushedTo(p, e) \subseteq PushedTo(p, e)'
                                          /\ ClaimedBy(p, e) \subseteq ClaimedBy(p, e)'
  BY <1>5
<1>8. PoolsTrue(db)'
  BY <1>1, <1>3 DEF DbTrue, PoolsTrue
<1>9. TradesTrue(db)' /\ MovesTrue(db)'
  BY <1>1, <1>3 DEF DbTrue, TradesTrue, MovesTrue, Legs
<1>10. PayoutsTrue(db)'
  BY <1>1, <1>7 DEF DbTrue, PayoutsTrue
<1>11. LeavesTrue(db)'
  <2>1. /\ \A p \in DbcPools, e \in EpochIds, w \in Holders :
             <<p, e, w>> \in db.leaves => Finalized(p, e) /\ w \in InRoot(p, e)
        /\ db.claimed \subseteq db.leaves
    BY <1>1 DEF DbTrue, LeavesTrue
  <2>2. \A p \in DbcPools, e \in EpochIds, w \in Holders :
          <<p, e, w>> \in db.leaves => Finalized(p, e)' /\ w \in InRoot(p, e)'
    BY <1>4, <1>6, <2>1 DEF InRoot
  <2> QED BY <2>1, <2>2 DEF LeavesTrue
<1>12. EpochsTrue(db)'
  BY <1>1, <1>4, <1>6 DEF DbTrue, EpochsTrue, HasRow, PaidRows
<1>13. KeeperKnows(db)'
  <2>1. tx.op = "open" => tx.p \in db.pools
    BY LandingGuards
  <2>2. tx.op \in {"push", "finalize"} => HasRow(db, tx.p, tx.e)
    BY LandingGuards
  <2>3. tx.op = "claim" => /\ <<tx.p, tx.e, tx.w>> \in db.leaves
                           /\ tx.p \in DbcPools /\ tx.e \in EpochIds /\ tx.w \in Holders
    BY <1>1, LandingGuards DEF AnyTx
  <2>4. tx.op = "claim" => HasRow(db, tx.p, tx.e)
    BY <1>1, <2>3 DEF DbTrue, LeavesTrue, KeeperKnows
  <2> SUFFICES ASSUME NEW p \in DbcPools, NEW e \in EpochIds
               PROVE  /\ Opened(p, e)' => p \in db.pools
                      /\ Finalized(p, e)' \/ PushedTo(p, e)' # {} \/ ClaimedBy(p, e)' # {} =>
                           HasRow(db, p, e)
                      /\ \A w \in ClaimedBy(p, e)' : <<p, e, w>> \in db.leaves
    BY DEF KeeperKnows, HasRow
  <2>5. /\ Opened(p, e) => p \in db.pools
        /\ Finalized(p, e) \/ PushedTo(p, e) # {} \/ ClaimedBy(p, e) # {} => HasRow(db, p, e)
        /\ \A w \in ClaimedBy(p, e) : <<p, e, w>> \in db.leaves
    BY <1>1 DEF KeeperKnows
  <2>6. Opened(p, e)' => p \in db.pools
    BY <1>4, <2>1, <2>5
  <2>7. Finalized(p, e)' => HasRow(db, p, e)
    BY <1>4, <2>2, <2>5
  <2>8. PushedTo(p, e)' # {} => HasRow(db, p, e)
    <3>1. CASE tx.op = "push" /\ tx.p = p /\ tx.e = e
      BY <2>2, <3>1
    <3>2. CASE ~(tx.op = "push" /\ tx.p = p /\ tx.e = e)
      BY <1>5, <2>5, <3>2
    <3> QED BY <3>1, <3>2
  <2>9. ClaimedBy(p, e)' # {} => HasRow(db, p, e)
    <3>1. CASE tx.op = "claim" /\ tx.p = p /\ tx.e = e
      BY <2>4, <3>1
    <3>2. CASE ~(tx.op = "claim" /\ tx.p = p /\ tx.e = e)
      BY <1>5, <2>5, <3>2
    <3> QED BY <3>1, <3>2
  <2>10. \A w \in ClaimedBy(p, e)' : <<p, e, w>> \in db.leaves
    <3>1. CASE tx.op = "claim" /\ tx.p = p /\ tx.e = e
      BY <1>5, <2>3, <2>5, <3>1
    <3>2. CASE ~(tx.op = "claim" /\ tx.p = p /\ tx.e = e)
      BY <1>5, <2>5, <3>2
    <3> QED BY <3>1, <3>2
  <2> QED BY <2>6, <2>7, <2>8, <2>9, <2>10
<1>14. DbShape(db)'
  BY <1>1 DEF DbShape
<1>15. DbTrue(db)'
  BY <1>8, <1>9, <1>10, <1>11, <1>12 DEF DbTrue
<1> QED BY <1>2, <1>13, <1>14, <1>15 DEF RowsInv

-----------------------------------------------------------------------------
(***************************************************************************)
(* The writes.  Each keeps the database d true and only adds to it.        *)
(***************************************************************************)
Sound(d) == DbShape(d) /\ DbTrue(d) /\ KeeperKnows(d)

Grows(d, n) ==
  /\ d.pools \subseteq n.pools /\ d.damm \subseteq n.damm
  /\ d.trades \subseteq n.trades /\ d.moves \subseteq n.moves
  /\ d.payouts \subseteq n.payouts
  /\ d.leaves \subseteq n.leaves /\ d.claimed \subseteq n.claimed
  /\ DOMAIN d.epochs \subseteq DOMAIN n.epochs
  /\ \A x \in DOMAIN d.epochs : d.epochs[x].finalized => n.epochs[x].finalized

\* Growing is reflexive and transitive.
LEMMA GrowsBoth ==
  /\ \A d : Grows(d, d)
  /\ \A d, m, n : Grows(d, m) /\ Grows(m, n) => Grows(d, n)
  BY DEF Grows

\* What the keeper relies on stays in a database that only grows.
LEMMA KeeperStillKnows ==
  ASSUME NEW d, NEW n, KeeperKnows(d), Grows(d, n)
  PROVE  KeeperKnows(n)
<1> SUFFICES ASSUME NEW p \in DbcPools, NEW e \in EpochIds
             PROVE  /\ Opened(p, e) => p \in n.pools
                    /\ Finalized(p, e) \/ PushedTo(p, e) # {} \/ ClaimedBy(p, e) # {} => HasRow(n, p, e)
                    /\ \A w \in ClaimedBy(p, e) : <<p, e, w>> \in n.leaves
  BY DEF KeeperKnows
<1>1. /\ Opened(p, e) => p \in d.pools
      /\ Finalized(p, e) \/ PushedTo(p, e) # {} \/ ClaimedBy(p, e) # {} => HasRow(d, p, e)
      /\ \A w \in ClaimedBy(p, e) : <<p, e, w>> \in d.leaves
  BY DEF KeeperKnows
<1>2. d.pools \subseteq n.pools /\ d.leaves \subseteq n.leaves
  BY DEF Grows
<1>3. HasRow(d, p, e) => HasRow(n, p, e)
  BY DEF Grows, HasRow
<1> QED BY <1>1, <1>2, <1>3

\* Pools that are launched may be added, whoever adds them.
LEMMA PoolsAdded ==
  ASSUME NEW d, Sound(d), NEW X \in SUBSET DbcPools, \A p \in X : Launched(p),
         NEW n, n = [d EXCEPT !.pools = @ \cup X]
  PROVE  Sound(n) /\ Grows(d, n)
<1>1. DbShape(d) /\ DbTrue(d) /\ KeeperKnows(d)
  BY DEF Sound
<1>2. DbShape(n)
  BY <1>1 DEF DbShape
<1>3. /\ n.pools = d.pools \cup X /\ n.damm = d.damm /\ n.trades = d.trades
      /\ n.moves = d.moves /\ n.epochs = d.epochs /\ n.payouts = d.payouts
      /\ n.leaves = d.leaves /\ n.claimed = d.claimed
  BY <1>1 DEF DbShape
<1>4. Grows(d, n)
  BY <1>3 DEF Grows
<1>5. PoolsTrue(n) /\ TradesTrue(n) /\ MovesTrue(n)
  BY <1>1, <1>3 DEF DbTrue, PoolsTrue, TradesTrue, MovesTrue
<1>6. PayoutsTrue(n) /\ LeavesTrue(n)
  BY <1>1, <1>3 DEF DbTrue, PayoutsTrue, LeavesTrue
<1>7. EpochsTrue(n)
  BY <1>1, <1>3 DEF DbTrue, EpochsTrue, HasRow, PaidRows
<1>8. DbTrue(n)
  BY <1>5, <1>6, <1>7 DEF DbTrue
<1> QED BY <1>1, <1>2, <1>4, <1>8, KeeperStillKnows DEF Sound

\* upsertPool (ingest.ts), for a pool that is launched.
LEMMA UpsertPoolSound ==
  ASSUME NEW d, Sound(d), NEW p \in DbcPools, Launched(p)
  PROVE  Sound(UpsertPool(d, p)) /\ Grows(d, UpsertPool(d, p)) /\ p \in UpsertPool(d, p).pools
<1>1. Sound(UpsertPool(d, p)) /\ Grows(d, UpsertPool(d, p))
  BY PoolsAdded DEF UpsertPool
<1>2. UpsertPool(d, p).pools = d.pools \cup {p}
  BY DEF UpsertPool, Sound, DbShape
<1> QED BY <1>1, <1>2

\* reconcilePools (backfill.ts, server.ts) finds every launched pool.
LEMMA ReconcileSound ==
  ASSUME NEW d, Sound(d)
  PROVE  /\ Sound(ReconcilePools(d)) /\ Grows(d, ReconcilePools(d))
         /\ \A p \in DbcPools : Launched(p) => p \in ReconcilePools(d).pools
<1> DEFINE X == {p \in DbcPools : Launched(p)}
<1>1. ReconcilePools(d) = [d EXCEPT !.pools = @ \cup X]
  BY DEF ReconcilePools
<1>2. X \in SUBSET DbcPools /\ \A p \in X : Launched(p)
  OBVIOUS
<1>3. ReconcilePools(d).pools = d.pools \cup X
  BY <1>1 DEF Sound, DbShape
<1>4. \A p \in DbcPools : Launched(p) => p \in X
  OBVIOUS
<1> HIDE DEF X
<1> QED BY <1>1, <1>2, <1>3, <1>4, PoolsAdded

\* The migration row of a pool, which is an update: it needs the pool.
LEMMA MigrationSound ==
  ASSUME NEW d, Sound(d), NEW p \in DbcPools
  PROVE  /\ Sound(MigrationRecorded(d, p)) /\ Grows(d, MigrationRecorded(d, p))
         /\ p \in d.pools => p \in MigrationRecorded(d, p).damm
<1>1. CASE p \notin d.pools
  BY <1>1, GrowsBoth DEF MigrationRecorded
<1>2. CASE p \in d.pools
  <2> DEFINE n == [d EXCEPT !.damm = @ \cup {p}]
  <2>1. MigrationRecorded(d, p) = n
    BY <1>2 DEF MigrationRecorded
  <2>2. DbShape(d) /\ DbTrue(d) /\ KeeperKnows(d)
    BY DEF Sound
  <2>3. DbShape(n)
    BY <2>2 DEF DbShape
  <2>4. /\ n.pools = d.pools /\ n.damm = d.damm \cup {p} /\ n.trades = d.trades
        /\ n.moves = d.moves /\ n.epochs = d.epochs /\ n.payouts = d.payouts
        /\ n.leaves = d.leaves /\ n.claimed = d.claimed
    BY <2>2 DEF DbShape
  <2> HIDE DEF n
  <2>5. Grows(d, n)
    BY <2>4 DEF Grows
  <2>6. PoolsTrue(n) /\ TradesTrue(n) /\ MovesTrue(n)
    BY <1>2, <2>2, <2>4 DEF DbTrue, PoolsTrue, TradesTrue, MovesTrue
  <2>7. PayoutsTrue(n) /\ LeavesTrue(n)
    BY <2>2, <2>4 DEF DbTrue, PayoutsTrue, LeavesTrue
  <2>8. EpochsTrue(n)
    BY <2>2, <2>4 DEF DbTrue, EpochsTrue, HasRow, PaidRows
  <2>9. DbTrue(n)
    BY <2>6, <2>7, <2>8 DEF DbTrue
  <2> QED BY <2>1, <2>2, <2>3, <2>4, <2>5, <2>9, KeeperStillKnows DEF Sound
<1> QED BY <1>1, <1>2

\* The rows a wallet's payouts of one kind make.
LEMMA PaidFinite ==
  ASSUME NEW d, DbShape(d), NEW p \in DbcPools, NEW e \in EpochIds, NEW kind \in {0, 1}
  PROVE  IsFiniteSet(PaidRows(d, p, e, kind)) /\ Cardinality(PaidRows(d, p, e, kind)) \in Nat
<1> DEFINE S == {w \in Holders : <<p, e, w, kind>> \in d.payouts}
           f == [w \in S |-> <<p, e, w, kind>>]
<1>1. d.payouts \subseteq DbcPools \X EpochIds \X Holders \X {0, 1}
  BY DEF DbShape
<1>2. f \in [S -> PaidRows(d, p, e, kind)]
  BY DEF PaidRows
<1>3. \A y \in PaidRows(d, p, e, kind) : \E w \in S : f[w] = y
  BY <1>1 DEF PaidRows
<1>4. f \in Surjection(S, PaidRows(d, p, e, kind))
  BY <1>2, <1>3 DEF Surjection
<1>5. IsFiniteSet(S)
  BY FiniteHolders
<1> HIDE DEF S, f
<1>6. IsFiniteSet(PaidRows(d, p, e, kind))
  BY <1>4, <1>5, FS_Surjection
<1> QED BY <1>6, FS_CardinalityType

\* A table of epochs has rows of epochs.
LEMMA EpochRows ==
  ASSUME NEW T \in EpochTables
  PROVE  /\ DOMAIN T \subseteq DbcPools \X EpochIds
         /\ \A x \in DOMAIN T : T[x] \in EpochRow
  BY DEF EpochTables

\* A write to the epochs alone need only keep what they say true.
LEMMA EpochsWritten ==
  ASSUME NEW d, Sound(d), NEW T \in EpochTables, DOMAIN d.epochs \subseteq DOMAIN T,
         \A x \in DOMAIN d.epochs : d.epochs[x].finalized => T[x].finalized,
         NEW n, n = [d EXCEPT !.epochs = T], EpochsTrue(n)
  PROVE  Sound(n) /\ Grows(d, n)
<1>1. DbShape(d) /\ DbTrue(d) /\ KeeperKnows(d)
  BY DEF Sound
<1>2. DbShape(n)
  BY <1>1 DEF DbShape
<1>3. /\ n.pools = d.pools /\ n.damm = d.damm /\ n.trades = d.trades
      /\ n.moves = d.moves /\ n.epochs = T /\ n.payouts = d.payouts
      /\ n.leaves = d.leaves /\ n.claimed = d.claimed
  BY <1>1 DEF DbShape
<1>4. Grows(d, n)
  BY <1>3 DEF Grows
<1>5. PoolsTrue(n) /\ TradesTrue(n) /\ MovesTrue(n)
  BY <1>1, <1>3 DEF DbTrue, PoolsTrue, TradesTrue, MovesTrue
<1>6. PayoutsTrue(n) /\ LeavesTrue(n)
  BY <1>1, <1>3 DEF DbTrue, PayoutsTrue, LeavesTrue
<1>7. DbTrue(n)
  BY <1>5, <1>6 DEF DbTrue
<1> QED BY <1>1, <1>2, <1>4, <1>7, KeeperStillKnows DEF Sound

\* Without a row there is no claim: the keeper wrote it before the push and the
\* finalize that a claim needs.
LEMMA UpsertEpochSound ==
  ASSUME NEW d, Sound(d), NEW p \in DbcPools, NEW e \in EpochIds, Opened(p, e), p \in d.pools
  PROVE  /\ Sound(UpsertEpoch(d, p, e)) /\ Grows(d, UpsertEpoch(d, p, e))
         /\ HasRow(UpsertEpoch(d, p, e), p, e)
<1>1. CASE HasRow(d, p, e)
  BY <1>1, GrowsBoth DEF UpsertEpoch
<1>2. CASE ~HasRow(d, p, e)
  <2> DEFINE T == [x \in DOMAIN d.epochs \cup {<<p, e>>} |->
                    IF x \in DOMAIN d.epochs THEN d.epochs[x] ELSE NewEpoch]
             n == [d EXCEPT !.epochs = T]
  <2>1. UpsertEpoch(d, p, e) = n
    BY <1>2 DEF UpsertEpoch
  <2>2. DbShape(d) /\ DbTrue(d) /\ KeeperKnows(d) /\ d.epochs \in EpochTables
    BY DEF Sound, DbShape
  <2>3. /\ DOMAIN T = {<<p, e>>} \cup DOMAIN d.epochs /\ T[<<p, e>>] = NewEpoch
        /\ \A x \in DOMAIN d.epochs : T[x] = d.epochs[x]
        /\ T = [x \in {<<p, e>>} \cup DOMAIN d.epochs |-> T[x]]
    BY <1>2 DEF HasRow
  <2> HIDE DEF T
  <2>4. T \in EpochTables
    <3>1. DOMAIN d.epochs \subseteq DbcPools \X EpochIds /\ \A x \in DOMAIN d.epochs : d.epochs[x] \in EpochRow
      BY <2>2, EpochRows
    <3>2. NewEpoch \in EpochRow
      BY DEF NewEpoch, EpochRow
    <3>3. \A x \in DOMAIN T : T[x] \in EpochRow
      BY <2>3, <3>1, <3>2
    <3>4. DOMAIN T \in SUBSET (DbcPools \X EpochIds)
      BY <2>3, <3>1
    <3>5. T \in [DOMAIN T -> EpochRow]
      BY <2>3, <3>3
    <3> QED BY <3>4, <3>5 DEF EpochTables
  <2>5. n.epochs = T /\ n.pools = d.pools /\ n.payouts = d.payouts
    BY <2>2 DEF DbShape
  <2>6. \A k \in {0, 1} : Cardinality(PaidRows(d, p, e, k)) \in Nat
    BY <2>2, PaidFinite
  <2>7. PaidRows(d, p, e, 1) = {}
    <3> SUFFICES ASSUME NEW y \in PaidRows(d, p, e, 1) PROVE FALSE
      OBVIOUS
    <3>1. y \in DbcPools \X EpochIds \X Holders \X {0, 1} /\ y \in d.payouts
          /\ y[1] = p /\ y[2] = e /\ y[4] = 1
      BY <2>2 DEF PaidRows, DbShape
    <3>2. PICK w \in Holders : y = <<p, e, w, 1>>
      BY <3>1
    <3>3. w \in ClaimedBy(p, e)
      BY <2>2, <3>1, <3>2 DEF DbTrue, PayoutsTrue
    <3> QED BY <1>2, <2>2, <3>3 DEF KeeperKnows
  <2> HIDE DEF n
  <2>8. EpochsTrue(n)
    <3> SUFFICES ASSUME NEW q \in DbcPools, NEW f \in EpochIds, <<q, f>> \in DOMAIN T
                 PROVE  /\ Opened(q, f) /\ q \in d.pools
                        /\ T[<<q, f>>].claimed = Cardinality(PaidRows(d, q, f, 1))
                        /\ T[<<q, f>>].finalized =>
                             Finalized(q, f) /\ T[<<q, f>>].pushed = Cardinality(PushedTo(q, f))
                        /\ ~T[<<q, f>>].finalized =>
                             T[<<q, f>>].pushed <= Cardinality(PaidRows(d, q, f, 0))
      BY <2>5 DEF EpochsTrue, HasRow, PaidRows
    <3>1. CASE q = p /\ f = e
      <4>1. T[<<q, f>>] = NewEpoch
        BY <2>3, <3>1
      <4>2. Cardinality(PaidRows(d, q, f, 1)) = 0 /\ Cardinality(PaidRows(d, q, f, 0)) \in Nat
        BY <2>6, <2>7, <3>1, FS_EmptySet
      <4> QED BY <3>1, <4>1, <4>2 DEF NewEpoch
    <3>2. CASE <<q, f>> # <<p, e>>
      <4>1. T[<<q, f>>] = d.epochs[<<q, f>>] /\ HasRow(d, q, f)
        BY <2>3, <3>2 DEF HasRow
      <4> QED BY <2>2, <4>1 DEF DbTrue, EpochsTrue
    <3> QED BY <3>1, <3>2
  <2>9. n = [d EXCEPT !.epochs = T]
    BY DEF n
  <2>10. Sound(n) /\ Grows(d, n)
    BY <2>3, <2>4, <2>8, <2>9, EpochsWritten
  <2>11. HasRow(n, p, e)
    BY <2>3, <2>5 DEF HasRow
  <2> QED BY <2>1, <2>10, <2>11
<1> QED BY <1>1, <1>2

\* EpochFinalized (ingest.ts): the row gets what the chain paid in pushes.
LEMMA FinalizeRowSound ==
  ASSUME NEW d, Sound(d), NEW p \in DbcPools, NEW e \in EpochIds, ChainInv,
         Finalized(p, e), NEW pushed, pushed = Cardinality(PushedTo(p, e))
  PROVE  LET n == FinalizeRow(d, p, e, pushed)
         IN Sound(n) /\ Grows(d, n) /\ n.epochs[<<p, e>>].finalized
<1> DEFINE T == [d.epochs EXCEPT ![<<p, e>>].finalized = TRUE, ![<<p, e>>].pushed = pushed]
           n == [d EXCEPT !.epochs = T]
<1>1. DbShape(d) /\ DbTrue(d) /\ KeeperKnows(d) /\ d.epochs \in EpochTables
  BY DEF Sound, DbShape
<1>2. HasRow(d, p, e)
  BY <1>1 DEF KeeperKnows
<1>3. FinalizeRow(d, p, e, pushed) = n
  BY <1>2 DEF FinalizeRow
<1>4. pushed \in Nat
  BY PushedHolders, FiniteHolders
<1>5. DOMAIN d.epochs \in SUBSET (DbcPools \X EpochIds) /\ \A x \in DOMAIN d.epochs : d.epochs[x] \in EpochRow
  BY <1>1, EpochRows
<1>6. d.epochs \in [DOMAIN d.epochs -> EpochRow]
  BY <1>1, <1>5 DEF EpochTables
<1>7. /\ DOMAIN T = DOMAIN d.epochs
      /\ \A x \in DOMAIN d.epochs : x # <<p, e>> => T[x] = d.epochs[x]
      /\ T[<<p, e>>].finalized = TRUE /\ T[<<p, e>>].pushed = pushed
      /\ T[<<p, e>>].claimed = d.epochs[<<p, e>>].claimed
      /\ T \in [DOMAIN d.epochs -> EpochRow]
  BY <1>2, <1>4, <1>6 DEF HasRow, EpochRow
<1>8. T \in EpochTables
  BY <1>5, <1>7 DEF EpochTables
<1>9. n.epochs = T /\ n.pools = d.pools /\ n.payouts = d.payouts
  BY <1>1 DEF DbShape
<1>10. n = [d EXCEPT !.epochs = T]
  OBVIOUS
<1> HIDE DEF T, n
<1>11. EpochsTrue(n)
  <2> SUFFICES ASSUME NEW q \in DbcPools, NEW f \in EpochIds, <<q, f>> \in DOMAIN T
               PROVE  /\ Opened(q, f) /\ q \in d.pools
                      /\ T[<<q, f>>].claimed = Cardinality(PaidRows(d, q, f, 1))
                      /\ T[<<q, f>>].finalized =>
                           Finalized(q, f) /\ T[<<q, f>>].pushed = Cardinality(PushedTo(q, f))
                      /\ ~T[<<q, f>>].finalized =>
                           T[<<q, f>>].pushed <= Cardinality(PaidRows(d, q, f, 0))
    BY <1>9 DEF EpochsTrue, HasRow, PaidRows
  <2>1. HasRow(d, q, f)
    BY <1>7 DEF HasRow
  <2>2. CASE q = p /\ f = e
    BY <1>1, <1>7, <2>1, <2>2 DEF DbTrue, EpochsTrue
  <2>3. CASE <<q, f>> # <<p, e>>
    <3>1. T[<<q, f>>] = d.epochs[<<q, f>>]
      BY <1>7, <2>1, <2>3 DEF HasRow
    <3> QED BY <1>1, <2>1, <3>1 DEF DbTrue, EpochsTrue
  <2> QED BY <2>2, <2>3
<1>12. \A x \in DOMAIN d.epochs : d.epochs[x].finalized => T[x].finalized
  BY <1>7
<1>13. Sound(n) /\ Grows(d, n)
  BY <1>7, <1>8, <1>10, <1>11, <1>12, EpochsWritten
<1> QED BY <1>3, <1>7, <1>9, <1>13

\* A payouts row more: how many rows of each kind an epoch has.
LEMMA PaidOneMore ==
  ASSUME NEW d, DbShape(d), NEW row, row \notin d.payouts,
         NEW n, n.payouts = d.payouts \cup {row},
         NEW q \in DbcPools, NEW f \in EpochIds, NEW k \in {0, 1}
  PROVE  /\ Cardinality(PaidRows(d, q, f, k)) \in Nat
         /\ Cardinality(PaidRows(n, q, f, k)) =
              Cardinality(PaidRows(d, q, f, k))
                + (IF row[1] = q /\ row[2] = f /\ row[4] = k THEN 1 ELSE 0)
<1>1. IsFiniteSet(PaidRows(d, q, f, k)) /\ Cardinality(PaidRows(d, q, f, k)) \in Nat
  BY PaidFinite
<1>2. CASE row[1] = q /\ row[2] = f /\ row[4] = k
  <2>1. PaidRows(n, q, f, k) = PaidRows(d, q, f, k) \cup {row}
    BY <1>2 DEF PaidRows
  <2>2. row \notin PaidRows(d, q, f, k)
    BY DEF PaidRows
  <2>3. Cardinality(PaidRows(d, q, f, k) \cup {row}) =
          IF row \in PaidRows(d, q, f, k) THEN Cardinality(PaidRows(d, q, f, k))
          ELSE Cardinality(PaidRows(d, q, f, k)) + 1
    BY <1>1, FS_AddElement
  <2> QED BY <1>1, <1>2, <2>1, <2>2, <2>3
<1>3. CASE ~(row[1] = q /\ row[2] = f /\ row[4] = k)
  <2>1. PaidRows(n, q, f, k) = PaidRows(d, q, f, k)
    BY <1>3 DEF PaidRows
  <2> QED BY <1>1, <1>3, <2>1
<1> QED BY <1>2, <1>3

PaidTo(p, e, kind) == IF kind = 1 THEN ClaimedBy(p, e) ELSE PushedTo(p, e)

\* The keeper pushes and serves claims of epochs whose row it has written.
LEMMA PaidHasRow ==
  ASSUME NEW d, Sound(d), NEW p \in DbcPools, NEW e \in EpochIds, NEW w \in Holders,
         NEW kind \in {0, 1}, w \in PaidTo(p, e, kind)
  PROVE  HasRow(d, p, e) /\ p \in d.pools /\ (kind = 1 => <<p, e, w>> \in d.leaves)
<1>1. HasRow(d, p, e) /\ (kind = 1 => <<p, e, w>> \in d.leaves)
  BY DEF Sound, KeeperKnows, PaidTo
<1> QED BY <1>1 DEF Sound, DbTrue, EpochsTrue

\* What the count of a Payout does to the row of its epoch.
LEMMA CountedRow ==
  ASSUME NEW row \in EpochRow, NEW kind \in {0, 1}
  PROVE  /\ Counted(row, kind) \in EpochRow
         /\ Counted(row, kind).finalized = row.finalized
         /\ Counted(row, kind).claimed = row.claimed + kind
         /\ Counted(row, kind).pushed = row.pushed + (1 - kind)
  BY DEF Counted, EpochRow

\* Payout (ingest.ts): a new payouts row and its count, together or not at all.
LEMMA PayoutSound ==
  ASSUME NEW d, Sound(d), NEW p \in DbcPools, NEW e \in EpochIds, NEW w \in Holders,
         NEW kind \in {0, 1}, w \in PaidTo(p, e, kind)
  PROVE  LET n == Payout(d, p, e, w, kind)
         IN /\ Sound(n) /\ Grows(d, n) /\ <<p, e, w, kind>> \in n.payouts
<1>1. DbShape(d) /\ DbTrue(d) /\ KeeperKnows(d)
  BY DEF Sound
<1>2. HasRow(d, p, e) /\ p \in d.pools /\ (kind = 1 => <<p, e, w>> \in d.leaves)
  BY PaidHasRow
<1>3. IndexFound(d, p, e)
  BY <1>2 DEF IndexFound
<1>4. CASE <<p, e, w, kind>> \in d.payouts
  <2>1. Payout(d, p, e, w, kind) = d
    BY <1>4 DEF Payout
  <2> QED BY <1>4, <2>1, GrowsBoth
<1>5. CASE <<p, e, w, kind>> \notin d.payouts
  <2> DEFINE row == <<p, e, w, kind>>
             counts == HasRow(d, p, e) /\ (kind = 1 \/ ~d.epochs[<<p, e>>].finalized)
             T == IF counts THEN [d.epochs EXCEPT ![<<p, e>>] = Counted(d.epochs[<<p, e>>], kind)]
                  ELSE d.epochs
             C == IF kind = 1 THEN d.claimed \cup ({<<p, e, w>>} \cap d.leaves) ELSE d.claimed
             n == [d EXCEPT !.payouts = @ \cup {row}, !.epochs = T, !.claimed = C]
  <2>1. Payout(d, p, e, w, kind) = n
    <3>1. Payout(d, p, e, w, kind) =
            IF p \notin d.pools \/ ~IndexFound(d, p, e) \/ row \in d.payouts THEN d ELSE n
      BY DEF Payout
    <3> QED BY <1>2, <1>3, <1>5, <3>1
  <2>2. d.epochs \in EpochTables /\ d.payouts \subseteq DbcPools \X EpochIds \X Holders \X {0, 1}
        /\ d.claimed \subseteq Leaves /\ d.leaves \subseteq Leaves
    BY <1>1 DEF DbShape
  <2>3. DOMAIN d.epochs \in SUBSET (DbcPools \X EpochIds) /\ \A x \in DOMAIN d.epochs : d.epochs[x] \in EpochRow
    BY <2>2, EpochRows
  <2>4. d.epochs \in [DOMAIN d.epochs -> EpochRow] /\ <<p, e>> \in DOMAIN d.epochs
    BY <1>2, <2>2, <2>3 DEF EpochTables, HasRow
  <2>5. Counted(d.epochs[<<p, e>>], kind) \in EpochRow
    BY <2>3, <2>4, CountedRow
  <2>6. /\ T \in [DOMAIN d.epochs -> EpochRow]
        /\ \A x \in DOMAIN d.epochs : x # <<p, e>> => T[x] = d.epochs[x]
        /\ T[<<p, e>>] = IF counts THEN Counted(d.epochs[<<p, e>>], kind) ELSE d.epochs[<<p, e>>]
    BY <2>4, <2>5
  <2>7. /\ T[<<p, e>>].finalized = d.epochs[<<p, e>>].finalized
        /\ T[<<p, e>>].claimed = d.epochs[<<p, e>>].claimed + kind
        /\ T[<<p, e>>].pushed = d.epochs[<<p, e>>].pushed
             + (IF kind = 0 /\ ~d.epochs[<<p, e>>].finalized THEN 1 ELSE 0)
    <3>1. d.epochs[<<p, e>>] \in EpochRow
      BY <2>3, <2>4
    <3>2. /\ d.epochs[<<p, e>>].claimed \in Nat /\ d.epochs[<<p, e>>].pushed \in Nat
          /\ d.epochs[<<p, e>>].finalized \in BOOLEAN
      BY <3>1 DEF EpochRow
    <3>3. CASE counts
      BY <1>2, <2>6, <3>1, <3>2, <3>3, CountedRow
    <3>4. CASE ~counts
      BY <1>2, <2>6, <3>2, <3>4
    <3> QED BY <3>3, <3>4
  <2>8. C \subseteq d.leaves /\ d.claimed \subseteq C /\ (kind = 1 => <<p, e, w>> \in C)
        /\ \A q \in DbcPools, f \in EpochIds, v \in Holders : <<q, f, v>> \in d.claimed => <<q, f, v>> \in C
    BY <1>1, <1>2 DEF DbTrue, LeavesTrue
  <2> HIDE DEF T, C, counts
  <2>9. DbShape(n)
    <3>1. T \in EpochTables
      BY <2>3, <2>6 DEF EpochTables
    <3>2. C \in SUBSET Leaves
      BY <2>2, <2>8
    <3>3. d.payouts \cup {row} \in SUBSET (DbcPools \X EpochIds \X Holders \X {0, 1})
      BY <2>2
    <3> HIDE DEF row
    <3> QED BY <1>1, <3>1, <3>2, <3>3 DEF DbShape
  <2>10. /\ n.pools = d.pools /\ n.damm = d.damm /\ n.trades = d.trades
         /\ n.moves = d.moves /\ n.epochs = T /\ n.payouts = d.payouts \cup {row}
         /\ n.leaves = d.leaves /\ n.claimed = C
    BY <1>1 DEF DbShape
  <2> HIDE DEF n
  <2>11. Grows(d, n)
    <3>1. \A x \in DOMAIN d.epochs : T[x].finalized = d.epochs[x].finalized
      BY <2>6, <2>7
    <3>2. DOMAIN T = DOMAIN d.epochs
      BY <2>6
    <3> QED BY <2>8, <2>10, <3>1, <3>2 DEF Grows
  <2>12. PoolsTrue(n) /\ TradesTrue(n) /\ MovesTrue(n)
    BY <1>1, <2>10 DEF DbTrue, PoolsTrue, TradesTrue, MovesTrue
  <2>13. LeavesTrue(n)
    BY <1>1, <2>8, <2>10 DEF DbTrue, LeavesTrue
  <2>14. PayoutsTrue(n)
    <3> SUFFICES ASSUME NEW q \in DbcPools, NEW f \in EpochIds, NEW v \in Holders
                 PROVE  /\ <<q, f, v, 0>> \in n.payouts => v \in PushedTo(q, f)
                        /\ <<q, f, v, 1>> \in n.payouts => v \in ClaimedBy(q, f) /\ <<q, f, v>> \in n.claimed
      BY DEF PayoutsTrue
    <3>1. /\ <<q, f, v, 0>> \in d.payouts => v \in PushedTo(q, f)
          /\ <<q, f, v, 1>> \in d.payouts => v \in ClaimedBy(q, f) /\ <<q, f, v>> \in d.claimed
      BY <1>1 DEF DbTrue, PayoutsTrue
    <3>6. w \in IF kind = 1 THEN ClaimedBy(p, e) ELSE PushedTo(p, e)
      BY DEF PaidTo
    <3>2. <<q, f, v, 0>> = row => kind = 0 /\ q = p /\ f = e /\ v = w
      OBVIOUS
    <3>3. <<q, f, v, 1>> = row => kind = 1 /\ q = p /\ f = e /\ v = w
      OBVIOUS
    <3> HIDE DEF row
    <3>4. <<q, f, v, 0>> \in n.payouts => v \in PushedTo(q, f)
      BY <2>10, <3>1, <3>2, <3>6
    <3>5. <<q, f, v, 1>> \in n.payouts => v \in ClaimedBy(q, f) /\ <<q, f, v>> \in n.claimed
      BY <2>8, <2>10, <3>1, <3>3, <3>6
    <3> QED BY <3>4, <3>5
  <2>15. EpochsTrue(n)
    <3> SUFFICES ASSUME NEW q \in DbcPools, NEW f \in EpochIds, <<q, f>> \in DOMAIN T
                 PROVE  /\ Opened(q, f) /\ q \in d.pools
                        /\ T[<<q, f>>].claimed = Cardinality(PaidRows(n, q, f, 1))
                        /\ T[<<q, f>>].finalized =>
                             Finalized(q, f) /\ T[<<q, f>>].pushed = Cardinality(PushedTo(q, f))
                        /\ ~T[<<q, f>>].finalized =>
                             T[<<q, f>>].pushed <= Cardinality(PaidRows(n, q, f, 0))
      BY <2>10 DEF EpochsTrue, HasRow
    <3>1. <<q, f>> \in DOMAIN d.epochs
      BY <2>6
    <3>2. /\ Opened(q, f) /\ q \in d.pools
          /\ d.epochs[<<q, f>>].claimed = Cardinality(PaidRows(d, q, f, 1))
          /\ d.epochs[<<q, f>>].finalized =>
               Finalized(q, f) /\ d.epochs[<<q, f>>].pushed = Cardinality(PushedTo(q, f))
          /\ ~d.epochs[<<q, f>>].finalized =>
               d.epochs[<<q, f>>].pushed <= Cardinality(PaidRows(d, q, f, 0))
      BY <1>1, <3>1 DEF DbTrue, EpochsTrue, HasRow
    <3>3. \A k \in {0, 1} :
            /\ Cardinality(PaidRows(d, q, f, k)) \in Nat
            /\ Cardinality(PaidRows(n, q, f, k)) =
                 Cardinality(PaidRows(d, q, f, k)) + (IF q = p /\ f = e /\ k = kind THEN 1 ELSE 0)
      <4>1. n.payouts = d.payouts \cup {row} /\ row \notin d.payouts
        BY <1>5, <2>10
      <4>2. row[1] = p /\ row[2] = e /\ row[4] = kind
        OBVIOUS
      <4> HIDE DEF row
      <4> TAKE k \in {0, 1}
      <4>3. /\ Cardinality(PaidRows(d, q, f, k)) \in Nat
            /\ Cardinality(PaidRows(n, q, f, k)) =
                 Cardinality(PaidRows(d, q, f, k))
                   + (IF row[1] = q /\ row[2] = f /\ row[4] = k THEN 1 ELSE 0)
        BY <1>1, <4>1, PaidOneMore
      <4> QED BY <4>2, <4>3
    <3>4. d.epochs[<<q, f>>].pushed \in Nat /\ d.epochs[<<q, f>>].claimed \in Nat
      BY <2>3, <3>1 DEF EpochRow
    <3>5. CASE q = p /\ f = e
      <4>1. CASE kind = 0
        BY <1>5, <2>7, <3>2, <3>3, <3>4, <3>5, <4>1
      <4>2. CASE kind = 1
        BY <1>5, <2>7, <3>2, <3>3, <3>4, <3>5, <4>2
      <4> QED BY <4>1, <4>2
    <3>6. CASE ~(q = p /\ f = e)
      <4>1. T[<<q, f>>] = d.epochs[<<q, f>>]
        BY <2>6, <3>1, <3>6
      <4> QED BY <3>2, <3>3, <3>4, <3>6, <4>1
    <3> QED BY <3>5, <3>6
  <2>16. DbTrue(n)
    BY <2>12, <2>13, <2>14, <2>15 DEF DbTrue
  <2>17. KeeperKnows(n)
    BY <1>1, <2>11, KeeperStillKnows
  <2> QED BY <2>1, <2>9, <2>10, <2>11, <2>16, <2>17 DEF Sound
<1> QED BY <1>4, <1>5

\* What a transaction does to a balance is an integer.
LEMMA DeltaInt == \A tx, p, w : Delta(tx, p, w) \in Int
  BY DEF Delta

\* A trade per key and not more.
LEMMA WriteSwapsSound ==
  ASSUME NEW d, Sound(d), ChainInv, NEW t \in DOMAIN log,
         NEW order \in SetToSeqs(SwappedPools(d, log[t]))
  PROVE  LET n == WriteSwaps(d, t, order)
         IN /\ Sound(n) /\ Grows(d, n)
            /\ n.moves = d.moves /\ n.balances = d.balances /\ n.pools = d.pools
<1> DEFINE S == SwappedPools(d, log[t])
           new == {[sig |-> t, i |-> i, pool |-> order[i]] : i \in DOMAIN order}
           X == {r \in new : \A s \in d.trades : <<s.sig, s.i>> # <<r.sig, r.i>>}
           n == [d EXCEPT !.trades = @ \cup X]
<1>1. WriteSwaps(d, t, order) = n
  BY DEF WriteSwaps
<1>2. order \in [1..Cardinality(S) -> S]
  BY DEF SetToSeqs
<1>3. DbShape(d) /\ DbTrue(d) /\ KeeperKnows(d) /\ d.pools \subseteq DbcPools
  BY DEF Sound, DbShape
<1>4. S \subseteq d.pools /\ S \subseteq Legs(log[t])
  BY DEF SwappedPools
<1>5. t \in Nat
  BY LogLength
<1>6. \A r \in X : r \in [sig : Nat, i : Nat, pool : DbcPools] /\ r.sig = t /\ r.pool \in S
  <2> HIDE DEF S
  <2> SUFFICES ASSUME NEW i \in DOMAIN order
               PROVE  LET r == [sig |-> t, i |-> i, pool |-> order[i]]
                      IN r \in [sig : Nat, i : Nat, pool : DbcPools] /\ r.sig = t /\ r.pool \in S
    OBVIOUS
  <2>1. i \in Nat /\ order[i] \in S /\ S \subseteq DbcPools
    BY <1>2, <1>3, <1>4
  <2> QED BY <1>5, <2>1
<1> HIDE DEF S, X
<1>7. DbShape(n)
  BY <1>3, <1>6 DEF DbShape
<1>8. /\ n.pools = d.pools /\ n.damm = d.damm /\ n.trades = d.trades \cup X
      /\ n.moves = d.moves /\ n.epochs = d.epochs /\ n.payouts = d.payouts
      /\ n.leaves = d.leaves /\ n.claimed = d.claimed /\ n.balances = d.balances
  BY <1>3 DEF DbShape
<1> HIDE DEF n
<1>9. Grows(d, n)
  BY <1>8 DEF Grows
<1>10. TradesTrue(n)
  BY <1>3, <1>4, <1>6, <1>8 DEF DbTrue, TradesTrue
<1>11. PoolsTrue(n) /\ MovesTrue(n) /\ PayoutsTrue(n) /\ LeavesTrue(n)
  BY <1>3, <1>8 DEF DbTrue, PoolsTrue, MovesTrue, PayoutsTrue, LeavesTrue
<1>12. EpochsTrue(n)
  BY <1>3, <1>8 DEF DbTrue, EpochsTrue, HasRow, PaidRows
<1>13. DbTrue(n)
  BY <1>10, <1>11, <1>12 DEF DbTrue
<1> QED BY <1>1, <1>3, <1>7, <1>8, <1>9, <1>13, KeeperStillKnows DEF Sound

\* Moves not recorded yet, and what they add to the balances.
NewMoves(d, t) == {x \in {t} \X d.pools \X Holders : Delta(log[t], x[2], x[3]) # 0} \ d.moves

\* writeBalanceDeltas (ingest.ts) applies the moves it has not recorded, and only those.
LEMMA WriteDeltasSound ==
  ASSUME NEW d, Sound(d), ChainInv, NEW t \in DOMAIN log
  PROVE  LET n == WriteBalanceDeltas(d, t)
         IN /\ Sound(n) /\ Grows(d, n)
            /\ n.moves = d.moves \cup NewMoves(d, t)
            /\ n.balances = [x \in DbcPools \X Holders |-> d.balances[x] +
                 (IF <<t, x[1], x[2]>> \in NewMoves(d, t) THEN Delta(log[t], x[1], x[2]) ELSE 0)]
            /\ n.pools = d.pools /\ n.trades = d.trades
<1> DEFINE X == NewMoves(d, t)
           B == [x \in DOMAIN d.balances |-> d.balances[x] +
                  (IF <<t, x[1], x[2]>> \in X THEN Delta(log[t], x[1], x[2]) ELSE 0)]
           n == [d EXCEPT !.moves = @ \cup X, !.balances = B]
<1>1. WriteBalanceDeltas(d, t) = n
  BY DEF WriteBalanceDeltas, NewMoves
<1>2. DbShape(d) /\ DbTrue(d) /\ KeeperKnows(d) /\ d.pools \subseteq DbcPools
  BY DEF Sound, DbShape
<1>3. d.balances \in [DbcPools \X Holders -> Int]
  BY <1>2 DEF DbShape
<1>4. X \in SUBSET (Nat \X DbcPools \X Holders) /\ \A x \in X : x[1] \in DOMAIN log /\ x[2] \in d.pools
  <2>1. t \in Nat
    BY LogLength
  <2> QED BY <1>2, <2>1 DEF NewMoves
<1>5. B = [x \in DbcPools \X Holders |-> d.balances[x] +
            (IF <<t, x[1], x[2]>> \in X THEN Delta(log[t], x[1], x[2]) ELSE 0)]
  BY <1>3
<1>6. B \in [DbcPools \X Holders -> Int]
  BY <1>3, <1>5, DeltaInt
<1> HIDE DEF X, B
<1>7. DbShape(n)
  BY <1>2, <1>4, <1>6 DEF DbShape
<1>8. /\ n.pools = d.pools /\ n.damm = d.damm /\ n.trades = d.trades
      /\ n.moves = d.moves \cup X /\ n.epochs = d.epochs /\ n.payouts = d.payouts
      /\ n.leaves = d.leaves /\ n.claimed = d.claimed /\ n.balances = B
  BY <1>2 DEF DbShape
<1> HIDE DEF n
<1>9. Grows(d, n)
  BY <1>8 DEF Grows
<1>10. MovesTrue(n)
  BY <1>2, <1>4, <1>8 DEF DbTrue, MovesTrue
<1>11. PoolsTrue(n) /\ TradesTrue(n) /\ PayoutsTrue(n) /\ LeavesTrue(n)
  BY <1>2, <1>8 DEF DbTrue, PoolsTrue, TradesTrue, PayoutsTrue, LeavesTrue
<1>12. EpochsTrue(n)
  BY <1>2, <1>8 DEF DbTrue, EpochsTrue, HasRow, PaidRows
<1>13. DbTrue(n)
  BY <1>10, <1>11, <1>12 DEF DbTrue
<1>14. Sound(n)
  BY <1>2, <1>7, <1>9, <1>13, KeeperStillKnows DEF Sound
<1> QED BY <1>1, <1>5, <1>8, <1>9, <1>14 DEF X

\* The rows the event of a transaction stands for.
EventApplied(tx, d) ==
  /\ tx.op = "launch" => tx.p \in d.pools
  /\ tx.op = "record" /\ tx.p \in d.pools => tx.p \in d.damm
  /\ tx.op = "open" => HasRow(d, tx.p, tx.e)
  /\ tx.op = "push" => <<tx.p, tx.e, tx.w, 0>> \in d.payouts
  /\ tx.op = "claim" => <<tx.p, tx.e, tx.w, 1>> \in d.payouts
  /\ tx.op = "finalize" => d.epochs[<<tx.p, tx.e>>].finalized

\* applyEvent (ingest.ts), over all events of a transaction.
LEMMA EventsSound ==
  ASSUME NEW d, Sound(d), ChainInv, NEW t \in DOMAIN log
  PROVE  LET n == ApplyEvents(d, log[t])
         IN Sound(n) /\ Grows(d, n) /\ EventApplied(log[t], n)
<1> DEFINE tx == log[t]
           n == ApplyEvents(d, tx)
<1>1. tx \in AnyTx
  BY DEF ChainInv
<1>2. d.pools \subseteq DbcPools
  BY DEF Sound, DbShape
<1>3. CASE tx.op = "launch"
  <2>1. tx.p \in DbcPools /\ Launched(tx.p)
    BY <1>1, <1>3 DEF AnyTx, Launched, Txs
  <2>2. n = IF tx.cut THEN ReconcilePools(d) ELSE UpsertPool(d, tx.p)
    BY <1>3 DEF ApplyEvents
  <2> QED BY <1>3, <2>1, <2>2, ReconcileSound, UpsertPoolSound DEF EventApplied
<1>4. CASE tx.op = "record"
  <2>1. tx.p \in DbcPools
    BY <1>1, <1>4 DEF AnyTx
  <2>2. n = MigrationRecorded(d, tx.p)
    BY <1>4 DEF ApplyEvents
  <2>3. n.pools = d.pools
    BY <2>2 DEF MigrationRecorded, Sound, DbShape
  <2> HIDE DEF n
  <2> QED BY <1>4, <2>1, <2>2, <2>3, MigrationSound DEF EventApplied, n
<1>5. CASE tx.op = "open"
  <2>1. tx.p \in DbcPools /\ tx.e \in EpochIds
    BY <1>1, <1>5 DEF AnyTx
  <2>2. Opened(tx.p, tx.e)
    BY <1>5 DEF Opened, EpochTxs, Txs
  <2>3. tx.p \in d.pools
    BY <2>1, <2>2 DEF Sound, KeeperKnows
  <2>4. n = UpsertEpoch(d, tx.p, tx.e)
    BY <1>5, <2>3 DEF ApplyEvents
  <2> QED BY <1>5, <2>1, <2>2, <2>3, <2>4, UpsertEpochSound DEF EventApplied
<1>6. CASE tx.op = "push"
  <2>1. tx.p \in DbcPools /\ tx.e \in EpochIds /\ tx.w \in Holders
    BY <1>1, <1>6 DEF AnyTx
  <2>2. tx.w \in PaidTo(tx.p, tx.e, 0)
    BY <1>6 DEF PaidTo, PushedTo, EpochTxs, Txs
  <2>3. n = Payout(d, tx.p, tx.e, tx.w, 0)
    BY <1>6 DEF ApplyEvents
  <2>4. Sound(n) /\ Grows(d, n) /\ <<tx.p, tx.e, tx.w, 0>> \in n.payouts
    BY <2>1, <2>2, <2>3, PayoutSound
  <2> QED BY <1>6, <2>4 DEF EventApplied
<1>7. CASE tx.op = "claim"
  <2>1. tx.p \in DbcPools /\ tx.e \in EpochIds /\ tx.w \in Holders
    BY <1>1, <1>7 DEF AnyTx
  <2>2. tx.w \in PaidTo(tx.p, tx.e, 1)
    BY <1>7 DEF PaidTo, ClaimedBy, EpochTxs, Txs
  <2>3. n = Payout(d, tx.p, tx.e, tx.w, 1)
    BY <1>7 DEF ApplyEvents
  <2>4. Sound(n) /\ Grows(d, n) /\ <<tx.p, tx.e, tx.w, 1>> \in n.payouts
    BY <2>1, <2>2, <2>3, PayoutSound
  <2> QED BY <1>7, <2>4 DEF EventApplied
<1>8. CASE tx.op = "finalize"
  <2>1. tx.p \in DbcPools /\ tx.e \in EpochIds
    BY <1>1, <1>8 DEF AnyTx
  <2>2. t \in EpochTxs("finalize", tx.p, tx.e)
    BY <1>8 DEF EpochTxs, Txs
  <2>3. tx.remainder = Cardinality(InRoot(tx.p, tx.e)) /\ Finalized(tx.p, tx.e)
    BY <2>1, <2>2 DEF ChainInv, RemaindersTrue, Finalized
  <2>4. Cardinality(Holders) - tx.remainder = Cardinality(PushedTo(tx.p, tx.e))
    <3>1. IsFiniteSet(Holders) /\ Cardinality(Holders) \in Nat
      BY FiniteHolders
    <3>2. PushedTo(tx.p, tx.e) \subseteq Holders
      BY <2>1, PushedHolders
    <3>3. Cardinality(InRoot(tx.p, tx.e)) =
            Cardinality(Holders) - Cardinality(Holders \cap PushedTo(tx.p, tx.e))
      BY <3>1, FS_Difference DEF InRoot
    <3>4. Holders \cap PushedTo(tx.p, tx.e) = PushedTo(tx.p, tx.e)
      BY <3>2
    <3>5. Cardinality(PushedTo(tx.p, tx.e)) \in Nat
      BY <3>2, FiniteHolders
    <3>6. tx.remainder = Cardinality(Holders) - Cardinality(PushedTo(tx.p, tx.e))
      BY <2>3, <3>3, <3>4
    <3> HIDE DEF tx
    <3> QED BY <3>1, <3>5, <3>6
  <2>5. n = FinalizeRow(d, tx.p, tx.e, Cardinality(Holders) - tx.remainder)
    BY <1>8 DEF ApplyEvents
  <2>6. Sound(n) /\ Grows(d, n) /\ n.epochs[<<tx.p, tx.e>>].finalized
    BY <2>1, <2>3, <2>4, <2>5, FinalizeRowSound
  <2> QED BY <1>8, <2>6 DEF EventApplied
<1>9. CASE tx.op \notin {"launch", "record", "open", "push", "claim", "finalize"}
  <2>1. n = d
    BY <1>9 DEF ApplyEvents
  <2> QED BY <1>9, <2>1, GrowsBoth DEF EventApplied
<1> QED BY <1>3, <1>4, <1>5, <1>6, <1>7, <1>8, <1>9

\* The savepoint of one transaction, write by write.
LEMMA IngestWrites ==
  ASSUME NEW d, Sound(d), ChainInv, NEW t \in DOMAIN log, NEW logged \in BOOLEAN,
         NEW n \in Ingested(d, t, logged)
  PROVE  \E k, m, order :
           /\ k = IF logged THEN ApplyEvents(d, log[t]) ELSE d
           /\ Sound(k) /\ Grows(d, k) /\ (logged => EventApplied(log[t], k))
           /\ order \in SetToSeqs(SwappedPools(k, log[t]))
           /\ m = WriteSwaps(k, t, order) /\ Sound(m) /\ Grows(k, m)
           /\ n = WriteBalanceDeltas(m, t) /\ Sound(n) /\ Grows(m, n)
<1> DEFINE k == IF logged THEN ApplyEvents(d, log[t]) ELSE d
<1>1. PICK order \in SetToSeqs(SwappedPools(k, log[t])) :
        n = WriteBalanceDeltas(WriteSwaps(k, t, order), t)
  BY DEF Ingested
<1>2. Sound(k) /\ Grows(d, k) /\ (logged => EventApplied(log[t], k))
  BY EventsSound, GrowsBoth
<1> HIDE DEF k
<1> DEFINE m == WriteSwaps(k, t, order)
<1>3. Sound(m) /\ Grows(k, m)
  BY <1>2, WriteSwapsSound
<1> HIDE DEF m
<1>4. n = WriteBalanceDeltas(m, t)
  BY <1>1 DEF m
<1>5. Sound(n) /\ Grows(m, n)
  BY <1>3, <1>4, WriteDeltasSound
<1>6. order \in SetToSeqs(SwappedPools(k, log[t])) /\ m = WriteSwaps(k, t, order)
  BY <1>1 DEF m
<1>7. k = IF logged THEN ApplyEvents(d, log[t]) ELSE d
  BY DEF k
<1> QED BY <1>2, <1>3, <1>4, <1>5, <1>6, <1>7

\* ingestTransaction (ingest.ts), whether it throws or not.
LEMMA IngestSound ==
  ASSUME NEW d, Sound(d), ChainInv, NEW t \in DOMAIN log, NEW logged \in BOOLEAN,
         NEW n \in Ingest(d, t, logged)
  PROVE  Sound(n) /\ Grows(d, n)
<1>1. CASE n = d
  BY <1>1, GrowsBoth
<1>2. CASE n \in Ingested(d, t, logged)
  BY <1>2, IngestWrites, GrowsBoth
<1> QED BY <1>1, <1>2 DEF Ingest

\* The keeper's own rows follow the chain.
LEMMA KeeperPayoutSound ==
  ASSUME NEW d, Sound(d), NEW p \in DbcPools, NEW e \in EpochIds, NEW w \in PushedTo(p, e),
         ChainInv, NEW n, n = [d EXCEPT !.payouts = @ \cup {<<p, e, w, 0>>}]
  PROVE  Sound(n) /\ Grows(d, n)
<1> DEFINE row == <<p, e, w, 0>>
<1>1. DbShape(d) /\ DbTrue(d) /\ KeeperKnows(d) /\ w \in Holders
  BY PushedHolders DEF Sound
<1>2. row \in DbcPools \X EpochIds \X Holders \X {0, 1}
  BY <1>1
<1>3. row[1] = p /\ row[2] = e /\ row[4] = 0
  OBVIOUS
<1>4. \A q, f, v : (row = <<q, f, v, 0>> => q = p /\ f = e /\ v = w) /\ row # <<q, f, v, 1>>
  OBVIOUS
<1>5. n = [d EXCEPT !.payouts = @ \cup {row}]
  OBVIOUS
<1> HIDE DEF row
<1>6. DbShape(n)
  BY <1>1, <1>2, <1>5 DEF DbShape
<1>7. /\ n.pools = d.pools /\ n.damm = d.damm /\ n.trades = d.trades
      /\ n.moves = d.moves /\ n.epochs = d.epochs /\ n.payouts = d.payouts \cup {row}
      /\ n.leaves = d.leaves /\ n.claimed = d.claimed
  BY <1>1, <1>5 DEF DbShape
<1>8. Grows(d, n)
  BY <1>7 DEF Grows
<1>9. PoolsTrue(n) /\ TradesTrue(n) /\ MovesTrue(n) /\ LeavesTrue(n)
  BY <1>1, <1>7 DEF DbTrue, PoolsTrue, TradesTrue, MovesTrue, LeavesTrue
<1>10. PayoutsTrue(n)
  BY <1>1, <1>4, <1>7 DEF DbTrue, PayoutsTrue
<1>11. EpochsTrue(n)
  <2> SUFFICES ASSUME NEW q \in DbcPools, NEW f \in EpochIds, HasRow(n, q, f)
               PROVE  /\ Opened(q, f) /\ q \in n.pools
                      /\ n.epochs[<<q, f>>].claimed = Cardinality(PaidRows(n, q, f, 1))
                      /\ n.epochs[<<q, f>>].finalized =>
                           Finalized(q, f) /\ n.epochs[<<q, f>>].pushed = Cardinality(PushedTo(q, f))
                      /\ ~n.epochs[<<q, f>>].finalized =>
                           n.epochs[<<q, f>>].pushed <= Cardinality(PaidRows(n, q, f, 0))
    BY DEF EpochsTrue
  <2>1. HasRow(d, q, f)
    BY <1>7 DEF HasRow
  <2>2. PaidRows(n, q, f, 1) = PaidRows(d, q, f, 1)
    BY <1>3, <1>7 DEF PaidRows
  <2>3. PaidRows(d, q, f, 0) \subseteq PaidRows(n, q, f, 0)
    BY <1>7 DEF PaidRows
  <2>4. /\ IsFiniteSet(PaidRows(n, q, f, 0)) /\ Cardinality(PaidRows(n, q, f, 0)) \in Nat
        /\ Cardinality(PaidRows(d, q, f, 0)) \in Nat
    BY <1>1, <1>6, PaidFinite
  <2>5. Cardinality(PaidRows(d, q, f, 0)) <= Cardinality(PaidRows(n, q, f, 0))
    BY <2>3, <2>4, FS_Subset
  <2>6. d.epochs[<<q, f>>].pushed \in Nat
    <3>1. d.epochs \in EpochTables /\ <<q, f>> \in DOMAIN d.epochs
      BY <1>1, <2>1 DEF DbShape, HasRow
    <3> QED BY <3>1, EpochRows DEF EpochRow
  <2>7. /\ Opened(q, f) /\ q \in d.pools
        /\ d.epochs[<<q, f>>].claimed = Cardinality(PaidRows(d, q, f, 1))
        /\ d.epochs[<<q, f>>].finalized =>
             Finalized(q, f) /\ d.epochs[<<q, f>>].pushed = Cardinality(PushedTo(q, f))
        /\ ~d.epochs[<<q, f>>].finalized =>
             d.epochs[<<q, f>>].pushed <= Cardinality(PaidRows(d, q, f, 0))
    BY <1>1, <2>1 DEF DbTrue, EpochsTrue
  <2> QED BY <1>7, <2>2, <2>4, <2>5, <2>6, <2>7
<1>12. DbTrue(n)
  BY <1>9, <1>10, <1>11 DEF DbTrue
<1> QED BY <1>1, <1>6, <1>8, <1>12, KeeperStillKnows DEF Sound

\* The leaves the keeper stores are those of the root it finalized.
LEMMA KeeperLeavesSound ==
  ASSUME NEW d, Sound(d), NEW p \in DbcPools, NEW e \in EpochIds, Finalized(p, e),
         NEW n, n = [d EXCEPT !.leaves = @ \cup ({p} \X {e} \X InRoot(p, e))]
  PROVE  Sound(n) /\ Grows(d, n)
<1> DEFINE X == {p} \X {e} \X InRoot(p, e)
<1>1. DbShape(d) /\ DbTrue(d) /\ KeeperKnows(d)
  BY DEF Sound
<1>2. X \in SUBSET Leaves
  BY DEF Leaves, InRoot
<1>3. \A q, f, v : <<q, f, v>> \in X => q = p /\ f = e /\ v \in InRoot(p, e)
  OBVIOUS
<1>4. n = [d EXCEPT !.leaves = @ \cup X]
  OBVIOUS
<1> HIDE DEF X
<1>5. DbShape(n)
  BY <1>1, <1>2, <1>4 DEF DbShape
<1>6. /\ n.pools = d.pools /\ n.damm = d.damm /\ n.trades = d.trades
      /\ n.moves = d.moves /\ n.epochs = d.epochs /\ n.payouts = d.payouts
      /\ n.leaves = d.leaves \cup X /\ n.claimed = d.claimed
  BY <1>1, <1>4 DEF DbShape
<1>7. Grows(d, n)
  BY <1>6 DEF Grows
<1>8. PoolsTrue(n) /\ TradesTrue(n) /\ MovesTrue(n) /\ PayoutsTrue(n)
  BY <1>1, <1>6 DEF DbTrue, PoolsTrue, TradesTrue, MovesTrue, PayoutsTrue
<1>9. LeavesTrue(n)
  BY <1>1, <1>3, <1>6 DEF DbTrue, LeavesTrue
<1>10. EpochsTrue(n)
  BY <1>1, <1>6 DEF DbTrue, EpochsTrue, HasRow, PaidRows
<1>11. DbTrue(n)
  BY <1>8, <1>9, <1>10 DEF DbTrue
<1> QED BY <1>1, <1>5, <1>7, <1>11, KeeperStillKnows DEF Sound

-----------------------------------------------------------------------------
(***************************************************************************)
(* Every step keeps the rows true.                                         *)
(***************************************************************************)
LEMMA SameLog ==
  ASSUME RowsInv, log' = log, Sound(db')
  PROVE  RowsInv'
<1>1. ChainInv /\ DbShape(db') /\ DbTrue(db') /\ KeeperKnows(db')
  BY DEF RowsInv, Sound
<1>2. \A op : Txs(op)' = Txs(op)
  BY DEF Txs
<1>3. \A op, p, e : EpochTxs(op, p, e)' = EpochTxs(op, p, e)
  BY <1>2 DEF EpochTxs
<1>4. \A p : Launched(p)' <=> Launched(p)
  BY <1>2 DEF Launched
<1>5. \A p, e : /\ Opened(p, e)' <=> Opened(p, e)
                /\ Finalized(p, e)' <=> Finalized(p, e)
  BY <1>3 DEF Opened, Finalized
<1>6. \A p, e : /\ PushedTo(p, e)' = PushedTo(p, e)
                /\ ClaimedBy(p, e)' = ClaimedBy(p, e)
                /\ InRoot(p, e)' = InRoot(p, e)
  BY <1>3 DEF PushedTo, ClaimedBy, InRoot
<1>7. ChainInv'
  <2>1. LaunchedFirst'
    BY <1>1, <1>2, <1>4 DEF ChainInv, LaunchedFirst
  <2>2. RemaindersTrue'
    BY <1>1, <1>3, <1>6 DEF ChainInv, RemaindersTrue
  <2> QED BY <1>1, <2>1, <2>2 DEF ChainInv
<1>8. DbShape(db)'
  BY <1>1 DEF DbShape
<1>9. PoolsTrue(db)' /\ TradesTrue(db)' /\ MovesTrue(db)'
  BY <1>1, <1>4 DEF DbTrue, PoolsTrue, TradesTrue, MovesTrue
<1>10. PayoutsTrue(db)' /\ LeavesTrue(db)'
  BY <1>1, <1>5, <1>6 DEF DbTrue, PayoutsTrue, LeavesTrue
<1>11. EpochsTrue(db)'
  BY <1>1, <1>5, <1>6 DEF DbTrue, EpochsTrue, HasRow, PaidRows
<1>12. KeeperKnows(db)'
  BY <1>1, <1>5, <1>6 DEF KeeperKnows, HasRow
<1>13. DbTrue(db)'
  BY <1>9, <1>10, <1>11 DEF DbTrue
<1> QED BY <1>7, <1>8, <1>12, <1>13 DEF RowsInv

\* An empty database says nothing that is not so.
LEMMA RowsAtStart == IndexerInit => RowsInv
<1> SUFFICES ASSUME IndexerInit PROVE RowsInv
  OBVIOUS
<1>1. log = <<>> /\ db = EmptyDb /\ DOMAIN log = {}
  BY DEF IndexerInit
<1>2. \A op, p, e : Txs(op) = {} /\ EpochTxs(op, p, e) = {}
  BY <1>1 DEF Txs, EpochTxs
<1>3. ChainInv
  BY <1>1, <1>2 DEF ChainInv, LaunchedFirst, RemaindersTrue
<1>4. \A p, e : /\ ~Opened(p, e) /\ ~Finalized(p, e)
                /\ PushedTo(p, e) = {} /\ ClaimedBy(p, e) = {}
  BY <1>2 DEF Opened, Finalized, PushedTo, ClaimedBy
<1>5. /\ db.pools = {} /\ db.damm = {} /\ db.trades = {} /\ db.moves = {}
      /\ db.epochs = <<>> /\ db.payouts = {} /\ db.leaves = {} /\ db.claimed = {}
  BY <1>1 DEF EmptyDb
<1>6. DOMAIN db.epochs = {} /\ db.epochs \in EpochTables
  <2>1. <<>> \in [{} -> EpochRow] /\ DOMAIN <<>> = {}
    OBVIOUS
  <2>2. {} \in SUBSET (DbcPools \X EpochIds)
    OBVIOUS
  <2> QED BY <1>5, <2>1, <2>2 DEF EpochTables
<1>7. DbShape(db)
  BY <1>1, <1>5, <1>6 DEF DbShape, EmptyDb
<1>8. DbTrue(db)
  BY <1>5, <1>6 DEF DbTrue, PoolsTrue, TradesTrue, MovesTrue, PayoutsTrue, LeavesTrue,
     EpochsTrue, HasRow
<1>9. KeeperKnows(db)
  BY <1>4 DEF KeeperKnows
<1> QED BY <1>3, <1>7, <1>8, <1>9 DEF RowsInv

\* The job and the cursors.
Jobs ==
  [phase : {"idle", "addresses", "list", "ingest"}, pool : DbcPools \cup {Idle.pool},
   resume : BOOLEAN, addresses : Seq(Addresses), sigs : SUBSET DOMAIN log,
   newest : Seq(Addresses \X Nat)]
JobType ==
  /\ job \in Jobs
  /\ \A i \in DOMAIN job.newest : job.newest[i][2] \in DOMAIN log
  /\ job.phase # "idle" => job.pool \in DbcPools
  /\ job.phase = "list" => job.addresses # <<>>
  /\ cursor \in [Addresses -> 0..Len(log)]

\* A backfill that does not run has the shape of one.
LEMMA IdleType ==
  /\ Idle.phase = "idle" /\ Idle.resume = FALSE /\ Idle.addresses = <<>>
  /\ Idle.sigs = {} /\ Idle.newest = <<>>
  /\ Idle = [phase |-> Idle.phase, pool |-> Idle.pool, resume |-> Idle.resume,
             addresses |-> Idle.addresses, sigs |-> Idle.sigs, newest |-> Idle.newest]
  /\ Idle \in Jobs
<1>1. /\ Idle.phase = "idle" /\ Idle.resume = FALSE /\ Idle.addresses = <<>>
      /\ Idle.sigs = {} /\ Idle.newest = <<>>
      /\ Idle = [phase |-> Idle.phase, pool |-> Idle.pool, resume |-> Idle.resume,
                 addresses |-> Idle.addresses, sigs |-> Idle.sigs, newest |-> Idle.newest]
  BY DEF Idle
<1>2. <<>> \in Seq(Addresses) /\ <<>> \in Seq(Addresses \X Nat)
  OBVIOUS
<1> QED BY <1>1, <1>2 DEF Jobs

\* Two sequences joined.
LEMMA JoinType ==
  ASSUME NEW S, NEW u \in Seq(S), NEW v \in Seq(S)
  PROVE  u \o v \in Seq(S) /\ Len(u \o v) = Len(u) + Len(v) /\ Len(u) \in Nat /\ Len(v) \in Nat
  OBVIOUS

\* The head and the tail of a sequence that has one.
LEMMA HeadTailType ==
  ASSUME NEW S, NEW u \in Seq(S), u # <<>>
  PROVE  /\ Head(u) \in S /\ Tail(u) \in Seq(S) /\ Head(u) = u[1] /\ 1 \in DOMAIN u
         /\ Len(u) # 1 => Tail(u) # <<>>
         /\ \A i \in DOMAIN Tail(u) : i + 1 \in DOMAIN u /\ Tail(u)[i] = u[i + 1]
<1>1. Len(u) \in Nat \ {0} /\ DOMAIN u = 1..Len(u) /\ u \in [1..Len(u) -> S]
  OBVIOUS
<1>2. Head(u) = u[1] /\ Head(u) \in S /\ 1 \in DOMAIN u
  BY <1>1
<1>3. Tail(u) \in Seq(S) /\ Len(Tail(u)) = Len(u) - 1
  BY <1>1
<1>4. DOMAIN Tail(u) = 1..Len(u) - 1 /\ \A i \in 1..Len(u) - 1 : Tail(u)[i] = u[i + 1]
  BY <1>1, <1>3
<1>5. Len(u) # 1 => Tail(u) # <<>>
  <2> SUFFICES ASSUME Tail(u) = <<>> PROVE Len(u) = 1
    OBVIOUS
  <2>1. Len(Tail(u)) = Len(<<>>) /\ Len(<<>>) = 0
    OBVIOUS
  <2>2. Len(u) \in Nat /\ Len(u) - 1 = 0
    BY <1>1, <1>3, <2>1
  <2> QED BY <2>2
<1> QED BY <1>1, <1>2, <1>3, <1>4, <1>5

\* The addresses addressesFor may list for a pool.
Scanned(d, p) ==
  {a \in Addresses : a[2] = p /\ (a[1] = "mint" => p \in d.pools) /\ (a[1] = "damm" => p \in d.damm)}

\* The addresses a backfill of a pool scans are the pool's, and there is at least one.
LEMMA AddressesType ==
  ASSUME RowsInv, NEW p \in DbcPools
  PROVE  AddressesFor(p) \in Seq(Scanned(db, p)) /\ AddressesFor(p) # <<>>
<1> DEFINE upper == Max({-1} \cup {x[2] : x \in {y \in DOMAIN db.epochs : y[1] = p}}) + 1
           mint == IF p \in db.pools THEN <<<<"mint", p, 0>>>> ELSE <<>>
           damm == IF p \in db.damm THEN <<<<"damm", p, 0>>>> ELSE <<>>
           epochs == {e \in EpochIds : e <= upper}
           own == <<<<"pool", p, 0>>, <<"state", p, 0>>, <<"vault", p, 0>>>>
           pages == [i \in 1..Cardinality(epochs) |-> <<"epoch", p, i - 1>>]
           S == Scanned(db, p)
<1>1. AddressesFor(p) = own \o mint \o damm \o pages
  BY DEF AddressesFor
<1>2. own \in Seq(S) /\ Len(own) = 3
  <2>1. <<"pool", p, 0>> \in S /\ <<"state", p, 0>> \in S /\ <<"vault", p, 0>> \in S
    BY DEF Addresses, Scanned
  <2> HIDE DEF S
  <2> QED BY <2>1
<1>3. mint \in Seq(S)
  <2>1. p \in db.pools => <<"mint", p, 0>> \in S
    BY DEF Addresses, Scanned
  <2> HIDE DEF S
  <2>2. p \in db.pools => <<<<"mint", p, 0>>>> \in Seq(S)
    BY <2>1
  <2>3. <<>> \in Seq(S)
    OBVIOUS
  <2> QED BY <2>2, <2>3
<1>4. damm \in Seq(S)
  <2>1. p \in db.damm => <<"damm", p, 0>> \in S
    BY DEF Addresses, Scanned
  <2> HIDE DEF S
  <2>2. p \in db.damm => <<<<"damm", p, 0>>>> \in Seq(S)
    BY <2>1
  <2>3. <<>> \in Seq(S)
    OBVIOUS
  <2> QED BY <2>2, <2>3
<1>5. pages \in Seq(S)
  <2>1. IsFiniteSet(EpochIds) /\ Cardinality(EpochIds) \in Nat
        /\ EpochIds = 0..Cardinality(EpochIds) - 1
    BY IndexerAssumption, FS_CardinalityType
  <2>2. epochs \subseteq EpochIds
    OBVIOUS
  <2> HIDE DEF epochs
  <2>3. IsFiniteSet(epochs) /\ Cardinality(epochs) <= Cardinality(EpochIds)
    BY <2>1, <2>2, FS_Subset
  <2>4. Cardinality(epochs) \in Nat
    BY <2>3, FS_CardinalityType
  <2>5. \A i \in 1..Cardinality(epochs) : <<"epoch", p, i - 1>> \in S
    <3> SUFFICES ASSUME NEW i \in 1..Cardinality(epochs) PROVE <<"epoch", p, i - 1>> \in S
      OBVIOUS
    <3>1. i - 1 \in EpochIds
      BY <2>1, <2>3, <2>4
    <3> QED BY <3>1 DEF Addresses, Scanned
  <2> HIDE DEF S
  <2> QED BY <2>4, <2>5
<1> HIDE DEF own, mint, damm, pages, S
<1>6. own \o mint \in Seq(S) /\ Len(own \o mint) = 3 + Len(mint) /\ Len(mint) \in Nat
  BY <1>2, <1>3, JoinType
<1>7. own \o mint \o damm \in Seq(S)
      /\ Len(own \o mint \o damm) = 3 + Len(mint) + Len(damm) /\ Len(damm) \in Nat
  BY <1>4, <1>6, JoinType
<1>8. own \o mint \o damm \o pages \in Seq(S)
      /\ Len(own \o mint \o damm \o pages) = 3 + Len(mint) + Len(damm) + Len(pages)
      /\ Len(pages) \in Nat
  BY <1>5, <1>7, JoinType
<1>9. Len(AddressesFor(p)) >= 3 /\ AddressesFor(p) \in Seq(S)
  BY <1>1, <1>6, <1>7, <1>8
<1> QED BY <1>9 DEF S

\* A sequence over a set is one over every larger set.
LEMMA SeqMono ==
  ASSUME NEW S, NEW T, S \subseteq T, NEW u \in Seq(S)
  PROVE  u \in Seq(T)
  OBVIOUS

\* The newest and the oldest of a set of transactions.
LEMMA NewestTx ==
  ASSUME ChainInv, NEW S \in SUBSET DOMAIN log, S # {}
  PROVE  /\ Max(S) \in S /\ \A t \in S : t <= Max(S)
         /\ Min(S) \in S /\ \A t \in S : Min(S) <= t
<1>1. S \subseteq 1..Len(log) /\ Len(log) \in Nat
  BY LogLength
<1>2. IsFiniteSet(S) /\ S \subseteq Int
  <2>1. IsFiniteSet(1..Len(log))
    BY <1>1, FS_Interval
  <2>2. IsFiniteSet(S)
    BY <1>1, <2>1, FS_Subset
  <2> QED BY <1>1, <2>2
<1>3. \E m \in S : \A t \in S : t <= m
  BY <1>2, LargestInt
<1>4. \E m \in S : \A t \in S : m <= t
  BY <1>2, SmallestInt
<1>5. Max(S) \in S /\ \A t \in S : Max(S) >= t
  BY <1>3 DEF Max
<1>6. Min(S) \in S /\ \A t \in S : Min(S) <= t
  BY <1>4 DEF Min
<1> QED BY <1>1, <1>5, <1>6

-----------------------------------------------------------------------------
(***************************************************************************)
(* The steps of IndexerNext.                                               *)
(***************************************************************************)
LEMMA WebhookSound ==
  ASSUME RowsInv, NEW t \in DOMAIN log, NEW logged \in BOOLEAN, Webhook(t, logged)
  PROVE  Sound(db') /\ Grows(db, db') /\ log' = log
  BY IngestSound DEF Webhook, RowsInv, Sound

\* The API server and the keeper, who write beside the indexer.
LEMMA WritersSound ==
  ASSUME RowsInv, Writers
  PROVE  Sound(db') /\ Grows(db, db') /\ UNCHANGED <<log, cursor, job, gaps>>
<1>1. Sound(db) /\ ChainInv
  BY DEF RowsInv, Sound
<1>2. CASE ServerReconcile
  BY <1>1, <1>2, ReconcileSound DEF ServerReconcile
<1>3. ASSUME NEW p \in DbcPools, NEW e \in EpochIds, KeeperInsertsEpoch(p, e)
      PROVE  Sound(db') /\ Grows(db, db') /\ UNCHANGED <<log, cursor, job, gaps>>
  <2>1. Opened(p, e) /\ p \in db.pools
    BY <1>1, <1>3 DEF KeeperInsertsEpoch, Sound, KeeperKnows
  <2> QED BY <1>1, <1>3, <2>1, UpsertEpochSound DEF KeeperInsertsEpoch
<1>4. ASSUME NEW p \in DbcPools, NEW e \in EpochIds, KeeperInsertsLeaves(p, e)
      PROVE  Sound(db') /\ Grows(db, db') /\ UNCHANGED <<log, cursor, job, gaps>>
  BY <1>1, <1>4, KeeperLeavesSound DEF KeeperInsertsLeaves
<1>5. ASSUME NEW p \in DbcPools, NEW e \in EpochIds, KeeperMarksFinalized(p, e)
      PROVE  Sound(db') /\ Grows(db, db') /\ UNCHANGED <<log, cursor, job, gaps>>
  BY <1>1, <1>5, FinalizeRowSound DEF KeeperMarksFinalized
<1>6. ASSUME NEW p \in DbcPools, NEW e \in EpochIds, NEW w \in Holders, KeeperRecordsPayout(p, e, w)
      PROVE  Sound(db') /\ Grows(db, db') /\ UNCHANGED <<log, cursor, job, gaps>>
  BY <1>1, <1>6, KeeperPayoutSound DEF KeeperRecordsPayout
<1>7. ASSUME NEW p \in DbcPools, KeeperMarksMigrated(p)
      PROVE  Sound(db') /\ Grows(db, db') /\ UNCHANGED <<log, cursor, job, gaps>>
  BY <1>1, <1>7, MigrationSound DEF KeeperMarksMigrated
<1> QED BY <1>2, <1>3, <1>4, <1>5, <1>6, <1>7 DEF Writers

\* Every step of the backfill (backfill.ts).
LEMMA BackfillSound ==
  ASSUME RowsInv, JobType, Backfill
  PROVE  Sound(db') /\ Grows(db, db') /\ log' = log
<1>1. Sound(db) /\ ChainInv
  BY DEF RowsInv, Sound
<1>2. ASSUME NEW p \in DbcPools, NEW resume \in BOOLEAN, BackfillStart(p, resume)
      PROVE  Sound(db') /\ Grows(db, db') /\ log' = log
  BY <1>1, <1>2, ReconcileSound DEF BackfillStart
<1>3. CASE BackfillAddresses \/ BackfillList \/ BackfillAdvance \/ BackfillDies
  BY <1>1, <1>3, GrowsBoth DEF BackfillAddresses, BackfillList, BackfillAdvance, BackfillDies
<1>4. CASE BackfillIngest \/ BackfillSkips
  <2>1. Min(job.sigs) \in DOMAIN log
    BY <1>1, <1>4, NewestTx DEF BackfillIngest, BackfillSkips, JobType, Jobs
  <2>2. \E logged \in BOOLEAN : db' \in Ingest(db, Min(job.sigs), logged)
    BY <1>4 DEF BackfillIngest, BackfillSkips, Ingest
  <2>3. log' = log
    BY <1>4 DEF BackfillIngest, BackfillSkips
  <2> QED BY <1>1, <2>1, <2>2, <2>3, IngestSound
<1> QED BY <1>2, <1>3, <1>4 DEF Backfill

\* No step leaves a row that is not true.
LEMMA RowsStep == RowsInv /\ JobType /\ [IndexerNext]_indexerVars => RowsInv'
<1> SUFFICES ASSUME RowsInv, JobType, [IndexerNext]_indexerVars PROVE RowsInv'
  OBVIOUS
<1>1. CASE TxLands
  BY <1>1, LandingKeepsRows DEF TxLands
<1>2. ASSUME NEW t \in DOMAIN log, NEW logged \in BOOLEAN, Webhook(t, logged)
      PROVE  RowsInv'
  BY <1>2, WebhookSound, SameLog
<1>3. CASE Writers
  BY <1>3, WritersSound, SameLog
<1>4. CASE Backfill
  BY <1>4, BackfillSound, SameLog
<1>5. CASE UNCHANGED indexerVars
  <2>1. log' = log /\ db' = db
    BY <1>5 DEF indexerVars
  <2>2. Sound(db')
    BY <2>1 DEF RowsInv, Sound
  <2> QED BY <2>1, <2>2, SameLog
<1> QED BY <1>1, <1>2, <1>3, <1>4, <1>5 DEF IndexerNext

\* The backfill stays among the pools and addresses it knows.
LEMMA JobStep == RowsInv /\ JobType /\ [IndexerNext]_indexerVars => JobType'
<1> SUFFICES ASSUME RowsInv, JobType, [IndexerNext]_indexerVars PROVE JobType'
  OBVIOUS
<1>1. /\ job \in Jobs
      /\ \A i \in DOMAIN job.newest : job.newest[i][2] \in DOMAIN log
      /\ job.phase # "idle" => job.pool \in DbcPools
      /\ job.phase = "list" => job.addresses # <<>>
      /\ cursor \in [Addresses -> 0..Len(log)]
  BY DEF JobType
<1>2. ChainInv /\ Len(log) \in Nat /\ DOMAIN log = 1..Len(log)
  BY LogLength DEF RowsInv
<1>15. log' = log => Jobs' = Jobs
  BY DEF Jobs
<1>3. CASE TxLands
  <2>1. PICK tx \in Transactions : log' = Append(log, tx)
    BY <1>3 DEF TxLands
  <2>2. DOMAIN log' = DOMAIN log \cup {Len(log) + 1} /\ Len(log') = Len(log) + 1
    BY <1>2, <2>1, LandingType, Appended
  <2>3. job' = job /\ cursor' = cursor
    BY <1>3 DEF TxLands
  <2>4. cursor \in [Addresses -> 0..Len(log')]
    <3>1. 0..Len(log) \subseteq 0..Len(log')
      BY <1>2, <2>2
    <3> QED BY <1>1, <3>1
  <2>5. job' \in Jobs'
    BY <1>1, <2>2, <2>3 DEF Jobs
  <2> QED BY <1>1, <2>2, <2>3, <2>4, <2>5 DEF JobType
<1>4. CASE log' = log /\ UNCHANGED <<cursor, job>>
  BY <1>1, <1>4, <1>15 DEF JobType
<1>5. CASE job' = Idle /\ log' = log /\ cursor' = cursor
  <2>1. job'.phase = "idle" /\ DOMAIN job'.newest = {}
    BY <1>5, IdleType
  <2>2. job' \in Jobs
    BY <1>5, IdleType
  <2> QED BY <1>1, <1>5, <1>15, <2>1, <2>2 DEF JobType
<1>6. ASSUME NEW p \in DbcPools, NEW resume \in BOOLEAN, BackfillStart(p, resume)
      PROVE  JobType'
  <2>1. job' = [Idle EXCEPT !.phase = "addresses", !.pool = p, !.resume = resume]
    BY <1>6 DEF BackfillStart
  <2>2. log' = log /\ cursor' = cursor
    BY <1>6 DEF BackfillStart
  <2>3. job' \in Jobs
    BY <2>1, IdleType DEF Jobs
  <2>4. job'.phase = "addresses" /\ job'.pool = p /\ job'.newest = <<>>
    BY <2>1, IdleType
  <2> QED BY <1>1, <1>15, <2>2, <2>3, <2>4 DEF JobType
<1>7. CASE BackfillAddresses
  <2>1. job' = [job EXCEPT !.phase = "list", !.addresses = AddressesFor(job.pool)]
        /\ log' = log /\ cursor' = cursor /\ job.phase = "addresses"
    BY <1>7 DEF BackfillAddresses
  <2>2. AddressesFor(job.pool) \in Seq(Addresses) /\ AddressesFor(job.pool) # <<>>
    <3>1. Scanned(db, job.pool) \subseteq Addresses
      BY DEF Scanned
    <3> QED BY <1>1, <2>1, <3>1, AddressesType, SeqMono
  <2>3. job' \in Jobs
    BY <1>1, <2>1, <2>2 DEF Jobs
  <2>4. job'.pool = job.pool /\ job'.newest = job.newest /\ job'.addresses = AddressesFor(job.pool)
    BY <1>1, <2>1 DEF Jobs
  <2> QED BY <1>1, <1>15, <2>1, <2>2, <2>3, <2>4 DEF JobType
<1>8. CASE BackfillList
  <2> DEFINE a == Head(job.addresses)
             sigs == SignaturesFor(a, IF job.resume THEN cursor[a] ELSE 0)
             last == Len(job.addresses) = 1
             newest == IF sigs = {} THEN job.newest ELSE Append(job.newest, <<a, Max(sigs)>>)
  <2>1. job' = [job EXCEPT !.addresses = Tail(@), !.sigs = @ \cup sigs,
                           !.newest = newest,
                           !.phase = IF last THEN "ingest" ELSE "list",
                           !.resume = @ /\ ~last]
    BY <1>8 DEF BackfillList
  <2>2. job.phase = "list" /\ log' = log /\ cursor' = cursor
    BY <1>8 DEF BackfillList
  <2>3. job.addresses \in Seq(Addresses) /\ job.addresses # <<>>
    BY <1>1, <2>2 DEF Jobs
  <2>4. a \in Addresses /\ Tail(job.addresses) \in Seq(Addresses) /\ (~last => Tail(job.addresses) # <<>>)
    BY <2>3, HeadTailType
  <2>5. sigs \subseteq DOMAIN log
    BY DEF SignaturesFor, Beyond
  <2>6. newest \in Seq(Addresses \X Nat) /\ \A i \in DOMAIN newest : newest[i][2] \in DOMAIN log
    <3> HIDE DEF a, sigs
    <3>1. CASE sigs = {}
      BY <1>1, <3>1 DEF Jobs
    <3>2. CASE sigs # {}
      <4>1. Max(sigs) \in DOMAIN log
        BY <1>2, <2>5, <3>2, NewestTx
      <4>2. <<a, Max(sigs)>> \in Addresses \X Nat /\ <<a, Max(sigs)>>[2] \in DOMAIN log
        BY <1>2, <2>4, <4>1
      <4>3. newest = Append(job.newest, <<a, Max(sigs)>>) /\ job.newest \in Seq(Addresses \X Nat)
        BY <1>1, <3>2 DEF Jobs
      <4> HIDE DEF newest
      <4>4. newest \in Seq(Addresses \X Nat)
        BY <4>2, <4>3
      <4>5. \A i \in DOMAIN newest :
                \/ i \in DOMAIN job.newest /\ newest[i] = job.newest[i]
                \/ newest[i] = <<a, Max(sigs)>>
        BY <4>2, <4>3
      <4> QED BY <1>1, <4>2, <4>4, <4>5
    <3> QED BY <3>1, <3>2
  <2> HIDE DEF a, sigs, newest, last
  <2>7. job' \in Jobs
    BY <1>1, <2>1, <2>4, <2>5, <2>6 DEF Jobs
  <2>8. /\ job'.pool = job.pool /\ job'.newest = newest /\ job'.addresses = Tail(job.addresses)
        /\ job'.phase = IF last THEN "ingest" ELSE "list"
    BY <1>1, <2>1 DEF Jobs
  <2> QED BY <1>1, <1>15, <2>2, <2>4, <2>6, <2>7, <2>8 DEF JobType
<1>9. CASE BackfillIngest \/ BackfillSkips
  <2>1. job' = [job EXCEPT !.sigs = @ \ {Min(job.sigs)}] /\ log' = log /\ cursor' = cursor
    BY <1>9 DEF BackfillIngest, BackfillSkips
  <2>2. job' \in Jobs
    BY <1>1, <2>1 DEF Jobs
  <2>3. job'.pool = job.pool /\ job'.newest = job.newest /\ job'.addresses = job.addresses
        /\ job'.phase = job.phase
    BY <1>1, <2>1 DEF Jobs
  <2> QED BY <1>1, <1>15, <2>1, <2>2, <2>3 DEF JobType
<1>10. CASE BackfillAdvance
  <2>1. CASE job.newest = <<>>
    BY <1>5, <1>10, <2>1 DEF BackfillAdvance
  <2>2. CASE job.newest # <<>>
    <3>1. /\ cursor' = [cursor EXCEPT ![Head(job.newest)[1]] = Head(job.newest)[2]]
          /\ job' = [job EXCEPT !.newest = Tail(@)] /\ log' = log
      BY <1>10, <2>2 DEF BackfillAdvance
    <3>2. job.newest \in Seq(Addresses \X Nat)
      BY <1>1 DEF Jobs
    <3>3. Head(job.newest) = job.newest[1] /\ 1 \in DOMAIN job.newest
          /\ Tail(job.newest) \in Seq(Addresses \X Nat)
          /\ \A i \in DOMAIN Tail(job.newest) : i + 1 \in DOMAIN job.newest
                                                /\ Tail(job.newest)[i] = job.newest[i + 1]
      BY <2>2, <3>2
    <3>4. Head(job.newest)[2] \in DOMAIN log
      BY <1>1, <3>3
    <3>5. cursor' \in [Addresses -> 0..Len(log)]
      <4>1. Head(job.newest)[2] \in 0..Len(log)
        BY <1>2, <3>4
      <4> QED BY <1>1, <3>1, <4>1
    <3>6. job' \in Jobs
      BY <1>1, <3>1, <3>3 DEF Jobs
    <3>7. job'.pool = job.pool /\ job'.newest = Tail(job.newest) /\ job'.addresses = job.addresses
          /\ job'.phase = job.phase
      BY <1>1, <3>1 DEF Jobs
    <3>8. \A i \in DOMAIN job'.newest : job'.newest[i][2] \in DOMAIN log
      BY <1>1, <3>3, <3>7
    <3> QED BY <1>1, <1>15, <3>1, <3>5, <3>6, <3>7, <3>8 DEF JobType
  <2> QED BY <2>1, <2>2
<1>11. CASE BackfillDies
  BY <1>5, <1>11 DEF BackfillDies
<1>12. CASE Writers
  BY <1>4, <1>12, WritersSound
<1>13. ASSUME NEW t \in DOMAIN log, NEW logged \in BOOLEAN, Webhook(t, logged)
       PROVE  JobType'
  BY <1>4, <1>13 DEF Webhook
<1>14. CASE UNCHANGED indexerVars
  BY <1>4, <1>14 DEF indexerVars
<1> QED
  BY <1>3, <1>6, <1>7, <1>8, <1>9, <1>10, <1>11, <1>12, <1>13, <1>14 DEF IndexerNext, Backfill

-----------------------------------------------------------------------------
(***************************************************************************)
(* What the rows being true says.                                          *)
(***************************************************************************)
LEMMA JobAtStart == IndexerInit => JobType
<1> SUFFICES ASSUME IndexerInit PROVE JobType
  OBVIOUS
<1>1. log = <<>> /\ cursor = [a \in Addresses |-> 0] /\ job = Idle
  BY DEF IndexerInit
<1>2. Len(log) = 0
  BY <1>1
<1>3. job.phase = "idle" /\ DOMAIN job.newest = {} /\ job \in Jobs
  BY <1>1, IdleType
<1>4. cursor \in [Addresses -> 0..Len(log)]
  BY <1>1, <1>2
<1> QED BY <1>3, <1>4 DEF JobType

\* A push row of an epoch is a wallet the chain paid.
LEMMA PaidPushed ==
  ASSUME RowsInv, NEW p \in DbcPools, NEW e \in EpochIds
  PROVE  Cardinality(PaidRows(db, p, e, 0)) <= Cardinality(PushedTo(p, e))
<1> DEFINE S == {w \in PushedTo(p, e) : <<p, e, w, 0>> \in db.payouts}
           f == [w \in S |-> <<p, e, w, 0>>]
           rows == PaidRows(db, p, e, 0)
<1>1. DbShape(db) /\ DbTrue(db) /\ ChainInv
  BY DEF RowsInv
<1>2. PushedTo(p, e) \subseteq Holders
  BY <1>1, PushedHolders
<1>3. IsFiniteSet(PushedTo(p, e)) /\ Cardinality(PushedTo(p, e)) \in Nat
  BY <1>2, FiniteHolders
<1>4. IsFiniteSet(S) /\ Cardinality(S) <= Cardinality(PushedTo(p, e)) /\ Cardinality(S) \in Nat
  BY <1>3, FS_Subset, FS_CardinalityType
<1>5. f \in [S -> rows]
  BY DEF PaidRows
<1>6. \A y \in rows : \E w \in S : f[w] = y
  <2> SUFFICES ASSUME NEW y \in rows PROVE \E w \in S : f[w] = y
    OBVIOUS
  <2>1. y \in db.payouts /\ y \in DbcPools \X EpochIds \X Holders \X {0, 1}
        /\ y[1] = p /\ y[2] = e /\ y[4] = 0
    BY <1>1 DEF PaidRows, DbShape
  <2>2. PICK w \in Holders : y = <<p, e, w, 0>>
    BY <2>1
  <2>3. w \in PushedTo(p, e)
    BY <1>1, <2>1, <2>2 DEF DbTrue, PayoutsTrue
  <2> QED BY <2>1, <2>2, <2>3
<1>7. f \in Surjection(S, rows)
  BY <1>5, <1>6 DEF Surjection
<1> HIDE DEF S, f
<1>8. IsFiniteSet(rows) /\ Cardinality(rows) <= Cardinality(S)
  BY <1>4, <1>7, FS_Surjection
<1>9. Cardinality(rows) \in Nat
  BY <1>8, FS_CardinalityType
<1> QED BY <1>3, <1>4, <1>8, <1>9

\* True rows have their types, and come after what they are about.
LEMMA RowsAreTyped == RowsInv /\ JobType => IndexerTypeOK
<1> SUFFICES ASSUME RowsInv, JobType PROVE IndexerTypeOK
  OBVIOUS
<1>1. DbShape(db) /\ DbTrue(db) /\ Sound(db)
  BY DEF RowsInv, Sound
<1>2. db.damm \subseteq db.pools /\ db.claimed \subseteq db.leaves
  BY <1>1 DEF DbTrue, PoolsTrue, LeavesTrue
<1>3. \A r \in db.trades : r.pool \in db.pools /\ r.sig \in DOMAIN log
  BY <1>1 DEF DbTrue, TradesTrue
<1>4. \A x \in db.moves : x[2] \in db.pools
  BY <1>1 DEF DbTrue, MovesTrue
<1>5. \A x \in db.payouts : x[1] \in db.pools
  <2> SUFFICES ASSUME NEW x \in db.payouts PROVE x[1] \in db.pools
    OBVIOUS
  <2>1. PICK p \in DbcPools, e \in EpochIds, w \in Holders, kind \in {0, 1} : x = <<p, e, w, kind>>
    BY <1>1 DEF DbShape
  <2>2. w \in PaidTo(p, e, kind)
    BY <1>1, <2>1 DEF DbTrue, PayoutsTrue, PaidTo
  <2>3. p \in db.pools
    BY <1>1, <2>2, PaidHasRow
  <2> QED BY <2>1, <2>3
<1>6. DOMAIN db.epochs \subseteq db.pools \X EpochIds
  <2>1. DOMAIN db.epochs \subseteq DbcPools \X EpochIds
    BY <1>1, EpochRows DEF DbShape
  <2> QED BY <1>1, <2>1 DEF DbTrue, EpochsTrue, HasRow
<1>7. db.balances \in [DbcPools \X Holders -> Int]
  BY <1>1 DEF DbShape
<1>8. cursor \in [Addresses -> 0..Len(log)]
  BY DEF JobType
<1> QED BY <1>2, <1>3, <1>4, <1>5, <1>6, <1>7, <1>8 DEF IndexerTypeOK

\* True rows count no payout of an epoch twice.
LEMMA BooksAreHonest == RowsInv => EpochBooksHonest
<1> SUFFICES ASSUME RowsInv, NEW x \in DOMAIN db.epochs
             PROVE  LET row == db.epochs[x]
                        pushed == Cardinality(PushedTo(x[1], x[2]))
                    IN /\ row.claimed =
                            Cardinality({y \in db.payouts : y[1] = x[1] /\ y[2] = x[2] /\ y[4] = 1})
                       /\ row.finalized => Finalized(x[1], x[2]) /\ row.pushed = pushed
                       /\ row.pushed <= pushed
  BY DEF EpochBooksHonest
<1>1. DbShape(db) /\ DbTrue(db) /\ ChainInv /\ db.epochs \in EpochTables
  BY DEF RowsInv, DbShape
<1>2. DOMAIN db.epochs \subseteq DbcPools \X EpochIds /\ db.epochs[x] \in EpochRow
  BY <1>1, EpochRows
<1>3. PICK p \in DbcPools, e \in EpochIds : x = <<p, e>>
  BY <1>2
<1>4. HasRow(db, p, e) /\ x[1] = p /\ x[2] = e
  BY <1>3 DEF HasRow
<1>5. /\ db.epochs[x].claimed = Cardinality(PaidRows(db, p, e, 1))
      /\ db.epochs[x].finalized =>
           Finalized(p, e) /\ db.epochs[x].pushed = Cardinality(PushedTo(p, e))
      /\ ~db.epochs[x].finalized => db.epochs[x].pushed <= Cardinality(PaidRows(db, p, e, 0))
  BY <1>1, <1>3, <1>4 DEF DbTrue, EpochsTrue
<1>6. Cardinality(PaidRows(db, p, e, 0)) \in Nat /\ Cardinality(PushedTo(p, e)) \in Nat
      /\ db.epochs[x].pushed \in Nat
  BY <1>1, <1>2, PaidFinite, PushedHolders, FiniteHolders DEF EpochRow
<1>7. Cardinality(PaidRows(db, p, e, 0)) <= Cardinality(PushedTo(p, e))
  BY PaidPushed
<1> QED BY <1>4, <1>5, <1>6, <1>7 DEF PaidRows

\* True rows never have a share both paid and unclaimed.
LEMMA EarningsAreCountedOnce == RowsInv => EarningsCountedOnce
<1> SUFFICES ASSUME RowsInv, NEW p \in DbcPools, NEW e \in EpochIds, NEW w \in Holders
             PROVE  Cardinality({kind \in {0, 1} : <<p, e, w, kind>> \in db.payouts})
                      + (IF <<p, e, w>> \in db.leaves \ db.claimed THEN 1 ELSE 0) <= 1
  BY DEF EarningsCountedOnce
<1> DEFINE K == {kind \in {0, 1} : <<p, e, w, kind>> \in db.payouts}
<1>1. PayoutsTrue(db) /\ LeavesTrue(db)
  BY DEF RowsInv, DbTrue
<1>2. <<p, e, w, 0>> \in db.payouts => <<p, e, w>> \notin db.leaves
  BY <1>1 DEF PayoutsTrue, LeavesTrue, InRoot
<1>3. <<p, e, w, 1>> \in db.payouts => <<p, e, w>> \in db.claimed /\ <<p, e, w>> \in db.leaves
  BY <1>1 DEF PayoutsTrue, LeavesTrue
<1>4. K = {} \/ \E kind : K = {kind} /\ <<p, e, w>> \notin db.leaves \ db.claimed
  <2>1. CASE <<p, e, w, 0>> \in db.payouts
    <3>1. K = {0}
      BY <1>2, <1>3, <2>1
    <3> QED BY <1>2, <2>1, <3>1
  <2>2. CASE <<p, e, w, 0>> \notin db.payouts /\ <<p, e, w, 1>> \in db.payouts
    <3>1. K = {1}
      BY <2>2
    <3> QED BY <1>3, <2>2, <3>1
  <2>3. CASE <<p, e, w, 0>> \notin db.payouts /\ <<p, e, w, 1>> \notin db.payouts
    BY <2>3
  <2> QED BY <2>1, <2>2, <2>3
<1> HIDE DEF K
<1>5. CASE K = {}
  <2>1. Cardinality(K) = 0
    BY <1>5, FS_EmptySet
  <2> QED BY <2>1 DEF K
<1>6. CASE \E kind : K = {kind} /\ <<p, e, w>> \notin db.leaves \ db.claimed
  <2>1. Cardinality(K) = 1
    BY <1>6, FS_Singleton
  <2> QED BY <1>6, <2>1 DEF K
<1> QED BY <1>4, <1>5, <1>6

-----------------------------------------------------------------------------
(***************************************************************************)
(* Theorems                                                                *)
(***************************************************************************)

\* The rows stay true of the chain in every reachable state, whatever is
\* delivered twice, out of order or never (ingestTransaction and its writers).
THEOREM RowsStayTrue == IndexerSpec => [](RowsInv /\ JobType)
<1>1. IndexerInit => RowsInv /\ JobType
  BY RowsAtStart, JobAtStart
<1>2. RowsInv /\ JobType /\ [IndexerNext]_indexerVars => (RowsInv /\ JobType)'
  BY RowsStep, JobStep
<1> QED BY <1>1, <1>2, PTL DEF IndexerSpec

\* The tables keep their shape, and no row comes before what it is about.
THEOREM TypeCorrect == IndexerSpec => []IndexerTypeOK
  BY RowsStayTrue, RowsAreTyped, PTL

\* applyEvent and the keeper count every payout of an epoch once.
THEOREM BooksStayHonest == IndexerSpec => []EpochBooksHonest
<1>1. RowsInv /\ JobType => EpochBooksHonest
  BY BooksAreHonest
<1> QED BY <1>1, RowsStayTrue, PTL

\* No wallet's share is both among the payouts and an unclaimed leaf.
THEOREM NoShareCountedTwice == IndexerSpec => []EarningsCountedOnce
<1>1. RowsInv /\ JobType => EarningsCountedOnce
  BY EarningsAreCountedOnce
<1> QED BY <1>1, RowsStayTrue, PTL

-----------------------------------------------------------------------------
(***************************************************************************)
(* Balances.  A move is recorded in the step that counts it.               *)
(***************************************************************************)
MovesOf(d, p, w) == {y \in d.moves : y[2] = p /\ y[3] = w}
Replayed(d, p, w) == SumFunction([x \in MovesOf(d, p, w) |-> Delta(log[x[1]], p, w)])
Balanced(d) == \A p \in DbcPools, w \in Holders : d.balances[<<p, w>>] = Replayed(d, p, w)

\* A wallet has finitely many moves, all of transactions of the log.
LEMMA FiniteMoves ==
  ASSUME NEW d, Sound(d), ChainInv, NEW p \in DbcPools, NEW w \in Holders
  PROVE  IsFiniteSet(MovesOf(d, p, w)) /\ \A x \in MovesOf(d, p, w) : x[1] \in DOMAIN log
<1> DEFINE S == {t \in DOMAIN log : <<t, p, w>> \in d.moves}
           f == [t \in S |-> <<t, p, w>>]
<1>1. DbShape(d) /\ MovesTrue(d)
  BY DEF Sound, DbTrue
<1>2. \A x \in MovesOf(d, p, w) : x[1] \in DOMAIN log /\ x = <<x[1], p, w>>
  BY <1>1 DEF DbShape, MovesOf, MovesTrue
<1>3. f \in [S -> MovesOf(d, p, w)]
  BY DEF MovesOf
<1>4. \A x \in MovesOf(d, p, w) : \E t \in S : f[t] = x
  <2> SUFFICES ASSUME NEW x \in MovesOf(d, p, w) PROVE \E t \in S : f[t] = x
    OBVIOUS
  <2>1. x[1] \in DOMAIN log /\ x = <<x[1], p, w>> /\ x \in d.moves
    BY <1>2 DEF MovesOf
  <2>2. x[1] \in S
    BY <2>1
  <2> QED BY <2>1, <2>2
<1>5. f \in Surjection(S, MovesOf(d, p, w))
  BY <1>3, <1>4 DEF Surjection
<1>6. IsFiniteSet(S)
  <2>1. Len(log) \in Nat /\ DOMAIN log = 1..Len(log)
    BY LogLength
  <2>2. IsFiniteSet(DOMAIN log)
    BY <2>1, FS_Interval
  <2> QED BY <2>2, FS_Subset
<1> HIDE DEF S, f
<1> QED BY <1>2, <1>5, <1>6, FS_Surjection

\* The replay of a balance is a sum over its moves.
LEMMA ReplayedSum ==
  \A d, p, w : Replayed(d, p, w) =
    SumFunctionOnSet([x \in MovesOf(d, p, w) |-> Delta(log[x[1]], p, w)], MovesOf(d, p, w))
  BY DEF Replayed, SumFunction

\* The same moves and balances.
LEMMA SameMoves ==
  ASSUME NEW d, NEW n, Balanced(d), n.moves = d.moves, n.balances = d.balances
  PROVE  Balanced(n)
  BY DEF Balanced, Replayed, MovesOf

\* The moves writeBalanceDeltas adds to the record are those it adds to the balance.
LEMMA DeltasBalanced ==
  ASSUME NEW d, Sound(d), ChainInv, NEW t \in DOMAIN log, Balanced(d)
  PROVE  Balanced(WriteBalanceDeltas(d, t))
<1> DEFINE n == WriteBalanceDeltas(d, t)
<1>1. /\ Sound(n) /\ n.moves = d.moves \cup NewMoves(d, t)
      /\ n.balances = [x \in DbcPools \X Holders |-> d.balances[x] +
           (IF <<t, x[1], x[2]>> \in NewMoves(d, t) THEN Delta(log[t], x[1], x[2]) ELSE 0)]
  BY WriteDeltasSound
<1> HIDE DEF n
<1> SUFFICES ASSUME NEW p \in DbcPools, NEW w \in Holders
             PROVE  n.balances[<<p, w>>] = Replayed(n, p, w)
  BY DEF Balanced, n
<1> DEFINE a == <<t, p, w>>
           M == MovesOf(d, p, w)
           N == MovesOf(n, p, w)
           F == [x \in M |-> Delta(log[x[1]], p, w)]
           G == [x \in N |-> Delta(log[x[1]], p, w)]
<1>2. IsFiniteSet(M) /\ IsFiniteSet(N)
  BY <1>1, FiniteMoves
<1>3. (\A x \in M : F[x] \in Int) /\ (\A x \in N : G[x] \in Int)
  BY DeltaInt
<1>4. d.balances[<<p, w>>] = SumFunctionOnSet(F, M) /\ Replayed(n, p, w) = SumFunctionOnSet(G, N)
  BY ReplayedSum DEF Balanced
<1>5. n.balances[<<p, w>>] =
        d.balances[<<p, w>>] + (IF a \in NewMoves(d, t) THEN Delta(log[t], p, w) ELSE 0)
  BY <1>1
<1>6. \A x \in NewMoves(d, t) : x[2] = p /\ x[3] = w => x = a
  BY DEF NewMoves
<1>7. a[1] = t /\ a[2] = p /\ a[3] = w
  OBVIOUS
<1>8. SumFunctionOnSet(F, M) \in Int
  BY <1>2, <1>3, SumInt
<1> HIDE DEF a
<1>9. CASE a \in NewMoves(d, t)
  <2>1. a \notin M
    BY <1>9 DEF NewMoves, MovesOf
  <2>2. N = M \cup {a}
    BY <1>1, <1>6, <1>7, <1>9 DEF MovesOf
  <2>3. a \in N /\ N \ {a} = M
    BY <2>1, <2>2
  <2>4. SumFunctionOnSet(G, N) = G[a] + SumFunctionOnSet(G, N \ {a})
    BY <1>2, <1>3, <2>3, SumTake
  <2>5. \A x \in M : G[x] = F[x]
    BY <2>2
  <2>6. SumFunctionOnSet(G, M) = SumFunctionOnSet(F, M)
    BY <1>2, <2>5, SumSame
  <2>7. G[a] = Delta(log[t], p, w)
    BY <1>7, <2>3
  <2>8. Delta(log[t], p, w) \in Int
    BY DeltaInt
  <2>9. n.balances[<<p, w>>] = SumFunctionOnSet(F, M) + Delta(log[t], p, w)
    BY <1>4, <1>5, <1>9
  <2>10. Replayed(n, p, w) = Delta(log[t], p, w) + SumFunctionOnSet(F, M)
    BY <1>4, <2>3, <2>4, <2>6, <2>7
  <2> HIDE DEF F, G, M, N
  <2> QED BY <1>8, <2>8, <2>9, <2>10
<1>10. CASE a \notin NewMoves(d, t)
  <2>1. N = M
    BY <1>1, <1>6, <1>7, <1>10 DEF MovesOf
  <2>2. Replayed(n, p, w) = SumFunctionOnSet(F, M)
    BY <1>4, <2>1
  <2> HIDE DEF F, M
  <2> QED BY <1>4, <1>5, <1>8, <1>10, <2>2
<1> QED BY <1>9, <1>10

\* The events move no balance.
LEMMA EventsKeepMoves ==
  ASSUME NEW d, DbShape(d), NEW tx
  PROVE  ApplyEvents(d, tx).moves = d.moves /\ ApplyEvents(d, tx).balances = d.balances
<1>1. \A p, e, w, kind :
        Payout(d, p, e, w, kind).moves = d.moves /\ Payout(d, p, e, w, kind).balances = d.balances
  BY DEF DbShape, Payout
<1>2. \A p, e : /\ UpsertEpoch(d, p, e).moves = d.moves /\ UpsertEpoch(d, p, e).balances = d.balances
                /\ UpsertPool(d, p).moves = d.moves /\ UpsertPool(d, p).balances = d.balances
                /\ MigrationRecorded(d, p).moves = d.moves
                /\ MigrationRecorded(d, p).balances = d.balances
  BY DEF DbShape, UpsertEpoch, UpsertPool, MigrationRecorded
<1>3. \A p, e, k : /\ FinalizeRow(d, p, e, k).moves = d.moves
                   /\ FinalizeRow(d, p, e, k).balances = d.balances
  BY DEF DbShape, FinalizeRow
<1>4. ReconcilePools(d).moves = d.moves /\ ReconcilePools(d).balances = d.balances
  BY DEF DbShape, ReconcilePools
<1> QED BY <1>1, <1>2, <1>3, <1>4 DEF ApplyEvents

\* The rest of ingestTransaction leaves moves and balances alone.
LEMMA IngestBalanced ==
  ASSUME NEW d, Sound(d), ChainInv, NEW t \in DOMAIN log, NEW logged \in BOOLEAN,
         NEW n \in Ingest(d, t, logged), Balanced(d)
  PROVE  Balanced(n)
<1> SUFFICES ASSUME n \in Ingested(d, t, logged) PROVE Balanced(n)
  BY DEF Ingest
<1>1. PICK k, m, order :
        /\ k = IF logged THEN ApplyEvents(d, log[t]) ELSE d
        /\ Sound(k) /\ Grows(d, k) /\ (logged => EventApplied(log[t], k))
        /\ order \in SetToSeqs(SwappedPools(k, log[t]))
        /\ m = WriteSwaps(k, t, order) /\ Sound(m) /\ Grows(k, m)
        /\ n = WriteBalanceDeltas(m, t) /\ Sound(n) /\ Grows(m, n)
  BY IngestWrites
<1>2. Balanced(k)
  <2>1. k.moves = d.moves /\ k.balances = d.balances
    BY <1>1, EventsKeepMoves DEF Sound
  <2> QED BY <2>1, SameMoves
<1>3. m.moves = k.moves /\ m.balances = k.balances
  BY <1>1, WriteSwapsSound
<1>4. Balanced(m)
  BY <1>2, <1>3, SameMoves
<1> QED BY <1>1, <1>4, DeltasBalanced

\* So do the API server and the keeper.
LEMMA WritersKeepMoves ==
  ASSUME RowsInv, Writers
  PROVE  db'.moves = db.moves /\ db'.balances = db.balances
<1>1. DbShape(db)
  BY DEF RowsInv
<1> QED
  BY <1>1 DEF DbShape, Writers, ServerReconcile, ReconcilePools, KeeperInsertsEpoch, UpsertEpoch,
     KeeperInsertsLeaves, KeeperMarksFinalized, FinalizeRow, KeeperRecordsPayout,
     KeeperMarksMigrated, MigrationRecorded

\* No step makes a balance differ from its moves.
LEMMA BalancedStep ==
  RowsInv /\ JobType /\ Balanced(db) /\ [IndexerNext]_indexerVars => Balanced(db)'
<1> SUFFICES ASSUME RowsInv, JobType, Balanced(db), [IndexerNext]_indexerVars PROVE Balanced(db)'
  OBVIOUS
<1>1. Sound(db) /\ ChainInv
  BY DEF RowsInv, Sound
<1>2. log' = log /\ Balanced(db') => Balanced(db)'
  BY DEF Balanced, Replayed, MovesOf
<1>3. CASE TxLands
  <2>1. PICK tx \in Transactions : log' = Append(log, tx)
    BY <1>3 DEF TxLands
  <2>2. \A t \in DOMAIN log : log'[t] = log[t]
    BY <1>1, <2>1, LandingType, Appended
  <2>3. db' = db
    BY <1>3 DEF TxLands
  <2> SUFFICES ASSUME NEW p \in DbcPools, NEW w \in Holders
               PROVE  db.balances[<<p, w>>] = Replayed(db, p, w)'
    BY <2>3 DEF Balanced
  <2>4. \A x \in MovesOf(db, p, w) : log'[x[1]] = log[x[1]]
    BY <1>1, <2>2, FiniteMoves
  <2>5. [x \in MovesOf(db, p, w) |-> Delta(log'[x[1]], p, w)] =
          [x \in MovesOf(db, p, w) |-> Delta(log[x[1]], p, w)]
    BY <2>4
  <2>6. Replayed(db, p, w)' = SumFunction([x \in MovesOf(db, p, w) |-> Delta(log'[x[1]], p, w)])
    BY <2>3 DEF Replayed, MovesOf
  <2> QED BY <2>5, <2>6 DEF Balanced, Replayed
<1>4. ASSUME NEW t \in DOMAIN log, NEW logged \in BOOLEAN, Webhook(t, logged)
      PROVE  Balanced(db)'
  BY <1>1, <1>2, <1>4, IngestBalanced DEF Webhook
<1>5. CASE Writers
  BY <1>1, <1>2, <1>5, WritersSound, WritersKeepMoves, SameMoves
<1>6. CASE Backfill
  <2>1. ASSUME NEW p \in DbcPools, NEW resume \in BOOLEAN, BackfillStart(p, resume)
        PROVE  Balanced(db)'
    <3>1. db'.moves = db.moves /\ db'.balances = db.balances /\ log' = log
      BY <1>1, <2>1 DEF Sound, DbShape, BackfillStart, ReconcilePools
    <3> QED BY <1>2, <3>1, SameMoves
  <2>2. CASE BackfillAddresses \/ BackfillList \/ BackfillAdvance \/ BackfillDies
    BY <1>2, <2>2 DEF BackfillAddresses, BackfillList, BackfillAdvance, BackfillDies
  <2>3. CASE BackfillIngest \/ BackfillSkips
    <3>1. Min(job.sigs) \in DOMAIN log
      BY <1>1, <2>3, NewestTx DEF BackfillIngest, BackfillSkips, JobType, Jobs
    <3>2. \E logged \in BOOLEAN : db' \in Ingest(db, Min(job.sigs), logged)
      BY <2>3 DEF BackfillIngest, BackfillSkips, Ingest
    <3>3. log' = log
      BY <2>3 DEF BackfillIngest, BackfillSkips
    <3> QED BY <1>1, <1>2, <3>1, <3>2, <3>3, IngestBalanced
  <2> QED BY <1>6, <2>1, <2>2, <2>3 DEF Backfill
<1>7. CASE UNCHANGED indexerVars
  BY <1>2, <1>7 DEF indexerVars
<1> QED BY <1>3, <1>4, <1>5, <1>6, <1>7 DEF IndexerNext

\* ingestTransaction may see a transaction any number of times: the balance of
\* a wallet is the sum of its recorded moves.
THEOREM BalancesStayReplays == IndexerSpec => []BalancesAreReplays
<1>1. IndexerInit => Balanced(db)
  <2> SUFFICES ASSUME IndexerInit, NEW p \in DbcPools, NEW w \in Holders
               PROVE  db.balances[<<p, w>>] = Replayed(db, p, w)
    BY DEF Balanced
  <2>1. db = EmptyDb
    BY DEF IndexerInit
  <2>2. db.balances[<<p, w>>] = 0 /\ MovesOf(db, p, w) = {}
    BY <2>1 DEF EmptyDb, MovesOf
  <2> QED BY <2>2, ReplayedSum, SumEmpty
<1>2. RowsInv /\ JobType /\ Balanced(db) /\ [IndexerNext]_indexerVars => Balanced(db)'
  BY BalancedStep
<1>3. Balanced(db) => BalancesAreReplays
  BY DEF Balanced, Replayed, MovesOf, BalancesAreReplays
<1> QED BY <1>1, <1>2, <1>3, RowsStayTrue, PTL DEF IndexerSpec

-----------------------------------------------------------------------------
(***************************************************************************)
(* Cursors.  What a run lists of an address and has not ingested is in     *)
(* sigs; what it cuts, skips or fails on is a gap.  What it ingests has    *)
(* its rows unless the pool is unknown, and then the pool's launch, the    *)
(* first thing a whole listing holds, is a gap, and so is what is ingested *)
(* of it.                                                                  *)
(***************************************************************************)
\* RowsOf of the database d.
Rows(d, t, kind, p) ==
  LET tx == log[t]
      traded == \E r \in d.trades : r.sig = t /\ (r.pool = p \/ Cardinality(Legs(tx)) > 1)
  IN CASE kind = "pool" -> p \in d.pools /\ (p \in Legs(tx) \ OnDamm(tx) => traded)
       [] kind = "state" -> p \in d.pools /\ (tx.op = "record" => p \in d.damm)
       [] kind = "vault" -> tx.op = "open" => HasRow(d, p, tx.e)
       [] kind = "mint" -> \A w \in Holders : Delta(tx, p, w) # 0 => <<t, p, w>> \in d.moves
       [] kind = "damm" -> p \in OnDamm(tx) => traded
       [] OTHER -> CASE tx.op = "open" -> HasRow(d, p, tx.e)
                     [] tx.op = "push" -> <<p, tx.e, tx.w, 0>> \in d.payouts
                     [] tx.op = "claim" -> /\ <<p, tx.e, tx.w, 1>> \in d.payouts
                                           /\ <<p, tx.e, tx.w>> \in d.claimed
                     [] OTHER -> d.epochs[<<p, tx.e>>].finalized

\* RowsOf is Rows of the database as it is.
LEMMA RowsOfDb == \A t, kind, p : RowsOf(t, kind, p) <=> Rows(db, t, kind, p)
  BY DEF RowsOf, Rows

\* What an account's address says of a transaction that lists it.
LEMMA AddressShape ==
  ASSUME NEW a \in Addresses
  PROVE  /\ a[2] \in DbcPools /\ a = <<a[1], a[2], a[3]>>
         /\ a[1] \in {"pool", "state", "vault", "mint", "damm", "epoch"}
         /\ a[1] # "epoch" => a[3] = 0
  BY DEF Addresses

\* What touches an address is about its pool.
LEMMA TouchedIsAbout ==
  ASSUME ChainInv, NEW t \in DOMAIN log, NEW a \in Addresses, a \in Touches(log[t])
  PROVE  /\ About(log[t], a[2])
         /\ a[1] = "epoch" => /\ log[t].op \in EpochOps /\ log[t].p = a[2]
                              /\ log[t].e \in EpochIds
<1> DEFINE tx == log[t]
<1>1. tx \in AnyTx
  BY DEF ChainInv
<1> HIDE DEF tx
<1>2. a \in Touches(tx)
  BY DEF tx
<1>3. CASE tx.op = "swap"
  <2>1. a \in UNION {{<<"mint", p, 0>>, <<IF p \in tx.damm THEN "damm" ELSE "pool", p, 0>>} : p \in tx.legs}
    BY <1>2, <1>3 DEF Touches
  <2>2. PICK p \in tx.legs : a \in {<<"mint", p, 0>>, <<IF p \in tx.damm THEN "damm" ELSE "pool", p, 0>>}
    BY <2>1
  <2>3. a[2] = p /\ a[1] # "epoch"
    BY <2>2
  <2> QED BY <1>3, <2>2, <2>3 DEF About, tx
<1>4. CASE tx.op \in {"launch", "transfer", "graduate", "record"}
  <2>1. a[2] = tx.p /\ a[1] # "epoch"
    BY <1>2, <1>4 DEF Touches
  <2> QED BY <1>4, <2>1 DEF About, tx
<1>5. CASE tx.op \in EpochOps
  <2>1. a[2] = tx.p
    BY <1>2, <1>5 DEF Touches, EpochOps
  <2>2. tx.e \in EpochIds
    BY <1>1, <1>5 DEF AnyTx, EpochOps
  <2> QED BY <1>5, <2>1, <2>2 DEF About, EpochOps, tx
<1> QED BY <1>1, <1>3, <1>4, <1>5 DEF AnyTx, EpochOps

\* The launch of a pool touches every address it creates.
LEMMA LaunchTouches ==
  ASSUME NEW l \in Txs("launch"), NEW a \in Addresses, log[l].p = a[2],
         a[1] \in {"pool", "state", "vault", "mint"}
  PROVE  a \in Touches(log[l])
<1>1. log[l].op = "launch"
  BY DEF Txs
<1>2. a = <<a[1], a[2], 0>>
  BY AddressShape
<1>3. Touches(log[l]) = {"pool", "state", "vault", "mint"} \X {log[l].p} \X {0}
  BY <1>1 DEF Touches
<1> QED BY <1>2, <1>3

\* What happens to an epoch happens to a pool that is known.
LEMMA EpochPoolKnown ==
  ASSUME NEW d, Sound(d), ChainInv, NEW t \in DOMAIN log, log[t].op \in EpochOps
  PROVE  log[t].p \in d.pools /\ (log[t].op = "finalize" => HasRow(d, log[t].p, log[t].e))
<1> DEFINE p == log[t].p
           e == log[t].e
<1>1. p \in DbcPools /\ e \in EpochIds
  <2>1. log[t] \in AnyTx
    BY DEF ChainInv
  <2> QED BY <2>1 DEF AnyTx, EpochOps
<1>2. t \in EpochTxs(log[t].op, p, e)
  BY DEF EpochTxs, Txs
<1>3. log[t].op = "open" => Opened(p, e)
  BY <1>2 DEF Opened
<1>4. log[t].op = "finalize" => Finalized(p, e)
  BY <1>2 DEF Finalized
<1>5. log[t].op = "push" => PushedTo(p, e) # {}
  BY <1>2 DEF PushedTo
<1>6. log[t].op = "claim" => ClaimedBy(p, e) # {}
  BY <1>2 DEF ClaimedBy
<1> HIDE DEF p, e
<1>7. log[t].op # "open" => HasRow(d, p, e)
  BY <1>1, <1>4, <1>5, <1>6 DEF Sound, KeeperKnows, EpochOps
<1>8. HasRow(d, p, e) => p \in d.pools
  BY <1>1 DEF Sound, DbTrue, EpochsTrue
<1>9. log[t].op = "open" => p \in d.pools
  BY <1>1, <1>3 DEF Sound, KeeperKnows
<1> QED BY <1>7, <1>8, <1>9 DEF p, e

\* Rows that are there stay.
LEMMA RowsRemain ==
  ASSUME NEW d, Sound(d), NEW n, Grows(d, n), ChainInv, NEW t \in DOMAIN log,
         NEW a \in Addresses, a \in Touches(log[t]), Rows(d, t, a[1], a[2])
  PROVE  Rows(n, t, a[1], a[2])
<1> DEFINE p == a[2]
           tx == log[t]
<1>1. /\ d.pools \subseteq n.pools /\ d.damm \subseteq n.damm
      /\ d.trades \subseteq n.trades /\ d.moves \subseteq n.moves
      /\ d.payouts \subseteq n.payouts /\ d.claimed \subseteq n.claimed
      /\ \A e : HasRow(d, p, e) =>
           HasRow(n, p, e) /\ (d.epochs[<<p, e>>].finalized => n.epochs[<<p, e>>].finalized)
  BY DEF Grows, HasRow
<1>2. a[1] \in {"pool", "state", "vault", "mint", "damm", "epoch"}
  BY AddressShape
<1> HIDE DEF p, tx
<1>3. Rows(d, t, a[1], p) /\ p = a[2]
  BY DEF p
<1>4. CASE a[1] = "pool"
  BY <1>1, <1>3, <1>4 DEF Rows
<1>5. CASE a[1] = "state"
  BY <1>1, <1>3, <1>5 DEF Rows
<1>6. CASE a[1] = "vault"
  BY <1>1, <1>3, <1>6 DEF Rows
<1>7. CASE a[1] = "mint"
  BY <1>1, <1>3, <1>7 DEF Rows
<1>8. CASE a[1] = "damm"
  BY <1>1, <1>3, <1>8 DEF Rows
<1>9. CASE a[1] = "epoch"
  <2>1. log[t].op \in EpochOps /\ log[t].p = p
    BY <1>3, <1>9, TouchedIsAbout
  <2>2. log[t].op = "finalize" => HasRow(d, p, log[t].e)
    BY <2>1, EpochPoolKnown
  <2> QED BY <1>1, <1>3, <1>9, <2>1, <2>2 DEF Rows, EpochOps
<1> QED BY <1>2, <1>4, <1>5, <1>6, <1>7, <1>8, <1>9

\* The first key of a swap is taken by one of its pools.
LEMMA TradeWritten ==
  ASSUME NEW d, Sound(d), ChainInv, NEW t \in DOMAIN log,
         NEW order \in SetToSeqs(SwappedPools(d, log[t])),
         NEW p \in SwappedPools(d, log[t])
  PROVE  \E r \in WriteSwaps(d, t, order).trades :
           r.sig = t /\ (r.pool = p \/ Cardinality(Legs(log[t])) > 1)
<1> DEFINE S == SwappedPools(d, log[t])
           L == Legs(log[t])
           new == {[sig |-> t, i |-> i, pool |-> order[i]] : i \in DOMAIN order}
           X == {r \in new : \A s \in d.trades : <<s.sig, s.i>> # <<r.sig, r.i>>}
           row == [sig |-> t, i |-> 1, pool |-> order[1]]
<1>1. WriteSwaps(d, t, order).trades = d.trades \cup X
  BY DEF WriteSwaps, Sound, DbShape
<1>2. S \subseteq L /\ p \in S
  BY DEF SwappedPools
<1>3. IsFiniteSet(L) /\ IsFiniteSet(S) /\ Cardinality(L) \in Nat /\ Cardinality(S) \in Nat
  <2>1. log[t] \in AnyTx
    BY DEF ChainInv
  <2>2. L \subseteq DbcPools
    BY <2>1 DEF AnyTx, Legs
  <2>3. IsFiniteSet(L)
    BY <2>2, IndexerAssumption, FS_Subset
  <2> HIDE DEF L, S
  <2> QED BY <1>2, <2>3, FS_Subset, FS_CardinalityType
<1>4. order \in [1..Cardinality(S) -> S]
  BY DEF SetToSeqs
<1> HIDE DEF L, S
<1>5. 1 \in DOMAIN order /\ order[1] \in L
  <2>1. Cardinality(S) # 0
    BY <1>2, <1>3, FS_EmptySet
  <2> QED BY <1>2, <1>3, <1>4, <2>1
<1>6. row \in new
  BY <1>5
<1>7. \E r \in d.trades \cup X : r.sig = t /\ r.pool \in L
  <2>1. CASE row \in X
    BY <1>5, <2>1
  <2>2. CASE row \notin X
    <3>1. PICK s \in d.trades : <<s.sig, s.i>> = <<row.sig, row.i>>
      BY <1>6, <2>2
    <3>2. s.sig = t
      BY <3>1
    <3>3. s.pool \in L
      BY <3>2 DEF Sound, DbTrue, TradesTrue, L
    <3> QED BY <3>2, <3>3
  <2> QED BY <2>1, <2>2
<1> HIDE DEF X
<1>8. PICK r \in d.trades \cup X : r.sig = t /\ r.pool \in L
  BY <1>7
<1>9. r.pool = p \/ Cardinality(L) > 1
  <2>1. Cardinality(L) # 0
    BY <1>2, <1>3, FS_EmptySet
  <2>2. CASE Cardinality(L) = 1
    <3>1. \E x : L = {x}
      BY <1>3, <2>2, FS_Singleton
    <3> QED BY <1>2, <1>8, <3>1
  <2> QED BY <1>3, <2>1, <2>2
<1> QED BY <1>1, <1>8, <1>9 DEF L

\* Ingesting a transaction writes the rows of each address it lists of a pool
\* that is known then; a launch makes its pool known.
LEMMA IngestCovers ==
  ASSUME NEW d, Sound(d), ChainInv, NEW t \in DOMAIN log, NEW n \in Ingested(d, t, TRUE)
  PROVE  /\ log[t].op = "launch" => log[t].p \in n.pools
         /\ \A a \in Addresses :
              a \in Touches(log[t]) /\ a[2] \in n.pools /\ (a[1] = "damm" => a[2] \in d.damm) =>
                Rows(n, t, a[1], a[2])
<1> DEFINE tx == log[t]
           logged == TRUE
<1>0. logged \in BOOLEAN /\ n \in Ingested(d, t, logged)
  OBVIOUS
<1> HIDE DEF logged
<1>1. PICK k, m, order :
        /\ k = IF logged THEN ApplyEvents(d, log[t]) ELSE d
        /\ Sound(k) /\ Grows(d, k) /\ (logged => EventApplied(log[t], k))
        /\ order \in SetToSeqs(SwappedPools(k, log[t]))
        /\ m = WriteSwaps(k, t, order) /\ Sound(m) /\ Grows(k, m)
        /\ n = WriteBalanceDeltas(m, t) /\ Sound(n) /\ Grows(m, n)
  BY <1>0, IngestWrites
<1>2. EventApplied(tx, k) /\ Grows(k, n) /\ Grows(d, k)
  BY <1>1, GrowsBoth DEF logged
<1>3. m.pools = k.pools /\ n.pools = k.pools
  <2>1. m.pools = k.pools
    BY <1>1, WriteSwapsSound
  <2> QED BY <1>1, <2>1, WriteDeltasSound
<1>5. tx \in AnyTx
  BY DEF ChainInv
<1>6. tx.op = "launch" => tx.p \in n.pools
  BY <1>2, <1>3 DEF EventApplied
<1> SUFFICES ASSUME NEW a \in Addresses, a \in Touches(tx), a[2] \in n.pools,
                    a[1] = "damm" => a[2] \in d.damm
             PROVE  Rows(n, t, a[1], a[2])
  BY <1>6
<1> DEFINE p == a[2]
<1>4. p \in k.pools /\ p \in m.pools /\ p \in n.pools /\ p \in DbcPools
  BY <1>3, AddressShape
<1>8. p \in SwappedPools(k, tx) =>
        \E r \in n.trades : r.sig = t /\ (r.pool = p \/ Cardinality(Legs(tx)) > 1)
  <2> HAVE p \in SwappedPools(k, tx)
  <2>1. \E r \in m.trades : r.sig = t /\ (r.pool = p \/ Cardinality(Legs(tx)) > 1)
    BY <1>1, TradeWritten
  <2> QED BY <1>1, <2>1 DEF Grows
<1>9. /\ a[1] = "damm" => p \in d.damm
      /\ a[1] \in {"pool", "state", "vault", "mint", "damm", "epoch"}
  BY AddressShape
<1>10. About(tx, p) /\ (a[1] = "epoch" => tx.op \in EpochOps /\ tx.p = p /\ tx.e \in EpochIds)
  BY TouchedIsAbout
<1> HIDE DEF p
<1>7. Rows(n, t, a[1], p) => Rows(n, t, a[1], a[2])
  BY DEF p
<1>11. CASE a[1] = "pool"
  <2>1. p \in Legs(tx) \ OnDamm(tx) => p \in SwappedPools(k, tx)
    BY <1>4 DEF SwappedPools
  <2> QED BY <1>4, <1>7, <1>8, <1>11, <2>1 DEF Rows
<1>12. CASE a[1] = "state"
  <2>1. tx.op = "record" => tx.p = p
    BY <1>10 DEF About
  <2>2. tx.op = "record" => p \in k.damm
    BY <1>2, <1>4, <2>1 DEF EventApplied
  <2>3. tx.op = "record" => p \in n.damm
    BY <1>2, <2>2 DEF Grows
  <2> QED BY <1>4, <1>7, <1>12, <2>3 DEF Rows
<1>13. CASE a[1] = "vault"
  <2>1. tx.op = "open" => tx.p = p /\ HasRow(k, p, tx.e)
    BY <1>2, <1>10 DEF About, EventApplied
  <2>2. tx.op = "open" => HasRow(n, p, tx.e)
    BY <1>2, <2>1 DEF Grows, HasRow
  <2> QED BY <1>7, <1>13, <2>2 DEF Rows
<1>14. CASE a[1] = "mint"
  <2>1. n.moves = m.moves \cup NewMoves(m, t)
    BY <1>1, WriteDeltasSound
  <2>2. \A w \in Holders : Delta(tx, p, w) # 0 => <<t, p, w>> \in n.moves
    BY <1>4, <2>1 DEF NewMoves
  <2> QED BY <1>7, <1>14, <2>2 DEF Rows
<1>15. CASE a[1] = "damm"
  <2>1. p \in k.damm
    BY <1>2, <1>9, <1>15 DEF Grows
  <2>2. p \in OnDamm(tx) => p \in SwappedPools(k, tx)
    BY <1>4, <1>10, <2>1 DEF SwappedPools, OnDamm, Legs, About
  <2> QED BY <1>7, <1>8, <1>15, <2>2 DEF Rows
<1>16. CASE a[1] = "epoch"
  <2>1. tx.op \in EpochOps /\ tx.p = p /\ tx.e \in EpochIds
    BY <1>10, <1>16
  <2>2. tx.op = "open" => HasRow(n, p, tx.e)
    BY <1>2, <2>1 DEF EventApplied, Grows, HasRow
  <2>3. tx.op = "push" => <<p, tx.e, tx.w, 0>> \in n.payouts
    BY <1>2, <2>1 DEF EventApplied, Grows
  <2>4. tx.op = "claim" => <<p, tx.e, tx.w, 1>> \in n.payouts
    BY <1>2, <2>1 DEF EventApplied, Grows
  <2>5. tx.op = "claim" => <<p, tx.e, tx.w>> \in n.claimed
    <3>1. tx.op = "claim" => tx.w \in Holders
      BY <1>5 DEF AnyTx
    <3>2. PayoutsTrue(n)
      BY <1>1 DEF Sound, DbTrue
    <3> QED BY <1>4, <2>1, <2>4, <3>1, <3>2 DEF PayoutsTrue
  <2>6. tx.op = "finalize" => n.epochs[<<p, tx.e>>].finalized
    <3>1. tx.op = "finalize" => HasRow(k, p, tx.e)
      BY <1>1, <2>1, EpochPoolKnown
    <3> QED BY <1>2, <2>1, <3>1 DEF EventApplied, Grows, HasRow
  <2> HIDE DEF tx
  <2>7. tx = log[t]
    BY DEF tx
  <2> QED BY <1>7, <1>16, <2>1, <2>2, <2>3, <2>4, <2>5, <2>6, <2>7 DEF Rows, EpochOps
<1> QED BY <1>9, <1>11, <1>12, <1>13, <1>14, <1>15, <1>16

-----------------------------------------------------------------------------
(***************************************************************************)
(* What is so of the database d, the cursors c, the job j and the gaps g.  *)
(***************************************************************************)
\* A pool is in the table unless its launch was left out.
Ready(d, g, p) == p \in d.pools \/ \E s \in g : LaunchOf(s, p)
KnownCursors(d, c, g) ==
  \A a \in Addresses :
    c[a] > 0 => Ready(d, g, a[2]) /\ (a[1] = "damm" => a[2] \in d.damm)
Covered(d, c, g) ==
  \A a \in Addresses : \A t \in 1..c[a] :
    a \in Touches(log[t]) => Rows(d, t, a[1], a[2]) \/ t \in g
JobListed(d, j) ==
  /\ \A i \in DOMAIN j.addresses : j.addresses[i] \in Scanned(d, j.pool)
  /\ \A i \in DOMAIN j.newest : j.newest[i][1] \in Scanned(d, j.pool)
JobAbout(j) == \A s \in j.sigs : About(log[s], j.pool)
JobReady(d, j, g) ==
  j.sigs # {} \/ j.newest # <<>> =>
    \/ Ready(d, g, j.pool)
    \/ \E l \in j.sigs : LaunchOf(l, j.pool) /\ \A s \in j.sigs : l <= s
NewestCovered(d, j, g) ==
  \A i \in DOMAIN j.newest : \A t \in 1..j.newest[i][2] :
    j.newest[i][1] \in Touches(log[t]) =>
      t \in j.sigs \/ Rows(d, t, j.newest[i][1][1], j.newest[i][1][2]) \/ t \in g

Tracked(d, c, j, g) ==
  /\ g \subseteq DOMAIN log
  /\ KnownCursors(d, c, g) /\ Covered(d, c, g)
  /\ JobListed(d, j) /\ JobAbout(j) /\ JobReady(d, j, g) /\ NewestCovered(d, j, g)

CursorInv == Tracked(db, cursor, job, gaps)

\* What is tracked names the state by its log, database, cursors, job and gaps only.
LEMMA TrackedSameLog ==
  ASSUME log' = log, Tracked(db', cursor', job', gaps')
  PROVE  CursorInv'
<1>1. \A t, kind, p : Rows(db, t, kind, p)' <=> Rows(db', t, kind, p)
  BY DEF Rows
<1>2. \A p : Ready(db, gaps, p)' <=> Ready(db', gaps', p)
  BY DEF Ready, LaunchOf
<1>3. (gaps \subseteq DOMAIN log)' /\ KnownCursors(db, cursor, gaps)' /\ Covered(db, cursor, gaps)'
  BY <1>1, <1>2 DEF Tracked, KnownCursors, Covered
<1>4. JobListed(db, job)' /\ JobAbout(job)'
  BY DEF Tracked, JobListed, Scanned, JobAbout
<1>5. JobReady(db, job, gaps)'
  BY <1>2 DEF Tracked, JobReady, LaunchOf
<1>6. NewestCovered(db, job, gaps)'
  BY <1>1 DEF Tracked, NewestCovered
<1> QED BY <1>3, <1>4, <1>5, <1>6 DEF CursorInv, Tracked

\* Rows and gaps that are added take nothing away.
LEMMA TrackedGrows ==
  ASSUME NEW d, Sound(d), ChainInv, NEW n, Grows(d, n),
         NEW c \in [Addresses -> 0..Len(log)], NEW j, NEW g, Tracked(d, c, j, g),
         NEW h \in SUBSET DOMAIN log, g \subseteq h,
         \A i \in DOMAIN j.newest : j.newest[i][2] \in DOMAIN log
  PROVE  Tracked(n, c, j, h)
<1>1. d.pools \subseteq n.pools /\ d.damm \subseteq n.damm
  BY DEF Grows
<1>2. DOMAIN log = 1..Len(log) /\ Len(log) \in Nat
  BY LogLength
<1>3. \A p : Scanned(d, p) \subseteq Scanned(n, p) /\ Scanned(d, p) \subseteq Addresses
  BY <1>1 DEF Scanned
<1>4. \A p : Ready(d, g, p) => Ready(n, h, p)
  BY <1>1 DEF Ready
<1>5. KnownCursors(n, c, h)
  BY <1>1, <1>4 DEF Tracked, KnownCursors
<1>6. Covered(n, c, h)
  <2> SUFFICES ASSUME NEW a \in Addresses, NEW t \in 1..c[a], a \in Touches(log[t]), t \notin h
               PROVE  Rows(n, t, a[1], a[2])
    BY DEF Covered
  <2>1. t \in DOMAIN log
    BY <1>2
  <2>2. Rows(d, t, a[1], a[2])
    BY DEF Tracked, Covered
  <2> QED BY <2>1, <2>2, RowsRemain
<1>7. JobListed(n, j)
  BY <1>3 DEF Tracked, JobListed
<1>8. JobAbout(j) /\ JobReady(n, j, h)
  BY <1>4 DEF Tracked, JobReady
<1>9. NewestCovered(n, j, h)
  <2> SUFFICES ASSUME NEW i \in DOMAIN j.newest, NEW t \in 1..j.newest[i][2],
                      j.newest[i][1] \in Touches(log[t]), t \notin j.sigs, t \notin h
               PROVE  Rows(n, t, j.newest[i][1][1], j.newest[i][1][2])
    BY DEF NewestCovered
  <2>1. t \in DOMAIN log
    BY <1>2
  <2>2. j.newest[i][1] \in Addresses
    BY <1>3 DEF Tracked, JobListed
  <2>3. Rows(d, t, j.newest[i][1][1], j.newest[i][1][2])
    BY DEF Tracked, NewestCovered
  <2> QED BY <2>1, <2>2, <2>3, RowsRemain
<1> QED BY <1>5, <1>6, <1>7, <1>8, <1>9 DEF Tracked

\* The listing (getSignaturesForAddress) takes what there is beyond the cursor,
\* or leaves it behind as a gap.
LEMMA ListTracked ==
  ASSUME RowsInv, JobType, CursorInv, BackfillList
  PROVE  Tracked(db, cursor, job', gaps')
<1> DEFINE p == job.pool
           a == Head(job.addresses)
           until == IF job.resume THEN cursor[a] ELSE 0
           sigs == SignaturesFor(a, until)
           newest == IF sigs = {} THEN job.newest ELSE Append(job.newest, <<a, Max(sigs)>>)
<1>1. /\ job.addresses \in Seq(Addresses) /\ job.addresses # <<>> /\ p \in DbcPools
      /\ job.newest \in Seq(Addresses \X Nat) /\ job.sigs \subseteq DOMAIN log
      /\ cursor \in [Addresses -> 0..Len(log)]
      /\ \A i \in DOMAIN job.newest : job.newest[i][2] \in DOMAIN log
  BY DEF BackfillList, JobType, Jobs
<1>2. /\ job'.addresses = Tail(job.addresses) /\ job'.sigs = job.sigs \cup sigs
      /\ job'.newest = newest /\ job'.pool = p
      /\ gaps' = gaps \cup (Beyond(a, until) \ sigs)
  BY DEF BackfillList, JobType, Jobs
<1>3. /\ ChainInv /\ DOMAIN log = 1..Len(log) /\ Len(log) \in Nat /\ Sound(db)
      /\ LaunchedFirst
  BY LogLength DEF RowsInv, Sound, ChainInv
<1>4. Beyond(a, until) = {t \in DOMAIN log : a \in Touches(log[t]) /\ t > until}
      /\ sigs \subseteq Beyond(a, until)
  BY DEF Beyond, SignaturesFor
<1>5. /\ a = job.addresses[1] /\ 1 \in DOMAIN job.addresses
      /\ \A i \in DOMAIN Tail(job.addresses) :
           i + 1 \in DOMAIN job.addresses /\ Tail(job.addresses)[i] = job.addresses[i + 1]
  BY <1>1, HeadTailType
<1>6. Tracked(db, cursor, job, gaps) /\ gaps \subseteq DOMAIN log
  BY DEF CursorInv, Tracked
<1>7. a \in Scanned(db, p)
  BY <1>5, <1>6 DEF Tracked, JobListed
<1>8. a \in Addresses /\ a[2] = p /\ (a[1] = "mint" => p \in db.pools)
      /\ (a[1] = "damm" => p \in db.damm)
  BY <1>7 DEF Scanned
<1>9. cursor[a] \in 0..Len(log) /\ until \in 0..Len(log) /\ (until = 0 \/ until = cursor[a])
  BY <1>1, <1>3, <1>8
<1> DEFINE B == Beyond(a, until)
<1>10. sigs \subseteq DOMAIN log /\ gaps' \subseteq DOMAIN log /\ gaps \subseteq gaps' /\ B \ sigs \subseteq gaps'
  BY <1>2, <1>4, <1>6
<1> HIDE DEF p, a, until, sigs, B
<1>11. \A s \in sigs : s \in DOMAIN log /\ a \in Touches(log[s]) /\ About(log[s], p)
  <2>1. \A s \in sigs : s \in DOMAIN log /\ a \in Touches(log[s])
    BY <1>4
  <2> QED BY <1>3, <1>8, <2>1, TouchedIsAbout
<1>12. sigs # {} => Max(sigs) \in sigs
  <2>1. sigs \in SUBSET DOMAIN log
    BY <1>10
  <2> QED BY <1>3, <2>1, NewestTx
<1>13. \A i \in DOMAIN newest :
         \/ i \in DOMAIN job.newest /\ newest[i] = job.newest[i]
         \/ sigs # {} /\ newest[i] = <<a, Max(sigs)>>
  <2>1. CASE sigs = {}
    BY <2>1
  <2>2. CASE sigs # {}
    <3>1. newest = Append(job.newest, <<a, Max(sigs)>>)
      BY <2>2
    <3> QED BY <1>1, <2>2, <3>1
  <2> QED BY <2>1, <2>2
<1>14. Tracked(db, cursor, job, gaps')
  BY <1>1, <1>3, <1>6, <1>10, GrowsBoth, TrackedGrows
<1>15. /\ KnownCursors(db, cursor, gaps') /\ Covered(db, cursor, gaps') /\ JobListed(db, job)
       /\ JobAbout(job) /\ JobReady(db, job, gaps') /\ NewestCovered(db, job, gaps')
  BY <1>14 DEF Tracked
<1>16. sigs = {} => newest = job.newest /\ job'.sigs = job.sigs
  BY <1>2
<1> HIDE DEF newest
<1>17. JobListed(db, job')
  <2>1. \A i \in DOMAIN job'.addresses : job'.addresses[i] \in Scanned(db, p)
    BY <1>2, <1>5, <1>15 DEF JobListed, p
  <2>2. \A i \in DOMAIN newest : newest[i][1] \in Scanned(db, p)
    BY <1>7, <1>13, <1>15 DEF JobListed, p
  <2> QED BY <1>2, <2>1, <2>2 DEF JobListed
<1>18. JobAbout(job')
  BY <1>2, <1>11, <1>15 DEF JobAbout, p
<1>19. JobReady(db, job', gaps')
  <2>1. CASE Ready(db, gaps', p)
    BY <1>2, <2>1 DEF JobReady
  <2>2. CASE sigs = {}
    BY <1>2, <1>15, <1>16, <2>2 DEF JobReady, p
  <2>3. CASE ~Ready(db, gaps', p) /\ sigs # {}
    <3>1. PICK s \in sigs : s \in DOMAIN log /\ a \in Touches(log[s]) /\ About(log[s], p)
      BY <1>11, <2>3
    <3>2. a[1] \in {"pool", "state", "vault"}
      <4>1. p \notin db.pools
        BY <2>3 DEF Ready
      <4>2. a[1] # "epoch"
        BY <1>3, <1>8, <3>1, <4>1, TouchedIsAbout, EpochPoolKnown
      <4>3. a[1] # "damm"
        BY <1>3, <1>8, <4>1 DEF Sound, DbTrue, PoolsTrue
      <4> QED BY <1>8, <4>1, <4>2, <4>3, AddressShape
    <3>3. until = 0
      BY <1>8, <1>9, <1>15, <2>3 DEF KnownCursors
    <3>4. Launched(p)
      BY <1>1, <1>3, <3>1 DEF LaunchedFirst
    <3>5. PICK l \in Txs("launch") : log[l].p = p
      BY <3>4 DEF Launched
    <3>6. l \in DOMAIN log /\ LaunchOf(l, p) /\ l > 0
      BY <1>3, <3>5 DEF Txs, LaunchOf
    <3>7. l \in B
      BY <1>4, <1>8, <3>2, <3>3, <3>5, <3>6, LaunchTouches DEF B
    <3>8. l \in sigs
      BY <1>10, <2>3, <3>6, <3>7 DEF Ready
    <3>9. \A r \in job'.sigs : l <= r
      <4> SUFFICES ASSUME NEW r \in job'.sigs PROVE l <= r
        OBVIOUS
      <4>1. r \in DOMAIN log /\ About(log[r], p)
        BY <1>1, <1>2, <1>11, <1>15 DEF JobAbout, p
      <4> QED BY <1>1, <1>3, <3>5, <4>1 DEF LaunchedFirst
    <3> QED BY <1>2, <3>6, <3>8, <3>9 DEF JobReady
  <2> QED BY <2>1, <2>2, <2>3
<1>20. NewestCovered(db, job', gaps')
  <2> SUFFICES ASSUME NEW i \in DOMAIN newest, NEW t \in 1..newest[i][2],
                      newest[i][1] \in Touches(log[t]), t \notin job.sigs \cup sigs, t \notin gaps'
               PROVE  Rows(db, t, newest[i][1][1], newest[i][1][2])
    BY <1>2 DEF NewestCovered
  <2>1. CASE i \in DOMAIN job.newest /\ newest[i] = job.newest[i]
    BY <1>15, <2>1 DEF NewestCovered
  <2>2. CASE sigs # {} /\ newest[i] = <<a, Max(sigs)>>
    <3>1. Max(sigs) \in DOMAIN log
      BY <1>10, <1>12, <2>2
    <3>2. newest[i][1] = a /\ newest[i][2] = Max(sigs)
      BY <2>2
    <3>3. t \in DOMAIN log /\ a \in Touches(log[t])
      BY <1>3, <3>1, <3>2
    <3>4. t \notin B
      BY <1>10
    <3>5. ~(t > until)
      BY <1>4, <3>3, <3>4 DEF B
    <3>6. t \in 1..cursor[a]
      BY <1>3, <1>9, <3>3, <3>5
    <3> QED BY <1>8, <1>15, <3>2, <3>3, <3>6 DEF Covered
  <2> QED BY <1>13, <2>1, <2>2
<1> QED BY <1>10, <1>15, <1>17, <1>18, <1>19, <1>20 DEF Tracked

\* What a run ingests has the rows of its addresses, or its pool is unknown
\* because the launch was left out, and then it is a gap.
LEMMA IngestTracked ==
  ASSUME RowsInv, JobType, CursorInv, BackfillIngest
  PROVE  Tracked(db', cursor, job', gaps')
<1> DEFINE t == Min(job.sigs)
           p == job.pool
<1>1. /\ job.sigs \subseteq DOMAIN log /\ job.sigs # {} /\ p \in DbcPools
      /\ cursor \in [Addresses -> 0..Len(log)]
      /\ \A i \in DOMAIN job.newest : job.newest[i][2] \in DOMAIN log
  BY DEF BackfillIngest, JobType, Jobs
<1>2. /\ job'.addresses = job.addresses /\ job'.sigs = job.sigs \ {t}
      /\ job'.newest = job.newest /\ job'.pool = p
      /\ gaps' = IF Orphan(db', t) THEN gaps \cup {t} ELSE gaps \ {t}
  BY DEF BackfillIngest, JobType, Jobs
<1>3. ChainInv /\ Sound(db) /\ Tracked(db, cursor, job, gaps) /\ gaps \subseteq DOMAIN log
      /\ DOMAIN log = 1..Len(log) /\ Len(log) \in Nat
  BY LogLength DEF RowsInv, Sound, CursorInv, Tracked
<1>4. t \in job.sigs /\ \A s \in job.sigs : t <= s
  BY <1>1, <1>3, NewestTx
<1>5. db' \in Ingested(db, t, TRUE)
  BY DEF BackfillIngest
<1> HIDE DEF t, p
<1>6. t \in DOMAIN log
  BY <1>1, <1>4
<1>7. /\ log[t].op = "launch" => log[t].p \in db'.pools
      /\ \A a \in Addresses :
           a \in Touches(log[t]) /\ a[2] \in db'.pools /\ (a[1] = "damm" => a[2] \in db.damm) =>
             Rows(db', t, a[1], a[2])
  BY <1>3, <1>5, <1>6, IngestCovers
<1>8. Sound(db') /\ Grows(db, db')
  <2> DEFINE logged == TRUE
  <2>1. logged \in BOOLEAN /\ db' \in Ingest(db, t, logged)
    BY <1>5 DEF Ingest
  <2> HIDE DEF logged
  <2> QED BY <1>3, <1>6, <2>1, IngestSound
<1>9. Tracked(db', cursor, job, gaps)
  BY <1>1, <1>3, <1>8, TrackedGrows
<1>10. gaps' \subseteq DOMAIN log /\ (\A s \in gaps : s # t => s \in gaps')
       /\ (Orphan(db', t) => t \in gaps')
  BY <1>2, <1>3, <1>6
<1>11. ASSUME NEW q \in DbcPools, Ready(db', gaps, q) \/ LaunchOf(t, q)
       PROVE  Ready(db', gaps', q)
  <2>1. CASE q \in db'.pools
    BY <2>1 DEF Ready
  <2>2. CASE LaunchOf(t, q)
    BY <1>7, <2>2 DEF LaunchOf, Ready
  <2>3. ASSUME NEW s \in gaps, LaunchOf(s, q), ~LaunchOf(t, q)
        PROVE  Ready(db', gaps', q)
    BY <1>10, <2>3 DEF Ready
  <2> QED BY <1>11, <2>1, <2>2, <2>3 DEF Ready
<1>12. ASSUME NEW a \in Addresses, a \in Touches(log[t]), a[1] = "damm" => a[2] \in db.damm,
              Ready(db', gaps, a[2]) \/ LaunchOf(t, a[2])
       PROVE  Rows(db', t, a[1], a[2]) \/ t \in gaps'
  <2>1. CASE a[2] \in db'.pools
    BY <1>7, <1>12, <2>1
  <2>2. CASE a[2] \notin db'.pools
    <3>1. \E s \in gaps : LaunchOf(s, a[2])
      BY <1>7, <1>12, <2>2 DEF Ready, LaunchOf
    <3>2. a[2] \in DbcPools \ db'.pools /\ About(log[t], a[2])
      BY <1>3, <1>6, <1>12, <2>2, TouchedIsAbout, AddressShape
    <3> QED BY <1>10, <3>1, <3>2 DEF Orphan
  <2> QED BY <2>1, <2>2
<1>13. KnownCursors(db', cursor, gaps')
  BY <1>9, <1>11, AddressShape DEF Tracked, KnownCursors
<1>14. Covered(db', cursor, gaps')
  <2> SUFFICES ASSUME NEW a \in Addresses, NEW s \in 1..cursor[a], a \in Touches(log[s])
               PROVE  Rows(db', s, a[1], a[2]) \/ s \in gaps'
    BY DEF Covered
  <2>1. CASE s = t
    <3>1. cursor[a] > 0
      BY <1>1, <1>3
    <3>2. Ready(db, gaps, a[2]) /\ (a[1] = "damm" => a[2] \in db.damm)
      BY <1>3, <3>1 DEF Tracked, KnownCursors
    <3>3. Ready(db', gaps, a[2])
      BY <1>8, <3>2 DEF Ready, Grows
    <3> QED BY <1>12, <2>1, <3>2, <3>3
  <2>2. CASE s # t
    BY <1>9, <1>10, <2>2 DEF Tracked, Covered
  <2> QED BY <2>1, <2>2
<1>15. JobListed(db', job') /\ JobAbout(job')
  BY <1>2, <1>9 DEF Tracked, JobListed, JobAbout, p
<1>16. Ready(db', gaps, p) \/ LaunchOf(t, p)
  <2>1. JobReady(db', job, gaps)
    BY <1>9 DEF Tracked
  <2>2. CASE ~Ready(db', gaps, p)
    <3>1. PICK l \in job.sigs : LaunchOf(l, p) /\ \A s \in job.sigs : l <= s
      BY <1>1, <2>1, <2>2 DEF JobReady, p
    <3>2. l \in Nat /\ t \in Nat /\ l <= t /\ t <= l
      BY <1>1, <1>3, <1>4, <1>6, <3>1
    <3>3. l = t
      BY <3>2
    <3> QED BY <3>1, <3>3
  <2> QED BY <2>2
<1>17. JobReady(db', job', gaps')
  BY <1>1, <1>2, <1>11, <1>16 DEF JobReady
<1>18. NewestCovered(db', job', gaps')
  <2> SUFFICES ASSUME NEW i \in DOMAIN job.newest, NEW s \in 1..job.newest[i][2],
                      job.newest[i][1] \in Touches(log[s]), s \notin job.sigs \ {t}
               PROVE  Rows(db', s, job.newest[i][1][1], job.newest[i][1][2]) \/ s \in gaps'
    BY <1>2 DEF NewestCovered
  <2>1. CASE s = t
    <3>1. job.newest[i][1] \in Scanned(db, p)
      BY <1>3 DEF Tracked, JobListed, p
    <3>2. /\ job.newest[i][1] \in Addresses /\ job.newest[i][1][2] = p
          /\ job.newest[i][1][1] = "damm" => p \in db.damm
      BY <3>1 DEF Scanned
    <3> QED BY <1>12, <1>16, <2>1, <3>2
  <2>2. CASE s # t
    BY <1>9, <1>10, <2>2 DEF Tracked, NewestCovered
  <2> QED BY <2>1, <2>2
<1> QED BY <1>10, <1>13, <1>14, <1>15, <1>17, <1>18 DEF Tracked

\* What a run leaves out is a gap.
LEMMA SkipTracked ==
  ASSUME RowsInv, JobType, CursorInv, BackfillSkips
  PROVE  Tracked(db', cursor, job', gaps')
<1> DEFINE t == Min(job.sigs)
<1>1. /\ job.sigs \subseteq DOMAIN log /\ job.sigs # {}
      /\ cursor \in [Addresses -> 0..Len(log)]
      /\ \A i \in DOMAIN job.newest : job.newest[i][2] \in DOMAIN log
  BY DEF BackfillSkips, JobType, Jobs
<1>2. /\ job'.addresses = job.addresses /\ job'.sigs = job.sigs \ {t}
      /\ job'.newest = job.newest /\ job'.pool = job.pool /\ gaps' = gaps \cup {t}
  BY DEF BackfillSkips, JobType, Jobs
<1>3. ChainInv /\ Sound(db) /\ Tracked(db, cursor, job, gaps) /\ gaps \subseteq DOMAIN log
      /\ DOMAIN log = 1..Len(log)
  BY LogLength DEF RowsInv, Sound, CursorInv, Tracked
<1>4. t \in job.sigs /\ \A s \in job.sigs : t <= s
  BY <1>1, <1>3, NewestTx
<1>5. \E logged \in BOOLEAN : db' \in Ingest(db, t, logged)
  BY DEF BackfillSkips
<1> HIDE DEF t
<1>6. t \in DOMAIN log /\ gaps' \subseteq DOMAIN log /\ gaps \subseteq gaps' /\ t \in gaps'
  BY <1>1, <1>2, <1>3, <1>4
<1>7. Grows(db, db')
  BY <1>3, <1>5, <1>6, IngestSound
<1>8. Tracked(db', cursor, job, gaps')
  BY <1>1, <1>3, <1>6, <1>7, TrackedGrows
<1>9. JobListed(db', job') /\ JobAbout(job')
  BY <1>2, <1>8 DEF Tracked, JobListed, JobAbout
<1>10. JobReady(db', job', gaps')
  <2>1. CASE Ready(db', gaps', job.pool)
    BY <1>2, <2>1 DEF JobReady
  <2>2. CASE ~Ready(db', gaps', job.pool)
    <3>1. PICK l \in job.sigs : LaunchOf(l, job.pool) /\ \A s \in job.sigs : l <= s
      BY <1>1, <1>8, <2>2 DEF Tracked, JobReady
    <3>2. l # t
      BY <1>6, <2>2, <3>1 DEF Ready
    <3> QED BY <1>2, <3>1, <3>2 DEF JobReady
  <2> QED BY <2>1, <2>2
<1>11. NewestCovered(db', job', gaps')
  BY <1>2, <1>6, <1>8 DEF Tracked, NewestCovered
<1> QED BY <1>6, <1>8, <1>9, <1>10, <1>11 DEF Tracked

\* A cursor moves once everything listed up to it is ingested or a gap.
LEMMA AdvanceTracked ==
  ASSUME RowsInv, JobType, CursorInv, BackfillAdvance, job.newest # <<>>
  PROVE  Tracked(db, cursor', job', gaps)
<1> DEFINE x == Head(job.newest)
<1>1. /\ job.newest \in Seq(Addresses \X Nat) /\ job.sigs = {}
      /\ cursor \in [Addresses -> 0..Len(log)]
      /\ cursor' = [cursor EXCEPT ![x[1]] = x[2]]
  BY DEF BackfillAdvance, JobType, Jobs
<1>2. /\ job'.addresses = job.addresses /\ job'.sigs = job.sigs
      /\ job'.newest = Tail(job.newest) /\ job'.pool = job.pool
  BY DEF BackfillAdvance, JobType, Jobs
<1>3. /\ gaps \subseteq DOMAIN log
      /\ KnownCursors(db, cursor, gaps) /\ Covered(db, cursor, gaps) /\ JobListed(db, job)
      /\ JobAbout(job) /\ JobReady(db, job, gaps) /\ NewestCovered(db, job, gaps)
  BY DEF CursorInv, Tracked
<1>4. /\ x = job.newest[1] /\ 1 \in DOMAIN job.newest /\ x \in Addresses \X Nat
      /\ \A i \in DOMAIN Tail(job.newest) :
           i + 1 \in DOMAIN job.newest /\ Tail(job.newest)[i] = job.newest[i + 1]
  BY <1>1, HeadTailType
<1> HIDE DEF x
<1>5. x[1] \in Addresses /\ x[2] \in Nat
  BY <1>4
<1>6. Ready(db, gaps, job.pool)
  BY <1>1, <1>3 DEF JobReady
<1>7. x[1][2] = job.pool /\ (x[1][1] = "damm" => job.pool \in db.damm)
  BY <1>3, <1>4 DEF JobListed, Scanned
<1>8. KnownCursors(db, cursor', gaps)
  BY <1>1, <1>3, <1>5, <1>6, <1>7 DEF KnownCursors
<1>9. Covered(db, cursor', gaps)
  <2> SUFFICES ASSUME NEW a \in Addresses, NEW t \in 1..cursor'[a], a \in Touches(log[t])
               PROVE  Rows(db, t, a[1], a[2]) \/ t \in gaps
    BY DEF Covered
  <2>1. CASE a = x[1]
    <3>1. t \in 1..x[2]
      BY <1>1, <1>5, <2>1
    <3> QED BY <1>1, <1>3, <1>4, <2>1, <3>1 DEF NewestCovered
  <2>2. CASE a # x[1]
    <3>1. cursor'[a] = cursor[a]
      BY <1>1, <2>2
    <3> QED BY <1>3, <3>1 DEF Covered
  <2> QED BY <2>1, <2>2
<1>10. JobListed(db, job')
  BY <1>2, <1>3, <1>4 DEF JobListed
<1>11. JobAbout(job') /\ JobReady(db, job', gaps)
  BY <1>2, <1>3, <1>6 DEF JobAbout, JobReady
<1>12. NewestCovered(db, job', gaps)
  BY <1>2, <1>3, <1>4 DEF NewestCovered
<1> QED BY <1>3, <1>8, <1>9, <1>10, <1>11, <1>12 DEF Tracked

\* A job that has listed nothing yet.
LEMMA FreshTracked ==
  ASSUME NEW d, NEW c, NEW g \in SUBSET DOMAIN log, KnownCursors(d, c, g), Covered(d, c, g),
         NEW j, j.addresses = <<>>, j.sigs = {}, j.newest = <<>>
  PROVE  Tracked(d, c, j, g)
<1>1. DOMAIN j.addresses = {} /\ DOMAIN j.newest = {}
  OBVIOUS
<1> QED BY <1>1 DEF Tracked, JobListed, JobAbout, JobReady, NewestCovered

\* What lands is newer than every cursor and every listing.
LEMMA LandingTracked ==
  ASSUME RowsInv, JobType, CursorInv, TxLands
  PROVE  CursorInv'
<1>1. PICK tx \in Transactions : log' = Append(log, tx)
  BY DEF TxLands
<1>2. db' = db /\ cursor' = cursor /\ job' = job /\ gaps' = gaps
  BY DEF TxLands
<1>3. tx \in AnyTx /\ ChainInv
  BY LandingType DEF RowsInv
<1>4. /\ log' \in Seq(AnyTx) /\ Len(log') = Len(log) + 1
      /\ (DOMAIN log)' = DOMAIN log \cup {Len(log) + 1}
      /\ \A t \in DOMAIN log : log'[t] = log[t]
      /\ log'[Len(log) + 1] = tx
  BY <1>1, <1>3, Appended
<1>5. /\ Tracked(db, cursor, job, gaps) /\ gaps \subseteq DOMAIN log
      /\ DOMAIN log = 1..Len(log) /\ Len(log) \in Nat
      /\ cursor \in [Addresses -> 0..Len(log)] /\ job.sigs \subseteq DOMAIN log
      /\ \A i \in DOMAIN job.newest : job.newest[i][2] \in DOMAIN log
  BY <1>3, LogLength DEF CursorInv, Tracked, JobType, Jobs
<1>6. \A t \in DOMAIN log : \A p : LaunchOf(t, p)' <=> LaunchOf(t, p)
  BY <1>4 DEF LaunchOf
<1>7. \A p : Ready(db, gaps, p)' <=> Ready(db, gaps, p)
  BY <1>2, <1>5, <1>6 DEF Ready
<1>8. ASSUME NEW t \in DOMAIN log, NEW kind, NEW p
      PROVE  Rows(db, t, kind, p)' <=> Rows(db, t, kind, p)
  <2>1. log'[t] = log[t] /\ db' = db
    BY <1>2, <1>4
  <2> QED BY <2>1 DEF Rows
<1>9. KnownCursors(db, cursor, gaps)' /\ JobListed(db, job)' /\ (gaps \subseteq DOMAIN log)'
  BY <1>2, <1>4, <1>5, <1>7 DEF Tracked, KnownCursors, JobListed, Scanned
<1>10. Covered(db, cursor, gaps)'
  <2> SUFFICES ASSUME NEW a \in Addresses, NEW t \in 1..cursor[a], a \in Touches(log'[t]),
                      t \notin gaps
               PROVE  Rows(db, t, a[1], a[2])'
    BY <1>2 DEF Covered
  <2>1. t \in DOMAIN log /\ log'[t] = log[t]
    BY <1>4, <1>5
  <2>2. Rows(db, t, a[1], a[2])
    BY <1>5, <2>1 DEF Tracked, Covered
  <2> QED BY <1>8, <2>1, <2>2
<1>11. JobAbout(job)' /\ JobReady(db, job, gaps)'
  <2>1. \A s \in job.sigs : log'[s] = log[s] /\ \A p : LaunchOf(s, p)' <=> LaunchOf(s, p)
    BY <1>4, <1>5, <1>6
  <2>2. JobAbout(job)'
    BY <1>2, <1>5, <2>1 DEF Tracked, JobAbout
  <2> QED BY <1>2, <1>5, <1>7, <2>1, <2>2 DEF Tracked, JobReady
<1>12. NewestCovered(db, job, gaps)'
  <2> SUFFICES ASSUME NEW i \in DOMAIN job.newest, NEW t \in 1..job.newest[i][2],
                      job.newest[i][1] \in Touches(log'[t]), t \notin job.sigs, t \notin gaps
               PROVE  Rows(db, t, job.newest[i][1][1], job.newest[i][1][2])'
    BY <1>2 DEF NewestCovered
  <2>1. t \in DOMAIN log /\ log'[t] = log[t]
    BY <1>4, <1>5
  <2>2. Rows(db, t, job.newest[i][1][1], job.newest[i][1][2])
    BY <1>5, <2>1 DEF Tracked, NewestCovered
  <2> QED BY <1>2, <1>8, <2>1, <2>2
<1> QED BY <1>9, <1>10, <1>11, <1>12 DEF CursorInv, Tracked

\* No step puts a cursor beyond what is missing and no gap.
LEMMA CursorStep ==
  RowsInv /\ JobType /\ CursorInv /\ [IndexerNext]_indexerVars => CursorInv'
<1> SUFFICES ASSUME RowsInv, JobType, CursorInv, [IndexerNext]_indexerVars PROVE CursorInv'
  OBVIOUS
<1>1. /\ Tracked(db, cursor, job, gaps) /\ Sound(db) /\ ChainInv /\ gaps \in SUBSET DOMAIN log
      /\ cursor \in [Addresses -> 0..Len(log)]
      /\ \A i \in DOMAIN job.newest : job.newest[i][2] \in DOMAIN log
  BY DEF CursorInv, Tracked, RowsInv, Sound, JobType
<1>2. log' = log /\ Tracked(db', cursor', job', gaps') => CursorInv'
  BY TrackedSameLog
<1>3. ASSUME Sound(db), Grows(db, db'), UNCHANGED <<log, cursor, job, gaps>>
      PROVE  CursorInv'
  <2>1. Tracked(db', cursor, job, gaps)
    BY <1>1, <1>3, TrackedGrows
  <2> QED BY <1>2, <1>3, <2>1
<1>4. CASE TxLands
  BY <1>4, LandingTracked
<1>5. ASSUME NEW t \in DOMAIN log, NEW logged \in BOOLEAN, Webhook(t, logged)
      PROVE  CursorInv'
  BY <1>1, <1>3, <1>5, WebhookSound DEF Webhook
<1>6. CASE Writers
  BY <1>1, <1>3, <1>6, WritersSound
<1>7. ASSUME NEW p \in DbcPools, NEW resume \in BOOLEAN, BackfillStart(p, resume)
      PROVE  CursorInv'
  <2>1. Grows(db, db') /\ log' = log /\ cursor' = cursor /\ gaps' = gaps
    BY <1>1, <1>7, ReconcileSound DEF BackfillStart
  <2>2. Tracked(db', cursor, job, gaps)
    BY <1>1, <2>1, TrackedGrows
  <2>3. job'.addresses = <<>> /\ job'.sigs = {} /\ job'.newest = <<>>
    BY <1>7, IdleType DEF BackfillStart
  <2>4. Tracked(db', cursor', job', gaps')
    BY <1>1, <2>1, <2>2, <2>3, FreshTracked DEF Tracked
  <2> QED BY <1>2, <2>1, <2>4
<1>8. CASE BackfillAddresses
  <2>1. /\ job'.addresses = AddressesFor(job.pool) /\ job'.sigs = job.sigs
        /\ job'.newest = job.newest /\ job'.pool = job.pool /\ job.pool \in DbcPools
        /\ UNCHANGED <<log, db, cursor, gaps>>
    BY <1>8 DEF BackfillAddresses, JobType, Jobs
  <2>2. AddressesFor(job.pool) \in Seq(Scanned(db, job.pool))
    BY <2>1, AddressesType
  <2>3. \A i \in DOMAIN job'.addresses : job'.addresses[i] \in Scanned(db, job.pool)
    BY <2>1, <2>2
  <2>4. Tracked(db', cursor', job', gaps')
    BY <1>1, <2>1, <2>3 DEF Tracked, JobListed, JobAbout, JobReady, NewestCovered
  <2> QED BY <1>2, <2>1, <2>4
<1>9. CASE BackfillList
  <2>1. UNCHANGED <<log, db, cursor>>
    BY <1>9 DEF BackfillList
  <2>2. Tracked(db, cursor, job', gaps')
    BY <1>9, ListTracked
  <2> QED BY <1>2, <2>1, <2>2
<1>10. CASE BackfillIngest \/ BackfillSkips
  <2>1. log' = log /\ cursor' = cursor
    BY <1>10 DEF BackfillIngest, BackfillSkips
  <2>2. Tracked(db', cursor, job', gaps')
    BY <1>10, IngestTracked, SkipTracked
  <2> QED BY <1>2, <2>1, <2>2
<1>11. ASSUME job' = Idle, UNCHANGED <<log, db, cursor, gaps>>
       PROVE  CursorInv'
  <2>1. job'.addresses = <<>> /\ job'.sigs = {} /\ job'.newest = <<>>
    BY <1>11, IdleType
  <2>2. Tracked(db', cursor', job', gaps')
    BY <1>1, <1>11, <2>1, FreshTracked DEF Tracked
  <2> QED BY <1>2, <1>11, <2>2
<1>12. CASE BackfillAdvance
  <2>1. log' = log /\ db' = db /\ gaps' = gaps
    BY <1>12 DEF BackfillAdvance
  <2>2. CASE job.newest = <<>>
    BY <1>11, <1>12, <2>1, <2>2 DEF BackfillAdvance
  <2>3. CASE job.newest # <<>>
    BY <1>2, <1>12, <2>1, <2>3, AdvanceTracked
  <2> QED BY <2>2, <2>3
<1>13. CASE BackfillDies
  BY <1>11, <1>13 DEF BackfillDies
<1>14. CASE UNCHANGED indexerVars
  <2>1. UNCHANGED <<log, db, cursor, job, gaps>>
    BY <1>14 DEF indexerVars
  <2> QED BY <1>1, <1>2, <2>1
<1> QED
  BY <1>4, <1>5, <1>6, <1>7, <1>8, <1>9, <1>10, <1>12, <1>13, <1>14 DEF IndexerNext, Backfill

\* --resume (backfill.ts) may start at a cursor: of what lies at or before it,
\* nothing lacks its rows but what the last run that met it cut off at --limit,
\* skipped as pruned, failed on, or ingested without the pool whose launch was
\* left out; not what was lost, interrupted, repeated or landed meanwhile.
THEOREM CursorsStayCovered == IndexerSpec => []CursorCovers
<1>1. IndexerInit => CursorInv
  <2> SUFFICES ASSUME IndexerInit PROVE CursorInv
    OBVIOUS
  <2>1. cursor = [a \in Addresses |-> 0] /\ job = Idle /\ gaps = {}
    BY DEF IndexerInit
  <2>2. KnownCursors(db, cursor, gaps) /\ Covered(db, cursor, gaps)
    BY <2>1 DEF KnownCursors, Covered
  <2> QED BY <2>1, <2>2, FreshTracked, IdleType DEF CursorInv
<1>2. RowsInv /\ JobType /\ CursorInv /\ [IndexerNext]_indexerVars => CursorInv'
  BY CursorStep
<1>3. CursorInv => CursorCovers
  BY RowsOfDb DEF CursorInv, Tracked, Covered, CursorCovers
<1> QED BY <1>1, <1>2, <1>3, RowsStayTrue, PTL DEF IndexerSpec
=============================================================================
