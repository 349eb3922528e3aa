-------------------------- MODULE MigrationProofs --------------------------
(***************************************************************************)
(* Theorems about Migration: that the keeper's cycles only ever run the    *)
(* router's own instructions, and that, as long as a pool graduates only   *)
(* after the table has caught up with those before it, the router's record *)
(* of a pool and the keeper's row both name the pool's own position.       *)
(***************************************************************************)
EXTENDS Migration, FeeRouterProofs

(***************************************************************************)
(* The invariant.                                                          *)
(***************************************************************************)
AtPool == {"state", "migrate", "known", "find", "record", "mark"}

\* The tables and the locals of the cycle have the shape the code gives them.
RowsType ==
  rows \in [Pools -> [listed : BOOLEAN, migrated : BOOLEAN, damm : Positions \cup {NoPosition}]]
CycleType ==
  /\ cycle \in [at : AtPool \cup {"idle", "loop"}, todo : SUBSET Pools,
                pool : Pools \cup {NoPosition}, known : SUBSET Positions,
                pos : Positions \cup {NoPosition}]
  /\ cycle.at \in AtPool => cycle.pool \in Pools
  /\ cycle.at \notin AtPool => cycle.pool = NoPosition
  /\ cycle.at \in {"record", "mark"} => cycle.pos \in Positions
SentType == flight \subseteq Pools \X Positions /\ events \subseteq Pools \X Positions
KeeperType == RowsType /\ CycleType /\ SentType

\* The position x is the one that graduation gave the router for pool p.
Own(p, x) == damm[x].owned /\ BaseOf[x] = p

\* Graduation gives the router one position per pool, and nothing else does.
OwnedOnce ==
  /\ \A x \in Positions : damm[x].owned => curve[BaseOf[x]].migrated
  /\ \A x, y \in Positions : damm[x].owned /\ damm[y].owned /\ BaseOf[x] = BaseOf[y] => x = y

\* Of the pools that have graduated, at most one is not settled.
Lonely ==
  \A i, j \in Pools :
    curve[i].migrated /\ curve[j].migrated /\ i # j => Handled(i) \/ Handled(j)

\* Records, transactions in flight and events name the pool's own position.
RecordsOwn ==
  /\ \A p \in Pools :
       pool[p].migrated => pool[p].damm_position \in Positions /\ Own(p, pool[p].damm_position)
  /\ \A p \in Pools, x \in Positions : <<p, x>> \in flight => Own(p, x)
  /\ \A p \in Pools, x \in Positions :
       <<p, x>> \in events => pool[p].migrated /\ pool[p].damm_position = x

\* The pool in hand has graduated; every other one that has is among the known
\* by its position, so that what the cycle finds is the pool's own.
CycleOwn ==
  LET p == cycle.pool IN
  /\ cycle.at \in {"known", "find", "record", "mark"} => curve[p].migrated
  /\ cycle.at = "find" =>
       \A x \in Positions : damm[x].owned /\ BaseOf[x] # p => x \in cycle.known
  /\ cycle.at \in {"record", "mark"} => Own(p, cycle.pos)
  /\ cycle.at = "mark" => pool[p].migrated /\ pool[p].damm_position = cycle.pos

MInv ==
  /\ IInv /\ KeeperType /\ OwnedOnce
  /\ Lonely /\ RecordsOwn /\ RowsMatchRecords /\ CycleOwn

(***************************************************************************)
(* Every step of the composed system is a step of the router.              *)
(***************************************************************************)
LEMMA RowWith ==
  ASSUME RowsType, NEW p \in Pools, NEW x \in Positions,
         \/ rows' = [rows EXCEPT ![p].listed = TRUE]
         \/ rows' = [rows EXCEPT ![p].migrated = TRUE, ![p].damm = x]
         \/ UNCHANGED rows
  PROVE  RowsType'
  BY DEF RowsType

LEMMA CycleEnds ==
  ASSUME CycleType, cycle' \in {cycle, Idle, NextPool}
  PROVE  CycleType'
<1> USE DEF CycleType, AtPool
<1>1. CASE cycle' = cycle
  BY <1>1
<1>2. CASE cycle' = Idle
  BY <1>2 DEF Idle
<1>3. CASE cycle' = NextPool
  BY <1>3 DEF NextPool
<1> QED BY <1>1, <1>2, <1>3

\* How each action of the migrate cycle moves it on.
LEMMA CycleMoves ==
  ASSUME KeeperType, MigrateStep
  PROVE  CycleType'
<1> USE DEF AtPool
<1>0. CycleType /\ RowsType
  BY DEF KeeperType
<1>1. CASE StartCycle
  <2> DEFINE todo == {p \in Pools : rows[p].listed /\ ~rows[p].migrated}
  <2>1. cycle' = [at |-> "loop", todo |-> todo, pool |-> NoPosition, known |-> {},
                  pos |-> NoPosition]
    BY <1>1 DEF StartCycle, Idle
  <2>2. todo \subseteq Pools
    OBVIOUS
  <2> HIDE DEF todo
  <2> QED BY <2>1, <2>2 DEF CycleType
<1>2. CASE EndCycle
  BY <1>0, <1>2, CycleEnds DEF EndCycle
<1>3. CASE \E p \in Pools : TakePool(p)
  <2>1. PICK p \in Pools : TakePool(p)
    BY <1>3
  <2> QED BY <1>0, <2>1 DEF TakePool, CycleType
<1>4. CASE cycle' = NextPool
  BY <1>0, <1>4, CycleEnds
<1>5. CASE /\ cycle.at \in {"state", "migrate"}
           /\ cycle' = [cycle EXCEPT !.at = "known"] \/ cycle' = [cycle EXCEPT !.at = "migrate"]
  BY <1>0, <1>5 DEF CycleType
<1>6. CASE ReadKnown
  <2> DEFINE known == {rows[p].damm : p \in Pools} \ {NoPosition}
  <2>1. known \subseteq Positions
    BY <1>0 DEF RowsType
  <2>2. cycle.at = "known" /\ cycle' = [cycle EXCEPT !.at = "find", !.known = known]
    BY <1>6 DEF ReadKnown
  <2> HIDE DEF known
  <2> QED BY <1>0, <2>1, <2>2 DEF CycleType
<1>7. CASE cycle.at = "find" /\ \E x \in Positions : cycle' = [cycle EXCEPT !.at = "record", !.pos = x]
  BY <1>0, <1>7 DEF CycleType
<1>8. CASE cycle.at = "record" /\ cycle' = [cycle EXCEPT !.at = "mark"]
  BY <1>0, <1>8 DEF CycleType
<1>9. ReadState \/ SendMigrate \/ FindPosition \/ SendRecord \/ MarkMigrated =>
        \/ cycle' = NextPool
        \/ /\ cycle.at \in {"state", "migrate"}
           /\ cycle' = [cycle EXCEPT !.at = "known"] \/ cycle' = [cycle EXCEPT !.at = "migrate"]
        \/ /\ cycle.at = "find"
           /\ \E x \in Positions : cycle' = [cycle EXCEPT !.at = "record", !.pos = x]
        \/ cycle.at = "record" /\ cycle' = [cycle EXCEPT !.at = "mark"]
  BY DEF ReadState, SendMigrate, FindPosition, SendRecord, MarkMigrated
<1> QED BY <1>1, <1>2, <1>3, <1>4, <1>5, <1>6, <1>7, <1>8, <1>9 DEF MigrateStep

LEMMA NextKeeperType == KeeperType /\ [MigrationNext]_migrationVars => KeeperType'
<1> SUFFICES ASSUME KeeperType, [MigrationNext]_migrationVars PROVE KeeperType'
  OBVIOUS
<1>0. RowsType /\ CycleType /\ SentType
  BY DEF KeeperType
<1>1. CASE UNCHANGED keeperVars
  BY <1>1 DEF KeeperType, RowsType, CycleType, SentType, keeperVars
<1>2. CASE MigrateStep
  <2>1. CycleType'
    BY <1>2, CycleMoves
  <2>2. CASE ~SendRecord /\ ~MarkMigrated
    BY <1>0, <1>2, <2>1, <2>2
    DEF MigrateStep, StartCycle, EndCycle, TakePool, ReadState, SendMigrate, ReadKnown,
        FindPosition, KeeperType, RowsType, SentType
  <2>3. CASE SendRecord
    <3>1. cycle.pool \in Pools /\ cycle.pos \in Positions
      BY <1>0, <2>3 DEF SendRecord, CycleType, AtPool
    <3>2. /\ UNCHANGED rows
          /\ flight' \subseteq flight \cup {<<cycle.pool, cycle.pos>>}
          /\ events' \subseteq events \cup {<<cycle.pool, cycle.pos>>}
      BY <2>3 DEF SendRecord, Emit
    <3> QED BY <1>0, <2>1, <3>1, <3>2 DEF KeeperType, RowsType, SentType
  <2>4. CASE MarkMigrated
    <3>1. cycle.pool \in Pools /\ cycle.pos \in Positions
      BY <1>0, <2>4 DEF MarkMigrated, CycleType, AtPool
    <3>2. RowsType'
      BY <1>0, <2>4, <3>1, RowWith DEF MarkMigrated
    <3> QED BY <1>0, <2>1, <2>4, <3>2 DEF MarkMigrated, KeeperType, SentType
  <2> QED BY <2>2, <2>3, <2>4
<1>3. CASE \E p \in Pools, x \in Positions : LandLate(p, x) \/ IngestRecorded(p, x)
  <2>1. PICK p \in Pools, x \in Positions : LandLate(p, x) \/ IngestRecorded(p, x)
    BY <1>3
  <2>2. CASE LandLate(p, x)
    BY <1>0, <2>2 DEF LandLate, Emit, KeeperType, RowsType, CycleType, SentType
  <2>3. CASE IngestRecorded(p, x)
    <3>1. RowsType'
      BY <1>0, <2>3, RowWith DEF IngestRecorded
    <3> QED BY <1>0, <2>3, <3>1 DEF IngestRecorded, KeeperType, CycleType, SentType
  <2> QED BY <2>1, <2>2, <2>3
<1>4. CASE \E p \in Pools : IngestRegistered(p)
  <2>1. PICK p \in Pools : IngestRegistered(p)
    BY <1>4
  <2>2. RowsType'
    BY <1>0, <2>1 DEF IngestRegistered, RowsType
  <2> QED BY <1>0, <2>1, <2>2 DEF IngestRegistered, KeeperType, CycleType, SentType
<1>5. CASE ReadFails \/ Restart
  <2>1. CycleType'
    BY <1>0, <1>5, CycleEnds DEF ReadFails, Restart
  <2> QED BY <1>0, <1>5, <2>1 DEF ReadFails, Restart, KeeperType, RowsType, SentType
<1>6. ClaimStep => UNCHANGED keeperVars
  BY DEF ClaimStep, ClaimMarked, ClaimUnmarked
<1>7. ASSUME NEW p \in Pools, Graduated(p) \/ Register(p) \/ TradeCurve(p)
      PROVE  UNCHANGED keeperVars
  BY <1>7 DEF Graduated, Register, TradeCurve, keeperVars
<1>8. ASSUME NEW x \in Positions, TradeDamm(x)
      PROVE  UNCHANGED keeperVars
  BY <1>8 DEF TradeDamm
<1>9. CASE UNCHANGED migrationVars
  BY <1>1, <1>9 DEF migrationVars
<1> QED
  BY <1>1, <1>2, <1>3, <1>4, <1>5, <1>6, <1>7, <1>8, <1>9 DEF MigrationNext

LEMMA InitKeeperType == MigrationInit => KeeperType
  BY MigrationAssumption
  DEF MigrationInit, KeeperType, RowsType, CycleType, SentType, NoRow, Idle, AtPool

LEMMA RouterStep == KeeperType /\ [MigrationNext]_migrationVars => [Next]_vars
<1> SUFFICES ASSUME KeeperType, [MigrationNext]_migrationVars PROVE [Next]_vars
  OBVIOUS
<1>0. CycleType /\ Keeper \in Actors /\ 0 \in Amounts /\ 1 \in Amounts
  BY MigrationAssumption, FeeRouterAssumption DEF KeeperType, Amounts
<1>1. ASSUME NEW p \in Pools, GraduateOne(p)
      PROVE  Next
  BY <1>0, <1>1 DEF GraduateOne, Next
<1>2. ASSUME NEW p \in Pools, NEW x \in Positions, RecordMigration(Keeper, p, x)
      PROVE  Next
  BY <1>0, <1>2 DEF Next
<1>3. CASE SendMigrate
  <2>1. cycle.pool \in Pools
    BY <1>0, <1>3 DEF SendMigrate, CycleType, AtPool
  <2>2. GraduateOne(cycle.pool) \/ UNCHANGED vars
    BY <1>3 DEF SendMigrate
  <2> QED BY <1>1, <2>1, <2>2
<1>4. CASE SendRecord
  <2>1. cycle.pool \in Pools /\ cycle.pos \in Positions
    BY <1>0, <1>4 DEF SendRecord, CycleType, AtPool
  <2>2. RecordMigration(Keeper, cycle.pool, cycle.pos) \/ UNCHANGED vars
    BY <1>4 DEF SendRecord
  <2> QED BY <1>2, <2>1, <2>2
<1>5. CASE ClaimStep
  <2>1. PICK p \in Pools : ClaimUnmarked(p) \/ \E x \in Positions : ClaimMarked(p, x)
    BY <1>5 DEF ClaimStep
  <2>2. ClaimDbc(Keeper, p) \/ \E x \in Positions : ClaimDamm(Keeper, p, x)
    BY <2>1 DEF ClaimUnmarked, ClaimMarked
  <2> QED BY <1>0, <2>2 DEF Next
<1>6. CASE \E p \in Pools, x \in Positions : LandLate(p, x) \/ IngestRecorded(p, x)
  BY <1>2, <1>6 DEF LandLate, IngestRecorded
<1>7. CASE \E p \in Pools : Graduated(p) \/ IngestRegistered(p)
  BY <1>1, <1>7 DEF Graduated, IngestRegistered
<1>8. CASE \E p \in Pools : Register(p)
  BY <1>8 DEF Register, Next
<1>9. CASE \E p \in Pools : TradeCurve(p)
  BY <1>0, <1>9 DEF TradeCurve, Next
<1>10. CASE \E x \in Positions : TradeDamm(x)
  BY <1>0, <1>10 DEF TradeDamm, Next
<1>11. CASE UNCHANGED migrationVars
  BY <1>11 DEF migrationVars
<1>12. MigrateStep /\ ~SendMigrate /\ ~SendRecord => UNCHANGED vars
  BY DEF MigrateStep, StartCycle, EndCycle, TakePool, ReadState, ReadKnown, FindPosition,
         MarkMigrated
<1>13. ReadFails \/ Restart => UNCHANGED vars
  BY DEF ReadFails, Restart
<1> QED
  BY <1>3, <1>4, <1>5, <1>6, <1>7, <1>8, <1>9, <1>10, <1>11, <1>12, <1>13
  DEF MigrationNext

\* Whatever the migrate and fee cycles, the indexer and the network do, the
\* router sees its own instructions, from its initial state on.
THEOREM MigrationRunsTheRouter == MigrationSpec => Spec
<1>1. MigrationInit => Init /\ KeeperType
  BY InitKeeperType DEF MigrationInit
<1> QED BY <1>1, NextKeeperType, RouterStep, PTL DEF MigrationSpec, Spec

(***************************************************************************)
(* What the router's instructions do to graduations and records.           *)
(***************************************************************************)
SameRecords ==
  /\ \A p \in Pools : /\ curve'[p].migrated <=> curve[p].migrated
                      /\ pool'[p].migrated <=> pool[p].migrated
                      /\ pool'[p].damm_position = pool[p].damm_position
  /\ \A x \in Positions : damm'[x].owned <=> damm[x].owned

Graduating(p, x) ==
  /\ ~curve[p].migrated /\ ~damm[x].owned /\ BaseOf[x] = p
  /\ \A i \in Pools \ {p} : curve[i].migrated => Handled(i)
  /\ \A i \in Pools : curve'[i].migrated <=> curve[i].migrated \/ i = p
  /\ \A y \in Positions : damm'[y].owned <=> damm[y].owned \/ y = x
  /\ pool' = pool

Recording(p, x) ==
  /\ Own(p, x)
  /\ curve' = curve /\ damm' = damm
  /\ pool' = [pool EXCEPT ![p].migrated = TRUE, ![p].damm_position = x]

LEMMA GraduateEffect ==
  ASSUME Settled, IInv, NEW p \in Pools, GraduateOne(p)
  PROVE  \E x \in Positions : Graduating(p, x)
<1>1. PICK x \in Positions : Graduate(p, x, 0)
  BY DEF GraduateOne
<1>2. /\ curve \in [Pools -> [fees : Nat, surplus : Nat, migrated : BOOLEAN]]
      /\ damm \in [Positions -> [quote : Nat, base : Nat, owned : BOOLEAN]]
  BY DEF IInv, TypeOK, SourceType
<1>3. \A i \in Pools \ {p} : curve[i].migrated => Handled(i)
  BY DEF GraduateOne, MayGraduate
<1>4. \A i \in Pools : curve'[i].migrated <=> curve[i].migrated \/ i = p
  BY <1>1, <1>2 DEF Graduate
<1>5. \A y \in Positions : damm'[y].owned <=> damm[y].owned \/ y = x
  BY <1>1, <1>2 DEF Graduate
<1>6. pool' = pool /\ ~curve[p].migrated /\ ~damm[x].owned /\ BaseOf[x] = p
  BY <1>1 DEF Graduate
<1> QED BY <1>3, <1>4, <1>5, <1>6 DEF Graduating

LEMMA QuietSteps ==
  ASSUME IInv, NEW p \in Pools
  PROVE  /\ RegisterPool(p) => SameRecords
         /\ CurveTrade(p, 1) => SameRecords
         /\ ClaimDbc(Keeper, p) => SameRecords
         /\ \A x \in Positions : ClaimDamm(Keeper, p, x) => SameRecords
         /\ \A x \in Positions : DammTrade(x, 1, 0) => SameRecords
<1>1. /\ curve \in [Pools -> [fees : Nat, surplus : Nat, migrated : BOOLEAN]]
      /\ damm \in [Positions -> [quote : Nat, base : Nat, owned : BOOLEAN]]
      /\ pool \in [Pools -> PoolState]
  BY DEF IInv, TypeOK, SourceType, BooksType
<1>2. ASSUME RegisterPool(p) PROVE SameRecords
  <2>1. pool[p] = Unregistered
    BY <1>2 DEF RegisterPool, IInv, BlankUntilRegistered
  <2>2. pool' = [pool EXCEPT ![p] = [Unregistered EXCEPT !.registered = TRUE]]
        /\ curve' = curve /\ damm' = damm
    BY <1>2 DEF RegisterPool
  <2>3. pool'[p].migrated = FALSE /\ pool'[p].damm_position = NoPosition
        /\ pool[p].migrated = FALSE /\ pool[p].damm_position = NoPosition
    BY <1>1, <2>1, <2>2 DEF Unregistered
  <2>4. \A i \in Pools : i # p => pool'[i] = pool[i]
    BY <1>1, <2>2
  <2> QED BY <2>2, <2>3, <2>4 DEF SameRecords
<1>3. CurveTrade(p, 1) => SameRecords
  BY <1>1 DEF CurveTrade, SameRecords
<1>4. ASSUME NEW received, NEW base, NEW ts, SplitToVaults(p, received, base, ts)
      PROVE  \A i \in Pools : /\ pool'[i].migrated <=> pool[i].migrated
                              /\ pool'[i].damm_position = pool[i].damm_position
  BY <1>1, <1>4 DEF SplitToVaults, PoolState
<1>5. ASSUME ClaimDbc(Keeper, p) PROVE SameRecords
  <2>1. /\ SplitToVaults(p, curve[p].fees, 0, now)
        /\ curve' = [curve EXCEPT ![p].fees = 0] /\ damm' = damm
    BY <1>5 DEF ClaimDbc
  <2>2. \A i \in Pools : curve'[i].migrated <=> curve[i].migrated
    BY <1>1, <2>1
  <2> QED BY <1>4, <2>1, <2>2 DEF SameRecords
<1>6. ASSUME NEW x \in Positions, ClaimDamm(Keeper, p, x) PROVE SameRecords
  <2>1. /\ SplitToVaults(p, damm[x].quote, damm[x].base, now)
        /\ damm' = [damm EXCEPT ![x].quote = 0, ![x].base = 0] /\ curve' = curve
    BY <1>6 DEF ClaimDamm
  <2>2. \A y \in Positions : damm'[y].owned <=> damm[y].owned
    BY <1>1, <2>1
  <2> QED BY <1>4, <2>1, <2>2 DEF SameRecords
<1>7. \A x \in Positions : DammTrade(x, 1, 0) => SameRecords
  BY <1>1 DEF DammTrade, SameRecords
<1> QED BY <1>2, <1>3, <1>5, <1>6, <1>7

\* A step graduates a pool, records a pool's own position, or leaves both be.
LEMMA StandingMoves ==
  ASSUME Settled, MInv, [MigrationNext]_migrationVars
  PROVE  \/ SameRecords
         \/ \E p \in Pools, x \in Positions : Graduating(p, x) /\ UNCHANGED <<rows, flight, events>>
         \/ \E p \in Pools, x \in Positions : Recording(p, x) /\ UNCHANGED rows
<1>0. IInv /\ CycleType /\ RecordsOwn /\ CycleOwn
  BY DEF MInv, KeeperType
<1>1. UNCHANGED vars => SameRecords
  BY DEF vars, SameRecords
<1>2. CASE SendMigrate
  <2>1. cycle.pool \in Pools
    BY <1>0, <1>2 DEF SendMigrate, CycleType, AtPool
  <2>2. GraduateOne(cycle.pool) \/ UNCHANGED vars
    BY <1>2 DEF SendMigrate
  <2>3. UNCHANGED <<rows, flight, events>>
    BY <1>2 DEF SendMigrate
  <2> QED BY <1>0, <1>1, <2>1, <2>2, <2>3, GraduateEffect
<1>3. CASE \E p \in Pools : Graduated(p)
  BY <1>0, <1>3, GraduateEffect DEF Graduated
<1>4. CASE SendRecord
  <2>1. cycle.pool \in Pools /\ cycle.pos \in Positions /\ Own(cycle.pool, cycle.pos)
        /\ UNCHANGED rows
    BY <1>0, <1>4 DEF SendRecord, CycleType, AtPool, CycleOwn
  <2>2. RecordMigration(Keeper, cycle.pool, cycle.pos) \/ UNCHANGED vars
    BY <1>4 DEF SendRecord
  <2>3. RecordMigration(Keeper, cycle.pool, cycle.pos) => Recording(cycle.pool, cycle.pos)
    BY <2>1 DEF RecordMigration, Recording
  <2> QED BY <1>1, <2>1, <2>2, <2>3
<1>5. CASE \E p \in Pools, x \in Positions : LandLate(p, x) \/ IngestRecorded(p, x)
  <2>1. PICK p \in Pools, x \in Positions : LandLate(p, x) \/ IngestRecorded(p, x)
    BY <1>5
  <2>2. CASE LandLate(p, x)
    <3>1. Own(p, x)
      BY <1>0, <2>2 DEF LandLate, RecordsOwn
    <3>2. Recording(p, x) /\ UNCHANGED rows
      BY <2>2, <3>1 DEF LandLate, RecordMigration, Recording
    <3> QED BY <3>2
  <2>3. CASE IngestRecorded(p, x)
    BY <1>1, <2>3 DEF IngestRecorded
  <2> QED BY <2>1, <2>2, <2>3
<1>6. CASE ClaimStep
  <2>1. PICK p \in Pools : ClaimUnmarked(p) \/ \E x \in Positions : ClaimMarked(p, x)
    BY <1>6 DEF ClaimStep
  <2>2. ClaimDbc(Keeper, p) \/ \E x \in Positions : ClaimDamm(Keeper, p, x)
    BY <2>1 DEF ClaimUnmarked, ClaimMarked
  <2> QED BY <1>0, <2>2, QuietSteps
<1>7. CASE \E p \in Pools : Register(p) \/ TradeCurve(p)
  BY <1>0, <1>7, QuietSteps DEF Register, TradeCurve
<1>8. CASE \E x \in Positions : TradeDamm(x)
  <2>1. PICK x \in Positions : TradeDamm(x)
    BY <1>8
  <2>2. BaseOf[x] \in Pools
    BY FeeRouterAssumption
  <2> QED BY <1>0, <2>1, <2>2, QuietSteps DEF TradeDamm
<1>9. CASE UNCHANGED migrationVars \/ \E p \in Pools : IngestRegistered(p)
  BY <1>1, <1>9 DEF migrationVars, IngestRegistered
<1>10. MigrateStep /\ ~SendMigrate /\ ~SendRecord => UNCHANGED vars
  BY DEF MigrateStep, StartCycle, EndCycle, TakePool, ReadState, ReadKnown, FindPosition,
         MarkMigrated
<1>11. ReadFails \/ Restart => UNCHANGED vars
  BY DEF ReadFails, Restart
<1> QED
  BY <1>1, <1>2, <1>3, <1>4, <1>5, <1>6, <1>7, <1>8, <1>9, <1>10, <1>11 DEF MigrationNext

(***************************************************************************)
(* What only grows.                                                        *)
(***************************************************************************)

\* Positions stay the router's, graduated pools stay so, and the record of a
\* pool, once made, is never replaced: a second one would be the same.
LEMMA RecordStays ==
  ASSUME Settled, MInv, [MigrationNext]_migrationVars, NEW p \in Pools
  PROVE  /\ curve[p].migrated => curve'[p].migrated
         /\ \A x \in Positions : damm[x].owned => damm'[x].owned
         /\ pool[p].migrated =>
              pool'[p].migrated /\ pool'[p].damm_position = pool[p].damm_position
<1>1. CASE SameRecords
  BY <1>1 DEF SameRecords
<1>2. CASE \E q \in Pools, x \in Positions : Graduating(q, x) /\ UNCHANGED <<rows, flight, events>>
  BY <1>2 DEF Graduating
<1>3. CASE \E q \in Pools, x \in Positions : Recording(q, x) /\ UNCHANGED rows
  <2>1. PICK q \in Pools, x \in Positions : Recording(q, x)
    BY <1>3
  <2>2. pool \in [Pools -> PoolState]
    BY DEF MInv, IInv, TypeOK, BooksType
  <2>3. p # q => pool'[p] = pool[p]
    BY <2>1, <2>2 DEF Recording
  <2>4. pool'[q].migrated /\ pool'[q].damm_position = x
    BY <2>1, <2>2 DEF Recording, PoolState
  <2>5. pool[q].migrated => pool[q].damm_position = x
    BY <2>1 DEF MInv, RecordsOwn, OwnedOnce, Recording, Own
  <2> QED BY <2>1, <2>3, <2>4, <2>5 DEF Recording
<1> QED BY <1>1, <1>2, <1>3, StandingMoves

LEMMA HandledStays ==
  ASSUME KeeperType, [MigrationNext]_migrationVars, NEW i \in Pools, Handled(i)
  PROVE  Handled(i)'
<1>0. rows \in [Pools -> [listed : BOOLEAN, migrated : BOOLEAN, damm : Positions \cup {NoPosition}]]
  BY DEF KeeperType, RowsType
<1>1. rows[i].migrated /\ i \notin cycle.todo /\ i # cycle.pool /\ i # NoPosition
  BY MigrationAssumption DEF Handled
<1>2. rows'[i].migrated
  <2>1. CASE UNCHANGED rows
    BY <1>1, <2>1
  <2>2. CASE MarkMigrated
    BY <1>0, <1>1, <2>2 DEF MarkMigrated
  <2>3. CASE \E p \in Pools : IngestRegistered(p)
    BY <1>0, <1>1, <2>3 DEF IngestRegistered
  <2>4. CASE \E p \in Pools, x \in Positions : IngestRecorded(p, x)
    BY <1>0, <1>1, <2>4 DEF IngestRecorded
  <2>5. MigrateStep /\ ~MarkMigrated => UNCHANGED rows
    BY DEF MigrateStep, StartCycle, EndCycle, TakePool, ReadState, SendMigrate, ReadKnown,
           FindPosition, SendRecord
  <2>6. ClaimStep \/ ReadFails \/ Restart \/ UNCHANGED migrationVars => UNCHANGED rows
    BY DEF ClaimStep, ClaimMarked, ClaimUnmarked, ReadFails, Restart, migrationVars, keeperVars
  <2>7. ASSUME NEW p \in Pools, Graduated(p) \/ Register(p) \/ TradeCurve(p)
        PROVE  UNCHANGED rows
    BY <2>7 DEF Graduated, Register, TradeCurve, keeperVars
  <2>8. ASSUME NEW x \in Positions, TradeDamm(x) \/ \E p \in Pools : LandLate(p, x)
        PROVE  UNCHANGED rows
    BY <2>8 DEF TradeDamm, LandLate, keeperVars
  <2> QED BY <2>1, <2>2, <2>3, <2>4, <2>5, <2>6, <2>7, <2>8 DEF MigrationNext
<1>3. i \notin cycle'.todo /\ i # cycle'.pool
  <2>0. cycle \in [at : AtPool \cup {"idle", "loop"}, todo : SUBSET Pools,
                   pool : Pools \cup {NoPosition}, known : SUBSET Positions,
                   pos : Positions \cup {NoPosition}]
    BY DEF KeeperType, CycleType
  <2>1. CASE UNCHANGED cycle
    BY <1>1, <2>1
  <2>2. CASE cycle' \in {Idle, NextPool}
    <3>1. CASE cycle' = Idle
      BY <1>1, <3>1 DEF Idle
    <3>2. CASE cycle' = NextPool
      <4>1. cycle'.todo = cycle.todo /\ cycle'.pool = NoPosition
        BY <2>0, <3>2 DEF NextPool
      <4> QED BY <1>1, <4>1
    <3> QED BY <2>2, <3>1, <3>2
  <2>3. CASE StartCycle
    BY <1>1, <2>3 DEF StartCycle, Idle
  <2>4. CASE \E p \in Pools : TakePool(p)
    BY <1>1, <2>0, <2>4 DEF TakePool
  <2>6. ASSUME NEW at, cycle' = [cycle EXCEPT !.at = at]
        PROVE  i \notin cycle'.todo /\ i # cycle'.pool
    BY <1>1, <2>0, <2>6
  <2>7. ReadState \/ SendMigrate \/ SendRecord \/ MarkMigrated =>
          cycle' = NextPool \/ \E at : cycle' = [cycle EXCEPT !.at = at]
    BY DEF ReadState, SendMigrate, SendRecord, MarkMigrated
  <2>8. ASSUME ReadKnown \/ FindPosition
        PROVE  i \notin cycle'.todo /\ i # cycle'.pool
    BY <1>1, <2>0, <2>2, <2>8 DEF ReadKnown, FindPosition
  <2>9. EndCycle \/ ReadFails \/ Restart => cycle' \in {Idle, NextPool}
    BY DEF EndCycle, ReadFails, Restart
  <2>10. ClaimStep \/ UNCHANGED migrationVars => UNCHANGED cycle
    BY DEF ClaimStep, ClaimMarked, ClaimUnmarked, migrationVars, keeperVars
  <2>11. ASSUME NEW p \in Pools,
                Graduated(p) \/ Register(p) \/ TradeCurve(p) \/ IngestRegistered(p)
         PROVE  UNCHANGED cycle
    BY <2>11 DEF Graduated, Register, TradeCurve, IngestRegistered, keeperVars
  <2>12. ASSUME NEW x \in Positions,
                TradeDamm(x) \/ \E p \in Pools : LandLate(p, x) \/ IngestRecorded(p, x)
         PROVE  UNCHANGED cycle
    BY <2>12 DEF TradeDamm, LandLate, IngestRecorded, keeperVars
  <2> QED BY <2>1, <2>2, <2>3, <2>4, <2>6, <2>7, <2>8, <2>9, <2>10, <2>11, <2>12
          DEF MigrationNext, MigrateStep
<1> QED BY <1>2, <1>3 DEF Handled

(***************************************************************************)
(* The invariant is kept, conjunct by conjunct.                            *)
(***************************************************************************)
LEMMA NextOwnedOnce ==
  ASSUME Settled, MInv, [MigrationNext]_migrationVars
  PROVE  OwnedOnce'
<1>0. OwnedOnce /\ BaseOf \in [Positions -> Pools]
  BY FeeRouterAssumption DEF MInv
<1>1. CASE SameRecords
  BY <1>0, <1>1 DEF SameRecords, OwnedOnce
<1>2. CASE \E p \in Pools, x \in Positions : Graduating(p, x)
  BY <1>0, <1>2 DEF Graduating, OwnedOnce
<1>3. CASE \E p \in Pools, x \in Positions : Recording(p, x)
  BY <1>0, <1>3 DEF Recording, OwnedOnce
<1> QED BY <1>1, <1>2, <1>3, StandingMoves

LEMMA NextLonely ==
  ASSUME Settled, MInv, [MigrationNext]_migrationVars
  PROVE  Lonely'
<1>0. Lonely /\ KeeperType
  BY DEF MInv
<1>1. \A i \in Pools : Handled(i) => Handled(i)'
  BY <1>0, HandledStays
<1>2. SUFFICES ASSUME NEW i \in Pools, NEW j \in Pools, i # j,
                      curve'[i].migrated, curve'[j].migrated
               PROVE  Handled(i) \/ Handled(j)
  BY <1>1 DEF Lonely
<1>3. CASE SameRecords
  BY <1>0, <1>2, <1>3 DEF SameRecords, Lonely
<1>4. CASE \E p \in Pools, x \in Positions : Graduating(p, x)
  BY <1>0, <1>2, <1>4 DEF Graduating, Lonely
<1>5. CASE \E p \in Pools, x \in Positions : Recording(p, x)
  BY <1>0, <1>2, <1>5 DEF Recording, Lonely
<1> QED BY <1>3, <1>4, <1>5, StandingMoves

LEMMA NextRecordsOwn ==
  ASSUME Settled, MInv, [MigrationNext]_migrationVars
  PROVE  RecordsOwn'
<1>0. RecordsOwn /\ CycleOwn /\ OwnedOnce /\ CycleType /\ SentType /\ pool \in [Pools -> PoolState]
  BY DEF MInv, KeeperType, IInv, TypeOK, BooksType
<1>1. \A p \in Pools, x \in Positions : Own(p, x) => Own(p, x)'
  BY RecordStays, FeeRouterAssumption DEF Own
<1>2. \A p \in Pools :
        pool'[p].migrated =>
          LET x == pool'[p].damm_position
          IN x \in Positions /\ damm'[x].owned /\ BaseOf[x] = p
  <2>1. CASE SameRecords
    BY <1>0, <2>1 DEF SameRecords, RecordsOwn, Own
  <2>2. CASE \E p \in Pools, x \in Positions : Graduating(p, x)
    BY <1>0, <2>2 DEF Graduating, RecordsOwn, Own
  <2>3. CASE \E q \in Pools, y \in Positions : Recording(q, y)
    <3>1. PICK q \in Pools, y \in Positions : Recording(q, y)
      BY <2>3
    <3>2. pool'[q].damm_position = y /\ \A p \in Pools \ {q} : pool'[p] = pool[p]
      BY <1>0, <3>1 DEF Recording, PoolState
    <3> QED BY <1>0, <3>1, <3>2 DEF Recording, RecordsOwn, Own
  <2> QED BY <2>1, <2>2, <2>3, StandingMoves
<1>3. \A p \in Pools, x \in Positions : <<p, x>> \in flight' => Own(p, x)'
  <2>1. CASE SendRecord
    <3>1. Own(cycle.pool, cycle.pos)
      BY <1>0, <2>1 DEF SendRecord, CycleOwn
    <3>2. flight' \subseteq flight \cup {<<cycle.pool, cycle.pos>>}
      BY <2>1 DEF SendRecord
    <3> QED BY <1>0, <1>1, <3>1, <3>2 DEF RecordsOwn
  <2>2. CASE \E p \in Pools, x \in Positions : LandLate(p, x)
    BY <1>0, <1>1, <2>2 DEF LandLate, RecordsOwn
  <2>3. CASE UNCHANGED flight
    BY <1>0, <1>1, <2>3 DEF RecordsOwn
  <2>4. MigrateStep /\ ~SendRecord => UNCHANGED flight
    BY DEF MigrateStep, StartCycle, EndCycle, TakePool, ReadState, SendMigrate, ReadKnown,
           FindPosition, MarkMigrated
  <2>5. ClaimStep \/ ReadFails \/ Restart \/ UNCHANGED migrationVars => UNCHANGED flight
    BY DEF ClaimStep, ClaimMarked, ClaimUnmarked, ReadFails, Restart, migrationVars, keeperVars
  <2>6. ASSUME NEW p \in Pools,
               Graduated(p) \/ Register(p) \/ TradeCurve(p) \/ IngestRegistered(p)
        PROVE  UNCHANGED flight
    BY <2>6 DEF Graduated, Register, TradeCurve, IngestRegistered, keeperVars
  <2>7. ASSUME NEW x \in Positions, TradeDamm(x) \/ \E p \in Pools : IngestRecorded(p, x)
        PROVE  UNCHANGED flight
    BY <2>7 DEF TradeDamm, IngestRecorded, keeperVars
  <2> QED BY <2>1, <2>2, <2>3, <2>4, <2>5, <2>6, <2>7 DEF MigrationNext
<1>4. \A p \in Pools, x \in Positions :
        <<p, x>> \in events' => pool'[p].migrated /\ pool'[p].damm_position = x
  <2>0. ASSUME NEW p \in Pools, NEW x \in Positions, <<p, x>> \in events
        PROVE  pool'[p].migrated /\ pool'[p].damm_position = x
    BY <1>0, <2>0, RecordStays DEF RecordsOwn
  <2>1. ASSUME NEW p \in Pools, NEW x \in Positions, RecordMigration(Keeper, p, x)
        PROVE  pool'[p].migrated /\ pool'[p].damm_position = x
    BY <1>0, <2>1 DEF RecordMigration, PoolState
  <2>2. CASE SendRecord
    <3>1. cycle.pool \in Pools /\ cycle.pos \in Positions
      BY <1>0, <2>2 DEF SendRecord, CycleType, AtPool
    <3>2. \/ RecordMigration(Keeper, cycle.pool, cycle.pos)
             /\ events' = events \cup {<<cycle.pool, cycle.pos>>}
          \/ UNCHANGED events
      BY <2>2 DEF SendRecord, Emit
    <3> QED BY <2>0, <2>1, <3>1, <3>2
  <2>3. CASE \E p \in Pools, x \in Positions : LandLate(p, x)
    BY <2>0, <2>1, <2>3 DEF LandLate, Emit
  <2>4. CASE events' \subseteq events
    BY <2>0, <2>4
  <2>5. MigrateStep /\ ~SendRecord => UNCHANGED events
    BY DEF MigrateStep, StartCycle, EndCycle, TakePool, ReadState, SendMigrate, ReadKnown,
           FindPosition, MarkMigrated
  <2>6. ClaimStep \/ ReadFails \/ Restart \/ UNCHANGED migrationVars => UNCHANGED events
    BY DEF ClaimStep, ClaimMarked, ClaimUnmarked, ReadFails, Restart, migrationVars, keeperVars
  <2>7. ASSUME NEW p \in Pools,
               Graduated(p) \/ Register(p) \/ TradeCurve(p) \/ IngestRegistered(p)
        PROVE  UNCHANGED events
    BY <2>7 DEF Graduated, Register, TradeCurve, IngestRegistered, keeperVars
  <2>8. ASSUME NEW x \in Positions, TradeDamm(x) \/ \E p \in Pools : IngestRecorded(p, x)
        PROVE  events' \subseteq events
    BY <2>8 DEF TradeDamm, IngestRecorded, keeperVars
  <2> QED BY <2>2, <2>3, <2>4, <2>5, <2>6, <2>7, <2>8 DEF MigrationNext
<1> QED BY <1>2, <1>3, <1>4 DEF RecordsOwn, Own

LEMMA NextRowsMatch ==
  ASSUME Settled, MInv, [MigrationNext]_migrationVars
  PROVE  RowsMatchRecords'
<1>0. /\ RecordsOwn /\ CycleOwn /\ RowsMatchRecords /\ CycleType
      /\ rows \in [Pools -> [listed : BOOLEAN, migrated : BOOLEAN,
                             damm : Positions \cup {NoPosition}]]
  BY DEF MInv, KeeperType, RowsType
<1>1. ASSUME NEW p \in Pools, NEW x \in Positions,
             pool[p].migrated, pool[p].damm_position = x,
             rows' = [rows EXCEPT ![p].migrated = TRUE, ![p].damm = x]
      PROVE  RowsMatchRecords'
  BY <1>0, <1>1, RecordStays DEF RowsMatchRecords
<1>2. CASE UNCHANGED rows
  BY <1>0, <1>2, RecordStays DEF RowsMatchRecords
<1>3. CASE \E p \in Pools : IngestRegistered(p)
  BY <1>0, <1>3, RecordStays DEF RowsMatchRecords, IngestRegistered
<1>4. CASE MarkMigrated
  <2>1. /\ cycle.pool \in Pools /\ cycle.pos \in Positions
        /\ pool[cycle.pool].migrated /\ pool[cycle.pool].damm_position = cycle.pos
    BY <1>0, <1>4 DEF MarkMigrated, CycleType, AtPool, CycleOwn
  <2> QED BY <1>1, <1>2, <1>4, <2>1 DEF MarkMigrated
<1>5. CASE \E p \in Pools, x \in Positions : IngestRecorded(p, x)
  BY <1>0, <1>1, <1>2, <1>5 DEF IngestRecorded, RecordsOwn
<1>6. MigrateStep /\ ~MarkMigrated => UNCHANGED rows
  BY DEF MigrateStep, StartCycle, EndCycle, TakePool, ReadState, SendMigrate, ReadKnown,
         FindPosition, SendRecord
<1>7. ClaimStep \/ ReadFails \/ Restart \/ UNCHANGED migrationVars => UNCHANGED rows
  BY DEF ClaimStep, ClaimMarked, ClaimUnmarked, ReadFails, Restart, migrationVars, keeperVars
<1>8. ASSUME NEW p \in Pools, Graduated(p) \/ Register(p) \/ TradeCurve(p)
      PROVE  UNCHANGED rows
  BY <1>8 DEF Graduated, Register, TradeCurve, keeperVars
<1>9. ASSUME NEW x \in Positions, TradeDamm(x) \/ \E p \in Pools : LandLate(p, x)
      PROVE  UNCHANGED rows
  BY <1>9 DEF TradeDamm, LandLate, keeperVars
<1> QED BY <1>2, <1>3, <1>4, <1>5, <1>6, <1>7, <1>8, <1>9 DEF MigrationNext

\* While the pool in hand has graduated and is not settled, no other graduates.
LEMMA NoneBeside ==
  ASSUME Settled, MInv, [MigrationNext]_migrationVars,
         NEW x \in Positions, damm'[x].owned,
         cycle.pool \in Pools, curve[cycle.pool].migrated
  PROVE  damm[x].owned
<1>1. ~Handled(cycle.pool)
  BY DEF Handled
<1>2. CASE \E p \in Pools, y \in Positions : Graduating(p, y)
  BY <1>1, <1>2 DEF Graduating
<1> QED BY <1>2, StandingMoves DEF SameRecords, Recording

LEMMA CycleStays ==
  ASSUME Settled, MInv, [MigrationNext]_migrationVars, UNCHANGED cycle
  PROVE  CycleOwn'
<1> DEFINE p == cycle.pool
<1>0. CycleOwn /\ CycleType /\ BaseOf \in [Positions -> Pools]
  BY FeeRouterAssumption DEF MInv, KeeperType
<1>1. cycle.at \in AtPool => p \in Pools
  BY <1>0 DEF CycleType
<1>2. cycle.at \in {"record", "mark"} => cycle.pos \in Positions
  BY <1>0 DEF CycleType
<1>3. cycle.at \in {"known", "find", "record", "mark"} => p \in Pools /\ curve[p].migrated
  BY <1>0, <1>1 DEF CycleOwn, AtPool
<1>4. cycle.at \in {"known", "find", "record", "mark"} => curve'[p].migrated
  BY <1>3, RecordStays
<1>5. cycle.at = "find" =>
        \A x \in Positions : damm'[x].owned /\ BaseOf[x] # p => x \in cycle.known
  BY <1>0, <1>3, NoneBeside DEF CycleOwn
<1>6. cycle.at \in {"record", "mark"} => damm'[cycle.pos].owned /\ BaseOf[cycle.pos] = p
  BY <1>0, <1>2, <1>3, RecordStays DEF CycleOwn, Own
<1>7. cycle.at = "mark" => pool'[p].migrated /\ pool'[p].damm_position = cycle.pos
  BY <1>0, <1>3, RecordStays DEF CycleOwn
<1> QED BY <1>4, <1>5, <1>6, <1>7 DEF CycleOwn, Own

\* listAllPools tells the positions of all other pools that have graduated.
LEMMA OthersKnown ==
  ASSUME MInv, ReadKnown,
         NEW x \in Positions, damm[x].owned, BaseOf[x] # cycle.pool
  PROVE  x \in cycle'.known
<1> DEFINE i == BaseOf[x]
<1>0. /\ CycleOwn /\ CycleType /\ OwnedOnce /\ Lonely /\ RowsMatchRecords /\ RecordsOwn
      /\ BaseOf \in [Positions -> Pools]
  BY FeeRouterAssumption DEF MInv, KeeperType
<1>1. cycle.pool \in Pools /\ curve[cycle.pool].migrated
  BY <1>0 DEF ReadKnown, CycleOwn, CycleType, AtPool
<1>2. i \in Pools /\ curve[i].migrated
  BY <1>0 DEF OwnedOnce
<1>3. Handled(i)
  BY <1>0, <1>1, <1>2 DEF Lonely, Handled
<1>4. pool[i].migrated /\ rows[i].damm = pool[i].damm_position
  BY <1>0, <1>2, <1>3 DEF Handled, RowsMatchRecords
<1>5. rows[i].damm = x
  BY <1>0, <1>2, <1>4 DEF RecordsOwn, Own, OwnedOnce
<1>6. x # NoPosition
  BY MigrationAssumption
<1>7. cycle'.known = {rows[p].damm : p \in Pools} \ {NoPosition}
  BY <1>0 DEF ReadKnown, CycleType
<1> QED BY <1>2, <1>5, <1>6, <1>7

LEMMA NextCycleOwn ==
  ASSUME Settled, MInv, [MigrationNext]_migrationVars
  PROVE  CycleOwn'
<1>0. /\ CycleOwn /\ CycleType /\ pool \in [Pools -> PoolState]
      /\ cycle \in [at : AtPool \cup {"idle", "loop"}, todo : SUBSET Pools,
                    pool : Pools \cup {NoPosition}, known : SUBSET Positions,
                    pos : Positions \cup {NoPosition}]
  BY DEF MInv, KeeperType, CycleType, IInv, TypeOK, BooksType
<1>1. CASE cycle'.at \in {"idle", "loop", "state", "migrate"}
  BY <1>1 DEF CycleOwn
<1>2. CASE ReadState
  <2>1. CASE curve[cycle.pool].migrated /\ cycle' = [cycle EXCEPT !.at = "known"]
    <3>1. cycle'.at = "known" /\ cycle'.pool = cycle.pool /\ curve' = curve
      BY <1>0, <1>2, <2>1 DEF ReadState, vars
    <3> QED BY <2>1, <3>1 DEF CycleOwn
  <2>2. CASE cycle' = NextPool \/ cycle' = [cycle EXCEPT !.at = "migrate"]
    BY <1>0, <1>1, <2>2 DEF NextPool
  <2> QED BY <1>2, <2>1, <2>2 DEF ReadState
<1>3. CASE SendMigrate
  <2>1. CASE GraduateOne(cycle.pool) /\ cycle' = [cycle EXCEPT !.at = "known"]
    <3>1. cycle.pool \in Pools
      BY <1>0, <1>3 DEF SendMigrate, CycleType, AtPool
    <3>2. PICK x \in Positions : Graduating(cycle.pool, x)
      BY <2>1, <3>1, GraduateEffect DEF MInv
    <3>3. cycle'.at = "known" /\ cycle'.pool = cycle.pool /\ curve'[cycle.pool].migrated
      BY <1>0, <2>1, <3>1, <3>2 DEF Graduating
    <3> QED BY <3>3 DEF CycleOwn
  <2>2. CASE cycle' = NextPool
    BY <1>0, <1>1, <2>2 DEF NextPool
  <2> QED BY <1>3, <2>1, <2>2 DEF SendMigrate
<1>4. CASE ReadKnown
  <2>1. cycle'.at = "find" /\ cycle'.pool = cycle.pool /\ curve' = curve /\ damm' = damm
    BY <1>0, <1>4 DEF ReadKnown, vars
  <2>2. curve[cycle.pool].migrated
    BY <1>0, <1>4 DEF ReadKnown, CycleOwn
  <2>3. \A x \in Positions : damm[x].owned /\ BaseOf[x] # cycle.pool => x \in cycle'.known
    BY <1>4, OthersKnown
  <2> QED BY <2>1, <2>2, <2>3 DEF CycleOwn
<1>5. CASE FindPosition
  <2>1. CASE cycle' = NextPool
    BY <1>0, <1>1, <2>1 DEF NextPool
  <2>2. CASE \E x \in Positions : /\ damm[x].owned /\ x \notin cycle.known
                                  /\ cycle' = [cycle EXCEPT !.at = "record", !.pos = x]
    <3>1. PICK x \in Positions : /\ damm[x].owned /\ x \notin cycle.known
                                 /\ cycle' = [cycle EXCEPT !.at = "record", !.pos = x]
      BY <2>2
    <3>2. cycle'.at = "record" /\ cycle'.pool = cycle.pool /\ cycle'.pos = x
          /\ curve' = curve /\ damm' = damm
      BY <1>0, <1>5, <3>1 DEF FindPosition, vars
    <3>3. curve[cycle.pool].migrated /\ Own(cycle.pool, x)
      BY <1>0, <1>5, <3>1 DEF FindPosition, CycleOwn, Own
    <3> QED BY <3>2, <3>3 DEF CycleOwn, Own
  <2> QED BY <1>5, <2>1, <2>2 DEF FindPosition
<1>6. CASE SendRecord
  <2>1. CASE cycle' = NextPool
    BY <1>0, <1>1, <2>1 DEF NextPool
  <2>2. CASE /\ RecordMigration(Keeper, cycle.pool, cycle.pos)
             /\ cycle' = [cycle EXCEPT !.at = "mark"]
    <3>1. cycle.pool \in Pools /\ cycle.pos \in Positions
      BY <1>0, <1>6 DEF SendRecord, CycleType, AtPool
    <3>2. cycle'.at = "mark" /\ cycle'.pool = cycle.pool /\ cycle'.pos = cycle.pos
      BY <1>0, <2>2
    <3>3. curve[cycle.pool].migrated /\ Own(cycle.pool, cycle.pos)
      BY <1>0, <1>6 DEF SendRecord, CycleOwn
    <3>4. /\ curve' = curve /\ damm' = damm
          /\ pool'[cycle.pool].migrated /\ pool'[cycle.pool].damm_position = cycle.pos
      BY <1>0, <2>2, <3>1 DEF RecordMigration, PoolState
    <3> QED BY <3>2, <3>3, <3>4 DEF CycleOwn, Own
  <2> QED BY <1>6, <2>1, <2>2 DEF SendRecord
<1>7. StartCycle \/ EndCycle \/ (\E p \in Pools : TakePool(p)) \/ MarkMigrated
        \/ ReadFails \/ Restart => cycle'.at \in {"idle", "loop", "state"}
  <2>1. cycle' \in {Idle, NextPool} => cycle'.at \in {"idle", "loop"}
    <3>1. Idle.at = "idle"
      BY DEF Idle
    <3>2. NextPool.at = "loop"
      BY <1>0 DEF NextPool
    <3> QED BY <3>1, <3>2
  <2>2. StartCycle => cycle'.at = "loop"
    BY DEF StartCycle, Idle
  <2>3. (\E p \in Pools : TakePool(p)) => cycle'.at = "state"
    BY <1>0 DEF TakePool
  <2>4. EndCycle \/ MarkMigrated \/ ReadFails \/ Restart => cycle' \in {Idle, NextPool}
    BY DEF EndCycle, MarkMigrated, ReadFails, Restart
  <2> QED BY <2>1, <2>2, <2>3, <2>4
<1>8. ClaimStep \/ UNCHANGED migrationVars => UNCHANGED cycle
  BY DEF ClaimStep, ClaimMarked, ClaimUnmarked, migrationVars, keeperVars
<1>9. ASSUME NEW p \in Pools,
             Graduated(p) \/ Register(p) \/ TradeCurve(p) \/ IngestRegistered(p)
      PROVE  UNCHANGED cycle
  BY <1>9 DEF Graduated, Register, TradeCurve, IngestRegistered, keeperVars
<1>10. ASSUME NEW x \in Positions,
              TradeDamm(x) \/ \E p \in Pools : LandLate(p, x) \/ IngestRecorded(p, x)
       PROVE  UNCHANGED cycle
  BY <1>10 DEF TradeDamm, LandLate, IngestRecorded, keeperVars
<1> QED
  BY <1>1, <1>2, <1>3, <1>4, <1>5, <1>6, <1>7, <1>8, <1>9, <1>10, CycleStays
  DEF MigrationNext, MigrateStep

LEMMA InitMInv == MigrationInit => MInv
<1> SUFFICES ASSUME MigrationInit PROVE MInv
  OBVIOUS
<1>1. Init
  BY DEF MigrationInit
<1>2. IInv /\ KeeperType
  BY <1>1, InitInv, InitKeeperType
<1>3. /\ \A p \in Pools : ~pool[p].migrated /\ ~curve[p].migrated
      /\ \A x \in Positions : ~damm[x].owned
  BY <1>1 DEF Init, Unregistered
<1>4. /\ rows = [p \in Pools |-> NoRow] /\ cycle = Idle /\ flight = {} /\ events = {}
  BY DEF MigrationInit
<1>5. OwnedOnce /\ Lonely /\ RecordsOwn
  BY <1>3, <1>4 DEF OwnedOnce, Lonely, RecordsOwn
<1>6. RowsMatchRecords
  BY <1>4 DEF RowsMatchRecords, NoRow
<1>7. CycleOwn
  BY <1>4 DEF CycleOwn, Idle
<1> QED BY <1>2, <1>5, <1>6, <1>7 DEF MInv

LEMMA NextMInv == Settled /\ MInv /\ [MigrationNext]_migrationVars => MInv'
<1> SUFFICES ASSUME Settled, MInv, [MigrationNext]_migrationVars PROVE MInv'
  OBVIOUS
<1>1. KeeperType'
  BY NextKeeperType DEF MInv
<1>2. IInv'
  BY RouterStep, NextInv DEF MInv
<1> QED
  BY <1>1, <1>2, NextOwnedOnce, NextLonely, NextRecordsOwn, NextRowsMatch, NextCycleOwn DEF MInv

LEMMA MInvHolds == Settled => (MigrationSpec => []MInv)
<1> SUFFICES ASSUME Settled PROVE MigrationSpec => []MInv
  OBVIOUS
<1>1. MInv /\ [MigrationNext]_migrationVars => MInv'
  BY NextMInv
<1> QED BY <1>1, InitMInv, PTL DEF MigrationSpec

\* migrate.ts findNewPosition and record_migration: as long as a pool graduates
\* only after the table has caught up, the router's record of a pool is its own
\* position, whatever fails, lands late or is ingested twice or never.
THEOREM RecordsAlwaysOwn == Settled => (MigrationSpec => []RecordsOwnPosition)
<1> SUFFICES ASSUME Settled PROVE MigrationSpec => []RecordsOwnPosition
  OBVIOUS
<1>1. MInv => RecordsOwnPosition
  BY DEF MInv, RecordsOwn, Own, RecordsOwnPosition
<1>2. MigrationSpec => []MInv
  BY MInvHolds
<1> QED BY <1>1, <1>2, PTL

\* markPoolMigrated and the MigrationRecorded event: under the same condition a
\* row that is marked names the position on the router's record.
THEOREM RowsAlwaysMatch == Settled => (MigrationSpec => []RowsMatchRecords)
<1> SUFFICES ASSUME Settled PROVE MigrationSpec => []RowsMatchRecords
  OBVIOUS
<1>1. MInv => RowsMatchRecords
  BY DEF MInv
<1>2. MigrationSpec => []MInv
  BY MInvHolds
<1> QED BY <1>1, <1>2, PTL
=============================================================================
