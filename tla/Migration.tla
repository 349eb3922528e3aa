----------------------------- MODULE Migration -----------------------------
(***************************************************************************)
(* The keeper's migrate and fee cycles (apps/keeper/src/cycles/migrate.ts, *)
(* positions.ts, fees.ts) over the fee router: after graduation the keeper *)
(* finds the position that the router got, has the router record it for    *)
(* the pool, and claims its fees.  The pools table is shared with the      *)
(* indexer, which writes what the router's events say, later.              *)
(*                                                                         *)
(* Each await of the cycle is an action.  Each may throw: the cycle goes   *)
(* on with the next pool.  The keeper may be restarted anywhere.           *)
(***************************************************************************)
EXTENDS FeeRouter

CONSTANTS
  Keeper,           \* the keeper's key
  Settled,          \* whether a pool graduates only when the rows have caught up
  MaxFaults,        \* bound on failed calls and restarts, for TLC only
  MaxFees           \* bound on the fees of each position, for TLC only

ASSUME MigrationAssumption ==
  /\ Keeper \in Actors /\ Settled \in BOOLEAN
  /\ NoPosition \notin Pools \cup Positions /\ 1 \in Amounts

VARIABLES
  rows,         \* the pools table: listed, migrated_at # null, damm_pool
  cycle,        \* the migrate cycle: where it is and its locals
  flight,       \* record_migration transactions that may still land
  events,       \* MigrationRecorded events the indexer has not seen
  faults

keeperVars == <<rows, cycle, flight, events, faults>>
migrationVars == <<vars, keeperVars>>

NoRow == [listed |-> FALSE, migrated |-> FALSE, damm |-> NoPosition]
Idle == [at |-> "idle", todo |-> {}, pool |-> NoPosition, known |-> {}, pos |-> NoPosition]
NextPool == [cycle EXCEPT !.at = "loop", !.pool = NoPosition, !.known = {}, !.pos = NoPosition]

MigrationInit ==
  /\ Init
  /\ rows = [p \in Pools |-> NoRow]
  /\ cycle = Idle
  /\ flight = {} /\ events = {} /\ faults = 0

MayFail == faults < MaxFaults
Fault == faults' = faults + 1

(***************************************************************************)
(* Graduation.  When pools graduate is not the keeper's choice.  They do   *)
(* it one after the other here: the router has the record of every pool    *)
(* that graduated before, and the cycle that made it is over.  If Settled, *)
(* the table has it too.                                                   *)
(***************************************************************************)
Handled(p) == rows[p].migrated /\ p \notin cycle.todo \cup {cycle.pool}

MayGraduate(p) ==
  /\ pool[p].registered
  /\ \A i \in Pools \ {p} :
       curve[i].migrated => pool[i].migrated /\ IF Settled THEN Handled(i) ELSE cycle.at = "idle"

GraduateOne(p) == MayGraduate(p) /\ \E x \in Positions : Graduate(p, x, 0)

\* Anyone runs migrate_damm_v2.
Graduated(p) ==
  /\ GraduateOne(p)
  /\ UNCHANGED <<rows, cycle, flight, events, faults>>

(***************************************************************************)
(* The migrate cycle                                                       *)
(***************************************************************************)

\* Faulty variant: pools that have graduated already are not looked at.
StartCycle_onlyCurves ==
  /\ cycle.at = "idle"
  /\ cycle' = [Idle EXCEPT !.at = "loop",
       !.todo = {p \in Pools : rows[p].listed /\ ~rows[p].migrated /\ ~curve[p].migrated}]
  /\ UNCHANGED <<vars, rows, flight, events, faults>>

\* listUnmigratedPools
StartCycle ==
  /\ cycle.at = "idle"
  /\ cycle' = [Idle EXCEPT !.at = "loop",
                           !.todo = {p \in Pools : rows[p].listed /\ ~rows[p].migrated}]
  /\ UNCHANGED <<vars, rows, flight, events, faults>>

EndCycle ==
  /\ cycle.at = "loop" /\ cycle.todo = {}
  /\ cycle' = Idle
  /\ UNCHANGED <<vars, rows, flight, events, faults>>

\* The query has no order.
TakePool(p) ==
  /\ cycle.at = "loop" /\ p \in cycle.todo
  /\ cycle' = [cycle EXCEPT !.at = "state", !.todo = @ \ {p}, !.pool = p]
  /\ UNCHANGED <<vars, rows, flight, events, faults>>

\* getPoolState.  A curve that is not complete is left for a later cycle.
ReadState ==
  LET p == cycle.pool IN
  /\ cycle.at = "state"
  /\ \/ /\ curve[p].migrated
        /\ cycle' = [cycle EXCEPT !.at = "known"]
     \/ /\ ~curve[p].migrated
        /\ \/ cycle' = NextPool
           \/ cycle' = [cycle EXCEPT !.at = "migrate"]
  /\ UNCHANGED <<vars, rows, flight, events, faults>>

\* migrateToDammV2.  It fails when somebody else was faster, for this pool or,
\* by the order of graduations assumed above, another.
SendMigrate ==
  LET p == cycle.pool IN
  /\ cycle.at = "migrate"
  /\ \/ /\ GraduateOne(p)
        /\ cycle' = [cycle EXCEPT !.at = "known"]
        /\ UNCHANGED faults
     \/ /\ GraduateOne(p) /\ MayFail /\ Fault
        /\ cycle' = NextPool
     \/ /\ cycle' = NextPool
        /\ curve[p].migrated \/ ~MayGraduate(p)
        /\ UNCHANGED <<vars, faults>>
     \/ /\ MayFail /\ Fault
        /\ cycle' = NextPool
        /\ UNCHANGED vars
  /\ UNCHANGED <<rows, flight, events>>

\* Faulty variant: the recorded positions are not read.
ReadKnown_skips ==
  /\ cycle.at = "known"
  /\ cycle' = [cycle EXCEPT !.at = "find"]
  /\ UNCHANGED <<vars, rows, flight, events, faults>>

\* findNewPosition: listAllPools.
ReadKnown ==
  /\ cycle.at = "known"
  /\ cycle' = [cycle EXCEPT !.at = "find",
                            !.known = {rows[p].damm : p \in Pools} \ {NoPosition}]
  /\ UNCHANGED <<vars, rows, flight, events, faults>>

\* findRouterPositions, in no order: the first that is not known.
FindPosition ==
  LET candidates == {x \in Positions : damm[x].owned /\ x \notin cycle.known} IN
  /\ cycle.at = "find"
  /\ \/ /\ candidates = {}
        /\ cycle' = NextPool
     \/ \E x \in candidates : cycle' = [cycle EXCEPT !.at = "record", !.pos = x]
  /\ UNCHANGED <<vars, rows, flight, events, faults>>

Emit(p, x) == events' = events \cup {<<p, x>>}

\* record_migration.  An error may mean that it landed, never will, or will yet.
SendRecord ==
  LET p == cycle.pool
      x == cycle.pos
  IN
  /\ cycle.at = "record"
  /\ \/ /\ RecordMigration(Keeper, p, x) /\ Emit(p, x)
        /\ cycle' = [cycle EXCEPT !.at = "mark"]
        /\ UNCHANGED <<flight, faults>>
     \/ /\ RecordMigration(Keeper, p, x) /\ Emit(p, x) /\ MayFail /\ Fault
        /\ cycle' = NextPool
        /\ UNCHANGED flight
     \/ /\ MayFail /\ Fault
        /\ cycle' = NextPool
        /\ flight' \in {flight, flight \cup {<<p, x>>}}
        /\ UNCHANGED <<vars, events>>
  /\ UNCHANGED rows

\* Faulty variant: the row is left to the indexer's event.
MarkMigrated_dammOnly ==
  /\ cycle.at = "mark"
  /\ rows' = [rows EXCEPT ![cycle.pool].migrated = TRUE]
  /\ UNCHANGED faults
  /\ cycle' = NextPool
  /\ UNCHANGED <<vars, flight, events>>

\* markPoolMigrated
MarkMigrated ==
  /\ cycle.at = "mark"
  /\ \/ /\ rows' = [rows EXCEPT ![cycle.pool].migrated = TRUE, ![cycle.pool].damm = cycle.pos]
        /\ UNCHANGED faults
     \/ MayFail /\ Fault /\ UNCHANGED rows
  /\ cycle' = NextPool
  /\ UNCHANGED <<vars, flight, events>>

\* getPoolState, listAllPools or findRouterPositions throws.
ReadFails ==
  /\ cycle.at \in {"state", "known", "find"}
  /\ MayFail /\ Fault
  /\ cycle' = NextPool
  /\ UNCHANGED <<vars, rows, flight, events>>

Restart ==
  /\ MayFail /\ Fault
  /\ cycle.at # "idle"
  /\ cycle' = Idle
  /\ UNCHANGED <<vars, rows, flight, events>>

LandLate(p, x) ==
  /\ <<p, x>> \in flight
  /\ flight' = flight \ {<<p, x>>}
  /\ RecordMigration(Keeper, p, x) /\ Emit(p, x)
  /\ UNCHANGED <<rows, cycle, faults>>

(***************************************************************************)
(* The fee cycle.  A row that is marked is claimed from DAMM v2 with the   *)
(* NFT account of the row's pool, which must be that of the router's       *)
(* record; any other row from the curve.  Fees of 1 are above the          *)
(* threshold.  A claim that fails changes nothing, so it is no step.       *)
(***************************************************************************)
ClaimMarked(p, x) ==
  /\ rows[p].migrated /\ rows[p].damm = x /\ damm[x].owned
  /\ damm[x].quote > 0
  /\ ClaimDamm(Keeper, p, x)
  /\ UNCHANGED keeperVars

ClaimUnmarked(p) ==
  /\ rows[p].listed /\ ~rows[p].migrated
  /\ curve[p].fees > 0
  /\ ClaimDbc(Keeper, p)
  /\ UNCHANGED keeperVars

(***************************************************************************)
(* The indexer                                                             *)
(***************************************************************************)
IngestRegistered(p) ==
  /\ pool[p].registered /\ ~rows[p].listed
  /\ rows' = [rows EXCEPT ![p].listed = TRUE]
  /\ UNCHANGED <<vars, cycle, flight, events, faults>>

\* In any order; skipped while the row is missing.
IngestRecorded(p, x) ==
  /\ <<p, x>> \in events
  /\ events' = events \ {<<p, x>>}
  /\ rows' = IF rows[p].listed
             THEN [rows EXCEPT ![p].migrated = TRUE, ![p].damm = x] ELSE rows
  /\ UNCHANGED <<vars, cycle, flight, faults>>

(***************************************************************************)
(* Launches and trades                                                     *)
(***************************************************************************)
Register(p) == RegisterPool(p) /\ UNCHANGED keeperVars

TradeCurve(p) ==
  /\ pool[p].registered /\ curve[p].fees + taken[p] < MaxFees
  /\ CurveTrade(p, 1)
  /\ UNCHANGED keeperVars

TradeDamm(x) ==
  /\ damm[x].quote + taken[BaseOf[x]] < MaxFees
  /\ DammTrade(x, 1, 0)
  /\ UNCHANGED keeperVars

MigrateStep ==
  \/ StartCycle \/ EndCycle \/ (\E p \in Pools : TakePool(p))
  \/ ReadState \/ SendMigrate \/ ReadKnown \/ FindPosition \/ SendRecord \/ MarkMigrated
ClaimStep == \E p \in Pools : ClaimUnmarked(p) \/ (\E x \in Positions : ClaimMarked(p, x))

MigrationNext ==
  \/ MigrateStep \/ ClaimStep \/ ReadFails \/ Restart
  \/ \E p \in Pools, x \in Positions : LandLate(p, x) \/ IngestRecorded(p, x)
  \/ \E p \in Pools : Graduated(p) \/ IngestRegistered(p) \/ Register(p) \/ TradeCurve(p)
  \/ \E x \in Positions : TradeDamm(x)

\* The scheduler starts a cycle again whenever one has ended or the process
\* was restarted; launches are ingested.
MigrationFairness ==
  /\ WF_migrationVars(MigrateStep)
  /\ WF_migrationVars(ClaimStep)
  /\ \A p \in Pools : WF_migrationVars(IngestRegistered(p))

MigrationSpec == MigrationInit /\ [][MigrationNext]_migrationVars /\ MigrationFairness
-----------------------------------------------------------------------------
(***************************************************************************)
(* Properties                                                              *)
(***************************************************************************)

\* migrate.ts:75-76: "The router position for this pool = a router-owned
\* position whose DAMM pool is not yet recorded for any other pool".  The
\* position the router has on record for a pool trades that pool's memecoin,
\* so that its fees can be claimed.
RecordsOwnPosition ==
  \A p \in Pools : pool[p].migrated => BaseOf[pool[p].damm_position] = p

\* The same comment: no position is on record for two pools.
PositionsUnshared ==
  \A p, i \in Pools :
    pool[p].migrated /\ pool[i].migrated /\ p # i =>
      pool[p].damm_position # pool[i].damm_position

\* A row that is marked agrees with the router's record: the fee cycle, which
\* takes the NFT account from the one and the position from the other, can
\* claim.
RowsMatchRecords ==
  \A p \in Pools :
    rows[p].migrated => pool[p].migrated /\ rows[p].damm = pool[p].damm_position

\* Whatever failed on the way, a graduated pool ends up with its record, and
\* whatever fees its position earns are claimed.
GraduatesClaimed ==
  \A p \in Pools, x \in Positions :
    BaseOf[x] = p /\ damm[x].quote > 0 ~> damm[x].quote = 0
=============================================================================
