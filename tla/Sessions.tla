------------------------------ MODULE Sessions ------------------------------
(***************************************************************************)
(* The status of one market: Commodity.status on the chain, its row in the *)
(* commodities table, the session cycle that flips it by the calendar      *)
(* (apps/keeper/src/cycles/session.ts), the indexer that copies            *)
(* StatusChanged events into the row (decode/ingest.ts), and the admin.    *)
(*                                                                         *)
(* The cycle decides from the row and not from the chain.  What goes wrong *)
(* between the two is possible when orderly is FALSE: the webhook hands    *)
(* events over in any order, again or never, and a transaction lands       *)
(* although the keeper saw it fail.  The admin acts at any time.           *)
(***************************************************************************)
EXTENDS Naturals, Sequences

CONSTANTS
  MaxStatusEvents   \* bound: StatusChanged events

Statuses == {"Open", "Closed", "Halted"}

VARIABLES
  orderly,      \* whether this run is free of those faults
  status,       \* Commodity.status
  row,          \* commodities.status
  calendar,     \* what isSessionOpen says now
  flip,         \* the session cycle: its step and the status it wants
  behind,       \* history: the last write of the row was such an overtaken flip's
  late,         \* statuses in set_status transactions the keeper has given up
  statusLog,    \* StatusChanged events
  ingested      \* how many of them the orderly webhook has handed over

sessionsVars == <<orderly, status, row, calendar, flip, behind, late, statusLog, ingested>>

NoFlip == [at |-> "idle", wants |-> "Open"]

SessionsInit ==
  /\ orderly \in BOOLEAN
  /\ status = "Open" /\ row = "Open" /\ calendar \in {"Open", "Closed"}
  /\ flip = NoFlip /\ behind = FALSE /\ late = {}
  /\ statusLog = <<>> /\ ingested = 0

\* Faulty variant: a keeper may set any status.
KeeperMay_any(new) == TRUE

\* handle_set_status for a keeper; the admin may set anything.
KeeperMay(new) ==
  \/ status = new
  \/ {status, new} = {"Open", "Closed"}
  \/ new = "Halted"

SetStatusTo(new) ==
  /\ Len(statusLog) < MaxStatusEvents
  /\ status' = new
  /\ statusLog' = Append(statusLog, new)

\* A status that comes between a flip and its update of the row.
Overtakes ==
  flip' = IF flip.at = "landed" THEN [flip EXCEPT !.at = "overtaken"] ELSE flip

AdminSetsStatus(new) ==
  /\ SetStatusTo(new) /\ Overtakes
  /\ UNCHANGED <<orderly, row, calendar, behind, late, ingested>>

\* A keeper key halts a market by hand.
KeeperHalts ==
  /\ KeeperMay("Halted") /\ SetStatusTo("Halted") /\ Overtakes
  /\ UNCHANGED <<orderly, row, calendar, behind, late, ingested>>

CalendarTurns ==
  /\ calendar' \in {"Open", "Closed"} \ {calendar}
  /\ UNCHANGED <<orderly, status, row, flip, behind, late, statusLog, ingested>>

(***************************************************************************)
(* runSessionCycle                                                         *)
(***************************************************************************)

\* Nothing to do, or nothing it would do, leaves it idle.
DecideFlip ==
  /\ flip.at = "idle"
  /\ row # "Halted" /\ row # calendar
  /\ flip' = [at |-> "sent", wants |-> calendar]
  /\ UNCHANGED <<orderly, status, row, calendar, behind, late, statusLog, ingested>>

FlipLands ==
  /\ flip.at = "sent"
  /\ KeeperMay(flip.wants) /\ SetStatusTo(flip.wants)
  /\ flip' = [flip EXCEPT !.at = "landed"]
  /\ UNCHANGED <<orderly, row, calendar, behind, late, ingested>>

\* The program refuses it, or it is lost, or thought to be: an error is logged
\* and the row stays.
FlipFails ==
  /\ flip.at = "sent"
  /\ flip' = NoFlip
  /\ late' \in {late} \cup IF orderly THEN {} ELSE {late \cup {flip.wants}}
  /\ UNCHANGED <<orderly, status, row, calendar, behind, statusLog, ingested>>

LateFlipLands(new) ==
  /\ new \in late
  /\ KeeperMay(new) /\ SetStatusTo(new) /\ Overtakes
  /\ late' = late \ {new}
  /\ UNCHANGED <<orderly, row, calendar, behind, ingested>>

\* updateCommodityStatus
RowFollowsFlip ==
  /\ flip.at \in {"landed", "overtaken"}
  /\ row' = flip.wants
  /\ behind' = (flip.at = "overtaken")
  /\ flip' = NoFlip
  /\ UNCHANGED <<orderly, status, calendar, late, statusLog, ingested>>

SessionCycleDies ==
  /\ flip # NoFlip
  /\ flip' = NoFlip
  /\ late' \in {late} \cup IF orderly \/ flip.at # "sent" THEN {} ELSE {late \cup {flip.wants}}
  /\ UNCHANGED <<orderly, status, row, calendar, behind, statusLog, ingested>>

\* Faulty variant: the indexer leaves the status to the keeper.
IngestStatus_ignored ==
  /\ orderly /\ ingested < Len(statusLog)
  /\ ingested' = ingested + 1
  /\ UNCHANGED <<orderly, status, row, calendar, flip, behind, late, statusLog>>

\* StatusChanged overwrites the row, whenever it comes.
IngestStatus ==
  /\ IF orderly
     THEN /\ ingested < Len(statusLog)
          /\ ingested' = ingested + 1
          /\ row' = statusLog[ingested + 1]
     ELSE /\ \E i \in DOMAIN statusLog : row' = statusLog[i]
          /\ UNCHANGED ingested
  /\ behind' = FALSE
  /\ UNCHANGED <<orderly, status, calendar, flip, late, statusLog>>

SessionsNext ==
  \/ \E new \in Statuses : AdminSetsStatus(new)
  \/ KeeperHalts \/ CalendarTurns
  \/ DecideFlip \/ FlipLands \/ FlipFails \/ RowFollowsFlip \/ SessionCycleDies
  \/ \E new \in Statuses : LateFlipLands(new)
  \/ IngestStatus

SessionsSpec == SessionsInit /\ [][SessionsNext]_sessionsVars
-----------------------------------------------------------------------------
\* session.ts:12-16: a halted market stays halted until the admin lifts the
\* halt, whatever stale rows, late transactions and replayed events make the
\* keeper send.
HaltStep == status = "Halted" /\ status' # "Halted" => \E new \in Statuses : AdminSetsStatus(new)
HaltStands == [][HaltStep]_sessionsVars

\* The cycle decides from the row (session.ts:142).  In an orderly run, with
\* every event ingested, the row is the market's status, with one exception:
\* the cycle wrote it last (session.ts:157-158), for a flip that the admin or a
\* halt overtook.  The next event repairs that.
RowHidesNothing ==
  orderly /\ flip = NoFlip /\ ingested = Len(statusLog) => row = status \/ behind
=============================================================================
