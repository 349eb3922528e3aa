----------------------------- MODULE MCPegDesk -----------------------------
(***************************************************************************)
(* Instances of PegDesk for TLC.  A price of 10 is one dollar.             *)
(***************************************************************************)
EXTENDS PegDesk

MCParams ==
  [base_spread_bps |-> 1, closed_spread_bps |-> 2, conf_mult_bps |-> 1,
   max_age_open |-> 1, max_age_closed |-> 2, supply_cap |-> 2, per_tx_cap |-> 2,
   daily_mint_cap |-> 1, daily_redeem_cap |-> 1, max_deviation_bps |-> 2,
   deviation_window_secs |-> 1]

MCParamSets == {MCParams}

\* No spread and no daily caps, a tight deviation bound.
MCAnchorParams ==
  {[MCParams EXCEPT !.base_spread_bps = 0, !.max_deviation_bps = 1,
                    !.daily_mint_cap = 0, !.daily_redeem_cap = 0]}

MCBounds == {[max_move_bps |-> 2, min_interval |-> 1]}

\* Bounds on exploration.  Switches that only stop trading are explored while
\* nobody holds the coin; at most one unit is swept or
\* transferred plainly; posts are of the last two seconds, and one of them has
\* a confidence interval.
SwitchedOff ==
  \/ paused \/ pendingAdmin # NoKey \/ keepers = {} \/ status = "Halted"
  \/ kp.min_interval # DEFAULT_MIN_INTERVAL \/ kp.max_move_bps # DEFAULT_MAX_MOVE_BPS

TradesBound ==
  /\ SwitchedOff => supply = 0
  /\ treasury + (reserve - cached) <= 1
  /\ kp.price > 0 => kp.publish_time >= StartTime - 1
  /\ kp.conf > 0 => kp.publish_time = StartTime

\* Trading only, under one set of parameters.
AnchorBound ==
  /\ status = "Open" /\ exempt = NoKey /\ treasury = 0 /\ reserve = cached
  /\ ~paused /\ pendingAdmin = NoKey
  /\ keepers = {} => now = StartTime /\ reserve = 0
  /\ kp.max_move_bps = DEFAULT_MAX_MOVE_BPS /\ kp.min_interval = DEFAULT_MIN_INTERVAL
  /\ kp.price > 0 => kp.publish_time = kp.last_update_ts
=============================================================================
