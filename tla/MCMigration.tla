---------------------------- MODULE MCMigration ----------------------------
(***************************************************************************)
(* Instances of Migration for TLC: two pools of one coin, each with the    *)
(* position that graduation creates; all fees go to the holders.           *)
(***************************************************************************)
EXTENDS Migration

CONSTANTS alpha, beta, gold, posA, posB

MCCoinOf == [i \in Pools |-> gold]
MCBaseOf == [x \in Positions |-> IF x = posA THEN alpha ELSE beta]
MCQuoteOf == [x \in Positions |-> gold]
MCSplits == {[holders |-> 1, buyback |-> 0, protocol |-> 0]}
=============================================================================
