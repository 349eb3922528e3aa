----------------------------- MODULE MCIndexer -----------------------------
(***************************************************************************)
(* Instances of the indexer for TLC.                                       *)
(***************************************************************************)
EXTENDS Indexer

CONSTANTS w1, w2

Mix(ops, cuts, length, out) ==
  [ops |-> ops, traders |-> {w1}, cuts |-> cuts, length |-> length, gaps |-> out]

\* Trades before and after graduation, and a whole epoch, of which no run leaves
\* anything out; trades with a gap; a launch, its log cut or not, and a trade that
\* are both left out; an epoch with a gap; and a history longer than LIMIT.
OneMarket ==
  {Mix({"launch", "swap", "graduate", "record"}, {FALSE}, 4, 0),
   Mix({"launch", "open", "push", "finalize", "claim"}, {FALSE}, 5, 0),
   Mix({"launch", "swap"}, {FALSE}, 3, 1),
   Mix({"launch", "swap"}, BOOLEAN, 2, 2),
   Mix({"launch", "open", "push"}, {FALSE}, 3, 1),
   Mix({"launch", "transfer"}, {FALSE}, 5, 1)}

\* Swaps routed through several pools.
Routes == {Mix({"launch", "swap"}, {FALSE}, 3, 0)}
=============================================================================
