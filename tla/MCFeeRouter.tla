---------------------------- MODULE MCFeeRouter ----------------------------
(***************************************************************************)
(* An instance of FeeRouter for TLC: two pools of one coin, each with the  *)
(* position that graduation creates.                                       *)
(***************************************************************************)
EXTENDS FeeRouter

CONSTANTS alpha, beta, gold, posA, posB, prog1, prog2

MCCoinOf == [i \in Pools |-> gold]
MCBaseOf == [x \in Positions |-> IF x = posA THEN alpha ELSE beta]
MCQuoteOf == [x \in Positions |-> gold]

Shares(a, b, d) == [holders |-> a, buyback |-> b, protocol |-> d]
MCSplits == {Shares(2, 2, 0), Shares(3, 0, 1), Shares(3, 2, 1)}

Sum(f) == SumFunction(f)
One(cond) == IF cond THEN 1 ELSE 0

\* What trades and gifts have brought, and how far the configuration is from
\* the first.
Inflow ==
  Sum(taken) + Sum(given.holder) + Sum(given.recv)
    + Sum([i \in Pools |-> curve[i].fees + curve[i].surplus])
    + Sum([x \in Positions |-> damm[x].quote + damm[x].base])
    + Sum([i \in Pools |-> treasury[i] + withdrawn.treasury[i]])
Resplit == Cardinality(splitsSeen) - 1 + One(split # Shares(2, 2, 0))
Reconfigured ==
  Resplit + One(keepers # {}) + One(paused) + One(admin # Deployer)
    + One(distributor # prog1) + One(buyback # prog2)
Elapsed == now - StartTime

\* Two coins through all of the pools' sources and accounts, one when somebody
\* has sent the router a position.
Gifts == {x \in Positions : damm[x].owned /\ ~curve[BaseOf[x]].migrated}
Money == Inflow <= (IF Gifts = {} THEN 2 ELSE 1) /\ Reconfigured = 0 /\ Elapsed = 0

\* Changes of the configuration and claims over time, before coins arrive.
Clock == Inflow = 0 /\ (Reconfigured + Elapsed <= 2 \/ Reconfigured = 0)

\* One curve up to the limit of its books, under changing splits.
OnePool ==
  /\ Inflow <= 4 /\ Reconfigured = Resplit /\ Elapsed = 0
  /\ taken[beta] = 0 /\ pool[beta] = Unregistered /\ curve[beta].fees = 0
  /\ \A x \in Positions : ~damm[x].owned
  /\ given = [holder |-> [i \in Pools |-> 0], recv |-> [i \in Coins |-> 0]]
  /\ withdrawn.treasury[gold] = 0 /\ withdrawn.buyback[gold] = 0

Bounds == Money \/ Clock \/ OnePool

\* The two pools are alike.
Other == [i \in {alpha, beta, posA, posB} |->
            CASE i = alpha -> beta [] i = beta -> alpha [] i = posA -> posB [] OTHER -> posA]
Alike == {Other}
=============================================================================
