----------------------------- MODULE MCPayouts -----------------------------
(***************************************************************************)
(* Instances of Payouts for TLC.                                           *)
(***************************************************************************)
EXTENDS Payouts

CONSTANTS a, b

MCOrder == [w \in Wallets |-> IF w = a THEN 1 ELSE 2]
MCRoots == SUBSET (Wallets \X U64)
MCPoolOf == [e \in Epochs |-> Pool]

\* An even split of a total, all of it to one wallet, and nobody eligible.
MCTwabs == {[w \in Wallets |-> 1], [w \in Wallets |-> IF w = a THEN 0 ELSE 1],
            [w \in Wallets |-> 0]}
=============================================================================
