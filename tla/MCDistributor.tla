--------------------------- MODULE MCDistributor ---------------------------
(***************************************************************************)
(* Instances of Distributor for TLC.                                       *)
(***************************************************************************)
EXTENDS Distributor

CONSTANTS w1, w2, p1, MaxLeaf

MCPoolOf == [e \in Epochs |-> p1]

\* No leaf, one for each wallet, and a dishonest tree with two for the same.
MCRoots == {{}, {<<w1, 1>>, <<w2, MaxLeaf>>}, {<<w1, 1>>, <<w1, MaxLeaf>>}}
=============================================================================
