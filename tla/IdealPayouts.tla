---------------------------- MODULE IdealPayouts ----------------------------
(***************************************************************************)
(* What payouts promise (apps/keeper/src/cycles/payouts.ts:8-16, the       *)
(* distributor's README): an epoch is opened once, with a plan, and from   *)
(* then on each wallet of the plan is paid its whole share in one go, at   *)
(* most once.  Push batches, Merkle proofs, retries, crashes and resumes   *)
(* do not show.                                                            *)
(***************************************************************************)
EXTENDS Naturals

CONSTANTS Epochs, Wallets, None

VARIABLES
  plan,         \* the plan of each epoch, None before it is opened
  received      \* what each wallet got from each epoch

idealVars == <<plan, received>>

IdealInit ==
  /\ plan = [e \in Epochs |-> None]
  /\ received = [e \in Epochs |-> [w \in Wallets |-> 0]]

Open(e) ==
  /\ plan[e] = None
  /\ \A d \in Epochs : d # e => plan'[d] = plan[d]
  /\ plan'[e] # None
  /\ UNCHANGED received

Pay(e, ws) ==
  /\ plan[e] # None
  /\ \A w \in ws : received[e][w] = 0
  /\ received' = [received EXCEPT ![e] =
                    [w \in Wallets |-> IF w \in ws THEN plan[e][w] ELSE @[w]]]
  /\ UNCHANGED plan

IdealNext ==
  \E e \in Epochs : Open(e) \/ \E ws \in (SUBSET Wallets) \ {{}} : Pay(e, ws)

IdealSpec == IdealInit /\ [][IdealNext]_idealVars
=============================================================================
