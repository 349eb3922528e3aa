------------------------- MODULE DistributorProofs -------------------------
(***************************************************************************)
(* Theorems about Distributor, for every value of its constants.           *)
(***************************************************************************)
EXTENDS Distributor, ArithmeticLemmas

USE DEF U64, DistributorAssumption

LEMMA NoEpochType == NoEpoch \in EpochAccount
  BY DistributorAssumption DEF EpochAccount, NoEpoch

\* The writes the handlers make to an Epoch account keep its layout.
LEMMA EpochWrites ==
  ASSUME NEW r \in EpochAccount, NEW x \in U64,
         NEW root \in SUBSET (Wallets \X U64)
  PROVE  /\ [r EXCEPT !.claimed_amount = x] \in EpochAccount
         /\ [r EXCEPT !.pushed_amount = x] \in EpochAccount
         /\ [r EXCEPT !.finalized = TRUE] \in EpochAccount
         /\ [r EXCEPT !.merkle_root = root, !.merkle_total = x, !.finalized = TRUE]
              \in EpochAccount
  BY DEF EpochAccount

LEMMA OpenedType ==
  ASSUME NEW s \in Nat, NEW t \in Nat, NEW x \in U64
  PROVE  Opened(s, t, x) \in EpochAccount
  BY NoEpochType DEF EpochAccount, Opened

LEMMA InitTypeOK == Init => TypeOK
<1> SUFFICES ASSUME Init PROVE TypeOK
  OBVIOUS
<1>1. epoch \in [Epochs -> EpochAccount]
  BY NoEpochType DEF Init
<1>2. /\ claimed \in [Epochs -> [Wallets -> U64]]
      /\ paid \in [Epochs -> [Wallets -> Nat]]
      /\ holderVault \in [Routers -> [Pools -> Nat]]
  BY DistributorAssumption DEF Init
<1>3. /\ vault \in [Epochs -> Nat]
      /\ treasury \in [Routers -> Nat]
      /\ routerPaused \in [Routers -> BOOLEAN]
      /\ outside \in Nat
  BY DistributorAssumption DEF Init
<1> QED
  BY <1>1, <1>2, <1>3, DistributorAssumption DEF Init, TypeOK

\* Every instruction leaves the accounts well-typed: one step per action.
LEMMA NextTypeOK == TypeOK /\ [Next]_vars => TypeOK'
<1> SUFFICES ASSUME TypeOK, [Next]_vars PROVE TypeOK'
  OBVIOUS
<1> USE DistributorAssumption
<1>1. ASSUME NEW a \in Actors, NEW ks \in SUBSET Actors, SetKeepers(a, ks)
      PROVE  TypeOK'
  BY <1>1 DEF TypeOK, SetKeepers, routerVars
<1>2. ASSUME NEW a \in Actors, NEW b \in Actors, NEW r \in Routers, NEW bps \in PushBps,
             NEW p \in BOOLEAN, SetParams(a, r, bps, p, b)
      PROVE  TypeOK'
  BY <1>2 DEF TypeOK, SetParams, routerVars
<1>3. ASSUME NEW k \in Actors, NEW e \in Epochs, NEW start \in 0..now, NEW end \in 0..now,
             NEW total \in U64, OpenEpochRouter(k, e, start, end, total)
      PROVE  TypeOK'
  <2>1. Opened(start, end, total) \in EpochAccount
    BY OpenedType DEF TypeOK
  <2>2. epoch' \in [Epochs -> EpochAccount]
    BY <1>3, <2>1 DEF TypeOK, OpenEpochRouter
  <2>3. vault' \in [Epochs -> Nat] /\ holderVault' \in [Routers -> [Pools -> Nat]]
    BY <1>3 DEF TypeOK, OpenEpochRouter, WithdrawForEpoch
  <2> QED
    BY <1>3, <2>2, <2>3 DEF TypeOK, OpenEpochRouter, configVars
<1>4. ASSUME NEW k \in Actors, NEW e \in Epochs, NEW start \in 0..now, NEW end \in 0..now,
             NEW total \in U64, OpenEpochDirect(k, e, start, end, total)
      PROVE  TypeOK'
  <2>1. Opened(start, end, total) \in EpochAccount
    BY OpenedType DEF TypeOK
  <2>2. epoch' \in [Epochs -> EpochAccount]
    BY <1>4, <2>1 DEF TypeOK, OpenEpochDirect
  <2>3. vault' \in [Epochs -> Nat] /\ outside' \in Nat
    BY <1>4 DEF TypeOK, OpenEpochDirect
  <2> QED
    BY <1>4, <2>2, <2>3 DEF TypeOK, OpenEpochDirect, configVars, routerVars
<1>5. ASSUME NEW k \in Actors, NEW e \in Epochs, NEW items \in [Wallets -> U64],
             PushPayouts(k, e, items)
      PROVE  TypeOK'
  <2>1. PICK sum \in U64 :
          /\ sum <= Remainder(e)
          /\ sum <= vault[e]
          /\ vault' = [vault EXCEPT ![e] = @ - sum]
          /\ epoch' = [epoch EXCEPT ![e].pushed_amount = @ + sum]
    BY <1>5 DEF PushPayouts
  <2>2. epoch[e] \in EpochAccount
    BY DEF TypeOK
  <2>3. epoch[e].pushed_amount + sum \in U64
    BY <2>1, <2>2 DEF Remainder, EpochAccount
  <2>4. epoch' \in [Epochs -> EpochAccount]
    BY <2>1, <2>2, <2>3 DEF TypeOK, EpochAccount
  <2>5. vault' \in [Epochs -> Nat]
    BY <2>1 DEF TypeOK
  <2>6. paid' \in [Epochs -> [Wallets -> Nat]]
    BY <1>5 DEF TypeOK, PushPayouts
  <2> QED
    BY <1>5, <2>4, <2>5, <2>6 DEF TypeOK, PushPayouts, configVars, routerVars
<1>6. ASSUME NEW k \in Actors, NEW e \in Epochs, NEW root \in Roots, NEW total \in U64,
             FinalizeEpoch(k, e, root, total)
      PROVE  TypeOK'
  <2>1. epoch' \in [Epochs -> EpochAccount]
    <3>1. root \in SUBSET (Wallets \X U64)
      OBVIOUS
    <3>2. epoch' = [epoch EXCEPT ![e] = [@ EXCEPT !.merkle_root = root,
                                         !.merkle_total = total, !.finalized = TRUE]]
      BY <1>6 DEF TypeOK, FinalizeEpoch
    <3> QED
      BY <3>1, <3>2, EpochWrites DEF TypeOK
  <2> QED
    BY <1>6, <2>1 DEF TypeOK, FinalizeEpoch, configVars, routerVars
<1>7. ASSUME NEW w \in Wallets, NEW e \in Epochs, NEW amount \in U64, Claim(w, e, amount)
      PROVE  TypeOK'
  <2>1. epoch' \in [Epochs -> EpochAccount]
    <3>1. epoch[e].claimed_amount + amount \in U64
      BY <1>7 DEF TypeOK, Claim, Claimable, EpochAccount
    <3>2. epoch' = [epoch EXCEPT ![e] =
                      [@ EXCEPT !.claimed_amount = epoch[e].claimed_amount + amount]]
      BY <1>7 DEF Claim, Claimable
    <3> QED
      BY <3>1, <3>2, EpochWrites DEF TypeOK
  <2>2. vault' \in [Epochs -> Nat]
    BY <1>7 DEF TypeOK, Claim, Claimable
  <2>3. /\ claimed' \in [Epochs -> [Wallets -> U64]]
        /\ paid' \in [Epochs -> [Wallets -> Nat]]
    BY <1>7 DEF TypeOK, Claim, Claimable
  <2> QED
    BY <1>7, <2>1, <2>2, <2>3 DEF TypeOK, Claim, Claimable, configVars, routerVars
<1>8. ASSUME NEW a \in Actors, NEW e \in Epochs, SweepUnclaimed(a, e)
      PROVE  TypeOK'
  <2>1. epoch' \in [Epochs -> EpochAccount]
    <3>1. epoch' = [epoch EXCEPT ![e] = [@ EXCEPT !.finalized = TRUE]]
      BY <1>8 DEF SweepUnclaimed
    <3> QED
      BY <3>1, EpochWrites DEF TypeOK
  <2>2. vault' \in [Epochs -> Nat] /\ treasury' \in [Routers -> Nat] /\ swept' \in SUBSET Epochs
    BY <1>8 DEF TypeOK, SweepUnclaimed
  <2> QED
    BY <1>8, <2>1, <2>2 DEF TypeOK, SweepUnclaimed, configVars, routerVars
<1>9. ASSUME NEW r \in Routers, NEW p \in Pools, NEW amount \in U64, AccrueFees(r, p, amount)
      PROVE  TypeOK'
  BY <1>9 DEF TypeOK, AccrueFees, configVars
<1>10. ASSUME NEW r \in Routers, NEW b \in BOOLEAN, SetRouterPaused(r, b)
       PROVE  TypeOK'
  BY <1>10 DEF TypeOK, SetRouterPaused, configVars
<1>11. ASSUME NEW e \in Epochs, NEW amount \in U64, Donate(e, amount)
       PROVE  TypeOK'
  BY <1>11 DEF TypeOK, Donate, configVars, routerVars
<1>12. ASSUME Tick PROVE TypeOK'
  BY <1>12 DEF TypeOK, Tick, configVars, routerVars
<1>13. ASSUME UNCHANGED vars PROVE TypeOK'
  BY <1>13 DEF TypeOK, vars
<1> QED
  BY <1>1, <1>2, <1>3, <1>4, <1>5, <1>6, <1>7, <1>8, <1>9, <1>10, <1>11, <1>12, <1>13
     DEF Next

\* The accounts of the distributor are well-typed in every reachable state:
\* no balance is ever negative and every stored amount fits a u64.
THEOREM TypeCorrect == Spec => []TypeOK
  BY InitTypeOK, NextTypeOK, PTL DEF Spec
-----------------------------------------------------------------------------
(***************************************************************************)
(* The inductive invariant.  EpochInv(f) reads only epoch f, so an action  *)
(* on another epoch, and one that only adds coins or time, preserves it.   *)
(***************************************************************************)

LEMMA Frame ==
  ASSUME TypeOK, TypeOK', NEW f \in Epochs, EpochInv(f),
         epoch'[f] = epoch[f], vault'[f] >= vault[f], claimed'[f] = claimed[f],
         f \in swept' <=> f \in swept, now' >= now
  PROVE  EpochInv(f)'
<1>1. /\ epoch[f] \in EpochAccount /\ vault[f] \in Nat /\ vault'[f] \in Nat
      /\ now \in Nat /\ now' \in Nat
  BY DEF TypeOK
<1>2. f \in swept' => now' > ClaimDeadline(f)'
  BY <1>1, DistributorAssumption DEF EpochInv, ClaimDeadline, EpochAccount
<1> QED
  BY <1>1, <1>2 DEF EpochInv, EpochAccount

LEMMA InitIInv == Init => IInv
<1> SUFFICES ASSUME Init, NEW e \in Epochs PROVE EpochInv(e)
  BY DEF IInv
<1>1. epoch[e] = NoEpoch /\ e \notin swept /\ \A w \in Wallets : claimed[e][w] = 0
  BY DEF Init
<1> QED
  BY <1>1 DEF EpochInv, NoEpoch

\* A fresh epoch starts with its total in the vault and nothing promised.
LEMMA OpenIInv ==
  ASSUME TypeOK, TypeOK', IInv, NEW e \in Epochs, NEW start \in Nat, NEW end \in Nat,
         NEW total \in U64, ~epoch[e].exists,
         epoch' = [epoch EXCEPT ![e] = Opened(start, end, total)],
         vault' = [vault EXCEPT ![e] = @ + total],
         UNCHANGED <<now, claimed, swept>>
  PROVE  IInv'
<1> SUFFICES ASSUME NEW f \in Epochs PROVE EpochInv(f)'
  BY DEF IInv
<1>1. CASE f # e
  <2>1. epoch'[f] = epoch[f] /\ vault'[f] = vault[f] /\ vault[f] \in Nat /\ now \in Nat
    BY <1>1 DEF TypeOK
  <2> QED
    BY <2>1, Frame DEF IInv
<1>2. CASE f = e
  <2>1. epoch[e] = NoEpoch /\ e \notin swept /\ vault[e] \in Nat
        /\ \A w \in Wallets : claimed[e][w] = 0
    BY DEF IInv, EpochInv, TypeOK, NoEpoch
  <2>2. epoch'[e] = Opened(start, end, total) /\ vault'[e] = vault[e] + total
    BY DEF TypeOK
  <2>3. /\ epoch'[e].exists /\ ~epoch'[e].finalized /\ epoch'[e].merkle_root = {}
        /\ epoch'[e].total_amount = total /\ epoch'[e].pushed_amount = 0
        /\ epoch'[e].merkle_total = 0 /\ epoch'[e].claimed_amount = 0
    BY <2>2 DEF Opened, NoEpoch
  <2> QED
    BY <1>2, <2>1, <2>2, <2>3, DistributorAssumption DEF EpochInv
<1> QED
  BY <1>1, <1>2

LEMMA NextIInv == TypeOK /\ TypeOK' /\ IInv /\ [Next]_vars => IInv'
<1> SUFFICES ASSUME TypeOK, TypeOK', IInv, [Next]_vars PROVE IInv'
  OBVIOUS
<1> USE DistributorAssumption
\* What no epoch can notice.
<1>1. ASSUME UNCHANGED <<epoch, claimed, swept>>, \A f \in Epochs : vault'[f] >= vault[f],
             now' >= now
      PROVE  IInv'
  BY <1>1, Frame DEF IInv
<1>2. ASSUME NEW a \in Actors, NEW ks \in SUBSET Actors, SetKeepers(a, ks) PROVE IInv'
  BY <1>1, <1>2 DEF SetKeepers, TypeOK
<1>3. ASSUME NEW a \in Actors, NEW b \in Actors, NEW r \in Routers, NEW bps \in PushBps,
             NEW p \in BOOLEAN, SetParams(a, r, bps, p, b)
      PROVE  IInv'
  BY <1>1, <1>3 DEF SetParams, TypeOK
<1>4. ASSUME NEW k \in Actors, NEW e \in Epochs, NEW start \in 0..now, NEW end \in 0..now,
             NEW total \in U64, OpenEpochRouter(k, e, start, end, total)
      PROVE  IInv'
  <2>1. start \in Nat /\ end \in Nat
    BY DEF TypeOK
  <2>2. /\ ~epoch[e].exists /\ UNCHANGED <<now, claimed, swept>>
        /\ epoch' = [epoch EXCEPT ![e] = Opened(start, end, total)]
        /\ vault' = [vault EXCEPT ![e] = @ + total]
    BY <1>4 DEF OpenEpochRouter, CanOpen, WithdrawForEpoch
  <2> QED
    BY <2>1, <2>2, OpenIInv
<1>5. ASSUME NEW k \in Actors, NEW e \in Epochs, NEW start \in 0..now, NEW end \in 0..now,
             NEW total \in U64, OpenEpochDirect(k, e, start, end, total)
      PROVE  IInv'
  <2>1. start \in Nat /\ end \in Nat
    BY DEF TypeOK
  <2>2. /\ ~epoch[e].exists /\ UNCHANGED <<now, claimed, swept>>
        /\ epoch' = [epoch EXCEPT ![e] = Opened(start, end, total)]
        /\ vault' = [vault EXCEPT ![e] = @ + total]
    BY <1>5 DEF OpenEpochDirect, CanOpen
  <2> QED
    BY <2>1, <2>2, OpenIInv
<1>6. ASSUME NEW k \in Actors, NEW e \in Epochs, NEW items \in [Wallets -> U64],
             PushPayouts(k, e, items)
      PROVE  IInv'
  <2> SUFFICES ASSUME NEW f \in Epochs PROVE EpochInv(f)'
    BY DEF IInv
  <2>1. PICK sum \in U64 :
          /\ sum <= Remainder(e)
          /\ sum <= vault[e]
          /\ vault' = [vault EXCEPT ![e] = @ - sum]
          /\ epoch' = [epoch EXCEPT ![e].pushed_amount = @ + sum]
    BY <1>6 DEF PushPayouts
  <2>2. UNCHANGED <<now, claimed, swept>> /\ epoch[e].exists /\ ~epoch[e].finalized
    BY <1>6 DEF PushPayouts
  <2>3. CASE f # e
    <3>1. epoch'[f] = epoch[f] /\ vault'[f] = vault[f] /\ vault[f] \in Nat /\ now \in Nat
      BY <2>1, <2>3 DEF TypeOK
    <3> QED
      BY <2>2, <3>1, Frame DEF IInv
  <2>4. CASE f = e
    <3>1. epoch[e] \in EpochAccount /\ vault[e] \in Nat /\ EpochInv(e)
      BY DEF TypeOK, IInv
    <3>2. /\ epoch'[e] = [epoch[e] EXCEPT !.pushed_amount = epoch[e].pushed_amount + sum]
          /\ vault'[e] = vault[e] - sum
      BY <2>1 DEF TypeOK
    <3>3. e \notin swept
      BY <2>2, <3>1 DEF EpochInv
    <3> QED
      BY <2>1, <2>2, <2>4, <3>1, <3>2, <3>3 DEF EpochInv, EpochAccount, Remainder
  <2> QED
    BY <2>3, <2>4
<1>7. ASSUME NEW k \in Actors, NEW e \in Epochs, NEW root \in Roots, NEW total \in U64,
             FinalizeEpoch(k, e, root, total)
      PROVE  IInv'
  <2> SUFFICES ASSUME NEW f \in Epochs PROVE EpochInv(f)'
    BY DEF IInv
  <2>1. /\ UNCHANGED <<now, claimed, swept, vault>>
        /\ epoch[e].exists /\ ~epoch[e].finalized /\ total <= Remainder(e)
    BY <1>7 DEF FinalizeEpoch
  <2>2. CASE f # e
    <3>1. epoch'[f] = epoch[f] /\ vault[f] \in Nat /\ now \in Nat
      BY <1>7, <2>2 DEF FinalizeEpoch, TypeOK
    <3> QED
      BY <2>1, <3>1, Frame DEF IInv
  <2>3. CASE f = e
    <3>1. epoch[e] \in EpochAccount /\ vault[e] \in Nat /\ EpochInv(e)
      BY DEF TypeOK, IInv
    <3>2. epoch'[e] = [epoch[e] EXCEPT !.merkle_root = root, !.merkle_total = total,
                                       !.finalized = TRUE]
      BY <1>7 DEF FinalizeEpoch, TypeOK
    <3>3. e \notin swept
      BY <2>1, <3>1 DEF EpochInv
    <3> QED
      BY <2>1, <2>3, <3>1, <3>2, <3>3 DEF EpochInv, EpochAccount, Remainder
  <2> QED
    BY <2>2, <2>3
<1>8. ASSUME NEW w \in Wallets, NEW e \in Epochs, NEW amount \in U64, Claim(w, e, amount)
      PROVE  IInv'
  <2> SUFFICES ASSUME NEW f \in Epochs PROVE EpochInv(f)'
    BY DEF IInv
  <2>1. /\ UNCHANGED <<now, swept>>
        /\ epoch[e].exists /\ epoch[e].finalized /\ now <= ClaimDeadline(e)
        /\ epoch[e].claimed_amount + amount <= epoch[e].merkle_total
    BY <1>8 DEF Claim, Claimable
  <2>2. CASE f # e
    <3>1. /\ epoch'[f] = epoch[f] /\ vault'[f] = vault[f] /\ vault[f] \in Nat
          /\ claimed'[f] = claimed[f] /\ now \in Nat
      BY <1>8, <2>2 DEF Claim, Claimable, TypeOK
    <3> QED
      BY <2>1, <3>1, Frame DEF IInv
  <2>3. CASE f = e
    <3>1. epoch[e] \in EpochAccount /\ vault[e] \in Nat /\ now \in Nat /\ EpochInv(e)
      BY DEF TypeOK, IInv
    <3>2. /\ epoch'[e] = [epoch[e] EXCEPT !.claimed_amount = epoch[e].claimed_amount + amount]
          /\ vault'[e] = vault[e] - amount
      BY <1>8 DEF Claim, Claimable, TypeOK
    <3>3. e \notin swept
      BY <2>1, <3>1 DEF EpochInv, ClaimDeadline, EpochAccount
    <3> QED
      BY <2>1, <2>3, <3>1, <3>2, <3>3 DEF EpochInv, EpochAccount
  <2> QED
    BY <2>2, <2>3
<1>9. ASSUME NEW a \in Actors, NEW e \in Epochs, SweepUnclaimed(a, e) PROVE IInv'
  <2> SUFFICES ASSUME NEW f \in Epochs PROVE EpochInv(f)'
    BY DEF IInv
  <2>1. /\ UNCHANGED <<now, claimed>> /\ epoch[e].exists /\ now > ClaimDeadline(e)
        /\ swept' = swept \cup {e}
    BY <1>9 DEF SweepUnclaimed
  <2>2. CASE f # e
    <3>1. /\ epoch'[f] = epoch[f] /\ vault'[f] = vault[f] /\ vault[f] \in Nat
          /\ now \in Nat /\ (f \in swept' <=> f \in swept)
      BY <1>9, <2>2 DEF SweepUnclaimed, TypeOK
    <3> QED
      BY <2>1, <3>1, Frame DEF IInv
  <2>3. CASE f = e
    <3>1. epoch[e] \in EpochAccount /\ EpochInv(e)
      BY DEF TypeOK, IInv
    <3>2. epoch'[e] = [epoch[e] EXCEPT !.finalized = TRUE]
      BY <1>9 DEF SweepUnclaimed, TypeOK
    <3> QED
      BY <2>1, <2>3, <3>1, <3>2 DEF EpochInv, EpochAccount, ClaimDeadline
  <2> QED
    BY <2>2, <2>3
<1>10. ASSUME NEW r \in Routers, NEW p \in Pools, NEW amount \in U64, AccrueFees(r, p, amount)
       PROVE  IInv'
  BY <1>1, <1>10 DEF AccrueFees, TypeOK
<1>11. ASSUME NEW r \in Routers, NEW b \in BOOLEAN, SetRouterPaused(r, b) PROVE IInv'
  BY <1>1, <1>11 DEF SetRouterPaused, TypeOK
<1>12. ASSUME NEW e \in Epochs, NEW amount \in U64, Donate(e, amount) PROVE IInv'
  BY <1>1, <1>12 DEF Donate, TypeOK
<1>13. ASSUME Tick PROVE IInv'
  BY <1>1, <1>13 DEF Tick, TypeOK
<1>14. ASSUME UNCHANGED vars PROVE IInv'
  BY <1>1, <1>14 DEF vars, TypeOK
<1> QED
  BY <1>2, <1>3, <1>4, <1>5, <1>6, <1>7, <1>8, <1>9, <1>10, <1>11, <1>12, <1>13, <1>14
     DEF Next

LEMMA InvInductive == Spec => [](TypeOK /\ IInv)
<1>1. Init => TypeOK /\ IInv
  BY InitTypeOK, InitIInv
<1>2. TypeOK /\ IInv /\ [Next]_vars => (TypeOK /\ IInv)'
  BY NextTypeOK, NextIInv
<1> QED
  BY <1>1, <1>2, PTL DEF Spec
-----------------------------------------------------------------------------
(***************************************************************************)
(* The safety properties.                                                  *)
(***************************************************************************)

\* An opened, unswept epoch always holds what its books still owe, so push and
\* claim transfers never fail, in any order of pushes, claims and donations.
THEOREM SolventAlways == Spec => []EpochSolvent
<1>1. TypeOK /\ IInv => EpochSolvent
  <2> SUFFICES ASSUME TypeOK, IInv, NEW e \in Epochs, epoch[e].exists, e \notin swept
               PROVE  vault[e] >= epoch[e].total_amount - epoch[e].pushed_amount
                                    - epoch[e].claimed_amount
    BY DEF EpochSolvent
  <2>1. epoch[e] \in EpochAccount /\ vault[e] \in Nat /\ EpochInv(e)
    BY DEF TypeOK, IInv
  <2> QED
    BY <2>1, DistributorAssumption DEF EpochInv, EpochAccount
<1> QED
  BY <1>1, InvInductive, PTL

\* Pushes and posted claims never promise more than the epoch was funded with,
\* whatever roots and totals the keepers post.
THEOREM AllocationBounded == Spec => []NeverOverAllocated
<1>1. IInv => NeverOverAllocated
  BY DEF IInv, EpochInv, NeverOverAllocated
<1> QED
  BY <1>1, InvInductive, PTL

\* Next, by what an action can do to the accounts of an epoch.
LEMMA NextCases ==
  ASSUME Next
  PROVE  \/ UNCHANGED <<epoch, paid, claimed>>
         \/ \E k \in Actors, e \in Epochs, start, end \in 0..now, total \in U64 :
              \/ OpenEpochRouter(k, e, start, end, total)
              \/ OpenEpochDirect(k, e, start, end, total)
         \/ \E k \in Actors, e \in Epochs, items \in [Wallets -> U64] : PushPayouts(k, e, items)
         \/ \E k \in Actors, e \in Epochs, root \in Roots, total \in U64 :
              FinalizeEpoch(k, e, root, total)
         \/ \E w \in Wallets, e \in Epochs, amount \in U64 : Claim(w, e, amount)
         \/ \E a \in Actors, e \in Epochs : SweepUnclaimed(a, e)
<1>1. (\E a \in Actors, ks \in SUBSET Actors : SetKeepers(a, ks))
        => UNCHANGED <<epoch, paid, claimed>>
  BY DEF SetKeepers
<1>2. (\E a, b \in Actors, r \in Routers, bps \in PushBps, p \in BOOLEAN : SetParams(a, r, bps, p, b))
        => UNCHANGED <<epoch, paid, claimed>>
  BY DEF SetParams
<1>3. (\E r \in Routers, p \in Pools, amount \in U64 : AccrueFees(r, p, amount))
        => UNCHANGED <<epoch, paid, claimed>>
  BY DEF AccrueFees
<1>4. (\E r \in Routers, b \in BOOLEAN : SetRouterPaused(r, b))
        => UNCHANGED <<epoch, paid, claimed>>
  BY DEF SetRouterPaused
<1>5. (\E e \in Epochs, amount \in U64 : Donate(e, amount)) => UNCHANGED <<epoch, paid, claimed>>
  BY DEF Donate
<1>6. Tick => UNCHANGED <<epoch, paid, claimed>>
  BY DEF Tick
<1> QED
  BY <1>1, <1>2, <1>3, <1>4, <1>5, <1>6, Zenon DEF Next

\* A finalized epoch's root, merkle_total and pushed_amount never change again.
THEOREM SettledForGood == Spec => SettledFrozen
<1>1. TypeOK /\ IInv /\ [Next]_vars => [SettledStep]_vars
  <2> SUFFICES ASSUME TypeOK, IInv, Next, NEW f \in Epochs, epoch[f].finalized
               PROVE  /\ epoch'[f].finalized
                      /\ epoch'[f].merkle_root = epoch[f].merkle_root
                      /\ epoch'[f].merkle_total = epoch[f].merkle_total
                      /\ epoch'[f].pushed_amount = epoch[f].pushed_amount
    BY DEF SettledStep
  <2>0. epoch \in [Epochs -> EpochAccount] /\ epoch[f] \in EpochAccount /\ epoch[f].exists
    BY DEF TypeOK, IInv, EpochInv, NoEpoch
  <2>1. CASE UNCHANGED <<epoch, paid, claimed>>
    BY <2>1
  <2>2. ASSUME NEW k \in Actors, NEW e \in Epochs, NEW start \in 0..now, NEW end \in 0..now,
               NEW total \in U64,
               OpenEpochRouter(k, e, start, end, total) \/ OpenEpochDirect(k, e, start, end, total)
        PROVE  epoch'[f] = epoch[f]
    BY <2>0, <2>2 DEF OpenEpochRouter, OpenEpochDirect, CanOpen
  <2>3. ASSUME NEW k \in Actors, NEW e \in Epochs, NEW items \in [Wallets -> U64],
               PushPayouts(k, e, items)
        PROVE  epoch'[f] = epoch[f]
    BY <2>0, <2>3 DEF PushPayouts
  <2>4. ASSUME NEW k \in Actors, NEW e \in Epochs, NEW root \in Roots, NEW total \in U64,
               FinalizeEpoch(k, e, root, total)
        PROVE  epoch'[f] = epoch[f]
    BY <2>0, <2>4 DEF FinalizeEpoch
  <2>5. ASSUME NEW w \in Wallets, NEW e \in Epochs, NEW amount \in U64, Claim(w, e, amount)
        PROVE  \/ epoch'[f] = epoch[f]
               \/ epoch'[f] = [epoch[f] EXCEPT !.claimed_amount = epoch[f].claimed_amount + amount]
    BY <2>0, <2>5 DEF Claim, Claimable
  <2>6. ASSUME NEW a \in Actors, NEW e \in Epochs, SweepUnclaimed(a, e)
        PROVE  epoch'[f] = epoch[f] \/ epoch'[f] = [epoch[f] EXCEPT !.finalized = TRUE]
    BY <2>0, <2>6 DEF SweepUnclaimed
  <2>7. ASSUME NEW w \in Wallets, NEW e \in Epochs, NEW amount \in U64, Claim(w, e, amount)
        PROVE  /\ epoch'[f].finalized
               /\ epoch'[f].merkle_root = epoch[f].merkle_root
               /\ epoch'[f].merkle_total = epoch[f].merkle_total
               /\ epoch'[f].pushed_amount = epoch[f].pushed_amount
    <3>1. \/ epoch'[f] = epoch[f]
          \/ epoch'[f] = [epoch[f] EXCEPT !.claimed_amount = epoch[f].claimed_amount + amount]
      BY <2>5, <2>7
    <3> QED BY <2>0, <3>1 DEF EpochAccount
  <2>8. ASSUME NEW a \in Actors, NEW e \in Epochs, SweepUnclaimed(a, e)
        PROVE  /\ epoch'[f].finalized
               /\ epoch'[f].merkle_root = epoch[f].merkle_root
               /\ epoch'[f].merkle_total = epoch[f].merkle_total
               /\ epoch'[f].pushed_amount = epoch[f].pushed_amount
    <3>1. epoch'[f] = epoch[f] \/ epoch'[f] = [epoch[f] EXCEPT !.finalized = TRUE]
      BY <2>6, <2>8
    <3> QED BY <2>0, <3>1 DEF EpochAccount
  <2> QED
    BY <2>1, <2>2, <2>3, <2>4, <2>7, <2>8, NextCases
<1> QED
  BY <1>1, InvInductive, PTL DEF Spec, SettledFrozen

\* After a sweep nobody is paid from the epoch: the claim window is closed for
\* good and finalized blocks pushes, even when coins arrive in the vault later.
THEOREM SweepIsFinal == Spec => NoPayoutAfterSweep
<1>1. TypeOK /\ IInv /\ [Next]_vars => [SweptStep]_vars
  <2> SUFFICES ASSUME TypeOK, IInv, Next, NEW f \in swept
               PROVE  paid'[f] = paid[f]
    BY DEF SweptStep
  <2>0. /\ f \in Epochs /\ epoch[f] \in EpochAccount /\ epoch[f].finalized
        /\ now > ClaimDeadline(f) /\ now \in Nat /\ ClaimDeadline(f) \in Nat
        /\ paid \in [Epochs -> [Wallets -> Nat]]
    BY DistributorAssumption DEF TypeOK, IInv, EpochInv, ClaimDeadline, EpochAccount
  <2>1. CASE UNCHANGED <<epoch, paid, claimed>>
    BY <2>1
  <2>2. ASSUME NEW k \in Actors, NEW e \in Epochs, NEW start \in 0..now, NEW end \in 0..now,
               NEW total \in U64,
               OpenEpochRouter(k, e, start, end, total) \/ OpenEpochDirect(k, e, start, end, total)
        PROVE  paid'[f] = paid[f]
    BY <2>2 DEF OpenEpochRouter, OpenEpochDirect
  <2>3. ASSUME NEW k \in Actors, NEW e \in Epochs, NEW items \in [Wallets -> U64],
               PushPayouts(k, e, items)
        PROVE  paid'[f] = paid[f]
    BY <2>0, <2>3 DEF PushPayouts
  <2>4. ASSUME NEW k \in Actors, NEW e \in Epochs, NEW root \in Roots, NEW total \in U64,
               FinalizeEpoch(k, e, root, total)
        PROVE  paid'[f] = paid[f]
    BY <2>4 DEF FinalizeEpoch
  <2>5. ASSUME NEW w \in Wallets, NEW e \in Epochs, NEW amount \in U64, Claim(w, e, amount)
        PROVE  paid'[f] = paid[f]
    <3>1. now <= ClaimDeadline(e)
      BY <2>5 DEF Claim, Claimable
    <3>2. e # f
      BY <3>1, <2>0
    <3> QED
      BY <2>0, <2>5, <3>2 DEF Claim, Claimable
  <2>6. ASSUME NEW a \in Actors, NEW e \in Epochs, SweepUnclaimed(a, e)
        PROVE  paid'[f] = paid[f]
    BY <2>6 DEF SweepUnclaimed
  <2> QED
    BY <2>1, <2>2, <2>3, <2>4, <2>5, <2>6, NextCases
<1> QED
  BY <1>1, InvInductive, PTL DEF Spec, NoPayoutAfterSweep

\* A wallet that claimed from an epoch is never paid from it again: the Claimed
\* PDA stops a second claim, and a claim needs finalized, which stops pushes.
THEOREM ClaimIsOnce == Spec => ClaimedOnce
<1>1. TypeOK /\ IInv /\ [Next]_vars => [ClaimedOnceStep]_vars
  <2> SUFFICES ASSUME TypeOK, IInv, Next, NEW f \in Epochs, NEW v \in Wallets, claimed[f][v] # 0
               PROVE  paid'[f][v] = paid[f][v]
    BY DEF ClaimedOnceStep
  <2>0. epoch[f].finalized /\ paid \in [Epochs -> [Wallets -> Nat]]
    BY DEF TypeOK, IInv, EpochInv
  <2>1. CASE UNCHANGED <<epoch, paid, claimed>>
    BY <2>1
  <2>2. ASSUME NEW k \in Actors, NEW e \in Epochs, NEW start \in 0..now, NEW end \in 0..now,
               NEW total \in U64,
               OpenEpochRouter(k, e, start, end, total) \/ OpenEpochDirect(k, e, start, end, total)
        PROVE  paid'[f] = paid[f]
    BY <2>2 DEF OpenEpochRouter, OpenEpochDirect
  <2>3. ASSUME NEW k \in Actors, NEW e \in Epochs, NEW items \in [Wallets -> U64],
               PushPayouts(k, e, items)
        PROVE  paid'[f] = paid[f]
    BY <2>0, <2>3 DEF PushPayouts
  <2>4. ASSUME NEW k \in Actors, NEW e \in Epochs, NEW root \in Roots, NEW total \in U64,
               FinalizeEpoch(k, e, root, total)
        PROVE  paid'[f] = paid[f]
    BY <2>4 DEF FinalizeEpoch
  <2>5. ASSUME NEW w \in Wallets, NEW e \in Epochs, NEW amount \in U64, Claim(w, e, amount)
        PROVE  paid'[f][v] = paid[f][v]
    <3>1. e # f \/ w # v
      BY <2>5 DEF Claim, Claimable
    <3> QED
      BY <2>0, <2>5, <3>1 DEF Claim, Claimable
  <2>6. ASSUME NEW a \in Actors, NEW e \in Epochs, SweepUnclaimed(a, e)
        PROVE  paid'[f] = paid[f]
    BY <2>6 DEF SweepUnclaimed
  <2> QED
    BY <2>1, <2>2, <2>3, <2>4, <2>5, <2>6, NextCases
<1> QED
  BY <1>1, InvInductive, PTL DEF Spec, ClaimedOnce
-----------------------------------------------------------------------------
(***************************************************************************)
(* The books against the coins that left the vaults: sums over wallets.    *)
(***************************************************************************)
Books(e) ==
  /\ SumFunctionOnSet(claimed[e], Wallets) = epoch[e].claimed_amount
  /\ SumFunctionOnSet(paid[e], Wallets) = epoch[e].pushed_amount + epoch[e].claimed_amount
  /\ \A w \in Wallets : claimed[e][w] # 0 => <<w, claimed[e][w]>> \in epoch[e].merkle_root

LEMMA BooksDef == TypeOK => (BooksMatchPayments /\ ReceiptsAreLeaves <=> \A e \in Epochs : Books(e))
<1> SUFFICES ASSUME TypeOK PROVE BooksMatchPayments /\ ReceiptsAreLeaves <=> \A e \in Epochs : Books(e)
  OBVIOUS
<1>1. \A e \in Epochs : /\ [w \in Wallets |-> claimed[e][w]] = claimed[e]
                        /\ [w \in Wallets |-> paid[e][w]] = paid[e]
                        /\ DOMAIN claimed[e] = Wallets /\ DOMAIN paid[e] = Wallets
  BY DEF TypeOK
<1> QED BY <1>1 DEF BooksMatchPayments, ReceiptsAreLeaves, Books, SumFunction

\* Nothing about the books of an epoch changes.
LEMMA SameBooks ==
  ASSUME NEW f \in Epochs, Books(f), paid'[f] = paid[f], claimed'[f] = claimed[f],
         epoch'[f].pushed_amount = epoch[f].pushed_amount,
         epoch'[f].claimed_amount = epoch[f].claimed_amount,
         epoch'[f].merkle_root = epoch[f].merkle_root
  PROVE  Books(f)'
  BY DEF Books

LEMMA InitBooks == Init => \A e \in Epochs : Books(e)
<1> SUFFICES ASSUME Init, NEW e \in Epochs PROVE Books(e)
  OBVIOUS
<1>1. epoch[e] = NoEpoch /\ \A w \in Wallets : claimed[e][w] = 0 /\ paid[e][w] = 0
  BY DEF Init
<1>2. SumFunctionOnSet(claimed[e], Wallets) = 0 /\ SumFunctionOnSet(paid[e], Wallets) = 0
  BY <1>1, SumZero, DistributorAssumption
<1> QED BY <1>1, <1>2 DEF Books, NoEpoch

LEMMA PushBooks ==
  ASSUME TypeOK, TypeOK', IInv, NEW e \in Epochs, Books(e),
         NEW k \in Actors, NEW items \in [Wallets -> U64], PushPayouts(k, e, items)
  PROVE  Books(e)'
<1>1. PICK sum \in U64 :
        /\ sum = SumFunction(items)
        /\ epoch' = [epoch EXCEPT ![e].pushed_amount = @ + sum]
  BY DEF PushPayouts
<1>2. epoch'[e] = [epoch[e] EXCEPT !.pushed_amount = epoch[e].pushed_amount + sum]
  BY <1>1 DEF TypeOK
<1>3. epoch[e] \in EpochAccount /\ claimed[e] \in [Wallets -> U64] /\ paid[e] \in [Wallets -> Nat]
  BY DEF TypeOK
<1>4. claimed' = claimed /\ paid'[e] = [w \in Wallets |-> paid[e][w] + items[w]]
  BY DEF PushPayouts, TypeOK
<1>5. sum = SumFunctionOnSet(items, Wallets)
  BY <1>1 DEF SumFunction
<1>6. SumFunctionOnSet(paid'[e], Wallets) = SumFunctionOnSet(paid[e], Wallets) + sum
  BY <1>3, <1>4, <1>5, SumAdd, DistributorAssumption
<1>7. /\ epoch'[e].pushed_amount = epoch[e].pushed_amount + sum
      /\ epoch'[e].claimed_amount = epoch[e].claimed_amount
      /\ epoch'[e].merkle_root = epoch[e].merkle_root
      /\ epoch[e].pushed_amount \in Nat /\ epoch[e].claimed_amount \in Nat
  BY <1>2, <1>3, DistributorAssumption DEF EpochAccount
<1> QED BY <1>4, <1>6, <1>7 DEF Books

LEMMA ClaimBooks ==
  ASSUME TypeOK, TypeOK', IInv, NEW e \in Epochs, Books(e),
         NEW w \in Wallets, NEW amount \in U64, Claim(w, e, amount)
  PROVE  Books(e)'
<1>1. epoch'[e] = [epoch[e] EXCEPT !.claimed_amount = epoch[e].claimed_amount + amount]
  BY DEF Claim, TypeOK
<1>2. epoch[e] \in EpochAccount /\ claimed[e] \in [Wallets -> U64] /\ paid[e] \in [Wallets -> Nat]
  BY DEF TypeOK
<1>3. /\ claimed'[e] = [claimed[e] EXCEPT ![w] = amount] /\ claimed[e][w] = 0
      /\ paid'[e] = [paid[e] EXCEPT ![w] = paid[e][w] + amount]
      /\ <<w, amount>> \in epoch[e].merkle_root
  BY DEF Claim, Claimable, Verify, TypeOK
<1>4. SumFunctionOnSet(claimed'[e], Wallets)
        = SumFunctionOnSet(claimed[e], Wallets) - claimed[e][w] + claimed'[e][w]
  BY <1>2, <1>3, SumChange, DistributorAssumption
<1>5. SumFunctionOnSet(paid'[e], Wallets)
        = SumFunctionOnSet(paid[e], Wallets) - paid[e][w] + paid'[e][w]
  BY <1>2, <1>3, SumChange, DistributorAssumption
<1>6. /\ epoch'[e].pushed_amount = epoch[e].pushed_amount
      /\ epoch'[e].claimed_amount = epoch[e].claimed_amount + amount
      /\ epoch'[e].merkle_root = epoch[e].merkle_root
      /\ epoch[e].pushed_amount \in Nat /\ epoch[e].claimed_amount \in Nat
  BY <1>1, <1>2, DistributorAssumption DEF EpochAccount
<1>7. claimed'[e][w] = amount /\ paid'[e][w] = paid[e][w] + amount /\ paid[e][w] \in Nat
  BY <1>2, <1>3
<1>8. \A v \in Wallets : claimed'[e][v] # 0 => <<v, claimed'[e][v]>> \in epoch'[e].merkle_root
  BY <1>2, <1>3, <1>6 DEF Books
<1>9. SumFunctionOnSet(claimed'[e], Wallets) = epoch'[e].claimed_amount
  BY <1>3, <1>4, <1>6, <1>7, DistributorAssumption DEF Books
<1>10. SumFunctionOnSet(paid'[e], Wallets) = epoch'[e].pushed_amount + epoch'[e].claimed_amount
  BY <1>5, <1>6, <1>7, DistributorAssumption DEF Books
<1> QED BY <1>8, <1>9, <1>10 DEF Books

LEMMA NextBooks ==
  ASSUME TypeOK, TypeOK', IInv, [Next]_vars, \A e \in Epochs : Books(e)
  PROVE  \A e \in Epochs : Books(e)'
<1> SUFFICES ASSUME NEW f \in Epochs PROVE Books(f)'
  OBVIOUS
<1>0. /\ epoch \in [Epochs -> EpochAccount] /\ epoch[f] \in EpochAccount
      /\ paid \in [Epochs -> [Wallets -> Nat]] /\ claimed \in [Epochs -> [Wallets -> U64]]
  BY DEF TypeOK
<1>1. CASE UNCHANGED <<epoch, paid, claimed>>
  BY <1>1, SameBooks
<1>2. ASSUME NEW k \in Actors, NEW e \in Epochs, NEW start \in 0..now, NEW end \in 0..now,
             NEW total \in U64,
             OpenEpochRouter(k, e, start, end, total) \/ OpenEpochDirect(k, e, start, end, total)
      PROVE  Books(f)'
  <2>1. /\ UNCHANGED <<paid, claimed>> /\ ~epoch[e].exists
        /\ epoch' = [epoch EXCEPT ![e] = Opened(start, end, total)]
    BY <1>2 DEF OpenEpochRouter, OpenEpochDirect, CanOpen
  <2>2. CASE e # f
    BY <1>0, <2>1, <2>2, SameBooks
  <2>3. CASE e = f
    <3>1. epoch[f] = NoEpoch
      BY <2>1, <2>3 DEF IInv, EpochInv
    <3>2. epoch'[f] = Opened(start, end, total)
      BY <1>0, <2>1, <2>3
    <3>3. /\ epoch'[f].pushed_amount = epoch[f].pushed_amount
          /\ epoch'[f].claimed_amount = epoch[f].claimed_amount
          /\ epoch'[f].merkle_root = epoch[f].merkle_root
      BY <3>1, <3>2 DEF Opened, NoEpoch
    <3> QED BY <2>1, <3>3, SameBooks
  <2> QED BY <2>2, <2>3
<1>3. ASSUME NEW k \in Actors, NEW e \in Epochs, NEW items \in [Wallets -> U64],
             PushPayouts(k, e, items)
      PROVE  Books(f)'
  <2>1. CASE e # f
    <3>1. epoch'[f] = epoch[f] /\ paid'[f] = paid[f] /\ claimed' = claimed
      BY <1>0, <1>3, <2>1 DEF PushPayouts
    <3> QED BY <3>1, SameBooks
  <2>2. CASE e = f
    BY <1>3, <2>2, PushBooks
  <2> QED BY <2>1, <2>2
<1>4. ASSUME NEW k \in Actors, NEW e \in Epochs, NEW root \in Roots, NEW total \in U64,
             FinalizeEpoch(k, e, root, total)
      PROVE  Books(f)'
  <2>1. UNCHANGED <<paid, claimed>> /\ ~epoch[e].finalized
    BY <1>4 DEF FinalizeEpoch
  <2>2. CASE e # f
    <3>1. epoch'[f] = epoch[f]
      BY <1>0, <1>4, <2>2 DEF FinalizeEpoch
    <3> QED BY <2>1, <3>1, SameBooks
  <2>3. CASE e = f
    <3>1. epoch'[f] = [epoch[f] EXCEPT !.merkle_root = root, !.merkle_total = total,
                                       !.finalized = TRUE]
      BY <1>0, <1>4, <2>3 DEF FinalizeEpoch
    <3>2. /\ epoch'[f].pushed_amount = epoch[f].pushed_amount
          /\ epoch'[f].claimed_amount = epoch[f].claimed_amount
      BY <1>0, <3>1 DEF EpochAccount
    <3>3. \A w \in Wallets : claimed[f][w] = 0
      BY <2>1, <2>3 DEF IInv, EpochInv
    <3> QED BY <2>1, <3>2, <3>3 DEF Books
  <2> QED BY <2>2, <2>3
<1>5. ASSUME NEW w \in Wallets, NEW e \in Epochs, NEW amount \in U64, Claim(w, e, amount)
      PROVE  Books(f)'
  <2>1. CASE e # f
    <3>1. epoch'[f] = epoch[f] /\ paid'[f] = paid[f] /\ claimed'[f] = claimed[f]
      BY <1>0, <1>5, <2>1 DEF Claim
    <3> QED BY <3>1, SameBooks
  <2>2. CASE e = f
    BY <1>5, <2>2, ClaimBooks
  <2> QED BY <2>1, <2>2
<1>6. ASSUME NEW a \in Actors, NEW e \in Epochs, SweepUnclaimed(a, e)
      PROVE  Books(f)'
  <2>1. UNCHANGED <<paid, claimed>>
    BY <1>6 DEF SweepUnclaimed
  <2>2. epoch'[f] = epoch[f] \/ epoch'[f] = [epoch[f] EXCEPT !.finalized = TRUE]
    BY <1>0, <1>6 DEF SweepUnclaimed
  <2>3. /\ epoch'[f].pushed_amount = epoch[f].pushed_amount
        /\ epoch'[f].claimed_amount = epoch[f].claimed_amount
        /\ epoch'[f].merkle_root = epoch[f].merkle_root
    BY <1>0, <2>2 DEF EpochAccount
  <2> QED BY <2>1, <2>3, SameBooks
<1>7. CASE UNCHANGED vars
  BY <1>1, <1>7 DEF vars
<1> QED
  BY <1>1, <1>2, <1>3, <1>4, <1>5, <1>6, <1>7, NextCases

LEMMA BooksInductive == Spec => [](TypeOK /\ IInv /\ \A e \in Epochs : Books(e))
<1> DEFINE B == \A e \in Epochs : Books(e)
<1>1. Init => TypeOK /\ IInv /\ B
  BY InitTypeOK, InitIInv, InitBooks
<1>2. TypeOK /\ IInv /\ B /\ [Next]_vars => (TypeOK /\ IInv /\ B)'
  BY NextTypeOK, NextIInv, NextBooks
<1> HIDE DEF B
<1> QED
  BY <1>1, <1>2, PTL DEF Spec, B

\* For every epoch, whatever was pushed, claimed, donated and swept in whatever
\* order, the wallets received exactly what its books say was pushed and
\* claimed, and the receipts add up to claimed_amount.
THEOREM BooksAlwaysMatch == Spec => []BooksMatchPayments
<1>1. TypeOK /\ (\A e \in Epochs : Books(e)) => BooksMatchPayments
  BY BooksDef
<1> QED
  BY <1>1, BooksInductive, PTL

\* A posted root is finite.
LEMMA FiniteRoot ==
  ASSUME NEW root \in SUBSET (Wallets \X U64)
  PROVE  IsFiniteSet(root)
<1>1. IsFiniteSet(0..MaxU64)
  BY FS_Interval, DistributorAssumption
<1>2. IsFiniteSet(Wallets \X U64)
  BY <1>1, FS_Product, DistributorAssumption
<1> HIDE DEF U64
<1> QED BY <1>2, FS_Subset

\* The receipts and one unclaimed leaf fit the sum of the root's leaves.
LEMMA RoomForLeaf ==
  ASSUME TypeOK, NEW e \in Epochs, Books(e), NEW leaf \in epoch[e].merkle_root,
         claimed[e][leaf[1]] = 0
  PROVE  epoch[e].claimed_amount + leaf[2]
           <= SumFunction([x \in epoch[e].merkle_root |-> x[2]])
<1> DEFINE root == epoch[e].merkle_root
<1> DEFINE amt == [x \in root |-> x[2]]
<1> DEFINE C == {w \in Wallets : claimed[e][w] # 0}
<1> DEFINE r == [w \in C |-> <<w, claimed[e][w]>>]
<1> DEFINE P == {r[w] : w \in C}
<1>1. /\ root \in SUBSET (Wallets \X U64) /\ claimed[e] \in [Wallets -> U64]
      /\ epoch[e].claimed_amount \in Nat
  BY DistributorAssumption DEF TypeOK, EpochAccount
<1>2. IsFiniteSet(root)
  BY <1>1, FiniteRoot
<1>3. \A x \in root : amt[x] \in Nat
  BY <1>1, DistributorAssumption
<1>4. P \in SUBSET (root \ {leaf})
  <2>1. ASSUME NEW w \in C PROVE r[w] \in root /\ r[w] # leaf
    <3>1. r[w] = <<w, claimed[e][w]>> /\ claimed[e][w] # 0 /\ w \in Wallets
      OBVIOUS
    <3>2. r[w] \in root
      BY <3>1 DEF Books
    <3>3. CASE r[w] = leaf
      <4>1. leaf[1] = w
        BY <3>1, <3>3
      <4> QED BY <3>1, <4>1
    <3> QED BY <3>2, <3>3
  <2> HIDE DEF C, r
  <2> QED BY <2>1
<1>5. C \in SUBSET Wallets /\ IsFiniteSet(C) /\ IsFiniteSet(Wallets \ C)
  BY FS_Subset, DistributorAssumption
<1>6. SumFunctionOnSet(claimed[e], Wallets) = SumFunctionOnSet(claimed[e], C)
  <2>1. \A w \in Wallets : claimed[e][w] \in Int
    BY <1>1, DistributorAssumption
  <2>2. \A w \in Wallets \ C : claimed[e][w] = 0
    OBVIOUS
  <2> HIDE DEF C
  <2>3. SumFunctionOnSet(claimed[e], Wallets)
          = SumFunctionOnSet(claimed[e], C) + SumFunctionOnSet(claimed[e], Wallets \ C)
    BY <1>5, <2>1, SumSplit, DistributorAssumption
  <2>4. SumFunctionOnSet(claimed[e], Wallets \ C) = 0
    BY <1>5, <2>2, SumZero
  <2>5. SumFunctionOnSet(claimed[e], C) \in Int
    BY <1>5, <2>1, SumInt
  <2> QED BY <2>3, <2>4, <2>5
<1>7. SumFunctionOnSet(claimed[e], C) = SumFunctionOnSet(amt, P)
  <2>1. \A v, w \in C : r[v] = r[w] => v = w
    OBVIOUS
  <2>2. \A w \in C : claimed[e][w] = amt[r[w]] /\ claimed[e][w] \in Int
    BY <1>1, <1>4, DistributorAssumption
  <2> HIDE DEF C, r, amt
  <2> QED BY <1>5, <2>1, <2>2, SumReindex
<1> HIDE DEF C, r, amt, P
<1>8. SumFunctionOnSet(amt, root) = amt[leaf] + SumFunctionOnSet(amt, root \ {leaf})
  BY <1>2, <1>3, SumTake
<1>9. IsFiniteSet(root \ {leaf})
  BY <1>2, FS_Subset
<1>10. SumFunctionOnSet(amt, P) <= SumFunctionOnSet(amt, root \ {leaf})
  BY <1>3, <1>4, <1>9, SumSubset
<1>11. SumFunctionOnSet(amt, root \ {leaf}) \in Nat
  BY <1>3, <1>9, SumNat
<1>12. SumFunction(amt) = SumFunctionOnSet(amt, root) /\ amt[leaf] = leaf[2]
  BY DEF SumFunction, amt
<1>13. SumFunctionOnSet(amt, P) = epoch[e].claimed_amount
  BY <1>6, <1>7 DEF Books
<1>14. amt[leaf] \in Nat
  BY <1>3
<1>15. epoch[e].claimed_amount + leaf[2] <= SumFunction(amt)
  BY <1>1, <1>8, <1>10, <1>11, <1>12, <1>13, <1>14
<1> QED BY <1>15 DEF amt

\* Until the deadline every wallet of an honest root that has not claimed can
\* still claim, in whatever order the others did: the books have room for its
\* leaf, and the vault has the coins, whatever was pushed before.
THEOREM ClaimsAlwaysPayable == Spec => []ClaimsStayPayable
<1>1. TypeOK /\ IInv /\ (\A e \in Epochs : Books(e)) => ClaimsStayPayable
  <2> SUFFICES ASSUME TypeOK, IInv, \A e \in Epochs : Books(e), NEW e \in Epochs,
                      epoch[e].finalized, now <= ClaimDeadline(e), HonestRoot(e),
                      NEW leaf \in epoch[e].merkle_root, claimed[e][leaf[1]] = 0
               PROVE  /\ epoch[e].claimed_amount + leaf[2] <= epoch[e].merkle_total
                      /\ leaf[2] <= vault[e]
    BY DEF ClaimsStayPayable
  <2>1. epoch[e] \in EpochAccount /\ vault[e] \in Nat /\ now \in Nat /\ EpochInv(e)
    BY DEF TypeOK, IInv
  <2>2. leaf[2] \in Nat
    BY <2>1, DistributorAssumption DEF EpochAccount
  <2>3. epoch[e].claimed_amount + leaf[2]
          <= SumFunction([x \in epoch[e].merkle_root |-> x[2]])
    BY RoomForLeaf
  <2>4. SumFunction([x \in epoch[e].merkle_root |-> x[2]]) <= epoch[e].merkle_total
    BY DEF HonestRoot
  <2>5. SumFunction([x \in epoch[e].merkle_root |-> x[2]]) \in Nat
    <3> DEFINE amt == [x \in epoch[e].merkle_root |-> x[2]]
    <3>1. epoch[e].merkle_root \in SUBSET (Wallets \X U64)
      BY <2>1 DEF EpochAccount
    <3>2. IsFiniteSet(epoch[e].merkle_root)
      BY <3>1, FiniteRoot
    <3>3. \A x \in epoch[e].merkle_root : amt[x] \in Nat
      BY <3>1, DistributorAssumption
    <3>4. DOMAIN amt = epoch[e].merkle_root
      OBVIOUS
    <3> HIDE DEF amt
    <3>5. SumFunction(amt) \in Nat
      BY <3>2, <3>3, <3>4, SumNat DEF SumFunction
    <3> QED BY <3>5 DEF amt
  <2>6. /\ epoch[e].claimed_amount \in Nat /\ epoch[e].merkle_total \in Nat
        /\ epoch[e].pushed_amount \in Nat /\ epoch[e].total_amount \in Nat
        /\ ClaimDeadline(e) \in Nat
    BY <2>1, DistributorAssumption DEF EpochAccount, ClaimDeadline
  <2>7. e \notin swept /\ epoch[e].exists
    BY <2>1, <2>6 DEF EpochInv, NoEpoch
  <2>8. /\ vault[e] + epoch[e].pushed_amount + epoch[e].claimed_amount >= epoch[e].total_amount
        /\ epoch[e].pushed_amount + epoch[e].merkle_total <= epoch[e].total_amount
    BY <2>1, <2>7 DEF EpochInv
  <2>9. epoch[e].claimed_amount + leaf[2] <= epoch[e].merkle_total
    BY <2>2, <2>3, <2>4, <2>5, <2>6
  <2>10. leaf[2] <= vault[e]
    BY <2>1, <2>2, <2>6, <2>8, <2>9
  <2> QED BY <2>9, <2>10
<1> QED
  BY <1>1, BooksInductive, PTL
=============================================================================
