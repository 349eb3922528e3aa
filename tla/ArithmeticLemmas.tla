-------------------------- MODULE ArithmeticLemmas --------------------------
(***************************************************************************)
(* Facts about products, integer division and sums over finite sets that   *)
(* the proofs share.  SumFunction is a fold, i.e. a recursive function;    *)
(* that it is the sum it looks like is proved here from the recursion, by  *)
(* looking at a smallest subset for which a claim would fail.              *)
(***************************************************************************)
EXTENDS Integers, FiniteSets, Functions, FiniteSetTheorems, TLAPS

(***************************************************************************)
(* Products and division                                                   *)
(***************************************************************************)
\* Division rounds down.
LEMMA DivLemma ==
  ASSUME NEW n \in Nat, NEW d \in Nat \ {0}
  PROVE  n \div d \in Nat /\ d * (n \div d) <= n
  BY SMT

\* Products keep the order, and a positive factor can be cancelled.
LEMMA TimesMono ==
  ASSUME NEW a \in Nat, NEW b \in Nat, NEW c \in Nat, a <= b
  PROVE  a * c \in Nat /\ b * c \in Nat /\ a * c <= b * c /\ c * a <= c * b
  BY SMT

LEMMA TimesCancel ==
  ASSUME NEW a \in Nat, NEW b \in Nat, NEW c \in Nat \ {0}, c * a <= c * b
  PROVE  a <= b
<1>1. CASE a > b
  <2>1. c * (b + 1) <= c * a
    BY <1>1, TimesMono
  <2>2. c * (b + 1) = c * b + c
    BY SMT
  <2>3. c * b \in Nat /\ c * a \in Nat
    BY SMT
  <2> QED BY <2>1, <2>2, <2>3
<1> QED BY <1>1

\* The quotient is the largest such number.
LEMMA DivAbove ==
  ASSUME NEW n \in Nat, NEW d \in Nat \ {0}
  PROVE  n \div d \in Nat /\ d * ((n \div d) + 1) \in Nat /\ n < d * ((n \div d) + 1)
  BY SMT

\* Division keeps the order, and a whole divisor more is one more.
LEMMA DivMono ==
  ASSUME NEW a \in Nat, NEW b \in Nat, NEW d \in Nat \ {0}, a <= b
  PROVE  a \div d <= b \div d
<1> DEFINE q == a \div d
<1> DEFINE r == b \div d
<1>1. q \in Nat /\ d * q \in Nat /\ d * q <= a
  BY DivLemma
<1>2. r \in Nat /\ d * (r + 1) \in Nat /\ b < d * (r + 1)
  BY DivAbove
<1> HIDE DEF q, r
<1>3. CASE r < q
  <2>1. d * (r + 1) <= d * q
    BY <1>1, <1>2, <1>3, TimesMono
  <2> QED BY <1>1, <1>2, <2>1
<1>4. q <= r
  BY <1>1, <1>2, <1>3
<1> QED BY <1>4 DEF q, r

LEMMA DivStep ==
  ASSUME NEW a \in Nat, NEW b \in Nat, NEW d \in Nat \ {0}, a + d <= b
  PROVE  (a \div d) + 1 <= b \div d
<1> DEFINE q == a \div d
<1> DEFINE r == b \div d
<1>1. q \in Nat /\ d * q \in Nat /\ d * q <= a
  BY DivLemma
<1>2. r \in Nat /\ d * (r + 1) \in Nat /\ b < d * (r + 1)
  BY DivAbove
<1> HIDE DEF q, r
<1>3. d * (q + 1) = d * q + d /\ d * (q + 1) \in Nat
  BY <1>1, SMT
<1>4. CASE r < q + 1
  <2>1. d * (r + 1) <= d * (q + 1)
    BY <1>1, <1>2, <1>4, TimesMono
  <2> QED BY <1>1, <1>2, <1>3, <2>1
<1>5. q + 1 <= r
  BY <1>1, <1>2, <1>4
<1> QED BY <1>5 DEF q, r

(***************************************************************************)
(* Sums                                                                    *)
(***************************************************************************)
\* Among subsets of a finite set, one is smallest: what induction over finite
\* sets comes down to.
LEMMA SmallestSubset ==
  ASSUME NEW S, IsFiniteSet(S), NEW X, X \subseteq SUBSET S, X # {}
  PROVE  \E m \in X : \A t \in SUBSET m : t # m => t \notin X
<1> DEFINE R == StrictSubsetOrdering(S)
<1>1. IsWellFoundedOn(R, SUBSET S)
  BY FS_StrictSubsetOrderingWellFounded, FS_FiniteSubsetsOfFinite
<1> HIDE DEF R
<1>2. \E m \in X : \A t \in X : ~(<<t, m>> \in R)
  BY <1>1, WFMin
<1>3. PICK m \in X : \A t \in X : ~(<<t, m>> \in R)
  BY <1>2
<1>4. ASSUME NEW t \in SUBSET m, t # m, t \in X PROVE FALSE
  <2>1. <<t, m>> \in R
    BY <1>4 DEF R, StrictSubsetOrdering
  <2> QED BY <1>3, <1>4, <2>1
<1>5. \A t \in SUBSET m : t # m => t \notin X
  BY <1>4
<1> QED BY <1>5

Pick(s) == CHOOSE x \in s : TRUE

IsSum(g, f, S) ==
  g = [s \in SUBSET S |-> IF s = {} THEN 0 ELSE f[Pick(s)] + g[s \ {Pick(s)}]]

LEMMA PickIn == \A s : s # {} => Pick(s) \in s
  BY DEF Pick

LEMMA SumUnfold ==
  ASSUME NEW f, NEW S
  PROVE  SumFunctionOnSet(f, S) = (CHOOSE g : IsSum(g, f, S))[S]
  BY DEF SumFunctionOnSet, FoldFunctionOnSet, MapThenFoldSet, IsSum, Pick

\* Two such functions agree where both are defined.
LEMMA SumsAgree ==
  ASSUME NEW f, NEW S, NEW T, NEW g, NEW h, IsSum(g, f, S), IsSum(h, f, T),
         NEW U \in SUBSET S, U \subseteq T, IsFiniteSet(U)
  PROVE  g[U] = h[U]
<1> DEFINE X == {s \in SUBSET U : g[s] # h[s]}
<1>1. SUFFICES ASSUME X # {} PROVE FALSE
  BY DEF X
<1>2. PICK m \in X : \A t \in SUBSET m : t # m => t \notin X
  <2> HIDE DEF X
  <2>1. X \subseteq SUBSET U
    BY DEF X
  <2> QED BY <1>1, <2>1, SmallestSubset
<1>3. m \in SUBSET S /\ m \in SUBSET T
  OBVIOUS
<1>4. g[m] = IF m = {} THEN 0 ELSE f[Pick(m)] + g[m \ {Pick(m)}]
  BY <1>3 DEF IsSum
<1>5. h[m] = IF m = {} THEN 0 ELSE f[Pick(m)] + h[m \ {Pick(m)}]
  BY <1>3 DEF IsSum
<1>6. CASE m = {}
  BY <1>4, <1>5, <1>6
<1>7. CASE m # {}
  <2>1. Pick(m) \in m
    BY <1>7, PickIn
  <2>2. m \ {Pick(m)} \in SUBSET m /\ m \ {Pick(m)} # m
    BY <2>1
  <2>3. g[m \ {Pick(m)}] = h[m \ {Pick(m)}]
    BY <1>2, <2>2
  <2> QED BY <1>4, <1>5, <1>7, <2>3
<1> QED BY <1>6, <1>7

LEMMA SumExists ==
  ASSUME NEW f, NEW S, IsFiniteSet(S)
  PROVE  \E g : IsSum(g, f, S)
<1> DEFINE X == {s \in SUBSET S : ~\E g : IsSum(g, f, s)}
<1>1. SUFFICES ASSUME X # {} PROVE FALSE
  BY DEF X
<1>2. PICK m \in X : \A t \in SUBSET m : t # m => t \notin X
  <2> HIDE DEF X
  <2>1. X \subseteq SUBSET S
    BY DEF X
  <2> QED BY <1>1, <2>1, SmallestSubset
<1> DEFINE G(s) == CHOOSE g : IsSum(g, f, s)
<1> DEFINE V(s) == G(s)[s]
<1> DEFINE K == [s \in SUBSET m |-> IF s = {} THEN 0 ELSE f[Pick(s)] + V(s \ {Pick(s)})]
<1>3. \A t \in SUBSET m : t # m => IsSum(G(t), f, t)
  <2>1. \A t \in SUBSET m : t # m => \E g : IsSum(g, f, t)
    BY <1>2
  <2> QED BY <2>1
<1>4. \A t \in SUBSET m : IsFiniteSet(t)
  BY FS_Subset
<1>5. ASSUME NEW t \in SUBSET m, t # m, NEW u \in SUBSET t
      PROVE  G(t)[u] = V(u)
  <2>1. u \in SUBSET m /\ u # m
    BY <1>5
  <2>2. IsSum(G(t), f, t) /\ IsSum(G(u), f, u) /\ IsFiniteSet(u)
    BY <1>3, <1>4, <1>5, <2>1
  <2> HIDE DEF G
  <2>3. G(t)[u] = G(u)[u]
    BY <2>2, SumsAgree
  <2> QED BY <2>3
<1>6. ASSUME NEW t \in SUBSET m, t # m
      PROVE  K[t] = V(t)
  <2>1. V(t) = IF t = {} THEN 0 ELSE f[Pick(t)] + G(t)[t \ {Pick(t)}]
    <3>1. IsSum(G(t), f, t)
      BY <1>3, <1>6
    <3> HIDE DEF G
    <3> QED BY <3>1 DEF IsSum
  <2>2. G(t)[t \ {Pick(t)}] = V(t \ {Pick(t)})
    BY <1>5, <1>6
  <2>3. K[t] = IF t = {} THEN 0 ELSE f[Pick(t)] + V(t \ {Pick(t)})
    <3> HIDE DEF G, V
    <3> QED OBVIOUS
  <2> HIDE DEF G, V, K
  <2> QED BY <2>1, <2>2, <2>3
<1>7. IsSum(K, f, m)
  <2>1. ASSUME NEW s \in SUBSET m, s # {}
        PROVE  K[s \ {Pick(s)}] = V(s \ {Pick(s)})
    <3>1. s \ {Pick(s)} \in SUBSET m /\ s \ {Pick(s)} # m
      BY <2>1, PickIn
    <3> HIDE DEF G, V, K
    <3> QED BY <3>1, <1>6
  <2> HIDE DEF V
  <2> QED BY <2>1 DEF IsSum
<1> QED BY <1>2, <1>7

\* The sum of no values, and the sum with the chosen value taken out.
LEMMA SumStep ==
  ASSUME NEW f, NEW S, IsFiniteSet(S)
  PROVE  SumFunctionOnSet(f, S) =
           IF S = {} THEN 0 ELSE f[Pick(S)] + SumFunctionOnSet(f, S \ {Pick(S)})
<1> DEFINE G(s) == CHOOSE g : IsSum(g, f, s)
<1> DEFINE T == S \ {Pick(S)}
<1>1. IsFiniteSet(T)
  BY FS_Subset
<1>2. IsSum(G(S), f, S) /\ IsSum(G(T), f, T)
  BY <1>1, SumExists
<1>3. SumFunctionOnSet(f, S) = G(S)[S] /\ SumFunctionOnSet(f, T) = G(T)[T]
  BY SumUnfold
<1> HIDE DEF G
<1>4. G(S)[S] = IF S = {} THEN 0 ELSE f[Pick(S)] + G(S)[T]
  BY <1>2 DEF IsSum
<1>5. G(S)[T] = G(T)[T]
  BY <1>1, <1>2, SumsAgree
<1> QED BY <1>3, <1>4, <1>5

LEMMA SumEmpty == \A f : SumFunctionOnSet(f, {}) = 0
  BY SumStep, FS_EmptySet

\* Equal values have equal sums.
LEMMA SumSame ==
  ASSUME NEW f, NEW g, NEW S, IsFiniteSet(S), \A x \in S : f[x] = g[x]
  PROVE  SumFunctionOnSet(f, S) = SumFunctionOnSet(g, S)
<1> DEFINE X == {s \in SUBSET S : SumFunctionOnSet(f, s) # SumFunctionOnSet(g, s)}
<1>1. SUFFICES ASSUME X # {} PROVE FALSE
  BY DEF X
<1>2. PICK m \in X : \A t \in SUBSET m : t # m => t \notin X
  <2> HIDE DEF X
  <2>1. X \subseteq SUBSET S
    BY DEF X
  <2> QED BY <1>1, <2>1, SmallestSubset
<1>3. IsFiniteSet(m)
  BY FS_Subset
<1>4. CASE m = {}
  BY <1>4, SumEmpty
<1>5. CASE m # {}
  <2>1. Pick(m) \in m /\ Pick(m) \in S
    BY <1>5, PickIn
  <2>2. m \ {Pick(m)} \in SUBSET m /\ m \ {Pick(m)} # m
    BY <2>1
  <2>3. SumFunctionOnSet(f, m \ {Pick(m)}) = SumFunctionOnSet(g, m \ {Pick(m)})
    BY <1>2, <2>2
  <2>4. f[Pick(m)] = g[Pick(m)]
    BY <2>1
  <2>5. /\ SumFunctionOnSet(f, m) = f[Pick(m)] + SumFunctionOnSet(f, m \ {Pick(m)})
        /\ SumFunctionOnSet(g, m) = g[Pick(m)] + SumFunctionOnSet(g, m \ {Pick(m)})
    BY <1>3, <1>5, SumStep
  <2> QED BY <2>3, <2>4, <2>5
<1> QED BY <1>4, <1>5

LEMMA SumInt ==
  ASSUME NEW f, NEW S, IsFiniteSet(S), \A x \in S : f[x] \in Int
  PROVE  SumFunctionOnSet(f, S) \in Int
<1> DEFINE X == {s \in SUBSET S : SumFunctionOnSet(f, s) \notin Int}
<1>1. SUFFICES ASSUME X # {} PROVE FALSE
  BY DEF X
<1>2. PICK m \in X : \A t \in SUBSET m : t # m => t \notin X
  <2> HIDE DEF X
  <2>1. X \subseteq SUBSET S
    BY DEF X
  <2> QED BY <1>1, <2>1, SmallestSubset
<1>3. IsFiniteSet(m)
  BY FS_Subset
<1>4. CASE m = {}
  BY <1>4, SumEmpty
<1>5. CASE m # {}
  <2>1. Pick(m) \in m /\ f[Pick(m)] \in Int
    BY <1>5, PickIn
  <2>2. m \ {Pick(m)} \in SUBSET m /\ m \ {Pick(m)} # m
    BY <2>1
  <2>3. SumFunctionOnSet(f, m \ {Pick(m)}) \in Int
    BY <1>2, <2>2
  <2>4. SumFunctionOnSet(f, m) = f[Pick(m)] + SumFunctionOnSet(f, m \ {Pick(m)})
    BY <1>3, <1>5, SumStep
  <2> QED BY <2>1, <2>3, <2>4
<1> QED BY <1>4, <1>5

\* Any value can be taken out first.
LEMMA SumTake ==
  ASSUME NEW f, NEW S, IsFiniteSet(S), \A x \in S : f[x] \in Int, NEW a \in S
  PROVE  SumFunctionOnSet(f, S) = f[a] + SumFunctionOnSet(f, S \ {a})
<1> DEFINE X == {s \in SUBSET S : \E b \in s :
                   SumFunctionOnSet(f, s) # f[b] + SumFunctionOnSet(f, s \ {b})}
<1>1. SUFFICES ASSUME X # {} PROVE FALSE
  BY DEF X
<1>2. PICK m \in X : \A t \in SUBSET m : t # m => t \notin X
  <2> HIDE DEF X
  <2>1. X \subseteq SUBSET S
    BY DEF X
  <2> QED BY <1>1, <2>1, SmallestSubset
<1> DEFINE p == Pick(m)
<1>3. PICK b \in m : SumFunctionOnSet(f, m) # f[b] + SumFunctionOnSet(f, m \ {b})
  OBVIOUS
<1>4. IsFiniteSet(m) /\ m \subseteq S /\ m # {}
  BY FS_Subset
<1>5. p \in m /\ p \in S
  BY <1>4, PickIn
<1>6. SumFunctionOnSet(f, m) = f[p] + SumFunctionOnSet(f, m \ {p})
  BY <1>4, SumStep
<1>7. p # b
  BY <1>3, <1>6
<1> DEFINE r == (m \ {p}) \ {b}
<1>8. /\ m \ {p} \in SUBSET m /\ m \ {p} # m /\ b \in m \ {p}
      /\ m \ {b} \in SUBSET m /\ m \ {b} # m /\ p \in m \ {b}
      /\ (m \ {b}) \ {p} = r
  BY <1>3, <1>5, <1>7
<1>9. IsFiniteSet(r) /\ \A x \in m : f[x] \in Int
  BY <1>4, FS_Subset
<1>10. \A t \in SUBSET m : t # m =>
         \A c \in t : SumFunctionOnSet(f, t) = f[c] + SumFunctionOnSet(f, t \ {c})
  BY <1>2
<1>11. SumFunctionOnSet(f, m \ {p}) = f[b] + SumFunctionOnSet(f, r)
  BY <1>8, <1>10
<1>12. SumFunctionOnSet(f, m \ {b}) = f[p] + SumFunctionOnSet(f, r)
  BY <1>8, <1>10
<1>13. SumFunctionOnSet(f, r) \in Int /\ f[b] \in Int /\ f[p] \in Int
  BY <1>3, <1>5, <1>9, SumInt
<1> HIDE DEF p, r, X
<1>14. SumFunctionOnSet(f, m) = f[b] + SumFunctionOnSet(f, m \ {b})
  BY <1>6, <1>11, <1>12, <1>13
<1> QED BY <1>3, <1>14

LEMMA SumNat ==
  ASSUME NEW f, NEW S, IsFiniteSet(S), \A x \in S : f[x] \in Nat
  PROVE  SumFunctionOnSet(f, S) \in Nat
<1> DEFINE X == {s \in SUBSET S : SumFunctionOnSet(f, s) \notin Nat}
<1>1. SUFFICES ASSUME X # {} PROVE FALSE
  BY DEF X
<1>2. PICK m \in X : \A t \in SUBSET m : t # m => t \notin X
  <2> HIDE DEF X
  <2>1. X \subseteq SUBSET S
    BY DEF X
  <2> QED BY <1>1, <2>1, SmallestSubset
<1>3. IsFiniteSet(m)
  BY FS_Subset
<1>4. CASE m = {}
  BY <1>4, SumEmpty
<1>5. CASE m # {}
  <2>1. Pick(m) \in m /\ f[Pick(m)] \in Nat
    BY <1>5, PickIn
  <2>2. m \ {Pick(m)} \in SUBSET m /\ m \ {Pick(m)} # m
    BY <2>1
  <2>3. SumFunctionOnSet(f, m \ {Pick(m)}) \in Nat
    BY <1>2, <2>2
  <2>4. SumFunctionOnSet(f, m) = f[Pick(m)] + SumFunctionOnSet(f, m \ {Pick(m)})
    BY <1>3, <1>5, SumStep
  <2> QED BY <2>1, <2>3, <2>4
<1> QED BY <1>4, <1>5

\* The sum of sums.
LEMMA SumAdd ==
  ASSUME NEW f, NEW g, NEW h, NEW S, IsFiniteSet(S),
         \A x \in S : f[x] \in Int /\ g[x] \in Int /\ h[x] = f[x] + g[x]
  PROVE  SumFunctionOnSet(h, S) = SumFunctionOnSet(f, S) + SumFunctionOnSet(g, S)
<1> DEFINE X == {s \in SUBSET S : SumFunctionOnSet(h, s) #
                                    SumFunctionOnSet(f, s) + SumFunctionOnSet(g, s)}
<1>1. SUFFICES ASSUME X # {} PROVE FALSE
  BY DEF X
<1>2. PICK m \in X : \A t \in SUBSET m : t # m => t \notin X
  <2> HIDE DEF X
  <2>1. X \subseteq SUBSET S
    BY DEF X
  <2> QED BY <1>1, <2>1, SmallestSubset
<1>3. IsFiniteSet(m)
  BY FS_Subset
<1>4. CASE m = {}
  BY <1>4, SumEmpty
<1>5. CASE m # {}
  <2> DEFINE p == Pick(m)
  <2> DEFINE r == m \ {p}
  <2>1. p \in m /\ f[p] \in Int /\ g[p] \in Int /\ h[p] = f[p] + g[p]
    BY <1>5, PickIn
  <2>2. r \in SUBSET m /\ r # m /\ IsFiniteSet(r)
    BY <1>3, <2>1, FS_Subset
  <2>3. SumFunctionOnSet(h, r) = SumFunctionOnSet(f, r) + SumFunctionOnSet(g, r)
    BY <1>2, <2>2
  <2>4. SumFunctionOnSet(f, r) \in Int /\ SumFunctionOnSet(g, r) \in Int
    BY <2>2, SumInt
  <2>5. /\ SumFunctionOnSet(f, m) = f[p] + SumFunctionOnSet(f, r)
        /\ SumFunctionOnSet(g, m) = g[p] + SumFunctionOnSet(g, r)
        /\ SumFunctionOnSet(h, m) = h[p] + SumFunctionOnSet(h, r)
    BY <1>3, <1>5, SumStep
  <2> HIDE DEF p, r
  <2>6. SumFunctionOnSet(h, m) = SumFunctionOnSet(f, m) + SumFunctionOnSet(g, m)
    BY <2>1, <2>3, <2>4, <2>5
  <2> QED BY <2>6
<1> QED BY <1>4, <1>5

\* The sum over images of an injection.
LEMMA SumReindex ==
  ASSUME NEW f, NEW g, NEW S, IsFiniteSet(S), NEW p,
         \A x, y \in S : p[x] = p[y] => x = y,
         \A x \in S : f[x] = g[p[x]] /\ f[x] \in Int
  PROVE  SumFunctionOnSet(f, S) = SumFunctionOnSet(g, {p[x] : x \in S})
<1> DEFINE I(s) == {p[x] : x \in s}
<1> DEFINE X == {s \in SUBSET S : SumFunctionOnSet(f, s) # SumFunctionOnSet(g, I(s))}
<1>1. SUFFICES ASSUME X # {} PROVE FALSE
  BY DEF X
<1>2. PICK m \in X : \A t \in SUBSET m : t # m => t \notin X
  <2> HIDE DEF X
  <2>1. X \subseteq SUBSET S
    BY DEF X
  <2> QED BY <1>1, <2>1, SmallestSubset
<1>3. IsFiniteSet(m) /\ m \subseteq S
  BY FS_Subset
<1>4. CASE m = {}
  <2>1. I(m) = {}
    BY <1>4
  <2> QED BY <1>4, <2>1, SumEmpty
<1>5. CASE m # {}
  <2> DEFINE a == Pick(m)
  <2> DEFINE r == m \ {a}
  <2>1. a \in m /\ f[a] = g[p[a]]
    BY <1>5, PickIn
  <2>2. r \in SUBSET m /\ r # m
    BY <2>1
  <2>3. SumFunctionOnSet(f, r) = SumFunctionOnSet(g, I(r))
    BY <1>2, <2>2
  <2>4. SumFunctionOnSet(f, m) = f[a] + SumFunctionOnSet(f, r)
    BY <1>3, <1>5, SumStep
  <2>5. I(r) = I(m) \ {p[a]}
    BY <1>3, <2>1
  <2>6. p[a] \in I(m) /\ \A y \in I(m) : g[y] \in Int
    BY <1>3, <2>1
  <2>7. IsFiniteSet(I(m))
    <3> DEFINE q == [x \in m |-> p[x]]
    <3>1. q \in Surjection(m, I(m))
      BY DEF Surjection
    <3> HIDE DEF q, I
    <3> QED BY <1>3, <3>1, FS_Surjection
  <2> HIDE DEF I
  <2>8. SumFunctionOnSet(g, I(m)) = g[p[a]] + SumFunctionOnSet(g, I(m) \ {p[a]})
    BY <2>6, <2>7, SumTake
  <2> HIDE DEF a, r
  <2> QED BY <2>1, <2>3, <2>4, <2>5, <2>8
<1> QED BY <1>4, <1>5

\* A part of a sum.
LEMMA SumSplit ==
  ASSUME NEW f, NEW S, IsFiniteSet(S), NEW T \in SUBSET S, \A x \in S : f[x] \in Int
  PROVE  SumFunctionOnSet(f, S) = SumFunctionOnSet(f, T) + SumFunctionOnSet(f, S \ T)
<1> DEFINE X == {s \in SUBSET T : SumFunctionOnSet(f, S) #
                                    SumFunctionOnSet(f, s) + SumFunctionOnSet(f, S \ s)}
<1>1. SUFFICES ASSUME X # {} PROVE FALSE
  BY DEF X
<1>2. IsFiniteSet(T)
  BY FS_Subset
<1>3. PICK m \in X : \A t \in SUBSET m : t # m => t \notin X
  <2> HIDE DEF X
  <2>1. X \subseteq SUBSET T
    BY DEF X
  <2> QED BY <1>1, <1>2, <2>1, SmallestSubset
<1>4. m \subseteq S /\ IsFiniteSet(m) /\ IsFiniteSet(S \ m)
  BY FS_Subset
<1>5. CASE m = {}
  <2>1. S \ m = S
    BY <1>5
  <2>2. SumFunctionOnSet(f, S) \in Int /\ SumFunctionOnSet(f, m) = 0
    BY <1>5, SumInt, SumEmpty
  <2>3. SumFunctionOnSet(f, S \ m) = SumFunctionOnSet(f, S)
    BY <2>1
  <2> QED BY <2>2, <2>3
<1>6. CASE m # {}
  <2> DEFINE a == Pick(m)
  <2> DEFINE r == m \ {a}
  <2>1. a \in m /\ a \in S /\ f[a] \in Int
    BY <1>6, PickIn, <1>4
  <2>2. r \in SUBSET m /\ r # m /\ IsFiniteSet(r)
    BY <2>1, <1>4, FS_Subset
  <2>3. SumFunctionOnSet(f, S) = SumFunctionOnSet(f, r) + SumFunctionOnSet(f, S \ r)
    BY <1>3, <2>2
  <2>4. SumFunctionOnSet(f, m) = f[a] + SumFunctionOnSet(f, r)
    BY <1>4, <1>6, SumStep
  <2>5. IsFiniteSet(S \ r) /\ a \in S \ r /\ (S \ r) \ {a} = S \ m
    BY <2>1, FS_Subset
  <2>6. SumFunctionOnSet(f, S \ r) = f[a] + SumFunctionOnSet(f, (S \ r) \ {a})
    BY <2>5, SumTake
  <2>7. SumFunctionOnSet(f, S \ r) = f[a] + SumFunctionOnSet(f, S \ m)
    BY <2>5, <2>6
  <2>8. SumFunctionOnSet(f, r) \in Int /\ SumFunctionOnSet(f, S \ m) \in Int
    BY <1>4, <2>2, SumInt
  <2>9. SumFunctionOnSet(f, S) # SumFunctionOnSet(f, m) + SumFunctionOnSet(f, S \ m)
    BY <1>3
  <2> HIDE DEF a, r, X
  <2> QED BY <2>1, <2>3, <2>4, <2>7, <2>8, <2>9
<1> QED BY <1>5, <1>6

\* Smaller values have a smaller sum.
LEMMA SumLeq ==
  ASSUME NEW f, NEW g, NEW S, IsFiniteSet(S),
         \A x \in S : f[x] \in Int /\ g[x] \in Int /\ f[x] <= g[x]
  PROVE  SumFunctionOnSet(f, S) <= SumFunctionOnSet(g, S)
<1> DEFINE d == [x \in S |-> g[x] - f[x]]
<1>1. \A x \in S : d[x] \in Nat /\ g[x] = f[x] + d[x]
  OBVIOUS
<1> HIDE DEF d
<1>2. SumFunctionOnSet(g, S) = SumFunctionOnSet(f, S) + SumFunctionOnSet(d, S)
  BY <1>1, SumAdd
<1>3. SumFunctionOnSet(d, S) \in Nat /\ SumFunctionOnSet(f, S) \in Int
  BY <1>1, SumNat, SumInt
<1> QED BY <1>2, <1>3

LEMMA SumSubset ==
  ASSUME NEW f, NEW S, IsFiniteSet(S), NEW T \in SUBSET S, \A x \in S : f[x] \in Nat
  PROVE  SumFunctionOnSet(f, T) <= SumFunctionOnSet(f, S)
<1>1. IsFiniteSet(T) /\ IsFiniteSet(S \ T)
  BY FS_Subset
<1>2. SumFunctionOnSet(f, S) = SumFunctionOnSet(f, T) + SumFunctionOnSet(f, S \ T)
  BY SumSplit
<1>3. SumFunctionOnSet(f, T) \in Nat /\ SumFunctionOnSet(f, S \ T) \in Nat
  BY <1>1, SumNat
<1> QED BY <1>2, <1>3

LEMMA SumZero ==
  ASSUME NEW f, NEW S, IsFiniteSet(S), \A x \in S : f[x] = 0
  PROVE  SumFunctionOnSet(f, S) = 0
<1>1. SumFunctionOnSet(f, S) = SumFunctionOnSet(f, S) + SumFunctionOnSet(f, S)
  BY SumAdd
<1>2. SumFunctionOnSet(f, S) \in Int
  BY SumInt
<1>3. \A x \in Int : x = x + x => x = 0
  OBVIOUS
<1> QED BY <1>1, <1>2, <1>3

\* One value changed.
LEMMA SumChange ==
  ASSUME NEW f, NEW g, NEW S, IsFiniteSet(S), NEW a \in S,
         \A x \in S : f[x] \in Int /\ g[x] \in Int,
         \A x \in S : x # a => g[x] = f[x]
  PROVE  SumFunctionOnSet(g, S) = SumFunctionOnSet(f, S) - f[a] + g[a]
<1> DEFINE T == S \ {a}
<1>1. IsFiniteSet(T)
  BY FS_Subset
<1>2. SumFunctionOnSet(f, T) = SumFunctionOnSet(g, T)
  BY <1>1, SumSame
<1>3. /\ SumFunctionOnSet(f, S) = f[a] + SumFunctionOnSet(f, T)
      /\ SumFunctionOnSet(g, S) = g[a] + SumFunctionOnSet(g, T)
  BY SumTake
<1>4. SumFunctionOnSet(f, T) \in Int
  BY <1>1, SumInt
<1> QED BY <1>2, <1>3, <1>4

\* Values that are no larger and have no smaller a sum are equal.
LEMMA SumTight ==
  ASSUME NEW f, NEW g, NEW S, IsFiniteSet(S),
         \A x \in S : f[x] \in Int /\ g[x] \in Int /\ f[x] <= g[x],
         SumFunctionOnSet(g, S) <= SumFunctionOnSet(f, S)
  PROVE  \A x \in S : f[x] = g[x]
<1> SUFFICES ASSUME NEW a \in S PROVE f[a] = g[a]
  OBVIOUS
<1> DEFINE T == S \ {a}
<1>1. IsFiniteSet(T) /\ \A x \in T : f[x] \in Int /\ g[x] \in Int /\ f[x] <= g[x]
  BY FS_Subset
<1>2. /\ SumFunctionOnSet(f, S) = f[a] + SumFunctionOnSet(f, T)
      /\ SumFunctionOnSet(g, S) = g[a] + SumFunctionOnSet(g, T)
  BY SumTake
<1> HIDE DEF T
<1>3. /\ SumFunctionOnSet(f, T) \in Int /\ SumFunctionOnSet(g, T) \in Int
      /\ SumFunctionOnSet(f, T) <= SumFunctionOnSet(g, T)
  BY <1>1, SumInt, SumLeq
<1>4. f[a] \in Int /\ g[a] \in Int /\ f[a] <= g[a]
  OBVIOUS
<1> QED BY <1>2, <1>3, <1>4

\* The sum of multiples.
LEMMA SumScale ==
  ASSUME NEW f, NEW h, NEW S, IsFiniteSet(S), NEW c \in Int,
         \A x \in S : f[x] \in Int /\ h[x] = c * f[x]
  PROVE  SumFunctionOnSet(h, S) = c * SumFunctionOnSet(f, S)
<1> DEFINE X == {s \in SUBSET S : SumFunctionOnSet(h, s) # c * SumFunctionOnSet(f, s)}
<1>1. SUFFICES ASSUME X # {} PROVE FALSE
  BY DEF X
<1>2. PICK m \in X : \A t \in SUBSET m : t # m => t \notin X
  <2> HIDE DEF X
  <2>1. X \subseteq SUBSET S
    BY DEF X
  <2> QED BY <1>1, <2>1, SmallestSubset
<1>3. IsFiniteSet(m)
  BY FS_Subset
<1>4. CASE m = {}
  <2>1. SumFunctionOnSet(h, m) = 0 /\ SumFunctionOnSet(f, m) = 0
    BY <1>4, SumEmpty
  <2>2. c * 0 = 0
    OBVIOUS
  <2> QED BY <2>1, <2>2
<1>5. CASE m # {}
  <2> DEFINE p == Pick(m)
  <2> DEFINE r == m \ {p}
  <2>1. p \in m /\ f[p] \in Int /\ h[p] = c * f[p]
    BY <1>5, PickIn
  <2>2. r \in SUBSET m /\ r # m /\ IsFiniteSet(r)
    BY <1>3, <2>1, FS_Subset
  <2>3. SumFunctionOnSet(h, r) = c * SumFunctionOnSet(f, r)
    BY <1>2, <2>2
  <2>4. SumFunctionOnSet(f, r) \in Int
    BY <2>2, SumInt
  <2>5. /\ SumFunctionOnSet(f, m) = f[p] + SumFunctionOnSet(f, r)
        /\ SumFunctionOnSet(h, m) = h[p] + SumFunctionOnSet(h, r)
    BY <1>3, <1>5, SumStep
  <2> HIDE DEF p, r
  <2>6. c * (f[p] + SumFunctionOnSet(f, r)) = c * f[p] + c * SumFunctionOnSet(f, r)
    BY <2>1, <2>4
  <2>7. SumFunctionOnSet(h, m) = c * SumFunctionOnSet(f, m)
    BY <2>1, <2>3, <2>5, <2>6
  <2> QED BY <2>7
<1> QED BY <1>4, <1>5

\* One value of a sum of natural numbers.
LEMMA SumAbove ==
  ASSUME NEW f, NEW S, IsFiniteSet(S), \A x \in S : f[x] \in Nat, NEW a \in S
  PROVE  f[a] <= SumFunctionOnSet(f, S)
<1>1. IsFiniteSet(S \ {a})
  BY FS_Subset
<1>2. SumFunctionOnSet(f, S) = f[a] + SumFunctionOnSet(f, S \ {a})
  BY SumTake
<1>3. SumFunctionOnSet(f, S \ {a}) \in Nat
  BY <1>1, SumNat
<1> QED BY <1>2, <1>3

(***************************************************************************)
(* Least elements                                                          *)
(***************************************************************************)
LEMMA LeastExists ==
  ASSUME NEW S, IsFiniteSet(S), S # {}, NEW R,
         \A x, y \in S : <<x, y>> \in R \/ <<y, x>> \in R,
         \A x, y, z \in S : <<x, y>> \in R /\ <<y, z>> \in R => <<x, z>> \in R
  PROVE  \E m \in S : \A x \in S : <<m, x>> \in R
<1> DEFINE X == {s \in SUBSET S : s # {} /\ ~ \E m \in s : \A x \in s : <<m, x>> \in R}
<1>1. SUFFICES ASSUME X # {} PROVE FALSE
  BY DEF X
<1>2. PICK t \in X : \A s \in SUBSET t : s # t => s \notin X
  <2> HIDE DEF X
  <2>1. X \subseteq SUBSET S
    BY DEF X
  <2> QED BY <1>1, <2>1, SmallestSubset
<1>3. PICK a \in t : TRUE
  OBVIOUS
<1>4. CASE t = {a}
  BY <1>3, <1>4
<1>5. CASE t # {a}
  <2>1. t \ {a} \in SUBSET t /\ t \ {a} # t /\ t \ {a} # {}
    BY <1>3, <1>5
  <2>2. t \ {a} \notin X
    BY <1>2, <2>1
  <2>3. PICK m \in t \ {a} : \A x \in t \ {a} : <<m, x>> \in R
    BY <2>1, <2>2
  <2>4. CASE <<m, a>> \in R
    BY <2>3, <2>4
  <2>5. CASE <<a, m>> \in R
    <3>1. \A x \in t : <<a, x>> \in R
      <4> SUFFICES ASSUME NEW x \in t PROVE <<a, x>> \in R
        OBVIOUS
      <4>1. CASE x = a
        BY <4>1
      <4>2. CASE x # a
        BY <2>3, <2>5, <4>2
      <4> QED BY <4>1, <4>2
    <3> QED BY <3>1
  <2> QED BY <2>3, <2>4, <2>5
<1> QED BY <1>4, <1>5

LEMMA LargestInt ==
  ASSUME NEW S, IsFiniteSet(S), S # {}, S \subseteq Int
  PROVE  \E m \in S : \A x \in S : x <= m
<1> DEFINE R == {p \in S \X S : p[2] <= p[1]}
<1>1. \A x, y \in S : <<x, y>> \in R <=> y <= x
  OBVIOUS
<1> HIDE DEF R
<1>2. /\ \A x, y \in S : <<x, y>> \in R \/ <<y, x>> \in R
      /\ \A x, y, z \in S : <<x, y>> \in R /\ <<y, z>> \in R => <<x, z>> \in R
  BY <1>1
<1>3. \E m \in S : \A x \in S : <<m, x>> \in R
  BY <1>2, LeastExists
<1> QED BY <1>1, <1>3

LEMMA SmallestInt ==
  ASSUME NEW S, IsFiniteSet(S), S # {}, S \subseteq Int
  PROVE  \E m \in S : \A x \in S : m <= x
<1> DEFINE R == {p \in S \X S : p[1] <= p[2]}
<1>1. \A x, y \in S : <<x, y>> \in R <=> x <= y
  OBVIOUS
<1> HIDE DEF R
<1>2. /\ \A x, y \in S : <<x, y>> \in R \/ <<y, x>> \in R
      /\ \A x, y, z \in S : <<x, y>> \in R /\ <<y, z>> \in R => <<x, z>> \in R
  BY <1>1
<1>3. \E m \in S : \A x \in S : <<m, x>> \in R
  BY <1>2, LeastExists
<1> QED BY <1>1, <1>3
=============================================================================
