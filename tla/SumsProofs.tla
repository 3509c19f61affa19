----------------------------- MODULE SumsProofs -----------------------------
(* What the conservation proofs need to know about sums. *)
EXTENDS Sums, FiniteSetTheorems, TLAPS

\* The coins of one account.
LEMMA Pile ==
  ASSUME NEW x, NEW n \in Nat
  PROVE  /\ IsFiniteSet({x} \X (1 .. n))
         /\ Cardinality({x} \X (1 .. n)) = n
<1>1. IsFiniteSet(1 .. n) /\ Cardinality(1 .. n) = n
  BY FS_Interval
<1> DEFINE b == [i \in 1 .. n |-> <<x, i>>]
<1>2. b \in Bijection(1 .. n, {x} \X (1 .. n))
  BY DEF Bijection, Injection, IsInjective, Surjection
<1>3. ExistsBijection(1 .. n, {x} \X (1 .. n))
  BY <1>2 DEF ExistsBijection
<1> QED BY <1>1, <1>3, FS_Bijection

LEMMA CoinsFinite ==
  ASSUME NEW S, IsFiniteSet(S), NEW f \in [S -> Nat]
  PROVE  IsFiniteSet(Coins(f))
<1> DEFINE pile == [x \in S |-> {x} \X (1 .. f[x])]
           piles == {{x} \X (1 .. f[x]) : x \in S}
<1>1. pile \in Surjection(S, piles)
  BY DEF Surjection
<1>2. IsFiniteSet(piles)
  BY <1>1, FS_Surjection
<1>3. ASSUME NEW x \in S PROVE IsFiniteSet({x} \X (1 .. f[x]))
  BY Pile
<1>4. Coins(f) = UNION piles
  BY DEF Coins
<1>5. \A p \in piles : IsFiniteSet(p)
  BY <1>3
<1> QED BY <1>2, <1>4, <1>5, FS_UNION

\* A sum is a natural number.
LEMMA SumNat ==
  ASSUME NEW S, IsFiniteSet(S), NEW f \in [S -> Nat]
  PROVE  SumOf(f) \in Nat
BY CoinsFinite, FS_CardinalityType DEF SumOf

\* One account set apart from the rest.
LEMMA SumSplit ==
  ASSUME NEW S, IsFiniteSet(S), NEW f \in [S -> Nat], NEW x \in S
  PROVE  LET rest == UNION {{y} \X (1 .. f[y]) : y \in S \ {x}}
         IN  /\ IsFiniteSet(rest)
             /\ SumOf(f) = Cardinality(rest) + f[x]
<1> DEFINE rest == UNION {{y} \X (1 .. f[y]) : y \in S \ {x}}
           mine == {x} \X (1 .. f[x])
<1>1. Coins(f) = rest \cup mine
  BY DEF Coins
<1>2. rest \cap mine = {}
  OBVIOUS
<1>3. IsFiniteSet(mine) /\ Cardinality(mine) = f[x]
  BY Pile
<1>4. rest \in SUBSET Coins(f)
  BY <1>1
<1>5. IsFiniteSet(rest)
  BY <1>4, CoinsFinite, FS_Subset
<1>6. Cardinality(rest \cup mine) = Cardinality(rest) + Cardinality(mine) - Cardinality(rest \cap mine)
  BY <1>3, <1>5, FS_Union
<1>7. Cardinality(rest) \in Nat /\ Cardinality(rest \cap mine) = 0
  BY <1>2, <1>5, FS_CardinalityType, FS_EmptySet
<1> QED BY <1>1, <1>3, <1>5, <1>6, <1>7 DEF SumOf

\* Changing one account changes the sum by as much.
LEMMA SumChange ==
  ASSUME NEW S, IsFiniteSet(S), NEW f \in [S -> Nat], NEW g \in [S -> Nat], NEW x \in S,
         \A y \in S \ {x} : g[y] = f[y]
  PROVE  SumOf(g) + f[x] = SumOf(f) + g[x]
<1> DEFINE rest(h) == UNION {{y} \X (1 .. h[y]) : y \in S \ {x}}
<1>1. {{y} \X (1 .. f[y]) : y \in S \ {x}} = {{y} \X (1 .. g[y]) : y \in S \ {x}}
  OBVIOUS
<1>2. rest(f) = rest(g)
  BY <1>1
<1>3. IsFiniteSet(rest(f)) /\ SumOf(f) = Cardinality(rest(f)) + f[x]
  BY SumSplit
<1>4. SumOf(g) = Cardinality(rest(g)) + g[x]
  BY SumSplit
<1>5. Cardinality(rest(f)) \in Nat
  BY <1>3, FS_CardinalityType
<1> HIDE DEF rest
<1> QED BY <1>2, <1>3, <1>4, <1>5

\* An account holds no more than all together.
LEMMA SumBound ==
  ASSUME NEW S, IsFiniteSet(S), NEW f \in [S -> Nat], NEW x \in S
  PROVE  f[x] <= SumOf(f)
<1> DEFINE rest == UNION {{y} \X (1 .. f[y]) : y \in S \ {x}}
<1>1. IsFiniteSet(rest) /\ SumOf(f) = Cardinality(rest) + f[x]
  BY SumSplit
<1>2. Cardinality(rest) \in Nat
  BY <1>1, FS_CardinalityType
<1> HIDE DEF rest
<1> QED BY <1>1, <1>2

\* Empty accounts add up to nothing.
LEMMA SumZero ==
  ASSUME NEW S, NEW f \in [S -> Nat], \A x \in S : f[x] = 0
  PROVE  SumOf(f) = 0
<1>1. Coins(f) = {}
  BY DEF Coins
<1> QED BY <1>1, FS_EmptySet DEF SumOf
=============================================================================
