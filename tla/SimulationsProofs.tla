------------------------- MODULE SimulationsProofs -------------------------
(***************************************************************************)
(* Theorems about Simulations and what it extends: the pricing engine, the *)
(* calendar, the catalog, subscriptions and the runs of simulations.       *)
(***************************************************************************)
EXTENDS Simulations, SetLemmas, SequenceTheorems

-----------------------------------------------------------------------------
(* Numbers *)

LEMMA MinIs ==
  ASSUME NEW S \in SUBSET Int, NEW k \in S, \A y \in S : k <= y
  PROVE  Min(S) = k
  <1>1. \A x \in S : (\A y \in S : x <= y) => x = k
    OBVIOUS
  <1>. QED
    BY <1>1 DEF Min

LEMMA MaxIs ==
  ASSUME NEW S \in SUBSET Int, NEW k \in S, \A y \in S : k >= y
  PROVE  Max(S) = k
  <1>1. \A x \in S : (\A y \in S : x >= y) => x = k
    OBVIOUS
  <1>. QED
    BY <1>1 DEF Max

LEMMA MinOfTwo ==
  ASSUME NEW a \in Int, NEW b \in Int
  PROVE  Min({a, b}) = IF a <= b THEN a ELSE b
  <1>1. CASE a <= b
    BY <1>1, MinIs, a \in {a, b}
  <1>2. CASE ~(a <= b)
    BY <1>2, MinIs, b \in {a, b}
  <1>. QED
    BY <1>1, <1>2

LEMMA MaxOfTwo ==
  ASSUME NEW a \in Int, NEW b \in Int
  PROVE  Max({a, b}) = IF a >= b THEN a ELSE b
  <1>1. CASE a >= b
    BY <1>1, MaxIs, a \in {a, b}
  <1>2. CASE ~(a >= b)
    BY <1>2, MaxIs, b \in {a, b}
  <1>. QED
    BY <1>1, <1>2

LEMMA SumTakesLast ==
  ASSUME NEW n \in Nat, NEW f, \A u \in 1..(n + 1) : f[u] \in Int
  PROVE  SumOver(f, 1..(n + 1)) = f[n + 1] + SumOver(f, 1..n)
  <1>1. IsFiniteSet(1..(n + 1)) /\ n + 1 \in 1..(n + 1) /\ (1..(n + 1)) \ {n + 1} = 1..n
    BY FS_Interval
  <1>2. SumOver(f, 1..(n + 1)) = f[n + 1] + SumOver(f, (1..(n + 1)) \ {n + 1})
    BY <1>1, SumTakes
  <1>. QED
    BY <1>1, <1>2

\* What adds the next number each time comes to the sum.
LEMMA SumAccumulates ==
  ASSUME NEW n \in Nat, NEW f, NEW g, \A u \in 1..n : f[u] \in Int,
         g[0] = 0, \A u \in 1..n : g[u] = f[u] + g[u - 1]
  PROVE  SumOver(f, 1..n) = g[n]
  <1> DEFINE Wrong == {k \in 0..n : SumOver(f, 1..k) # g[k]}
  <1> SUFFICES ASSUME Wrong # {} PROVE FALSE
    OBVIOUS
  <1>1. PICK k \in Wrong : \A o \in Wrong : k <= o
    <2>1. Wrong \in SUBSET Nat
      OBVIOUS
    <2> HIDE DEF Wrong
    <2>. QED BY <2>1, LeastNumber
  <1>2. k # 0
    <2>1. 1..0 = {}
      OBVIOUS
    <2>. QED
      BY <2>1, SumOfNone
  <1>3. k - 1 \in 0..n /\ k - 1 \in Nat /\ (k - 1) + 1 = k
    BY <1>2
  <1>4. SumOver(f, 1..(k - 1)) = g[k - 1]
    <2>1. ~(k <= k - 1)
      BY <1>3
    <2>. QED
      BY <1>1, <1>3, <2>1
  <1>5. SumOver(f, 1..((k - 1) + 1)) = f[(k - 1) + 1] + SumOver(f, 1..(k - 1))
    <2>1. \A u \in 1..((k - 1) + 1) : f[u] \in Int
      BY <1>3
    <2>. QED
      BY <1>3, <2>1, SumTakesLast
  <1>6. k \in 1..n
    BY <1>2
  <1>. QED
    BY <1>3, <1>4, <1>5, <1>6

-----------------------------------------------------------------------------
(* The pricing engine *)

LEMMA AddsOne ==
  ASSUME NEW x \in Int, NEW r \in Int
  PROVE  (x + 1) * r = r + x * r /\ x * r \in Int /\ 0 * r = 0
  OBVIOUS

LEMMA PerUnitIsFair ==
  ASSUME NEW q \in Nat, NEW price, price.model = "per_unit", price.rate \in Nat
  PROVE  SumOver([u \in 1..q |-> UnitPrice(price, u)], 1..q) = PerUnit(price, q)
  <1> DEFINE f == [u \in 1..q |-> UnitPrice(price, u)]
             g == [u \in 0..q |-> u * price.rate]
  <1>1. \A u \in 1..q : f[u] = price.rate
    BY DEF UnitPrice
  <1>2. \A u \in 1..q : g[u] = f[u] + g[u - 1]
    <2>. TAKE u \in 1..q
    <2>1. u - 1 \in 0..q /\ u - 1 \in Int /\ (u - 1) + 1 = u /\ u \in 0..q
      OBVIOUS
    <2>2. u * price.rate = price.rate + (u - 1) * price.rate
      BY <2>1, AddsOne
    <2>. QED
      BY <1>1, <2>1, <2>2
  <1>3. g[0] = 0 /\ g[q] = q * price.rate
    BY AddsOne
  <1>4. \A u \in 1..q : f[u] \in Int
    BY <1>1
  <1>5. SumOver(f, 1..q) = g[q]
    <2> HIDE DEF f, g
    <2>. QED BY <1>2, <1>3, <1>4, SumAccumulates
  <1>. QED
    BY <1>3, <1>5 DEF PerUnit

LEMMA OverageIsFair ==
  ASSUME NEW q \in Nat, NEW price, price.model = "included_overage", price.rate \in Nat,
         price.included \in Nat
  PROVE  SumOver([u \in 1..q |-> UnitPrice(price, u)], 1..q) = IncludedOverage(price, q)
  <1> DEFINE f == [u \in 1..q |-> UnitPrice(price, u)]
             Above(u) == IF u > price.included THEN u - price.included ELSE 0
             g == [u \in 0..q |-> Above(u) * price.rate]
  <1>1. \A u \in 1..q : f[u] = IF u > price.included THEN price.rate ELSE 0
    BY DEF UnitPrice
  <1>2. \A u \in 1..q : g[u] = f[u] + g[u - 1]
    <2>. TAKE u \in 1..q
    <2>1. u - 1 \in 0..q /\ u \in 0..q /\ Above(u - 1) \in Int
      OBVIOUS
    <2>2. CASE u > price.included
      <3>1. Above(u) = Above(u - 1) + 1
        BY <2>2
      <3>2. Above(u) * price.rate = price.rate + Above(u - 1) * price.rate
        <4> HIDE DEF Above
        <4>. QED BY <2>1, <3>1, AddsOne
      <3>. QED
        BY <1>1, <2>1, <2>2, <3>2
    <2>3. CASE ~(u > price.included)
      <3>1. Above(u) = 0 /\ Above(u - 1) = 0
        BY <2>3
      <3>. QED
        BY <1>1, <2>1, <2>3, <3>1, AddsOne
    <2>. QED
      BY <2>2, <2>3
  <1>3. g[0] = 0
    <2>1. Above(0) = 0
      OBVIOUS
    <2>. QED
      BY <2>1, AddsOne
  <1>4. \A u \in 1..q : f[u] \in Int
    BY <1>1
  <1>5. SumOver(f, 1..q) = g[q]
    <2> HIDE DEF f, g
    <2>. QED BY <1>2, <1>3, <1>4, SumAccumulates
  <1>6. g[q] = Above(q) * price.rate
    OBVIOUS
  <1>7. Max({q - price.included, 0}) = Above(q)
    BY MaxOfTwo
  <1>. QED
    BY <1>5, <1>6, <1>7 DEF IncludedOverage

\* A tier after what the tiers before have left.
TierStep(left, tier) ==
  LET capacity == IF tier.upTo = None THEN left.quantity ELSE tier.upTo - left.bound
      here == Min({left.quantity, capacity})
  IN [amount |-> left.amount + here * tier.rate, quantity |-> left.quantity - here,
      bound |-> IF tier.upTo = None THEN left.bound ELSE tier.upTo]

\* The first n tiers.
IsWalk(h, tiers, q, n) ==
  h = [i \in 0..n |-> IF i = 0 THEN [amount |-> 0, quantity |-> q, bound |-> 0]
                      ELSE TierStep(h[i - 1], tiers[i])]

LEMMA WalkExists ==
  ASSUME NEW tiers, NEW q, NEW n \in Nat
  PROVE  \E h : IsWalk(h, tiers, q, n)
  <1> DEFINE Wrong == {k \in 0..n : ~\E h : IsWalk(h, tiers, q, k)}
  <1> SUFFICES ASSUME Wrong # {} PROVE FALSE
    OBVIOUS
  <1>1. PICK k \in Wrong : \A o \in Wrong : k <= o
    <2>1. Wrong \in SUBSET Nat
      OBVIOUS
    <2> HIDE DEF Wrong
    <2>. QED BY <2>1, LeastNumber
  <1>2. k # 0
    <2> DEFINE h == [i \in 0..0 |-> [amount |-> 0, quantity |-> q, bound |-> 0]]
    <2>1. h = [i \in 0..0 |-> IF i = 0 THEN [amount |-> 0, quantity |-> q, bound |-> 0]
                              ELSE TierStep(h[i - 1], tiers[i])]
      OBVIOUS
    <2>2. IsWalk(h, tiers, q, 0)
      BY <2>1 DEF IsWalk
    <2>3. ~(0 \in Wrong)
      BY <2>2
    <2>. QED
      BY <2>3, <1>1
  <1>3. k - 1 \in 0..n /\ k \in Nat /\ ~(k <= k - 1)
    BY <1>2
  <1>4. PICK h : IsWalk(h, tiers, q, k - 1)
    BY <1>1, <1>3
  <1> DEFINE m == [i \in 0..k |-> IF i = k THEN TierStep(h[k - 1], tiers[k]) ELSE h[i]]
  <1>5. \A i \in 0..k : m[i] = IF i = 0 THEN [amount |-> 0, quantity |-> q, bound |-> 0]
                               ELSE TierStep(m[i - 1], tiers[i])
    <2>. TAKE i \in 0..k
    <2>1. CASE i = k
      <3>1. m[i] = TierStep(h[k - 1], tiers[k]) /\ m[k - 1] = h[k - 1]
        BY <1>3, <2>1
      <3>. QED
        BY <1>2, <2>1, <3>1
    <2>2. CASE i # k
      <3>1. i \in 0..(k - 1) /\ m[i] = h[i] /\ (i # 0 => m[i - 1] = h[i - 1])
        BY <2>2
      <3>2. h[i] = IF i = 0 THEN [amount |-> 0, quantity |-> q, bound |-> 0]
                   ELSE TierStep(h[i - 1], tiers[i])
        BY <1>4, <3>1 DEF IsWalk
      <3>. QED
        BY <3>1, <3>2
    <2>. QED
      BY <2>1, <2>2
  <1>6. IsWalk(m, tiers, q, k)
    <2>1. m = [i \in 0..k |-> m[i]]
      OBVIOUS
    <2> HIDE DEF m
    <2>. QED BY <1>5, <2>1 DEF IsWalk
  <1>. QED
    BY <1>1, <1>6

LEMMA GraduatedIsWalk ==
  ASSUME NEW tiers, NEW q, Len(tiers) \in Nat
  PROVE  \E h : IsWalk(h, tiers, q, Len(tiers)) /\ Graduated(tiers, q) = h[Len(tiers)].amount
  <1> DEFINE w == CHOOSE h : IsWalk(h, tiers, q, Len(tiers))
  <1>1. IsWalk(w, tiers, q, Len(tiers))
    BY WalkExists
  <1>2. Graduated(tiers, q) = w[Len(tiers)].amount
    BY DEF Graduated, IsWalk, TierStep
  <1>. QED
    BY <1>1, <1>2

Tier == [upTo: Nat \union {None}, rate: Nat]

BoundOf(tiers, i) == IF i = 0 THEN 0 ELSE tiers[i].upTo

LEMMA BoundsAreNumbers ==
  ASSUME NEW tiers \in Seq(Tier), ValidTiers(tiers), None \notin Nat
  PROVE  /\ Len(tiers) \in Nat \ {0} /\ tiers[Len(tiers)].upTo = None
         /\ \A i \in 0..(Len(tiers) - 1) : BoundOf(tiers, i) \in Nat
         /\ \A i \in 1..(Len(tiers) - 1) : BoundOf(tiers, i - 1) < BoundOf(tiers, i)
         /\ \A i \in 1..Len(tiers) : tiers[i].rate \in Nat
  <1>1. Len(tiers) \in Nat \ {0} /\ DOMAIN tiers = 1..Len(tiers)
    BY EmptySeq, LenProperties DEF ValidTiers
  <1>2. \A i \in 1..Len(tiers) : tiers[i] \in Tier
    BY <1>1, ElementOfSeq
  <1>3. \A i \in 1..Len(tiers) : tiers[i].upTo \in Nat \union {None} /\ tiers[i].rate \in Nat
    BY <1>2 DEF Tier
  <1>4. \A i \in 1..Len(tiers) : tiers[i].upTo = None <=> i = Len(tiers)
    BY <1>1 DEF ValidTiers
  <1>5. ASSUME NEW i \in 0..(Len(tiers) - 1)
        PROVE  BoundOf(tiers, i) \in Nat
    <2>1. \A n \in Nat \ {0} : i \in 0..(n - 1) /\ i # 0 => i \in 1..n /\ i # n
      OBVIOUS
    <2>. QED
      BY <2>1, <1>1, <1>3, <1>4 DEF BoundOf
  <1>6. ASSUME NEW i \in 1..(Len(tiers) - 1)
        PROVE  BoundOf(tiers, i - 1) < BoundOf(tiers, i)
    <2>1. tiers[i].upTo > (IF i = 1 THEN 0 ELSE tiers[i - 1].upTo)
      BY DEF ValidTiers
    <2>2. BoundOf(tiers, i - 1) = IF i = 1 THEN 0 ELSE tiers[i - 1].upTo
      BY <1>1 DEF BoundOf
    <2>3. BoundOf(tiers, i) = tiers[i].upTo
      BY <1>1 DEF BoundOf
    <2>4. i \in 0..(Len(tiers) - 1) /\ i - 1 \in 0..(Len(tiers) - 1)
      BY <1>1
    <2>. QED
      BY <2>1, <2>2, <2>3, <2>4, <1>5
  <1>7. Len(tiers) \in 1..Len(tiers)
    BY <1>1
  <1>8. tiers[Len(tiers)].upTo = None
    BY <1>4, <1>7
  <1>9. \A i \in 1..Len(tiers) : tiers[i].rate \in Nat
    BY <1>3
  <1>. QED
    BY <1>1, <1>5, <1>6, <1>8, <1>9

LEMMA BoundsIncrease ==
  ASSUME NEW tiers \in Seq(Tier), ValidTiers(tiers), None \notin Nat,
         NEW i \in 0..(Len(tiers) - 1), NEW j \in 0..(Len(tiers) - 1), i <= j
  PROVE  BoundOf(tiers, i) <= BoundOf(tiers, j)
  <1> DEFINE B(n) == BoundOf(tiers, n)
             Wrong == {k \in i..j : ~(B(i) <= B(k))}
  <1>1. Len(tiers) \in Nat \ {0} /\ i \in Nat /\ j \in Nat /\ j \in i..j
    BY BoundsAreNumbers
  <1> SUFFICES ASSUME Wrong # {} PROVE FALSE
    BY <1>1
  <1>2. /\ \A n \in 0..(Len(tiers) - 1) : B(n) \in Nat
        /\ \A n \in 1..(Len(tiers) - 1) : B(n - 1) < B(n)
    BY BoundsAreNumbers
  <1>3. PICK k \in Wrong : \A o \in Wrong : k <= o
    <2>1. Wrong \in SUBSET Nat
      BY <1>1
    <2> HIDE DEF Wrong
    <2>. QED BY <2>1, LeastNumber
  <1> HIDE DEF B
  <1>4. k \in i..j /\ ~(B(i) <= B(k))
    OBVIOUS
  <1>5. k # i
    BY <1>1, <1>2, <1>4
  <1>6. k - 1 \in i..j /\ k \in 1..(Len(tiers) - 1) /\ k - 1 \in 0..(Len(tiers) - 1)
        /\ k \in 0..(Len(tiers) - 1) /\ ~(k <= k - 1)
    BY <1>1, <1>4, <1>5
  <1>7. B(i) <= B(k - 1)
    BY <1>3, <1>6
  <1>8. B(k - 1) < B(k) /\ B(k - 1) \in Nat /\ B(k) \in Nat /\ B(i) \in Nat
    BY <1>2, <1>6
  <1>. QED
    BY <1>4, <1>7, <1>8

\* The tier that a unit belongs to.
Reaches(tiers, k, u) ==
  BoundOf(tiers, k - 1) < u /\ (k = Len(tiers) \/ u <= BoundOf(tiers, k))

LEMMA UnitPriceIsRate ==
  ASSUME NEW price, price.model = "graduated", price.tiers \in Seq(Tier),
         ValidTiers(price.tiers), None \notin Nat,
         NEW k \in 1..Len(price.tiers), NEW u \in Nat, Reaches(price.tiers, k, u)
  PROVE  UnitPrice(price, u) = price.tiers[k].rate
  <1> DEFINE tiers == price.tiers
             S == {i \in DOMAIN tiers : tiers[i].upTo # None => u <= tiers[i].upTo}
  <1>1. /\ Len(tiers) \in Nat \ {0} /\ tiers[Len(tiers)].upTo = None
        /\ \A i \in 0..(Len(tiers) - 1) : BoundOf(tiers, i) \in Nat
    BY BoundsAreNumbers
  <1>2. DOMAIN tiers = 1..Len(tiers)
    BY LenProperties
  <1>3. k \in S
    BY <1>1, <1>2 DEF Reaches, BoundOf
  <1>4. ASSUME NEW i \in S PROVE k <= i
    <2> SUFFICES ASSUME i < k PROVE FALSE
      BY <1>2
    <2>1. i \in 1..(Len(tiers) - 1) /\ i \in 0..(Len(tiers) - 1) /\ k - 1 \in 0..(Len(tiers) - 1)
          /\ i <= k - 1
      BY <1>1, <1>2
    <2>2. BoundOf(tiers, i) <= BoundOf(tiers, k - 1)
      BY <2>1, BoundsIncrease
    <2>3. BoundOf(tiers, i) = tiers[i].upTo /\ BoundOf(tiers, i) \in Nat
          /\ BoundOf(tiers, k - 1) \in Nat
      BY <1>1, <2>1 DEF BoundOf
    <2>4. u <= tiers[i].upTo
      BY <2>3
    <2>. QED
      BY <2>2, <2>3, <2>4 DEF Reaches
  <1>5. Min(S) = k
    <2>1. S \in SUBSET Int
      BY <1>1, <1>2
    <2> HIDE DEF S
    <2>. QED BY <1>3, <1>4, <2>1, MinIs
  <1>. QED
    BY <1>5 DEF UnitPrice

\* What a walk of q units has left after the tier with the bound b.
Left(q, b) == IF q > b THEN q - b ELSE 0

LEMMA WalkStep ==
  ASSUME NEW h, NEW tiers, NEW q, NEW n \in Nat, IsWalk(h, tiers, q, n), NEW i \in 1..n
  PROVE  h[i] = TierStep(h[i - 1], tiers[i])
  BY DEF IsWalk

LEMMA WalkStart ==
  ASSUME NEW h, NEW tiers, NEW q, NEW n \in Nat, IsWalk(h, tiers, q, n)
  PROVE  h[0] = [amount |-> 0, quantity |-> q, bound |-> 0]
  BY DEF IsWalk

\* The step of a bounded tier, and of the last.
LEMMA BoundedStep ==
  ASSUME NEW left, NEW tier \in Tier, tier.upTo \in Nat, None \notin Nat,
         NEW q \in Nat, NEW b \in Nat, b < tier.upTo,
         left.amount \in Nat, left.bound = b, left.quantity = Left(q, b)
  PROVE  LET after == TierStep(left, tier)
             here == Left(q, b) - Left(q, tier.upTo)
         IN /\ after.bound = tier.upTo /\ after.quantity = Left(q, tier.upTo)
            /\ after.amount = left.amount + here * tier.rate /\ after.amount \in Nat
            /\ here \in Nat
  <1> DEFINE c == tier.upTo
             here == Left(q, b) - Left(q, c)
             taken == Min({left.quantity, c - left.bound})
  <1>1. c # None /\ tier.rate \in Nat /\ Left(q, b) \in Nat /\ Left(q, c) \in Nat /\ here \in Nat
    BY DEF Tier, Left
  <1>2. taken = here
    <2>1. Min({Left(q, b), c - b}) = IF Left(q, b) <= c - b THEN Left(q, b) ELSE c - b
      BY <1>1, MinOfTwo
    <2>. QED
      BY <2>1 DEF Left
  <1>3. here * tier.rate \in Nat
    <2> HIDE DEF here
    <2>. QED BY <1>1
  <1>4. TierStep(left, tier) =
          [amount |-> left.amount + taken * tier.rate, quantity |-> left.quantity - taken,
           bound |-> c]
    BY <1>1 DEF TierStep
  <1>5. left.quantity - here = Left(q, c)
    BY <1>1
  <1> HIDE DEF here, taken
  <1>6. left.amount + here * tier.rate \in Nat
    BY <1>3
  <1>. QED
    BY <1>1, <1>2, <1>4, <1>5, <1>6 DEF here

LEMMA LastStep ==
  ASSUME NEW left, NEW tier \in Tier, tier.upTo = None, left.quantity \in Nat, left.amount \in Nat
  PROVE  /\ TierStep(left, tier).amount = left.amount + left.quantity * tier.rate
         /\ TierStep(left, tier).amount \in Nat
  <1>1. Min({left.quantity, left.quantity}) = left.quantity
    BY MinOfTwo
  <1>2. TierStep(left, tier).amount = left.amount + left.quantity * tier.rate
    BY <1>1 DEF TierStep
  <1>3. left.quantity * tier.rate \in Nat
    BY DEF Tier
  <1>. QED
    BY <1>2, <1>3

LEMMA TierAt ==
  ASSUME NEW tiers \in Seq(Tier), ValidTiers(tiers), None \notin Nat,
         NEW i \in 1..(Len(tiers) - 1)
  PROVE  /\ tiers[i] \in Tier /\ tiers[i].upTo \in Nat /\ BoundOf(tiers, i) = tiers[i].upTo
         /\ BoundOf(tiers, i - 1) \in Nat /\ BoundOf(tiers, i - 1) < tiers[i].upTo
         /\ i - 1 \in 0..(Len(tiers) - 1) /\ i \in 1..Len(tiers) /\ i \in 0..(Len(tiers) - 1)
  <1>1. /\ Len(tiers) \in Nat \ {0}
        /\ \A n \in 0..(Len(tiers) - 1) : BoundOf(tiers, n) \in Nat
        /\ \A n \in 1..(Len(tiers) - 1) : BoundOf(tiers, n - 1) < BoundOf(tiers, n)
    BY BoundsAreNumbers
  <1>2. \A n \in Nat \ {0} : i \in 1..(n - 1) =>
          i - 1 \in 0..(n - 1) /\ i \in 1..n /\ i \in 0..(n - 1) /\ i # 0
    OBVIOUS
  <1>3. i - 1 \in 0..(Len(tiers) - 1) /\ i \in 1..Len(tiers) /\ i \in 0..(Len(tiers) - 1) /\ i # 0
    BY <1>1, <1>2
  <1>4. tiers[i] \in Tier
    BY <1>3, ElementOfSeq
  <1>5. BoundOf(tiers, i) = tiers[i].upTo
    BY <1>3 DEF BoundOf
  <1>. QED
    BY <1>1, <1>3, <1>4, <1>5

LEMMA WalkState ==
  ASSUME NEW tiers \in Seq(Tier), ValidTiers(tiers), None \notin Nat, NEW q \in Nat,
         NEW h, IsWalk(h, tiers, q, Len(tiers)), NEW n \in 0..(Len(tiers) - 1)
  PROVE  /\ h[n].bound = BoundOf(tiers, n) /\ h[n].quantity = Left(q, BoundOf(tiers, n))
         /\ h[n].amount \in Nat
  <1> DEFINE Good(i) == /\ h[i].bound = BoundOf(tiers, i)
                        /\ h[i].quantity = Left(q, BoundOf(tiers, i)) /\ h[i].amount \in Nat
             Wrong == {i \in 0..n : ~Good(i)}
  <1>1. Len(tiers) \in Nat \ {0} /\ n \in Nat /\ n \in 0..n
    BY BoundsAreNumbers
  <1> SUFFICES ASSUME Wrong # {} PROVE FALSE
    BY <1>1
  <1>2. PICK k \in Wrong : \A o \in Wrong : k <= o
    <2>1. Wrong \in SUBSET Nat
      BY <1>1
    <2> HIDE DEF Wrong
    <2>. QED BY <2>1, LeastNumber
  <1>3. Good(0)
    <2>1. h[0] = [amount |-> 0, quantity |-> q, bound |-> 0]
      BY <1>1, WalkStart
    <2>. QED
      BY <2>1 DEF BoundOf, Left
  <1>4. k \in 0..n /\ ~Good(k) /\ k # 0
    BY <1>3
  <1> HIDE DEF Good
  <1>5. k - 1 \in 0..n /\ ~(k <= k - 1) /\ k \in 1..(Len(tiers) - 1)
    BY <1>1, <1>4
  <1>6. Good(k - 1)
    BY <1>2, <1>5
  <1>7. /\ tiers[k] \in Tier /\ tiers[k].upTo \in Nat /\ BoundOf(tiers, k) = tiers[k].upTo
        /\ BoundOf(tiers, k - 1) \in Nat /\ BoundOf(tiers, k - 1) < tiers[k].upTo
        /\ k \in 1..Len(tiers)
    BY <1>5, TierAt
  <1>8. h[k] = TierStep(h[k - 1], tiers[k])
    BY <1>1, <1>7, WalkStep
  <1>9. h[k].bound = tiers[k].upTo /\ h[k].quantity = Left(q, tiers[k].upTo) /\ h[k].amount \in Nat
    BY <1>6, <1>7, <1>8, BoundedStep DEF Good
  <1>. QED
    BY <1>4, <1>7, <1>9 DEF Good

LEMMA UnitPriceIsNatural ==
  ASSUME NEW price, price.model = "graduated", price.tiers \in Seq(Tier),
         ValidTiers(price.tiers), None \notin Nat, NEW u
  PROVE  UnitPrice(price, u) \in Nat
  <1> DEFINE tiers == price.tiers
             S == {i \in DOMAIN tiers : tiers[i].upTo # None => u <= tiers[i].upTo}
  <1>1. /\ Len(tiers) \in Nat \ {0} /\ tiers[Len(tiers)].upTo = None
        /\ \A i \in 1..Len(tiers) : tiers[i].rate \in Nat
    BY BoundsAreNumbers
  <1>2. DOMAIN tiers = 1..Len(tiers)
    BY LenProperties
  <1>3. S \in SUBSET Nat /\ Len(tiers) \in S /\ S \subseteq 1..Len(tiers)
    BY <1>1, <1>2
  <1> HIDE DEF S
  <1>4. PICK k \in S : \A y \in S : k <= y
    BY <1>3, LeastNumber
  <1>5. Min(S) = k
    <2>1. S \in SUBSET Int
      BY <1>3
    <2>. QED
      BY <1>4, <2>1, MinIs
  <1>6. UnitPrice(price, u) = tiers[Min(S)].rate
    BY DEF UnitPrice, S
  <1>7. k \in 1..Len(tiers)
    BY <1>3
  <1>. QED
    BY <1>1, <1>5, <1>6, <1>7

LEMMA LeftGrows ==
  ASSUME NEW q \in Nat, NEW b \in Nat, NEW c \in Nat, b < c
  PROVE  Left(q + 1, b) - Left(q + 1, c) =
           Left(q, b) - Left(q, c) + IF b < q + 1 /\ q + 1 <= c THEN 1 ELSE 0
  <1>1. CASE q + 1 <= b
    BY <1>1 DEF Left
  <1>2. CASE b < q + 1 /\ q + 1 <= c
    BY <1>2 DEF Left
  <1>3. CASE c < q + 1
    BY <1>3 DEF Left
  <1>. QED
    BY <1>1, <1>2, <1>3

LEMMA BoundedStepGrows ==
  ASSUME NEW tier \in Tier, tier.upTo \in Nat, None \notin Nat,
         NEW q \in Nat, NEW b \in Nat, b < tier.upTo, NEW unit \in Nat,
         b < q + 1 /\ q + 1 <= tier.upTo => unit = tier.rate,
         NEW left, left.amount \in Nat, left.bound = b, left.quantity = Left(q, b),
         NEW more, more.amount \in Nat, more.bound = b, more.quantity = Left(q + 1, b),
         more.amount = left.amount + IF q + 1 <= b THEN unit ELSE 0
  PROVE  TierStep(more, tier).amount =
           TierStep(left, tier).amount + IF q + 1 <= tier.upTo THEN unit ELSE 0
  <1>1. PICK c \in Nat : c = tier.upTo
    OBVIOUS
  <1>2. PICK r \in Nat : r = tier.rate
    BY DEF Tier
  <1>3. PICK x \in Nat : x = left.amount
    OBVIOUS
  <1>4. PICK y \in Nat : y = more.amount
    OBVIOUS
  <1>5. PICK m \in Nat : m = Left(q, b) - Left(q, c)
    BY <1>1, BoundedStep
  <1>6. PICK n \in Nat : n = Left(q + 1, b) - Left(q + 1, c)
    BY <1>1 DEF Left
  <1>7. TierStep(left, tier).amount = x + m * r
    BY <1>1, <1>2, <1>3, <1>5, BoundedStep
  <1>8. TierStep(more, tier).amount = y + n * r
    <2>1. q + 1 \in Nat
      OBVIOUS
    <2>. QED
      BY <1>1, <1>2, <1>4, <1>6, <2>1, BoundedStep
  <1>9. n = m + IF b < q + 1 /\ q + 1 <= c THEN 1 ELSE 0
    BY <1>1, <1>5, <1>6, LeftGrows
  <1>10. y = x + IF q + 1 <= b THEN unit ELSE 0
    BY <1>3, <1>4
  <1>11. (m + 1) * r = r + m * r /\ m * r \in Int
    BY AddsOne
  <1>12. y + n * r = x + m * r + IF q + 1 <= c THEN unit ELSE 0
    <2>1. CASE q + 1 <= b
      BY <1>1, <1>9, <1>10, <1>11, <2>1
    <2>2. CASE b < q + 1 /\ q + 1 <= c
      <3>1. n = m + 1 /\ y = x /\ unit = r
        BY <1>1, <1>2, <1>9, <1>10, <2>2
      <3>. QED
        BY <1>11, <2>2, <3>1
    <2>3. CASE c < q + 1
      BY <1>1, <1>9, <1>10, <1>11, <2>3
    <2>. QED
      BY <1>1, <2>1, <2>2, <2>3
  <1>. QED
    BY <1>1, <1>7, <1>8, <1>12

LEMMA OneMoreUnit ==
  ASSUME NEW price, price.model = "graduated", price.tiers \in Seq(Tier),
         ValidTiers(price.tiers), None \notin Nat, NEW q \in Nat,
         NEW h, IsWalk(h, price.tiers, q, Len(price.tiers)),
         NEW m, IsWalk(m, price.tiers, q + 1, Len(price.tiers)),
         NEW n \in 0..(Len(price.tiers) - 1)
  PROVE  m[n].amount = h[n].amount
           + IF q + 1 <= BoundOf(price.tiers, n) THEN UnitPrice(price, q + 1) ELSE 0
  <1>1. PICK tiers \in Seq(Tier) : tiers = price.tiers
    OBVIOUS
  <1>2. PICK unit \in Nat : unit = UnitPrice(price, q + 1)
    BY UnitPriceIsNatural
  <1>3. ValidTiers(tiers) /\ n \in 0..(Len(tiers) - 1) /\ q + 1 \in Nat
        /\ IsWalk(h, tiers, q, Len(tiers)) /\ IsWalk(m, tiers, q + 1, Len(tiers))
    BY <1>1
  <1> DEFINE B(i) == BoundOf(tiers, i)
             Good(i) == m[i].amount = h[i].amount + IF q + 1 <= B(i) THEN unit ELSE 0
             Wrong == {i \in 0..n : ~Good(i)}
  <1>4. Len(tiers) \in Nat \ {0} /\ n \in Nat /\ n \in 0..n
    BY <1>3, BoundsAreNumbers
  <1> SUFFICES ASSUME Wrong # {} PROVE FALSE
    BY <1>1, <1>2, <1>4
  <1>5. PICK k \in Wrong : \A o \in Wrong : k <= o
    <2>1. Wrong \in SUBSET Nat
      BY <1>4
    <2> HIDE DEF Wrong
    <2>. QED BY <2>1, LeastNumber
  <1>6. Good(0)
    <2>1. h[0] = [amount |-> 0, quantity |-> q, bound |-> 0]
      BY <1>3, <1>4, WalkStart
    <2>2. m[0] = [amount |-> 0, quantity |-> q + 1, bound |-> 0]
      BY <1>3, <1>4, WalkStart
    <2>3. B(0) = 0
      BY DEF BoundOf
    <2>. QED
      BY <2>1, <2>2, <2>3
  <1>7. k \in 0..n /\ ~Good(k) /\ k # 0
    BY <1>6
  <1> HIDE DEF Good
  <1>8. k - 1 \in 0..n /\ ~(k <= k - 1) /\ k \in 1..(Len(tiers) - 1)
    BY <1>3, <1>4, <1>7
  <1>9. Good(k - 1)
    BY <1>5, <1>8
  <1>10. /\ tiers[k] \in Tier /\ tiers[k].upTo \in Nat /\ B(k) = tiers[k].upTo
         /\ B(k - 1) \in Nat /\ B(k - 1) < tiers[k].upTo
         /\ k - 1 \in 0..(Len(tiers) - 1) /\ k \in 1..Len(tiers)
    BY <1>3, <1>8, TierAt
  <1>11. h[k] = TierStep(h[k - 1], tiers[k]) /\ m[k] = TierStep(m[k - 1], tiers[k])
    BY <1>3, <1>4, <1>10, WalkStep
  <1>12. h[k - 1].bound = B(k - 1) /\ h[k - 1].quantity = Left(q, B(k - 1))
         /\ h[k - 1].amount \in Nat
    BY <1>3, <1>10, WalkState
  <1>13. m[k - 1].bound = B(k - 1) /\ m[k - 1].quantity = Left(q + 1, B(k - 1))
         /\ m[k - 1].amount \in Nat
    BY <1>3, <1>10, WalkState
  <1>14. B(k - 1) < q + 1 /\ q + 1 <= tiers[k].upTo => unit = tiers[k].rate
    <2>1. B(k - 1) < q + 1 /\ q + 1 <= tiers[k].upTo => Reaches(tiers, k, q + 1)
      BY <1>10 DEF Reaches
    <2>. QED
      BY <1>1, <1>2, <1>3, <1>10, <2>1, UnitPriceIsRate
  <1>15. m[k - 1].amount = h[k - 1].amount + IF q + 1 <= B(k - 1) THEN unit ELSE 0
    BY <1>9 DEF Good
  <1> HIDE DEF B
  <1>16. m[k].amount = h[k].amount + IF q + 1 <= tiers[k].upTo THEN unit ELSE 0
    <2>1. PICK t \in Tier : t = tiers[k]
      BY <1>10
    <2>2. PICK b \in Nat : b = B(k - 1)
      BY <1>10
    <2>3. PICK x : x = h[k - 1]
      OBVIOUS
    <2>4. PICK y : y = m[k - 1]
      OBVIOUS
    <2>5. t.upTo \in Nat /\ b < t.upTo /\ (b < q + 1 /\ q + 1 <= t.upTo => unit = t.rate)
      BY <1>10, <1>14, <2>1, <2>2
    <2>6. x.amount \in Nat /\ x.bound = b /\ x.quantity = Left(q, b)
      BY <1>12, <2>2, <2>3
    <2>7. y.amount \in Nat /\ y.bound = b /\ y.quantity = Left(q + 1, b)
      BY <1>13, <2>2, <2>4
    <2>8. y.amount = x.amount + IF q + 1 <= b THEN unit ELSE 0
      BY <1>15, <2>2, <2>3, <2>4
    <2>9. TierStep(y, t).amount = TierStep(x, t).amount + IF q + 1 <= t.upTo THEN unit ELSE 0
      BY <2>5, <2>6, <2>7, <2>8, BoundedStepGrows
    <2>. QED
      BY <1>11, <2>1, <2>3, <2>4, <2>9
  <1>. QED
    BY <1>7, <1>10, <1>16 DEF Good

LEMMA NothingCosts ==
  ASSUME NEW tiers \in Seq(Tier), ValidTiers(tiers), None \notin Nat,
         NEW h, IsWalk(h, tiers, 0, Len(tiers)), NEW n \in 0..(Len(tiers) - 1)
  PROVE  h[n].amount = 0
  <1> DEFINE Wrong == {i \in 0..n : h[i].amount # 0}
  <1>1. Len(tiers) \in Nat \ {0} /\ n \in Nat /\ n \in 0..n
    BY BoundsAreNumbers
  <1> SUFFICES ASSUME Wrong # {} PROVE FALSE
    BY <1>1
  <1>2. PICK k \in Wrong : \A o \in Wrong : k <= o
    <2>1. Wrong \in SUBSET Nat
      BY <1>1
    <2> HIDE DEF Wrong
    <2>. QED BY <2>1, LeastNumber
  <1>3. h[0].amount = 0
    <2>1. h[0] = [amount |-> 0, quantity |-> 0, bound |-> 0]
      BY <1>1, WalkStart
    <2>. QED
      BY <2>1
  <1>4. k \in 1..(Len(tiers) - 1) /\ k - 1 \in 0..n /\ ~(k <= k - 1)
    BY <1>1, <1>3
  <1>5. h[k - 1].amount = 0
    BY <1>2, <1>4
  <1>6. /\ tiers[k] \in Tier /\ tiers[k].upTo \in Nat /\ BoundOf(tiers, k - 1) \in Nat
        /\ BoundOf(tiers, k - 1) < tiers[k].upTo
        /\ k - 1 \in 0..(Len(tiers) - 1) /\ k \in 1..Len(tiers)
    BY <1>4, TierAt
  <1>7. h[k] = TierStep(h[k - 1], tiers[k])
    BY <1>1, <1>6, WalkStep
  <1>8. h[k - 1].bound = BoundOf(tiers, k - 1)
        /\ h[k - 1].quantity = Left(0, BoundOf(tiers, k - 1))
    BY <1>6, WalkState
  <1>9. PICK t \in Tier : t = tiers[k]
    BY <1>6
  <1>10. PICK b \in Nat : b = BoundOf(tiers, k - 1)
    BY <1>6
  <1>11. PICK x : x = h[k - 1]
    OBVIOUS
  <1>12. t.upTo \in Nat /\ b < t.upTo /\ 0 \in Nat
    BY <1>6, <1>9, <1>10
  <1>13. x.amount \in Nat /\ x.bound = b /\ x.quantity = Left(0, b)
    BY <1>5, <1>8, <1>10, <1>11
  <1>14. TierStep(x, t).amount = x.amount + (Left(0, b) - Left(0, t.upTo)) * t.rate
    BY <1>12, <1>13, BoundedStep
  <1>15. Left(0, b) - Left(0, t.upTo) = 0 /\ t.rate \in Nat
    BY <1>12 DEF Left, Tier
  <1>16. TierStep(x, t).amount = 0 + 0 * t.rate
    BY <1>5, <1>11, <1>14, <1>15
  <1>17. 0 * t.rate = 0
    BY <1>15, AddsOne
  <1>18. h[k].amount = TierStep(x, t).amount
    BY <1>7, <1>9, <1>11
  <1>. QED
    BY <1>2, <1>16, <1>17, <1>18

LEMMA GraduatedIsFair ==
  ASSUME NEW price, price.model = "graduated", price.tiers \in Seq(Tier),
         ValidTiers(price.tiers), None \notin Nat, NEW q \in Nat
  PROVE  /\ SumOver([u \in 1..q |-> UnitPrice(price, u)], 1..q) = Graduated(price.tiers, q)
         /\ Graduated(price.tiers, q) \in Nat
  <1> DEFINE tiers == price.tiers
             f == [u \in 1..q |-> UnitPrice(price, u)]
             g == [u \in 0..q |-> Graduated(tiers, u)]
             last == Len(tiers)
  <1>1. /\ last \in Nat \ {0} /\ last - 1 \in 0..(last - 1) /\ last \in 1..last
        /\ tiers[last] \in Tier /\ tiers[last].upTo = None /\ tiers[last].rate \in Nat
        /\ BoundOf(tiers, last - 1) \in Nat
    <2>1. /\ last \in Nat \ {0} /\ tiers[last].upTo = None
          /\ \A i \in 0..(last - 1) : BoundOf(tiers, i) \in Nat
          /\ \A i \in 1..last : tiers[i].rate \in Nat
      BY BoundsAreNumbers
    <2>2. last - 1 \in 0..(last - 1) /\ last \in 1..last
      BY <2>1
    <2>3. tiers[last] \in Tier
      BY <2>2, ElementOfSeq
    <2>. QED
      BY <2>1, <2>2, <2>3
  <1>2. \A x \in Nat : \A h : IsWalk(h, tiers, x, last) =>
          /\ h[last].amount = h[last - 1].amount + Left(x, BoundOf(tiers, last - 1)) * tiers[last].rate
          /\ h[last - 1].amount \in Nat /\ h[last].amount \in Nat
    <2>. SUFFICES ASSUME NEW x \in Nat, NEW h, IsWalk(h, tiers, x, last)
                  PROVE  /\ h[last].amount = h[last - 1].amount
                                + Left(x, BoundOf(tiers, last - 1)) * tiers[last].rate
                         /\ h[last - 1].amount \in Nat /\ h[last].amount \in Nat
      OBVIOUS
    <2>1. h[last] = TierStep(h[last - 1], tiers[last])
      BY <1>1, WalkStep
    <2>2. h[last - 1].quantity = Left(x, BoundOf(tiers, last - 1)) /\ h[last - 1].amount \in Nat
      BY <1>1, WalkState
    <2>3. h[last - 1].quantity \in Nat
      BY <1>1, <2>2 DEF Left
    <2>. QED
      BY <1>1, <2>1, <2>2, <2>3, LastStep
  <1>3. \A x \in Nat : Graduated(tiers, x) \in Nat
    BY <1>1, <1>2, GraduatedIsWalk
  <1>4. ASSUME NEW x \in Nat
        PROVE  Graduated(tiers, x + 1) = UnitPrice(price, x + 1) + Graduated(tiers, x)
    <2>1. PICK h : IsWalk(h, tiers, x, last) /\ Graduated(tiers, x) = h[last].amount
      BY <1>1, GraduatedIsWalk
    <2>2. PICK m : IsWalk(m, tiers, x + 1, last) /\ Graduated(tiers, x + 1) = m[last].amount
      BY <1>1, GraduatedIsWalk
    <2>3. PICK b \in Nat : b = BoundOf(tiers, last - 1)
      BY <1>1
    <2>4. PICK r \in Nat : r = tiers[last].rate
      BY <1>1
    <2>5. PICK unit \in Nat : unit = UnitPrice(price, x + 1)
      BY UnitPriceIsNatural
    <2>6. h[last].amount = h[last - 1].amount + Left(x, b) * r /\ h[last - 1].amount \in Nat
      BY <1>2, <2>1, <2>3, <2>4
    <2>7. m[last].amount = m[last - 1].amount + Left(x + 1, b) * r /\ m[last - 1].amount \in Nat
      <3>1. x + 1 \in Nat
        OBVIOUS
      <3>. QED
        BY <1>2, <2>2, <2>3, <2>4, <3>1
    <2>8. m[last - 1].amount = h[last - 1].amount + IF x + 1 <= b THEN unit ELSE 0
      BY <1>1, <2>1, <2>2, <2>3, <2>5, OneMoreUnit
    <2>9. CASE x + 1 <= b
      <3>1. Left(x, b) = 0 /\ Left(x + 1, b) = 0
        BY <2>9 DEF Left
      <3>2. 0 * r = 0
        BY AddsOne
      <3>. QED
        BY <2>1, <2>2, <2>5, <2>6, <2>7, <2>8, <2>9, <3>1, <3>2
    <2>10. CASE ~(x + 1 <= b)
      <3>1. PICK n \in Nat : n = Left(x, b) /\ n + 1 = Left(x + 1, b)
        BY <2>10 DEF Left
      <3>2. Reaches(tiers, last, x + 1)
        BY <2>3, <2>10 DEF Reaches
      <3>3. unit = r
        <4>1. x + 1 \in Nat
          OBVIOUS
        <4>. QED
          BY <1>1, <2>4, <2>5, <3>2, <4>1, UnitPriceIsRate
      <3>4. (n + 1) * r = r + n * r /\ n * r \in Int
        BY AddsOne
      <3>5. PICK old \in Nat : old = h[last - 1].amount
        BY <2>6
      <3>6. m[last - 1].amount = old
        BY <2>8, <2>10, <3>5
      <3>7. h[last].amount = old + n * r
        BY <2>6, <3>1, <3>5
      <3>8. m[last].amount = old + (n + 1) * r
        BY <2>7, <3>1, <3>6
      <3>9. m[last].amount = unit + h[last].amount
        BY <3>3, <3>4, <3>7, <3>8
      <3>. QED
        BY <2>1, <2>2, <2>5, <3>9
    <2>. QED
      BY <2>9, <2>10
  <1>5. Graduated(tiers, 0) = 0
    <2>1. PICK h : IsWalk(h, tiers, 0, last) /\ Graduated(tiers, 0) = h[last].amount
      BY <1>1, GraduatedIsWalk
    <2>2. \A n \in 0..(last - 1) : h[n].amount = 0
      <3> SUFFICES ASSUME NEW n \in 0..(last - 1) PROVE h[n].amount = 0
        OBVIOUS
      <3>. QED
        BY <1>1, <2>1, NothingCosts
    <2>3. Left(0, BoundOf(tiers, last - 1)) = 0
      BY <1>1 DEF Left
    <2>4. h[last].amount = h[last - 1].amount + 0 * tiers[last].rate
      BY <1>2, <2>1, <2>3
    <2>. QED
      BY <1>1, <2>1, <2>2, <2>4, AddsOne
  <1> HIDE DEF tiers
  <1>6. \A u \in 1..q : f[u] \in Int /\ g[u] = f[u] + g[u - 1]
    <2>. TAKE u \in 1..q
    <2>1. u - 1 \in Nat /\ u - 1 \in 0..q /\ (u - 1) + 1 = u /\ u \in 0..q
      OBVIOUS
    <2>2. Graduated(tiers, (u - 1) + 1) = UnitPrice(price, (u - 1) + 1) + Graduated(tiers, u - 1)
      BY <1>4, <2>1
    <2>3. UnitPrice(price, u) \in Nat
      BY UnitPriceIsNatural
    <2>. QED
      BY <2>1, <2>2, <2>3
  <1>7. g[0] = 0
    BY <1>5
  <1>8. SumOver(f, 1..q) = g[q]
    <2> HIDE DEF f, g
    <2>. QED BY <1>6, <1>7, SumAccumulates
  <1>9. g[q] = Graduated(tiers, q)
    OBVIOUS
  <1>. QED
    BY <1>3, <1>8, <1>9 DEF tiers

LEMMA Quotient ==
  ASSUME NEW x \in Nat, NEW d \in Nat \ {0}
  PROVE  /\ x \div d \in Nat /\ (x \div d) * d \in Nat
         /\ (x \div d) * d <= x /\ x < (x \div d) * d + d
  OBVIOUS

\* Two multiples that lie within a step below a number are the same.
LEMMA SameQuotient ==
  ASSUME NEW m \in Int, NEW n \in Int, NEW d \in Nat \ {0}, NEW x \in Int,
         m * d <= x, x < m * d + d, n * d <= x, x < n * d + d
  PROVE  m = n
  <1>1. \A a, b \in Int : a < b => a * d + d <= b * d
    <2>. SUFFICES ASSUME NEW a \in Int, NEW b \in Int, a < b
                  PROVE  a * d + d <= b * d
      OBVIOUS
    <2>1. PICK c \in Nat : b = (a + 1) + c
      <3>1. b - (a + 1) \in Nat /\ b = (a + 1) + (b - (a + 1))
        OBVIOUS
      <3>. QED
        BY <3>1
    <2>2. b * d = (a * d + d) + c * d
      BY <2>1
    <2>3. c * d \in Nat /\ a * d \in Int
      OBVIOUS
    <2>. QED
      BY <2>2, <2>3
  <1>2. m * d \in Int /\ n * d \in Int
    OBVIOUS
  <1>3. ~(m < n)
    <2>1. m < n => m * d + d <= n * d
      BY <1>1
    <2>. QED
      BY <1>2, <2>1
  <1>4. ~(n < m)
    <2>1. n < m => n * d + d <= m * d
      BY <1>1
    <2>. QED
      BY <1>2, <2>1
  <1>. QED
    BY <1>3, <1>4

\* What the reference definition calls near.
IsNear(n, exact, parts) ==
  /\ n * parts - exact <= exact - (n - 1) * parts
  /\ (n + 1) * parts - exact > exact - n * parts

LEMMA NearIsQuotient ==
  ASSUME NEW n \in Int, NEW e \in Nat, NEW p \in Nat \ {0}
  PROVE  IsNear(n, e, p) <=> n * (2 * p) <= 2 * e + p /\ 2 * e + p < n * (2 * p) + 2 * p
  <1>1. PICK x \in Int : x = n * p
    OBVIOUS
  <1>2. (n - 1) * p = x - p /\ (n + 1) * p = x + p /\ n * (2 * p) = 2 * x
    BY <1>1
  <1>. QED
    BY <1>1, <1>2 DEF IsNear

LEMMA RoundingIsNear ==
  ASSUME NEW e \in Nat, NEW p \in Nat \ {0}
  PROVE  /\ RoundHalfAway(e, p) \in 0..e
         /\ RoundHalfAway(e, p) = CHOOSE n \in 0..e : IsNear(n, e, p)
  <1> DEFINE d == 2 * p
             x == 2 * e + p
             q == x \div d
  <1>1. x \in Nat /\ d \in Nat \ {0} /\ RoundHalfAway(e, p) = q
    BY DEF RoundHalfAway
  <1>2. q \in Nat /\ q * d \in Nat /\ q * d <= x /\ x < q * d + d
    <2> HIDE DEF d, x
    <2>. QED BY <1>1, Quotient
  <1>3. IsNear(q, e, p)
    <2>1. q * (2 * p) <= 2 * e + p /\ 2 * e + p < q * (2 * p) + 2 * p
      BY <1>2
    <2> HIDE DEF q
    <2>. QED BY <1>2, <2>1, NearIsQuotient
  <1>4. ASSUME NEW n \in 0..e, IsNear(n, e, p) PROVE n = q
    <2>1. n * d <= x /\ x < n * d + d
      BY <1>4, NearIsQuotient
    <2> HIDE DEF d, x, q
    <2>. QED BY <1>1, <1>2, <2>1, SameQuotient
  <1>5. q <= e
    <2> SUFFICES ASSUME q >= e + 1 PROVE FALSE
      BY <1>2
    <2>1. PICK k \in Nat : q = (e + 1) + k
      <3>1. q - (e + 1) \in Nat /\ q = (e + 1) + (q - (e + 1))
        BY <1>2
      <3>. QED
        BY <3>1
    <2>2. PICK c \in Nat : p = 1 + c
      <3>1. p - 1 \in Nat /\ p = 1 + (p - 1)
        OBVIOUS
      <3>. QED
        BY <3>1
    <2>3. q * d = 2 * (e + 1) + 2 * (e * c) + 2 * c + k * d
      <3> HIDE DEF q
      <3>. QED BY <2>1, <2>2
    <2>4. e * c \in Nat /\ k * d \in Nat
      OBVIOUS
    <2> HIDE DEF q
    <2>. QED BY <1>2, <2>2, <2>3, <2>4
  <1>6. q \in 0..e
    BY <1>2, <1>5
  <1> HIDE DEF q
  <1>7. (CHOOSE n \in 0..e : IsNear(n, e, p)) = q
    BY <1>3, <1>4, <1>6
  <1>. QED
    BY <1>1, <1>6, <1>7

\* What a component charges before it is rounded is the sum of what its units cost.
LEMMA AmountIsFair ==
  ASSUME NEW price, PriceDefinition(price), ValidPrice(price), None \notin Nat, NEW q \in Nat
  PROVE  /\ Amount(price, q) \in Nat
         /\ Amount(price, q) = (IF price.model = "flat" THEN price.amount ELSE 0)
                                 + SumFunction([u \in 1..q |-> UnitPrice(price, u)])
  <1> DEFINE f == [u \in 1..q |-> UnitPrice(price, u)]
  <1>1. SumFunction(f) = SumOver(f, 1..q)
    BY DEF SumFunction, SumOver
  <1>2. CASE price.model = "flat" /\ price.amount \in Nat
    <2>1. \A u \in 1..q : f[u] = 0
      BY <1>2 DEF UnitPrice
    <2>2. SumOver(f, 1..q) = 0
      <3>1. IsFiniteSet(1..q)
        BY FS_Interval
      <3> HIDE DEF f
      <3>. QED BY <2>1, <3>1, SumOfZeros
    <2>3. Amount(price, q) = price.amount
      BY <1>2 DEF Amount, Flat
    <2>. QED
      BY <1>1, <1>2, <2>2, <2>3
  <1>3. CASE price.model = "per_unit" /\ price.rate \in Nat
    <2>1. Amount(price, q) = PerUnit(price, q)
      BY <1>3 DEF Amount
    <2>2. PerUnit(price, q) \in Nat
      BY <1>3 DEF PerUnit
    <2>3. SumOver(f, 1..q) = PerUnit(price, q)
      BY <1>3, PerUnitIsFair
    <2>. QED
      BY <1>1, <1>3, <2>1, <2>2, <2>3
  <1>4. CASE price.model = "included_overage" /\ price.included \in Nat /\ price.rate \in Nat
    <2>1. Amount(price, q) = IncludedOverage(price, q)
      BY <1>4 DEF Amount
    <2>2. IncludedOverage(price, q) \in Nat
      <3>1. Max({q - price.included, 0}) \in Nat
        BY <1>4, MaxOfTwo
      <3>2. \A x, y \in Nat : x * y \in Nat
        OBVIOUS
      <3>. QED
        BY <1>4, <3>1, <3>2 DEF IncludedOverage
    <2>3. SumOver(f, 1..q) = IncludedOverage(price, q)
      BY <1>4, OverageIsFair
    <2>. QED
      BY <1>1, <1>4, <2>1, <2>2, <2>3
  <1>5. CASE price.model = "graduated" /\ price.tiers \in Seq([upTo: Nat \union {None}, rate: Nat])
    <2>1. Amount(price, q) = Graduated(price.tiers, q)
      BY <1>5 DEF Amount
    <2>2. price.tiers \in Seq(Tier) /\ ValidTiers(price.tiers)
      BY <1>5 DEF Tier, ValidPrice
    <2>3. SumOver(f, 1..q) = Graduated(price.tiers, q) /\ Graduated(price.tiers, q) \in Nat
      BY <1>5, <2>2, GraduatedIsFair
    <2>. QED
      BY <1>1, <1>5, <2>1, <2>3
  <1>. QED
    BY <1>2, <1>3, <1>4, <1>5 DEF PriceDefinition

\* The pricing engine is fair: whatever the price, the bounds of its tiers and the quantity, a
\* component charges what its units cost one after the other, and the sum is rounded once, to
\* the nearest minor unit.
THEOREM LinesAreFair ==
  ASSUME NEW component, PriceDefinition(component.price), ValidPrice(component.price),
         component.parts \in Nat \ {0}, NEW quantity \in Nat
  PROVE  Line(component, quantity) = FairLine(component, quantity)
         /\ Line(component, quantity) \in Nat
  <1>1. None \notin Nat
    BY CatalogAssumption
  <1>2. PICK exact \in Nat : exact = Amount(component.price, quantity)
    BY <1>1, AmountIsFair
  <1>3. PICK parts \in Nat \ {0} : parts = component.parts
    OBVIOUS
  <1>4. Line(component, quantity) = RoundHalfAway(exact, parts)
    BY <1>2, <1>3 DEF Line
  <1>5. exact = (IF component.price.model = "flat" THEN component.price.amount ELSE 0)
                  + SumFunction([u \in 1..quantity |-> UnitPrice(component.price, u)])
    BY <1>1, <1>2, AmountIsFair
  <1>6. FairLine(component, quantity) = CHOOSE n \in 0..exact : IsNear(n, exact, parts)
    BY <1>3, <1>5 DEF FairLine, IsNear
  <1>7. RoundHalfAway(exact, parts) \in 0..exact
        /\ RoundHalfAway(exact, parts) = CHOOSE n \in 0..exact : IsNear(n, exact, parts)
    BY RoundingIsNear
  <1>. QED
    BY <1>4, <1>6, <1>7

\* A plan version whose prices are valid.
Priced(components) ==
  /\ IsFiniteSet(DOMAIN components)
  /\ \A i \in DOMAIN components : ComponentDefinition(components[i]) /\ ValidPrice(components[i].price)

LEMMA SubtotalIsFair ==
  ASSUME NEW components, Priced(components), NEW quantities,
         \A i \in DOMAIN components : quantities[i] \in Nat
  PROVE  Subtotal(components, quantities) = FairSubtotal(components, quantities)
         /\ Subtotal(components, quantities) \in Nat
  <1> DEFINE f == [i \in DOMAIN components |-> Line(components[i], quantities[i])]
             g == [i \in DOMAIN components |-> FairLine(components[i], quantities[i])]
             D == DOMAIN components
  <1>1. \A i \in D : f[i] = g[i] /\ f[i] \in Nat
    <2>. TAKE i \in D
    <2>1. /\ PriceDefinition(components[i].price) /\ ValidPrice(components[i].price)
          /\ components[i].parts \in Nat \ {0} /\ quantities[i] \in Nat
      BY DEF Priced, ComponentDefinition
    <2>2. Line(components[i], quantities[i]) = FairLine(components[i], quantities[i])
          /\ Line(components[i], quantities[i]) \in Nat
      BY <2>1, LinesAreFair
    <2>. QED
      BY <2>2
  <1>2. IsFiniteSet(D)
    BY DEF Priced
  <1>3. Subtotal(components, quantities) = SumOver(f, D)
        /\ FairSubtotal(components, quantities) = SumOver(g, D)
    BY DEF Subtotal, FairSubtotal, SumFunction, SumOver
  <1>. HIDE DEF f, g, D
  <1>4. SumOver(f, D) = SumOver(g, D)
    <2>1. \A i \in D : f[i] = g[i] /\ f[i] \in Int
      BY <1>1
    <2>. QED
      BY <1>2, <2>1, SumOfEqual
  <1>5. SumOver(f, D) \in Nat
    BY <1>1, <1>2, SumIsNatural
  <1>. QED
    BY <1>3, <1>4, <1>5

-----------------------------------------------------------------------------
(* The calendar *)

Months == Len(MonthLengths)

LEMMA CalendarFacts ==
  /\ Months \in Nat /\ DOMAIN MonthLengths = 1..Months
  /\ \A m \in 1..Months : MonthLengths[m] \in Nat \ {0}
  <1>1. MonthLengths \in Seq(Nat \ {0})
    BY SubscriptionsAssumption
  <1>. QED
    BY <1>1, LenProperties, ElementOfSeq DEF Months

LEMMA FirstDays ==
  ASSUME NEW m \in 1..(Months + 1)
  PROVE  FirstDay(m) \in Nat /\ FirstDay(1) = 0
  <1>1. Months \in Nat /\ \A k \in 1..Months : MonthLengths[k] \in Nat \ {0}
    BY CalendarFacts
  <1>2. IsFiniteSet(1..(m - 1)) /\ \A k \in 1..(m - 1) : MonthLengths[k] \in Nat
    BY <1>1, FS_Interval
  <1>3. SumOver(MonthLengths, 1..(m - 1)) \in Nat
    BY <1>2, SumIsNatural
  <1>4. 1..(1 - 1) = {}
    OBVIOUS
  <1>5. SumOver(MonthLengths, 1..(1 - 1)) = 0
    BY <1>4, SumOfNone
  <1>. QED
    BY <1>3, <1>5 DEF FirstDay, SumOver

LEMMA NextMonth ==
  ASSUME NEW m \in 1..Months
  PROVE  FirstDay(m + 1) = FirstDay(m) + MonthLengths[m] /\ MonthLengths[m] \in Nat \ {0}
  <1>1. Months \in Nat /\ \A k \in 1..Months : MonthLengths[k] \in Nat \ {0}
    BY CalendarFacts
  <1>2. PICK n \in Nat : m = n + 1
    <2>1. m - 1 \in Nat /\ m = (m - 1) + 1
      BY <1>1
    <2>. QED
      BY <2>1
  <1>3. \A k \in 1..(n + 1) : MonthLengths[k] \in Int
    BY <1>1, <1>2
  <1>4. SumOver(MonthLengths, 1..(n + 1)) = MonthLengths[n + 1] + SumOver(MonthLengths, 1..n)
    BY <1>3, SumTakesLast
  <1>5. m - 1 = n /\ (m + 1) - 1 = n + 1
    BY <1>2
  <1>6. FirstDay(m + 1) = SumOver(MonthLengths, 1..(n + 1))
        /\ FirstDay(m) = SumOver(MonthLengths, 1..n)
    BY <1>5 DEF FirstDay, SumOver
  <1>7. m \in 1..(Months + 1)
    BY <1>1
  <1>8. FirstDay(m) \in Nat
    BY <1>7, FirstDays
  <1>. QED
    BY <1>1, <1>2, <1>4, <1>6, <1>8

LEMMA MonthsFollow ==
  ASSUME NEW a \in 1..(Months + 1), NEW b \in 1..(Months + 1), a <= b
  PROVE  FirstDay(a) <= FirstDay(b)
  <1>1. Months \in Nat /\ \A k \in 1..Months : MonthLengths[k] \in Nat \ {0}
    BY CalendarFacts
  <1> DEFINE S == 1..(b - 1)
             A == 1..(a - 1)
  <1>2. IsFiniteSet(S) /\ A \in SUBSET S /\ \A k \in S : MonthLengths[k] \in Nat
    BY <1>1, FS_Interval
  <1>3. FirstDay(a) = SumOver(MonthLengths, A) /\ FirstDay(b) = SumOver(MonthLengths, S)
    BY DEF FirstDay, SumOver
  <1> HIDE DEF S, A
  <1>. QED
    BY <1>2, <1>3, SumGrows

LEMMA MonthOfDay ==
  ASSUME NEW day \in Nat, day < FirstDay(Months + 1)
  PROVE  MonthOf(day) \in 1..Months /\ FirstDay(MonthOf(day)) <= day
         /\ day < FirstDay(MonthOf(day) + 1)
  <1>1. Months \in Nat /\ DOMAIN MonthLengths = 1..Months
    BY CalendarFacts
  <1> DEFINE Later == {m \in 1..Months : day < FirstDay(m + 1)}
  <1>2. Later \in SUBSET Nat /\ Later # {}
    <2>1. Months # 0
      <3>1. 1 \in 1..(Months + 1)
        BY <1>1
      <3>2. FirstDay(1) = 0
        BY <3>1, FirstDays
      <3>. QED
        BY <3>2
    <2>2. Months \in Later
      BY <1>1, <2>1
    <2>. QED
      BY <1>1, <2>2
  <1>3. PICK m \in Later : \A o \in Later : m <= o
    <2> HIDE DEF Later
    <2>. QED BY <1>2, LeastNumber
  <1>4. FirstDay(m) <= day
    <2>1. CASE m = 1
      <3>1. FirstDay(1) = 0
        BY <1>1, FirstDays
      <3>. QED
        BY <2>1, <3>1
    <2>2. CASE m # 1
      <3>1. m - 1 \in 1..Months /\ (m - 1) + 1 = m /\ ~(m <= m - 1) /\ m \in 1..(Months + 1)
        BY <1>1, <2>2
      <3>2. ~(day < FirstDay(m))
        BY <1>3, <3>1
      <3>3. FirstDay(m) \in Nat
        BY <3>1, FirstDays
      <3>. QED
        BY <3>2, <3>3
    <2>. QED
      BY <2>1, <2>2
  <1>. QED
    BY <1>1, <1>3, <1>4 DEF MonthOf

LEMMA AfterMonthsIsIn ==
  ASSUME NEW anchor \in Nat, anchor < FirstDay(Months + 1), NEW k \in Int,
         MonthOf(anchor) + k \in 1..Months
  PROVE  LET month == MonthOf(anchor) + k
         IN /\ AfterMonths(anchor, k) \in Nat
            /\ FirstDay(month) <= AfterMonths(anchor, k) /\ AfterMonths(anchor, k) < FirstDay(month + 1)
            /\ k = 0 => AfterMonths(anchor, k) = anchor
  <1>1. PICK m \in 1..Months : m = MonthOf(anchor) /\ FirstDay(m) <= anchor /\ anchor < FirstDay(m + 1)
    BY MonthOfDay
  <1>2. PICK month \in 1..Months : month = MonthOf(anchor) + k
    OBVIOUS
  <1>3. Months \in Nat
    BY CalendarFacts
  <1>4. m \in 1..(Months + 1) /\ month \in 1..(Months + 1)
    BY <1>3
  <1>5. FirstDay(m) \in Nat /\ FirstDay(month) \in Nat
    BY <1>4, FirstDays
  <1>6. PICK length \in Nat \ {0} :
          length = MonthLengths[month] /\ FirstDay(month + 1) = FirstDay(month) + length
    BY NextMonth
  <1>7. PICK day \in Nat : day = anchor - FirstDay(m)
    BY <1>1, <1>5
  <1>8. AfterMonths(anchor, k) = FirstDay(month) + Min({day, length - 1})
    BY <1>1, <1>2, <1>6, <1>7 DEF AfterMonths
  <1>9. Min({day, length - 1}) = IF day <= length - 1 THEN day ELSE length - 1
    BY MinOfTwo
  <1>10. k = 0 => month = m /\ day <= length - 1
    BY <1>1, <1>2, <1>5, <1>6, <1>7
  <1>. QED
    BY <1>1, <1>2, <1>5, <1>6, <1>7, <1>8, <1>9, <1>10

LEMMA MonthIs ==
  ASSUME NEW m \in 1..Months, NEW day \in Nat, FirstDay(m) <= day, day < FirstDay(m + 1)
  PROVE  MonthOf(day) = m
  <1>1. Months \in Nat
    BY CalendarFacts
  <1>2. m + 1 \in 1..(Months + 1) /\ Months + 1 \in 1..(Months + 1) /\ m + 1 <= Months + 1
        /\ m \in 1..(Months + 1)
    BY <1>1
  <1>3. \A k \in 1..(Months + 1) : FirstDay(k) \in Nat
    BY FirstDays
  <1>4. FirstDay(m + 1) <= FirstDay(Months + 1)
    BY <1>2, MonthsFollow
  <1>5. day < FirstDay(Months + 1)
    BY <1>2, <1>3, <1>4
  <1>6. PICK o \in 1..Months : o = MonthOf(day) /\ FirstDay(o) <= day /\ day < FirstDay(o + 1)
    BY <1>5, MonthOfDay
  <1>7. o \in 1..(Months + 1) /\ o + 1 \in 1..(Months + 1)
    BY <1>1
  <1>8. ~(o + 1 <= m)
    <2>1. o + 1 <= m => FirstDay(o + 1) <= FirstDay(m)
      BY <1>2, <1>7, MonthsFollow
    <2>. QED
      BY <1>2, <1>3, <1>6, <1>7, <2>1
  <1>9. ~(m + 1 <= o)
    <2>1. m + 1 <= o => FirstDay(m + 1) <= FirstDay(o)
      BY <1>2, <1>7, MonthsFollow
    <2>. QED
      BY <1>2, <1>3, <1>6, <1>7, <2>1
  <1>. QED
    BY <1>1, <1>6, <1>8, <1>9

\* Some months after the anchor it is an anniversary.
LEMMA MonthsAreAnniversaries ==
  ASSUME NEW anchor \in Nat, anchor < FirstDay(Months + 1), NEW k \in Int,
         MonthOf(anchor) + k \in 1..Months
  PROVE  Anniversary(anchor, AfterMonths(anchor, k))
  <1>1. PICK m \in 1..Months : m = MonthOf(anchor) /\ FirstDay(m) <= anchor
    BY MonthOfDay
  <1>2. PICK month \in 1..Months : month = MonthOf(anchor) + k
    OBVIOUS
  <1>3. PICK day \in Nat : /\ day = AfterMonths(anchor, k)
                           /\ FirstDay(month) <= day /\ day < FirstDay(month + 1)
    BY <1>2, AfterMonthsIsIn
  <1>4. MonthOf(day) = month
    BY <1>3, MonthIs
  <1>5. Months \in Nat
    BY CalendarFacts
  <1>6. m \in 1..(Months + 1) /\ month \in 1..(Months + 1)
    BY <1>5
  <1>7. FirstDay(m) \in Nat /\ FirstDay(month) \in Nat
    BY <1>6, FirstDays
  <1>8. PICK length \in Nat \ {0} : length = MonthLengths[month]
    BY CalendarFacts
  <1>9. PICK wanted \in Nat : wanted = anchor - FirstDay(m)
    BY <1>1, <1>7
  <1>10. day = FirstDay(month) + Min({wanted, length - 1})
    BY <1>1, <1>2, <1>3, <1>8, <1>9 DEF AfterMonths
  <1>11. Min({wanted, length - 1}) = IF wanted <= length - 1 THEN wanted ELSE length - 1
    BY MinOfTwo
  <1>12. day - FirstDay(month) = IF wanted > length - 1 THEN length - 1 ELSE wanted
    BY <1>7, <1>10, <1>11
  <1>. QED
    BY <1>1, <1>3, <1>4, <1>8, <1>9, <1>12 DEF Anniversary

\* An anniversary is as many months after the anchor as its month is.
LEMMA AnniversaryIs ==
  ASSUME NEW anchor \in Nat, anchor < FirstDay(Months + 1), NEW day \in Nat,
         day < FirstDay(Months + 1), Anniversary(anchor, day), NEW k \in Int,
         MonthOf(day) = MonthOf(anchor) + k
  PROVE  AfterMonths(anchor, k) = day
  <1>1. PICK m \in 1..Months : m = MonthOf(anchor) /\ FirstDay(m) <= anchor
    BY MonthOfDay
  <1>2. PICK month \in 1..Months : month = MonthOf(day)
    BY MonthOfDay
  <1>5. Months \in Nat
    BY CalendarFacts
  <1>6. m \in 1..(Months + 1) /\ month \in 1..(Months + 1)
    BY <1>5
  <1>7. FirstDay(m) \in Nat /\ FirstDay(month) \in Nat
    BY <1>6, FirstDays
  <1>8. PICK length \in Nat \ {0} : length = MonthLengths[month]
    BY CalendarFacts
  <1>9. PICK wanted \in Nat : wanted = anchor - FirstDay(m)
    BY <1>1, <1>7
  <1>10. day - FirstDay(month) = IF wanted > length - 1 THEN length - 1 ELSE wanted
    BY <1>1, <1>2, <1>8, <1>9 DEF Anniversary
  <1>11. Min({wanted, length - 1}) = IF wanted <= length - 1 THEN wanted ELSE length - 1
    BY MinOfTwo
  <1>12. AfterMonths(anchor, k) = FirstDay(month) + Min({wanted, length - 1})
    BY <1>1, <1>2, <1>8, <1>9 DEF AfterMonths
  <1>. QED
    BY <1>7, <1>10, <1>11, <1>12

\* The period of a moment has begun, with the subscription or later, and ends after it.
PeriodFits(period, at, start, end) ==
  /\ period \in [start: Nat, end: Nat, next: Nat]
  /\ start <= period.start /\ period.start <= at /\ at < period.next
  /\ period.end = IF end # None /\ end <= period.next THEN end ELSE period.next

LEMMA PeriodContains ==
  ASSUME NEW at \in Nat, NEW anchor \in Nat, NEW start \in Nat, NEW end \in Nat \union {None},
         anchor <= start, start <= at, at < FirstDay(Months)
  PROVE  /\ PeriodFits(PeriodAt(at, anchor, start, end), at, start, end)
         /\ Anniversary(anchor, PeriodAt(at, anchor, start, end).next)
         /\ Anniversary(anchor, at) => PeriodAt(at, anchor, start, end).start = at
  <1>1. Months \in Nat /\ Months # 0
    <2>1. Months \in Nat
      BY CalendarFacts
    <2>2. Months # 0
      <3> SUFFICES ASSUME Months = 0 PROVE FALSE
        OBVIOUS
      <3>1. 1..(0 - 1) = {}
        OBVIOUS
      <3>2. FirstDay(0) = 0
        BY <3>1, SumOfNone DEF FirstDay, SumOver
      <3>. QED
        BY <3>2
    <2>. QED
      BY <2>1, <2>2
  <1>2. Months \in 1..(Months + 1) /\ Months + 1 \in 1..(Months + 1) /\ Months <= Months + 1
    BY <1>1
  <1>3. FirstDay(Months) \in Nat /\ FirstDay(Months + 1) \in Nat
        /\ FirstDay(Months) <= FirstDay(Months + 1)
    BY <1>2, FirstDays, MonthsFollow
  <1>4. at < FirstDay(Months + 1) /\ anchor < FirstDay(Months + 1)
    BY <1>3
  <1>5. PICK a \in 1..Months : a = MonthOf(anchor) /\ FirstDay(a) <= anchor /\ anchor < FirstDay(a + 1)
    BY <1>4, MonthOfDay
  <1>6. PICK m \in 1..Months : m = MonthOf(at) /\ FirstDay(m) <= at /\ at < FirstDay(m + 1)
    BY <1>4, MonthOfDay
  <1>7. \A k \in 1..(Months + 1) : FirstDay(k) \in Nat
    BY FirstDays
  <1>8. m < Months
    <2> SUFFICES ASSUME m = Months PROVE FALSE
      BY <1>1
    <2>. QED
      BY <1>3, <1>6
  <1>9. a <= m
    <2> SUFFICES ASSUME m + 1 <= a PROVE FALSE
      BY <1>1
    <2>1. m + 1 \in 1..(Months + 1) /\ a \in 1..(Months + 1)
      BY <1>1
    <2>2. FirstDay(m + 1) <= FirstDay(a)
      BY <2>1, MonthsFollow
    <2>. QED
      BY <1>5, <1>6, <1>7, <2>1, <2>2
  <1> DEFINE guess == m - a
             months == IF AfterMonths(anchor, guess) > at THEN guess - 1 ELSE guess
             first == AfterMonths(anchor, months)
             next == AfterMonths(anchor, months + 1)
  <1>10. PICK here \in Nat : here = AfterMonths(anchor, guess) /\ FirstDay(m) <= here
                             /\ here < FirstDay(m + 1) /\ (guess = 0 => here = anchor)
    <2>1. guess \in Int /\ MonthOf(anchor) + guess = m
      BY <1>1, <1>5
    <2> HIDE DEF guess
    <2>. QED BY <1>4, <2>1, AfterMonthsIsIn
  <1>15. Anniversary(anchor, at) => here = at
    <2>1. guess \in Int /\ MonthOf(at) = MonthOf(anchor) + guess
      BY <1>1, <1>5, <1>6
    <2> HIDE DEF guess
    <2>. QED BY <1>4, <1>10, <2>1, AnniversaryIs
  <1>11. first \in Nat /\ first <= at /\ next \in Nat /\ at < next /\ Anniversary(anchor, next)
         /\ (Anniversary(anchor, at) => first = at)
    <2>1. CASE here > at
      <3>1. months = guess - 1 /\ guess # 0 /\ months + 1 = guess
        BY <1>10, <2>1
      <3>2. months \in Int /\ MonthOf(anchor) + months = m - 1 /\ m - 1 \in 1..Months
        BY <1>1, <1>5, <1>9, <3>1
      <3>6. months + 1 \in Int /\ MonthOf(anchor) + (months + 1) = m
        BY <1>1, <1>5, <3>1
      <3>7. ~Anniversary(anchor, at)
        BY <1>10, <1>15, <2>1
      <3> HIDE DEF months
      <3>3. first \in Nat /\ first < FirstDay((m - 1) + 1)
        BY <1>4, <3>2, AfterMonthsIsIn
      <3>8. Anniversary(anchor, next)
        BY <1>4, <3>6, MonthsAreAnniversaries
      <3>4. (m - 1) + 1 = m /\ m \in 1..(Months + 1)
        BY <1>1
      <3>5. FirstDay(m) \in Nat
        BY <1>7, <3>4
      <3>. QED
        BY <1>6, <1>10, <2>1, <3>1, <3>3, <3>4, <3>5, <3>7, <3>8
    <2>2. CASE ~(here > at)
      <3>1. months = guess
        BY <1>10, <2>2
      <3>2. months + 1 \in Int /\ MonthOf(anchor) + (months + 1) = m + 1 /\ m + 1 \in 1..Months
            /\ m + 1 \in 1..(Months + 1)
        BY <1>1, <1>5, <1>8, <3>1
      <3> HIDE DEF months
      <3>3. next \in Nat /\ FirstDay(m + 1) <= next
        BY <1>4, <3>2, AfterMonthsIsIn
      <3>5. Anniversary(anchor, next)
        BY <1>4, <3>2, MonthsAreAnniversaries
      <3>4. FirstDay(m + 1) \in Nat
        BY <1>7, <3>2
      <3>. QED
        BY <1>6, <1>10, <1>15, <2>2, <3>1, <3>3, <3>4, <3>5
    <2>. QED
      BY <2>1, <2>2
  <1>12. PeriodAt(at, anchor, start, end) =
           [start |-> Max({first, start}),
            end |-> IF end = None THEN next ELSE Min({next, end}), next |-> next]
    BY <1>5, <1>6 DEF PeriodAt
  <1> HIDE DEF first, next
  <1>13. Max({first, start}) = IF first >= start THEN first ELSE start
    BY <1>11, MaxOfTwo
  <1>14. end # None => Min({next, end}) = IF next <= end THEN next ELSE end
    BY <1>11, MinOfTwo
  <1>. QED
    BY <1>11, <1>12, <1>13, <1>14 DEF PeriodFits

-----------------------------------------------------------------------------
(* Requests and their locks *)

AskOK(ask) ==
  \/ AskDefinition(ask)
  \/ ask.op = "refresh" /\ ask.on \in SubscriptionIds /\ ask.of \in 0..Horizon
  \/ ask.op = "run" /\ ask.on \in SimulationIds

QueryOK(q) ==
  /\ q = [ask |-> q.ask, at |-> q.at, rows |-> q.rows, locks |-> q.locks, read |-> q.read]
  /\ AskOK(q.ask) /\ q.at \in Nat /\ q.rows \in Seq(Rows) /\ q.locks \subseteq Rows
  /\ q.read # None => q.rows = <<>>

RowsIn(rows) == {rows[i] : i \in DOMAIN rows}

\* The rows a request has locked or will have locked before it reads.
Held(q) == q.locks \union RowsIn(q.rows)

\* The lock that excludes its rivals.
Keeps(q) ==
  /\ q.ask.op = "publish meter version" => Measure(q.ask.on).meter \in Held(q)
  /\ q.ask.op \in {"cancel", "publish version", "archive version"} => q.ask.on \in Held(q)
  /\ q.ask.op = "refresh" /\ (q.read # None => q.read.state = "open") => q.ask.on \in Held(q)

RequestsInv ==
  /\ setting \in Settings /\ now \in 0..setting.until
  /\ request = [r \in Requests |-> request[r]]
  /\ \A r \in Open : QueryOK(request[r]) /\ Keeps(request[r])
  /\ \A r, o \in Open : r # o => request[r].locks \intersect request[o].locks = {}

\* What any step of a request may do to it.
Changes(r) ==
  /\ setting' = setting /\ now' = now /\ r \in Requests
  /\ request' = [request EXCEPT ![r] = request'[r]]
  /\ request'[r] # None =>
       /\ QueryOK(request'[r]) /\ Keeps(request'[r])
       /\ \A o \in Open \ {r} : request[o].locks \intersect request'[r].locks = {}

LEMMA ChangesPreserve ==
  ASSUME RequestsInv, NEW r, Changes(r)
  PROVE  RequestsInv'
  <1>1. \A o \in Requests \ {r} : request'[o] = request[o]
    BY DEF RequestsInv, Changes
  <1>2. request' = [o \in Requests |-> request'[o]]
    BY DEF RequestsInv, Changes
  <1>3. \A o \in Open' : o # r => o \in Open
    BY <1>1 DEF Open
  <1>4. \A o \in Open' : QueryOK(request'[o]) /\ Keeps(request'[o])
    <2>. SUFFICES ASSUME NEW o \in Open'
                  PROVE  QueryOK(request'[o]) /\ Keeps(request'[o])
      OBVIOUS
    <2>1. CASE o = r
      BY <2>1 DEF Changes, Open
    <2>2. CASE o # r
      <3>1. o \in Open /\ request'[o] = request[o]
        BY <1>1, <1>3, <2>2 DEF Open
      <3>. QED
        BY <3>1 DEF RequestsInv
    <2>. QED
      BY <2>1, <2>2
  <1>5. \A o \in Open' : QueryOK(request[o])' /\ Keeps(request[o])'
    BY <1>4 DEF Changes, QueryOK, AskOK, AskDefinition,
         MeterAsk, FeatureAsk, PlanAsk, CustomerAsk, SubscriptionAsk, ConfigureAsk, Keeps, Held, RowsIn, Measure
  <1>6. \A x, y \in Open' : x # y => request'[x].locks \intersect request'[y].locks = {}
    <2>. SUFFICES ASSUME NEW x \in Open', NEW y \in Open', x # y
                  PROVE  request'[x].locks \intersect request'[y].locks = {}
      OBVIOUS
    <2>1. CASE x # r /\ y # r
      BY <1>1, <1>3, <2>1 DEF RequestsInv, Open
    <2>2. CASE x = r
      <3>1. y \in Open \ {r} /\ request'[y] = request[y] /\ request'[r] # None
        BY <1>1, <1>3, <2>2 DEF Open
      <3>2. request[y].locks \intersect request'[r].locks = {}
        BY <3>1 DEF Changes
      <3>. QED
        BY <2>2, <3>1, <3>2
    <2>3. CASE y = r
      <3>1. x \in Open \ {r} /\ request'[x] = request[x] /\ request'[r] # None
        BY <1>1, <1>3, <2>3 DEF Open
      <3>2. request[x].locks \intersect request'[r].locks = {}
        BY <3>1 DEF Changes
      <3>. QED
        BY <2>3, <3>1, <3>2
    <2>. QED
      BY <2>1, <2>2, <2>3
  <1>. QED
    BY <1>2, <1>5, <1>6 DEF RequestsInv, Changes

LEMMA SettingFacts ==
  ASSUME setting \in Settings
  PROVE  /\ \A v \in Versions : Definition(v).plan \in Plans
         /\ \A m \in MeterVersions : Measure(m).meter \in Meters
         /\ \A s \in SubscriptionIds : SaleDefinition(Sale(s))
         /\ \A i \in SimulationIds : SimulationDefinition(Plan(i))
         /\ \A e \in Events : UsageDefinition(Usage(e))
         /\ \A ask \in setting.asks : AskDefinition(ask)
         /\ setting.until \in 0..Horizon
  <1>1. /\ \A v \in Versions : VersionDefinition(setting.version[v])
        /\ \A m \in MeterVersions : MeterVersionDefinition(setting.meterVersion[m])
        /\ setting.until \in 0..Horizon
    BY CatalogAssumption
  <1>2. \A s \in SubscriptionIds : SaleDefinition(setting.sale[s])
    BY SubscriptionsAssumption
  <1>3. /\ \A i \in SimulationIds : SimulationDefinition(setting.simulation[i])
        /\ \A e \in Events : UsageDefinition(setting.usage[e])
        /\ \A ask \in setting.asks : AskDefinition(ask)
    BY SimulationsAssumption
  <1>. QED
    BY <1>1, <1>2, <1>3
       DEF VersionDefinition, MeterVersionDefinition, Definition, Measure, Sale, Plan, Usage

LEMMA RowsExist ==
  /\ Plans \subseteq Rows /\ Versions \subseteq Rows /\ Meters \subseteq Rows
  /\ MeterVersions \subseteq Rows /\ Features \subseteq Rows /\ Customers \subseteq Rows
  /\ SubscriptionIds \subseteq Rows /\ SimulationIds \subseteq Rows
  BY CatalogAssumption, SubscriptionsAssumption, SimulationsAssumption

LEMMA RowsOfOne ==
  ASSUME NEW a \in Rows
  PROVE  <<a>> \in Seq(Rows) /\ RowsIn(<<a>>) = {a}
  <1>1. <<a>> \in Seq(Rows) /\ DOMAIN <<a>> = 1..1 /\ <<a>>[1] = a
    OBVIOUS
  <1>. QED
    BY <1>1 DEF RowsIn

LEMMA RowsOfTwo ==
  ASSUME NEW a \in Rows, NEW b \in Rows
  PROVE  <<a, b>> \in Seq(Rows) /\ a \in RowsIn(<<a, b>>) /\ b \in RowsIn(<<a, b>>)
  <1>1. <<a, b>> \in Seq(Rows) /\ 1 \in DOMAIN <<a, b>> /\ <<a, b>>[1] = a
        /\ 2 \in DOMAIN <<a, b>> /\ <<a, b>>[2] = b
    OBVIOUS
  <1>. QED
    BY <1>1 DEF RowsIn

LEMMA SaleRowsAreRows ==
  ASSUME setting \in Settings, NEW ask, AskDefinition(ask)
  PROVE  /\ SaleRows(ask) \in Seq(Rows)
         /\ ask.op = "publish meter version" => Measure(ask.on).meter \in RowsIn(SaleRows(ask))
         /\ ask.op \in {"cancel", "publish version", "archive version"} =>
              ask.on \in RowsIn(SaleRows(ask))
  <1>1. /\ \A v \in Versions : Definition(v).plan \in Plans
        /\ \A m \in MeterVersions : Measure(m).meter \in Meters
        /\ \A s \in SubscriptionIds : Sale(s).customer \in Customers /\ Sale(s).version \in Versions
    BY SettingFacts DEF SaleDefinition
  <1>2. CASE ask.op \in {"create meter", "create feature", "create plan", "create customer",
                         "attach subject", "simulate"}
    <2>1. SaleRows(ask) = <<>>
      BY <1>2 DEF SaleRows, RowsOf
    <2>. QED
      BY <1>2, <2>1, EmptySeq
  <1>3. CASE ask.op \in {"archive plan", "archive meter"}
    <2>1. SaleRows(ask) = <<ask.on>>
      BY <1>3 DEF SaleRows, RowsOf
    <2>2. ask.on \in Rows
      BY <1>3, RowsExist DEF AskDefinition,
           MeterAsk, FeatureAsk, PlanAsk, CustomerAsk, SubscriptionAsk, ConfigureAsk
    <2>. QED
      BY <1>3, <2>1, <2>2, RowsOfOne
  <1>4. CASE ask.op = "create version"
    <2>1. SaleRows(ask) = <<Definition(ask.on).plan>>
      BY <1>4 DEF SaleRows, RowsOf
    <2>2. ask.on \in Versions
      BY <1>4 DEF AskDefinition,
           MeterAsk, FeatureAsk, PlanAsk, CustomerAsk, SubscriptionAsk, ConfigureAsk
    <2>. QED
      BY <1>1, <1>4, <2>1, <2>2, RowsOfOne, RowsExist
  <1>5. CASE ask.op \in {"publish version", "archive version"}
    <2>1. SaleRows(ask) = <<Definition(ask.on).plan, ask.on>>
      BY <1>5 DEF SaleRows, RowsOf
    <2>2. ask.on \in Versions
      BY <1>5 DEF AskDefinition,
           MeterAsk, FeatureAsk, PlanAsk, CustomerAsk, SubscriptionAsk, ConfigureAsk
    <2>. QED
      BY <1>1, <1>5, <2>1, <2>2, RowsOfTwo, RowsExist
  <1>6. CASE ask.op = "create meter version"
    <2>1. SaleRows(ask) = <<Measure(ask.on).meter>>
      BY <1>6 DEF SaleRows, RowsOf
    <2>2. ask.on \in MeterVersions
      BY <1>6 DEF AskDefinition,
           MeterAsk, FeatureAsk, PlanAsk, CustomerAsk, SubscriptionAsk, ConfigureAsk
    <2>. QED
      BY <1>1, <1>6, <2>1, <2>2, RowsOfOne, RowsExist
  <1>7. CASE ask.op = "publish meter version"
    <2>1. SaleRows(ask) = <<Measure(ask.on).meter, ask.on>>
      BY <1>7 DEF SaleRows, RowsOf
    <2>2. ask.on \in MeterVersions
      BY <1>7 DEF AskDefinition,
           MeterAsk, FeatureAsk, PlanAsk, CustomerAsk, SubscriptionAsk, ConfigureAsk
    <2>. QED
      BY <1>1, <1>7, <2>1, <2>2, RowsOfTwo, RowsExist
  <1>8. CASE ask.op = "subscribe"
    <2>1. SaleRows(ask) = <<Sale(ask.on).customer>>
      BY <1>8 DEF SaleRows
    <2>2. ask.on \in SubscriptionIds
      BY <1>8 DEF AskDefinition,
           MeterAsk, FeatureAsk, PlanAsk, CustomerAsk, SubscriptionAsk, ConfigureAsk
    <2>. QED
      BY <1>1, <1>8, <2>1, <2>2, RowsOfOne, RowsExist
  <1>9. CASE ask.op = "cancel"
    <2> DEFINE a == ask.on
               b == Sale(ask.on).customer
               c == Sale(ask.on).version
               d == Definition(Sale(ask.on).version).plan
    <2>1. SaleRows(ask) = <<a, b, c, d>>
      BY <1>9 DEF SaleRows
    <2>2. ask.on \in SubscriptionIds
      BY <1>9 DEF AskDefinition,
           MeterAsk, FeatureAsk, PlanAsk, CustomerAsk, SubscriptionAsk, ConfigureAsk
    <2>3. a \in Rows /\ b \in Rows /\ c \in Rows /\ d \in Rows
      BY <1>1, <2>2, RowsExist
    <2> HIDE DEF a, b, c, d
    <2>4. <<a, b, c, d>> \in Seq(Rows) /\ 1 \in DOMAIN <<a, b, c, d>> /\ <<a, b, c, d>>[1] = a
      BY <2>3
    <2>5. a \in RowsIn(<<a, b, c, d>>)
      BY <2>4 DEF RowsIn
    <2>. QED
      BY <1>9, <2>1, <2>4, <2>5 DEF a
  <1>10. CASE ask.op = "configure"
    <2>1. SaleRows(ask) = <<ask.on, ask.of>>
      BY <1>10 DEF SaleRows
    <2>2. ask.on \in Rows /\ ask.of \in Rows
      BY <1>10, RowsExist DEF AskDefinition,
           MeterAsk, FeatureAsk, PlanAsk, CustomerAsk, SubscriptionAsk, ConfigureAsk
    <2>. QED
      BY <1>10, <2>1, <2>2, RowsOfTwo
  <1>. QED
    BY <1>2, <1>3, <1>4, <1>5, <1>6, <1>7, <1>8, <1>9, <1>10 DEF AskDefinition,
         MeterAsk, FeatureAsk, PlanAsk, CustomerAsk, SubscriptionAsk, ConfigureAsk

LEMMA NowIsNatural ==
  ASSUME RequestsInv
  PROVE  now \in Nat
  <1>1. setting.until \in 0..Horizon /\ now \in 0..setting.until
    BY SettingFacts DEF RequestsInv
  <1>2. Horizon \in Nat
    BY CatalogAssumption
  <1>. QED
    BY <1>1, <1>2

LEMMA ReceiveChanges ==
  ASSUME RequestsInv, NEW r \in Requests, NEW ask, NEW rows, Receive(r, ask, rows),
         AskOK(ask), rows \in Seq(Rows),
         ask.op = "publish meter version" => Measure(ask.on).meter \in RowsIn(rows),
         ask.op \in {"cancel", "refresh", "publish version", "archive version"} => ask.on \in RowsIn(rows)
  PROVE  Changes(r)
  <1> DEFINE q == [ask |-> ask, at |-> now, rows |-> rows, locks |-> {}, read |-> None]
  <1>1. request' = [request EXCEPT ![r] = q] /\ setting' = setting /\ now' = now
    BY DEF Receive
  <1>2. request'[r] = q
    BY <1>1 DEF RequestsInv
  <1>3. now \in Nat
    BY NowIsNatural
  <1>4. QueryOK(q)
    BY <1>3 DEF QueryOK
  <1>5. Keeps(q)
    BY DEF Keeps, Held
  <1>6. \A o \in Open \ {r} : request[o].locks \intersect q.locks = {}
    OBVIOUS
  <1> HIDE DEF q
  <1>. QED
    BY <1>1, <1>2, <1>4, <1>5, <1>6 DEF Changes

LEMMA FinishChanges ==
  ASSUME RequestsInv, NEW r \in Requests, Finish(r), setting' = setting, now' = now
  PROVE  Changes(r) /\ request'[r] = None
  BY DEF Finish, Changes, RequestsInv

LEMMA KeepChanges ==
  ASSUME RequestsInv, NEW r \in Open, NEW found, Keep(r, found), setting' = setting, now' = now,
         request[r].rows = <<>>, request[r].ask.op = "refresh" => request[r].read = None
  PROVE  /\ Changes(r)
         /\ request'[r] = [ask |-> request[r].ask, at |-> request[r].at, rows |-> <<>>,
                           locks |-> request[r].locks, read |-> found]
  <1> DEFINE p == request[r]
             q == [ask |-> p.ask, at |-> p.at, rows |-> <<>>, locks |-> p.locks, read |-> found]
  <1>1. QueryOK(p) /\ Keeps(p) /\ r \in Requests
    BY DEF RequestsInv, Open
  <1>2. request' = [request EXCEPT ![r] = [p EXCEPT !.read = found]]
    BY DEF Keep
  <1>3. [p EXCEPT !.read = found] = q
    BY <1>1 DEF QueryOK
  <1>4. request'[r] = q
    BY <1>1, <1>2, <1>3 DEF RequestsInv
  <1>5. QueryOK(q)
    BY <1>1 DEF QueryOK
  <1>6. Keeps(q)
    BY <1>1 DEF Keeps, Held
  <1>7. \A o \in Open \ {r} : request[o].locks \intersect q.locks = {}
    BY DEF RequestsInv
  <1> HIDE DEF q
  <1>8. request' = [request EXCEPT ![r] = request'[r]]
    BY <1>2, <1>3, <1>4
  <1>9. Changes(r)
    BY <1>1, <1>4, <1>5, <1>6, <1>7, <1>8 DEF Changes
  <1>. QED
    BY <1>4, <1>9 DEF q

LEMMA TakenRequest ==
  ASSUME NEW p, NEW x, NEW y,
         p = [ask |-> p.ask, at |-> p.at, rows |-> p.rows, locks |-> p.locks, read |-> None]
  PROVE  [p EXCEPT !.rows = x, !.locks = y]
           = [ask |-> p.ask, at |-> p.at, rows |-> x, locks |-> y, read |-> None]
  <1>1. PICK a, t, rows, locks : p = [ask |-> a, at |-> t, rows |-> rows, locks |-> locks, read |-> None]
    OBVIOUS
  <1>2. [p EXCEPT !.rows = x] = [ask |-> a, at |-> t, rows |-> x, locks |-> locks, read |-> None]
    BY <1>1
  <1>3. [[ask |-> a, at |-> t, rows |-> x, locks |-> locks, read |-> None] EXCEPT !.locks = y]
          = [ask |-> a, at |-> t, rows |-> x, locks |-> y, read |-> None]
    OBVIOUS
  <1>4. p.ask = a /\ p.at = t
    BY <1>1
  <1>. QED
    BY <1>2, <1>3, <1>4

LEMMA TakeChanges ==
  ASSUME RequestsInv, NEW r \in Open, NEW rows, Take(r, rows)
  PROVE  /\ Changes(r)
         /\ request[r].read = None
         /\ request'[r] = [ask |-> request[r].ask, at |-> request[r].at,
                           rows |-> Tail(request[r].rows),
                           locks |-> request[r].locks \union {Head(request[r].rows)}, read |-> None]
         /\ Head(request[r].rows) \in rows
  <1> DEFINE p == request[r]
             q == [ask |-> p.ask, at |-> p.at, rows |-> Tail(p.rows),
                   locks |-> p.locks \union {Head(p.rows)}, read |-> None]
  <1>1. QueryOK(p) /\ Keeps(p) /\ r \in Requests
    BY DEF RequestsInv, Open
  <1>2. request' = [request EXCEPT ![r] = [p EXCEPT !.rows = Tail(@), !.locks = @ \union {Head(p.rows)}]]
        /\ setting' = setting /\ now' = now /\ p.rows # <<>> /\ RowsIn(p.rows) \subseteq rows
        /\ Free({Head(p.rows)}, r)
    BY DEF Take, RowsIn
  <1>3. p.read = None
    BY <1>1, <1>2 DEF QueryOK
  <1>4. [p EXCEPT !.rows = Tail(@), !.locks = @ \union {Head(p.rows)}] = q
    <2>1. p = [ask |-> p.ask, at |-> p.at, rows |-> p.rows, locks |-> p.locks, read |-> None]
      BY <1>1, <1>3 DEF QueryOK
    <2>. QED
      BY <2>1, TakenRequest
  <1>5. request'[r] = q
    BY <1>1, <1>2, <1>4 DEF RequestsInv
  <1>6. p.rows \in Seq(Rows) /\ Len(p.rows) \in Nat /\ Len(p.rows) # 0
        /\ DOMAIN p.rows = 1..Len(p.rows)
    BY <1>1, <1>2, EmptySeq, LenProperties DEF QueryOK
  <1>7. Head(p.rows) = p.rows[1] /\ 1 \in DOMAIN p.rows /\ Tail(p.rows) \in Seq(Rows)
        /\ Head(p.rows) \in Rows
    <2>1. Head(p.rows) = p.rows[1] /\ Tail(p.rows) \in Seq(Rows) /\ Head(p.rows) \in Rows
      BY <1>2, <1>6, HeadTailProperties
    <2>. QED
      BY <1>6, <2>1
  <1>8. QueryOK(q)
    BY <1>1, <1>7 DEF QueryOK
  <1>9. Held(p) \subseteq Held(q)
    <2>. SUFFICES ASSUME NEW x \in RowsIn(p.rows) PROVE x \in {Head(p.rows)} \union RowsIn(Tail(p.rows))
      BY DEF Held
    <2>1. PICK i \in 1..Len(p.rows) : x = p.rows[i]
      BY <1>6 DEF RowsIn
    <2>2. CASE i = 1
      BY <1>7, <2>1, <2>2
    <2>3. CASE i # 1
      <3>1. Len(Tail(p.rows)) = Len(p.rows) - 1
            /\ \A j \in 1..Len(Tail(p.rows)) : Tail(p.rows)[j] = p.rows[j + 1]
        BY <1>2, <1>6, HeadTailProperties
      <3>2. i - 1 \in 1..Len(Tail(p.rows)) /\ (i - 1) + 1 = i
        BY <1>6, <2>3, <3>1
      <3>3. Tail(p.rows)[i - 1] = x
        BY <2>1, <3>1, <3>2
      <3>4. DOMAIN Tail(p.rows) = 1..Len(Tail(p.rows))
        BY <1>7, LenProperties
      <3>. QED
        BY <3>2, <3>3, <3>4 DEF RowsIn
    <2>. QED
      BY <2>2, <2>3
  <1>10. Keeps(q)
    BY <1>1, <1>3, <1>9 DEF Keeps
  <1>11. \A o \in Open \ {r} : request[o].locks \intersect q.locks = {}
    BY <1>2 DEF RequestsInv, Free
  <1>12. Head(p.rows) \in rows
    BY <1>2, <1>7 DEF RowsIn
  <1> HIDE DEF q
  <1>13. request' = [request EXCEPT ![r] = request'[r]]
    BY <1>2, <1>4, <1>5
  <1>14. Changes(r)
    BY <1>1, <1>2, <1>5, <1>8, <1>10, <1>11, <1>13 DEF Changes
  <1>. QED
    BY <1>3, <1>5, <1>12, <1>14 DEF q

\* A request that gives its locks back and changes what it has found.
LEMMA ReleaseChanges ==
  ASSUME RequestsInv, NEW r \in Open, NEW found, setting' = setting, now' = now,
         request' = [request EXCEPT ![r] = [ask |-> @.ask, at |-> @.at, rows |-> <<>>,
                                            locks |-> {}, read |-> found]],
         \/ request[r].ask.op = "run"
         \/ request[r].ask.op = "refresh" /\ found # None /\ found.state # "open"
  PROVE  /\ Changes(r)
         /\ request'[r] = [ask |-> request[r].ask, at |-> request[r].at, rows |-> <<>>,
                           locks |-> {}, read |-> found]
  <1> DEFINE p == request[r]
             q == [ask |-> p.ask, at |-> p.at, rows |-> <<>>, locks |-> {}, read |-> found]
  <1>1. QueryOK(p) /\ r \in Requests
    BY DEF RequestsInv, Open
  <1>2. request' = [request EXCEPT ![r] = q]
    OBVIOUS
  <1>3. request'[r] = q
    BY <1>1, <1>2 DEF RequestsInv
  <1>4. QueryOK(q)
    <2>1. <<>> \in Seq(Rows)
      BY EmptySeq
    <2>. QED
      BY <1>1, <2>1 DEF QueryOK
  <1>5. Keeps(q)
    BY DEF Keeps
  <1>6. \A o \in Open \ {r} : request[o].locks \intersect q.locks = {}
    OBVIOUS
  <1> HIDE DEF q
  <1>7. request' = [request EXCEPT ![r] = request'[r]]
    BY <1>2, <1>3
  <1>8. Changes(r)
    BY <1>1, <1>3, <1>4, <1>5, <1>6, <1>7 DEF Changes
  <1>. QED
    BY <1>3, <1>8 DEF q

LEMMA ReleasedRequest ==
  ASSUME NEW p, NEW l,
         p = [ask |-> p.ask, at |-> p.at, rows |-> p.rows, locks |-> p.locks, read |-> p.read]
  PROVE  [p EXCEPT !.locks = l]
           = [ask |-> p.ask, at |-> p.at, rows |-> p.rows, locks |-> l, read |-> p.read]
  <1>1. PICK a, t, rows, locks, found :
          p = [ask |-> a, at |-> t, rows |-> rows, locks |-> locks, read |-> found]
    OBVIOUS
  <1>2. [p EXCEPT !.locks = l] = [ask |-> a, at |-> t, rows |-> rows, locks |-> l, read |-> found]
    BY <1>1
  <1>3. p.ask = a /\ p.at = t /\ p.rows = rows /\ p.read = found
    BY <1>1
  <1>. QED
    BY <1>2, <1>3

LEMMA AnsweredRequest ==
  ASSUME NEW p, NEW x,
         p = [ask |-> p.ask, at |-> p.at, rows |-> p.rows, locks |-> p.locks, read |-> p.read]
  PROVE  [p EXCEPT !.read = x]
           = [ask |-> p.ask, at |-> p.at, rows |-> p.rows, locks |-> p.locks, read |-> x]
  <1>1. PICK a, t, rows, locks, found :
          p = [ask |-> a, at |-> t, rows |-> rows, locks |-> locks, read |-> found]
    OBVIOUS
  <1>2. [p EXCEPT !.read = x] = [ask |-> a, at |-> t, rows |-> rows, locks |-> locks, read |-> x]
    BY <1>1
  <1>3. p.ask = a /\ p.at = t /\ p.rows = rows /\ p.locks = locks
    BY <1>1
  <1>. QED
    BY <1>2, <1>3

LEMMA RefreshReleases ==
  ASSUME RequestsInv, NEW r \in Open, Refresh(r), request[r].read \in Reading
  PROVE  \E v \in {"done", "failed"} :
           /\ request'[r] = [ask |-> request[r].ask, at |-> request[r].at, rows |-> <<>>,
                             locks |-> {}, read |-> [request[r].read EXCEPT !.state = v]]
           /\ [request[r].read EXCEPT !.state = v] \in Reading
           /\ [request[r].read EXCEPT !.state = v].state = v
           /\ (v = "done") <=> Taken(Granted(request[r].ask.on, request[r].read.period))
                                 \subseteq entitlement
           /\ Changes(r)
  <1> DEFINE p == request[r]
             foreign == Taken(Granted(p.ask.on, p.read.period)) \ entitlement
  <1>1. PICK v \in {"done", "failed"} :
          /\ request' = [request EXCEPT ![r].locks = {}, ![r].read.state = v]
          /\ v = "done" <=> foreign = {}
    <2>1. CASE foreign = {}
      BY <2>1 DEF Refresh, Foreign
    <2>2. CASE foreign # {}
      BY <2>2 DEF Refresh, Foreign
    <2>. QED
      BY <2>1, <2>2
  <1>2. QueryOK(p) /\ r \in Requests /\ p.ask.op = "refresh" /\ p.rows = <<>>
        /\ setting' = setting /\ now' = now
    BY NoSubscriptionAssumption DEF RequestsInv, Open, Refresh, Writes, QueryOK
  <1> DEFINE found == [p.read EXCEPT !.state = v]
             q == [ask |-> p.ask, at |-> p.at, rows |-> <<>>, locks |-> {}, read |-> found]
  <1>3. found \in Reading /\ found.state = v
    BY DEF Reading
  <1>4. request' = [request EXCEPT ![r] = q]
    <2>1. PICK l : l = [p EXCEPT !.locks = {}]
      OBVIOUS
    <2>2. l = [ask |-> p.ask, at |-> p.at, rows |-> <<>>, locks |-> {}, read |-> p.read]
      BY <1>2, <2>1, ReleasedRequest DEF QueryOK
    <2>3. request' = [request EXCEPT ![r] = [l EXCEPT !.read = found]]
      BY <1>1, <1>2, <2>1, <2>2 DEF RequestsInv
    <2>4. [l EXCEPT !.read = found] = q
      <3>1. l = [ask |-> l.ask, at |-> l.at, rows |-> l.rows, locks |-> l.locks, read |-> l.read]
        BY <2>2
      <3>2. l.ask = p.ask /\ l.at = p.at /\ l.rows = <<>> /\ l.locks = {}
        BY <2>2
      <3> HIDE DEF p, found
      <3>3. [l EXCEPT !.read = found]
              = [ask |-> l.ask, at |-> l.at, rows |-> l.rows, locks |-> l.locks, read |-> found]
        BY <3>1, AnsweredRequest
      <3>. QED
        BY <3>2, <3>3
    <2>. QED
      BY <2>3, <2>4
  <1>5. found # None /\ found.state # "open"
    BY <1>3, NoSubscriptionAssumption
  <1> HIDE DEF found
  <1>6. Changes(r) /\ request'[r] = q
    BY <1>2, <1>4, <1>5, ReleaseChanges
  <1>. QED
    BY <1>1, <1>3, <1>6 DEF found


-----------------------------------------------------------------------------
(* What requests have read, and what they refer to *)

Run ==
  [versions: SUBSET MeterVersions, todo: SUBSET Customers,
   results: [Customers -> Result \union {None}], failed: BOOLEAN]

ReadOK(q) ==
  /\ q.ask.op = "publish meter version" => q.read \in {"draft", "published", None}
  /\ q.ask.op = "refresh" => q.read \in Reading \union {None}
  /\ q.ask.op = "simulate" => q.read \in Simulation \union {None}
  /\ q.ask.op = "run" => q.read \in Run \union {None}

\* The versions that a simulation compares are there.
Charged(i) == version[Plan(i).baseline] # None /\ version[Plan(i).candidate] # None

Refers(q) ==
  /\ q.ask.op = "refresh" => q.ask.on \in Sold
  /\ q.ask.op = "cancel" /\ q.ask.on \in q.locks => q.ask.on \in Sold
  /\ q.ask.op \in {"publish version", "archive version"} /\ q.ask.on \in q.locks =>
       version[q.ask.on] # None
  /\ q.ask.op = "simulate" /\ q.read # None => Charged(q.ask.on)
  /\ q.ask.op = "run" => simulation[q.ask.on] # None

StateOK ==
  /\ plan \in [Plans -> {"active", "archived", None}]
  /\ version \in [Versions -> {"draft", "published", "archived", None}]
  /\ meter \in [Meters -> {"draft", "active", "archived", None}]
  /\ meterVersion \in [MeterVersions -> {"draft", "published", None}]
  /\ feature \subseteq Features
  /\ subject \in [Subjects -> Customers \union {None}]
  /\ rebuild \subseteq MeterVersions
  /\ subscription \in [SubscriptionIds -> Subscription \union {None}]
  /\ entitlement \subseteq Entitlement
  /\ renewal \subseteq Renewal
  /\ simulation \in [SimulationIds -> Simulation \union {None}]
  /\ received \in [Events -> Nat \union {None}]
  /\ redacted \subseteq Stored

\* What is on sale has valid prices, jobs are those of a subscription, and the versions of a
\* simulation stay.
LinksOK ==
  /\ \A v \in Versions : version[v] # None => Priced(Definition(v).components)
  /\ \A j \in renewal : j.of \in Sold
  /\ \A i \in SimulationIds : simulation[i] # None => Charged(i)

TypeInv ==
  /\ RequestsInv /\ StateOK /\ LinksOK
  /\ \A r \in Open : ReadOK(request[r]) /\ Refers(request[r])

\* Rows are never deleted.
Grows ==
  /\ Sold \subseteq Sold'
  /\ \A i \in SimulationIds : simulation[i] # None => simulation'[i] # None
  /\ \A v \in Versions : version[v] # None => version'[v] # None

LEMMA OpenRequest ==
  ASSUME TypeInv, NEW r \in Open
  PROVE  /\ r \in Requests /\ request[r] # None /\ QueryOK(request[r]) /\ Keeps(request[r])
         /\ ReadOK(request[r]) /\ Refers(request[r]) /\ setting \in Settings
         /\ AskOK(request[r].ask)
  BY DEF TypeInv, RequestsInv, Open, QueryOK

LEMMA OthersStay ==
  ASSUME RequestsInv, NEW r, Changes(r), NEW o \in Open', o # r
  PROVE  o \in Open /\ request'[o] = request[o]
  BY DEF RequestsInv, Changes, Open

LEMMA RefersStays ==
  ASSUME setting' = setting, setting \in Settings, Grows, NEW p, NEW q, AskOK(p.ask), Refers(p),
         q.ask = p.ask, q.locks \subseteq p.locks,
         q.ask.op = "simulate" /\ q.read # None => p.read # None
  PROVE  Refers(q)'
  <1>1. q.ask.op = "refresh" => q.ask.on \in Sold'
    BY DEF Refers, Grows
  <1>2. q.ask.op = "cancel" /\ q.ask.on \in q.locks => q.ask.on \in Sold'
    BY DEF Refers, Grows
  <1>3. q.ask.op = "simulate" /\ q.read # None => Charged(q.ask.on)'
    <2>. SUFFICES ASSUME q.ask.op = "simulate", q.read # None PROVE Charged(q.ask.on)'
      OBVIOUS
    <2>1. q.ask.on \in SimulationIds
      BY DEF AskOK, AskDefinition,
           MeterAsk, FeatureAsk, PlanAsk, CustomerAsk, SubscriptionAsk, ConfigureAsk
    <2>2. Plan(q.ask.on).baseline \in Versions /\ Plan(q.ask.on).candidate \in Versions
      BY <2>1, SettingFacts DEF SimulationDefinition
    <2>3. Charged(q.ask.on)
      BY DEF Refers
    <2>. QED
      BY <2>2, <2>3 DEF Charged, Grows, Plan
  <1>4. q.ask.op = "run" => simulation'[q.ask.on] # None
    <2>. SUFFICES ASSUME q.ask.op = "run" PROVE simulation'[q.ask.on] # None
      OBVIOUS
    <2>1. q.ask.on \in SimulationIds
      BY DEF AskOK, AskDefinition,
           MeterAsk, FeatureAsk, PlanAsk, CustomerAsk, SubscriptionAsk, ConfigureAsk
    <2>. QED
      BY <2>1 DEF Refers, Grows
  <1>5. q.ask.op \in {"publish version", "archive version"} /\ q.ask.on \in q.locks =>
          version'[q.ask.on] # None
    <2>. SUFFICES ASSUME q.ask.op \in {"publish version", "archive version"}, q.ask.on \in q.locks
                  PROVE  version'[q.ask.on] # None
      OBVIOUS
    <2>1. q.ask.on \in Versions
      BY DEF AskOK, AskDefinition,
           MeterAsk, FeatureAsk, PlanAsk, CustomerAsk, SubscriptionAsk, ConfigureAsk
    <2>. QED
      BY <2>1 DEF Refers, Grows
  <1>. QED
    BY <1>1, <1>2, <1>3, <1>4, <1>5 DEF Refers

LEMMA ReadsStay ==
  ASSUME TypeInv, NEW r, Changes(r), Grows, NEW q, request'[r] = q,
         q # None => ReadOK(q) /\ Refers(q)'
  PROVE  \A o \in Open' : (ReadOK(request[o]) /\ Refers(request[o]))'
  <1>. SUFFICES ASSUME NEW o \in Open' PROVE (ReadOK(request[o]) /\ Refers(request[o]))'
    OBVIOUS
  <1>1. CASE o = r
    <2>1. q # None
      BY <1>1 DEF Open
    <2>. QED
      BY <1>1, <2>1 DEF ReadOK, Refers
  <1>2. CASE o # r
    <2>1. o \in Open /\ request'[o] = request[o]
      BY <1>2, OthersStay DEF TypeInv
    <2>2. PICK p : p = request[o]
      OBVIOUS
    <2>3. ReadOK(p) /\ Refers(p) /\ AskOK(p.ask) /\ setting' = setting /\ setting \in Settings
      BY <2>1, <2>2, OpenRequest DEF Changes
    <2>4. Refers(p)'
      BY <2>3, RefersStays
    <2>. QED
      BY <2>1, <2>2, <2>3, <2>4 DEF ReadOK, Refers
  <1>. QED
    BY <1>1, <1>2

-----------------------------------------------------------------------------
(* Catalog requests *)

LEMMA WordsAreSome ==
  /\ "draft" # None /\ "published" # None /\ "archived" # None /\ "active" # None
  /\ None \notin Nat
  BY CatalogAssumption

LEMMA NothingWaits ==
  ASSUME NEW q, q.rows = <<>>
  PROVE  Held(q) = q.locks
  <1>1. DOMAIN q.rows = {}
    OBVIOUS
  <1>. QED
    BY <1>1 DEF Held, RowsIn

LEMMA KeptTypes ==
  ASSUME TypeInv, NEW r \in Open, NEW found, Keep(r, found), setting' = setting, now' = now,
         request[r].rows = <<>>, request[r].read = None \/ request[r].ask.op = "run"
  PROVE  /\ Changes(r) /\ QueryOK(request[r])
         /\ request'[r] = [ask |-> request[r].ask, at |-> request[r].at, rows |-> <<>>,
                           locks |-> request[r].locks, read |-> found]
  BY KeepChanges DEF TypeInv, RequestsInv

\* A catalog request answers, unless it keeps the version it is going to publish.
LEMMA CatalogChanges ==
  ASSUME TypeInv, NEW r \in Open, CatalogStep(r)
  PROVE  /\ Changes(r)
         /\ \/ request'[r] = None
            \/ /\ LookForOverlap(r)
               /\ request'[r] = [ask |-> request[r].ask, at |-> request[r].at, rows |-> <<>>,
                                 locks |-> request[r].locks,
                                 read |-> meterVersion[request[r].ask.on]]
  <1>1. CASE LookForOverlap(r)
    <2>1. Keep(r, meterVersion[request[r].ask.on]) /\ setting' = setting /\ now' = now
          /\ request[r].rows = <<>> /\ request[r].read = None
      BY <1>1 DEF LookForOverlap, Reads
    <2>. QED
      BY <1>1, <2>1, KeptTypes
  <1>2. CASE ~LookForOverlap(r)
    <2>1. Finish(r) /\ setting' = setting /\ now' = now
      BY <1>2 DEF CatalogStep, CreateMeter, ArchiveMeter, CreateMeterVersion, PublishMeterVersion,
                  CreateFeature, CreatePlan, ArchivePlan, CreateVersion, PublishVersion,
                  ArchiveVersion, SetVersion, CreateCustomer, AttachSubject
    <2>. QED
      BY <2>1, FinishChanges DEF TypeInv, Open
  <1>. QED
    BY <1>1, <1>2

LEMMA CatalogStepTypes ==
  ASSUME TypeInv, NEW r \in Open, CatalogStep(r)
  PROVE  /\ plan' \in [Plans -> {"active", "archived", None}]
         /\ version' \in [Versions -> {"draft", "published", "archived", None}]
         /\ meter' \in [Meters -> {"draft", "active", "archived", None}]
         /\ meterVersion' \in [MeterVersions -> {"draft", "published", None}]
         /\ feature' \subseteq Features
         /\ subject' \in [Subjects -> Customers \union {None}]
         /\ rebuild' \subseteq MeterVersions
  <1> DEFINE Goal ==
         /\ plan' \in [Plans -> {"active", "archived", None}]
         /\ version' \in [Versions -> {"draft", "published", "archived", None}]
         /\ meter' \in [Meters -> {"draft", "active", "archived", None}]
         /\ meterVersion' \in [MeterVersions -> {"draft", "published", None}]
         /\ feature' \subseteq Features
         /\ subject' \in [Subjects -> Customers \union {None}]
         /\ rebuild' \subseteq MeterVersions
  <1>1. /\ plan \in [Plans -> {"active", "archived", None}]
        /\ version \in [Versions -> {"draft", "published", "archived", None}]
        /\ meter \in [Meters -> {"draft", "active", "archived", None}]
        /\ meterVersion \in [MeterVersions -> {"draft", "published", None}]
        /\ feature \subseteq Features
        /\ subject \in [Subjects -> Customers \union {None}]
        /\ rebuild \subseteq MeterVersions
    BY DEF TypeInv, StateOK
  <1>2. AskOK(request[r].ask)
    BY OpenRequest
  <1>3. CASE CreateMeter(r)
    BY <1>1, <1>3 DEF CreateMeter, Meter
  <1>4. CASE ArchiveMeter(r)
    BY <1>1, <1>4 DEF ArchiveMeter, Meter
  <1>5. CASE CreateMeterVersion(r)
    BY <1>1, <1>5 DEF CreateMeterVersion
  <1>6. CASE LookForOverlap(r)
    BY <1>1, <1>6 DEF LookForOverlap, catalog
  <1>7. CASE PublishMeterVersion(r)
    <2>1. request[r].ask.on \in MeterVersions
      BY <1>2, <1>7 DEF PublishMeterVersion, Writes, AskOK, AskDefinition,
           MeterAsk, FeatureAsk, PlanAsk, CustomerAsk, SubscriptionAsk, ConfigureAsk
    <2>2. rebuild' \subseteq MeterVersions
      BY <1>1, <1>7, <2>1 DEF PublishMeterVersion
    <2>. QED
      BY <1>1, <1>7, <2>2 DEF PublishMeterVersion, Meter
  <1>8. CASE CreateFeature(r)
    <2>1. request[r].ask.on \in Features
      BY <1>2, <1>8 DEF CreateFeature, Reads, AskOK, AskDefinition,
           MeterAsk, FeatureAsk, PlanAsk, CustomerAsk, SubscriptionAsk, ConfigureAsk
    <2>. QED
      BY <1>1, <1>8, <2>1 DEF CreateFeature
  <1>9. CASE CreatePlan(r) \/ ArchivePlan(r)
    BY <1>1, <1>9 DEF CreatePlan, ArchivePlan
  <1>10. CASE CreateVersion(r) \/ PublishVersion(r) \/ ArchiveVersion(r)
    BY <1>1, <1>10 DEF CreateVersion, PublishVersion, ArchiveVersion, SetVersion
  <1>11. CASE CreateCustomer(r)
    <2>1. request[r].ask.on \in Customers
      BY <1>2, <1>11 DEF CreateCustomer, Reads, AskOK, AskDefinition,
           MeterAsk, FeatureAsk, PlanAsk, CustomerAsk, SubscriptionAsk, ConfigureAsk
    <2>. QED
      BY <1>1, <1>11, <2>1 DEF CreateCustomer
  <1>12. CASE AttachSubject(r)
    <2>1. request[r].ask.of \in Customers
      BY <1>12 DEF AttachSubject, Known
    <2>. QED
      BY <1>1, <1>12, <2>1 DEF AttachSubject
  <1>. QED
    BY <1>3, <1>4, <1>5, <1>6, <1>7, <1>8, <1>9, <1>10, <1>11, <1>12 DEF CatalogStep

\* A version is created with valid prices, and stays.
LEMMA CatalogStepVersions ==
  ASSUME TypeInv, NEW r \in Open, CatalogStep(r)
  PROVE  /\ \A v \in Versions : version[v] # None => version'[v] # None
         /\ \A v \in Versions : version'[v] # None => Priced(Definition(v).components)
  <1>1. version \in [Versions -> {"draft", "published", "archived", None}]
        /\ (\A v \in Versions : version[v] # None => Priced(Definition(v).components))
        /\ setting \in Settings
    BY DEF TypeInv, StateOK, LinksOK, RequestsInv
  <1>2. "draft" # None /\ "published" # None /\ "archived" # None
    BY WordsAreSome
  <1>3. CASE CreateVersion(r)
    <2>1. PICK n : n = request[r].ask.on
      OBVIOUS
    <2>2. n \in Versions
      BY <1>3, <2>1, OpenRequest DEF CreateVersion, Reads, AskOK, AskDefinition,
           MeterAsk, FeatureAsk, PlanAsk, CustomerAsk, SubscriptionAsk, ConfigureAsk
    <2>3. version' = [version EXCEPT ![n] = "draft"] /\ \A c \in Components(n) : ValidPrice(c.price)
      BY <1>3, <2>1 DEF CreateVersion
    <2>4. VersionDefinition(Definition(n))
      BY <1>1, <2>2, CatalogAssumption DEF Definition
    <2>5. Priced(Definition(n).components)
      BY <2>3, <2>4 DEF Priced, VersionDefinition, Components
    <2>. QED
      BY <1>1, <1>2, <2>2, <2>3, <2>5
  <1>4. CASE PublishVersion(r) \/ ArchiveVersion(r)
    <2>1. PICK n \in Versions, status \in {"published", "archived"} :
            version' = [version EXCEPT ![n] = status] /\ version[n] # None
      <3>1. PICK v : v = request[r].ask.on
        OBVIOUS
      <3>4. v \in Versions /\ v \in request[r].locks /\ version[v] # None
        <4>1. request[r].ask.op \in {"publish version", "archive version"} /\ request[r].rows = <<>>
          BY <1>4 DEF PublishVersion, ArchiveVersion, Reads
        <4>2. AskOK(request[r].ask) /\ Keeps(request[r]) /\ Refers(request[r])
          BY OpenRequest
        <4>. QED
          BY <3>1, <4>1, <4>2, NothingWaits DEF AskOK, AskDefinition,
               MeterAsk, FeatureAsk, PlanAsk, CustomerAsk, SubscriptionAsk, ConfigureAsk, Keeps, Refers
      <3>2. CASE PublishVersion(r)
        <4>1. version' = [version EXCEPT ![v] = "published"]
          BY <3>1, <3>2 DEF PublishVersion, SetVersion
        <4>2. \E status \in {"published", "archived"} : version' = [version EXCEPT ![v] = status]
          BY <4>1
        <4>. QED
          BY <3>4, <4>2
      <3>3. CASE ArchiveVersion(r)
        <4>1. version' = [version EXCEPT ![v] = "archived"]
          BY <3>1, <3>3 DEF ArchiveVersion, SetVersion
        <4>2. \E status \in {"published", "archived"} : version' = [version EXCEPT ![v] = status]
          BY <4>1
        <4>. QED
          BY <3>4, <4>2
      <3>. QED
        BY <1>4, <3>2, <3>3
    <2>. QED
      BY <1>1, <1>2, <2>1
  <1>5. CASE ~(CreateVersion(r) \/ PublishVersion(r) \/ ArchiveVersion(r))
    <2>1. version' = version
      BY <1>5 DEF CatalogStep, CreateMeter, ArchiveMeter, CreateMeterVersion, LookForOverlap,
                  PublishMeterVersion, CreateFeature, CreatePlan, ArchivePlan, CreateCustomer,
                  AttachSubject, catalog
    <2>. QED
      BY <1>1, <2>1
  <1>. QED
    BY <1>3, <1>4, <1>5

-----------------------------------------------------------------------------
(* Requests about subscriptions *)

\* What a step leaves of a request that goes on.
Goes(p, q) ==
  /\ ReadOK(q) /\ q.ask = p.ask /\ q.locks \subseteq p.locks
  /\ q.ask.op \in {"subscribe", "refresh", "run"}

LEMMA GoesOn ==
  ASSUME NEW p, NEW q, NEW at, NEW rows, NEW locks, NEW found,
         q = [ask |-> p.ask, at |-> at, rows |-> rows, locks |-> locks, read |-> found],
         locks \subseteq p.locks,
         p.ask.op \in {"subscribe", "refresh", "run"},
         p.ask.op = "refresh" => found \in Reading \union {None},
         p.ask.op = "run" => found \in Run \union {None}
  PROVE  Goes(p, q)
  <1>1. q.ask = p.ask /\ q.locks = locks /\ q.read = found
    OBVIOUS
  <1>. QED
    BY <1>1 DEF Goes, ReadOK

LEMMA SalePeriods ==
  ASSUME setting \in Settings, NEW s \in SubscriptionIds, NEW at \in Nat,
         at <= Horizon \/ at = Sale(s).start, Sale(s).start <= at, NEW end \in Nat \union {None}
  PROVE  LET period == PeriodAt(at, Sale(s).anchor, Sale(s).start, end)
         IN /\ PeriodFits(period, at, Sale(s).start, end)
            /\ Anniversary(Sale(s).anchor, period.next)
            /\ Anniversary(Sale(s).anchor, at) => period.start = at
  <1>1. PICK start \in Nat : start = Sale(s).start
    BY SettingFacts DEF SaleDefinition
  <1>2. PICK anchor \in Nat : anchor = Sale(s).anchor /\ anchor <= start
    BY <1>1, SettingFacts DEF SaleDefinition
  <1>3. Horizon < FirstDay(Months) /\ start < FirstDay(Months) /\ Horizon \in Nat
    BY <1>1, CalendarAssumption, CatalogAssumption DEF Months, Sale
  <1>4. FirstDay(Months) \in Nat
    <2>1. CASE Months = 0
      <3>1. 1..(0 - 1) = {}
        OBVIOUS
      <3>. QED
        BY <2>1, <3>1, SumOfNone DEF FirstDay, SumOver
    <2>2. CASE Months # 0
      <3>1. Months \in 1..(Months + 1)
        BY <2>2, CalendarFacts
      <3>. QED
        BY <3>1, FirstDays
    <2>. QED
      BY <2>1, <2>2
  <1>5. start <= at /\ at < FirstDay(Months)
    BY <1>1, <1>3, <1>4
  <1>6. /\ PeriodFits(PeriodAt(at, anchor, start, end), at, start, end)
        /\ Anniversary(anchor, PeriodAt(at, anchor, start, end).next)
        /\ Anniversary(anchor, at) => PeriodAt(at, anchor, start, end).start = at
    BY <1>2, <1>5, PeriodContains
  <1>. QED
    BY <1>1, <1>2, <1>6

LEMMA FirstPeriod ==
  ASSUME setting \in Settings, NEW s \in SubscriptionIds
  PROVE  LET period == PeriodAt(Sale(s).start, Sale(s).anchor, Sale(s).start, Sale(s).end)
         IN /\ period \in [start: Nat, end: Nat, next: Nat]
            /\ period.start = Sale(s).start /\ Sale(s).start < period.next
            /\ period.end = IF Sale(s).end # None /\ Sale(s).end <= period.next
                            THEN Sale(s).end ELSE period.next
            /\ Anniversary(Sale(s).anchor, period.next)
  <1>1. PICK start \in Nat, end \in Nat \union {None} : start = Sale(s).start /\ end = Sale(s).end
    BY SettingFacts DEF SaleDefinition
  <1> DEFINE period == PeriodAt(start, Sale(s).anchor, Sale(s).start, end)
  <1>2. Sale(s).start <= start
    BY <1>1
  <1>3. PeriodFits(period, start, Sale(s).start, end) /\ Anniversary(Sale(s).anchor, period.next)
    BY <1>1, <1>2, SalePeriods
  <1> HIDE DEF period
  <1>4. period.start = start
    BY <1>1, <1>3 DEF PeriodFits
  <1>. QED
    BY <1>1, <1>3, <1>4 DEF period, PeriodFits

LEMMA EntitledFeatures ==
  ASSUME setting \in Settings, NEW v \in Versions
  PROVE  Entitled(v) \subseteq Features
  <1>1. VersionDefinition(Definition(v))
    BY CatalogAssumption DEF Definition
  <1>2. \A c \in Components(v) : ComponentDefinition(c)
    BY <1>1 DEF VersionDefinition, Components
  <1>. QED
    BY <1>2 DEF Entitled, ComponentDefinition

LEMMA GrantsAreTyped ==
  ASSUME setting \in Settings, NEW s \in SubscriptionIds,
         NEW period \in [start: Nat, end: Nat, next: Nat]
  PROVE  Granted(s, period) \subseteq Entitlement
  <1>1. Sale(s).customer \in Customers /\ Sale(s).version \in Versions
    BY SettingFacts DEF SaleDefinition
  <1>2. Entitled(Sale(s).version) \subseteq Features
    BY <1>1, EntitledFeatures
  <1>. QED
    BY <1>1, <1>2 DEF Granted, Entitlement

LEMMA RenewalsAreTyped ==
  ASSUME NEW s \in SubscriptionIds, NEW period \in [start: Nat, end: Nat, next: Nat], NEW end
  PROVE  /\ NextRenewal(s, period, end) \subseteq Renewal
         /\ \A j \in NextRenewal(s, period, end) :
              j.of = s /\ j.at = period.next /\ j.state = "queued" /\ Before(period.next, end)
         /\ Before(period.next, end) /\ (\A j \in renewal : j.of = s => j.at # period.next) =>
              \E j \in NextRenewal(s, period, end) : j.at = period.next
  <1>1. PICK next \in Nat : next = period.next
    OBVIOUS
  <1>2. PICK job : job = [of |-> s, at |-> next, state |-> "queued"]
    OBVIOUS
  <1>3. job \in Renewal /\ job.of = s /\ job.at = next /\ job.state = "queued"
    BY <1>2 DEF Renewal
  <1>4. \A j \in NextRenewal(s, period, end) : j = job /\ Before(next, end)
    BY <1>1, <1>2 DEF NextRenewal
  <1>5. Before(next, end) /\ (\A j \in renewal : j.of = s => j.at # next) =>
          job \in NextRenewal(s, period, end)
    BY <1>1, <1>2 DEF NextRenewal
  <1>. QED
    BY <1>1, <1>3, <1>4, <1>5

LEMMA RefreshReads ==
  ASSUME TypeInv, NEW r \in Open, Refresh(r) \/ Settle(r)
  PROVE  request[r].read \in Reading /\ request[r].read # None /\ request[r].rows = <<>>
         /\ request[r].ask.op = "refresh" /\ request[r].ask.on \in Sold
         /\ request[r].ask.of \in 0..Horizon
  <1>1. request[r].ask.op = "refresh" /\ request[r].read # None
    BY DEF Refresh, Settle, Writes
  <1>. QED
    BY <1>1, OpenRequest DEF ReadOK, QueryOK, Refers, AskOK, AskDefinition,
         MeterAsk, FeatureAsk, PlanAsk, CustomerAsk, SubscriptionAsk, ConfigureAsk

LEMMA ReadSubscriptionFinds ==
  ASSUME TypeInv, NEW r \in Open, ReadSubscription(r)
  PROVE  \E found \in Reading :
           /\ Keep(r, found) /\ setting' = setting /\ now' = now
           /\ request[r].rows = <<>> /\ request[r].read = None /\ request[r].ask.op = "refresh"
           /\ request[r].ask.on \in Sold /\ request[r].ask.of \in 0..Horizon
           /\ \/ /\ found.state = "done"
                 /\ \/ request[r].ask.of < Sale(request[r].ask.on).start
                    \/ ~Before(request[r].ask.of, subscription[request[r].ask.on].end)
              \/ /\ found.state = "failed"
                 /\ ~Anniversary(Sale(request[r].ask.on).anchor, request[r].ask.of)
              \/ /\ found.state = "open" /\ found.end = subscription[request[r].ask.on].end
                 /\ found.period.start = request[r].ask.of
                 /\ Sale(request[r].ask.on).start <= request[r].ask.of
                 /\ Before(request[r].ask.of, found.end)
                 /\ Anniversary(Sale(request[r].ask.on).anchor, found.period.next)
                 /\ PeriodFits(found.period, request[r].ask.of, Sale(request[r].ask.on).start,
                               found.end)
  <1>1. PICK s, at : s = request[r].ask.on /\ at = request[r].ask.of
    OBVIOUS
  <1>2. Reads(r, "refresh") /\ setting' = setting /\ now' = now
    BY DEF ReadSubscription
  <1>3. s \in Sold /\ at \in 0..Horizon /\ setting \in Settings
    BY <1>1, <1>2, OpenRequest DEF Reads, Refers, AskOK, AskDefinition,
         MeterAsk, FeatureAsk, PlanAsk, CustomerAsk, SubscriptionAsk, ConfigureAsk
  <1>4. PICK end \in Nat \union {None} : end = subscription[s].end
    <2>1. subscription[s] \in Subscription /\ s \in SubscriptionIds
      BY <1>3 DEF Sold, TypeInv, StateOK
    <2>. QED
      BY <2>1 DEF Subscription
  <1>5. PICK period : period = PeriodAt(at, Sale(s).anchor, Sale(s).start, end)
    OBVIOUS
  <1>6. CASE at < Sale(s).start \/ ~Before(at, end)
    <2>1. Keep(r, [state |-> "done"])
      BY <1>1, <1>4, <1>6 DEF ReadSubscription
    <2>2. PICK found : found = [state |-> "done"]
      OBVIOUS
    <2>3. found \in Reading /\ found.state = "done"
      BY <2>2 DEF Reading
    <2>. QED
      BY <1>1, <1>2, <1>3, <1>4, <1>6, <2>1, <2>2, <2>3 DEF Reads
  <1>7. CASE ~(at < Sale(s).start \/ ~Before(at, end)) /\ period.start # at
    <2>1. Keep(r, [state |-> "failed"])
      BY <1>1, <1>4, <1>5, <1>7 DEF ReadSubscription
    <2>2. PICK found : found = [state |-> "failed"]
      OBVIOUS
    <2>3. found \in Reading /\ found.state = "failed"
      BY <2>2 DEF Reading
    <2>4. Sale(s).start \in Nat /\ s \in SubscriptionIds /\ Horizon \in Nat
      BY <1>3, SettingFacts, CatalogAssumption DEF Sold, SaleDefinition
    <2>5. at \in Nat /\ at <= Horizon /\ Sale(s).start <= at
      BY <1>3, <1>7, <2>4
    <2>6. ~Anniversary(Sale(s).anchor, at)
      BY <1>3, <1>5, <1>7, <2>4, <2>5, SalePeriods
    <2>. QED
      BY <1>1, <1>2, <1>3, <2>1, <2>2, <2>3, <2>6 DEF Reads
  <1>8. CASE ~(at < Sale(s).start \/ ~Before(at, end)) /\ period.start = at
    <2>1. Keep(r, [state |-> "open", period |-> period, end |-> end])
      BY <1>1, <1>4, <1>5, <1>8 DEF ReadSubscription
    <2>2. Sale(s).start \in Nat /\ s \in SubscriptionIds /\ Horizon \in Nat
      BY <1>3, SettingFacts, CatalogAssumption DEF Sold, SaleDefinition
    <2>3. at \in Nat /\ at <= Horizon /\ Sale(s).start <= at
      BY <1>3, <1>8, <2>2
    <2>4. PeriodFits(period, at, Sale(s).start, end) /\ Anniversary(Sale(s).anchor, period.next)
      BY <1>3, <1>5, <2>2, <2>3, SalePeriods
    <2>5. PICK found : found = [state |-> "open", period |-> period, end |-> end]
      OBVIOUS
    <2>6. found \in Reading /\ found.state = "open" /\ found.end = end /\ found.period = period
      BY <2>4, <2>5 DEF Reading, PeriodFits
    <2>. QED
      BY <1>1, <1>2, <1>3, <1>4, <1>8, <2>1, <2>3, <2>4, <2>5, <2>6 DEF Reads
  <1>. QED
    BY <1>6, <1>7, <1>8

LEMMA SubscriptionChanges ==
  ASSUME TypeInv, NEW r \in Open, SubscriptionStep(r)
  PROVE  Changes(r) /\ (request'[r] = None \/ Goes(request[r], request'[r]))
  <1>1. CASE LookAtVersion(r)
    <2>1. PICK v : Keep(r, v)
      BY <1>1 DEF LookAtVersion
    <2>2. setting' = setting /\ now' = now /\ request[r].rows = <<>> /\ request[r].read = None
          /\ request[r].ask.op = "subscribe"
      BY <1>1 DEF LookAtVersion, Reads
    <2>3. Changes(r) /\ request'[r] = [ask |-> request[r].ask, at |-> request[r].at, rows |-> <<>>,
                                       locks |-> request[r].locks, read |-> v]
      BY <2>1, <2>2, KeptTypes
    <2>. QED
      BY <2>2, <2>3, GoesOn
  <1>2. CASE ReadSubscription(r)
    <2>1. PICK found \in Reading : Keep(r, found) /\ setting' = setting /\ now' = now
            /\ request[r].rows = <<>> /\ request[r].read = None /\ request[r].ask.op = "refresh"
      BY <1>2, ReadSubscriptionFinds
    <2>2. Changes(r) /\ request'[r] = [ask |-> request[r].ask, at |-> request[r].at, rows |-> <<>>,
                                       locks |-> request[r].locks, read |-> found]
      BY <2>1, KeptTypes
    <2>. QED
      BY <2>1, <2>2, GoesOn
  <1>3. CASE Refresh(r)
    <2>1. request[r].read \in Reading /\ request[r].ask.op = "refresh" /\ RequestsInv
      BY <1>3, RefreshReads DEF TypeInv
    <2>2. PICK found \in Reading :
            /\ request'[r] = [ask |-> request[r].ask, at |-> request[r].at, rows |-> <<>>,
                              locks |-> {}, read |-> found]
            /\ Changes(r)
      BY <1>3, <2>1, RefreshReleases
    <2>. QED
      BY <2>1, <2>2, GoesOn
  <1>4. CASE Subscribe(r) \/ Cancel(r) \/ Configure(r) \/ Settle(r) \/ Exhaust(r)
    <2>1. Finish(r) /\ setting' = setting /\ now' = now
      BY <1>4 DEF Subscribe, Cancel, Configure, Settle, Exhaust
    <2>. QED
      BY <2>1, FinishChanges DEF TypeInv, Open
  <1>. QED
    BY <1>1, <1>2, <1>3, <1>4 DEF SubscriptionStep

LEMMA SubscriptionTypes ==
  ASSUME TypeInv, NEW r \in Open, SubscriptionStep(r)
  PROVE  /\ subscription' \in [SubscriptionIds -> Subscription \union {None}]
         /\ entitlement' \subseteq Entitlement /\ renewal' \subseteq Renewal
         /\ Sold \subseteq Sold' /\ \A j \in renewal' : j.of \in Sold'
  <1>1. /\ subscription \in [SubscriptionIds -> Subscription \union {None}]
        /\ entitlement \subseteq Entitlement /\ renewal \subseteq Renewal
        /\ (\A j \in renewal : j.of \in Sold) /\ setting \in Settings
    BY DEF TypeInv, StateOK, LinksOK, RequestsInv
  <1>2. None \notin Subscription
    BY NoSubscriptionAssumption
  <1>3. AskOK(request[r].ask)
    BY OpenRequest
  <1>4. PICK s : s = request[r].ask.on
    OBVIOUS
  <1>5. CASE LookAtVersion(r) \/ ReadSubscription(r)
    BY <1>1, <1>5 DEF LookAtVersion, ReadSubscription, billing, Sold
  <1>6. CASE Subscribe(r)
    <2>1. s \in SubscriptionIds
      BY <1>3, <1>4, <1>6 DEF Subscribe, Writes, AskOK, AskDefinition,
           MeterAsk, FeatureAsk, PlanAsk, CustomerAsk, SubscriptionAsk, ConfigureAsk
    <2>2. PICK period : period = PeriodAt(Sale(s).start, Sale(s).anchor, Sale(s).start, Sale(s).end)
      OBVIOUS
    <2>3. period \in [start: Nat, end: Nat, next: Nat]
      BY <1>1, <2>1, <2>2, FirstPeriod
    <2>4. PICK sub : sub = [end |-> Sale(s).end, canceled |-> FALSE]
      OBVIOUS
    <2>5. sub \in Subscription
      BY <1>1, <2>1, <2>4, SettingFacts DEF Subscription, SaleDefinition
    <2>6. subscription' = [subscription EXCEPT ![s] = sub]
          /\ entitlement' = entitlement \union Granted(s, period)
          /\ renewal' \subseteq renewal \union NextRenewal(s, period, Sale(s).end)
      BY <1>4, <1>6, <2>2, <2>4 DEF Subscribe
    <2>7. Sold \subseteq Sold' /\ s \in Sold'
      BY <1>1, <1>2, <2>1, <2>5, <2>6 DEF Sold
    <2>8. Granted(s, period) \subseteq Entitlement
      BY <1>1, <2>1, <2>3, GrantsAreTyped
    <2>9. NextRenewal(s, period, Sale(s).end) \subseteq Renewal
          /\ \A j \in NextRenewal(s, period, Sale(s).end) : j.of = s
      BY <2>1, <2>3, RenewalsAreTyped
    <2>. QED
      BY <1>1, <2>1, <2>5, <2>6, <2>7, <2>8, <2>9
  <1>7. CASE Cancel(r)
    <2>1. PICK end \in Nat : end = request[r].ask.of
      BY <1>3, <1>7 DEF Cancel, Reads, AskOK, AskDefinition,
           MeterAsk, FeatureAsk, PlanAsk, CustomerAsk, SubscriptionAsk, ConfigureAsk
    <2>2. PICK sub : sub = [end |-> end, canceled |-> TRUE]
      OBVIOUS
    <2>3. sub \in Subscription
      BY <2>2 DEF Subscription
    <2>4. subscription' = [subscription EXCEPT ![s] = sub] /\ entitlement' = Clip(s, end)
          /\ renewal' = renewal
      BY <1>4, <1>7, <2>1, <2>2 DEF Cancel
    <2>5. Sold \subseteq Sold'
      BY <1>1, <1>2, <2>3, <2>4 DEF Sold
    <2>6. Clip(s, end) \subseteq Entitlement
      <3>. SUFFICES ASSUME NEW e \in entitlement
                    PROVE  e \in Entitlement /\ [e EXCEPT !.to = end] \in Entitlement
        BY DEF Clip
      <3>. QED
        BY <1>1 DEF Entitlement
    <2>. QED
      BY <1>1, <2>3, <2>4, <2>5, <2>6
  <1>8. CASE Configure(r)
    <2>1. PICK ask : ask = request[r].ask
      OBVIOUS
    <2>2. ask.on \in Customers /\ ask.of \in Features /\ ask.from \in Nat /\ ask.to \in Nat
      BY <1>3, <1>8, <2>1 DEF Configure, Reads, AskOK, AskDefinition,
           MeterAsk, FeatureAsk, PlanAsk, CustomerAsk, SubscriptionAsk, ConfigureAsk
    <2>3. entitlement' = entitlement \union {[customer |-> ask.on, feature |-> ask.of,
                                              from |-> ask.from, to |-> ask.to, of |-> None]}
          /\ subscription' = subscription /\ renewal' = renewal
      BY <1>8, <2>1 DEF Configure
    <2>. QED
      BY <1>1, <2>2, <2>3 DEF Entitlement, Sold
  <1>9. CASE Refresh(r)
    <2>1. request[r].read \in Reading /\ s \in Sold /\ request[r].read.state = "open"
      BY <1>4, <1>9, RefreshReads DEF Refresh
    <2>2. PICK found : found = request[r].read
      OBVIOUS
    <2>3. found.period \in [start: Nat, end: Nat, next: Nat] /\ s \in SubscriptionIds
      BY <2>1, <2>2 DEF Reading, Sold
    <2>4. /\ entitlement' \subseteq entitlement \union Granted(s, found.period)
          /\ renewal' \subseteq renewal \union NextRenewal(s, found.period, found.end)
          /\ subscription' = subscription
      BY <1>4, <1>9, <2>2 DEF Refresh
    <2>5. Granted(s, found.period) \subseteq Entitlement
      BY <1>1, <2>3, GrantsAreTyped
    <2>6. NextRenewal(s, found.period, found.end) \subseteq Renewal
          /\ \A j \in NextRenewal(s, found.period, found.end) : j.of = s
      BY <2>3, RenewalsAreTyped
    <2>. QED
      BY <1>1, <2>1, <2>4, <2>5, <2>6 DEF Sold
  <1>10. CASE Settle(r) \/ Exhaust(r)
    <2>1. PICK state \in {"done", "failed", "exhausted"} :
            renewal' = Settled(r, state) /\ subscription' = subscription /\ entitlement' = entitlement
      <3>1. CASE Settle(r)
        <4>1. request[r].read \in Reading /\ request[r].read.state # "open"
          BY <3>1, RefreshReads DEF Settle
        <4>2. request[r].read.state \in {"done", "failed"}
          BY <4>1 DEF Reading
        <4>. QED
          BY <3>1, <4>2 DEF Settle
      <3>2. CASE Exhaust(r)
        BY <3>2 DEF Exhaust
      <3>. QED
        BY <1>10, <3>1, <3>2
    <2>2. \A j \in renewal : j \in Renewal /\ [j EXCEPT !.state = state] \in Renewal
                             /\ [j EXCEPT !.state = state].of = j.of
      BY <1>1 DEF Renewal
    <2>. QED
      BY <1>1, <2>1, <2>2 DEF Settled, Sold
  <1>. QED
    BY <1>5, <1>6, <1>7, <1>8, <1>9, <1>10 DEF SubscriptionStep

-----------------------------------------------------------------------------
(* Results *)

LEMMA SumFunctionIs ==
  ASSUME NEW S, NEW f, DOMAIN f = S
  PROVE  SumFunction(f) = SumOver(f, S)
  BY DEF SumFunction, SumOver

LEMMA QuantitiesAreNatural ==
  ASSUME setting \in Settings, NEW events \in SUBSET Events, \A e \in events : Usage(e).value # None
  PROVE  Quantity(events) \in Nat
  <1> DEFINE f == [e \in events |-> Usage(e).value]
  <1>1. IsFiniteSet(events)
    BY SimulationsAssumption, FS_Subset
  <1>2. \A e \in events : f[e] \in Nat
    BY SettingFacts DEF UsageDefinition
  <1>3. Quantity(events) = SumOver(f, events)
    BY SumFunctionIs DEF Quantity
  <1> HIDE DEF f
  <1>. QED
    BY <1>1, <1>2, <1>3, SumIsNatural

LEMMA PricesAreFair ==
  ASSUME setting \in Settings, NEW v \in Versions, Priced(Definition(v).components), NEW versions,
         NEW events \in SUBSET Events,
         \A c \in Components(v) : \A e \in CountedBy(c, versions, events) : Usage(e).value # None
  PROVE  /\ Price(v, versions, events) \in Nat
         /\ Price(v, versions, events)
              = FairSubtotal(Definition(v).components, Quantities(v, versions, events))
  <1> DEFINE components == Definition(v).components
             quantities == Quantities(v, versions, events)
  <1>1. \A i \in DOMAIN components : quantities[i] \in Nat
    <2>. TAKE i \in DOMAIN components
    <2>1. components[i] \in Components(v)
      BY DEF Components
    <2>2. CountedBy(components[i], versions, events) \in SUBSET Events
      BY DEF CountedBy, Counted
    <2>3. Quantity(CountedBy(components[i], versions, events)) \in Nat
      BY <2>1, <2>2, QuantitiesAreNatural
    <2>. QED
      BY <2>3 DEF Quantities
  <1>2. Priced(components)
    OBVIOUS
  <1>3. Price(v, versions, events) = Subtotal(components, quantities)
    BY DEF Price
  <1> HIDE DEF components, quantities
  <1>4. Subtotal(components, quantities) = FairSubtotal(components, quantities)
        /\ Subtotal(components, quantities) \in Nat
    BY <1>1, <1>2, SubtotalIsFair
  <1>. QED
    BY <1>3, <1>4 DEF components, quantities

\* The amounts of a result are fair, unless it is excluded.
FairResult(i, versions, events, x) ==
  /\ x \in Result /\ x.counted = events
  /\ ~x.excluded =>
       /\ x.baseline = FairSubtotal(Definition(Plan(i).baseline).components,
                                    Quantities(Plan(i).baseline, versions, events))
       /\ x.candidate = FairSubtotal(Definition(Plan(i).candidate).components,
                                     Quantities(Plan(i).candidate, versions, events))

LEMMA ResultsAreFair ==
  ASSUME TypeInv, NEW i \in SimulationIds, Charged(i), NEW versions, NEW events \in SUBSET Events
  PROVE  FairResult(i, versions, events, ResultOf(i, versions, events))
  <1>1. setting \in Settings
        /\ (\A v \in Versions : version[v] # None => Priced(Definition(v).components))
    BY DEF TypeInv, RequestsInv, LinksOK
  <1>2. Plan(i).baseline \in Versions /\ Plan(i).candidate \in Versions
    BY <1>1, SettingFacts DEF SimulationDefinition
  <1>3. Priced(Definition(Plan(i).baseline).components)
        /\ Priced(Definition(Plan(i).candidate).components)
    BY <1>1, <1>2 DEF Charged
  <1>4. CASE Unusable(i, versions, events)
    <2>1. PICK x : x = Excluded(events)
      OBVIOUS
    <2>2. x \in Result /\ x.excluded /\ x.counted = events
      BY <2>1 DEF Excluded, Result
    <2>3. ResultOf(i, versions, events) = x
      BY <1>4, <2>1 DEF ResultOf
    <2>. QED
      BY <2>2, <2>3 DEF FairResult
  <1>5. CASE ~Unusable(i, versions, events)
    <2>1. \A v \in {Plan(i).baseline, Plan(i).candidate} : \A c \in Components(v) :
            \A e \in CountedBy(c, versions, events) : Usage(e).value # None
      BY <1>5 DEF Unusable
    <2>2. PICK b \in Nat :
            /\ b = Price(Plan(i).baseline, versions, events)
            /\ b = FairSubtotal(Definition(Plan(i).baseline).components,
                                Quantities(Plan(i).baseline, versions, events))
      BY <1>1, <1>2, <1>3, <2>1, PricesAreFair
    <2>3. PICK c \in Nat :
            /\ c = Price(Plan(i).candidate, versions, events)
            /\ c = FairSubtotal(Definition(Plan(i).candidate).components,
                                Quantities(Plan(i).candidate, versions, events))
      BY <1>1, <1>2, <1>3, <2>1, PricesAreFair
    <2>4. PICK x : x = Compare(b, c, events)
      OBVIOUS
    <2>5. x \in Result /\ x.counted = events /\ x.baseline = b /\ x.candidate = c
      <3>1. (b # 0 /\ 100 * (c - b) >= setting.threshold * b) \in BOOLEAN
        OBVIOUS
      <3>. QED
        BY <2>4, <3>1 DEF Compare, Result
    <2>6. ResultOf(i, versions, events) = x
      BY <1>5, <2>2, <2>3, <2>4 DEF ResultOf
    <2>. QED
      BY <2>2, <2>3, <2>5, <2>6 DEF FairResult
  <1>. QED
    BY <1>4, <1>5

LEMMA GreatestValue ==
  ASSUME NEW S, IsFiniteSet(S), S # {}, NEW f, \A x \in S : f[x] \in Int
  PROVE  \E m \in S : \A x \in S : f[x] <= f[m]
  <1> DEFINE g == [x \in S |-> IF f[x] < 0 THEN -f[x] ELSE f[x]]
  <1>1. \A x \in S : g[x] \in Nat /\ f[x] <= g[x]
    OBVIOUS
  <1> HIDE DEF g
  <1>2. PICK total \in Nat : total = SumOver(g, S)
    BY <1>1, SumIsNatural
  <1>3. \A x \in S : g[x] <= total
    <2>. TAKE x \in S
    <2>1. IsFiniteSet(S \ {x}) /\ \A y \in S \ {x} : g[y] \in Nat
      BY <1>1, FS_Subset
    <2>2. SumOver(g, S \ {x}) \in Nat
      BY <2>1, SumIsNatural
    <2>3. \A y \in S : g[y] \in Int
      BY <1>1
    <2>4. SumOver(g, S) = g[x] + SumOver(g, S \ {x})
      BY <2>3, SumTakes
    <2>. QED
      BY <1>1, <1>2, <2>2, <2>4
  <1> DEFINE T == {total - f[x] : x \in S}
  <1>4. T \in SUBSET Nat /\ T # {}
    <2>1. \A x \in S : total - f[x] \in Nat
      BY <1>1, <1>2, <1>3
    <2>. QED
      BY <2>1
  <1>5. PICK t \in T : \A u \in T : t <= u
    <2> HIDE DEF T
    <2>. QED BY <1>4, LeastNumber
  <1>6. PICK m \in S : t = total - f[m]
    BY <1>5
  <1>7. \A x \in S : total - f[m] <= total - f[x]
    BY <1>5, <1>6
  <1>. QED
    BY <1>2, <1>6, <1>7

LEMMA PercentilesAreNumbers ==
  ASSUME NEW results, NEW included, IsFiniteSet(included),
         \A c \in included : results[c].delta \in Int, NEW percent \in Nat
  PROVE  Percentile(results, included, percent) \in Int
  <1> DEFINE d == [c \in included |-> results[c].delta]
             Smaller(c) == {o \in included : results[o].delta < results[c].delta}
             last == ((Cardinality(included) - 1) * percent) \div 100
             some == {o \in included : Cardinality(Smaller(o)) <= last}
  <1>1. CASE included = {}
    BY <1>1 DEF Percentile
  <1>2. CASE included # {}
    <2>1. \A c \in included : d[c] = results[c].delta /\ d[c] \in Int
      OBVIOUS
    <2>2. last \in Nat
      <3>1. PICK n \in Nat : n = Cardinality(included)
        BY FS_CardinalityType
      <3>2. n # 0
        BY <1>2, <3>1, FS_EmptySet
      <3>3. PICK k \in Nat : k = (n - 1) * percent
        <4>1. PICK m \in Nat : m = n - 1
          <5>1. n - 1 \in Nat
            BY <3>2
          <5>. QED
            BY <5>1
        <4>2. m * percent \in Nat
          OBVIOUS
        <4>. QED
          BY <4>1, <4>2
      <3>4. k \div 100 \in Nat
        OBVIOUS
      <3>. QED
        BY <3>1, <3>3, <3>4
    <2>3. PICK m \in included : \A c \in included : d[m] <= d[c]
      <3> DEFINE e == [c \in included |-> -d[c]]
      <3>1. \A c \in included : e[c] = -d[c] /\ e[c] \in Int
        BY <2>1
      <3> HIDE DEF e, d
      <3>2. PICK m \in included : \A c \in included : e[c] <= e[m]
        BY <1>2, <3>1, GreatestValue
      <3>3. \A c \in included : d[m] <= d[c]
        BY <2>1, <3>1, <3>2
      <3>. QED
        BY <3>3
    <2>4. m \in some
      <3>1. Smaller(m) = {}
        BY <2>1, <2>3
      <3>2. Cardinality(Smaller(m)) = 0
        BY <3>1, FS_EmptySet
      <3>. QED
        BY <2>2, <3>2
    <2>5. IsFiniteSet(some) /\ some # {} /\ \A c \in some : d[c] \in Int
      BY <2>1, <2>4, FS_Subset
    <2>6. PICK g \in some : \A c \in some : d[c] <= d[g]
      <3> HIDE DEF some, d
      <3>. QED BY <2>5, GreatestValue
    <2> DEFINE deltas == {results[c].delta : c \in some}
    <2>7. deltas \in SUBSET Int /\ d[g] \in deltas /\ \A y \in deltas : d[g] >= y
      BY <2>1, <2>6
    <2>8. Max(deltas) = d[g]
      <3> HIDE DEF deltas, d
      <3>. QED BY <2>7, MaxIs
    <2>9. Percentile(results, included, percent) = Max(deltas)
      BY <1>2 DEF Percentile
    <2>. QED
      BY <2>7, <2>8, <2>9
  <1>. QED
    BY <1>1, <1>2

Included(results) == {c \in Answered(results) : ~results[c].excluded}

\* The results have an entry for every customer.
LEMMA SummariesAreTyped ==
  ASSUME NEW results \in [Customers -> Result \union {None}]
  PROVE  /\ Summarize(results) \in Summary
         /\ Summarize(results).baseline
              = SumFunction([c \in Included(results) |-> results[c].baseline])
         /\ Summarize(results).candidate
              = SumFunction([c \in Included(results) |-> results[c].candidate])
  <1> DEFINE included == Included(results)
             b == [c \in included |-> results[c].baseline]
             d == [c \in included |-> results[c].candidate]
  <1>1. IsFiniteSet(included) /\ \A c \in included : results[c] \in Result
    <2>1. included \subseteq Customers
      BY DEF Included, Answered
    <2>. QED
      BY <2>1, SimulationsAssumption, FS_Subset DEF Included, Answered
  <1>2. \A c \in included : /\ b[c] \in Nat /\ d[c] \in Nat /\ results[c].delta \in Int
    BY <1>1 DEF Result
  <1>3. SumFunction(b) \in Nat /\ SumFunction(d) \in Nat
    <2>1. SumFunction(b) = SumOver(b, included) /\ SumFunction(d) = SumOver(d, included)
      BY SumFunctionIs
    <2> HIDE DEF b, d, included
    <2>. QED BY <1>1, <1>2, <2>1, SumIsNatural
  <1>4. /\ Cardinality({c \in included : results[c].delta >= 0}) \in Nat
        /\ Cardinality({c \in included : results[c].delta < 0}) \in Nat
        /\ Cardinality({c \in included : results[c].delta = 0}) \in Nat
        /\ Cardinality({c \in included : results[c].increase}) \in Nat
    <2> HIDE DEF included
    <2>1. \A S \in SUBSET included : Cardinality(S) \in Nat
      BY <1>1, FS_Subset, FS_CardinalityType
    <2>. QED
      BY <2>1
  <1>5. Percentile(results, included, 50) \in Int /\ Percentile(results, included, 95) \in Int
    <2> HIDE DEF included
    <2>. QED BY <1>1, <1>2, PercentilesAreNumbers
  <1>6. Summarize(results) =
          [baseline |-> SumFunction(b), candidate |-> SumFunction(d),
           increased |-> Cardinality({c \in included : results[c].delta >= 0}),
           decreased |-> Cardinality({c \in included : results[c].delta < 0}),
           unchanged |-> Cardinality({c \in included : results[c].delta = 0}),
           warned |-> Cardinality({c \in included : results[c].increase}),
           median |-> Percentile(results, included, 50),
           p95 |-> Percentile(results, included, 95)]
    BY DEF Summarize, Included
  <1> HIDE DEF included
  <1>. QED
    BY <1>3, <1>4, <1>5, <1>6 DEF included, Summary

-----------------------------------------------------------------------------
(* Requests about simulations *)

LEMMA RunReads ==
  ASSUME TypeInv, NEW r \in Open, request[r].ask.op = "run"
  PROVE  /\ request[r].ask.on \in SimulationIds
         /\ simulation[request[r].ask.on] \in Simulation /\ Charged(request[r].ask.on)
         /\ request[r].read # None => request[r].read \in Run /\ request[r].rows = <<>>
  <1>1. request[r].ask.on \in SimulationIds /\ simulation[request[r].ask.on] # None
    BY OpenRequest DEF AskOK, AskDefinition,
         MeterAsk, FeatureAsk, PlanAsk, CustomerAsk, SubscriptionAsk, ConfigureAsk, Refers
  <1>2. simulation[request[r].ask.on] \in Simulation /\ Charged(request[r].ask.on)
    BY <1>1 DEF TypeInv, StateOK, LinksOK
  <1>3. request[r].read # None => request[r].read \in Run /\ request[r].rows = <<>>
    BY OpenRequest DEF ReadOK, QueryOK
  <1>. QED
    BY <1>1, <1>2, <1>3

\* The events of a customer that a simulation counts, if some meter does.
OwnEvents(i, versions, c) ==
  {e \in Effective(simulation[i].watermark) :
     /\ Usage(e).customer = c /\ Usage(e).type \in {Measure(m).type : m \in versions}
     /\ Plan(i).from <= Usage(e).day /\ Usage(e).day < Plan(i).to}

LEMMA RunAdvances ==
  ASSUME NEW run \in Run, NEW todo, NEW results, NEW failed
  PROVE  /\ [run EXCEPT !.todo = todo, !.results = results]
              = [versions |-> run.versions, todo |-> todo, results |-> results,
                 failed |-> run.failed]
         /\ [run EXCEPT !.failed = failed]
              = [versions |-> run.versions, todo |-> run.todo, results |-> run.results,
                 failed |-> failed]
  <1>1. PICK v, t, o, f : run = [versions |-> v, todo |-> t, results |-> o, failed |-> f]
    BY DEF Run
  <1>2. [run EXCEPT !.todo = todo] = [versions |-> v, todo |-> todo, results |-> o, failed |-> f]
    BY <1>1
  <1>3. [[versions |-> v, todo |-> todo, results |-> o, failed |-> f] EXCEPT !.results = results]
          = [versions |-> v, todo |-> todo, results |-> results, failed |-> f]
    OBVIOUS
  <1>4. [run EXCEPT !.failed = failed] = [versions |-> v, todo |-> t, results |-> o, failed |-> failed]
    BY <1>1
  <1>5. run.versions = v /\ run.todo = t /\ run.results = o /\ run.failed = f
    BY <1>1
  <1>. QED
    BY <1>2, <1>3, <1>4, <1>5

LEMMA ReadBatchFinds ==
  ASSUME TypeInv, NEW r \in Open, ReadBatch(r)
  PROVE  \E next \in Run, batch \in SUBSET request[r].read.todo :
           /\ next.versions = request[r].read.versions
           /\ \/ /\ Keep(r, next) /\ next.failed = request[r].read.failed
                 /\ next.todo = request[r].read.todo \ batch
                 /\ \A c \in Customers : next.results[c] =
                      IF c \in batch
                      THEN ResultOf(request[r].ask.on, next.versions,
                                    OwnEvents(request[r].ask.on, next.versions, c))
                      ELSE request[r].read.results[c]
              \/ /\ request' = [request EXCEPT ![r].locks = {}, ![r].read.failed = TRUE]
                 /\ next = [request[r].read EXCEPT !.failed = TRUE]
                 /\ next.todo = request[r].read.todo /\ next.results = request[r].read.results
  <1> DEFINE i == request[r].ask.on
             run == request[r].read
  <1>1. request[r].ask.op = "run" /\ run # None
    BY DEF ReadBatch, Writes
  <1>2. i \in SimulationIds /\ Charged(i) /\ run \in Run
    BY <1>1, RunReads
  <1> DEFINE events(batch) == EventsOf(i, batch, run.versions)
             Own(batch, c) == {e \in events(batch) : Usage(e).customer = c}
             results(batch) == [c \in Customers |->
               IF c \in batch THEN ResultOf(i, run.versions, Own(batch, c)) ELSE run.results[c]]
  <1>3. PICK batch \in SUBSET run.todo :
          \/ request' = [request EXCEPT ![r].locks = {}, ![r].read.failed = TRUE]
          \/ Keep(r, [run EXCEPT !.todo = run.todo \ batch, !.results = results(batch)])
    <2>1. PICK batch \in kSubset(Min({BatchSize, Cardinality(run.todo)}), run.todo) :
            IF events(batch) \intersect redacted # {}
            THEN request' = [request EXCEPT ![r].locks = {}, ![r].read.failed = TRUE]
            ELSE Keep(r, [run EXCEPT
                            !.todo = @ \ batch,
                            !.results = [c \in Customers |->
                              IF c \in batch THEN ResultOf(i, run.versions, Own(batch, c))
                              ELSE @[c]]])
      BY DEF ReadBatch
    <2>2. batch \in SUBSET run.todo
      BY <2>1 DEF kSubset
    <2>3. CASE events(batch) \intersect redacted # {}
      BY <2>1, <2>2, <2>3
    <2>4. CASE events(batch) \intersect redacted = {}
      BY <1>2, <2>1, <2>2, <2>4 DEF Run
    <2>. QED
      BY <2>3, <2>4
  <1>4. CASE request' = [request EXCEPT ![r].locks = {}, ![r].read.failed = TRUE]
    <2>1. PICK next : next = [run EXCEPT !.failed = TRUE]
      OBVIOUS
    <2>2. next = [versions |-> run.versions, todo |-> run.todo, results |-> run.results,
                  failed |-> TRUE]
      <3> HIDE DEF run
      <3>. QED BY <1>2, <2>1, RunAdvances
    <2>3. next \in Run
      BY <1>2, <2>2 DEF Run
    <2>. QED
      BY <1>4, <2>1, <2>2, <2>3
  <1>5. CASE Keep(r, [run EXCEPT !.todo = run.todo \ batch, !.results = results(batch)])
    <2>1. PICK todo, found : todo = run.todo \ batch /\ found = results(batch)
      OBVIOUS
    <2>2. PICK next : next = [run EXCEPT !.todo = todo, !.results = found]
      OBVIOUS
    <2>3. next = [versions |-> run.versions, todo |-> todo, results |-> found,
                  failed |-> run.failed]
      <3> HIDE DEF run
      <3>. QED BY <1>2, <2>2, RunAdvances
    <2>4. \A c \in Customers : found[c] =
            IF c \in batch THEN ResultOf(i, run.versions, Own(batch, c)) ELSE run.results[c]
      BY <2>1
    <2>5. \A c \in batch : Own(batch, c) = OwnEvents(i, run.versions, c)
      BY DEF EventsOf, OwnEvents
    <2>6. \A c \in Customers : found[c] =
            IF c \in batch THEN ResultOf(i, run.versions, OwnEvents(i, run.versions, c))
            ELSE run.results[c]
      <3> HIDE DEF run, i
      <3>. QED BY <2>4, <2>5
    <2>7. \A c \in Customers : found[c] \in Result \union {None}
      <3>. TAKE c \in Customers
      <3>1. OwnEvents(i, run.versions, c) \in SUBSET Events
        BY DEF OwnEvents, Effective, Stored
      <3>2. ResultOf(i, run.versions, OwnEvents(i, run.versions, c)) \in Result
        BY <1>2, <3>1, ResultsAreFair DEF FairResult
      <3>3. run.results[c] \in Result \union {None}
        BY <1>2 DEF Run
      <3>. QED
        BY <2>6, <3>2, <3>3
    <2>8. found \in [Customers -> Result \union {None}]
      BY <2>1, <2>7
    <2>9. next \in Run
      BY <1>2, <2>1, <2>3, <2>8 DEF Run
    <2>10. Keep(r, next)
      BY <1>5, <2>1, <2>2
    <2>11. next.versions = run.versions /\ next.todo = run.todo \ batch /\ next.results = found
           /\ next.failed = run.failed
      BY <2>1, <2>3
    <2> HIDE DEF i, run
    <2>12. \A c \in Customers : next.results[c] =
             IF c \in batch THEN ResultOf(i, next.versions, OwnEvents(i, next.versions, c))
             ELSE run.results[c]
      BY <2>6, <2>11
    <2>. QED
      BY <2>9, <2>10, <2>11, <2>12 DEF i, run
  <1>. QED
    BY <1>3, <1>4, <1>5

\* What a request that has looked at the plans found.
LEMMA LookAtPlansFinds ==
  ASSUME TypeInv, NEW r \in Open, LookAtPlans(r)
  PROVE  \E found \in Simulation :
           /\ Keep(r, found) /\ setting' = setting /\ now' = now
           /\ request[r].rows = <<>> /\ request[r].read = None /\ request[r].ask.op = "simulate"
           /\ request[r].ask.on \in SimulationIds /\ Charged(request[r].ask.on)
           /\ found.watermark = now /\ found.known = Stored /\ found.status = "pending"
  <1>1. PICK i, cohort :
          /\ i = request[r].ask.on
          /\ cohort = IF Plan(i).customers = {} THEN Known ELSE Plan(i).customers
    OBVIOUS
  <1>2. PICK found :
          found = [watermark |-> now, customers |-> cohort, known |-> Stored, versions |-> {},
                   status |-> "pending", results |-> NoResults, summary |-> None]
    OBVIOUS
  <1>3. Keep(r, found) /\ setting' = setting /\ now' = now /\ Reads(r, "simulate")
        /\ cohort \subseteq Known
        /\ version[Plan(i).baseline] = "published" /\ version[Plan(i).candidate] \in {"draft", "published"}
    BY <1>1, <1>2 DEF LookAtPlans
  <1>4. i \in SimulationIds
    BY <1>1, <1>3, OpenRequest DEF Reads, AskOK, AskDefinition,
         MeterAsk, FeatureAsk, PlanAsk, CustomerAsk, SubscriptionAsk, ConfigureAsk
  <1>5. Charged(i)
    BY <1>3, WordsAreSome DEF Charged
  <1>6. now \in Nat /\ cohort \subseteq Customers /\ Stored \subseteq Events
        /\ NoResults \in [Customers -> Result \union {None}]
    BY <1>3, NowIsNatural DEF TypeInv, Known, Stored, NoResults
  <1>7. found \in Simulation
    BY <1>2, <1>6 DEF Simulation
  <1>. QED
    BY <1>1, <1>2, <1>3, <1>4, <1>5, <1>7 DEF Reads

LEMMA LoadDefinitionsFinds ==
  ASSUME TypeInv, NEW r \in Open, LoadDefinitions(r)
  PROVE  \E found \in Run :
           /\ Keep(r, found) /\ setting' = setting /\ now' = now
           /\ request[r].rows = <<>> /\ request[r].read = None /\ request[r].ask.op = "run"
           /\ found.todo = simulation[request[r].ask.on].customers /\ found.results = NoResults
  <1>1. PICK i, versions :
          /\ i = request[r].ask.on
          /\ versions = {m \in MeterVersions : /\ meterVersion[m] = "published"
                                               /\ Measure(m).meter \in MetersOf(i)
                                               /\ IntervalsOverlap(Measure(m), Period(i))}
    OBVIOUS
  <1>2. PICK found : found = [versions |-> versions, todo |-> simulation[i].customers,
                              results |-> NoResults, failed |-> FALSE]
    OBVIOUS
  <1>3. Keep(r, found) /\ setting' = setting /\ now' = now /\ Reads(r, "run")
    BY <1>1, <1>2 DEF LoadDefinitions
  <1>4. simulation[i] \in Simulation
    BY <1>1, <1>3, RunReads DEF Reads
  <1>5. found \in Run
    <2>1. simulation[i].customers \in SUBSET Customers
      BY <1>4 DEF Simulation
    <2>2. NoResults \in [Customers -> Result \union {None}] /\ versions \in SUBSET MeterVersions
      BY <1>1 DEF NoResults
    <2>. QED
      BY <1>2, <2>1, <2>2 DEF Run
  <1>. QED
    BY <1>1, <1>2, <1>3, <1>5 DEF Reads

LEMMA ReadBatchChanges ==
  ASSUME TypeInv, NEW r \in Open, ReadBatch(r), NEW next \in Run,
         \/ Keep(r, next)
         \/ /\ request' = [request EXCEPT ![r].locks = {}, ![r].read.failed = TRUE]
            /\ next = [request[r].read EXCEPT !.failed = TRUE]
  PROVE  /\ Changes(r)
         /\ \E locks \in SUBSET request[r].locks :
              request'[r] = [ask |-> request[r].ask, at |-> request[r].at, rows |-> <<>>,
                             locks |-> locks, read |-> next]
  <1> DEFINE p == request[r]
  <1>1. p.ask.op = "run" /\ p.read # None /\ setting' = setting /\ now' = now
    BY DEF ReadBatch, Writes
  <1>2. p.rows = <<>> /\ r \in Requests /\ QueryOK(p) /\ RequestsInv
    BY <1>1, RunReads, OpenRequest DEF TypeInv
  <1>3. CASE Keep(r, next)
    BY <1>1, <1>2, <1>3, KeptTypes
  <1>4. CASE request' = [request EXCEPT ![r].locks = {}, ![r].read.failed = TRUE]
             /\ next = [p.read EXCEPT !.failed = TRUE]
    <2>1. PICK l : l = [p EXCEPT !.locks = {}]
      OBVIOUS
    <2>2. l = [ask |-> p.ask, at |-> p.at, rows |-> <<>>, locks |-> {}, read |-> p.read]
      BY <1>2, <2>1, ReleasedRequest DEF QueryOK
    <2>3. request' = [request EXCEPT ![r] = [l EXCEPT !.read = next]]
      BY <1>2, <1>4, <2>1, <2>2 DEF RequestsInv
    <2>4. [l EXCEPT !.read = next]
            = [ask |-> p.ask, at |-> p.at, rows |-> <<>>, locks |-> {}, read |-> next]
      <3>1. l = [ask |-> l.ask, at |-> l.at, rows |-> l.rows, locks |-> l.locks, read |-> l.read]
        BY <2>2
      <3>2. l.ask = p.ask /\ l.at = p.at /\ l.rows = <<>> /\ l.locks = {}
        BY <2>2
      <3> HIDE DEF p
      <3>3. [l EXCEPT !.read = next]
              = [ask |-> l.ask, at |-> l.at, rows |-> l.rows, locks |-> l.locks, read |-> next]
        BY <3>1, AnsweredRequest
      <3>. QED
        BY <3>2, <3>3
    <2>5. request' = [request EXCEPT ![r] = [ask |-> @.ask, at |-> @.at, rows |-> <<>>,
                                             locks |-> {}, read |-> next]]
      BY <1>2, <2>3, <2>4 DEF RequestsInv
    <2>6. Changes(r) /\ request'[r] = [ask |-> p.ask, at |-> p.at, rows |-> <<>>, locks |-> {},
                                       read |-> next]
      BY <1>1, <1>2, <2>5, ReleaseChanges
    <2>. QED
      BY <2>6
  <1>. QED
    BY <1>3, <1>4

LEMMA SimulationChanges ==
  ASSUME TypeInv, NEW r \in Open, SimulationStep(r)
  PROVE  /\ Changes(r)
         /\ \/ request'[r] = None \/ Goes(request[r], request'[r])
            \/ /\ Charged(request[r].ask.on)
               /\ \E found \in Simulation :
                    /\ request'[r] = [ask |-> request[r].ask, at |-> request[r].at, rows |-> <<>>,
                                      locks |-> request[r].locks, read |-> found]
                    /\ request[r].ask.op = "simulate"
  <1>1. CASE LookAtPlans(r)
    <2>1. PICK found \in Simulation :
            /\ Keep(r, found) /\ setting' = setting /\ now' = now
            /\ request[r].rows = <<>> /\ request[r].read = None /\ request[r].ask.op = "simulate"
            /\ Charged(request[r].ask.on)
      BY <1>1, LookAtPlansFinds
    <2>2. Changes(r) /\ request'[r] = [ask |-> request[r].ask, at |-> request[r].at, rows |-> <<>>,
                                       locks |-> request[r].locks, read |-> found]
      BY <2>1, KeptTypes
    <2>. QED
      BY <2>1, <2>2
  <1>2. CASE LoadDefinitions(r)
    <2>1. PICK found \in Run :
            /\ Keep(r, found) /\ setting' = setting /\ now' = now
            /\ request[r].rows = <<>> /\ request[r].read = None /\ request[r].ask.op = "run"
      BY <1>2, LoadDefinitionsFinds
    <2>2. Changes(r) /\ request'[r] = [ask |-> request[r].ask, at |-> request[r].at, rows |-> <<>>,
                                       locks |-> request[r].locks, read |-> found]
      BY <2>1, KeptTypes
    <2>. QED
      BY <2>1, <2>2, GoesOn
  <1>3. CASE ReadBatch(r)
    <2>1. PICK next \in Run :
            \/ Keep(r, next)
            \/ /\ request' = [request EXCEPT ![r].locks = {}, ![r].read.failed = TRUE]
               /\ next = [request[r].read EXCEPT !.failed = TRUE]
      BY <1>3, ReadBatchFinds
    <2>2. PICK locks \in SUBSET request[r].locks :
            /\ Changes(r)
            /\ request'[r] = [ask |-> request[r].ask, at |-> request[r].at, rows |-> <<>>,
                              locks |-> locks, read |-> next]
      BY <1>3, <2>1, ReadBatchChanges
    <2>3. request[r].ask.op = "run"
      BY <1>3 DEF ReadBatch, Writes
    <2>. QED
      BY <2>2, <2>3, GoesOn
  <1>4. CASE Simulate(r) \/ CompleteRun(r) \/ FailRun(r)
    <2>1. Finish(r) /\ setting' = setting /\ now' = now
      BY <1>4 DEF Simulate, CompleteRun, FailRun
    <2>. QED
      BY <2>1, FinishChanges DEF TypeInv, Open
  <1>. QED
    BY <1>1, <1>2, <1>3, <1>4 DEF SimulationStep

LEMMA SimulationAsks ==
  ASSUME TypeInv, NEW r \in Open, SimulationStep(r), request'[r] # None
  PROVE  request'[r].ask = request[r].ask
  <1>1. CASE Goes(request[r], request'[r])
    BY <1>1 DEF Goes
  <1>2. ASSUME NEW found, request'[r] = [ask |-> request[r].ask, at |-> request[r].at, rows |-> <<>>,
                                         locks |-> request[r].locks, read |-> found]
        PROVE  request'[r].ask = request[r].ask
    BY <1>2
  <1>. QED
    BY <1>1, <1>2, SimulationChanges


\* A simulation that is there keeps what it has pinned.
Pinned(s, t) ==
  /\ s # None /\ t # None /\ t.watermark = s.watermark /\ t.customers = s.customers
  /\ t.known = s.known

SimulationRow(s, status, versions, results, summary) ==
  [watermark |-> s.watermark, customers |-> s.customers, known |-> s.known, versions |-> versions,
   status |-> status, results |-> results, summary |-> summary]

LEMMA SimulationsAreRows ==
  ASSUME NEW s \in Simulation
  PROVE  /\ s = SimulationRow(s, s.status, s.versions, s.results, s.summary)
         /\ s.versions \in SUBSET MeterVersions /\ s.summary \in Summary \union {None}
         /\ s.results \in [Customers -> Result \union {None}]
         /\ \A status \in {"completed", "failed", "pending"}, versions \in SUBSET MeterVersions,
               results \in [Customers -> Result \union {None}], summary \in Summary \union {None} :
              SimulationRow(s, status, versions, results, summary) \in Simulation
  BY DEF Simulation, SimulationRow

LEMMA FailedSimulation ==
  ASSUME NEW s \in Simulation, NEW status
  PROVE  [s EXCEPT !.status = status]
           = SimulationRow(s, status, s.versions, s.results, s.summary)
  <1>1. PICK w, c, k, v, t, o, u :
          s = [watermark |-> w, customers |-> c, known |-> k, versions |-> v, status |-> t,
               results |-> o, summary |-> u]
    BY DEF Simulation
  <1>2. [s EXCEPT !.status = status]
          = [watermark |-> w, customers |-> c, known |-> k, versions |-> v, status |-> status,
             results |-> o, summary |-> u]
    BY <1>1
  <1>3. /\ s.watermark = w /\ s.customers = c /\ s.known = k /\ s.versions = v /\ s.results = o
        /\ s.summary = u
    BY <1>1
  <1>. QED
    BY <1>2, <1>3 DEF SimulationRow

Amended(s, status, versions, results, summary) ==
  [s EXCEPT !.status = status, !.versions = versions, !.results = results, !.summary = summary]

LEMMA CompletedSimulation ==
  ASSUME NEW s \in Simulation, NEW status, NEW versions, NEW results, NEW summary
  PROVE  Amended(s, status, versions, results, summary)
           = SimulationRow(s, status, versions, results, summary)
  <1> DEFINE Row(w, c, k, v, t, o, u) ==
               [watermark |-> w, customers |-> c, known |-> k, versions |-> v, status |-> t,
                results |-> o, summary |-> u]
  <1>1. PICK w, c, k, v, t, o, u : s = Row(w, c, k, v, t, o, u)
    BY DEF Simulation
  <1>2. [s EXCEPT !.status = status] = Row(w, c, k, v, status, o, u)
    BY <1>1
  <1>3. [Row(w, c, k, v, status, o, u) EXCEPT !.versions = versions]
          = Row(w, c, k, versions, status, o, u)
    OBVIOUS
  <1>4. [Row(w, c, k, versions, status, o, u) EXCEPT !.results = results]
          = Row(w, c, k, versions, status, results, u)
    OBVIOUS
  <1>5. [Row(w, c, k, versions, status, results, u) EXCEPT !.summary = summary]
          = Row(w, c, k, versions, status, results, summary)
    OBVIOUS
  <1>6. s.watermark = w /\ s.customers = c /\ s.known = k
    BY <1>1
  <1>7. Amended(s, status, versions, results, summary)
          = Row(w, c, k, versions, status, results, summary)
    BY <1>2, <1>3, <1>4, <1>5 DEF Amended
  <1>. QED
    BY <1>6, <1>7 DEF SimulationRow

LEMMA CompleteRunWrites ==
  ASSUME TypeInv, NEW r \in Open, CompleteRun(r)
  PROVE  \E i \in SimulationIds, run \in Run, row \in Simulation :
           /\ i = request[r].ask.on /\ run = request[r].read /\ request[r].ask.op = "run"
           /\ run.todo = {} /\ simulation[i] \in Simulation /\ Charged(i)
           /\ simulation' = [simulation EXCEPT ![i] = row]
           /\ row = SimulationRow(simulation[i], "completed", run.versions, run.results,
                                  Summarize(run.results))
  <1>1. PICK i, run : i = request[r].ask.on /\ run = request[r].read
    OBVIOUS
  <1>2. request[r].ask.op = "run" /\ run # None /\ run.todo = {}
    BY <1>1 DEF CompleteRun, Writes
  <1>3. i \in SimulationIds /\ simulation[i] \in Simulation /\ Charged(i) /\ run \in Run
    BY <1>1, <1>2, RunReads
  <1>4. PICK s \in Simulation : s = simulation[i]
    BY <1>3
  <1>5. PICK versions, results, summary :
          versions = run.versions /\ results = run.results /\ summary = Summarize(run.results)
    OBVIOUS
  <1>6. versions \in SUBSET MeterVersions /\ results \in [Customers -> Result \union {None}]
    BY <1>3, <1>5 DEF Run
  <1>7. summary \in Summary
    BY <1>5, <1>6, SummariesAreTyped
  <1>8. PICK status \in {"completed", "failed", "pending"} : status = "completed"
    OBVIOUS
  <1>9. PICK row : row = SimulationRow(s, status, versions, results, summary)
    OBVIOUS
  <1>10. row \in Simulation
    BY <1>6, <1>7, <1>9, SimulationsAreRows
  <1>11. row = Amended(s, status, versions, results, summary)
    BY <1>9, CompletedSimulation
  <1>12. simulation' = [simulation EXCEPT ![i].status = status, ![i].versions = versions,
                          ![i].results = results, ![i].summary = summary]
    BY <1>1, <1>5, <1>8 DEF CompleteRun
  <1>13. simulation' = [simulation EXCEPT ![i] = [s EXCEPT !.status = status, !.versions = versions,
                                                    !.results = results, !.summary = summary]]
    BY <1>3, <1>4, <1>12 DEF TypeInv, StateOK
  <1>14. simulation' = [simulation EXCEPT ![i] = row]
    BY <1>11, <1>13 DEF Amended
  <1>15. row = SimulationRow(simulation[i], "completed", run.versions, run.results,
                             Summarize(run.results))
    BY <1>4, <1>5, <1>8, <1>9
  <1>. QED
    BY <1>1, <1>2, <1>3, <1>10, <1>14, <1>15

LEMMA FailRunWrites ==
  ASSUME TypeInv, NEW r \in Open, FailRun(r)
  PROVE  \E i \in SimulationIds, row \in Simulation :
           /\ simulation[i] \in Simulation /\ Charged(i)
           /\ simulation' = [simulation EXCEPT ![i] = row]
           /\ row.watermark = simulation[i].watermark /\ row.customers = simulation[i].customers
           /\ row.known = simulation[i].known
           /\ row.status = "completed" => row = simulation[i]
  <1>1. PICK i : i = request[r].ask.on
    OBVIOUS
  <1>2. request[r].ask.op = "run"
    BY DEF FailRun, Writes
  <1>3. i \in SimulationIds /\ simulation[i] \in Simulation /\ Charged(i)
    BY <1>1, <1>2, RunReads
  <1>4. PICK s \in Simulation : s = simulation[i]
    BY <1>3
  <1>5. PICK status \in {"completed", "failed", "pending"} :
          status = IF s.status = "pending" THEN "failed" ELSE s.status
    BY DEF Simulation
  <1>6. PICK row : row = SimulationRow(s, status, s.versions, s.results, s.summary)
    OBVIOUS
  <1>7. row \in Simulation
    BY <1>6, SimulationsAreRows
  <1>8. row.status = "completed" => row = s
    BY <1>5, <1>6, SimulationsAreRows DEF SimulationRow
  <1>9. simulation' = [simulation EXCEPT ![i] = row]
    <2>1. simulation' = [simulation EXCEPT ![i].status = IF @ = "pending" THEN "failed" ELSE @]
      BY <1>1 DEF FailRun
    <2>2. simulation' = [simulation EXCEPT ![i] = [s EXCEPT !.status = status]]
      BY <1>3, <1>4, <1>5, <2>1 DEF TypeInv, StateOK
    <2>3. [s EXCEPT !.status = status] = row
      BY <1>6, FailedSimulation
    <2>. QED
      BY <2>2, <2>3
  <1>10. row.watermark = s.watermark /\ row.customers = s.customers /\ row.known = s.known
    BY <1>6 DEF SimulationRow
  <1>. QED
    BY <1>3, <1>4, <1>7, <1>8, <1>9, <1>10

LEMMA SimulateWrites ==
  ASSUME TypeInv, NEW r \in Open, Simulate(r)
  PROVE  \E i \in SimulationIds, row \in Simulation :
           /\ simulation[i] = None /\ Charged(i) /\ row = request[r].read
           /\ i = request[r].ask.on /\ request[r].ask.op = "simulate"
           /\ simulation' = [simulation EXCEPT ![i] = row]
  <1>1. request[r].ask.op = "simulate" /\ request[r].read # None
        /\ simulation[request[r].ask.on] = None
        /\ simulation' = [simulation EXCEPT ![request[r].ask.on] = request[r].read]
    BY DEF Simulate, Writes
  <1>2. request[r].ask.on \in SimulationIds /\ request[r].read \in Simulation
        /\ Charged(request[r].ask.on)
    BY <1>1, OpenRequest DEF ReadOK, Refers, AskOK, AskDefinition,
         MeterAsk, FeatureAsk, PlanAsk, CustomerAsk, SubscriptionAsk, ConfigureAsk
  <1>. QED
    BY <1>1, <1>2

LEMMA SimulationTypes ==
  ASSUME TypeInv, NEW r \in Open, SimulationStep(r)
  PROVE  /\ simulation' \in [SimulationIds -> Simulation \union {None}]
         /\ \A i \in SimulationIds : simulation[i] # None => Pinned(simulation[i], simulation'[i])
         /\ \A i \in SimulationIds : simulation'[i] # None => Charged(i)
  <1>1. simulation \in [SimulationIds -> Simulation \union {None}] /\ None \notin Simulation
        /\ \A i \in SimulationIds : simulation[i] # None => Charged(i)
    BY NoSimulationAssumption DEF TypeInv, StateOK, LinksOK
  <1>2. CASE LookAtPlans(r) \/ LoadDefinitions(r) \/ ReadBatch(r)
    <2>1. simulation' = simulation
      BY <1>2 DEF LookAtPlans, LoadDefinitions, ReadBatch
    <2>. QED
      BY <1>1, <2>1 DEF Pinned
  <1>3. CASE Simulate(r)
    <2>1. PICK i \in SimulationIds, row \in Simulation :
            simulation[i] = None /\ Charged(i) /\ simulation' = [simulation EXCEPT ![i] = row]
      BY <1>3, SimulateWrites
    <2>. QED
      BY <1>1, <2>1 DEF Pinned
  <1>4. CASE CompleteRun(r) \/ FailRun(r)
    <2>1. PICK i \in SimulationIds, row \in Simulation :
            /\ simulation' = [simulation EXCEPT ![i] = row] /\ Charged(i)
            /\ row.watermark = simulation[i].watermark /\ row.customers = simulation[i].customers
            /\ row.known = simulation[i].known
      <3>1. CASE CompleteRun(r)
        BY <3>1, CompleteRunWrites DEF SimulationRow
      <3>2. CASE FailRun(r)
        BY <3>2, FailRunWrites
      <3>. QED
        BY <1>4, <3>1, <3>2
    <2>. QED
      BY <1>1, <2>1 DEF Pinned
  <1>. QED
    BY <1>2, <1>3, <1>4 DEF SimulationStep

-----------------------------------------------------------------------------
(* Every step *)

LEMMA RowsFound ==
  ASSUME NEW row \in SimulationRows, StateOK
  PROVE  /\ row \in SubscriptionIds => row \in Sold
         /\ row \in Versions => version[row] # None
  <1>1. CatalogRows \intersect SubscriptionIds = {}
    BY SubscriptionsAssumption DEF CatalogRows, StateOK, Known
  <1>2. \A v \in CatalogRows \intersect Versions : version[v] # None
    BY CatalogAssumption DEF CatalogRows, StateOK, Known
  <1>3. SimulationIds \intersect (SubscriptionIds \union Versions) = {}
        /\ SubscriptionIds \intersect Versions = {}
    BY SimulationsAssumption, SubscriptionsAssumption
  <1>. QED
    BY <1>1, <1>2, <1>3 DEF SimulationRows, Sold

LEMMA TakenReads ==
  ASSUME TypeInv, NEW r \in Open, Take(r, SimulationRows), UNCHANGED <<billing, Others>>
  PROVE  /\ Changes(r)
         /\ \A q : q = request'[r] => ReadOK(q) /\ Refers(q)'
  <1> DEFINE p == request[r]
  <1>1. /\ Changes(r) /\ p.read = None /\ Head(p.rows) \in SimulationRows
        /\ request'[r] = [ask |-> p.ask, at |-> p.at, rows |-> Tail(p.rows),
                          locks |-> p.locks \union {Head(p.rows)}, read |-> None]
    BY TakeChanges DEF TypeInv
  <1>2. PICK q : q = request'[r]
    OBVIOUS
  <1>3. q.ask = p.ask /\ q.locks = p.locks \union {Head(p.rows)} /\ q.read = None
    BY <1>1, <1>2
  <1>4. ReadOK(q)
    BY <1>3 DEF ReadOK
  <1>5. Refers(p) /\ AskOK(p.ask) /\ setting \in Settings /\ StateOK
    BY OpenRequest DEF TypeInv
  <1>6. Refers(q)
    <2>1. q.ask.op = "cancel" /\ q.ask.on \in q.locks => q.ask.on \in Sold
      <3>. SUFFICES ASSUME q.ask.op = "cancel", q.ask.on \in q.locks PROVE q.ask.on \in Sold
        OBVIOUS
      <3>1. q.ask.on \in SubscriptionIds
        BY <1>3, <1>5 DEF AskOK, AskDefinition,
             MeterAsk, FeatureAsk, PlanAsk, CustomerAsk, SubscriptionAsk, ConfigureAsk
      <3>. QED
        BY <1>1, <1>3, <1>5, <3>1, RowsFound DEF Refers
    <2>2. q.ask.op \in {"publish version", "archive version"} /\ q.ask.on \in q.locks =>
            version[q.ask.on] # None
      <3>. SUFFICES ASSUME q.ask.op \in {"publish version", "archive version"},
                           q.ask.on \in q.locks
                    PROVE  version[q.ask.on] # None
        OBVIOUS
      <3>1. q.ask.on \in Versions
        BY <1>3, <1>5 DEF AskOK, AskDefinition,
             MeterAsk, FeatureAsk, PlanAsk, CustomerAsk, SubscriptionAsk, ConfigureAsk
      <3>. QED
        BY <1>1, <1>3, <1>5, <3>1, RowsFound DEF Refers
    <2>. QED
      BY <1>3, <1>5, <2>1, <2>2 DEF Refers
  <1>7. subscription' = subscription /\ simulation' = simulation /\ version' = version
        /\ setting' = setting
    BY DEF billing, Others, Take, catalog
  <1>8. Refers(q)'
    BY <1>6, <1>7 DEF Refers, Sold, Charged, Plan
  <1>. QED
    BY <1>1, <1>2, <1>4, <1>8

\* A request that comes reads nothing, and holds nothing yet.
LEMMA ReceivedReads ==
  ASSUME TypeInv, NEW r \in Requests, NEW ask, NEW rows, Receive(r, ask, rows),
         AskOK(ask), rows \in Seq(Rows),
         ask.op = "publish meter version" => Measure(ask.on).meter \in RowsIn(rows),
         ask.op \in {"cancel", "refresh", "publish version", "archive version"} =>
           ask.on \in RowsIn(rows),
         ask.op = "refresh" => ask.on \in Sold',
         ask.op = "run" => simulation'[ask.on] # None
  PROVE  /\ Changes(r) /\ request'[r].ask = ask /\ request'[r].read = None
         /\ request'[r].locks = {}
         /\ \A q : q = request'[r] => ReadOK(q) /\ Refers(q)'
  <1>1. Changes(r)
    BY ReceiveChanges DEF TypeInv
  <1>2. PICK q : q = request'[r]
    OBVIOUS
  <1>3. q = [ask |-> ask, at |-> now, rows |-> rows, locks |-> {}, read |-> None]
    BY <1>2 DEF Receive, TypeInv, RequestsInv
  <1>4. q.ask = ask /\ q.locks = {} /\ q.read = None
    BY <1>3
  <1>5. ReadOK(q)
    BY <1>4 DEF ReadOK
  <1>6. Refers(q)'
    BY <1>4 DEF Refers
  <1>. QED
    BY <1>1, <1>2, <1>4, <1>5, <1>6

LEMMA AskChanges ==
  ASSUME TypeInv, NEW r \in Requests, Ask(r)
  PROVE  /\ Changes(r) /\ request'[r].read = None /\ request'[r].ask \in setting.asks
         /\ request'[r].locks = {}
         /\ \A q : q = request'[r] => ReadOK(q) /\ Refers(q)'
  <1>1. PICK ask \in setting.asks : Receive(r, ask, SaleRows(ask))
    BY DEF Ask
  <1>2. setting \in Settings
    BY DEF TypeInv, RequestsInv
  <1>3. AskDefinition(ask)
    BY <1>2, SettingFacts
  <1>4. /\ SaleRows(ask) \in Seq(Rows)
        /\ ask.op = "publish meter version" => Measure(ask.on).meter \in RowsIn(SaleRows(ask))
        /\ ask.op \in {"cancel", "publish version", "archive version"} =>
             ask.on \in RowsIn(SaleRows(ask))
    BY <1>2, <1>3, SaleRowsAreRows
  <1>5. ask.op # "refresh" /\ ask.op # "run"
    BY <1>3 DEF AskDefinition,
         MeterAsk, FeatureAsk, PlanAsk, CustomerAsk, SubscriptionAsk, ConfigureAsk
  <1>6. AskOK(ask)
    BY <1>3 DEF AskOK
  <1>7. /\ Changes(r) /\ request'[r].ask = ask /\ request'[r].read = None
        /\ request'[r].locks = {}
        /\ \A q : q = request'[r] => ReadOK(q) /\ Refers(q)'
    BY <1>1, <1>4, <1>5, <1>6, ReceivedReads
  <1>. QED
    BY <1>7

LEMMA ClaimRenewalChanges ==
  ASSUME TypeInv, NEW r \in Requests, ClaimRenewal(r)
  PROVE  /\ Changes(r) /\ request'[r].read = None /\ request'[r].locks = {}
         /\ request'[r].ask.op = "refresh"
         /\ (\E j \in renewal : request'[r].ask.on = j.of /\ request'[r].ask.of = j.at)
         /\ \A q : q = request'[r] => ReadOK(q) /\ Refers(q)'
  <1>1. PICK j \in renewal : /\ j.at <= now /\ UNCHANGED billing
                             /\ Receive(r, [op |-> "refresh", on |-> j.of, of |-> j.at],
                                        <<j.of, Sale(j.of).customer>>)
    BY DEF ClaimRenewal
  <1>2. PICK ask : ask = [op |-> "refresh", on |-> j.of, of |-> j.at]
    OBVIOUS
  <1>3. ask.op = "refresh" /\ ask.on = j.of /\ ask.of = j.at
    BY <1>2
  <1>4. j.of \in Sold /\ j.at \in Nat /\ setting \in Settings /\ now \in 0..setting.until
    BY DEF TypeInv, StateOK, LinksOK, RequestsInv, Renewal
  <1>5. setting.until \in 0..Horizon /\ Sale(j.of).customer \in Customers /\ Horizon \in Nat
    BY <1>4, SettingFacts, CatalogAssumption DEF Sold, SaleDefinition
  <1>6. AskOK(ask)
    BY <1>1, <1>3, <1>4, <1>5 DEF AskOK, Sold
  <1>7. j.of \in Rows /\ Sale(j.of).customer \in Rows
    BY <1>4, <1>5, RowsExist DEF Sold
  <1>8. <<j.of, Sale(j.of).customer>> \in Seq(Rows) /\ j.of \in RowsIn(<<j.of, Sale(j.of).customer>>)
    BY <1>7, RowsOfTwo
  <1>9. j.of \in Sold'
    BY <1>1, <1>4 DEF billing, Sold
  <1>10. Receive(r, ask, <<j.of, Sale(j.of).customer>>)
    BY <1>1, <1>2
  <1>11. /\ Changes(r) /\ request'[r].ask = ask /\ request'[r].read = None
         /\ request'[r].locks = {}
         /\ \A q : q = request'[r] => ReadOK(q) /\ Refers(q)'
    BY <1>3, <1>6, <1>8, <1>9, <1>10, ReceivedReads
  <1>. QED
    BY <1>3, <1>11

LEMMA ClaimSimulationChanges ==
  ASSUME TypeInv, NEW r \in Requests, ClaimSimulation(r)
  PROVE  /\ Changes(r) /\ request'[r].read = None /\ request'[r].locks = {}
         /\ request'[r].ask.op = "run"
         /\ \A q : q = request'[r] => ReadOK(q) /\ Refers(q)'
  <1>1. PICK i \in SimulationIds : /\ simulation[i] # None /\ UNCHANGED simulation
                                   /\ Receive(r, [op |-> "run", on |-> i], <<i>>)
    BY DEF ClaimSimulation
  <1>2. PICK ask : ask = [op |-> "run", on |-> i]
    OBVIOUS
  <1>3. ask.op = "run" /\ ask.on = i
    BY <1>2
  <1>4. AskOK(ask) /\ <<i>> \in Seq(Rows)
    BY <1>3, RowsExist, RowsOfOne DEF AskOK
  <1>5. Receive(r, ask, <<i>>)
    BY <1>1, <1>2
  <1>6. /\ Changes(r) /\ request'[r].ask = ask /\ request'[r].read = None
        /\ request'[r].locks = {}
        /\ \A q : q = request'[r] => ReadOK(q) /\ Refers(q)'
    BY <1>1, <1>3, <1>4, <1>5, ReceivedReads
  <1>. QED
    BY <1>3, <1>6

\* What has been proved of a step makes the links of the next state good.
LEMMA LinksStay ==
  ASSUME TypeInv, setting' = setting, Grows,
         \A v \in Versions : version'[v] # None => Priced(Definition(v).components),
         \A j \in renewal' : j.of \in Sold',
         \A i \in SimulationIds : simulation'[i] # None => Charged(i)
  PROVE  LinksOK'
  <1>1. setting \in Settings
    BY DEF TypeInv, RequestsInv
  <1>2. \A i \in SimulationIds : Plan(i).baseline \in Versions /\ Plan(i).candidate \in Versions
    BY <1>1, SettingFacts DEF SimulationDefinition
  <1>3. \A i \in SimulationIds : simulation'[i] # None => Charged(i)'
    BY <1>2 DEF Charged, Grows, Plan
  <1>4. \A v \in Versions : version'[v] # None => Priced(Definition(v).components)'
    BY DEF Definition, Priced
  <1>. QED
    BY <1>3, <1>4 DEF LinksOK

LEMMA QuietRequests ==
  ASSUME TypeInv, request' = request, setting' = setting, now' \in 0..setting.until, Grows
  PROVE  RequestsInv' /\ \A o \in Open' : (ReadOK(request[o]) /\ Refers(request[o]))'
  <1>1. RequestsInv'
    <2>1. \A o \in Open' : o \in Open /\ QueryOK(request'[o]) /\ Keeps(request'[o])
      BY DEF TypeInv, RequestsInv, Open
    <2>2. \A o \in Open' : QueryOK(request[o])' /\ Keeps(request[o])'
      BY <2>1 DEF QueryOK, AskOK, AskDefinition,
           MeterAsk, FeatureAsk, PlanAsk, CustomerAsk, SubscriptionAsk, ConfigureAsk, Keeps, Held, RowsIn, Measure
    <2>3. \A x, y \in Open' : x # y => request'[x].locks \intersect request'[y].locks = {}
      BY <2>1 DEF TypeInv, RequestsInv
    <2>. QED
      BY <2>2, <2>3 DEF RequestsInv, TypeInv
  <1>2. ASSUME NEW o \in Open' PROVE (ReadOK(request[o]) /\ Refers(request[o]))'
    <2>1. o \in Open
      BY DEF Open
    <2>2. PICK p : p = request[o]
      OBVIOUS
    <2>3. ReadOK(p) /\ Refers(p) /\ AskOK(p.ask) /\ setting \in Settings
      BY <2>1, <2>2, OpenRequest
    <2>4. Refers(p)'
      BY <2>3, RefersStays
    <2>. QED
      BY <2>2, <2>3, <2>4 DEF ReadOK, Refers
  <1>. QED
    BY <1>1, <1>2

LEMMA ReceiptsAreTyped ==
  ASSUME TypeInv, NEW e \in Events, Store(e)
  PROVE  /\ received' \in [Events -> Nat \union {None}] /\ Stored \subseteq Stored'
         /\ e \notin Stored
         /\ \E at \in 0..now : received' = [received EXCEPT ![e] = at] /\ at >= now - MaxLag
  <1>1. PICK at \in Max({now - MaxLag, 0})..now : received' = [received EXCEPT ![e] = at]
    BY DEF Store
  <1>2. now \in Nat /\ MaxLag \in Nat
    BY NowIsNatural, SimulationsAssumption DEF TypeInv
  <1>3. Max({now - MaxLag, 0}) = IF now - MaxLag >= 0 THEN now - MaxLag ELSE 0
    BY <1>2, MaxOfTwo
  <1>4. at \in 0..now /\ at \in Nat /\ at >= now - MaxLag
    BY <1>2, <1>3
  <1>5. received \in [Events -> Nat \union {None}] /\ None \notin Nat
    BY WordsAreSome DEF TypeInv, StateOK
  <1>. QED
    BY <1>1, <1>4, <1>5 DEF Stored, Store

LEMMA ComparesVersions ==
  ASSUME NEW q, q.ask.op = "simulate", NEW i, i = q.ask.on, Charged(i)'
  PROVE  Refers(q)'
  BY DEF Refers

LEMMA WorkChanges ==
  ASSUME TypeInv, NEW r \in Open, Work(r)
  PROVE  /\ Changes(r)
         /\ Grows
         /\ \A o \in Open' : (ReadOK(request[o]) /\ Refers(request[o]))'
         /\ StateOK' /\ LinksOK'
  <1> DEFINE p == request[r]
  <1>1. StateOK /\ LinksOK /\ setting \in Settings /\ r \in Requests
    BY OpenRequest DEF TypeInv
  <1>2. CASE Take(r, SimulationRows) /\ UNCHANGED <<billing, Others>>
    <2>1. Changes(r) /\ \A q : q = request'[r] => ReadOK(q) /\ Refers(q)'
      BY <1>2, TakenReads
    <2>2. UNCHANGED <<plan, version, meter, meterVersion, feature, subject, rebuild, subscription,
                      entitlement, renewal, simulation, received, redacted, setting>>
      BY <1>2 DEF Take, catalog, billing, Others
    <2>3. Grows /\ StateOK'
      BY <1>1, <2>2 DEF Grows, Sold, StateOK, Stored
    <2>4. LinksOK'
      BY <2>2, <2>3, <1>1, LinksStay DEF LinksOK, Sold
    <2>5. \A o \in Open' : (ReadOK(request[o]) /\ Refers(request[o]))'
      BY <2>1, <2>3, ReadsStay
    <2>. QED
      BY <2>1, <2>3, <2>4, <2>5
  <1>3. CASE Abort(r) /\ UNCHANGED <<billing, Others>>
    <2>1. Changes(r) /\ request'[r] = None
      BY <1>1, <1>3, FinishChanges DEF Abort, TypeInv
    <2>2. UNCHANGED <<plan, version, meter, meterVersion, feature, subject, rebuild, subscription,
                      entitlement, renewal, simulation, received, redacted, setting>>
      BY <1>3 DEF Abort, catalog, billing, Others
    <2>3. Grows /\ StateOK'
      BY <1>1, <2>2 DEF Grows, Sold, StateOK, Stored
    <2>4. LinksOK'
      BY <2>2, <2>3, <1>1, LinksStay DEF LinksOK, Sold
    <2>5. \A o \in Open' : (ReadOK(request[o]) /\ Refers(request[o]))'
      BY <2>1, <2>3, ReadsStay
    <2>. QED
      BY <2>1, <2>3, <2>4, <2>5
  <1>4. CASE CatalogStep(r) /\ UNCHANGED <<billing, Others>>
    <2>1. /\ Changes(r)
          /\ \/ request'[r] = None
             \/ /\ LookForOverlap(r)
                /\ request'[r] = [ask |-> p.ask, at |-> p.at, rows |-> <<>>, locks |-> p.locks,
                                  read |-> meterVersion[p.ask.on]]
      BY <1>4, CatalogChanges
    <2>2. UNCHANGED <<subscription, entitlement, renewal, simulation, received, redacted, setting>>
      BY <1>4, <2>1 DEF billing, Others, Changes
    <2>3. /\ plan' \in [Plans -> {"active", "archived", None}]
          /\ version' \in [Versions -> {"draft", "published", "archived", None}]
          /\ meter' \in [Meters -> {"draft", "active", "archived", None}]
          /\ meterVersion' \in [MeterVersions -> {"draft", "published", None}]
          /\ feature' \subseteq Features
          /\ subject' \in [Subjects -> Customers \union {None}]
          /\ rebuild' \subseteq MeterVersions
      BY <1>4, CatalogStepTypes
    <2>4. StateOK'
      BY <1>1, <2>2, <2>3 DEF StateOK, Stored
    <2>5. /\ \A v \in Versions : version[v] # None => version'[v] # None
          /\ \A v \in Versions : version'[v] # None => Priced(Definition(v).components)
      BY <1>4, CatalogStepVersions
    <2>6. Grows
      BY <2>2, <2>5 DEF Grows, Sold
    <2>7. LinksOK'
      BY <1>1, <2>2, <2>5, <2>6, LinksStay DEF LinksOK, Sold
    <2>8. \A q : q = request'[r] => (q # None => ReadOK(q) /\ Refers(q)')
      <3>1. CASE request'[r] = None
        BY <3>1
      <3>2. CASE LookForOverlap(r) /\ request'[r] = [ask |-> p.ask, at |-> p.at, rows |-> <<>>,
                                     locks |-> p.locks, read |-> meterVersion[p.ask.on]]
        <4>1. PICK q : q = request'[r]
          OBVIOUS
        <4>6. q.ask = p.ask /\ q.locks = p.locks /\ q.read = meterVersion[p.ask.on]
          BY <3>2, <4>1
        <4>2. q.ask = p.ask /\ q.locks = p.locks /\ q.read = meterVersion[p.ask.on]
              /\ p.ask.op = "publish meter version"
          BY <3>2, <4>6 DEF LookForOverlap, Reads
        <4>3. p.ask.on \in MeterVersions /\ Refers(p) /\ AskOK(p.ask)
          BY <4>2, OpenRequest DEF AskOK, AskDefinition,
               MeterAsk, FeatureAsk, PlanAsk, CustomerAsk, SubscriptionAsk, ConfigureAsk
        <4>4. ReadOK(q)
          BY <1>1, <4>2, <4>3 DEF ReadOK, StateOK
        <4>5. Refers(q)'
          BY <1>1, <2>2, <2>6, <4>2, <4>3, RefersStays
        <4>. QED
          BY <4>1, <4>4, <4>5
      <3>. QED
        BY <2>1, <3>1, <3>2
    <2>9. \A o \in Open' : (ReadOK(request[o]) /\ Refers(request[o]))'
      BY <2>1, <2>6, <2>8, ReadsStay
    <2>. QED
      BY <2>1, <2>4, <2>6, <2>7, <2>9
  <1>5. CASE SubscriptionStep(r) /\ UNCHANGED Others
    <2>1. Changes(r) /\ (request'[r] = None \/ Goes(p, request'[r]))
      BY <1>5, SubscriptionChanges
    <2>2. /\ subscription' \in [SubscriptionIds -> Subscription \union {None}]
          /\ entitlement' \subseteq Entitlement /\ renewal' \subseteq Renewal
          /\ Sold \subseteq Sold' /\ \A j \in renewal' : j.of \in Sold'
      BY <1>5, SubscriptionTypes
    <2>3. UNCHANGED <<plan, version, meter, meterVersion, feature, subject, rebuild, simulation,
                      received, redacted, setting>>
      BY <1>5 DEF SubscriptionStep, LookAtVersion, Subscribe, Cancel, Configure, ReadSubscription,
                  Refresh, Settle, Exhaust, Others, catalog
    <2>4. Grows /\ StateOK'
      BY <1>1, <2>2, <2>3 DEF Grows, StateOK, Stored
    <2>5. LinksOK'
      BY <1>1, <2>2, <2>3, <2>4, LinksStay DEF LinksOK
    <2>6. \A q : q = request'[r] => (q # None => ReadOK(q) /\ Refers(q)')
      <3>1. CASE request'[r] = None
        BY <3>1
      <3>2. CASE Goes(p, request'[r])
        <4>1. PICK q : q = request'[r]
          OBVIOUS
        <4>2. Goes(p, q) /\ Refers(p) /\ AskOK(p.ask)
          BY <3>2, <4>1, OpenRequest
        <4>3. Refers(q)'
          BY <1>1, <2>3, <2>4, <4>2, RefersStays DEF Goes
        <4>. QED
          BY <4>1, <4>2, <4>3 DEF Goes
      <3>. QED
        BY <2>1, <3>1, <3>2
    <2>7. \A o \in Open' : (ReadOK(request[o]) /\ Refers(request[o]))'
      BY <2>1, <2>4, <2>6, ReadsStay
    <2>. QED
      BY <2>1, <2>4, <2>5, <2>7
  <1>6. CASE SimulationStep(r)
    <2>1. /\ Changes(r)
          /\ \/ request'[r] = None \/ Goes(p, request'[r])
             \/ /\ Charged(p.ask.on)
                /\ \E found \in Simulation :
                     /\ request'[r] = [ask |-> p.ask, at |-> p.at, rows |-> <<>>,
                                       locks |-> p.locks, read |-> found]
                     /\ p.ask.op = "simulate"
      BY <1>6, SimulationChanges
    <2>2. /\ simulation' \in [SimulationIds -> Simulation \union {None}]
          /\ \A i \in SimulationIds : simulation[i] # None => Pinned(simulation[i], simulation'[i])
          /\ \A i \in SimulationIds : simulation'[i] # None => Charged(i)
      BY <1>6, SimulationTypes
    <2>3. UNCHANGED <<plan, version, meter, meterVersion, feature, subject, rebuild, subscription,
                      entitlement, renewal, received, redacted, setting>>
      BY <1>6 DEF SimulationStep, LookAtPlans, Simulate, LoadDefinitions, ReadBatch, CompleteRun,
                  FailRun, billing, catalog
    <2>4. Grows /\ StateOK'
      BY <1>1, <2>2, <2>3, NoSimulationAssumption DEF Grows, StateOK, Stored, Sold, Pinned
    <2>5. LinksOK'
      BY <1>1, <2>2, <2>3, <2>4, LinksStay DEF LinksOK, Sold
    <2>6. \A q : q = request'[r] => (q # None => ReadOK(q) /\ Refers(q)')
      <3>1. CASE request'[r] = None
        BY <3>1
      <3>2. CASE Goes(p, request'[r])
        <4>1. PICK q : q = request'[r]
          OBVIOUS
        <4>2. Goes(p, q) /\ Refers(p) /\ AskOK(p.ask)
          BY <3>2, <4>1, OpenRequest
        <4>3. Refers(q)'
          BY <1>1, <2>3, <2>4, <4>2, RefersStays DEF Goes
        <4>. QED
          BY <4>1, <4>2, <4>3 DEF Goes
      <3>3. ASSUME Charged(p.ask.on), p.ask.op = "simulate", NEW found \in Simulation,
                   request'[r] = [ask |-> p.ask, at |-> p.at, rows |-> <<>>, locks |-> p.locks,
                                  read |-> found]
            PROVE  \A q : q = request'[r] => (q # None => ReadOK(q) /\ Refers(q)')
        <4>1. PICK q : q = request'[r]
          OBVIOUS
        <4>2. q.ask = p.ask /\ q.read = found
          BY <3>3, <4>1
        <4>6. PICK i : i = p.ask.on
          OBVIOUS
        <4>3. ReadOK(q)
          BY <3>3, <4>2 DEF ReadOK
        <4>4. Charged(i)'
          BY <2>3, <3>3, <4>6 DEF Charged, Plan
        <4>5. Refers(q)'
          BY <3>3, <4>2, <4>4, <4>6, ComparesVersions
        <4>. QED
          BY <4>1, <4>3, <4>5
      <3>. QED
        BY <2>1, <3>1, <3>2, <3>3
    <2>7. \A o \in Open' : (ReadOK(request[o]) /\ Refers(request[o]))'
      BY <2>1, <2>4, <2>6, ReadsStay
    <2>. QED
      BY <2>1, <2>4, <2>5, <2>7
  <1>. QED
    BY <1>2, <1>3, <1>4, <1>5, <1>6 DEF Work

LEMMA InitTypes ==
  ASSUME Init
  PROVE  TypeInv
  <1>1. setting \in Settings /\ now = 0 /\ Open = {} /\ setting.until \in 0..Horizon /\ Horizon \in Nat
    BY SettingFacts, CatalogAssumption DEF Init, SubscriptionsInit, CatalogInit, Open
  <1>2. RequestsInv
    BY <1>1 DEF RequestsInv, Init, SubscriptionsInit, CatalogInit
  <1>3. Subjects \intersect setting.existing \subseteq Customers
        /\ \A v \in Versions \intersect setting.existing : \A i \in DOMAIN Definition(v).components :
             ValidPrice(Definition(v).components[i].price)
    BY <1>1, CatalogAssumption DEF BeginsWell, Definition
  <1>4. StateOK
    BY <1>1, <1>3 DEF StateOK, Init, SubscriptionsInit, CatalogInit, Status, Stored
  <1>5. \A v \in Versions : version[v] # None => Priced(Definition(v).components)
    <2>. SUFFICES ASSUME NEW v \in Versions, version[v] # None PROVE Priced(Definition(v).components)
      OBVIOUS
    <2>1. v \in setting.existing
      BY DEF Init, SubscriptionsInit, CatalogInit, Status
    <2>2. VersionDefinition(Definition(v))
      BY <1>1, CatalogAssumption DEF Definition
    <2>. QED
      BY <1>3, <2>1, <2>2 DEF Priced, VersionDefinition
  <1>6. LinksOK
    BY <1>5 DEF LinksOK, Init, SubscriptionsInit
  <1>. QED
    BY <1>1, <1>2, <1>4, <1>6 DEF TypeInv

LEMMA TypesStep ==
  ASSUME TypeInv, [Next]_vars
  PROVE  TypeInv' /\ setting' = setting /\ Grows
  <1>1. StateOK /\ LinksOK /\ setting \in Settings /\ now \in 0..setting.until
    BY DEF TypeInv, RequestsInv
  <1>2. setting.until \in Nat
    BY <1>1, SettingFacts, CatalogAssumption
  <1>3. CASE UNCHANGED vars
    <2>1. UNCHANGED <<now, setting, request, plan, version, meter, meterVersion, feature, subject,
                      rebuild, subscription, entitlement, renewal, simulation, received, redacted>>
      BY <1>3 DEF vars, subscriptionVars, catalogVars, catalog, billing
    <2>2. Grows /\ StateOK'
      BY <1>1, <2>1 DEF Grows, Sold, StateOK, Stored
    <2>3. LinksOK'
      BY <1>1, <2>1, <2>2, LinksStay DEF LinksOK, Sold
    <2>4. RequestsInv' /\ \A o \in Open' : (ReadOK(request[o]) /\ Refers(request[o]))'
      BY <1>1, <2>1, <2>2, QuietRequests
    <2>. QED
      BY <2>1, <2>2, <2>3, <2>4 DEF TypeInv
  <1>4. CASE Tick /\ UNCHANGED <<billing, Others>>
    <2>1. UNCHANGED <<setting, request, plan, version, meter, meterVersion, feature, subject,
                      rebuild, subscription, entitlement, renewal, simulation, received, redacted>>
      BY <1>4 DEF Tick, billing, Others, catalog
    <2>2. Grows /\ StateOK'
      BY <1>1, <2>1 DEF Grows, Sold, StateOK, Stored
    <2>3. LinksOK'
      BY <1>1, <2>1, <2>2, LinksStay DEF LinksOK, Sold
    <2>4. now' \in 0..setting.until
      BY <1>1, <1>2, <1>4 DEF Tick
    <2>5. RequestsInv' /\ \A o \in Open' : (ReadOK(request[o]) /\ Refers(request[o]))'
      BY <2>1, <2>2, <2>4, QuietRequests
    <2>. QED
      BY <2>1, <2>2, <2>3, <2>5 DEF TypeInv
  <1>5. CASE RetryRenewal /\ UNCHANGED Others
    <2>1. UNCHANGED <<now, setting, request, plan, version, meter, meterVersion, feature, subject,
                      rebuild, subscription, entitlement, simulation, received, redacted>>
      BY <1>5 DEF RetryRenewal, Others, catalogVars, catalog
    <2>2. PICK j \in renewal : renewal' = (renewal \ {j}) \union {[j EXCEPT !.state = "queued"]}
      BY <1>5 DEF RetryRenewal
    <2>3. [j EXCEPT !.state = "queued"] \in Renewal /\ [j EXCEPT !.state = "queued"].of = j.of
      BY <1>1 DEF StateOK, Renewal
    <2>4. renewal' \subseteq Renewal /\ \A k \in renewal' : k.of \in Sold'
      BY <1>1, <2>1, <2>2, <2>3 DEF StateOK, LinksOK, Sold
    <2>5. Grows /\ StateOK'
      BY <1>1, <2>1, <2>4 DEF Grows, Sold, StateOK, Stored
    <2>6. LinksOK'
      BY <1>1, <2>1, <2>4, <2>5, LinksStay DEF LinksOK
    <2>7. RequestsInv' /\ \A o \in Open' : (ReadOK(request[o]) /\ Refers(request[o]))'
      BY <1>1, <2>1, <2>5, QuietRequests
    <2>. QED
      BY <2>1, <2>5, <2>6, <2>7 DEF TypeInv
  <1>6. ASSUME NEW e \in Events, Store(e) \/ Redact(e)
        PROVE  TypeInv' /\ setting' = setting /\ Grows
    <2>1. UNCHANGED <<now, setting, request, plan, version, meter, meterVersion, feature, subject,
                      rebuild, subscription, entitlement, renewal, simulation>>
      BY <1>6 DEF Store, Redact, subscriptionVars, catalogVars, catalog, billing
    <2>2. received' \in [Events -> Nat \union {None}] /\ redacted' \subseteq Stored'
      <3>1. CASE Store(e)
        <4>1. received' \in [Events -> Nat \union {None}] /\ Stored \subseteq Stored'
          BY <3>1, ReceiptsAreTyped
        <4>. QED
          BY <1>1, <3>1, <4>1 DEF Store, StateOK
      <3>2. CASE Redact(e)
        BY <1>1, <3>2 DEF Redact, StateOK, Stored
      <3>. QED
        BY <1>6, <3>1, <3>2
    <2>3. Grows /\ StateOK'
      BY <1>1, <2>1, <2>2 DEF Grows, Sold, StateOK
    <2>4. LinksOK'
      BY <1>1, <2>1, <2>3, LinksStay DEF LinksOK, Sold
    <2>5. RequestsInv' /\ \A o \in Open' : (ReadOK(request[o]) /\ Refers(request[o]))'
      BY <1>1, <2>1, <2>3, QuietRequests
    <2>. QED
      BY <2>1, <2>3, <2>4, <2>5 DEF TypeInv
  <1>7. ASSUME NEW r \in Requests, \/ Ask(r) /\ UNCHANGED <<billing, Others>>
                                   \/ ClaimRenewal(r) /\ UNCHANGED Others
                                   \/ ClaimSimulation(r)
        PROVE  TypeInv' /\ setting' = setting /\ Grows
    <2>1. UNCHANGED <<now, setting, plan, version, meter, meterVersion, feature, subject,
                      rebuild, subscription, entitlement, renewal, simulation, received, redacted>>
      BY <1>7 DEF Ask, ClaimRenewal, ClaimSimulation, Receive, Others, billing, catalog
    <2>2. Changes(r) /\ \A q : q = request'[r] => ReadOK(q) /\ Refers(q)'
      BY <1>7, AskChanges, ClaimRenewalChanges, ClaimSimulationChanges
    <2>3. Grows /\ StateOK'
      BY <1>1, <2>1 DEF Grows, Sold, StateOK, Stored
    <2>4. LinksOK'
      BY <1>1, <2>1, <2>3, LinksStay DEF LinksOK, Sold
    <2>5. \A o \in Open' : (ReadOK(request[o]) /\ Refers(request[o]))'
      BY <2>2, <2>3, ReadsStay
    <2>6. RequestsInv'
      BY <2>2, ChangesPreserve DEF TypeInv
    <2>. QED
      BY <2>1, <2>3, <2>4, <2>5, <2>6 DEF TypeInv
  <1>8. ASSUME NEW r \in Open, Work(r)
        PROVE  TypeInv' /\ setting' = setting /\ Grows
    <2>1. /\ Changes(r) /\ Grows
          /\ \A o \in Open' : (ReadOK(request[o]) /\ Refers(request[o]))'
          /\ StateOK' /\ LinksOK'
      BY <1>8, WorkChanges
    <2>2. RequestsInv'
      BY <2>1, ChangesPreserve DEF TypeInv
    <2>. QED
      BY <2>1, <2>2 DEF TypeInv, Changes
  <1>. QED
    BY <1>3, <1>4, <1>5, <1>6, <1>7, <1>8 DEF Next

LEMMA TypesHold == Spec => []TypeInv
  <1>1. TypeInv /\ [Next]_vars => TypeInv'
    BY TypesStep
  <1>. QED
    BY <1>1, InitTypes, PTL DEF Spec

LEMMA TypesAreOK ==
  ASSUME TypeInv
  PROVE  BillingTypeOK
  <1>1. now \in Nat
    BY NowIsNatural DEF TypeInv
  <1>2. \A r \in Requests : request[r] # None =>
          request[r].at \in Nat /\ request[r].rows \in Seq(Rows) /\ request[r].locks \subseteq Rows
    BY DEF TypeInv, RequestsInv, Open, QueryOK
  <1>. QED
    BY <1>1, <1>2 DEF TypeInv, StateOK, RequestsInv, BillingTypeOK, SubscriptionsTypeOK, CatalogTypeOK

\* What the tables of the catalog, of billing and of simulations hold has its type, and so has
\* what requests keep: a summary is made of numbers, and a result belongs to a customer.
THEOREM TypeCorrect == Spec => []BillingTypeOK
  BY TypesHold, TypesAreOK, PTL

-----------------------------------------------------------------------------
(* Published meter versions *)

\* What a step makes of the requests there are.
LEMMA RequestSteps ==
  ASSUME TypeInv, [Next]_vars, NEW o \in Open'
  PROVE  \/ o \in Open /\ request'[o] = request[o]
         \/ request'[o].read = None
         \/ o \in Open /\ LookForOverlap(o)
         \/ o \in Open /\ SubscriptionStep(o) /\ UNCHANGED Others /\ Goes(request[o], request'[o])
         \/ /\ o \in Open /\ SimulationStep(o)
            /\ (Goes(request[o], request'[o]) \/ LookAtPlans(o))
  <1>1. RequestsInv
    BY DEF TypeInv
  <1>2. CASE UNCHANGED request
    BY <1>2 DEF Open
  <1>3. ASSUME NEW r \in Requests, Ask(r) \/ ClaimRenewal(r) \/ ClaimSimulation(r)
        PROVE  (o \in Open /\ request'[o] = request[o]) \/ request'[o].read = None
    <2>1. Changes(r) /\ request'[r].read = None
      BY <1>3, AskChanges, ClaimRenewalChanges, ClaimSimulationChanges
    <2>. QED
      BY <1>1, <2>1, OthersStay
  <1>4. ASSUME NEW r \in Open, Work(r), o # r
        PROVE  o \in Open /\ request'[o] = request[o]
    <2>1. Changes(r)
      BY <1>4, WorkChanges
    <2>. QED
      BY <1>1, <1>4, <2>1, OthersStay
  <1>5. ASSUME o \in Open, Work(o)
        PROVE  \/ request'[o].read = None
               \/ LookForOverlap(o)
               \/ SubscriptionStep(o) /\ UNCHANGED Others /\ Goes(request[o], request'[o])
               \/ SimulationStep(o) /\ (Goes(request[o], request'[o]) \/ LookAtPlans(o))
    <2>1. request'[o] # None
      BY DEF Open
    <2>2. CASE Take(o, SimulationRows)
      <3>1. request'[o] = [ask |-> request[o].ask, at |-> request[o].at,
                           rows |-> Tail(request[o].rows),
                           locks |-> request[o].locks \union {Head(request[o].rows)}, read |-> None]
        BY <1>1, <1>5, <2>2, TakeChanges
      <3>. QED
        BY <3>1
    <2>3. CASE Abort(o)
      BY <1>1, <1>5, <2>1, <2>3, FinishChanges DEF Abort, Open
    <2>4. CASE CatalogStep(o)
      BY <1>5, <2>1, <2>4, CatalogChanges
    <2>5. CASE SubscriptionStep(o) /\ UNCHANGED Others
      BY <1>5, <2>1, <2>5, SubscriptionChanges
    <2>6. CASE SimulationStep(o)
      <3>1. CASE LookAtPlans(o)
        BY <2>6, <3>1
      <3>2. CASE ~LookAtPlans(o)
        <4>1. ~Charged(request[o].ask.on) \/ request[o].ask.op # "simulate" \/ Simulate(o)
          BY <2>6, <3>2 DEF SimulationStep, LoadDefinitions, ReadBatch, CompleteRun, FailRun, Reads,
                            Writes
        <4>2. ~Simulate(o)
          BY <1>1, <1>5, <2>1, FinishChanges DEF Simulate, Open
        <4>. QED
          BY <1>5, <2>1, <2>6, <4>1, <4>2, SimulationChanges
      <3>. QED
        BY <3>1, <3>2
    <2>. QED
      BY <1>5, <2>2, <2>3, <2>4, <2>5, <2>6 DEF Work
  <1>6. UNCHANGED request \/ (\E r \in Requests : Ask(r) \/ ClaimRenewal(r) \/ ClaimSimulation(r))
        \/ \E r \in Open : Work(r)
    BY DEF Next, Tick, RetryRenewal, Store, Redact, vars, subscriptionVars, catalogVars
  <1>. QED
    BY <1>2, <1>3, <1>4, <1>5, <1>6

Published == {m \in MeterVersions : meterVersion[m] = "published"}

Unrivalled(m) == \A o \in Rivals(m) : ~IntervalsOverlap(Measure(o), Measure(m))

\* Who has looked for overlaps still finds none.
OverlapInv ==
  /\ PublishedMeterVersionsDoNotOverlap
  /\ \A r \in Open, m \in MeterVersions :
       /\ request[r].ask.op = "publish meter version" /\ request[r].ask.on = m
       /\ request[r].read # None
       => Unrivalled(m)

LEMMA PublishedBy ==
  ASSUME TypeInv, [Next]_vars
  PROVE  \/ Published' = Published
         \/ \E r \in Open :
              /\ request[r].ask.op = "publish meter version" /\ request[r].read # None
              /\ request[r].ask.on \in MeterVersions
              /\ Published' = Published \union {request[r].ask.on} /\ request'[r] = None
  <1>1. meterVersion \in [MeterVersions -> {"draft", "published", None}] /\ RequestsInv
    BY DEF TypeInv, StateOK
  <1>2. CASE UNCHANGED meterVersion
    BY <1>2 DEF Published
  <1>3. ASSUME NEW r \in Open, CreateMeterVersion(r)
        PROVE  Published' = Published
    BY <1>1, <1>3, WordsAreSome DEF CreateMeterVersion, Published
  <1>4. ASSUME NEW r \in Open, PublishMeterVersion(r)
        PROVE  \/ Published' = Published
               \/ /\ request[r].ask.op = "publish meter version" /\ request[r].read # None
                  /\ request[r].ask.on \in MeterVersions
                  /\ Published' = Published \union {request[r].ask.on} /\ request'[r] = None
    <2>1. PICK m : m = request[r].ask.on
      OBVIOUS
    <2>2. request[r].ask.op = "publish meter version" /\ request[r].read # None
      BY <1>4 DEF PublishMeterVersion, Writes
    <2>3. m \in MeterVersions
      BY <2>1, <2>2, OpenRequest DEF AskOK, AskDefinition,
           MeterAsk, FeatureAsk, PlanAsk, CustomerAsk, SubscriptionAsk, ConfigureAsk
    <2>4. request'[r] = None
      BY <1>1, <1>4, FinishChanges DEF PublishMeterVersion, Open
    <2>5. meterVersion' = meterVersion \/ meterVersion' = [meterVersion EXCEPT ![m] = "published"]
      BY <1>4, <2>1 DEF PublishMeterVersion
    <2>. QED
      BY <1>1, <2>1, <2>2, <2>3, <2>4, <2>5 DEF Published
  <1>5. UNCHANGED meterVersion \/ \E r \in Open : CreateMeterVersion(r) \/ PublishMeterVersion(r)
    <2>1. ASSUME NEW r \in Open, Work(r)
          PROVE  UNCHANGED meterVersion \/ CreateMeterVersion(r) \/ PublishMeterVersion(r)
      <3>1. CASE Take(r, SimulationRows) \/ Abort(r)
        BY <3>1 DEF Take, Abort, catalog
      <3>2. CASE CatalogStep(r)
        BY <3>2 DEF CatalogStep, CreateMeter, ArchiveMeter, LookForOverlap, CreateFeature, CreatePlan,
                    ArchivePlan, CreateVersion, PublishVersion, ArchiveVersion, SetVersion,
                    CreateCustomer, AttachSubject, catalog
      <3>3. CASE SubscriptionStep(r)
        BY <3>3 DEF SubscriptionStep, LookAtVersion, Subscribe, Cancel, Configure, ReadSubscription,
                    Refresh, Settle, Exhaust, catalog
      <3>4. CASE SimulationStep(r)
        BY <3>4 DEF SimulationStep, LookAtPlans, Simulate, LoadDefinitions, ReadBatch, CompleteRun,
                    FailRun, catalog
      <3>. QED
        BY <2>1, <3>1, <3>2, <3>3, <3>4 DEF Work
    <2>. QED
      BY <2>1 DEF Next, Tick, RetryRenewal, Store, Redact, Ask, ClaimRenewal, ClaimSimulation, Receive,
                  vars, subscriptionVars, catalogVars, catalog
  <1>. QED
    BY <1>2, <1>3, <1>4, <1>5

\* Two requests that have looked for overlaps publish versions of different meters.
LEMMA MetersDiffer ==
  ASSUME TypeInv, NEW r \in Open, NEW o \in Open, r # o,
         request[r].ask.op = "publish meter version", request[r].read # None,
         request[o].ask.op = "publish meter version", request[o].read # None
  PROVE  Measure(request[r].ask.on).meter # Measure(request[o].ask.on).meter
  <1>1. request[r].rows = <<>> /\ request[o].rows = <<>> /\ Keeps(request[r]) /\ Keeps(request[o])
    BY OpenRequest DEF QueryOK
  <1>2. Measure(request[r].ask.on).meter \in request[r].locks
        /\ Measure(request[o].ask.on).meter \in request[o].locks
    BY <1>1, NothingWaits DEF Keeps
  <1>3. request[r].locks \intersect request[o].locks = {}
    BY DEF TypeInv, RequestsInv
  <1>. QED
    BY <1>2, <1>3

LEMMA RivalsAre ==
  ASSUME NEW m
  PROVE  Rivals(m) = {o \in Published \ {m} : Measure(o).meter = Measure(m).meter}
  BY DEF Rivals, Published

LEMMA OverlapsAre ==
  PublishedMeterVersionsDoNotOverlap <=> \A m \in Published : Unrivalled(m)
  <1>1. \A a, b : IntervalsOverlap(a, b) <=> IntervalsOverlap(b, a)
    BY DEF IntervalsOverlap
  <1>. QED
    BY <1>1 DEF PublishedMeterVersionsDoNotOverlap, Published, Unrivalled, Rivals

LEMMA OverlapStep ==
  ASSUME TypeInv, OverlapInv, [Next]_vars
  PROVE  OverlapInv'
  <1>1. setting' = setting
    BY TypesStep
  <1>2. \A a, b : IntervalsOverlap(a, b) <=> IntervalsOverlap(b, a)
    BY DEF IntervalsOverlap
  <1>3. \A m \in Published : Unrivalled(m)
    BY OverlapsAre DEF OverlapInv
  <1>4. ASSUME NEW o \in Open', request'[o].ask.op = "publish meter version", request'[o].read # None
        PROVE  /\ o \in Open /\ request'[o].ask = request[o].ask
               /\ request[o].ask.op = "publish meter version"
               /\ request[o].ask.on \in MeterVersions
               /\ Unrivalled(request[o].ask.on)
               /\ (request'[o] = request[o] /\ request[o].read # None) \/ Published' = Published
    <2>5. o \in Open /\ request[o].ask.op = "publish meter version" =>
            request[o].ask.on \in MeterVersions
      BY OpenRequest DEF AskOK, AskDefinition,
           MeterAsk, FeatureAsk, PlanAsk, CustomerAsk, SubscriptionAsk, ConfigureAsk
    <2>1. CASE o \in Open /\ request'[o] = request[o]
      BY <1>4, <2>1, <2>5 DEF OverlapInv
    <2>2. CASE o \in Open /\ LookForOverlap(o)
      <3>1. CatalogStep(o)
        BY <2>2 DEF CatalogStep
      <3>2. request'[o] = [ask |-> request[o].ask, at |-> request[o].at, rows |-> <<>>,
                           locks |-> request[o].locks, read |-> meterVersion[request[o].ask.on]]
        BY <1>4, <2>2, <3>1, CatalogChanges DEF Open
      <3>3. request'[o].ask = request[o].ask
        BY <3>2
      <3>4. Unrivalled(request[o].ask.on) /\ Published' = Published
        BY <2>2 DEF LookForOverlap, Unrivalled, Published, catalog
      <3>. QED
        BY <1>4, <2>2, <2>5, <3>3, <3>4
    <2>3. CASE o \in Open /\ Goes(request[o], request'[o])
      BY <1>4, <2>3 DEF Goes
    <2>4. CASE o \in Open /\ LookAtPlans(o)
      <3>1. request[o].ask.op = "simulate" /\ SimulationStep(o)
        BY <2>4 DEF LookAtPlans, Reads, SimulationStep
      <3>2. request'[o] # None
        BY DEF Open
      <3>3. request'[o].ask = request[o].ask
        BY <2>4, <3>1, <3>2, SimulationAsks
      <3>. QED
        BY <1>4, <3>1, <3>3
    <2>. QED
      BY <1>4, <2>1, <2>2, <2>3, <2>4, RequestSteps
  <1>7. (\A m \in Published' : Unrivalled(m)') => PublishedMeterVersionsDoNotOverlap'
    BY <1>2 DEF PublishedMeterVersionsDoNotOverlap, Published, Unrivalled, Rivals
  <1>5. CASE Published' = Published
    <2>1. \A m : Unrivalled(m)' <=> Unrivalled(m)
      BY <1>1, <1>5, RivalsAre DEF Unrivalled, Measure, Rivals, Published
    <2>2. \A m \in Published' : Unrivalled(m)'
      BY <1>3, <1>5, <2>1
    <2>3. PublishedMeterVersionsDoNotOverlap'
      BY <1>7, <2>2
    <2>4. \A r \in Open', m \in MeterVersions :
            /\ request'[r].ask.op = "publish meter version" /\ request'[r].ask.on = m
            /\ request'[r].read # None
            => Unrivalled(m)
      BY <1>4
    <2>. QED
      BY <2>1, <2>3, <2>4 DEF OverlapInv
  <1>6. ASSUME NEW r \in Open,
               request[r].ask.op = "publish meter version", request[r].read # None,
               request[r].ask.on \in MeterVersions,
               Published' = Published \union {request[r].ask.on}, request'[r] = None,
               Published' # Published
        PROVE  OverlapInv'
    <2>1. PICK n \in MeterVersions : n = request[r].ask.on
      BY <1>6
    <2>2. Unrivalled(n)
      BY <1>6, <2>1 DEF OverlapInv
    <2>3. \A m \in Published' : Unrivalled(m)'
      <3>1. \A m : Rivals(m)' = {o \in Published' \ {m} : Measure(o).meter = Measure(m).meter}
        BY <1>1 DEF Rivals, Published, Measure
      <3>2. \A m : Rivals(m) = {o \in Published \ {m} : Measure(o).meter = Measure(m).meter}
        BY RivalsAre
      <3>3. ASSUME NEW m \in Published', NEW o \in Rivals(m)'
            PROVE  ~IntervalsOverlap(Measure(o), Measure(m))
        <4>1. CASE m = n
          <5>1. o \in Rivals(n)
            BY <1>6, <2>1, <3>1, <3>2, <3>3, <4>1
          <5>. QED
            BY <2>2, <4>1, <5>1 DEF Unrivalled
        <4>2. CASE m # n /\ o = n
          <5>1. m \in Rivals(n)
            BY <1>6, <2>1, <3>1, <3>2, <3>3, <4>2
          <5>. QED
            BY <1>2, <2>2, <4>2, <5>1 DEF Unrivalled
        <4>3. CASE m # n /\ o # n
          <5>1. m \in Published /\ o \in Rivals(m)
            BY <1>6, <2>1, <3>1, <3>2, <3>3, <4>3
          <5>. QED
            BY <1>3, <5>1 DEF Unrivalled
        <4>. QED
          BY <4>1, <4>2, <4>3
      <3>. QED
        BY <1>1, <3>3 DEF Unrivalled, Measure
    <2>4. PublishedMeterVersionsDoNotOverlap'
      BY <1>7, <2>3
    <2>5. ASSUME NEW o \in Open', NEW m \in MeterVersions, m = request'[o].ask.on,
                 request'[o].ask.op = "publish meter version", request'[o].read # None
          PROVE  Unrivalled(m)'
      <3>2. o \in Open /\ o # r /\ request[o].ask.on = m /\ Unrivalled(m)
            /\ request[o].ask.op = "publish meter version" /\ request[o].read # None
        BY <1>4, <1>6, <2>5 DEF Open
      <3>3. Measure(n).meter # Measure(m).meter
        BY <1>6, <2>1, <3>2, MetersDiffer
      <3>4. Rivals(m)' = {x \in Published' \ {m} : Measure(x).meter = Measure(m).meter}
        BY <1>1 DEF Rivals, Published, Measure
      <3>5. Rivals(m)' = Rivals(m)
        BY <1>6, <2>1, <3>3, <3>4, RivalsAre
      <3>. QED
        BY <1>1, <3>2, <3>5 DEF Unrivalled, Measure
    <2>. QED
      BY <2>4, <2>5 DEF OverlapInv
  <1>. QED
    BY <1>5, <1>6, PublishedBy

LEMMA OverlapInit ==
  ASSUME Init
  PROVE  OverlapInv
  <1>1. setting \in Settings /\ Open = {}
    BY DEF Init, SubscriptionsInit, CatalogInit, Open
  <1>2. BeginsWell(setting)
    BY <1>1, CatalogAssumption
  <1>3. \A m \in MeterVersions : meterVersion[m] = "published" =>
          m \in setting.existing /\ m \in setting.published
    BY WordsAreSome DEF Init, SubscriptionsInit, CatalogInit, Status
  <1>. QED
    BY <1>1, <1>2, <1>3 DEF OverlapInv, PublishedMeterVersionsDoNotOverlap, BeginsWell, Measure

\* Two published versions of a meter are never in force at one moment: the lock of the meter,
\* which a request takes before it looks for overlaps, keeps the next one waiting until the
\* version is published or the request has gone.
THEOREM VersionsDoNotOverlap == Spec => []PublishedMeterVersionsDoNotOverlap
  <1>1. TypeInv /\ OverlapInv /\ [Next]_vars => OverlapInv'
    BY OverlapStep
  <1>2. OverlapInv => PublishedMeterVersionsDoNotOverlap
    BY DEF OverlapInv
  <1>. QED
    BY <1>1, <1>2, OverlapInit, TypesHold, PTL DEF Spec

-----------------------------------------------------------------------------
(* Entitlements and renewals *)

Covered(s, f, day) == \E e \in entitlement : e.of = s /\ e.feature = f /\ e.from <= day /\ day < e.to

\* A moment of the term that was sold, and of what is left of it.
InTerm(s, day) == Before(day, subscription[s].end) /\ Before(day, Sale(s).end)

DueBetween(s, b, day) ==
  \E j \in renewal : j.of = s /\ j.state # "done" /\ b <= j.at /\ j.at <= day

\* Every moment from a is covered, or a renewal at b or later is due before.
Linked(s, a, b) ==
  \A f \in Entitled(Sale(s).version), day \in Nat :
    a <= day /\ InTerm(s, day) => Covered(s, f, day) \/ DueBetween(s, b, day)

Fits(e) ==
  /\ e.of \in Sold /\ Sale(e.of).start <= e.from
  /\ subscription[e.of].end # None => e.to <= subscription[e.of].end \/ e.from >= subscription[e.of].end

\* A refresh has read the period of a moment, whose end nobody changes meanwhile; when it is
\* done, what comes after that moment does not depend on its job any more.
RefreshOK(q) ==
  /\ Sale(q.ask.on).start <= q.ask.of
  /\ q.read # None /\ q.read.state = "open" =>
       /\ q.read.end = subscription[q.ask.on].end /\ q.read.period.start = q.ask.of
       /\ PeriodFits(q.read.period, q.ask.of, Sale(q.ask.on).start, q.read.end)
  /\ q.read # None /\ q.read.state = "done" => Linked(q.ask.on, q.ask.of, q.ask.of + 1)

RenewalInv ==
  /\ \A s \in Sold : /\ ~subscription[s].canceled => subscription[s].end = Sale(s).end
                     /\ Linked(s, Sale(s).start, Sale(s).start)
  /\ \A e \in entitlement : e.of # None => Fits(e)
  /\ \A j \in renewal : Sale(j.of).start <= j.at /\ Linked(j.of, j.at, j.at)
  /\ \A r \in Open : request[r].ask.op = "refresh" => RefreshOK(request[r])

LEMMA BillingSteps ==
  ASSUME [Next]_vars
  PROVE  \/ UNCHANGED billing
         \/ RetryRenewal
         \/ \E r \in Open : Subscribe(r) \/ Cancel(r) \/ Configure(r) \/ Refresh(r) \/ Settle(r)
                            \/ Exhaust(r)
  <1>1. ASSUME NEW r \in Open, Work(r)
        PROVE  UNCHANGED billing \/ SubscriptionStep(r)
    <2>1. CASE SimulationStep(r)
      BY <2>1 DEF SimulationStep, LookAtPlans, Simulate, LoadDefinitions, ReadBatch, CompleteRun, FailRun
    <2>. QED
      BY <1>1, <2>1 DEF Work
  <1>2. \A r \in Open : LookAtVersion(r) \/ ReadSubscription(r) => UNCHANGED billing
    BY DEF LookAtVersion, ReadSubscription
  <1>. QED
    BY <1>1, <1>2 DEF Next, Store, Redact, ClaimRenewal, ClaimSimulation, vars, subscriptionVars,
                      SubscriptionStep

LEMMA RefreshSteps ==
  ASSUME TypeInv, [Next]_vars, NEW o \in Open', request'[o].ask.op = "refresh"
  PROVE  \/ /\ request'[o].read = None
            /\ \E j \in renewal : request'[o].ask.on = j.of /\ request'[o].ask.of = j.at
         \/ /\ o \in Open /\ request'[o].ask = request[o].ask
            /\ (request'[o].read = request[o].read \/ ReadSubscription(o) \/ Refresh(o))
  <1>1. RequestsInv
    BY DEF TypeInv
  <1>2. CASE UNCHANGED request
    BY <1>2 DEF Open
  <1>3. ASSUME NEW r \in Requests, Ask(r) \/ ClaimRenewal(r) \/ ClaimSimulation(r), o # r
        PROVE  o \in Open /\ request'[o] = request[o]
    <2>1. Changes(r)
      BY <1>3, AskChanges, ClaimRenewalChanges, ClaimSimulationChanges
    <2>. QED
      BY <1>1, <1>3, <2>1, OthersStay
  <1>4. CASE o \in Requests /\ (Ask(o) \/ ClaimSimulation(o))
    <2>1. Ask(o) => request'[o].ask.op # "refresh"
      <3>1. setting \in Settings
        BY <1>1 DEF RequestsInv
      <3>. QED
        BY <1>4, <3>1, AskChanges, SettingFacts DEF AskDefinition,
             MeterAsk, FeatureAsk, PlanAsk, CustomerAsk, SubscriptionAsk, ConfigureAsk
    <2>2. ClaimSimulation(o) => request'[o].ask.op # "refresh"
      BY <1>4, ClaimSimulationChanges
    <2>. QED
      BY <1>4, <2>1, <2>2
  <1>5. CASE o \in Requests /\ ClaimRenewal(o)
    BY <1>5, ClaimRenewalChanges
  <1>6. ASSUME NEW r \in Open, Work(r), o # r
        PROVE  o \in Open /\ request'[o] = request[o]
    <2>1. Changes(r)
      BY <1>6, WorkChanges
    <2>. QED
      BY <1>1, <1>6, <2>1, OthersStay
  <1>7. CASE o \in Open /\ Work(o)
    <2>1. request'[o] # None
      BY DEF Open
    <2>2. CASE Take(o, SimulationRows)
      <3>1. request'[o] = [ask |-> request[o].ask, at |-> request[o].at,
                           rows |-> Tail(request[o].rows),
                           locks |-> request[o].locks \union {Head(request[o].rows)}, read |-> None]
            /\ request[o].read = None
        BY <1>1, <1>7, <2>2, TakeChanges
      <3>2. request'[o].ask = request[o].ask /\ request'[o].read = None
        BY <3>1
      <3>. QED
        BY <1>7, <3>1, <3>2
    <2>3. CASE Abort(o)
      BY <1>1, <1>7, <2>1, <2>3, FinishChanges DEF Abort, Open
    <2>4. CASE CatalogStep(o)
      <3>1. LookForOverlap(o)
            /\ request'[o] = [ask |-> request[o].ask, at |-> request[o].at, rows |-> <<>>,
                              locks |-> request[o].locks, read |-> meterVersion[request[o].ask.on]]
        BY <1>7, <2>1, <2>4, CatalogChanges
      <3>2. request'[o].ask = request[o].ask
        BY <3>1
      <3>. QED
        BY <3>1, <3>2 DEF LookForOverlap, Reads
    <2>5. CASE SubscriptionStep(o)
      <3>1. Goes(request[o], request'[o])
        BY <1>7, <2>1, <2>5, SubscriptionChanges
      <3>2. request'[o].ask = request[o].ask
        BY <3>1 DEF Goes
      <3>3. ~LookAtVersion(o)
        BY <3>2 DEF LookAtVersion, Reads
      <3>4. ~(Subscribe(o) \/ Cancel(o) \/ Configure(o) \/ Settle(o) \/ Exhaust(o))
        BY <1>1, <1>7, <2>1, FinishChanges DEF Subscribe, Cancel, Configure, Settle, Exhaust, Open
      <3>. QED
        BY <1>7, <2>5, <3>2, <3>3, <3>4 DEF SubscriptionStep
    <2>6. CASE SimulationStep(o)
      <3>1. request[o].ask.op = "run" \/ request[o].ask.op = "simulate"
        BY <2>6 DEF SimulationStep, LookAtPlans, Simulate, LoadDefinitions, ReadBatch, CompleteRun,
                    FailRun, Reads, Writes
      <3>2. request'[o].ask = request[o].ask
        BY <1>7, <2>1, <2>6, SimulationAsks
      <3>. QED
        BY <3>1, <3>2
    <2>. QED
      BY <1>7, <2>2, <2>3, <2>4, <2>5, <2>6 DEF Work
  <1>8. UNCHANGED request \/ (\E r \in Requests : Ask(r) \/ ClaimRenewal(r) \/ ClaimSimulation(r))
        \/ \E r \in Open : Work(r)
    BY DEF Next, Tick, RetryRenewal, Store, Redact, vars, subscriptionVars, catalogVars
  <1>. QED
    BY <1>2, <1>3, <1>4, <1>5, <1>6, <1>7, <1>8

LEMMA LinkedStays ==
  ASSUME StateOK, NEW s \in Sold, NEW a \in Nat, NEW b \in {a, a + 1}, Linked(s, a, b),
         NEW at \in Nat, setting' = setting,
         \A day \in Nat : InTerm(s, day)' => InTerm(s, day),
         \A day \in Nat, f \in Entitled(Sale(s).version) :
           Covered(s, f, day) /\ InTerm(s, day)' => Covered(s, f, day)',
         \A j \in renewal : j.of = s /\ j.state # "done" =>
           \/ \E k \in renewal' : k.of = s /\ k.state # "done" /\ k.at = j.at
           \/ j.at = at /\ Linked(s, at, at + 1)
  PROVE  Linked(s, a, b)'
  <1>1. Entitled(Sale(s).version)' = Entitled(Sale(s).version)
    BY DEF Entitled, Components, Definition, Sale
  <1>2. ASSUME NEW f \in Entitled(Sale(s).version), NEW day \in Nat, a <= day, InTerm(s, day)'
        PROVE  Covered(s, f, day)' \/ DueBetween(s, b, day)'
    <2>1. InTerm(s, day)
      BY <1>2
    <2>2. Covered(s, f, day) => Covered(s, f, day)'
      BY <1>2
    <2>3. ASSUME NEW j \in renewal, j.of = s, j.state # "done", b <= j.at, j.at <= day
          PROVE  Covered(s, f, day)' \/ DueBetween(s, b, day)'
      <3>1. CASE \E k \in renewal' : k.of = s /\ k.state # "done" /\ k.at = j.at
        BY <2>3, <3>1 DEF DueBetween
      <3>2. CASE j.at = at /\ Linked(s, at, at + 1)
        <4>1. Covered(s, f, day) \/ DueBetween(s, at + 1, day)
          BY <1>2, <2>1, <2>3, <3>2 DEF Linked
        <4>2. ASSUME NEW k \in renewal, k.of = s, k.state # "done", at + 1 <= k.at, k.at <= day
              PROVE  DueBetween(s, b, day)'
          <5>1. k.at \in Nat /\ b \in Nat
            BY DEF StateOK, Renewal
          <5>2. k.at # at /\ b <= k.at
            BY <2>3, <3>2, <4>2, <5>1
          <5>3. \E x \in renewal' : x.of = s /\ x.state # "done" /\ x.at = k.at
            BY <4>2, <5>2
          <5>. QED
            BY <4>2, <5>2, <5>3 DEF DueBetween
        <4>. QED
          BY <2>2, <4>1, <4>2 DEF DueBetween
      <3>. QED
        BY <2>3, <3>1, <3>2
    <2>. QED
      BY <1>2, <2>1, <2>2, <2>3 DEF Linked, DueBetween
  <1>. QED
    BY <1>1, <1>2 DEF Linked

LEMMA SubscribeWrites ==
  ASSUME TypeInv, NEW r \in Open, Subscribe(r)
  PROVE  \E s \in SubscriptionIds \ Sold, period \in [start: Nat, end: Nat, next: Nat],
            sub \in Subscription, granted \in SUBSET Entitlement :
           /\ sub.end = Sale(s).end /\ ~sub.canceled
           /\ subscription' = [subscription EXCEPT ![s] = sub]
           /\ period.start = Sale(s).start /\ Sale(s).start < period.next
           /\ period.end = IF Sale(s).end # None /\ Sale(s).end <= period.next
                           THEN Sale(s).end ELSE period.next
           /\ Anniversary(Sale(s).anchor, period.next)
           /\ granted = Granted(s, period) /\ entitlement' = entitlement \union granted
           /\ renewal' = renewal \union (IF granted = {} THEN {}
                                         ELSE NextRenewal(s, period, Sale(s).end))
  <1>1. PICK s : s = request[r].ask.on
    OBVIOUS
  <1>2. s \in SubscriptionIds /\ subscription[s] = None /\ setting \in Settings
    BY <1>1, OpenRequest DEF Subscribe, Writes, AskOK, AskDefinition,
         MeterAsk, FeatureAsk, PlanAsk, CustomerAsk, SubscriptionAsk, ConfigureAsk
  <1>3. PICK period : period = PeriodAt(Sale(s).start, Sale(s).anchor, Sale(s).start, Sale(s).end)
    OBVIOUS
  <1>4. /\ period \in [start: Nat, end: Nat, next: Nat]
        /\ period.start = Sale(s).start /\ Sale(s).start < period.next
        /\ period.end = IF Sale(s).end # None /\ Sale(s).end <= period.next
                        THEN Sale(s).end ELSE period.next
        /\ Anniversary(Sale(s).anchor, period.next)
    BY <1>2, <1>3, FirstPeriod
  <1>5. PICK granted : granted = Granted(s, period)
    OBVIOUS
  <1>6. granted \in SUBSET Entitlement
    BY <1>2, <1>4, <1>5, GrantsAreTyped
  <1>7. PICK sub : sub = [end |-> Sale(s).end, canceled |-> FALSE]
    OBVIOUS
  <1>8. sub \in Subscription /\ sub.end = Sale(s).end /\ ~sub.canceled
    BY <1>2, <1>7, SettingFacts DEF Subscription, SaleDefinition
  <1>9. /\ subscription' = [subscription EXCEPT ![s] = sub]
        /\ entitlement' = entitlement \union granted
        /\ renewal' = renewal \union (IF granted = {} THEN {} ELSE NextRenewal(s, period, Sale(s).end))
    BY <1>1, <1>3, <1>5, <1>7 DEF Subscribe
  <1>10. s \in SubscriptionIds \ Sold
    BY <1>2 DEF Sold
  <1>. QED
    BY <1>4, <1>5, <1>6, <1>8, <1>9, <1>10

LEMMA CancelWrites ==
  ASSUME TypeInv, NEW r \in Open, Cancel(r)
  PROVE  \E s \in Sold, end \in Nat, sub \in Subscription :
           /\ ~subscription[s].canceled /\ s \in request[r].locks
           /\ sub.end = end /\ sub.canceled
           /\ subscription' = [subscription EXCEPT ![s] = sub]
           /\ entitlement' = Clip(s, end) /\ renewal' = renewal
  <1>1. PICK s, end : s = request[r].ask.on /\ end = request[r].ask.of
    OBVIOUS
  <1>2. request[r].ask.op = "cancel" /\ request[r].rows = <<>>
    BY DEF Cancel, Reads
  <1>3. s \in SubscriptionIds /\ end \in Nat
    BY <1>1, <1>2, OpenRequest DEF AskOK, AskDefinition,
         MeterAsk, FeatureAsk, PlanAsk, CustomerAsk, SubscriptionAsk, ConfigureAsk
  <1>4. s \in request[r].locks
    BY <1>1, <1>2, OpenRequest, NothingWaits DEF Keeps
  <1>5. s \in Sold
    BY <1>1, <1>2, <1>4, OpenRequest DEF Refers
  <1>6. PICK sub : sub = [end |-> end, canceled |-> TRUE]
    OBVIOUS
  <1>7. sub \in Subscription /\ sub.end = end /\ sub.canceled
    BY <1>3, <1>6 DEF Subscription
  <1>8. /\ ~subscription[s].canceled /\ subscription' = [subscription EXCEPT ![s] = sub]
        /\ entitlement' = Clip(s, end) /\ renewal' = renewal
    BY <1>1, <1>6 DEF Cancel
  <1>. QED
    BY <1>3, <1>4, <1>5, <1>7, <1>8

LEMMA RefreshWrites ==
  ASSUME TypeInv, NEW r \in Open, Refresh(r)
  PROVE  \E s \in Sold, found \in Reading, granted \in SUBSET Entitlement :
           /\ s = request[r].ask.on /\ found = request[r].read /\ found.state = "open"
           /\ request[r].ask.op = "refresh" /\ found # None
           /\ found.period \in [start: Nat, end: Nat, next: Nat]
           /\ granted = Granted(s, found.period) /\ subscription' = subscription
           /\ entitlement \subseteq entitlement' /\ entitlement' \subseteq entitlement \union granted
           /\ renewal \subseteq renewal'
           /\ renewal' \subseteq renewal \union NextRenewal(s, found.period, found.end)
           /\ Taken(granted) \subseteq entitlement =>
                /\ entitlement' = entitlement \union granted
                /\ renewal' = renewal \union NextRenewal(s, found.period, found.end)
  <1>1. PICK s, found : s = request[r].ask.on /\ found = request[r].read
    OBVIOUS
  <1>2. s \in Sold /\ found \in Reading /\ found # None /\ request[r].ask.op = "refresh"
        /\ setting \in Settings
    BY <1>1, RefreshReads, OpenRequest
  <1>3. found.state = "open"
    BY <1>1 DEF Refresh
  <1>4. found.period \in [start: Nat, end: Nat, next: Nat] /\ s \in SubscriptionIds
    BY <1>2, <1>3 DEF Reading, Sold
  <1>5. PICK granted : granted = Granted(s, found.period)
    OBVIOUS
  <1>6. granted \in SUBSET Entitlement
    BY <1>2, <1>4, <1>5, GrantsAreTyped
  <1>7. subscription' = subscription
    BY DEF Refresh
  <1>8. CASE Taken(granted) \subseteq entitlement
    <2>1. entitlement' = entitlement \union granted
          /\ renewal' = renewal \union NextRenewal(s, found.period, found.end)
      BY <1>1, <1>5, <1>8 DEF Refresh, Foreign
    <2>. QED
      BY <1>1, <1>2, <1>3, <1>4, <1>5, <1>6, <1>7, <2>1
  <1>9. CASE ~(Taken(granted) \subseteq entitlement)
    <2>1. (\E some \in SUBSET (granted \ Taken(granted)) : entitlement' = entitlement \union some)
          /\ renewal' = renewal
      BY <1>1, <1>5, <1>9 DEF Refresh, Foreign
    <2>. QED
      BY <1>1, <1>2, <1>3, <1>4, <1>5, <1>6, <1>7, <1>9, <2>1
  <1>. QED
    BY <1>8, <1>9

\* Only the state of a job changes.
SettlesAs(s, at, state) ==
  /\ \A j \in renewal : \/ j \in renewal'
                         \/ /\ j.of = s /\ j.at = at /\ j.state = "queued"
                            /\ [j EXCEPT !.state = state] \in renewal'
  /\ \A k \in renewal' : \/ k \in renewal
                          \/ \E j \in renewal : /\ j.of = s /\ j.at = at
                                                /\ k = [j EXCEPT !.state = state]

LEMMA SettleWrites ==
  ASSUME TypeInv, NEW r \in Open, Settle(r) \/ Exhaust(r)
  PROVE  \E s \in Sold, at \in Nat, state \in {"done", "failed", "exhausted"} :
           /\ s = request[r].ask.on /\ at = request[r].ask.of /\ request[r].ask.op = "refresh"
           /\ state # "exhausted" => request[r].read # None /\ request[r].read.state = state
           /\ subscription' = subscription /\ entitlement' = entitlement
           /\ SettlesAs(s, at, state)
  <1>1. PICK s, at : s = request[r].ask.on /\ at = request[r].ask.of
    OBVIOUS
  <1>2. request[r].ask.op = "refresh"
    BY DEF Settle, Exhaust, Writes
  <1>3. s \in Sold /\ at \in 0..Horizon /\ Horizon \in Nat
    BY <1>1, <1>2, OpenRequest, CatalogAssumption DEF Refers, AskOK, AskDefinition,
         MeterAsk, FeatureAsk, PlanAsk, CustomerAsk, SubscriptionAsk, ConfigureAsk
  <1>4. PICK state \in {"done", "failed", "exhausted"} :
          /\ renewal' = Settled(r, state) /\ subscription' = subscription
          /\ entitlement' = entitlement
          /\ state # "exhausted" => request[r].read # None /\ request[r].read.state = state
    <2>1. CASE Settle(r)
      <3>1. request[r].read \in Reading /\ request[r].read.state # "open" /\ request[r].read # None
        BY <2>1, RefreshReads DEF Settle
      <3>2. request[r].read.state \in {"done", "failed"}
        BY <3>1 DEF Reading
      <3>. QED
        BY <2>1, <3>1, <3>2 DEF Settle
    <2>2. CASE Exhaust(r)
      BY <2>2 DEF Exhaust
    <2>. QED
      BY <2>1, <2>2
  <1>5. SettlesAs(s, at, state)
    BY <1>1, <1>4 DEF Settled, SettlesAs
  <1>6. at \in Nat
    BY <1>3
  <1>. QED
    BY <1>1, <1>2, <1>3, <1>4, <1>5, <1>6

LEMMA ClipFacts ==
  ASSUME entitlement \subseteq Entitlement, NEW s, NEW end \in Nat
  PROVE  /\ \A e \in entitlement : \E x \in Clip(s, end) :
              /\ x.of = e.of /\ x.customer = e.customer /\ x.feature = e.feature /\ x.from = e.from
              /\ e.of # s => x.to = e.to
              /\ \A day \in Nat : day < e.to /\ day < end => day < x.to
         /\ \A x \in Clip(s, end) : \E e \in entitlement :
              /\ x.of = e.of /\ x.from = e.from /\ (x = e \/ x.from < end)
              /\ e.of # s => x.to = e.to
              /\ e.of = s => x.to <= end \/ x.from >= end
  <1>1. \A e \in entitlement : e.from \in Nat /\ e.to \in Nat
    BY DEF Entitlement
  <1>2. ASSUME NEW e \in entitlement
        PROVE  /\ [e EXCEPT !.to = end].of = e.of /\ [e EXCEPT !.to = end].feature = e.feature
               /\ [e EXCEPT !.to = end].customer = e.customer /\ [e EXCEPT !.to = end].from = e.from /\ [e EXCEPT !.to = end].to = end
    BY DEF Entitlement
  <1>3. ASSUME NEW e \in entitlement
        PROVE  \E x \in Clip(s, end) :
                 /\ x.of = e.of /\ x.customer = e.customer /\ x.feature = e.feature /\ x.from = e.from
                 /\ e.of # s => x.to = e.to
                 /\ \A day \in Nat : day < e.to /\ day < end => day < x.to
    <2>1. CASE e.of = s /\ e.from < end /\ e.to > end
      <3>1. [e EXCEPT !.to = end] \in Clip(s, end)
        BY <2>1 DEF Clip
      <3>. QED
        BY <1>2, <2>1, <3>1
    <2>2. CASE ~(e.of = s /\ e.from < end /\ e.to > end)
      <3>1. e \in Clip(s, end)
        BY <2>2 DEF Clip
      <3>. QED
        BY <3>1
    <2>. QED
      BY <2>1, <2>2
  <1>4. ASSUME NEW x \in Clip(s, end)
        PROVE  \E e \in entitlement :
                 /\ x.of = e.of /\ x.from = e.from /\ (x = e \/ x.from < end)
                 /\ e.of # s => x.to = e.to
                 /\ e.of = s => x.to <= end \/ x.from >= end
    <2>1. PICK e \in entitlement : x = IF e.of = s /\ e.from < end /\ e.to > end
                                       THEN [e EXCEPT !.to = end] ELSE e
      BY DEF Clip
    <2>2. CASE e.of = s /\ e.from < end /\ e.to > end
      BY <1>2, <2>1, <2>2
    <2>3. CASE ~(e.of = s /\ e.from < end /\ e.to > end)
      BY <1>1, <2>1, <2>3
    <2>. QED
      BY <2>2, <2>3
  <1>. QED
    BY <1>3, <1>4

LEMMA NothingLost ==
  ASSUME StateOK, NEW s \in Sold, NEW a \in Nat, NEW b \in {a, a + 1}, Linked(s, a, b),
         setting' = setting, subscription'[s] = subscription[s],
         entitlement \subseteq entitlement', renewal \subseteq renewal'
  PROVE  Linked(s, a, b)'
  <1>1. \A day \in Nat : InTerm(s, day)' => InTerm(s, day)
    BY DEF InTerm, Sale
  <1>2. \A day \in Nat, f \in Entitled(Sale(s).version) :
          Covered(s, f, day) /\ InTerm(s, day)' => Covered(s, f, day)'
    BY DEF Covered
  <1>3. \A j \in renewal : j.of = s /\ j.state # "done" =>
          \/ \E k \in renewal' : k.of = s /\ k.state # "done" /\ k.at = j.at
          \/ j.at = 0 /\ Linked(s, 0, 0 + 1)
    OBVIOUS
  <1>. QED
    BY <1>1, <1>2, <1>3, LinkedStays

LEMMA LinksContinue ==
  ASSUME TypeInv, RenewalInv, [Next]_vars, NEW s \in Sold, NEW a \in Nat, NEW b \in {a, a + 1},
         Linked(s, a, b)
  PROVE  Linked(s, a, b)'
  <1>1. setting' = setting /\ StateOK
    BY TypesStep DEF TypeInv
  <1>2. CASE UNCHANGED billing
    BY <1>1, <1>2, NothingLost DEF billing
  <1>3. CASE RetryRenewal
    <2>1. PICK x \in renewal : /\ renewal' = (renewal \ {x}) \union {[x EXCEPT !.state = "queued"]}
                               /\ subscription' = subscription /\ entitlement' = entitlement
      BY <1>3 DEF RetryRenewal
    <2>2. \A day \in Nat : InTerm(s, day)' => InTerm(s, day)
      BY <1>1, <2>1 DEF InTerm, Sale
    <2>3. \A day \in Nat, f \in Entitled(Sale(s).version) :
            Covered(s, f, day) /\ InTerm(s, day)' => Covered(s, f, day)'
      BY <2>1 DEF Covered
    <2>4. x \in Renewal
      BY <1>1 DEF StateOK
    <2>5. [x EXCEPT !.state = "queued"].of = x.of /\ [x EXCEPT !.state = "queued"].at = x.at
          /\ [x EXCEPT !.state = "queued"].state = "queued"
      BY <2>4 DEF Renewal
    <2>6. \A j \in renewal : j.of = s /\ j.state # "done" =>
            \/ \E k \in renewal' : k.of = s /\ k.state # "done" /\ k.at = j.at
            \/ j.at = 0 /\ Linked(s, 0, 0 + 1)
      BY <2>1, <2>5
    <2>. QED
      BY <1>1, <2>2, <2>3, <2>6, LinkedStays
  <1>4. ASSUME NEW r \in Open, Subscribe(r)
        PROVE  Linked(s, a, b)'
    <2>1. PICK o \in SubscriptionIds \ Sold, sub \in Subscription :
            /\ subscription' = [subscription EXCEPT ![o] = sub]
            /\ entitlement \subseteq entitlement' /\ renewal \subseteq renewal'
      BY <1>4, SubscribeWrites
    <2>2. subscription'[s] = subscription[s]
      BY <1>1, <2>1 DEF StateOK, Sold
    <2>. QED
      BY <1>1, <2>1, <2>2, NothingLost
  <1>5. ASSUME NEW r \in Open, Cancel(r)
        PROVE  Linked(s, a, b)'
    <2>1. PICK o \in Sold, end \in Nat, sub \in Subscription :
            /\ ~subscription[o].canceled /\ sub.end = end
            /\ subscription' = [subscription EXCEPT ![o] = sub]
            /\ entitlement' = Clip(o, end) /\ renewal' = renewal
      BY <1>5, CancelWrites
    <2>2. subscription[o].end = Sale(o).end
      BY <2>1 DEF RenewalInv
    <2>3. s = o => subscription'[s].end = end
      BY <1>1, <2>1 DEF StateOK, Sold
    <2>4. s # o => subscription'[s] = subscription[s]
      BY <1>1, <2>1 DEF StateOK, Sold
    <2>5. \A day \in Nat : InTerm(s, day)' => InTerm(s, day)
      BY <1>1, <2>2, <2>4 DEF InTerm, Sale
    <2>6. ASSUME NEW day \in Nat, NEW f \in Entitled(Sale(s).version), Covered(s, f, day),
                 InTerm(s, day)'
          PROVE  Covered(s, f, day)'
      <3>1. PICK e \in entitlement : e.of = s /\ e.feature = f /\ e.from <= day /\ day < e.to
        BY <2>6 DEF Covered
      <3>2. entitlement \subseteq Entitlement
        BY <1>1 DEF StateOK
      <3>3. PICK x \in Clip(o, end) :
              /\ x.of = e.of /\ x.feature = e.feature /\ x.from = e.from
              /\ e.of # o => x.to = e.to
              /\ \A d \in Nat : d < e.to /\ d < end => d < x.to
        BY <3>1, <3>2, ClipFacts
      <3>4. s = o => day < end
        <4>1. end # None
          BY WordsAreSome
        <4>. QED
          BY <2>3, <2>6, <4>1 DEF InTerm, Before
      <3>5. day < x.to
        BY <3>1, <3>3, <3>4
      <3>. QED
        BY <2>1, <3>1, <3>3, <3>5 DEF Covered
    <2>7. \A j \in renewal : j.of = s /\ j.state # "done" =>
            \/ \E k \in renewal' : k.of = s /\ k.state # "done" /\ k.at = j.at
            \/ j.at = 0 /\ Linked(s, 0, 0 + 1)
      BY <2>1
    <2>. QED
      BY <1>1, <2>5, <2>6, <2>7, LinkedStays
  <1>6. ASSUME NEW r \in Open, Configure(r) \/ Refresh(r)
        PROVE  Linked(s, a, b)'
    <2>1. Configure(r) => entitlement \subseteq entitlement' /\ renewal' = renewal
                          /\ subscription' = subscription
      BY DEF Configure
    <2>2. Refresh(r) => entitlement \subseteq entitlement' /\ renewal \subseteq renewal'
                        /\ subscription' = subscription
      BY <1>6, RefreshWrites
    <2>. QED
      BY <1>1, <1>6, <2>1, <2>2, NothingLost
  <1>7. ASSUME NEW r \in Open, Settle(r) \/ Exhaust(r)
        PROVE  Linked(s, a, b)'
    <2>1. PICK o \in Sold, at \in Nat, state \in {"done", "failed", "exhausted"} :
            /\ o = request[r].ask.on /\ at = request[r].ask.of /\ request[r].ask.op = "refresh"
            /\ state = "done" => request[r].read # None /\ request[r].read.state = "done"
            /\ subscription' = subscription /\ entitlement' = entitlement
            /\ SettlesAs(o, at, state)
      BY <1>7, SettleWrites
    <2>2. \A day \in Nat : InTerm(s, day)' => InTerm(s, day)
      BY <1>1, <2>1 DEF InTerm, Sale
    <2>3. \A day \in Nat, f \in Entitled(Sale(s).version) :
            Covered(s, f, day) /\ InTerm(s, day)' => Covered(s, f, day)'
      BY <2>1 DEF Covered
    <2>4. state = "done" => Linked(o, at, at + 1)
      BY <2>1 DEF RenewalInv, RefreshOK
    <2>5. ASSUME NEW j \in renewal, j.of = s, j.state # "done"
          PROVE  \/ \E k \in renewal' : k.of = s /\ k.state # "done" /\ k.at = j.at
                 \/ j.at = at /\ Linked(s, at, at + 1)
      <3>1. j \in Renewal
        BY <1>1 DEF StateOK
      <3>2. [j EXCEPT !.state = state].of = s /\ [j EXCEPT !.state = state].at = j.at
            /\ [j EXCEPT !.state = state].state = state
        BY <2>5, <3>1 DEF Renewal
      <3>3. j \in renewal' \/ (j.of = o /\ j.at = at /\ [j EXCEPT !.state = state] \in renewal')
        BY <2>1 DEF SettlesAs
      <3>4. CASE j \in renewal'
        BY <2>5, <3>4
      <3>5. CASE j.of = o /\ j.at = at /\ state = "done"
        BY <2>4, <2>5, <3>5
      <3>6. CASE [j EXCEPT !.state = state] \in renewal' /\ state # "done"
        BY <3>2, <3>6
      <3>. QED
        BY <3>3, <3>4, <3>5, <3>6
    <2>. QED
      BY <1>1, <2>1, <2>2, <2>3, <2>5, LinkedStays
  <1>. QED
    BY <1>2, <1>3, <1>4, <1>5, <1>6, <1>7, BillingSteps

LEMMA JobLinks ==
  ASSUME StateOK', NEW j \in renewal', j.state # "done"
  PROVE  Linked(j.of, j.at, j.at)'
  BY DEF Linked, DueBetween, StateOK, Renewal

\* A period that is granted is linked to the renewal at the start of the next cycle.
LEMMA GrantLinks ==
  ASSUME StateOK', setting' = setting, NEW s \in SubscriptionIds,
         NEW period \in [start: Nat, end: Nat, next: Nat], NEW end \in Nat \union {None},
         end = subscription'[s].end,
         period.end = IF end # None /\ end <= period.next THEN end ELSE period.next,
         Granted(s, period) \subseteq entitlement',
         Before(period.next, end) => Linked(s, period.next, period.next)',
         NEW a \in Nat, a = period.start, NEW b \in Nat, b <= period.next
  PROVE  Linked(s, a, b)'
  <1>1. Entitled(Sale(s).version)' = Entitled(Sale(s).version)
    BY DEF Entitled, Components, Definition, Sale
  <1>2. PICK next \in Nat : next = period.next
    OBVIOUS
  <1>3. ASSUME NEW f \in Entitled(Sale(s).version), NEW day \in Nat, a <= day, InTerm(s, day)'
        PROVE  Covered(s, f, day)' \/ DueBetween(s, b, day)'
    <2>1. CASE day < period.end
      <3>1. PICK e : e = [customer |-> Sale(s).customer, feature |-> f, from |-> period.start,
                          to |-> period.end, of |-> s]
        OBVIOUS
      <3>2. e \in Granted(s, period)
        BY <3>1 DEF Granted
      <3>3. e.of = s /\ e.feature = f /\ e.from = period.start /\ e.to = period.end
        BY <3>1
      <3>. QED
        BY <1>3, <2>1, <3>2, <3>3 DEF Covered
    <2>2. CASE ~(day < period.end)
      <3>1. Before(day, end)
        BY <1>3 DEF InTerm
      <3>2. period.end = next /\ next <= day /\ Before(next, end)
        BY <1>2, <2>2, <3>1 DEF Before
      <3>3. Linked(s, next, next)'
        BY <1>2, <3>2
      <3>4. Covered(s, f, day)' \/ DueBetween(s, next, day)'
        BY <1>1, <1>3, <3>2, <3>3 DEF Linked
      <3>5. DueBetween(s, next, day)' => DueBetween(s, b, day)'
        BY <1>2 DEF DueBetween, StateOK, Renewal
      <3>. QED
        BY <3>4, <3>5
    <2>. QED
      BY <2>1, <2>2
  <1>. QED
    BY <1>1, <1>3 DEF Linked

\* Nobody cancels a subscription while a refresh has its period in hand.
LEMMA EndStays ==
  ASSUME TypeInv, [Next]_vars, NEW o \in Open, request[o].ask.op = "refresh",
         request[o].read # None, request[o].read.state = "open", o \in Open'
  PROVE  subscription'[request[o].ask.on] = subscription[request[o].ask.on]
  <1>1. PICK s : s = request[o].ask.on
    OBVIOUS
  <1>2. s \in Sold /\ s \in request[o].locks
    <2>1. Keeps(request[o]) /\ Refers(request[o]) /\ request[o].rows = <<>>
      BY OpenRequest DEF QueryOK
    <2>. QED
      BY <1>1, <2>1, NothingWaits DEF Keeps, Refers
  <1>3. StateOK
    BY DEF TypeInv
  <1>4. CASE UNCHANGED billing \/ RetryRenewal
    BY <1>1, <1>4 DEF billing, RetryRenewal
  <1>5. ASSUME NEW r \in Open, Subscribe(r)
        PROVE  subscription'[s] = subscription[s]
    <2>1. PICK x \in SubscriptionIds \ Sold, sub \in Subscription :
            subscription' = [subscription EXCEPT ![x] = sub]
      BY <1>5, SubscribeWrites
    <2>. QED
      BY <1>2, <1>3, <2>1 DEF StateOK, Sold
  <1>6. ASSUME NEW r \in Open, Cancel(r)
        PROVE  subscription'[s] = subscription[s]
    <2>1. PICK x \in Sold, sub \in Subscription :
            /\ subscription' = [subscription EXCEPT ![x] = sub] /\ x \in request[r].locks
      BY <1>6, CancelWrites
    <2>2. r # o
      BY <1>6 DEF Cancel, Reads
    <2>3. request[r].locks \intersect request[o].locks = {}
      BY <2>2 DEF TypeInv, RequestsInv
    <2>4. x # s
      BY <1>2, <2>1, <2>3
    <2>. QED
      BY <1>2, <1>3, <2>1, <2>4 DEF StateOK, Sold
  <1>7. \A r \in Open : Configure(r) \/ Refresh(r) \/ Settle(r) \/ Exhaust(r) =>
          subscription' = subscription
    BY DEF Configure, Refresh, Settle, Exhaust
  <1>. QED
    BY <1>1, <1>4, <1>5, <1>6, <1>7, BillingSteps

LEMMA OpenReading ==
  ASSUME TypeInv, RenewalInv, NEW o \in Open, request[o].ask.op = "refresh",
         request[o].read # None, request[o].read.state = "open"
  PROVE  /\ request[o].ask.on \in Sold /\ request[o].ask.of \in Nat
         /\ Sale(request[o].ask.on).start \in Nat
         /\ Sale(request[o].ask.on).start <= request[o].ask.of
         /\ request[o].read.end \in Nat \union {None}
         /\ request[o].read.end = subscription[request[o].ask.on].end
         /\ request[o].read.period.start = request[o].ask.of
         /\ PeriodFits(request[o].read.period, request[o].ask.of, Sale(request[o].ask.on).start,
                       request[o].read.end)
  <1>1. request[o].read \in Reading /\ RefreshOK(request[o])
    BY OpenRequest DEF ReadOK, RenewalInv
  <1>2. request[o].ask.on \in Sold /\ request[o].ask.of \in 0..Horizon /\ Horizon \in Nat
        /\ setting \in Settings
    BY OpenRequest, CatalogAssumption DEF Refers, AskOK, AskDefinition,
         MeterAsk, FeatureAsk, PlanAsk, CustomerAsk, SubscriptionAsk, ConfigureAsk
  <1>3. Sale(request[o].ask.on).start \in Nat /\ request[o].ask.of \in Nat
    BY <1>2, SettingFacts DEF SaleDefinition, Sold
  <1>4. request[o].read.end \in Nat \union {None}
    BY <1>1 DEF Reading
  <1>. QED
    BY <1>1, <1>2, <1>3, <1>4 DEF RefreshOK

\* A refresh that is done has linked its moment to what comes next.
LEMMA RefreshLinks ==
  ASSUME TypeInv, RenewalInv, [Next]_vars, NEW r \in Open, Refresh(r),
         Taken(Granted(request[r].ask.on, request[r].read.period)) \subseteq entitlement
  PROVE  \A s, at : s = request[r].ask.on /\ at = request[r].ask.of => Linked(s, at, at + 1)'
  <1>1. setting' = setting /\ StateOK' /\ StateOK
    BY TypesStep DEF TypeInv
  <1>2. PICK s \in Sold, found \in Reading, granted \in SUBSET Entitlement :
          /\ s = request[r].ask.on /\ found = request[r].read /\ found.state = "open"
          /\ request[r].ask.op = "refresh" /\ found # None
          /\ found.period \in [start: Nat, end: Nat, next: Nat]
          /\ granted = Granted(s, found.period) /\ subscription' = subscription
          /\ Taken(granted) \subseteq entitlement =>
               /\ entitlement' = entitlement \union granted
               /\ renewal' = renewal \union NextRenewal(s, found.period, found.end)
    BY RefreshWrites
  <1>3. /\ entitlement' = entitlement \union Granted(s, found.period)
        /\ renewal' = renewal \union NextRenewal(s, found.period, found.end)
    BY <1>2
  <1>4. PICK at \in Nat, end \in Nat \union {None} : at = request[r].ask.of /\ end = found.end
    BY <1>2, OpenReading
  <1>5. PICK period \in [start: Nat, end: Nat, next: Nat] : period = found.period
    BY <1>2
  <1>6. /\ end = subscription'[s].end /\ period.start = at
        /\ PeriodFits(period, at, Sale(s).start, end)
    BY <1>2, <1>4, <1>5, OpenReading
  <1>7. /\ period.end = IF end # None /\ end <= period.next THEN end ELSE period.next
        /\ at + 1 <= period.next /\ at + 1 \in Nat
    BY <1>6 DEF PeriodFits
  <1>8. s \in SubscriptionIds /\ period.next \in Nat
    BY DEF Sold
  <1>9. ASSUME Before(period.next, end)
        PROVE  Linked(s, period.next, period.next)'
    <2>1. CASE \E j \in renewal : j.of = s /\ j.at = period.next
      <3>1. Linked(s, period.next, period.next)
        BY <2>1 DEF RenewalInv
      <3>2. PICK next \in Nat : next = period.next
        OBVIOUS
      <3>3. Linked(s, next, next)'
        BY <3>1, <3>2, LinksContinue
      <3>. QED
        BY <3>2, <3>3
    <2>2. CASE ~\E j \in renewal : j.of = s /\ j.at = period.next
      <3>1. PICK j \in NextRenewal(s, period, end) : j.at = period.next
        BY <1>8, <1>9, <2>2, RenewalsAreTyped
      <3>2. j.of = s /\ j.state = "queued" /\ j \in renewal'
        BY <1>3, <1>4, <1>5, <1>8, <3>1, RenewalsAreTyped
      <3>3. Linked(j.of, j.at, j.at)'
        BY <1>1, <3>2, JobLinks
      <3>. QED
        BY <3>1, <3>2, <3>3
    <2>. QED
      BY <2>1, <2>2
  <1>10. Linked(s, at, at + 1)'
    BY <1>1, <1>3, <1>5, <1>6, <1>7, <1>8, <1>9, GrantLinks
  <1>. QED
    BY <1>2, <1>4, <1>10

LEMMA RefreshStays ==
  ASSUME TypeInv, RenewalInv, [Next]_vars, NEW o \in Open', request'[o].ask.op = "refresh"
  PROVE  \A q : q = request'[o] => RefreshOK(q)'
  <1>1. setting' = setting /\ StateOK /\ setting \in Settings
    BY TypesStep DEF TypeInv, RequestsInv
  <1>2. PICK q : q = request'[o]
    OBVIOUS
  <1>3. CASE /\ q.read = None
             /\ \E j \in renewal : q.ask.on = j.of /\ q.ask.of = j.at
    <2>1. Sale(q.ask.on).start <= q.ask.of
      BY <1>3 DEF RenewalInv
    <2>. QED
      BY <1>1, <1>2, <1>3, <2>1 DEF RefreshOK, Sale
  <1>4. CASE o \in Open /\ q.ask = request[o].ask
             /\ (q.read = request[o].read \/ ReadSubscription(o) \/ Refresh(o))
    <2>1. PICK p : p = request[o]
      OBVIOUS
    <2>2. PICK s, at : s = p.ask.on /\ at = p.ask.of
      OBVIOUS
    <2>3. p.ask.op = "refresh" /\ RefreshOK(p) /\ q.ask = p.ask
      BY <1>2, <1>4, <2>1 DEF RenewalInv
    <2>4. s \in Sold /\ at \in 0..Horizon /\ Horizon \in Nat
      BY <1>4, <2>1, <2>2, <2>3, OpenRequest, CatalogAssumption DEF Refers, AskOK, AskDefinition,
           MeterAsk, FeatureAsk, PlanAsk, CustomerAsk, SubscriptionAsk, ConfigureAsk
    <2>5. at \in Nat /\ Sale(s).start \in Nat /\ Sale(s).start <= at
      BY <1>1, <2>2, <2>3, <2>4, SettingFacts DEF Sold, SaleDefinition, RefreshOK
    <2>6. q.ask.on = s /\ q.ask.of = at /\ Sale(s)' = Sale(s)
      BY <1>1, <2>2, <2>3 DEF Sale
    <2>7. CASE q.read = p.read
      <3>1. p.read # None /\ p.read.state = "open" => subscription'[s] = subscription[s]
        BY <1>4, <2>1, <2>2, <2>3, EndStays
      <3>2. p.read # None /\ p.read.state = "done" => Linked(s, at, at + 1)'
        <4>1. at + 1 \in {at, at + 1}
          OBVIOUS
        <4>2. p.read # None /\ p.read.state = "done" => Linked(s, at, at + 1)
          BY <2>2, <2>3 DEF RefreshOK
        <4>. QED
          BY <2>4, <2>5, <4>1, <4>2, LinksContinue
      <3>. QED
        BY <1>2, <2>2, <2>3, <2>5, <2>6, <2>7, <3>1, <3>2 DEF RefreshOK
    <2>8. CASE ReadSubscription(o)
      <3>1. PICK found \in Reading :
              /\ Keep(o, found) /\ setting' = setting /\ now' = now
              /\ request[o].rows = <<>> /\ request[o].read = None
              /\ \/ /\ found.state = "done"
                    /\ at < Sale(s).start \/ ~Before(at, subscription[s].end)
                 \/ found.state = "failed"
                 \/ /\ found.state = "open" /\ found.end = subscription[s].end
                    /\ found.period.start = at
                    /\ PeriodFits(found.period, at, Sale(s).start, found.end)
        BY <1>4, <2>1, <2>2, <2>8, ReadSubscriptionFinds
      <3>2. request'[o] = [ask |-> request[o].ask, at |-> request[o].at, rows |-> <<>>,
                           locks |-> request[o].locks, read |-> found]
        BY <1>4, <3>1, KeptTypes
      <3>3. q.read = found
        BY <1>2, <3>2
      <3>4. UNCHANGED billing
        BY <2>8 DEF ReadSubscription
      <3>5. found.state = "done" => Linked(s, at, at + 1)'
        <4>1. SUFFICES ASSUME found.state = "done" PROVE Linked(s, at, at + 1)'
          OBVIOUS
        <4>2. subscription[s].end # None /\ ~(at < subscription[s].end)
          BY <2>5, <3>1, <4>1 DEF Before
        <4>3. subscription[s] \in Subscription
          BY <1>1, <2>4 DEF StateOK, Sold
        <4>4. PICK end \in Nat : end = subscription[s].end /\ end <= at
          BY <2>5, <4>2, <4>3 DEF Subscription
        <4>5. \A day \in Nat : at <= day => ~InTerm(s, day)'
          BY <2>5, <3>4, <4>2, <4>4 DEF InTerm, Before, billing
        <4>. QED
          BY <4>5 DEF Linked
      <3>. QED
        BY <1>2, <2>5, <2>6, <3>1, <3>3, <3>4, <3>5 DEF RefreshOK, billing
    <2>9. CASE Refresh(o)
      <3>1. request[o].read \in Reading /\ RequestsInv
        BY <1>4, <2>9, RefreshReads DEF TypeInv
      <3>2. PICK v \in {"done", "failed"}, found \in Reading :
              /\ request'[o] = [ask |-> request[o].ask, at |-> request[o].at, rows |-> <<>>,
                                locks |-> {}, read |-> found]
              /\ found.state = v
              /\ (v = "done") <=> Taken(Granted(request[o].ask.on, request[o].read.period))
                                    \subseteq entitlement
        BY <1>4, <2>9, <3>1, RefreshReleases
      <3>3. q.read = found
        BY <1>2, <3>2
      <3>4. v = "done" => Linked(s, at, at + 1)'
        BY <1>4, <2>1, <2>2, <2>9, <3>2, RefreshLinks
      <3>. QED
        BY <1>2, <2>5, <2>6, <3>2, <3>3, <3>4 DEF RefreshOK
    <2>. QED
      BY <1>4, <2>1, <2>7, <2>8, <2>9
  <1>. QED
    BY <1>2, <1>3, <1>4, RefreshSteps

LEMMA OldLinks ==
  ASSUME TypeInv, RenewalInv, [Next]_vars
  PROVE  /\ \A s \in Sold : Linked(s, Sale(s).start, Sale(s).start)'
         /\ \A j \in renewal : (Sale(j.of).start <= j.at /\ Linked(j.of, j.at, j.at))'
  <1>1. setting' = setting /\ setting \in Settings /\ StateOK /\ \A j \in renewal : j.of \in Sold
    BY TypesStep DEF TypeInv, RequestsInv, LinksOK
  <1>2. ASSUME NEW s \in Sold
        PROVE  Linked(s, Sale(s).start, Sale(s).start)'
    <2>1. PICK start \in Nat : start = Sale(s).start
      BY <1>1, SettingFacts DEF Sold, SaleDefinition
    <2>2. Linked(s, start, start)
      BY <2>1 DEF RenewalInv
    <2>3. Linked(s, start, start)'
      BY <2>2, LinksContinue
    <2>4. start = Sale(s).start'
      BY <1>1, <2>1 DEF Sale
    <2>. QED
      BY <2>3, <2>4
  <1>3. ASSUME NEW j \in renewal
        PROVE  (Sale(j.of).start <= j.at /\ Linked(j.of, j.at, j.at))'
    <2>1. PICK s \in Sold, at \in Nat : s = j.of /\ at = j.at
      BY <1>1 DEF StateOK, Renewal
    <2>2. Sale(s).start <= at /\ Linked(s, at, at)
      BY <2>1 DEF RenewalInv
    <2>3. Linked(s, at, at)'
      BY <2>2, LinksContinue
    <2>. QED
      BY <1>1, <2>1, <2>2, <2>3 DEF Sale
  <1>. QED
    BY <1>2, <1>3

LEMMA FitsStays ==
  ASSUME setting' = setting, NEW e, Fits(e), Sold \subseteq Sold',
         subscription'[e.of] = subscription[e.of]
  PROVE  Fits(e)'
  BY DEF Fits, Sale

\* What is granted for a period fits the subscription.
LEMMA GrantsFit ==
  ASSUME setting' = setting, NEW s \in Sold', Sale(s).start \in Nat,
         NEW period \in [start: Nat, end: Nat, next: Nat], NEW end, end = subscription'[s].end,
         end \in Nat \union {None}, Sale(s).start <= period.start,
         period.end = IF end # None /\ end <= period.next THEN end ELSE period.next
  PROVE  \A e \in Granted(s, period) : Fits(e)'
  <1>1. ASSUME NEW e \in Granted(s, period)
        PROVE  Fits(e)'
    <2>1. PICK f : e = [customer |-> Sale(s).customer, feature |-> f, from |-> period.start,
                        to |-> period.end, of |-> s]
      BY DEF Granted
    <2>2. e.of = s /\ e.from = period.start /\ e.to = period.end
      BY <2>1
    <2>3. end # None => period.end <= end
      OBVIOUS
    <2>. QED
      BY <2>2, <2>3 DEF Fits, Sale
  <1>. QED
    BY <1>1

LEMMA NothingGranted ==
  ASSUME NEW s, NEW period, Granted(s, period) = {}
  PROVE  Entitled(Sale(s).version) = {}
  <1>. SUFFICES ASSUME NEW f \in Entitled(Sale(s).version) PROVE FALSE
    OBVIOUS
  <1>1. [customer |-> Sale(s).customer, feature |-> f, from |-> period.start,
         to |-> period.end, of |-> s] \in Granted(s, period)
    BY DEF Granted
  <1>. QED
    BY <1>1

RenewalState ==
  /\ \A s \in Sold : /\ ~subscription[s].canceled => subscription[s].end = Sale(s).end
                     /\ Linked(s, Sale(s).start, Sale(s).start)
  /\ \A e \in entitlement : e.of # None => Fits(e)
  /\ \A j \in renewal : Sale(j.of).start <= j.at /\ Linked(j.of, j.at, j.at)

LEMMA SubscribeKeeps ==
  ASSUME TypeInv, RenewalInv, [Next]_vars, NEW r \in Open, Subscribe(r)
  PROVE  RenewalState'
  <1>1. /\ setting' = setting /\ setting \in Settings /\ StateOK /\ StateOK' /\ Sold \subseteq Sold'
        /\ \A j \in renewal : j.of \in Sold
    BY TypesStep DEF TypeInv, RequestsInv, Grows, LinksOK
  <1>2. PICK s \in SubscriptionIds \ Sold, period \in [start: Nat, end: Nat, next: Nat],
             sub \in Subscription, granted \in SUBSET Entitlement :
          /\ sub.end = Sale(s).end /\ ~sub.canceled
          /\ subscription' = [subscription EXCEPT ![s] = sub]
          /\ period.start = Sale(s).start /\ Sale(s).start < period.next
          /\ period.end = IF Sale(s).end # None /\ Sale(s).end <= period.next
                          THEN Sale(s).end ELSE period.next
          /\ granted = Granted(s, period) /\ entitlement' = entitlement \union granted
          /\ renewal' = renewal \union (IF granted = {} THEN {}
                                        ELSE NextRenewal(s, period, Sale(s).end))
    BY SubscribeWrites
  <1>3. PICK start \in Nat, end \in Nat \union {None} : start = Sale(s).start /\ end = Sale(s).end
    BY <1>1, SettingFacts DEF SaleDefinition
  <1>4. subscription'[s] = sub /\ \A o \in SubscriptionIds \ {s} : subscription'[o] = subscription[o]
    BY <1>1, <1>2 DEF StateOK
  <1>5. Sold' = Sold \union {s}
    BY <1>2, <1>4, NoSubscriptionAssumption DEF Sold
  <1>6. \A j \in NextRenewal(s, period, end) : (Sale(j.of).start <= j.at /\ Linked(j.of, j.at, j.at))'
          \/ granted = {}
    <2>1. ASSUME NEW j \in NextRenewal(s, period, end), granted # {}
          PROVE  (Sale(j.of).start <= j.at /\ Linked(j.of, j.at, j.at))'
      <3>1. j.of = s /\ j.at = period.next /\ j.state = "queued" /\ j \in renewal'
        BY <1>2, <1>3, <2>1, RenewalsAreTyped
      <3>2. Linked(j.of, j.at, j.at)'
        BY <1>1, <3>1, JobLinks
      <3>. QED
        BY <1>1, <1>2, <1>3, <3>1, <3>2 DEF Sale
    <2>. QED
      BY <2>1
  <1>7. Linked(s, start, start)'
    <2>1. CASE granted = {}
      <3>1. Entitled(Sale(s).version) = {}
        BY <1>2, <2>1, NothingGranted
      <3>2. Entitled(Sale(s).version)' = {}
        <4>1. Entitled(Sale(s).version)' = Entitled(Sale(s).version)
          BY <1>1 DEF Entitled, Components, Definition, Sale
        <4>. QED
          BY <3>1, <4>1
      <3>. QED
        BY <3>2 DEF Linked
    <2>2. CASE granted # {}
      <3>1. ASSUME Before(period.next, end)
            PROVE  Linked(s, period.next, period.next)'
        <4>1. \A j \in renewal : j.of = s => j.at # period.next
          BY <1>1, <1>2
        <4>2. PICK j \in NextRenewal(s, period, end) : j.at = period.next
          BY <3>1, <4>1, RenewalsAreTyped
        <4>3. j.of = s /\ j.state = "queued" /\ j \in renewal'
          BY <1>2, <1>3, <2>2, <4>2, RenewalsAreTyped
        <4>4. Linked(j.of, j.at, j.at)'
          BY <1>1, <4>3, JobLinks
        <4>. QED
          BY <4>2, <4>3, <4>4
      <3>2. Granted(s, period) \subseteq entitlement'
        BY <1>2
      <3>3. end = subscription'[s].end
        BY <1>2, <1>3, <1>4
      <3>4. period.end = IF end # None /\ end <= period.next THEN end ELSE period.next
        BY <1>2, <1>3
      <3>5. start = period.start /\ start <= period.next
        BY <1>2, <1>3
      <3>. QED
        BY <1>1, <3>1, <3>2, <3>3, <3>4, <3>5, GrantLinks
    <2>. QED
      BY <2>1, <2>2
  <1>8. \A o \in Sold' : /\ ~subscription'[o].canceled => subscription'[o].end = Sale(o)'.end
                         /\ Linked(o, Sale(o).start, Sale(o).start)'
    <2>1. ASSUME NEW o \in Sold
          PROVE  /\ ~subscription'[o].canceled => subscription'[o].end = Sale(o)'.end
                 /\ Linked(o, Sale(o).start, Sale(o).start)'
      <3>1. subscription'[o] = subscription[o]
        BY <1>2, <1>4 DEF Sold
      <3>2. Linked(o, Sale(o).start, Sale(o).start)'
        BY OldLinks
      <3>. QED
        BY <1>1, <3>1, <3>2 DEF RenewalInv, Sale
    <2>2. /\ ~subscription'[s].canceled => subscription'[s].end = Sale(s)'.end
          /\ Linked(s, Sale(s).start, Sale(s).start)'
      <3>1. start = Sale(s).start'
        BY <1>1, <1>3 DEF Sale
      <3>2. Linked(s, Sale(s).start, Sale(s).start)'
        BY <1>7, <3>1
      <3>. QED
        BY <1>1, <1>2, <1>4, <3>2 DEF Sale
    <2>. QED
      BY <1>5, <2>1, <2>2
  <1>9. \A e \in entitlement' : e.of # None => Fits(e)'
    <2>1. ASSUME NEW e \in entitlement, e.of # None PROVE Fits(e)'
      <3>1. Fits(e) /\ e.of \in Sold
        BY <2>1 DEF RenewalInv, Fits
      <3>2. subscription'[e.of] = subscription[e.of]
        BY <1>2, <1>4, <3>1 DEF Sold
      <3>. QED
        BY <1>1, <3>1, <3>2, FitsStays
    <2>2. \A e \in granted : Fits(e)'
      <3>1. end = subscription'[s].end /\ s \in Sold'
        BY <1>2, <1>3, <1>4, <1>5
      <3>2. period.end = IF end # None /\ end <= period.next THEN end ELSE period.next
        BY <1>2, <1>3
      <3>3. Sale(s).start \in Nat /\ Sale(s).start <= period.start
        BY <1>2, <1>3
      <3>. QED
        BY <1>1, <1>2, <3>1, <3>2, <3>3, GrantsFit
    <2>. QED
      BY <1>2, <2>1, <2>2
  <1>10. \A j \in renewal' : (Sale(j.of).start <= j.at /\ Linked(j.of, j.at, j.at))'
    BY <1>2, <1>3, <1>6, OldLinks
  <1>. QED
    BY <1>8, <1>9, <1>10 DEF RenewalState

LEMMA CancelKeeps ==
  ASSUME TypeInv, RenewalInv, [Next]_vars, NEW r \in Open, Cancel(r)
  PROVE  RenewalState'
  <1>1. setting' = setting /\ StateOK /\ Sold \subseteq Sold' /\ entitlement \subseteq Entitlement
    BY TypesStep DEF TypeInv, Grows, StateOK
  <1>2. PICK s \in Sold, end \in Nat, sub \in Subscription :
          /\ sub.end = end /\ sub.canceled
          /\ subscription' = [subscription EXCEPT ![s] = sub]
          /\ entitlement' = Clip(s, end) /\ renewal' = renewal
    BY CancelWrites
  <1>3. subscription'[s] = sub /\ \A o \in SubscriptionIds \ {s} : subscription'[o] = subscription[o]
    BY <1>1, <1>2 DEF StateOK, Sold
  <1>4. Sold' = Sold
    BY <1>2, <1>3, NoSubscriptionAssumption DEF Sold
  <1>5. \A o \in Sold' : /\ ~subscription'[o].canceled => subscription'[o].end = Sale(o)'.end
                         /\ Linked(o, Sale(o).start, Sale(o).start)'
    <2>1. ASSUME NEW o \in Sold, ~subscription'[o].canceled
          PROVE  subscription'[o].end = Sale(o)'.end
      <3>1. o # s
        BY <1>2, <1>3, <2>1
      <3>2. subscription'[o] = subscription[o]
        BY <1>3, <3>1 DEF Sold
      <3>. QED
        BY <1>1, <2>1, <3>2 DEF RenewalInv, Sale
    <2>. QED
      BY <1>4, <2>1, OldLinks
  <1>6. ASSUME NEW x \in entitlement', x.of # None
        PROVE  Fits(x)'
    <2>1. PICK e \in entitlement :
            /\ x.of = e.of /\ x.from = e.from
            /\ e.of # s => x.to = e.to
            /\ e.of = s => (x.to <= end \/ x.from >= end)
      BY <1>1, <1>2, ClipFacts
    <2>2. Fits(e)
      BY <1>6, <2>1 DEF RenewalInv
    <2>3. CASE e.of = s
      BY <1>1, <1>2, <1>3, <1>4, <2>1, <2>2, <2>3 DEF Fits, Sale
    <2>4. CASE e.of # s
      <3>1. subscription'[e.of] = subscription[e.of]
        BY <1>3, <2>2, <2>4 DEF Fits, Sold
      <3>. QED
        BY <1>1, <1>4, <2>1, <2>2, <2>4, <3>1 DEF Fits, Sale
    <2>. QED
      BY <2>3, <2>4
  <1>7. \A j \in renewal' : (Sale(j.of).start <= j.at /\ Linked(j.of, j.at, j.at))'
    BY <1>2, OldLinks
  <1>. QED
    BY <1>5, <1>6, <1>7 DEF RenewalState

LEMMA RefreshKeeps ==
  ASSUME TypeInv, RenewalInv, [Next]_vars, NEW r \in Open, Refresh(r)
  PROVE  RenewalState'
  <1>1. setting' = setting /\ StateOK /\ StateOK' /\ Sold \subseteq Sold'
    BY TypesStep DEF TypeInv, Grows
  <1>2. PICK s \in Sold, found \in Reading, granted \in SUBSET Entitlement :
          /\ s = request[r].ask.on /\ found = request[r].read /\ found.state = "open"
          /\ request[r].ask.op = "refresh" /\ found # None
          /\ found.period \in [start: Nat, end: Nat, next: Nat]
          /\ granted = Granted(s, found.period) /\ subscription' = subscription
          /\ entitlement' \subseteq entitlement \union granted
          /\ renewal' \subseteq renewal \union NextRenewal(s, found.period, found.end)
    BY RefreshWrites
  <1>3. PICK at \in Nat, end \in Nat \union {None}, start \in Nat :
          /\ at = request[r].ask.of /\ end = found.end /\ start = Sale(s).start /\ start <= at
          /\ end = subscription[s].end
          /\ PeriodFits(found.period, at, start, end)
    BY <1>2, OpenReading
  <1>4. PICK period \in [start: Nat, end: Nat, next: Nat] : period = found.period
    BY <1>2
  <1>5. /\ start <= period.start /\ start <= period.next
        /\ period.end = IF end # None /\ end <= period.next THEN end ELSE period.next
    BY <1>3, <1>4 DEF PeriodFits
  <1>6. Sold' = Sold /\ s \in SubscriptionIds
    BY <1>2 DEF Sold
  <1>7. \A o \in Sold' : /\ ~subscription'[o].canceled => subscription'[o].end = Sale(o)'.end
                         /\ Linked(o, Sale(o).start, Sale(o).start)'
    <2>1. \A o \in Sold : ~subscription'[o].canceled => subscription'[o].end = Sale(o)'.end
      BY <1>1, <1>2 DEF RenewalInv, Sale
    <2>. QED
      BY <1>6, <2>1, OldLinks
  <1>8. \A e \in entitlement' : e.of # None => Fits(e)'
    <2>1. ASSUME NEW e \in entitlement, e.of # None PROVE Fits(e)'
      <3>1. Fits(e) /\ subscription'[e.of] = subscription[e.of]
        BY <1>2, <2>1 DEF RenewalInv
      <3>. QED
        BY <1>1, <3>1, FitsStays
    <2>2. \A e \in granted : Fits(e)'
      <3>1. end = subscription'[s].end /\ s \in Sold' /\ granted = Granted(s, period)
        BY <1>2, <1>3, <1>4, <1>6
      <3>2. Sale(s).start \in Nat /\ Sale(s).start <= period.start
        BY <1>3, <1>5
      <3>. QED
        BY <1>1, <1>5, <3>1, <3>2, GrantsFit
    <2>. QED
      BY <1>2, <2>1, <2>2
  <1>9. \A j \in renewal' : (Sale(j.of).start <= j.at /\ Linked(j.of, j.at, j.at))'
    <2>1. ASSUME NEW j \in renewal', j \in NextRenewal(s, period, end)
          PROVE  (Sale(j.of).start <= j.at /\ Linked(j.of, j.at, j.at))'
      <3>1. j.of = s /\ j.at = period.next /\ j.state = "queued"
        BY <1>6, <2>1, RenewalsAreTyped
      <3>2. Linked(j.of, j.at, j.at)'
        BY <1>1, <3>1, JobLinks
      <3>. QED
        BY <1>1, <1>3, <1>5, <3>1, <3>2 DEF Sale
    <2>2. renewal' \subseteq renewal \union NextRenewal(s, period, end)
      BY <1>2, <1>3, <1>4
    <2>. QED
      BY <2>1, <2>2, OldLinks
  <1>. QED
    BY <1>7, <1>8, <1>9 DEF RenewalState

\* The other steps change the states of jobs, if anything, and configure entitlements.
LEMMA OthersKeep ==
  ASSUME TypeInv, RenewalInv, [Next]_vars, subscription' = subscription,
         \A e \in entitlement' : e \in entitlement \/ e.of = None,
         \A k \in renewal' : \E j \in renewal : k.of = j.of /\ k.at = j.at
  PROVE  RenewalState'
  <1>1. setting' = setting /\ StateOK /\ Sold \subseteq Sold'
    BY TypesStep DEF TypeInv, Grows
  <1>2. Sold' = Sold
    BY DEF Sold
  <1>3. \A o \in Sold' : /\ ~subscription'[o].canceled => subscription'[o].end = Sale(o)'.end
                         /\ Linked(o, Sale(o).start, Sale(o).start)'
    <2>1. \A o \in Sold : ~subscription'[o].canceled => subscription'[o].end = Sale(o)'.end
      BY <1>1 DEF RenewalInv, Sale
    <2>. QED
      BY <1>2, <2>1, OldLinks
  <1>4. ASSUME NEW e \in entitlement', e.of # None
        PROVE  Fits(e)'
    <2>1. Fits(e) /\ subscription'[e.of] = subscription[e.of]
      BY <1>4 DEF RenewalInv
    <2>. QED
      BY <1>1, <2>1, FitsStays
  <1>5. ASSUME NEW k \in renewal'
        PROVE  (Sale(k.of).start <= k.at /\ Linked(k.of, k.at, k.at))'
    <2>1. PICK j \in renewal : k.of = j.of /\ k.at = j.at
      OBVIOUS
    <2>2. (Sale(j.of).start <= j.at /\ Linked(j.of, j.at, j.at))'
      BY OldLinks
    <2>. QED
      BY <2>1, <2>2
  <1>. QED
    BY <1>3, <1>4, <1>5 DEF RenewalState

LEMMA RenewalStep ==
  ASSUME TypeInv, RenewalInv, [Next]_vars
  PROVE  RenewalInv'
  <1>1. StateOK
    BY DEF TypeInv
  <1>2. RenewalState'
    <2>1. CASE UNCHANGED billing
      BY <2>1, OthersKeep DEF billing
    <2>2. CASE RetryRenewal
      <3>1. PICK x \in renewal : /\ renewal' = (renewal \ {x}) \union {[x EXCEPT !.state = "queued"]}
                                 /\ subscription' = subscription /\ entitlement' = entitlement
        BY <2>2 DEF RetryRenewal
      <3>2. [x EXCEPT !.state = "queued"].of = x.of /\ [x EXCEPT !.state = "queued"].at = x.at
        BY <1>1 DEF StateOK, Renewal
      <3>. QED
        BY <3>1, <3>2, OthersKeep
    <2>3. ASSUME NEW r \in Open, Configure(r)
          PROVE  RenewalState'
      <3>1. PICK e : /\ e.of = None /\ entitlement' = entitlement \union {e}
                     /\ subscription' = subscription /\ renewal' = renewal
        <4>1. PICK e : /\ e = [customer |-> request[r].ask.on, feature |-> request[r].ask.of,
                              from |-> request[r].ask.from, to |-> request[r].ask.to, of |-> None]
                       /\ entitlement' = entitlement \union {e}
                       /\ subscription' = subscription /\ renewal' = renewal
          BY <2>3 DEF Configure
        <4>2. e.of = None
          BY <4>1
        <4>. QED
          BY <4>1, <4>2
      <3>. QED
        BY <3>1, OthersKeep
    <2>4. ASSUME NEW r \in Open, Settle(r) \/ Exhaust(r)
          PROVE  RenewalState'
      <3>1. PICK s \in Sold, at \in Nat, state \in {"done", "failed", "exhausted"} :
              /\ subscription' = subscription /\ entitlement' = entitlement
              /\ SettlesAs(s, at, state)
        BY <2>4, SettleWrites
      <3>2. \A j \in renewal : [j EXCEPT !.state = state].of = j.of
                               /\ [j EXCEPT !.state = state].at = j.at
        BY <1>1 DEF StateOK, Renewal
      <3>3. \A k \in renewal' : \E j \in renewal : k.of = j.of /\ k.at = j.at
        <4>1. ASSUME NEW k \in renewal', k \notin renewal
              PROVE  \E j \in renewal : k.of = j.of /\ k.at = j.at
          <5>1. PICK j \in renewal : k = [j EXCEPT !.state = state]
            BY <3>1, <4>1 DEF SettlesAs
          <5>2. k.of = j.of /\ k.at = j.at
            BY <3>2, <5>1
          <5>. QED
            BY <5>2
        <4>. QED
          BY <4>1
      <3>. QED
        BY <3>1, <3>3, OthersKeep
    <2>. QED
      BY <2>1, <2>2, <2>3, <2>4, SubscribeKeeps, CancelKeeps, RefreshKeeps, BillingSteps
  <1>3. ASSUME NEW o \in Open', request'[o].ask.op = "refresh"
        PROVE  RefreshOK(request[o])'
    <2>1. PICK q : q = request'[o]
      OBVIOUS
    <2>2. RefreshOK(q)'
      BY <1>3, <2>1, RefreshStays
    <2>. QED
      BY <2>1, <2>2 DEF RefreshOK
  <1>. QED
    BY <1>2, <1>3 DEF RenewalInv, RenewalState

LEMMA RenewalInit ==
  ASSUME Init
  PROVE  RenewalInv
  <1>1. Open = {} /\ Sold = {} /\ entitlement = {} /\ renewal = {}
    BY DEF Init, SubscriptionsInit, CatalogInit, Open, Sold
  <1>. QED
    BY <1>1 DEF RenewalInv

LEMMA RenewalsHold == Spec => []RenewalInv
  <1>1. TypeInv /\ RenewalInv /\ [Next]_vars => RenewalInv'
    BY RenewalStep
  <1>. QED
    BY <1>1, RenewalInit, TypesHold, PTL DEF Spec

-----------------------------------------------------------------------------
(* Cycles begin on anniversaries, before the end, and fail when they are forestalled *)

CycleOK(q) ==
  /\ Anniversary(Sale(q.ask.on).anchor, q.ask.of)
  /\ q.read # None /\ q.read.state = "open" =>
       /\ Before(q.ask.of, q.read.end)
       /\ Anniversary(Sale(q.ask.on).anchor, q.read.period.next)
  /\ q.read # None /\ q.read.state = "failed" => Forestalled(q.ask.on, q.ask.of)

JobOK(j) ==
  /\ Anniversary(Sale(j.of).anchor, j.at)
  /\ j.state = "failed" => Forestalled(j.of, j.at)

OnCycle(e) == e.from = Sale(e.of).start \/ Anniversary(Sale(e.of).anchor, e.from)

CycleInv ==
  /\ \A j \in renewal : JobOK(j)
  /\ \A e \in entitlement : e.of # None => OnCycle(e)
  /\ \A r \in Open : request[r].ask.op = "refresh" => CycleOK(request[r])

\* Entitlements are clipped and never removed.
LEMMA EntitlementsStay ==
  ASSUME TypeInv, [Next]_vars, NEW e \in entitlement
  PROVE  \E x \in entitlement' : /\ x.of = e.of /\ x.customer = e.customer
                                 /\ x.feature = e.feature /\ x.from = e.from
  <1>1. entitlement \subseteq Entitlement
    BY DEF TypeInv, StateOK
  <1>2. CASE entitlement \subseteq entitlement'
    BY <1>2
  <1>3. ASSUME NEW r \in Open, Cancel(r)
        PROVE  \E x \in entitlement' : /\ x.of = e.of /\ x.customer = e.customer
                                       /\ x.feature = e.feature /\ x.from = e.from
    <2>1. PICK s \in Sold, end \in Nat : entitlement' = Clip(s, end)
      BY <1>3, CancelWrites
    <2>. QED
      BY <1>1, <2>1, ClipFacts
  <1>4. \A r \in Open : Subscribe(r) => entitlement \subseteq entitlement'
    BY DEF Subscribe
  <1>5. \A r \in Open : Configure(r) => entitlement \subseteq entitlement'
    BY DEF Configure
  <1>6. \A r \in Open : Refresh(r) => entitlement \subseteq entitlement'
    BY RefreshWrites
  <1>7. \A r \in Open : Settle(r) \/ Exhaust(r) => entitlement' = entitlement
    BY DEF Settle, Exhaust
  <1>8. UNCHANGED billing \/ RetryRenewal => entitlement' = entitlement
    BY DEF billing, RetryRenewal
  <1>. QED
    BY <1>2, <1>3, <1>4, <1>5, <1>6, <1>7, <1>8, BillingSteps

LEMMA ForestalledStays ==
  ASSUME TypeInv, [Next]_vars, NEW s, NEW day, Forestalled(s, day)
  PROVE  Forestalled(s, day)'
  <1>1. setting' = setting
    BY TypesStep
  <1>2. Entitled(Sale(s).version)' = Entitled(Sale(s).version) /\ Sale(s)' = Sale(s)
    BY <1>1 DEF Entitled, Components, Definition, Sale
  <1>3. PICK e \in entitlement : /\ e.customer = Sale(s).customer /\ e.of # s /\ e.from = day
                                 /\ e.feature \in Entitled(Sale(s).version)
    BY DEF Forestalled
  <1>4. PICK x \in entitlement' : /\ x.of = e.of /\ x.customer = e.customer
                                  /\ x.feature = e.feature /\ x.from = e.from
    BY EntitlementsStay
  <1>. QED
    BY <1>2, <1>3, <1>4 DEF Forestalled

\* A conflict is with an entitlement that is not of the subscription.
LEMMA ConflictsForestall ==
  ASSUME entitlement \subseteq Entitlement, NEW s, NEW period,
         ~(Taken(Granted(s, period)) \subseteq entitlement)
  PROVE  Forestalled(s, period.start)
  <1>1. PICK e \in Granted(s, period) : e \notin entitlement /\ Clashes(e, entitlement)
    BY DEF Taken
  <1>2. PICK f \in Entitled(Sale(s).version) :
          e = [customer |-> Sale(s).customer, feature |-> f, from |-> period.start,
               to |-> period.end, of |-> s]
    BY <1>1 DEF Granted
  <1>3. PICK o \in entitlement : [o EXCEPT !.of = None] = [e EXCEPT !.of = None]
    BY <1>1 DEF Clashes
  <1>4. o = [customer |-> o.customer, feature |-> o.feature, from |-> o.from, to |-> o.to,
             of |-> o.of]
    BY <1>3 DEF Entitlement
  <1>5. [o EXCEPT !.of = None] = [customer |-> o.customer, feature |-> o.feature,
                                  from |-> o.from, to |-> o.to, of |-> None]
    BY <1>4
  <1>6. [e EXCEPT !.of = None] = [customer |-> Sale(s).customer, feature |-> f,
                                  from |-> period.start, to |-> period.end, of |-> None]
    BY <1>2
  <1>7. /\ o.customer = Sale(s).customer /\ o.feature = f /\ o.from = period.start
        /\ o.to = period.end
    BY <1>3, <1>5, <1>6
  <1>8. o.of # s
    <2> SUFFICES ASSUME o.of = s PROVE FALSE
      OBVIOUS
    <2>1. o = e
      BY <1>2, <1>4, <1>7
    <2>. QED
      BY <1>1, <2>1
  <1>. QED
    BY <1>2, <1>7, <1>8 DEF Forestalled

LEMMA AnniversariesStay ==
  ASSUME TypeInv, [Next]_vars
  PROVE  /\ setting' = setting
         /\ \A s, day : Anniversary(Sale(s).anchor, day)' <=> Anniversary(Sale(s).anchor, day)
         /\ \A e : OnCycle(e)' <=> OnCycle(e)
  <1>1. setting' = setting
    BY TypesStep
  <1>2. \A s : Sale(s)' = Sale(s)
    BY <1>1 DEF Sale
  <1>3. \A s, day : Anniversary(Sale(s).anchor, day)' <=> Anniversary(Sale(s).anchor, day)
    <2>. TAKE s, day
    <2>1. PICK a : a = Sale(s).anchor
      OBVIOUS
    <2>2. Anniversary(a, day)' <=> Anniversary(a, day)
      BY DEF Anniversary, FirstDay, MonthOf
    <2>3. Sale(s)'.anchor = a
      BY <1>2, <2>1
    <2>. QED
      BY <2>1, <2>2, <2>3 DEF Anniversary
  <1>. QED
    BY <1>1, <1>2, <1>3 DEF OnCycle

LEMMA JobStays ==
  ASSUME TypeInv, [Next]_vars, NEW j, JobOK(j)
  PROVE  JobOK(j)'
  BY AnniversariesStay, ForestalledStays DEF JobOK

\* A job that is queued is on an anniversary.
LEMMA QueuedJobs ==
  ASSUME TypeInv, [Next]_vars, NEW s \in SubscriptionIds,
         NEW period \in [start: Nat, end: Nat, next: Nat], NEW end,
         Anniversary(Sale(s).anchor, period.next), NEW j \in NextRenewal(s, period, end)
  PROVE  JobOK(j)'
  <1>1. j.of = s /\ j.at = period.next /\ j.state = "queued"
    BY RenewalsAreTyped
  <1>. QED
    BY <1>1, AnniversariesStay DEF JobOK

LEMMA JobsStep ==
  ASSUME TypeInv, RenewalInv, CycleInv, [Next]_vars
  PROVE  \A j \in renewal' : JobOK(j)'
  <1>1. \A j \in renewal : JobOK(j)'
    BY JobStays DEF CycleInv
  <1>2. renewal \subseteq Renewal
    BY DEF TypeInv, StateOK
  <1>3. CASE renewal' = renewal
    BY <1>1, <1>3
  <1>4. CASE RetryRenewal
    <2>1. PICK j \in renewal : renewal' = (renewal \ {j}) \union {[j EXCEPT !.state = "queued"]}
      BY <1>4 DEF RetryRenewal
    <2>2. PICK k : k = [j EXCEPT !.state = "queued"]
      OBVIOUS
    <2>3. k.of = j.of /\ k.at = j.at /\ k.state = "queued"
      BY <1>2, <2>2 DEF Renewal
    <2>4. JobOK(k)'
      BY <1>1, <2>3 DEF JobOK
    <2>. QED
      BY <1>1, <2>1, <2>2, <2>4
  <1>5. ASSUME NEW r \in Open, Subscribe(r)
        PROVE  \A j \in renewal' : JobOK(j)'
    <2>1. PICK s \in SubscriptionIds \ Sold, period \in [start: Nat, end: Nat, next: Nat],
               granted \in SUBSET Entitlement :
            /\ Anniversary(Sale(s).anchor, period.next)
            /\ renewal' = renewal \union (IF granted = {} THEN {}
                                          ELSE NextRenewal(s, period, Sale(s).end))
      BY <1>5, SubscribeWrites
    <2>2. \A j \in NextRenewal(s, period, Sale(s).end) : JobOK(j)'
      BY <2>1, QueuedJobs
    <2>. QED
      BY <1>1, <2>1, <2>2
  <1>6. ASSUME NEW r \in Open, Refresh(r)
        PROVE  \A j \in renewal' : JobOK(j)'
    <2>1. PICK s \in Sold, found \in Reading :
            /\ s = request[r].ask.on /\ found = request[r].read /\ found.state = "open"
            /\ request[r].ask.op = "refresh" /\ found # None
            /\ found.period \in [start: Nat, end: Nat, next: Nat]
            /\ renewal' \subseteq renewal \union NextRenewal(s, found.period, found.end)
      BY <1>6, RefreshWrites
    <2>2. Anniversary(Sale(s).anchor, found.period.next)
      BY <2>1 DEF CycleInv, CycleOK
    <2>3. s \in SubscriptionIds
      BY <2>1 DEF Sold
    <2>4. PICK period \in [start: Nat, end: Nat, next: Nat] : period = found.period
      BY <2>1
    <2>5. \A j \in NextRenewal(s, period, found.end) : JobOK(j)'
      BY <2>2, <2>3, <2>4, QueuedJobs
    <2>. QED
      BY <1>1, <2>1, <2>4, <2>5
  <1>7. ASSUME NEW r \in Open, Settle(r) \/ Exhaust(r)
        PROVE  \A j \in renewal' : JobOK(j)'
    <2>1. PICK s \in Sold, at \in Nat, state \in {"done", "failed", "exhausted"} :
            /\ s = request[r].ask.on /\ at = request[r].ask.of /\ request[r].ask.op = "refresh"
            /\ state # "exhausted" => request[r].read # None /\ request[r].read.state = state
            /\ SettlesAs(s, at, state)
      BY <1>7, SettleWrites
    <2>2. state = "failed" => Forestalled(s, at)'
      <3>1. state = "failed" => Forestalled(s, at)
        BY <2>1 DEF CycleInv, CycleOK
      <3>. QED
        BY <3>1, ForestalledStays
    <2>3. ASSUME NEW k \in renewal', NEW j \in renewal, j.of = s, j.at = at,
                 k = [j EXCEPT !.state = state]
          PROVE  JobOK(k)'
      <3>1. k.of = s /\ k.at = at /\ k.state = state
        BY <1>2, <2>3 DEF Renewal
      <3>. QED
        BY <1>1, <2>2, <2>3, <3>1 DEF JobOK
    <2>. QED
      BY <1>1, <2>1, <2>3 DEF SettlesAs
  <1>8. \A r \in Open : Cancel(r) \/ Configure(r) => renewal' = renewal
    BY DEF Cancel, Configure
  <1>9. UNCHANGED billing => renewal' = renewal
    BY DEF billing
  <1>. QED
    BY <1>3, <1>4, <1>5, <1>6, <1>7, <1>8, <1>9, BillingSteps

\* An entitlement that is made begins on an anniversary or with the subscription, before the end.
Made(e) == OnCycle(e)' /\ Before(e.from, subscription'[e.of].end)

LEMMA MadeByRequests ==
  ASSUME TypeInv, RenewalInv, CycleInv, [Next]_vars, NEW e \in entitlement',
         e \notin entitlement, e.of # None
  PROVE  Made(e)
  <1>1. StateOK /\ setting \in Settings /\ entitlement \subseteq Entitlement
    BY DEF TypeInv, StateOK, RequestsInv
  <1>2. ASSUME NEW r \in Open, Subscribe(r)
        PROVE  Made(e)
    <2>1. PICK s \in SubscriptionIds \ Sold, period \in [start: Nat, end: Nat, next: Nat],
               sub \in Subscription, granted \in SUBSET Entitlement :
            /\ sub.end = Sale(s).end /\ subscription' = [subscription EXCEPT ![s] = sub]
            /\ period.start = Sale(s).start
            /\ granted = Granted(s, period) /\ entitlement' = entitlement \union granted
      BY <1>2, SubscribeWrites
    <2>2. e \in Granted(s, period)
      BY <1>1, <2>1
    <2>3. e.of = s /\ e.from = Sale(s).start
      BY <2>1, <2>2 DEF Granted
    <2>4. subscription'[s].end = Sale(s).end
      BY <1>1, <2>1 DEF StateOK
    <2>5. Before(Sale(s).start, Sale(s).end)
      BY <1>1, <2>1, SettingFacts DEF SaleDefinition, Before
    <2>6. OnCycle(e)'
      BY <2>3, AnniversariesStay DEF OnCycle
    <2>. QED
      BY <2>3, <2>4, <2>5, <2>6 DEF Made
  <1>3. ASSUME NEW r \in Open, Cancel(r)
        PROVE  Made(e)
    <2>1. PICK s \in Sold, end \in Nat, sub \in Subscription :
            /\ sub.end = end /\ subscription' = [subscription EXCEPT ![s] = sub]
            /\ entitlement' = Clip(s, end)
      BY <1>3, CancelWrites
    <2>2. PICK o \in entitlement : e = IF o.of = s /\ o.from < end /\ o.to > end
                                       THEN [o EXCEPT !.to = end] ELSE o
      BY <2>1 DEF Clip
    <2>3. o.of = s /\ o.from < end /\ e = [o EXCEPT !.to = end]
      BY <1>1, <2>2
    <2>4. e.of = s /\ e.from = o.from
      BY <1>1, <2>3 DEF Entitlement
    <2>5. OnCycle(o)'
      BY <2>3, <2>4, AnniversariesStay DEF CycleInv
    <2>6. subscription'[s].end = end
      BY <1>1, <2>1 DEF StateOK, Sold
    <2>7. OnCycle(e)'
      BY <2>3, <2>4, <2>5 DEF OnCycle
    <2>. QED
      BY <2>3, <2>4, <2>6, <2>7 DEF Made, Before
  <1>4. ASSUME NEW r \in Open, Refresh(r)
        PROVE  Made(e)
    <2>1. PICK s \in Sold, found \in Reading, granted \in SUBSET Entitlement :
            /\ s = request[r].ask.on /\ found = request[r].read /\ found.state = "open"
            /\ request[r].ask.op = "refresh" /\ found # None
            /\ granted = Granted(s, found.period) /\ subscription' = subscription
            /\ entitlement' \subseteq entitlement \union granted
      BY <1>4, RefreshWrites
    <2>2. PICK at : at = request[r].ask.of
      OBVIOUS
    <2>3. found.period.start = at /\ found.end = subscription[s].end
      BY <2>1, <2>2, OpenReading
    <2>4. Anniversary(Sale(s).anchor, at) /\ Before(at, found.end)
      BY <2>1, <2>2 DEF CycleInv, CycleOK
    <2>5. e \in Granted(s, found.period)
      BY <1>1, <2>1
    <2>6. e.of = s /\ e.from = at
      BY <2>3, <2>5 DEF Granted
    <2>7. OnCycle(e)'
      BY <2>4, <2>6, AnniversariesStay DEF OnCycle
    <2>. QED
      BY <2>1, <2>3, <2>4, <2>6, <2>7 DEF Made
  <1>5. ASSUME NEW r \in Open, Configure(r)
        PROVE  FALSE
    <2>1. e = [customer |-> request[r].ask.on, feature |-> request[r].ask.of,
               from |-> request[r].ask.from, to |-> request[r].ask.to, of |-> None]
      BY <1>5 DEF Configure
    <2>2. e.of = None
      BY <2>1
    <2>. QED
      BY <2>2
  <1>6. \A r \in Open : Settle(r) \/ Exhaust(r) => entitlement' = entitlement
    BY DEF Settle, Exhaust
  <1>7. UNCHANGED billing \/ RetryRenewal => entitlement' = entitlement
    BY DEF billing, RetryRenewal
  <1>. QED
    BY <1>2, <1>3, <1>4, <1>5, <1>6, <1>7, BillingSteps

LEMMA CyclesStep ==
  ASSUME TypeInv, RenewalInv, CycleInv, [Next]_vars, NEW o \in Open',
         request'[o].ask.op = "refresh"
  PROVE  \A q : q = request'[o] => CycleOK(q)'
  <1>1. StateOK /\ setting' = setting /\ entitlement \subseteq Entitlement
    BY TypesStep DEF TypeInv, StateOK
  <1>2. PICK q : q = request'[o]
    OBVIOUS
  <1>3. CASE /\ q.read = None
             /\ \E j \in renewal : q.ask.on = j.of /\ q.ask.of = j.at
    <2>1. Anniversary(Sale(q.ask.on).anchor, q.ask.of)
      BY <1>3 DEF CycleInv, JobOK
    <2>2. Anniversary(Sale(q.ask.on).anchor, q.ask.of)'
      BY <2>1, AnniversariesStay
    <2>. QED
      BY <1>2, <1>3, <2>2 DEF CycleOK
  <1>4. CASE o \in Open /\ q.ask = request[o].ask
             /\ (q.read = request[o].read \/ ReadSubscription(o) \/ Refresh(o))
    <2>1. PICK p : p = request[o]
      OBVIOUS
    <2>2. PICK s, at : s = p.ask.on /\ at = p.ask.of
      OBVIOUS
    <2>3. p.ask.op = "refresh" /\ CycleOK(p) /\ q.ask = p.ask
      BY <1>2, <1>4, <2>1 DEF CycleInv
    <2>4. Anniversary(Sale(s).anchor, at) /\ Anniversary(Sale(s).anchor, at)'
      BY <2>2, <2>3, AnniversariesStay DEF CycleOK
    <2>5. q.ask.on = s /\ q.ask.of = at
      BY <2>2, <2>3
    <2>6. CASE q.read = p.read
      <3>1. p.read # None /\ p.read.state = "open" =>
              Before(at, p.read.end) /\ Anniversary(Sale(s).anchor, p.read.period.next)'
        BY <2>2, <2>3, AnniversariesStay DEF CycleOK
      <3>2. p.read # None /\ p.read.state = "failed" => Forestalled(s, at)'
        BY <2>2, <2>3, ForestalledStays DEF CycleOK
      <3>. QED
        BY <1>2, <2>4, <2>5, <2>6, <3>1, <3>2 DEF CycleOK
    <2>7. CASE ReadSubscription(o)
      <3>1. PICK found \in Reading :
              /\ Keep(o, found) /\ request[o].rows = <<>> /\ request[o].read = None
              /\ \/ found.state = "done"
                 \/ found.state = "failed" /\ ~Anniversary(Sale(s).anchor, at)
                 \/ /\ found.state = "open" /\ Before(at, found.end)
                    /\ Anniversary(Sale(s).anchor, found.period.next)
        BY <1>4, <2>1, <2>2, <2>7, ReadSubscriptionFinds
      <3>2. setting' = setting /\ now' = now
        BY <2>7 DEF ReadSubscription
      <3>3. request'[o] = [ask |-> request[o].ask, at |-> request[o].at, rows |-> <<>>,
                           locks |-> request[o].locks, read |-> found]
        BY <1>4, <3>1, <3>2, KeptTypes
      <3>4. q.read = found
        BY <1>2, <3>3
      <3>5. found.state = "open" => Anniversary(Sale(s).anchor, found.period.next)'
        BY <3>1, AnniversariesStay
      <3>. QED
        BY <1>2, <2>4, <2>5, <3>1, <3>4, <3>5 DEF CycleOK
    <2>8. CASE Refresh(o)
      <3>1. request[o].read \in Reading /\ request[o].read # None /\ RequestsInv
        BY <1>4, <2>8, RefreshReads DEF TypeInv
      <3>2. PICK v \in {"done", "failed"}, found \in Reading :
              /\ request'[o] = [ask |-> request[o].ask, at |-> request[o].at, rows |-> <<>>,
                                locks |-> {}, read |-> found]
              /\ found.state = v
              /\ (v = "done") <=> Taken(Granted(request[o].ask.on, request[o].read.period))
                                    \subseteq entitlement
        BY <1>4, <2>8, <3>1, RefreshReleases
      <3>3. q.read = found
        BY <1>2, <3>2
      <3>4. request[o].read.state = "open" /\ request[o].ask.op = "refresh"
        BY <2>1, <2>3, <2>8 DEF Refresh
      <3>5. request[o].read.period.start = at
        BY <1>4, <2>1, <2>2, <3>1, <3>4, OpenReading
      <3>6. v = "failed" => Forestalled(s, at)
        <4>1. v = "failed" => ~(Taken(Granted(s, request[o].read.period)) \subseteq entitlement)
          BY <2>1, <2>2, <3>2
        <4>. QED
          BY <1>1, <3>5, <4>1, ConflictsForestall
      <3>7. v = "failed" => Forestalled(s, at)'
        BY <3>6, ForestalledStays
      <3>. QED
        BY <1>2, <2>4, <2>5, <3>2, <3>3, <3>7 DEF CycleOK
    <2>. QED
      BY <1>4, <2>1, <2>6, <2>7, <2>8
  <1>. QED
    BY <1>2, <1>3, <1>4, RefreshSteps

LEMMA CyclesHold == Spec => []CycleInv
  <1>1. Init => CycleInv
    <2>1. Init => Open = {} /\ entitlement = {} /\ renewal = {}
      BY DEF Init, SubscriptionsInit, CatalogInit, Open
    <2>. QED
      BY <2>1 DEF CycleInv
  <1>2. ASSUME TypeInv, RenewalInv, CycleInv, [Next]_vars
        PROVE  CycleInv'
    <2>1. \A j \in renewal' : JobOK(j)'
      BY <1>2, JobsStep
    <2>2. ASSUME NEW e \in entitlement', e.of # None
          PROVE  OnCycle(e)'
      <3>1. CASE e \in entitlement
        BY <1>2, <2>2, <3>1, AnniversariesStay DEF CycleInv
      <3>2. CASE e \notin entitlement
        BY <1>2, <2>2, <3>2, MadeByRequests DEF Made
      <3>. QED
        BY <3>1, <3>2
    <2>3. ASSUME NEW o \in Open', request'[o].ask.op = "refresh"
          PROVE  CycleOK(request[o])'
      <3>1. PICK q : q = request'[o]
        OBVIOUS
      <3>2. CycleOK(q)'
        BY <1>2, <2>3, <3>1, CyclesStep
      <3>. QED
        BY <3>1, <3>2 DEF CycleOK
    <2>. QED
      BY <2>1, <2>2, <2>3 DEF CycleInv
  <1>. QED
    BY <1>1, <1>2, RenewalsHold, TypesHold, PTL DEF Spec

\* No entitlement of a subscription precedes it, begins on another day than its anniversaries,
\* runs across its end or is made after it: a refresh that has read the end of the subscription
\* holds its lock until the entitlements are there, and a cancellation, which takes the same
\* lock, clips what it finds.
THEOREM EntitlementsFit == Spec => EntitlementsFitSubscription
  <1>1. TypeInv /\ RenewalInv /\ CycleInv => (\A e \in entitlement : e.of # None => LiesWell(e))
    <2>. SUFFICES ASSUME TypeInv, RenewalInv, CycleInv, NEW e \in entitlement, e.of # None
                  PROVE  LiesWell(e)
      OBVIOUS
    <2>1. Fits(e) /\ OnCycle(e)
      BY DEF RenewalInv, CycleInv
    <2>2. e.from \in Nat /\ Sale(e.of).start \in Nat
      <3>1. setting \in Settings /\ e \in Entitlement /\ e.of \in SubscriptionIds
        BY <2>1 DEF TypeInv, StateOK, RequestsInv, Fits, Sold
      <3>. QED
        BY <3>1, SettingFacts DEF SaleDefinition, Entitlement
    <2>. QED
      BY <2>1, <2>2 DEF Fits, OnCycle, LiesWell
  <1>2. TypeInv /\ RenewalInv /\ CycleInv /\ [Next]_vars => NewOnesBeginBeforeTheEnd
    BY MadeByRequests DEF Made, NewOnesBeginBeforeTheEnd
  <1>. QED
    BY <1>1, <1>2, CyclesHold, RenewalsHold, TypesHold, PTL DEF Spec, EntitlementsFitSubscription

\* What is linked is whole until the next renewal that is due.
LEMMA WholeChains == ASSUME TypeInv, RenewalInv PROVE ChainsAreWhole
  <1>. SUFFICES ASSUME NEW s \in Sold,
                       NEW f \in Entitled(Sale(s).version), NEW day \in Days,
                       Sale(s).start <= day, Before(day, subscription[s].end),
                       Before(day, Sale(s).end), \A due \in Due(s) : day < due
                PROVE  Covered(s, f, day)
    BY DEF ChainsAreWhole, Covered
  <1>1. day \in Nat
    <2>1. PICK last : Days = 0..last
      BY DEF Days
    <2>2. day \in Nat
      BY <2>1
    <2>. QED
      BY <2>2
  <1>2. Linked(s, Sale(s).start, Sale(s).start)
    BY DEF RenewalInv
  <1>3. Covered(s, f, day) \/ DueBetween(s, Sale(s).start, day)
    BY <1>1, <1>2 DEF Linked, InTerm
  <1>4. ASSUME NEW j \in renewal, j.of = s, j.state # "done", j.at <= day
        PROVE  FALSE
    <2>1. j.at \in Due(s)
      BY <1>4 DEF Due
    <2>2. j.at \in Nat
      BY DEF TypeInv, StateOK, Renewal
    <2>. QED
      BY <1>1, <1>4, <2>1, <2>2
  <1>. QED
    BY <1>3, <1>4 DEF DueBetween

\* Whatever commits, fails, is lost or is repeated, and wherever a subscription is canceled: what
\* no entitlement covers of the term comes after a renewal that is still to be made, and one that
\* has failed was forestalled.
THEOREM ChainsContinue == Spec => []RenewalsContinue
  <1>1. TypeInv /\ RenewalInv /\ CycleInv => RenewalsContinue
    BY WholeChains DEF RenewalsContinue, ChainsAreWhole, CycleInv, JobOK
  <1>. QED
    BY <1>1, CyclesHold, RenewalsHold, TypesHold, PTL

-----------------------------------------------------------------------------
(* What simulations count *)

Behind(watermark) == {e \in Stored : received[e] <= watermark}

\* What CountsTheSnapshot says, of what a run has found so far.
CountsAt(i, c, watermark, known, versions, counted) ==
  /\ counted \subseteq InPeriod(i, c) \intersect Behind(watermark)
  /\ \A e \in counted : Usage(e).kind # "reversal" /\ ~CorrectedBy(known \union counted, e)
  /\ \A e \in (known \intersect InPeriod(i, c)) \ counted :
       \/ Usage(e).kind = "reversal" \/ CorrectedBy(Behind(watermark), e)
       \/ Usage(e).type \notin {Measure(m).type : m \in versions}

\* A result that is priced fairly and counts the snapshot.
Good(i, c, s, versions, x) ==
  /\ FairResult(i, versions, x.counted, x)
  /\ CountsAt(i, c, s.watermark, s.known, versions, x.counted)

Answers(i, s, versions, customers, results) ==
  /\ Answered(results) = customers
  /\ \A c \in customers : Good(i, c, s, versions, results[c])

\* What is known when the watermark is taken has been received by then.
PinsWell(s) == s.known \subseteq Behind(s.watermark)

RunOK(i, run) ==
  /\ run.todo \subseteq simulation[i].customers
  /\ Answers(i, simulation[i], run.versions, simulation[i].customers \ run.todo, run.results)

RowOK(i, s) ==
  /\ PinsWell(s)
  /\ s.status = "completed" =>
       Answers(i, s, s.versions, s.customers, s.results) /\ s.summary = Summarize(s.results)

ExactInv ==
  /\ \A e \in Stored : received[e] <= now
  /\ \A r \in Open : request[r].read # None =>
       /\ request[r].ask.op = "simulate" =>
            PinsWell(request[r].read) /\ request[r].read.status = "pending"
       /\ request[r].ask.op = "run" => RunOK(request[r].ask.on, request[r].read)
  /\ \A i \in SimulationIds : simulation[i] # None => RowOK(i, simulation[i])

\* Events stay as they were received; those that come now are received by now.
Accrues ==
  /\ setting' = setting
  /\ \A e \in Stored : e \in Stored' /\ received'[e] = received[e]

LEMMA EventsAccrue ==
  ASSUME TypeInv, ExactInv, [Next]_vars
  PROVE  Accrues /\ \A e \in Stored' : received'[e] <= now'
  <1>1. setting' = setting /\ StateOK /\ now \in Nat
    BY TypesStep, NowIsNatural DEF TypeInv
  <1>2. CASE UNCHANGED received
    <2>1. now' = now \/ now' = now + 1
      <3>1. \A r \in Open : Work(r) => now' = now
        BY WorkChanges DEF Changes
      <3>. QED
        BY <3>1 DEF Next, Tick, RetryRenewal, Store, Redact, Ask, ClaimRenewal, ClaimSimulation,
                    Receive, vars, subscriptionVars, catalogVars
    <2>. QED
      BY <1>1, <1>2, <2>1 DEF Accrues, Stored, ExactInv, StateOK
  <1>3. ASSUME NEW e \in Events, Store(e)
        PROVE  Accrues /\ \A x \in Stored' : received'[x] <= now'
    <2>1. PICK at \in 0..now : received' = [received EXCEPT ![e] = at]
      BY <1>3, ReceiptsAreTyped
    <2>2. e \notin Stored /\ now' = now
      BY <1>3 DEF Store, subscriptionVars, catalogVars
    <2>. QED
      BY <1>1, <2>1, <2>2 DEF Accrues, Stored, ExactInv, StateOK
  <1>4. ASSUME NEW r \in Open, Work(r)
        PROVE  UNCHANGED received
    BY <1>4 DEF Work, Others, SimulationStep, LookAtPlans, Simulate, LoadDefinitions, ReadBatch,
                CompleteRun, FailRun
  <1>5. UNCHANGED received \/ \E e \in Events : Store(e)
    BY <1>4 DEF Next, Others, Redact, ClaimSimulation, vars
  <1>. QED
    BY <1>2, <1>3, <1>5

LEMMA CountsStays ==
  ASSUME Accrues, NEW i, NEW c, NEW watermark, NEW known, known \subseteq Stored, NEW versions,
         NEW counted, CountsAt(i, c, watermark, known, versions, counted)
  PROVE  CountsAt(i, c, watermark, known, versions, counted)'
  <1>1. Behind(watermark) \subseteq Behind(watermark)' /\ InPeriod(i, c) \subseteq InPeriod(i, c)'
        /\ known \intersect InPeriod(i, c)' \subseteq InPeriod(i, c)
    BY DEF Accrues, Behind, InPeriod, Plan, Usage
  <1>2. counted \subseteq InPeriod(i, c)' \intersect Behind(watermark)'
    BY <1>1 DEF CountsAt
  <1>3. \A e \in counted : Usage(e)'.kind # "reversal" /\ ~CorrectedBy(known \union counted, e)'
    BY DEF Accrues, CountsAt, CorrectedBy, Usage
  <1>4. \A e \in (known \intersect InPeriod(i, c)') \ counted :
          \/ Usage(e)'.kind = "reversal" \/ CorrectedBy(Behind(watermark), e)'
          \/ Usage(e)'.type \notin {Measure(m).type : m \in versions}'
    <2>. SUFFICES ASSUME NEW e \in (known \intersect InPeriod(i, c)') \ counted
                  PROVE  \/ Usage(e)'.kind = "reversal" \/ CorrectedBy(Behind(watermark), e)'
                         \/ Usage(e)'.type \notin {Measure(m).type : m \in versions}'
      OBVIOUS
    <2>1. \/ Usage(e).kind = "reversal" \/ CorrectedBy(Behind(watermark), e)
          \/ Usage(e).type \notin {Measure(m).type : m \in versions}
      BY <1>1 DEF CountsAt
    <2>. QED
      BY <1>1, <2>1 DEF Accrues, CorrectedBy, Usage, Measure
  <1>. QED
    BY <1>2, <1>3, <1>4 DEF CountsAt

LEMMA QuantityStays ==
  ASSUME setting' = setting, NEW events
  PROVE  Quantity(events)' = Quantity(events)
  <1>1. PICK f : f = [e \in events |-> Usage(e).value]
    OBVIOUS
  <1>2. PICK g : g = [e \in events |-> Usage(e)'.value]
    OBVIOUS
  <1>3. f = g
    <2>1. \A e \in events : Usage(e)'.value = Usage(e).value
      BY DEF Usage
    <2>. QED
      BY <1>1, <1>2, <2>1
  <1>4. Quantity(events) = SumFunction(f) /\ Quantity(events)' = SumFunction(g)
    BY <1>1, <1>2 DEF Quantity
  <1>. QED
    BY <1>3, <1>4

LEMMA CountedStays ==
  ASSUME setting' = setting, NEW component, NEW versions, NEW events
  PROVE  CountedBy(component, versions, events)' = CountedBy(component, versions, events)
  <1>1. \A m : Counted(m, versions, events)' = Counted(m, versions, events)
    BY DEF Counted, Measure, Usage
  <1>2. PICK m : m = IF component.feature = None THEN None ELSE setting.meterOf[component.feature]
    OBVIOUS
  <1>3. CountedBy(component, versions, events)
          = IF m = None THEN {} ELSE Counted(m, versions, events)
    BY <1>2 DEF CountedBy
  <1>4. CountedBy(component, versions, events)'
          = IF m = None THEN {} ELSE Counted(m, versions, events)'
    BY <1>2 DEF CountedBy
  <1>. QED
    BY <1>1, <1>3, <1>4

LEMMA QuantitiesStay ==
  ASSUME setting' = setting, NEW v, NEW versions, NEW events
  PROVE  Quantities(v, versions, events)' = Quantities(v, versions, events)
  <1>1. PICK components : components = Definition(v).components
    OBVIOUS
  <1>2. components = Definition(v)'.components
    BY <1>1 DEF Definition
  <1>3. \A i \in DOMAIN components :
          Quantity(CountedBy(components[i], versions, events))'
            = Quantity(CountedBy(components[i], versions, events))
    <2>. TAKE i \in DOMAIN components
    <2>1. PICK x : x = CountedBy(components[i], versions, events)
      OBVIOUS
    <2>2. x = CountedBy(components[i], versions, events)'
      BY <2>1, CountedStays
    <2>3. Quantity(x)' = Quantity(x)
      BY QuantityStays
    <2>. QED
      BY <2>1, <2>2, <2>3 DEF Quantity
  <1>4. PICK f : f = [i \in DOMAIN components |->
                       Quantity(CountedBy(components[i], versions, events))]
    OBVIOUS
  <1>5. PICK g : g = [i \in DOMAIN components |->
                       Quantity(CountedBy(components[i], versions, events))']
    OBVIOUS
  <1>6. f = g
    BY <1>3, <1>4, <1>5
  <1>7. Quantities(v, versions, events) = f /\ Quantities(v, versions, events)' = g
    BY <1>1, <1>2, <1>4, <1>5 DEF Quantities
  <1>. QED
    BY <1>6, <1>7

LEMMA PricesStay ==
  ASSUME setting' = setting, NEW i, NEW versions, NEW events, NEW x,
         FairResult(i, versions, events, x)
  PROVE  FairResult(i, versions, events, x)'
  <1>1. PICK b, d : b = Plan(i).baseline /\ d = Plan(i).candidate
    OBVIOUS
  <1>2. Plan(i)'.baseline = b /\ Plan(i)'.candidate = d
    BY <1>1 DEF Plan
  <1>3. \A v : Definition(v)' = Definition(v)
    BY DEF Definition
  <1>4. Quantities(b, versions, events)' = Quantities(b, versions, events)
        /\ Quantities(d, versions, events)' = Quantities(d, versions, events)
    BY QuantitiesStay
  <1>5. x \in Result /\ x.counted = events
    BY DEF FairResult
  <1>6. ~x.excluded =>
          /\ x.baseline = FairSubtotal(Definition(b)'.components, Quantities(b, versions, events)')
          /\ x.candidate = FairSubtotal(Definition(d)'.components, Quantities(d, versions, events)')
    BY <1>1, <1>3, <1>4 DEF FairResult
  <1>. QED
    BY <1>2, <1>5, <1>6 DEF FairResult

LEMMA AnswersStay ==
  ASSUME Accrues, NEW i, NEW s, PinsWell(s), NEW versions, NEW customers, NEW results,
         Answers(i, s, versions, customers, results)
  PROVE  Answers(i, s, versions, customers, results)'
  <1>1. s.known \subseteq Stored /\ setting' = setting
    BY DEF PinsWell, Behind, Accrues
  <1>2. ASSUME NEW c \in customers PROVE Good(i, c, s, versions, results[c])'
    <2>1. PICK x : x = results[c]
      OBVIOUS
    <2>2. FairResult(i, versions, x.counted, x)
          /\ CountsAt(i, c, s.watermark, s.known, versions, x.counted)
      BY <2>1 DEF Answers, Good
    <2>3. FairResult(i, versions, x.counted, x)'
      BY <1>1, <2>2, PricesStay
    <2>4. CountsAt(i, c, s.watermark, s.known, versions, x.counted)'
      BY <1>1, <2>2, CountsStays
    <2>. QED
      BY <2>1, <2>3, <2>4 DEF Good
  <1>. QED
    BY <1>2 DEF Answers, Answered

LEMMA PinsStay ==
  ASSUME Accrues, NEW s, PinsWell(s)
  PROVE  PinsWell(s)'
  BY DEF Accrues, PinsWell, Behind

\* The events of a customer as of the watermark are the snapshot.
LEMMA OwnEventsCount ==
  ASSUME NEW i, NEW c, NEW versions, PinsWell(simulation[i])
  PROVE  CountsAt(i, c, simulation[i].watermark, simulation[i].known, versions,
                  OwnEvents(i, versions, c))
  <1>1. PICK s : s = simulation[i]
    OBVIOUS
  <1>2. PICK counted : counted = OwnEvents(i, versions, c)
    OBVIOUS
  <1>3. \A e : e \in counted <=>
          /\ e \in InPeriod(i, c) /\ e \in Behind(s.watermark) /\ Usage(e).kind # "reversal"
          /\ ~CorrectedBy(Behind(s.watermark), e)
          /\ Usage(e).type \in {Measure(m).type : m \in versions}
    BY <1>1, <1>2 DEF OwnEvents, Effective, InPeriod, Behind, CorrectedBy
  <1>4. s.known \union counted \subseteq Behind(s.watermark)
    BY <1>1, <1>3 DEF PinsWell
  <1>5. \A e \in counted : ~CorrectedBy(s.known \union counted, e)
    BY <1>3, <1>4 DEF CorrectedBy
  <1>6. \A e \in (s.known \intersect InPeriod(i, c)) \ counted :
          \/ Usage(e).kind = "reversal" \/ CorrectedBy(Behind(s.watermark), e)
          \/ Usage(e).type \notin {Measure(m).type : m \in versions}
    BY <1>3, <1>4
  <1>7. CountsAt(i, c, s.watermark, s.known, versions, counted)
    BY <1>3, <1>5, <1>6 DEF CountsAt
  <1>. QED
    BY <1>1, <1>2, <1>7

LEMMA RowStays ==
  ASSUME Accrues, NEW i, NEW s, RowOK(i, s)
  PROVE  RowOK(i, s)'
  <1>1. PinsWell(s)'
    BY PinsStay DEF RowOK
  <1>2. s.status = "completed" => Answers(i, s, s.versions, s.customers, s.results)'
    BY AnswersStay DEF RowOK
  <1>. QED
    BY <1>1, <1>2 DEF RowOK

LEMMA SimulationSteps ==
  ASSUME TypeInv, [Next]_vars
  PROVE  /\ \/ UNCHANGED simulation
            \/ \E r \in Open : Simulate(r) \/ CompleteRun(r) \/ FailRun(r)
         /\ \A i \in SimulationIds : simulation[i] # None => Pinned(simulation[i], simulation'[i])
  <1>1. ASSUME NEW r \in Open, Work(r)
        PROVE  \/ UNCHANGED simulation
               \/ SimulationStep(r) /\ (Simulate(r) \/ CompleteRun(r) \/ FailRun(r))
    BY <1>1 DEF Work, Others, SimulationStep, LookAtPlans, LoadDefinitions, ReadBatch
  <1>2. \/ UNCHANGED simulation
        \/ \E r \in Open : SimulationStep(r) /\ (Simulate(r) \/ CompleteRun(r) \/ FailRun(r))
    BY <1>1 DEF Next, Others, Store, Redact, ClaimSimulation, vars
  <1>3. UNCHANGED simulation =>
          \A i \in SimulationIds : simulation[i] # None => Pinned(simulation[i], simulation'[i])
    BY DEF Pinned
  <1>. QED
    BY <1>2, <1>3, SimulationTypes

LEMMA RunStays ==
  ASSUME Accrues, NEW i, Pinned(simulation[i], simulation'[i]), PinsWell(simulation[i]), NEW run,
         RunOK(i, run)
  PROVE  RunOK(i, run)'
  <1>1. PICK s, t : s = simulation[i] /\ t = simulation'[i]
    OBVIOUS
  <1>2. PICK customers : customers = s.customers \ run.todo
    OBVIOUS
  <1>3. t.watermark = s.watermark /\ t.known = s.known /\ t.customers = s.customers
    BY <1>1 DEF Pinned
  <1>4. run.todo \subseteq s.customers /\ Answers(i, s, run.versions, customers, run.results)
        /\ PinsWell(s)
    BY <1>1, <1>2 DEF RunOK
  <1>5. Answers(i, s, run.versions, customers, run.results)'
    BY <1>4, AnswersStay
  <1>6. Answers(i, t, run.versions, customers, run.results)'
    BY <1>3, <1>5 DEF Answers, Good
  <1>. QED
    BY <1>1, <1>2, <1>3, <1>4, <1>6 DEF RunOK

\* The requests about simulations that have read something.
LEMMA RunSteps ==
  ASSUME TypeInv, [Next]_vars, NEW o \in Open', request'[o].read # None,
         request'[o].ask.op \in {"simulate", "run"}
  PROVE  o \in Open /\ (\/ request'[o] = request[o] \/ LookAtPlans(o) \/ LoadDefinitions(o)
                        \/ ReadBatch(o))
  <1>1. CASE o \in Open /\ LookForOverlap(o)
    <2>1. CatalogStep(o) /\ request'[o] # None
      BY <1>1 DEF CatalogStep, Open
    <2>2. request'[o] = [ask |-> request[o].ask, at |-> request[o].at, rows |-> <<>>,
                         locks |-> request[o].locks, read |-> meterVersion[request[o].ask.on]]
      BY <1>1, <2>1, CatalogChanges
    <2>3. request'[o].ask = request[o].ask
      BY <2>2
    <2>. QED
      BY <1>1, <2>3 DEF LookForOverlap, Reads
  <1>2. CASE o \in Open /\ SubscriptionStep(o) /\ Goes(request[o], request'[o])
    BY <1>2 DEF Goes, SubscriptionStep, LookAtVersion, Subscribe, Cancel, Configure,
                ReadSubscription, Refresh, Settle, Exhaust, Reads, Writes
  <1>3. CASE o \in Open /\ SimulationStep(o)
    <2>1. request'[o] # None
      BY DEF Open
    <2>2. ~(Simulate(o) \/ CompleteRun(o) \/ FailRun(o))
      BY <1>3, <2>1, FinishChanges DEF Simulate, CompleteRun, FailRun, Open, TypeInv
    <2>. QED
      BY <1>3, <2>2 DEF SimulationStep
  <1>. QED
    BY <1>1, <1>2, <1>3, RequestSteps

LEMMA RunBegins ==
  ASSUME NEW i, NEW run, run.todo = simulation[i].customers, run.results = NoResults
  PROVE  RunOK(i, run)
  <1>1. Answered(run.results) = {} /\ simulation[i].customers \ run.todo = {}
    BY DEF Answered, NoResults
  <1>. QED
    BY <1>1 DEF RunOK, Answers

LEMMA RunContinues ==
  ASSUME TypeInv, ExactInv, NEW r \in Open, ReadBatch(r)
  PROVE  \E next \in Run : /\ RunOK(request[r].ask.on, next)
                           /\ Changes(r) /\ request'[r].ask = request[r].ask
                           /\ request'[r].read = next
  <1>1. PICK i, run : i = request[r].ask.on /\ run = request[r].read
    OBVIOUS
  <1>2. request[r].ask.op = "run" /\ run # None
    BY <1>1 DEF ReadBatch, Writes
  <1>3. i \in SimulationIds /\ simulation[i] \in Simulation /\ Charged(i) /\ run \in Run
    BY <1>1, <1>2, RunReads
  <1>4. RunOK(i, run)
    BY <1>1, <1>2 DEF ExactInv
  <1>5. PICK next \in Run, batch \in SUBSET run.todo :
          /\ next.versions = run.versions
          /\ \/ /\ Keep(r, next)
                /\ next.todo = run.todo \ batch
                /\ \A c \in Customers : next.results[c] =
                     IF c \in batch
                     THEN ResultOf(i, next.versions, OwnEvents(i, next.versions, c))
                     ELSE run.results[c]
             \/ /\ request' = [request EXCEPT ![r].locks = {}, ![r].read.failed = TRUE]
                /\ next = [request[r].read EXCEPT !.failed = TRUE]
                /\ next.todo = run.todo /\ next.results = run.results
    BY <1>1, ReadBatchFinds
  <1>6. PICK locks \in SUBSET request[r].locks :
          /\ Changes(r)
          /\ request'[r] = [ask |-> request[r].ask, at |-> request[r].at, rows |-> <<>>,
                            locks |-> locks, read |-> next]
    <2>1. \/ Keep(r, next)
          \/ /\ request' = [request EXCEPT ![r].locks = {}, ![r].read.failed = TRUE]
             /\ next = [request[r].read EXCEPT !.failed = TRUE]
      BY <1>5
    <2>2. /\ Changes(r)
          /\ \E locks \in SUBSET request[r].locks :
               request'[r] = [ask |-> request[r].ask, at |-> request[r].at, rows |-> <<>>,
                              locks |-> locks, read |-> next]
      BY <2>1, ReadBatchChanges
    <2>. QED
      BY <2>2
  <1>7. request'[r].ask = request[r].ask /\ request'[r].read = next
    BY <1>6
  <1>8. RunOK(i, next)
    <2>1. CASE next.todo = run.todo /\ next.results = run.results
      BY <1>4, <1>5, <2>1 DEF RunOK
    <2>2. CASE /\ next.todo = run.todo \ batch
               /\ \A c \in Customers : next.results[c] =
                    IF c \in batch
                    THEN ResultOf(i, next.versions, OwnEvents(i, next.versions, c))
                    ELSE run.results[c]
      <3>1. PICK s : s = simulation[i]
        OBVIOUS
      <3>2. run.todo \subseteq s.customers /\ Answered(run.results) = s.customers \ run.todo
            /\ (\A c \in s.customers \ run.todo : Good(i, c, s, run.versions, run.results[c]))
        BY <1>4, <3>1 DEF RunOK, Answers
      <3>3. s.customers \subseteq Customers /\ PinsWell(s)
        <4>1. simulation[i] # None
          BY <1>3, NoSimulationAssumption
        <4>. QED
          BY <1>3, <3>1, <4>1 DEF Simulation, ExactInv, RowOK
      <3>4. ASSUME NEW c \in batch
            PROVE  next.results[c] # None /\ Good(i, c, s, next.versions, next.results[c])
        <4>1. PICK events : events = OwnEvents(i, next.versions, c)
          OBVIOUS
        <4>2. events \in SUBSET Events
          BY <4>1 DEF OwnEvents, Effective, Stored
        <4>3. PICK x : x = ResultOf(i, next.versions, events)
          OBVIOUS
        <4>4. FairResult(i, next.versions, events, x)
          BY <1>3, <4>2, <4>3, ResultsAreFair
        <4>5. x \in Result /\ x.counted = events
          BY <4>4 DEF FairResult
        <4>6. CountsAt(i, c, s.watermark, s.known, next.versions, events)
          BY <3>1, <3>3, <4>1, OwnEventsCount
        <4>7. next.results[c] = x
          BY <2>2, <3>2, <3>3, <4>1, <4>3
        <4>. QED
          BY <4>4, <4>5, <4>6, <4>7, NoSimulationAssumption DEF Good
      <3>5. ASSUME NEW c \in s.customers \ run.todo
            PROVE  next.results[c] # None /\ Good(i, c, s, next.versions, next.results[c])
        <4>1. next.results[c] = run.results[c]
          BY <2>2, <3>3
        <4>2. run.results[c] # None
          BY <3>2 DEF Answered
        <4>. QED
          BY <1>5, <3>2, <4>1, <4>2
      <3>6. \A c \in s.customers \ next.todo :
              next.results[c] # None /\ Good(i, c, s, next.versions, next.results[c])
        BY <2>2, <3>4, <3>5
      <3>7. \A c \in Customers : next.results[c] # None => c \in s.customers \ next.todo
        BY <2>2, <3>2 DEF Answered
      <3>8. Answered(next.results) = s.customers \ next.todo
        BY <3>3, <3>6, <3>7 DEF Answered
      <3>9. next.todo \subseteq s.customers
        BY <2>2, <3>2
      <3>. QED
        BY <3>1, <3>6, <3>8, <3>9 DEF RunOK, Answers
    <2>. QED
      BY <1>5, <2>1, <2>2
  <1>. QED
    BY <1>1, <1>6, <1>7, <1>8

LEMMA RequestsExact ==
  ASSUME TypeInv, ExactInv, [Next]_vars, NEW o \in Open', request'[o].read # None
  PROVE  /\ request'[o].ask.op = "simulate" =>
              PinsWell(request[o].read)' /\ request'[o].read.status = "pending"
         /\ request'[o].ask.op = "run" => RunOK(request[o].ask.on, request[o].read)'
  <1>. SUFFICES ASSUME request'[o].ask.op \in {"simulate", "run"}
                PROVE  /\ request'[o].ask.op = "simulate" =>
                            PinsWell(request[o].read)' /\ request'[o].read.status = "pending"
                       /\ request'[o].ask.op = "run" => RunOK(request[o].ask.on, request[o].read)'
    OBVIOUS
  <1>1. PICK q, i, found : q = request'[o] /\ i = q.ask.on /\ found = q.read
    OBVIOUS
  <1>2. Accrues /\ o \in Open
    BY EventsAccrue, RunSteps
  <1>3. q.ask = request[o].ask
    <2>1. LookAtPlans(o) \/ LoadDefinitions(o) \/ ReadBatch(o) =>
            SimulationStep(o) /\ request'[o] # None
      BY DEF SimulationStep, Open
    <2>. QED
      BY <1>1, <1>2, <2>1, RunSteps, SimulationAsks
  <1>4. ASSUME q.ask.op = "run"
        PROVE  /\ i \in SimulationIds /\ simulation[i] # None /\ PinsWell(simulation[i])
               /\ Pinned(simulation[i], simulation'[i])
    <2>1. i \in SimulationIds /\ simulation[i] \in Simulation
      BY <1>1, <1>2, <1>3, <1>4, RunReads
    <2>2. simulation[i] # None
      BY <2>1, NoSimulationAssumption
    <2>. QED
      BY <2>1, <2>2, SimulationSteps DEF ExactInv, RowOK
  <1>5. CASE request'[o] = request[o]
    <2>1. /\ q.ask.op = "simulate" => PinsWell(found) /\ found.status = "pending"
          /\ q.ask.op = "run" => RunOK(i, found)
      BY <1>1, <1>2, <1>5 DEF ExactInv
    <2>2. q.ask.op = "simulate" => PinsWell(found)'
      BY <1>2, <2>1, PinsStay
    <2>3. q.ask.op = "run" => RunOK(i, found)'
      BY <1>2, <1>4, <2>1, RunStays
    <2>. QED
      BY <1>1, <2>1, <2>2, <2>3
  <1>6. CASE LookAtPlans(o)
    <2>1. PICK x \in Simulation :
            /\ Keep(o, x) /\ setting' = setting /\ now' = now
            /\ request[o].rows = <<>> /\ request[o].read = None /\ request[o].ask.op = "simulate"
            /\ x.watermark = now /\ x.known = Stored /\ x.status = "pending"
      BY <1>2, <1>6, LookAtPlansFinds
    <2>2. request'[o] = [ask |-> request[o].ask, at |-> request[o].at, rows |-> <<>>,
                         locks |-> request[o].locks, read |-> x]
      BY <1>2, <2>1, KeptTypes
    <2>3. found = x /\ q.ask.op = "simulate"
      BY <1>1, <1>3, <2>1, <2>2
    <2>4. PinsWell(x)
      BY <2>1 DEF PinsWell, Behind, ExactInv
    <2>5. PinsWell(x)'
      BY <1>2, <2>4, PinsStay
    <2>. QED
      BY <1>1, <2>1, <2>3, <2>5
  <1>7. CASE LoadDefinitions(o)
    <2>1. PICK x \in Run :
            /\ Keep(o, x) /\ setting' = setting /\ now' = now
            /\ request[o].rows = <<>> /\ request[o].read = None /\ request[o].ask.op = "run"
            /\ x.todo = simulation[request[o].ask.on].customers /\ x.results = NoResults
      BY <1>2, <1>7, LoadDefinitionsFinds
    <2>2. request'[o] = [ask |-> request[o].ask, at |-> request[o].at, rows |-> <<>>,
                         locks |-> request[o].locks, read |-> x]
      BY <1>2, <2>1, KeptTypes
    <2>3. found = x /\ q.ask.op = "run"
      BY <1>1, <1>3, <2>1, <2>2
    <2>4. RunOK(i, x)
      BY <1>1, <1>3, <2>1, RunBegins
    <2>5. RunOK(i, x)'
      BY <1>2, <1>4, <2>3, <2>4, RunStays
    <2>. QED
      BY <1>1, <2>3, <2>5
  <1>8. CASE ReadBatch(o)
    <2>1. PICK x \in Run : RunOK(request[o].ask.on, x) /\ request'[o].read = x
      BY <1>2, <1>8, RunContinues
    <2>2. q.ask.op = "run" /\ found = x
      BY <1>1, <1>3, <1>8, <2>1 DEF ReadBatch, Writes
    <2>3. RunOK(i, x)
      BY <1>1, <1>3, <2>1
    <2>4. RunOK(i, x)'
      BY <1>2, <1>4, <2>2, <2>3, RunStays
    <2>. QED
      BY <1>1, <2>2, <2>4
  <1>. QED
    BY <1>5, <1>6, <1>7, <1>8, RunSteps

LEMMA RowsExact ==
  ASSUME TypeInv, ExactInv, [Next]_vars, NEW i \in SimulationIds, simulation'[i] # None
  PROVE  \A t : t = simulation'[i] => RowOK(i, t)'
  <1>1. PICK t : t = simulation'[i]
    OBVIOUS
  <1>2. Accrues /\ StateOK
    BY EventsAccrue DEF TypeInv
  <1>3. CASE t = simulation[i]
    <2>1. RowOK(i, t)
      BY <1>1, <1>3 DEF ExactInv
    <2>. QED
      BY <1>1, <1>2, <2>1, RowStays
  <1>4. ASSUME NEW r \in Open, Simulate(r), t # simulation[i]
        PROVE  RowOK(i, t)'
    <2>1. PICK j \in SimulationIds, row \in Simulation :
            /\ row = request[r].read /\ request[r].ask.op = "simulate"
            /\ simulation' = [simulation EXCEPT ![j] = row]
      BY <1>4, SimulateWrites
    <2>2. t = row
      BY <1>1, <1>2, <1>4, <2>1 DEF StateOK
    <2>3. row # None
      BY <2>1, NoSimulationAssumption
    <2>4. PinsWell(row) /\ row.status = "pending"
      BY <2>1, <2>3 DEF ExactInv
    <2>5. RowOK(i, t)
      BY <2>2, <2>4 DEF RowOK
    <2>. QED
      BY <1>2, <2>5, RowStays
  <1>5. ASSUME NEW r \in Open, CompleteRun(r), t # simulation[i]
        PROVE  RowOK(i, t)'
    <2>1. PICK j \in SimulationIds, run \in Run, row \in Simulation :
            /\ j = request[r].ask.on /\ run = request[r].read /\ request[r].ask.op = "run"
            /\ run.todo = {} /\ simulation[j] \in Simulation
            /\ simulation' = [simulation EXCEPT ![j] = row]
            /\ row = SimulationRow(simulation[j], "completed", run.versions, run.results,
                                   Summarize(run.results))
      BY <1>5, CompleteRunWrites
    <2>2. j = i /\ t = row
      BY <1>1, <1>2, <1>5, <2>1 DEF StateOK
    <2>3. PICK s \in Simulation : s = simulation[i]
      BY <2>1, <2>2
    <2>4. run # None
      BY <1>5, <2>1 DEF CompleteRun, Writes
    <2>5. RunOK(i, run)
      BY <2>1, <2>2, <2>4 DEF ExactInv
    <2>6. Answers(i, s, run.versions, s.customers, run.results)
      <3>1. s.customers \ run.todo = s.customers
        BY <2>1
      <3>. QED
        BY <2>3, <2>5, <3>1 DEF RunOK
    <2>7. /\ t.watermark = s.watermark /\ t.customers = s.customers /\ t.known = s.known
          /\ t.versions = run.versions /\ t.results = run.results
          /\ t.summary = Summarize(run.results)
      BY <2>1, <2>2, <2>3 DEF SimulationRow
    <2>8. PinsWell(s)
      BY <2>3, NoSimulationAssumption DEF ExactInv, RowOK
    <2>9. RowOK(i, t)
      BY <2>6, <2>7, <2>8 DEF RowOK, PinsWell, Answers, Good
    <2>. QED
      BY <1>2, <2>9, RowStays
  <1>6. ASSUME NEW r \in Open, FailRun(r), t # simulation[i]
        PROVE  RowOK(i, t)'
    <2>1. PICK j \in SimulationIds, row \in Simulation :
            /\ simulation[j] \in Simulation
            /\ simulation' = [simulation EXCEPT ![j] = row]
            /\ row.watermark = simulation[j].watermark /\ row.known = simulation[j].known
            /\ row.status = "completed" => row = simulation[j]
      BY <1>6, FailRunWrites
    <2>2. j = i /\ t = row
      BY <1>1, <1>2, <1>6, <2>1 DEF StateOK
    <2>3. PinsWell(simulation[i])
      BY <2>1, <2>2, NoSimulationAssumption DEF ExactInv, RowOK
    <2>4. RowOK(i, t)
      BY <1>6, <2>1, <2>2, <2>3 DEF RowOK, PinsWell
    <2>. QED
      BY <1>2, <2>4, RowStays
  <1>. QED
    BY <1>1, <1>3, <1>4, <1>5, <1>6, SimulationSteps

LEMMA ExactStep ==
  ASSUME TypeInv, ExactInv, [Next]_vars
  PROVE  ExactInv'
  <1>1. \A e \in Stored' : received'[e] <= now'
    BY EventsAccrue
  <1>2. \A i \in SimulationIds : simulation'[i] # None => RowOK(i, simulation[i])'
    <2>. SUFFICES ASSUME NEW i \in SimulationIds, simulation'[i] # None
                  PROVE  RowOK(i, simulation[i])'
      OBVIOUS
    <2>1. PICK t : t = simulation'[i]
      OBVIOUS
    <2>2. RowOK(i, t)'
      BY <2>1, RowsExact
    <2>. QED
      BY <2>1, <2>2
  <1>. QED
    BY <1>1, <1>2, RequestsExact DEF ExactInv

LEMMA ExactInit ==
  ASSUME Init
  PROVE  ExactInv
  <1>1. Open = {} /\ Stored = {} /\ \A i \in SimulationIds : simulation[i] = None
    BY DEF Init, SubscriptionsInit, CatalogInit, Open, Stored
  <1>. QED
    BY <1>1 DEF ExactInv

\* A completed simulation has one result for each customer, counted from the snapshot that its
\* watermark pins and priced unit by unit, and its summary adds them up: a run keeps the result
\* of every customer whose events it has read, those events stay what they were at the watermark
\* whatever is stored, redacted or published meanwhile, and a run that fails writes no result.
THEOREM CompletedAreExact == Spec => []SimulationsAreExact
  <1>1. TypeInv /\ ExactInv => SimulationsAreExact
    <2>. SUFFICES ASSUME TypeInv, ExactInv, NEW i \in SimulationIds, simulation[i] # None,
                         simulation[i].status = "completed"
                  PROVE  LET s == simulation[i]
                             included == {c \in s.customers : ~s.results[c].excluded}
                             Fair(v) == SumFunction([c \in included |-> FairPrice(i, v, c)])
                         IN /\ Answered(s.results) = s.customers
                            /\ \A c \in s.customers : CountsTheSnapshot(i, c)
                            /\ \A c \in included :
                                 /\ s.results[c].baseline = FairPrice(i, Plan(i).baseline, c)
                                 /\ s.results[c].candidate = FairPrice(i, Plan(i).candidate, c)
                            /\ s.summary.baseline = Fair(Plan(i).baseline)
                            /\ s.summary.candidate = Fair(Plan(i).candidate)
      BY DEF SimulationsAreExact
    <2>0. PICK s \in Simulation : s = simulation[i]
      BY DEF TypeInv, StateOK
    <2>1. PICK included : /\ included = {c \in s.customers : ~s.results[c].excluded}
                          /\ s = simulation[i]
      BY <2>0
    <2>2. /\ Answered(s.results) = s.customers
          /\ \A c \in s.customers : Good(i, c, s, s.versions, s.results[c])
          /\ s.summary = Summarize(s.results)
      BY <2>1 DEF ExactInv, RowOK, Answers
    <2>3. \A c \in s.customers : CountsTheSnapshot(i, c)
      BY <2>1, <2>2 DEF Good, CountsAt, CountsTheSnapshot, Behind
    <2>4. \A c \in included :
            /\ s.results[c].baseline = FairPrice(i, Plan(i).baseline, c)
            /\ s.results[c].candidate = FairPrice(i, Plan(i).candidate, c)
      BY <2>1, <2>2 DEF Good, FairResult, FairPrice
    <2>5. included = Included(s.results)
      BY <2>1, <2>2 DEF Included
    <2>6. /\ s.summary.baseline = SumFunction([c \in included |-> s.results[c].baseline])
          /\ s.summary.candidate = SumFunction([c \in included |-> s.results[c].candidate])
      <3>1. s.results \in [Customers -> Result \union {None}]
        BY SimulationsAreRows
      <3>. QED
        BY <2>2, <2>5, <3>1, SummariesAreTyped
    <2>7. /\ [c \in included |-> s.results[c].baseline]
               = [c \in included |-> FairPrice(i, Plan(i).baseline, c)]
          /\ [c \in included |-> s.results[c].candidate]
               = [c \in included |-> FairPrice(i, Plan(i).candidate, c)]
      BY <2>4
    <2>. QED
      BY <2>1, <2>2, <2>3, <2>4, <2>6, <2>7
  <1>2. TypeInv /\ ExactInv /\ [Next]_vars => ExactInv'
    BY ExactStep
  <1>. QED
    BY <1>1, <1>2, ExactInit, TypesHold, PTL DEF Spec
=============================================================================
