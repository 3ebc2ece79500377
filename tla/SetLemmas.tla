----------------------------- MODULE SetLemmas -----------------------------
(***************************************************************************)
(* Least numbers, and sums over finite sets as the folds of the community  *)
(* modules define them: a fold takes one element after the other, and its  *)
(* result does not depend on which.  Induction is the choice of a least    *)
(* counterexample.                                                         *)
(***************************************************************************)
EXTENDS Integers, FiniteSetsExt, FiniteSetTheorems, WellFoundedInduction, TLAPS

LEMMA LeastNumber ==
  ASSUME NEW T \in SUBSET Nat, T # {}
  PROVE  \E x \in T : \A y \in T : x <= y
  <1>1. PICK x \in T : \A y \in T : ~(<<y, x>> \in OpToRel(<, Nat))
    BY NatLessThanWellFounded, WFMin
  <1>2. \A y \in T : ~(y < x)
    BY <1>1 DEF OpToRel
  <1>. QED
    BY <1>2

\* The element that a fold takes next.
Chosen(s) == CHOOSE x \in s : TRUE

\* h has the sum of f over each subset of S.
IsSum(h, f, S) ==
  h = [s \in SUBSET S |-> IF s = {} THEN 0 ELSE f[Chosen(s)] + h[s \ {Chosen(s)}]]

SumOver(f, S) == SumFunctionOnSet(f, S)

LEMMA OneLess ==
  ASSUME NEW S, IsFiniteSet(S), NEW x \in S
  PROVE  /\ IsFiniteSet(S \ {x}) /\ Cardinality(S \ {x}) \in Nat /\ Cardinality(S) \in Nat
         /\ Cardinality(S \ {x}) < Cardinality(S)
  <1>1. IsFiniteSet(S \ {x}) /\ Cardinality(S \ {x}) = Cardinality(S) - 1
    BY FS_RemoveElement
  <1>2. Cardinality(S) \in Nat /\ Cardinality(S \ {x}) \in Nat
    BY <1>1, FS_CardinalityType
  <1>. QED
    BY <1>1, <1>2

\* Two such functions agree where both are defined.
LEMMA SumsAgree ==
  ASSUME NEW S, NEW T, NEW f, NEW g, NEW h, NEW k, IsSum(h, f, S), IsSum(k, g, T),
         IsFiniteSet(S), S \subseteq T, \A x \in S : f[x] = g[x]
  PROVE  \A s \in SUBSET S : h[s] = k[s]
  <1> DEFINE Wrong == {s \in SUBSET S : h[s] # k[s]}
             Sizes == {Cardinality(s) : s \in Wrong}
  <1> SUFFICES ASSUME Wrong # {} PROVE FALSE
    OBVIOUS
  <1>1. Sizes \in SUBSET Nat /\ Sizes # {}
    BY FS_Subset, FS_CardinalityType
  <1>2. PICK n \in Sizes : \A m \in Sizes : n <= m
    <2> HIDE DEF Sizes
    <2>. QED BY <1>1, LeastNumber
  <1>3. PICK s \in Wrong : \A o \in Wrong : Cardinality(s) <= Cardinality(o)
    BY <1>2
  <1>4. /\ h[s] = IF s = {} THEN 0 ELSE f[Chosen(s)] + h[s \ {Chosen(s)}]
        /\ k[s] = IF s = {} THEN 0 ELSE g[Chosen(s)] + k[s \ {Chosen(s)}]
    BY DEF IsSum
  <1>5. s # {} /\ Chosen(s) \in s
    BY <1>4 DEF Chosen
  <1>6. f[Chosen(s)] = g[Chosen(s)]
    BY <1>5
  <1>7. s \ {Chosen(s)} \in Wrong
    BY <1>4, <1>5, <1>6
  <1>8. Cardinality(s \ {Chosen(s)}) < Cardinality(s)
        /\ Cardinality(s) \in Nat /\ Cardinality(s \ {Chosen(s)}) \in Nat
    BY <1>5, FS_Subset, OneLess
  <1>. QED
    BY <1>3, <1>7, <1>8

\* The small subsets have such a function.
Small(S, n) == {s \in SUBSET S : Cardinality(s) <= n}

IsSmallSum(h, f, S, n) ==
  /\ h \in [Small(S, n) -> Int]
  /\ \A s \in Small(S, n) : h[s] = IF s = {} THEN 0 ELSE f[Chosen(s)] + h[s \ {Chosen(s)}]

LEMMA SmallSums ==
  ASSUME NEW S, IsFiniteSet(S), NEW f \in [S -> Int], NEW n \in Nat
  PROVE  \E h : IsSmallSum(h, f, S, n)
  <1> DEFINE Bad == {m \in Nat : ~\E h : IsSmallSum(h, f, S, m)}
  <1> SUFFICES ASSUME Bad # {} PROVE FALSE
    OBVIOUS
  <1>1. PICK m \in Bad : \A k \in Bad : m <= k
    <2>1. Bad \in SUBSET Nat
      OBVIOUS
    <2>. QED
      <3> HIDE DEF Bad
      <3>. QED BY <2>1, LeastNumber
  <1>2. \A s \in SUBSET S : IsFiniteSet(s) /\ Cardinality(s) \in Nat
    BY FS_Subset, FS_CardinalityType
  <1>3. m # 0
    <2> SUFFICES ASSUME m = 0 PROVE FALSE
      OBVIOUS
    <2> DEFINE h == [s \in Small(S, 0) |-> 0]
    <2>1. \A s \in Small(S, 0) : s = {}
      <3> SUFFICES ASSUME NEW s \in Small(S, 0) PROVE s = {}
        OBVIOUS
      <3>1. IsFiniteSet(s) /\ Cardinality(s) = 0
        BY <1>2 DEF Small
      <3>. QED
        BY <3>1, FS_EmptySet
    <2>2. IsSmallSum(h, f, S, 0)
      BY <2>1 DEF IsSmallSum
    <2>. QED
      BY <2>2
  <1>4. PICK g : IsSmallSum(g, f, S, m - 1)
    <2>1. m - 1 \in Nat /\ m - 1 \notin Bad
      BY <1>1, <1>3
    <2>. QED
      BY <2>1
  <1> DEFINE h == [s \in Small(S, m) |-> IF s = {} THEN 0 ELSE f[Chosen(s)] + g[s \ {Chosen(s)}]]
  <1>5. \A s \in Small(S, m) : s # {} => Chosen(s) \in S /\ s \ {Chosen(s)} \in Small(S, m - 1)
    <2> SUFFICES ASSUME NEW s \in Small(S, m), s # {}
                 PROVE  Chosen(s) \in S /\ s \ {Chosen(s)} \in Small(S, m - 1)
      OBVIOUS
    <2>1. Chosen(s) \in s /\ s \in SUBSET S /\ Cardinality(s) <= m
      BY DEF Chosen, Small
    <2>2. Cardinality(s \ {Chosen(s)}) < Cardinality(s)
          /\ Cardinality(s \ {Chosen(s)}) \in Nat /\ Cardinality(s) \in Nat
      BY <1>2, <2>1, OneLess
    <2>3. Cardinality(s \ {Chosen(s)}) <= m - 1
      BY <2>1, <2>2
    <2>. QED
      BY <2>1, <2>3 DEF Small
  <1>6. h \in [Small(S, m) -> Int]
    <2> SUFFICES ASSUME NEW s \in Small(S, m), s # {}
                 PROVE  f[Chosen(s)] + g[s \ {Chosen(s)}] \in Int
      OBVIOUS
    <2>. QED
      BY <1>4, <1>5 DEF IsSmallSum
  <1>7. \A s \in Small(S, m - 1) : s \in Small(S, m) /\ h[s] = g[s]
    <2> SUFFICES ASSUME NEW s \in Small(S, m - 1)
                 PROVE  s \in Small(S, m) /\ h[s] = g[s]
      OBVIOUS
    <2>1. s \in Small(S, m)
      BY <1>2 DEF Small
    <2>. QED
      BY <1>4, <2>1 DEF IsSmallSum
  <1>8. IsSmallSum(h, f, S, m)
    <2> SUFFICES ASSUME NEW s \in Small(S, m), s # {}
                 PROVE  h[s] = f[Chosen(s)] + h[s \ {Chosen(s)}]
      BY <1>6 DEF IsSmallSum
    <2>. QED
      BY <1>5, <1>7
  <1>. QED
    BY <1>1, <1>8

LEMMA SumExists ==
  ASSUME NEW S, IsFiniteSet(S), NEW f \in [S -> Int]
  PROVE  \E h : IsSum(h, f, S) /\ h \in [SUBSET S -> Int]
  <1>1. Cardinality(S) \in Nat /\ \A s \in SUBSET S : Cardinality(s) <= Cardinality(S)
    BY FS_CardinalityType, FS_Subset
  <1>2. Small(S, Cardinality(S)) = SUBSET S
    BY <1>1 DEF Small
  <1>3. PICK h : IsSmallSum(h, f, S, Cardinality(S))
    BY <1>1, SmallSums
  <1>4. IsSum(h, f, S)
    BY <1>2, <1>3 DEF IsSmallSum, IsSum
  <1>. QED
    BY <1>2, <1>3, <1>4 DEF IsSmallSum

LEMMA SumHas ==
  ASSUME NEW S, IsFiniteSet(S), NEW f, \A x \in S : f[x] \in Int
  PROVE  \E h : IsSum(h, f, S) /\ h \in [SUBSET S -> Int]
  <1> DEFINE e == [x \in S |-> f[x]]
  <1>1. PICK h : IsSum(h, e, S) /\ h \in [SUBSET S -> Int]
    BY SumExists
  <1>2. \A s \in SUBSET S : s # {} => Chosen(s) \in S
    BY DEF Chosen
  <1>. QED
    BY <1>1, <1>2 DEF IsSum

\* Whatever has the sums has the one of the fold.
LEMMA SumIs ==
  ASSUME NEW S, IsFiniteSet(S), NEW f, \A x \in S : f[x] \in Int, NEW h, IsSum(h, f, S)
  PROVE  SumOver(f, S) = h[S] /\ SumOver(f, S) \in Int
  <1> DEFINE Iter == CHOOSE g : IsSum(g, f, S)
  <1>1. SumOver(f, S) = Iter[S]
    BY DEF SumOver, SumFunctionOnSet, FoldFunctionOnSet, MapThenFoldSet, IsSum, Chosen
  <1>2. IsSum(Iter, f, S)
    OBVIOUS
  <1>3. PICK g : IsSum(g, f, S) /\ g \in [SUBSET S -> Int]
    BY SumHas
  <1> HIDE DEF Iter
  <1>4. Iter[S] = h[S] /\ Iter[S] = g[S]
    BY <1>2, <1>3, SumsAgree
  <1>. QED
    BY <1>1, <1>3, <1>4

LEMMA SumOfNone ==
  ASSUME NEW f
  PROVE  SumOver(f, {}) = 0
  <1> DEFINE h == [s \in SUBSET {} |-> 0]
             Iter == CHOOSE k : IsSum(k, f, {})
  <1>1. IsSum(h, f, {})
    BY DEF IsSum
  <1>2. IsSum(Iter, f, {})
    BY <1>1
  <1>3. SumOver(f, {}) = Iter[{}]
    BY DEF SumOver, SumFunctionOnSet, FoldFunctionOnSet, MapThenFoldSet, IsSum, Chosen
  <1> HIDE DEF Iter
  <1>. QED
    BY <1>2, <1>3 DEF IsSum

LEMMA SumOfEqual ==
  ASSUME NEW S, IsFiniteSet(S), NEW f, NEW g, \A x \in S : f[x] = g[x] /\ f[x] \in Int
  PROVE  SumOver(f, S) = SumOver(g, S) /\ SumOver(f, S) \in Int
  <1>1. PICK h : IsSum(h, f, S) /\ h \in [SUBSET S -> Int]
    BY SumHas
  <1>2. IsSum(h, g, S)
    <2>1. \A s \in SUBSET S : s # {} => Chosen(s) \in S
      BY DEF Chosen
    <2>. QED
      BY <1>1, <2>1 DEF IsSum
  <1>. QED
    BY <1>1, <1>2, SumIs

\* A sum is that of all but the next element, and the next element.
LEMMA SumTakesNext ==
  ASSUME NEW S, IsFiniteSet(S), S # {}, NEW f, \A x \in S : f[x] \in Int
  PROVE  SumOver(f, S) = f[Chosen(S)] + SumOver(f, S \ {Chosen(S)})
  <1> DEFINE R == S \ {Chosen(S)}
             F == CHOOSE h : IsSum(h, f, S)
             G == CHOOSE h : IsSum(h, f, R)
  <1>1. PICK h : IsSum(h, f, S) /\ h \in [SUBSET S -> Int]
    BY SumHas
  <1>2. IsSum([s \in SUBSET R |-> h[s]], f, R)
    BY <1>1 DEF IsSum
  <1>3. IsSum(F, f, S) /\ IsSum(G, f, R)
    BY <1>1, <1>2
  <1>4. SumOver(f, S) = F[S] /\ SumOver(f, R) = G[R]
    BY DEF SumOver, SumFunctionOnSet, FoldFunctionOnSet, MapThenFoldSet, IsSum, Chosen
  <1>5. G[R] = F[R]
    <2> HIDE DEF F, G
    <2>1. IsFiniteSet(R) /\ R \subseteq S
      BY FS_Subset
    <2>. QED
      <3> HIDE DEF R
      <3>. QED BY <1>3, <2>1, SumsAgree
  <1>6. F[S] = f[Chosen(S)] + F[R]
    <2> HIDE DEF F, G
    <2>. QED BY <1>3 DEF IsSum
  <1>. QED
    BY <1>4, <1>5, <1>6

\* Any element may be taken.
LEMMA SumTakes ==
  ASSUME NEW S, IsFiniteSet(S), NEW f, \A x \in S : f[x] \in Int, NEW y \in S
  PROVE  SumOver(f, S) = f[y] + SumOver(f, S \ {y})
  <1> DEFINE Wrong == {s \in SUBSET S : \E z \in s : SumOver(f, s) # f[z] + SumOver(f, s \ {z})}
             Sizes == {Cardinality(s) : s \in Wrong}
  <1> SUFFICES ASSUME Wrong # {} PROVE FALSE
    OBVIOUS
  <1>1. \A s \in SUBSET S : IsFiniteSet(s) /\ Cardinality(s) \in Nat
    BY FS_Subset, FS_CardinalityType
  <1>2. Sizes \in SUBSET Nat /\ Sizes # {}
    BY <1>1
  <1>3. PICK n \in Sizes : \A m \in Sizes : n <= m
    <2> HIDE DEF Sizes
    <2>. QED BY <1>2, LeastNumber
  <1>4. PICK s \in Wrong : \A o \in Wrong : Cardinality(s) <= Cardinality(o)
    BY <1>3
  <1>5. PICK z \in s : SumOver(f, s) # f[z] + SumOver(f, s \ {z})
    BY <1>4
  <1> DEFINE x == Chosen(s)
  <1>6. s \in SUBSET S /\ s # {} /\ x \in s /\ IsFiniteSet(s)
    BY <1>1, <1>5 DEF Chosen
  <1>7. SumOver(f, s) = f[x] + SumOver(f, s \ {x})
    BY <1>6, SumTakesNext
  <1>8. x # z
    BY <1>5, <1>7
  <1>9. \A w \in s : s \ {w} \notin Wrong
    <2> SUFFICES ASSUME NEW w \in s, s \ {w} \in Wrong PROVE FALSE
      OBVIOUS
    <2>1. Cardinality(s \ {w}) < Cardinality(s)
          /\ Cardinality(s) \in Nat /\ Cardinality(s \ {w}) \in Nat
      BY <1>6, OneLess
    <2>. QED
      BY <1>4, <2>1
  <1>10. SumOver(f, s \ {x}) = f[z] + SumOver(f, (s \ {x}) \ {z})
    BY <1>6, <1>8, <1>9
  <1>11. SumOver(f, s \ {z}) = f[x] + SumOver(f, (s \ {z}) \ {x})
    BY <1>6, <1>8, <1>9
  <1>12. (s \ {x}) \ {z} = (s \ {z}) \ {x}
    OBVIOUS
  <1>13. SumOver(f, (s \ {z}) \ {x}) \in Int
    BY <1>1, <1>6, SumOfEqual
  <1>14. SumOver(f, s \ {x}) = f[z] + SumOver(f, (s \ {z}) \ {x})
    BY <1>10, <1>12
  <1>15. f[x] \in Int /\ f[z] \in Int
    BY <1>6
  <1>. QED
    <2> DEFINE a == f[x]
               b == f[z]
               c == SumOver(f, (s \ {z}) \ {x})
    <2>1. a \in Int /\ b \in Int /\ c \in Int
      BY <1>13, <1>15
    <2>2. SumOver(f, s) = a + (b + c) /\ SumOver(f, s \ {z}) = a + c
      BY <1>7, <1>11, <1>14
    <2>3. SumOver(f, s) # b + SumOver(f, s \ {z})
      BY <1>5
    <2> HIDE DEF a, b, c
    <2>. QED BY <2>1, <2>2, <2>3

\* A sum of numbers that are not negative grows with its set.
LEMMA SumIsNatural ==
  ASSUME NEW S, IsFiniteSet(S), NEW f, \A x \in S : f[x] \in Nat
  PROVE  SumOver(f, S) \in Nat
  <1> DEFINE Wrong == {s \in SUBSET S : SumOver(f, s) \notin Nat}
             Sizes == {Cardinality(s) : s \in Wrong}
  <1> SUFFICES ASSUME Wrong # {} PROVE FALSE
    OBVIOUS
  <1>1. \A s \in SUBSET S : IsFiniteSet(s) /\ Cardinality(s) \in Nat
    BY FS_Subset, FS_CardinalityType
  <1>2. Sizes \in SUBSET Nat /\ Sizes # {}
    BY <1>1
  <1>3. PICK n \in Sizes : \A m \in Sizes : n <= m
    <2> HIDE DEF Sizes
    <2>. QED BY <1>2, LeastNumber
  <1>4. PICK s \in Wrong : \A o \in Wrong : Cardinality(s) <= Cardinality(o)
    BY <1>3
  <1>5. s # {}
    BY <1>4, SumOfNone
  <1>6. PICK x \in s : TRUE
    BY <1>5
  <1>7. SumOver(f, s) = f[x] + SumOver(f, s \ {x})
    <2>1. \A y \in s : f[y] \in Int
      BY <1>4
    <2>. QED
      BY <1>1, <1>4, <1>6, <2>1, SumTakes
  <1>8. s \ {x} \notin Wrong
    BY <1>1, <1>4, <1>6, OneLess
  <1>. QED
    BY <1>4, <1>6, <1>7, <1>8

\* A set is summed in two parts.
LEMMA SumSplits ==
  ASSUME NEW S, IsFiniteSet(S), NEW f, \A x \in S : f[x] \in Int, NEW A \in SUBSET S
  PROVE  SumOver(f, S) = SumOver(f, A) + SumOver(f, S \ A)
  <1> DEFINE Wrong == {B \in SUBSET S : SumOver(f, S) # SumOver(f, B) + SumOver(f, S \ B)}
             Sizes == {Cardinality(B) : B \in Wrong}
  <1> SUFFICES ASSUME Wrong # {} PROVE FALSE
    OBVIOUS
  <1>1. \A B \in SUBSET S : /\ IsFiniteSet(B) /\ Cardinality(B) \in Nat
                            /\ \A x \in B : f[x] \in Int
                            /\ SumOver(f, B) \in Int
    BY FS_Subset, FS_CardinalityType, SumOfEqual
  <1>2. Sizes \in SUBSET Nat /\ Sizes # {}
    BY <1>1
  <1>3. PICK n \in Sizes : \A m \in Sizes : n <= m
    <2> HIDE DEF Sizes
    <2>. QED BY <1>2, LeastNumber
  <1>4. PICK B \in Wrong : \A C \in Wrong : Cardinality(B) <= Cardinality(C)
    BY <1>3
  <1>5. B # {}
    <2>1. SumOver(f, S) = 0 + SumOver(f, S)
      BY <1>1
    <2>2. S \ {} = S
      OBVIOUS
    <2>. QED
      BY <1>4, <2>1, <2>2, SumOfNone
  <1>6. PICK x \in B : TRUE
    BY <1>5
  <1> DEFINE C == B \ {x}
             R == S \ B
             a == f[x]
             c == SumOver(f, C)
             d == SumOver(f, R)
  <1>7. C \notin Wrong /\ C \in SUBSET S /\ R \in SUBSET S /\ S \ C \in SUBSET S
    <2>1. Cardinality(C) < Cardinality(B) /\ Cardinality(B) \in Nat /\ Cardinality(C) \in Nat
      BY <1>1, <1>4, <1>6, OneLess
    <2>2. C \notin Wrong
      <3> HIDE DEF C
      <3>. QED BY <1>4, <2>1
    <2>. QED
      BY <2>2
  <1>8. SumOver(f, B) = a + c
    BY <1>1, <1>4, <1>6, SumTakes
  <1>9. SumOver(f, S \ C) = a + d
    <2>1. x \in S \ C /\ (S \ C) \ {x} = R
      BY <1>4, <1>6
    <2>2. IsFiniteSet(S \ C) /\ \A y \in S \ C : f[y] \in Int
      BY <1>1, <1>7
    <2> HIDE DEF C, R
    <2>. QED BY <2>1, <2>2, SumTakes
  <1>10. SumOver(f, S) = c + SumOver(f, S \ C)
    BY <1>7
  <1>11. a \in Int /\ c \in Int /\ d \in Int
    BY <1>1, <1>4, <1>6, <1>7
  <1>12. SumOver(f, S) # SumOver(f, B) + d
    BY <1>4
  <1> HIDE DEF a, c, d
  <1>. QED
    BY <1>8, <1>9, <1>10, <1>11, <1>12

\* What is not negative grows with its set.
LEMMA SumGrows ==
  ASSUME NEW S, IsFiniteSet(S), NEW f, \A x \in S : f[x] \in Nat, NEW A \in SUBSET S
  PROVE  SumOver(f, A) \in Nat /\ SumOver(f, S) \in Nat /\ SumOver(f, A) <= SumOver(f, S)
  <1>1. IsFiniteSet(A) /\ IsFiniteSet(S \ A)
    BY FS_Subset
  <1>2. SumOver(f, A) \in Nat /\ SumOver(f, S) \in Nat /\ SumOver(f, S \ A) \in Nat
    BY <1>1, SumIsNatural
  <1>3. SumOver(f, S) = SumOver(f, A) + SumOver(f, S \ A)
    BY SumSplits
  <1>. QED
    BY <1>2, <1>3

LEMMA SumOfZeros ==
  ASSUME NEW S, IsFiniteSet(S), NEW f, \A x \in S : f[x] = 0
  PROVE  SumOver(f, S) = 0
  <1> DEFINE z == [x \in S |-> 0]
             h == [s \in SUBSET S |-> 0]
  <1>1. z \in [S -> Int] /\ \A s \in SUBSET S : s # {} => Chosen(s) \in S
    BY DEF Chosen
  <1>2. IsSum(h, z, S)
    BY <1>1 DEF IsSum
  <1>3. SumOver(z, S) = 0
    BY <1>1, <1>2, SumIs
  <1>4. SumOver(f, S) = SumOver(z, S)
    BY SumOfEqual
  <1>. QED
    BY <1>3, <1>4
=============================================================================
