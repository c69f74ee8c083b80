----------------------------- MODULE MoneyProofs -----------------------------
(***************************************************************************)
(* What sums and roundings return, for every value of their arguments.     *)
(***************************************************************************)
EXTENDS Money, FiniteSetTheorems, WellFoundedInduction, TLAPS

-----------------------------------------------------------------------------
(* Roundings. *)

\* Rounding an integer quotient to the nearest yields an integer, and a
\* natural number when the dividend is one.
LEMMA RoundDivInt ==
  ASSUME NEW n \in Int, NEW d \in Nat \ {0}
  PROVE  /\ RoundDiv(n, d) \in Int
         /\ n >= 0 => RoundDiv(n, d) \in Nat
  <1> DEFINE e == 2 * d
  <1>1. e \in Nat \ {0}
    OBVIOUS
  <1> HIDE DEF e
  <1>2. ASSUME NEW m \in Nat PROVE m \div e \in Nat
    BY <1>1
  <1>3. CASE n >= 0
    <2>1. 2 * n + d \in Nat
      BY <1>3
    <2>2. RoundDiv(n, d) = (2 * n + d) \div e
      BY <1>3 DEF RoundDiv, e
    <2> QED BY <1>2, <2>1, <2>2
  <1>4. CASE ~(n >= 0)
    <2>1. 2 * (-n) + d \in Nat
      BY <1>4
    <2>2. RoundDiv(n, d) = -((2 * (-n) + d) \div e)
      BY <1>4 DEF RoundDiv, e
    <2> QED BY <1>2, <2>1, <2>2, <1>4
  <1> QED BY <1>3, <1>4

LEMMA RoundUsdInt == ASSUME NEW n \in Int PROVE RoundUsd(n) \in Int
  BY RoundDivInt, MoneyAssumption DEF RoundUsd

\* Rounding moves a quotient by half a unit at most.
LEMMA RoundDivNear ==
  ASSUME NEW n \in Nat, NEW d \in Nat \ {0}
  PROVE  2 * (d * RoundDiv(n, d)) <= 2 * n + d
  <1> DEFINE e == 2 * d
             m == 2 * n + d
             q == m \div e
  <1>1. e \in Nat \ {0} /\ m \in Nat
    OBVIOUS
  <1>2. RoundDiv(n, d) = q
    BY DEF RoundDiv
  <1> HIDE DEF e, m
  <1>3. q \in Nat /\ e * q <= m
    BY <1>1
  <1>4. e * q = 2 * (d * q)
    BY <1>3 DEF e
  <1> QED BY <1>2, <1>3, <1>4 DEF m

\* And by no more the other way.
LEMMA RoundDivNearAbove ==
  ASSUME NEW n \in Nat, NEW d \in Nat \ {0}
  PROVE  2 * n - d <= 2 * (d * RoundDiv(n, d))
  <1> DEFINE e == 2 * d
             m == 2 * n + d
             q == m \div e
  <1>1. e \in Nat \ {0} /\ m \in Nat
    OBVIOUS
  <1>2. RoundDiv(n, d) = q
    BY DEF RoundDiv
  <1> HIDE DEF e, m
  <1>3. q \in Nat /\ m < e * q + e
    BY <1>1
  <1>4. e * q = 2 * (d * q)
    BY <1>3 DEF e
  <1> QED BY <1>2, <1>3, <1>4 DEF m, e

\* What is not positive does not round to something positive.
LEMMA RoundDivNegative ==
  ASSUME NEW n \in Int, n <= 0, NEW d \in Nat \ {0}
  PROVE  RoundDiv(n, d) <= 0
  <1>1. CASE n = 0
    <2>1. RoundDiv(n, d) = d \div (2 * d)
      BY <1>1 DEF RoundDiv
    <2>2. d \div (2 * d) = 0
      OBVIOUS
    <2> QED BY <2>1, <2>2
  <1>2. CASE n < 0
    <2>1. PICK m, e : m = 2 * (-n) + d /\ e = 2 * d
      OBVIOUS
    <2>2. m \in Nat /\ e \in Nat \ {0}
      BY <1>2, <2>1
    <2>3. m \div e \in Nat
      BY <2>2
    <2>4. RoundDiv(n, d) = -(m \div e)
      BY <1>2, <2>1 DEF RoundDiv
    <2> QED BY <2>3, <2>4
  <1> QED BY <1>1, <1>2

-----------------------------------------------------------------------------
(* Induction on finite sets. *)

\* Induction over the subsets of a finite set, with the sets for which the claim
\* holds as a set.
LEMMA SubsetInduction ==
  ASSUME NEW S, IsFiniteSet(S), NEW F,
         \A T \in SUBSET S : (\A U \in SUBSET T : U # T => U \in F) => T \in F
  PROVE  \A T \in SUBSET S : T \in F
  <1> DEFINE B == (SUBSET S) \ F
  <1>1. SUFFICES ASSUME B # {} PROVE FALSE
    OBVIOUS
  <1>2. IsWellFoundedOn(StrictSubsetOrdering(S), SUBSET S)
    BY FS_StrictSubsetOrderingWellFounded, FS_FiniteSubsetsOfFinite
  <1>3. PICK T \in B : \A U \in B : <<U, T>> \notin StrictSubsetOrdering(S)
    <2> HIDE DEF B
    <2>1. B \subseteq SUBSET S
      BY DEF B
    <2> QED BY <1>1, <1>2, <2>1, WFMin
  <1>4. ASSUME NEW U \in SUBSET T, U # T PROVE U \in F
    <2>1. <<U, T>> \in StrictSubsetOrdering(S)
      BY <1>3, <1>4 DEF StrictSubsetOrdering
    <2> QED BY <1>3, <1>4, <2>1
  <1> QED BY <1>3, <1>4

\* Induction by one element: it is enough to go from a set without x to the set.
LEMMA SetInduction ==
  ASSUME NEW S, IsFiniteSet(S), NEW F, {} \in F,
         \A T \in SUBSET S : \A x \in T : T \ {x} \in F => T \in F
  PROVE  S \in F
  <1>1. ASSUME NEW T \in SUBSET S, \A U \in SUBSET T : U # T => U \in F
        PROVE  T \in F
    <2>1. CASE T = {}
      BY <2>1
    <2>2. ASSUME NEW x \in T PROVE T \in F
      <3>1. T \ {x} \in SUBSET T /\ T \ {x} # T
        BY <2>2
      <3> QED BY <1>1, <3>1
    <2> QED BY <2>1, <2>2
  <1> QED BY <1>1, SubsetInduction

-----------------------------------------------------------------------------
(* Sums: the recursion behind SumFunction, on the subsets of the domain. *)

\* The element the recursion takes next.
Picked(T) == CHOOSE x \in T : TRUE
Sums(f, S, sum) ==
  sum = [T \in SUBSET S |-> IF T = {} THEN 0 ELSE f[Picked(T)] + sum[T \ {Picked(T)}]]
SumOver(f, S) == CHOOSE sum : Sums(f, S, sum)

\* The library's sum of a function is the value of the recursion.
LEMMA SumFunctionIs == ASSUME NEW f PROVE SumFunction(f) = SumOver(f, DOMAIN f)[DOMAIN f]
  BY DEF SumFunction, SumFunctionOnSet, FoldFunctionOnSet, MapThenFoldSet, SumOver, Sums, Picked

\* The element taken is one of the set.
LEMMA PickedIs == ASSUME NEW T, T # {} PROVE Picked(T) \in T
  BY DEF Picked

\* The recursion has one solution, which depends on the values in the set only.
LEMMA SumsUnique ==
  ASSUME NEW S, IsFiniteSet(S), NEW f, NEW g, NEW V, NEW W, S \subseteq V, S \subseteq W,
         \A x \in S : f[x] = g[x],
         NEW sum, Sums(f, V, sum), NEW other, Sums(g, W, other)
  PROVE  sum[S] = other[S]
  <1> DEFINE F == {T \in SUBSET S : sum[T] = other[T]}
  <1>1. ASSUME NEW T \in SUBSET S, \A U \in SUBSET T : U # T => U \in F
        PROVE  T \in F
    <2>1. CASE T = {}
      BY <2>1 DEF Sums
    <2>2. CASE T # {}
      <3>1. PICK x \in T : x = Picked(T)
        BY <2>2, PickedIs
      <3>2. sum[T \ {x}] = other[T \ {x}]
        BY <1>1, <3>1
      <3>3. T \in SUBSET V /\ T \in SUBSET W
        OBVIOUS
      <3>4. sum[T] = f[x] + sum[T \ {x}]
        BY <2>2, <3>1, <3>3 DEF Sums
      <3>5. other[T] = g[x] + other[T \ {x}]
        BY <2>2, <3>1, <3>3 DEF Sums
      <3> QED BY <3>1, <3>2, <3>4, <3>5
    <2> QED BY <2>1, <2>2
  <1> HIDE DEF F
  <1>2. S \in F
    BY <1>1, SubsetInduction
  <1> QED BY <1>2 DEF F

\* A finite set has a sum: the recursion has a solution.
LEMMA SumsExists ==
  ASSUME NEW S, IsFiniteSet(S), NEW f
  PROVE  Sums(f, S, SumOver(f, S))
  <1> DEFINE F == {T \in SUBSET S : Sums(f, T, SumOver(f, T))}
  <1>1. ASSUME NEW T \in SUBSET S, \A U \in SUBSET T : U # T => U \in F
        PROVE  T \in F
    <2> DEFINE V(U) == IF U = {} THEN 0
                       ELSE f[Picked(U)] + SumOver(f, U \ {Picked(U)})[U \ {Picked(U)}]
               sum == [U \in SUBSET T |-> V(U)]
    <2>1. ASSUME NEW U \in SUBSET T, U # T PROVE SumOver(f, U)[U] = V(U)
      <3>1. Sums(f, U, SumOver(f, U))
        BY <1>1, <2>1
      <3>2. CASE U = {}
        BY <3>1, <3>2 DEF Sums
      <3>3. CASE U # {}
        <4>1. PICK x \in U : x = Picked(U)
          BY <3>3, PickedIs
        <4>2. SumOver(f, U)[U] = f[x] + SumOver(f, U)[U \ {x}]
          BY <3>1, <3>3, <4>1 DEF Sums
        <4>3. U \ {x} \in SUBSET T /\ U \ {x} # T /\ U \ {x} \in SUBSET S
          BY <2>1, <4>1
        <4>4. Sums(f, U \ {x}, SumOver(f, U \ {x}))
          BY <1>1, <4>3
        <4>5. IsFiniteSet(U \ {x})
          BY <4>3, FS_Subset
        <4>6. SumOver(f, U)[U \ {x}] = SumOver(f, U \ {x})[U \ {x}]
          BY <3>1, <4>4, <4>5, SumsUnique
        <4> QED BY <3>3, <4>1, <4>2, <4>6
      <3> QED BY <3>2, <3>3
    <2>2. ASSUME NEW U \in SUBSET T
          PROVE  sum[U] = IF U = {} THEN 0 ELSE f[Picked(U)] + sum[U \ {Picked(U)}]
      <3>1. CASE U = {}
        BY <3>1
      <3>2. CASE U # {}
        <4>1. PICK x \in U : x = Picked(U)
          BY <3>2, PickedIs
        <4>2. U \ {x} \in SUBSET T /\ U \ {x} # T
          BY <4>1
        <4>3. sum[U \ {x}] = SumOver(f, U \ {x})[U \ {x}]
          BY <2>1, <4>2
        <4> QED BY <3>2, <4>1, <4>3
      <3> QED BY <3>1, <3>2
    <2>3. Sums(f, T, sum)
      <3> HIDE DEF V
      <3> QED BY <2>2 DEF Sums
    <2> HIDE DEF sum
    <2>4. Sums(f, T, SumOver(f, T))
      BY <2>3 DEF SumOver
    <2> QED BY <2>4
  <1> HIDE DEF F
  <1>2. S \in F
    BY <1>1, SubsetInduction
  <1> QED BY <1>2 DEF F

\* Removing any element takes its value from the sum.
LEMMA SumsRemove ==
  ASSUME NEW S, IsFiniteSet(S), NEW f, \A x \in S : f[x] \in Int
  PROVE  \A T \in SUBSET S :
           /\ SumOver(f, S)[T] \in Int
           /\ \A x \in T : SumOver(f, S)[T] = f[x] + SumOver(f, S)[T \ {x}]
  <1> DEFINE sum == SumOver(f, S)
             F == {T \in SUBSET S : /\ sum[T] \in Int
                                   /\ \A x \in T : sum[T] = f[x] + sum[T \ {x}]}
  <1>0. Sums(f, S, sum)
    BY SumsExists
  <1> HIDE DEF sum
  <1>1. ASSUME NEW T \in SUBSET S, \A U \in SUBSET T : U # T => U \in F
        PROVE  T \in F
    <2>1. CASE T = {}
      BY <1>0, <2>1 DEF Sums
    <2>2. CASE T # {}
      <3>1. PICK p \in T : p = Picked(T)
        BY <2>2, PickedIs
      <3>2. sum[T] = f[p] + sum[T \ {p}]
        BY <1>0, <2>2, <3>1 DEF Sums
      <3>3. ASSUME NEW x \in T PROVE T \ {x} \in F
        <4>1. T \ {x} \in SUBSET T /\ T \ {x} # T
          BY <3>3
        <4> QED BY <1>1, <4>1
      <3>4. sum[T \ {p}] \in Int /\ f[p] \in Int
        BY <3>1, <3>3
      <3>5. ASSUME NEW x \in T, x # p PROVE sum[T] = f[x] + sum[T \ {x}]
        <4>1. x \in T \ {p} /\ p \in T \ {x}
          BY <3>1, <3>5
        <4>2. /\ sum[T \ {p}] = f[x] + sum[(T \ {p}) \ {x}]
              /\ sum[T \ {x}] = f[p] + sum[(T \ {x}) \ {p}]
          BY <3>1, <3>3, <4>1
        <4>3. (T \ {p}) \ {x} = (T \ {x}) \ {p}
          OBVIOUS
        <4>4. PICK rest : rest = sum[(T \ {x}) \ {p}]
          OBVIOUS
        <4>5. rest \in Int
          <5>1. (T \ {x}) \ {p} \in SUBSET T /\ (T \ {x}) \ {p} # T
            BY <3>1
          <5> QED BY <1>1, <4>4, <5>1
        <4>6. f[x] \in Int
          OBVIOUS
        <4>7. sum[T \ {p}] = f[x] + rest /\ sum[T \ {x}] = f[p] + rest
          BY <4>2, <4>3, <4>4
        <4> QED BY <3>2, <3>4, <4>5, <4>6, <4>7
      <3>6. sum[T] \in Int
        BY <3>2, <3>4
      <3> QED BY <3>2, <3>5, <3>6
    <2> QED BY <2>1, <2>2
  <1> HIDE DEF F
  <1>2. \A T \in SUBSET S : T \in F
    BY <1>1, SubsetInduction
  <1> QED BY <1>2 DEF F, sum

\* A sum of integers is an integer.
LEMMA SumsInt ==
  ASSUME NEW S, IsFiniteSet(S), NEW f, \A x \in S : f[x] \in Int, NEW T \in SUBSET S
  PROVE  SumOver(f, S)[T] \in Int
  BY SumsRemove

\* The sum over a subset, one element taken off.
LEMMA SumsLess ==
  ASSUME NEW S, IsFiniteSet(S), NEW f, \A x \in S : f[x] \in Int, NEW T \in SUBSET S,
         NEW x \in T
  PROVE  SumOver(f, S)[T] = f[x] + SumOver(f, S)[T \ {x}]
  BY SumsRemove

\* The sum over the whole set, one element taken off.
LEMMA SumsWhole ==
  ASSUME NEW S, IsFiniteSet(S), NEW f, \A x \in S : f[x] \in Int, NEW x \in S
  PROVE  SumOver(f, S)[S] = f[x] + SumOver(f, S)[S \ {x}]
  BY SumsLess

-----------------------------------------------------------------------------
(* Total: what the models add up. *)

\* A sum is an integer.
LEMMA TotalInt == ASSUME NEW f PROVE Total(f) \in Int
  BY DEF Total

\* On a finite domain with integer values Total is the sum of the recursion.
LEMMA TotalIs ==
  ASSUME NEW f, IsFiniteSet(DOMAIN f), \A x \in DOMAIN f : f[x] \in Int
  PROVE  Total(f) = SumOver(f, DOMAIN f)[DOMAIN f]
  BY SumFunctionIs, SumsInt DEF Total

\* The sum of nothing is zero.
LEMMA TotalEmpty ==
  ASSUME NEW f, DOMAIN f = {}
  PROVE  Total(f) = 0
  <1>1. IsFiniteSet({})
    BY FS_EmptySet
  <1>2. Sums(f, {}, SumOver(f, {}))
    BY <1>1, SumsExists
  <1>3. SumOver(f, {})[{}] = 0
    BY <1>2 DEF Sums
  <1> QED BY <1>1, <1>3, TotalIs

\* A sum is one value and the sum of the others.
LEMMA TotalRemove ==
  ASSUME NEW f, IsFiniteSet(DOMAIN f), \A y \in DOMAIN f : f[y] \in Int,
         NEW x \in DOMAIN f, NEW g, DOMAIN g = DOMAIN f \ {x},
         \A y \in DOMAIN g : g[y] = f[y]
  PROVE  Total(f) = f[x] + Total(g)
  <1>0. PICK S, R : S = DOMAIN f /\ R = DOMAIN g
    OBVIOUS
  <1>1. IsFiniteSet(S) /\ IsFiniteSet(R) /\ R = S \ {x} /\ x \in S
    BY <1>0, FS_RemoveElement
  <1>2. (\A y \in S : f[y] \in Int) /\ (\A y \in R : g[y] \in Int /\ g[y] = f[y])
    BY <1>0
  <1>3. Total(f) = SumOver(f, S)[S] /\ Total(g) = SumOver(g, R)[R]
    BY <1>0, <1>1, <1>2, TotalIs
  <1>4. SumOver(f, S)[S] = f[x] + SumOver(f, S)[S \ {x}]
    BY <1>1, <1>2, SumsWhole
  <1>5. Sums(f, S, SumOver(f, S)) /\ Sums(g, R, SumOver(g, R))
    BY <1>1, SumsExists
  <1>6. SumOver(f, S)[R] = SumOver(g, R)[R]
    BY <1>1, <1>2, <1>5, SumsUnique
  <1> QED BY <1>1, <1>3, <1>4, <1>6

\* A sum depends on the values only.
LEMMA TotalSame ==
  ASSUME NEW f, NEW g, IsFiniteSet(DOMAIN f), DOMAIN g = DOMAIN f,
         \A x \in DOMAIN f : f[x] \in Int /\ g[x] = f[x]
  PROVE  Total(f) = Total(g)
  <1>1. Total(f) = SumOver(f, DOMAIN f)[DOMAIN f] /\ Total(g) = SumOver(g, DOMAIN f)[DOMAIN f]
    BY TotalIs
  <1>2. /\ Sums(f, DOMAIN f, SumOver(f, DOMAIN f))
        /\ Sums(g, DOMAIN f, SumOver(g, DOMAIN f))
    BY SumsExists
  <1> QED BY <1>1, <1>2, SumsUnique

\* Changing one value changes the sum by as much.
LEMMA TotalChange ==
  ASSUME NEW f, NEW g, IsFiniteSet(DOMAIN f), DOMAIN g = DOMAIN f,
         \A y \in DOMAIN f : f[y] \in Int /\ g[y] \in Int,
         NEW x \in DOMAIN f, \A y \in DOMAIN f : y # x => g[y] = f[y]
  PROVE  Total(g) = Total(f) + g[x] - f[x]
  <1>1. PICK h : DOMAIN h = DOMAIN f \ {x} /\ \A y \in DOMAIN h : h[y] = f[y]
    <2>1. PICK h : h = [y \in DOMAIN f \ {x} |-> f[y]]
      OBVIOUS
    <2> QED BY <2>1
  <1>2. Total(f) = f[x] + Total(h)
    BY <1>1, TotalRemove
  <1>3. /\ IsFiniteSet(DOMAIN g) /\ x \in DOMAIN g /\ DOMAIN h = DOMAIN g \ {x}
        /\ \A y \in DOMAIN g : g[y] \in Int
        /\ \A y \in DOMAIN h : h[y] = g[y]
    BY <1>1
  <1>4. Total(g) = g[x] + Total(h)
    BY <1>3, TotalRemove
  <1>5. Total(h) \in Int /\ f[x] \in Int /\ g[x] \in Int
    BY TotalInt
  <1> QED BY <1>2, <1>4, <1>5

\* Adding an element adds its value.
LEMMA TotalAdd ==
  ASSUME NEW f, NEW g, NEW x, IsFiniteSet(DOMAIN f), x \notin DOMAIN f,
         DOMAIN g = DOMAIN f \cup {x}, g[x] \in Int,
         \A y \in DOMAIN f : f[y] \in Int /\ g[y] = f[y]
  PROVE  Total(g) = Total(f) + g[x]
  <1>1. IsFiniteSet(DOMAIN g)
    BY FS_AddElement
  <1>2. x \in DOMAIN g /\ DOMAIN f = DOMAIN g \ {x} /\ \A y \in DOMAIN g : g[y] \in Int
    OBVIOUS
  <1>3. \A y \in DOMAIN f : f[y] = g[y]
    OBVIOUS
  <1>4. Total(g) = g[x] + Total(f)
    BY <1>1, <1>2, <1>3, TotalRemove
  <1> QED BY <1>4, TotalInt

\* Larger values have a larger sum; the sum over more is larger if what is
\* added is not negative.
LEMMA TotalMonotone ==
  ASSUME NEW f, NEW g, IsFiniteSet(DOMAIN g), DOMAIN f \subseteq DOMAIN g,
         \A x \in DOMAIN f : f[x] \in Int /\ g[x] \in Int /\ f[x] <= g[x],
         \A x \in DOMAIN g \ DOMAIN f : g[x] \in Nat
  PROVE  Total(f) <= Total(g)
  <1>0. PICK S, D : S = DOMAIN g /\ D = DOMAIN f
    OBVIOUS
  <1>1. IsFiniteSet(D) /\ IsFiniteSet(S) /\ D \subseteq S
    BY <1>0, FS_Subset
  <1>11. /\ \A x \in D : f[x] \in Int /\ g[x] \in Int /\ f[x] <= g[x]
         /\ \A x \in S \ D : g[x] \in Nat
         /\ \A x \in S : g[x] \in Int
    BY <1>0
  <1>2. PICK sf, sg : sf = SumOver(f, D) /\ sg = SumOver(g, S)
    OBVIOUS
  <1>3. /\ \A T \in SUBSET S : sg[T] \in Int /\ \A x \in T : sg[T] = g[x] + sg[T \ {x}]
        /\ \A T \in SUBSET D : sf[T] \in Int /\ \A x \in T : sf[T] = f[x] + sf[T \ {x}]
        /\ sf[{}] = 0 /\ sg[{}] = 0
    <2>2. ASSUME NEW T \in SUBSET S
          PROVE  sg[T] \in Int /\ \A x \in T : sg[T] = g[x] + sg[T \ {x}]
      <3>1. sg[T] \in Int
        BY <1>1, <1>2, <1>11, SumsInt
      <3>2. ASSUME NEW x \in T PROVE sg[T] = g[x] + sg[T \ {x}]
        BY <1>1, <1>2, <1>11, SumsLess
      <3> QED BY <3>1, <3>2
    <2>3. ASSUME NEW T \in SUBSET D
          PROVE  sf[T] \in Int /\ \A x \in T : sf[T] = f[x] + sf[T \ {x}]
      <3>1. sf[T] \in Int
        BY <1>1, <1>2, <1>11, SumsInt
      <3>2. ASSUME NEW x \in T PROVE sf[T] = f[x] + sf[T \ {x}]
        BY <1>1, <1>2, <1>11, SumsLess
      <3> QED BY <3>1, <3>2
    <2>4. Sums(f, D, sf) /\ Sums(g, S, sg)
      BY <1>1, <1>2, SumsExists
    <2> QED BY <2>2, <2>3, <2>4 DEF Sums
  <1> DEFINE F == {T \in SUBSET S : sf[T \cap D] <= sg[T]}
  <1>4. {} \in F
    <2>1. {} \cap D = {}
      OBVIOUS
    <2> QED BY <1>3, <2>1
  <1>5. ASSUME NEW T \in SUBSET S, NEW x \in T, T \ {x} \in F PROVE T \in F
    <2>1. PICK rest : rest = T \ {x}
      OBVIOUS
    <2>2. sg[T] = g[x] + sg[rest] /\ sg[rest] \in Int
      BY <1>3, <2>1
    <2>3. sf[rest \cap D] <= sg[rest]
      BY <1>5, <2>1
    <2>4. CASE x \in D
      <3>1. T \cap D \in SUBSET D /\ x \in T \cap D /\ rest \cap D = (T \cap D) \ {x}
        BY <2>1, <2>4
      <3>2. sf[T \cap D] = f[x] + sf[rest \cap D]
        BY <1>3, <2>1, <3>1
      <3>3. sf[rest \cap D] \in Int /\ f[x] \in Int /\ g[x] \in Int /\ f[x] <= g[x]
        BY <1>3, <1>11, <2>4
      <3>4. sf[T \cap D] <= sg[T]
        BY <2>2, <2>3, <3>2, <3>3
      <3> QED BY <3>4
    <2>5. CASE x \notin D
      <3>1. rest \cap D = T \cap D
        BY <2>1, <2>5
      <3>2. sf[rest \cap D] \in Int /\ g[x] \in Nat
        BY <1>3, <1>11, <2>5
      <3>3. sf[T \cap D] <= sg[T]
        BY <2>2, <2>3, <3>1, <3>2
      <3> QED BY <3>3
    <2> QED BY <2>4, <2>5
  <1>6. S \in F
    <2> HIDE DEF F
    <2> QED BY <1>1, <1>4, <1>5, SetInduction
  <1>7. S \cap D = D
    BY <1>1
  <1>8. sf[D] <= sg[S]
    BY <1>6, <1>7
  <1>9. Total(f) = sf[D]
    BY <1>0, <1>1, <1>2, <1>11, TotalIs
  <1>10. Total(g) = sg[S]
    BY <1>0, <1>1, <1>2, <1>11, TotalIs
  <1> QED BY <1>8, <1>9, <1>10

\* A sum of natural numbers is one.
LEMMA TotalNat ==
  ASSUME NEW f, IsFiniteSet(DOMAIN f), \A x \in DOMAIN f : f[x] \in Nat
  PROVE  Total(f) \in Nat
  <1>1. PICK none : DOMAIN none = {} /\ none = [x \in {} |-> 0]
    OBVIOUS
  <1>2. Total(none) = 0
    BY <1>1, TotalEmpty
  <1>3. Total(none) <= Total(f)
    BY <1>1, TotalMonotone
  <1> QED BY <1>2, <1>3, TotalInt

\* The sum over a set, one element taken off.
LEMMA TotalSplit ==
  ASSUME NEW T, IsFiniteSet(T), NEW k, \A y \in T : k[y] \in Int, NEW x \in T
  PROVE  Total(Restrict(k, T)) = k[x] + Total(Restrict(k, T \ {x}))
  <1>1. PICK all, rest : all = Restrict(k, T) /\ rest = Restrict(k, T \ {x})
    OBVIOUS
  <1>2. /\ DOMAIN all = T /\ DOMAIN rest = DOMAIN all \ {x} /\ x \in DOMAIN all
        /\ \A y \in DOMAIN all : all[y] \in Int /\ all[y] = k[y]
        /\ \A y \in DOMAIN rest : rest[y] = all[y]
    BY <1>1 DEF Restrict
  <1>3. Total(all) = all[x] + Total(rest)
    BY <1>2, TotalRemove
  <1> QED BY <1>1, <1>2, <1>3

\* The sum over no elements, and over all.
LEMMA TotalNone == ASSUME NEW k PROVE Total(Restrict(k, {})) = 0
  BY TotalEmpty DEF Restrict

LEMMA TotalWhole ==
  ASSUME NEW k, IsFiniteSet(DOMAIN k), \A y \in DOMAIN k : k[y] \in Int
  PROVE  Total(Restrict(k, DOMAIN k)) = Total(k)
  <1>1. PICK all : all = Restrict(k, DOMAIN k)
    OBVIOUS
  <1>2. DOMAIN all = DOMAIN k /\ \A y \in DOMAIN k : k[y] \in Int /\ all[y] = k[y]
    BY <1>1 DEF Restrict
  <1>3. Total(k) = Total(all)
    BY <1>2, TotalSame
  <1> QED BY <1>1, <1>3

\* The sum of sums.
LEMMA TotalPlus ==
  ASSUME NEW S, IsFiniteSet(S), NEW f, NEW g, NEW h,
         DOMAIN f = S, DOMAIN g = S, DOMAIN h = S,
         \A x \in S : f[x] \in Int /\ g[x] \in Int /\ h[x] = f[x] + g[x]
  PROVE  Total(h) = Total(f) + Total(g)
  <1> DEFINE F == {T \in SUBSET S :
                    Total(Restrict(h, T)) = Total(Restrict(f, T)) + Total(Restrict(g, T))}
  <1>1. {} \in F
    BY TotalNone
  <1>2. ASSUME NEW T \in SUBSET S, NEW x \in T, T \ {x} \in F PROVE T \in F
    <2>1. IsFiniteSet(T) /\ \A y \in T : f[y] \in Int /\ g[y] \in Int /\ h[y] \in Int
      BY FS_Subset
    <2>2. /\ Total(Restrict(f, T)) = f[x] + Total(Restrict(f, T \ {x}))
          /\ Total(Restrict(g, T)) = g[x] + Total(Restrict(g, T \ {x}))
          /\ Total(Restrict(h, T)) = h[x] + Total(Restrict(h, T \ {x}))
      BY <2>1, TotalSplit
    <2>3. f[x] \in Int /\ g[x] \in Int /\ h[x] = f[x] + g[x]
      OBVIOUS
    <2>4. Total(Restrict(f, T \ {x})) \in Int /\ Total(Restrict(g, T \ {x})) \in Int
      BY TotalInt
    <2> QED BY <1>2, <2>2, <2>3, <2>4
  <1>3. S \in F
    <2> HIDE DEF F
    <2> QED BY <1>1, <1>2, SetInduction
  <1>4. \A x \in S : f[x] \in Int /\ g[x] \in Int /\ h[x] \in Int
    OBVIOUS
  <1>5. /\ Total(Restrict(f, S)) = Total(f) /\ Total(Restrict(g, S)) = Total(g)
        /\ Total(Restrict(h, S)) = Total(h)
    BY <1>4, TotalWhole
  <1> QED BY <1>3, <1>5

\* The sum of a constant.
LEMMA TotalConstant ==
  ASSUME NEW f, IsFiniteSet(DOMAIN f), NEW c \in Int, \A x \in DOMAIN f : f[x] = c
  PROVE  Total(f) = c * Cardinality(DOMAIN f)
  <1> DEFINE S == DOMAIN f
             F == {T \in SUBSET S : Total(Restrict(f, T)) = c * Cardinality(T)}
  <1>1. {} \in F
    BY TotalNone, FS_EmptySet
  <1>2. ASSUME NEW T \in SUBSET S, NEW x \in T, T \ {x} \in F PROVE T \in F
    <2>1. IsFiniteSet(T) /\ \A y \in T : f[y] \in Int
      BY FS_Subset
    <2>2. Total(Restrict(f, T)) = c + Total(Restrict(f, T \ {x}))
      BY <2>1, TotalSplit
    <2>3. PICK n, m : n = Cardinality(T) /\ m = Cardinality(T \ {x})
      OBVIOUS
    <2>4. n \in Nat /\ m = n - 1
      BY <2>1, <2>3, FS_CardinalityType, FS_RemoveElement
    <2>5. Total(Restrict(f, T \ {x})) = c * m
      BY <1>2, <2>3
    <2>6. c + c * (n - 1) = c * n
      BY <2>4
    <2> QED BY <2>2, <2>3, <2>4, <2>5, <2>6
  <1>3. S \in F
    <2> HIDE DEF F
    <2> QED BY <1>1, <1>2, SetInduction
  <1>4. Total(Restrict(f, S)) = Total(f)
    BY TotalWhole
  <1> QED BY <1>3, <1>4

\* A sum does not depend on how its terms are named.
LEMMA TotalReindex ==
  ASSUME NEW f, NEW g, NEW b, IsFiniteSet(DOMAIN f), IsFiniteSet(DOMAIN g),
         \A x \in DOMAIN f : b[x] \in DOMAIN g /\ f[x] = g[b[x]] /\ f[x] \in Int,
         \A x, y \in DOMAIN f : b[x] = b[y] => x = y,
         \A z \in DOMAIN g : \E x \in DOMAIN f : z = b[x]
  PROVE  Total(f) = Total(g)
  <1> DEFINE S == DOMAIN f
             Named(T) == {z \in DOMAIN g : \E y \in T : z = b[y]}
             F == {T \in SUBSET S : Total(Restrict(f, T)) = Total(Restrict(g, Named(T)))}
  <1>1. {} \in F
    <2>1. Named({}) = {}
      OBVIOUS
    <2> HIDE DEF Named
    <2> QED BY <2>1, TotalNone
  <1>2. ASSUME NEW T \in SUBSET S, NEW x \in T, T \ {x} \in F PROVE T \in F
    <2>1. Named(T \ {x}) = Named(T) \ {b[x]} /\ b[x] \in Named(T)
      <3>1. \A y \in T : b[y] = b[x] => y = x
        OBVIOUS
      <3> QED BY <3>1
    <2>2. IsFiniteSet(T) /\ IsFiniteSet(Named(T))
      BY FS_Subset
    <2>3. (\A y \in T : f[y] \in Int) /\ \A z \in Named(T) : g[z] \in Int
      OBVIOUS
    <2>4. f[x] = g[b[x]]
      OBVIOUS
    <2> HIDE DEF Named
    <2>5. Total(Restrict(f, T)) = f[x] + Total(Restrict(f, T \ {x}))
      BY <2>2, <2>3, TotalSplit
    <2>6. Total(Restrict(g, Named(T))) = g[b[x]] + Total(Restrict(g, Named(T) \ {b[x]}))
      BY <2>1, <2>2, <2>3, TotalSplit
    <2> QED BY <1>2, <2>1, <2>4, <2>5, <2>6
  <1>3. S \in F
    <2> HIDE DEF F
    <2> QED BY <1>1, <1>2, SetInduction
  <1>4. Named(S) = DOMAIN g /\ \A z \in DOMAIN g : g[z] \in Int
    OBVIOUS
  <1> HIDE DEF Named
  <1>5. Total(Restrict(f, S)) = Total(f) /\ Total(Restrict(g, DOMAIN g)) = Total(g)
    BY <1>4, TotalWhole
  <1> QED BY <1>3, <1>4, <1>5

\* A sum with one term other than zero at most is no more than that term, and
\* no less if it is there.
LEMMA TotalOne ==
  ASSUME NEW f, IsFiniteSet(DOMAIN f), NEW c \in Nat, \A x \in DOMAIN f : f[x] \in {0, c}
  PROVE  /\ (\A x, y \in DOMAIN f : f[x] # 0 /\ f[y] # 0 => x = y) => Total(f) <= c
         /\ (\E x \in DOMAIN f : f[x] = c) => Total(f) >= c
  <1>1. ASSUME NEW x \in DOMAIN f
        PROVE  \E g : /\ DOMAIN g = DOMAIN f \ {x} /\ \A y \in DOMAIN g : g[y] = f[y]
                      /\ Total(f) = f[x] + Total(g)
    <2>1. PICK g : g = [y \in DOMAIN f \ {x} |-> f[y]]
      OBVIOUS
    <2>2. DOMAIN g = DOMAIN f \ {x} /\ \A y \in DOMAIN g : g[y] = f[y]
      BY <2>1
    <2>3. Total(f) = f[x] + Total(g)
      BY <2>2, TotalRemove
    <2> QED BY <2>2, <2>3
  <1>2. ASSUME \A x, y \in DOMAIN f : f[x] # 0 /\ f[y] # 0 => x = y PROVE Total(f) <= c
    <2>1. ASSUME NEW g, DOMAIN g \subseteq DOMAIN f, \A y \in DOMAIN g : g[y] = 0
          PROVE  Total(g) = 0
      <3>1. IsFiniteSet(DOMAIN g)
        BY <2>1, FS_Subset
      <3>2. Total(g) = 0 * Cardinality(DOMAIN g) /\ Cardinality(DOMAIN g) \in Nat
        BY <2>1, <3>1, TotalConstant, FS_CardinalityType
      <3> QED BY <3>2
    <2>2. CASE \A x \in DOMAIN f : f[x] = 0
      BY <2>1, <2>2
    <2>3. ASSUME NEW x \in DOMAIN f, f[x] # 0 PROVE Total(f) <= c
      <3>1. PICK g : /\ DOMAIN g = DOMAIN f \ {x} /\ \A y \in DOMAIN g : g[y] = f[y]
                     /\ Total(f) = f[x] + Total(g)
        BY <1>1
      <3>2. \A y \in DOMAIN g : g[y] = 0
        BY <1>2, <2>3, <3>1
      <3>3. Total(g) = 0
        BY <2>1, <3>1, <3>2
      <3>4. f[x] = c
        BY <2>3
      <3> QED BY <3>1, <3>3, <3>4
    <2> QED BY <2>2, <2>3
  <1>3. ASSUME NEW x \in DOMAIN f, f[x] = c PROVE Total(f) >= c
    <2>1. PICK g : /\ DOMAIN g = DOMAIN f \ {x} /\ \A y \in DOMAIN g : g[y] = f[y]
                   /\ Total(f) = f[x] + Total(g)
      BY <1>1
    <2>2. IsFiniteSet(DOMAIN g) /\ \A y \in DOMAIN g : g[y] \in Nat
      BY <2>1, FS_RemoveElement
    <2>3. Total(g) \in Nat
      BY <2>2, TotalNat
    <2> QED BY <1>3, <2>1, <2>3
  <1> QED BY <1>2, <1>3
=============================================================================
