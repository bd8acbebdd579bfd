------------------------------ MODULE FiniteFacts ------------------------------
(***************************************************************************)
(* Facts about numbers, finite sets and sums that the proofs about several  *)
(* components rest on: the smallest of a set of numbers, the two            *)
(* inductions, stated over a set of cases, and what SumFunctionOnSet of the *)
(* community modules adds up, which is defined by a recursive function.     *)
(***************************************************************************)
EXTENDS Integers, FiniteSetsExt, Functions, FiniteSetTheorems,
        WellFoundedInduction, TLAPS

\* A set of natural numbers that is not empty has a smallest element.
LEMMA MinIsSmallest ==
  ASSUME NEW S \in SUBSET Nat, S # {}
  PROVE  Min(S) \in S /\ \A n \in S : Min(S) <= n
<1> DEFINE Less == OpToRel(<, Nat)
<1>1. IsWellFoundedOn(Less, Nat)
  BY NatLessThanWellFounded
<1>2. PICK m \in S : \A n \in S : <<n, m>> \notin Less
  <2> HIDE DEF Less
  <2> QED BY <1>1, WFMin
<1>3. \A n \in S : m <= n
  <2> SUFFICES ASSUME NEW n \in S PROVE m <= n
    OBVIOUS
  <2>1. <<n, m>> \notin { p \in Nat \X Nat : p[1] < p[2] }
    BY <1>2 DEF OpToRel
  <2> QED BY <2>1, SMT
<1> QED BY <1>3 DEF Min

\* A bounded one has a largest element.
LEMMA MaxIsLargest ==
  ASSUME NEW n \in Nat, NEW S \in SUBSET (0..n), S # {}
  PROVE  Max(S) \in S /\ \A m \in S : m <= Max(S)
<1> DEFINE T == { n - m : m \in S }
<1>1. T \in SUBSET Nat /\ T # {}
  <2>1. \A m \in 0..n : n - m \in Nat
    BY SMT
  <2>2. \A m \in S : m \in 0..n
    OBVIOUS
  <2> QED BY <2>1, <2>2
<1>2. Min(T) \in T /\ \A t \in T : Min(T) <= t
  <2> HIDE DEF T
  <2> QED BY <1>1, MinIsSmallest
<1>3. PICK x \in S : Min(T) = n - x
  BY <1>2
<1>4. \A y \in S : x >= y
  <2> SUFFICES ASSUME NEW y \in S PROVE x >= y
    OBVIOUS
  <2>1. n - y \in T
    OBVIOUS
  <2>2. n - x <= n - y
    BY <1>2, <1>3, <2>1
  <2>3. n \in Int /\ x \in Int /\ y \in Int
    BY SMT
  <2> QED BY <2>2, <2>3
<1>5. Max(S) \in S /\ \A y \in S : Max(S) >= y
  BY <1>4 DEF Max
<1> QED BY <1>5, SMT

\* A set of numbers with 0 and with the successor of each of its members has
\* every number.
LEMMA EveryNumber ==
  ASSUME NEW C \in SUBSET Nat, 0 \in C, \A n \in C : n + 1 \in C
  PROVE  C = Nat
<1> SUFFICES ASSUME Nat \ C # {} PROVE FALSE
  OBVIOUS
<1> DEFINE m == Min(Nat \ C)
<1>1. m \in Nat \ C /\ \A n \in Nat \ C : m <= n
  BY MinIsSmallest
<1> HIDE DEF m
<1>2. m - 1 \in Nat /\ m - 1 < m
  BY <1>1
<1>3. m - 1 \in C
  BY <1>1, <1>2
<1>4. (m - 1) + 1 \in C
  BY <1>3
<1> QED BY <1>1, <1>4

\* A set of subsets of S with the empty one, and with what any of its members
\* becomes by one more element, has S, when S is finite.
LEMMA EverySubset ==
  ASSUME NEW S, IsFiniteSet(S), NEW C, {} \in C,
         \A T \in SUBSET S : \A x \in S \ T : T \in C => T \cup {x} \in C
  PROVE  S \in C
<1> DEFINE Sizes == { n \in Nat : \A T \in SUBSET S : Cardinality(T) = n => T \in C }
<1>1. 0 \in Sizes
  <2> SUFFICES ASSUME NEW T \in SUBSET S, Cardinality(T) = 0 PROVE T \in C
    OBVIOUS
  <2>1. IsFiniteSet(T)
    BY FS_Subset
  <2>2. T = {}
    BY <2>1, FS_EmptySet
  <2> QED BY <2>2
<1>2. ASSUME NEW n \in Sizes PROVE n + 1 \in Sizes
  <2> SUFFICES ASSUME NEW T \in SUBSET S, Cardinality(T) = n + 1 PROVE T \in C
    BY <1>2
  <2>1. IsFiniteSet(T)
    BY FS_Subset
  <2>2. PICK x : x \in T
    <3>1. T # {}
      BY FS_EmptySet, <1>2
    <3> QED BY <3>1
  <2>3. Cardinality(T \ {x}) = n
    <3>1. n \in Nat
      BY <1>2
    <3> HIDE DEF Sizes
    <3>2. Cardinality(T \ {x}) = Cardinality(T) - 1
      BY <2>1, <2>2, FS_RemoveElement
    <3> QED BY <3>1, <3>2
  <2>4. T \ {x} \in C
    BY <1>2, <2>3
  <2>5. (T \ {x}) \cup {x} = T
    BY <2>2
  <2> QED BY <2>2, <2>4, <2>5
<1>3. Sizes = Nat
  <2> HIDE DEF Sizes
  <2>1. Sizes \subseteq Nat
    BY DEF Sizes
  <2> QED BY <1>1, <1>2, <2>1, EveryNumber
<1> QED BY <1>3, FS_CardinalityType

------------------------------------------------------------------------------

\* Division with a remainder.
LEMMA DivMod ==
  ASSUME NEW m \in Nat, NEW d \in Nat \ {0}
  PROVE  m \div d \in Nat /\ m % d \in 0..(d - 1) /\ m = d * (m \div d) + (m % d)
  BY Z3

\* A multiple leaves no remainder.
LEMMA Multiple ==
  ASSUME NEW q \in Nat, NEW d \in Nat \ {0}
  PROVE  q * d \in Nat /\ (q * d) % d = 0
<1> DEFINE m == q * d
           k == q - (m \div d)
<1>1. m \in Nat
  BY SMT
<1>2. m \div d \in Nat /\ m % d \in 0..(d - 1) /\ m = d * (m \div d) + (m % d)
  <2> HIDE DEF m
  <2> QED BY <1>1, DivMod
<1>3. k \in Int /\ m % d = d * k
  <2>1. \A x \in Nat, y \in Int : q * d = d * x + y => y = d * (q - x)
    BY Z3
  <2>2. m % d \in Int
    BY <1>2
  <2>3. m % d = d * (q - (m \div d))
    <3> DEFINE x == m \div d
               y == m % d
    <3>1. q * d = d * x + y
      BY <1>2
    <3>2. x \in Nat /\ y \in Int
      BY <1>2, <2>2
    <3> HIDE DEF x, y
    <3>3. y = d * (q - x)
      BY <2>1, <3>1, <3>2
    <3> QED BY <3>3 DEF x, y
  <2> QED BY <1>2, <2>3
<1>4. \A j \in Int : d * j \in 0..(d - 1) => d * j = 0
  <2> SUFFICES ASSUME NEW j \in Int, d * j \in 0..(d - 1) PROVE d * j = 0
    OBVIOUS
  <2>1. CASE j >= 1
    <3>1. d * j >= d
      BY <2>1, Z3
    <3> QED BY <3>1, Z3
  <2>2. CASE j = 0
    BY <2>2, Z3
  <2>3. CASE j <= -1
    <3>1. d * j < 0
      BY <2>3, Z3
    <3> QED BY <3>1, Z3
  <2> QED BY <2>1, <2>2, <2>3
<1> QED
  <2> HIDE DEF k
  <2>1. m % d = 0
    BY <1>2, <1>3, <1>4
  <2> QED BY <1>1, <2>1

------------------------------------------------------------------------------
(***************************************************************************)
(* Sums.  g follows the recursion that SumFunctionOnSet(f, _) is defined    *)
(* by on the sets of D.                                                     *)
(***************************************************************************)
Pick(T) == CHOOSE x \in T : TRUE

\* g sums f over the sets in D, element by chosen element.
AddsUp(g, f, D) ==
  g = [T \in D |-> IF T = {} THEN 0 ELSE f[Pick(T)] + g[T \ {Pick(T)}]]

\* The sets that the sum of a small one depends on are small.
LEMMA SmallerSets ==
  ASSUME NEW S, IsFiniteSet(S), NEW n \in Nat, NEW T \in SUBSET S, T # {},
         Cardinality(T) <= n + 1
  PROVE  /\ Pick(T) \in T
         /\ T \ {Pick(T)} \in SUBSET S
         /\ Cardinality(T \ {Pick(T)}) \in Nat
         /\ Cardinality(T \ {Pick(T)}) <= n
<1>1. IsFiniteSet(T) /\ Cardinality(T) \in Nat
  BY FS_Subset, FS_CardinalityType
<1>2. Pick(T) \in T
  BY DEF Pick
<1>3. Cardinality(T \ {Pick(T)}) = Cardinality(T) - 1 /\ IsFiniteSet(T \ {Pick(T)})
  BY <1>1, <1>2, FS_RemoveElement
<1>4. Cardinality(T \ {Pick(T)}) \in Nat
  BY <1>3, FS_CardinalityType
<1> QED BY <1>1, <1>2, <1>3, <1>4

\* There is a function that follows the recursion on every subset.
LEMMA SumIsDefined ==
  ASSUME NEW f, NEW S, IsFiniteSet(S)
  PROVE  \E g : AddsUp(g, f, SUBSET S)
<1> DEFINE Upto(n) == { T \in SUBSET S : Cardinality(T) <= n }
           Good == { n \in Nat : \E g : AddsUp(g, f, Upto(n)) }
<1>1. 0 \in Good
  <2> DEFINE g == [T \in Upto(0) |-> 0]
  <2>1. ASSUME NEW T \in Upto(0) PROVE T = {}
    <3>1. IsFiniteSet(T) /\ Cardinality(T) \in Nat
      BY FS_Subset, FS_CardinalityType
    <3> QED BY <3>1, FS_EmptySet
  <2>2. AddsUp(g, f, Upto(0))
    BY <2>1 DEF AddsUp
  <2> QED BY <2>2
<1>2. ASSUME NEW n \in Good PROVE n + 1 \in Good
  <2>1. PICK g : AddsUp(g, f, Upto(n))
    BY <1>2
  <2> DEFINE h == [T \in Upto(n + 1) |-> IF T = {} THEN 0 ELSE f[Pick(T)] + g[T \ {Pick(T)}]]
  <2>2. ASSUME NEW T \in Upto(n) PROVE g[T] = h[T]
    <3>1. T \in Upto(n + 1)
      BY <1>2, FS_Subset, FS_CardinalityType
    <3>2. g[T] = IF T = {} THEN 0 ELSE f[Pick(T)] + g[T \ {Pick(T)}]
      BY <2>1 DEF AddsUp
    <3> QED BY <3>1, <3>2
  <2>3. ASSUME NEW T \in Upto(n + 1), T # {} PROVE T \ {Pick(T)} \in Upto(n)
    BY <1>2, <2>3, SmallerSets
  <2>4. \A T \in Upto(n + 1) : h[T] = IF T = {} THEN 0 ELSE f[Pick(T)] + h[T \ {Pick(T)}]
    <3> HIDE DEF Upto
    <3> QED BY <2>2, <2>3
  <2>5. AddsUp(h, f, Upto(n + 1))
    <3> HIDE DEF Upto
    <3> QED BY <2>4 DEF AddsUp
  <2> HIDE DEF h, Upto
  <2>6. n + 1 \in Nat
    BY <1>2
  <2> QED BY <2>5, <2>6
<1>3. Good = Nat
  <2> HIDE DEF Good
  <2>1. Good \subseteq Nat
    BY DEF Good
  <2> QED BY <1>1, <1>2, <2>1, EveryNumber
<1>4. Cardinality(S) \in Good
  BY <1>3, FS_CardinalityType
<1>5. Upto(Cardinality(S)) = SUBSET S
  BY FS_Subset
<1> QED BY <1>4, <1>5

\* Two functions that follow it agree where both are defined.
LEMMA SumIsUnique ==
  ASSUME NEW f, NEW S, IsFiniteSet(S), NEW R \in SUBSET S,
         NEW g, AddsUp(g, f, SUBSET R), NEW h, AddsUp(h, f, SUBSET S)
  PROVE  g[R] = h[R]
<1> DEFINE Good == { n \in Nat : \A T \in SUBSET R : Cardinality(T) <= n => g[T] = h[T] }
<1>0. IsFiniteSet(R)
  BY FS_Subset
<1>1. /\ \A T \in SUBSET R : g[T] = IF T = {} THEN 0 ELSE f[Pick(T)] + g[T \ {Pick(T)}]
      /\ \A T \in SUBSET R : h[T] = IF T = {} THEN 0 ELSE f[Pick(T)] + h[T \ {Pick(T)}]
  BY DEF AddsUp
<1>2. 0 \in Good
  <2> SUFFICES ASSUME NEW T \in SUBSET R, Cardinality(T) <= 0 PROVE g[T] = h[T]
    OBVIOUS
  <2>1. IsFiniteSet(T) /\ Cardinality(T) \in Nat
    BY <1>0, FS_Subset, FS_CardinalityType
  <2>2. T = {}
    BY <2>1, FS_EmptySet
  <2> QED BY <1>1, <2>2
<1>3. ASSUME NEW n \in Good PROVE n + 1 \in Good
  <2>1. n \in Nat /\ \A T \in SUBSET R : Cardinality(T) <= n => g[T] = h[T]
    BY <1>3
  <2> SUFFICES ASSUME NEW T \in SUBSET R, Cardinality(T) <= n + 1 PROVE g[T] = h[T]
    BY <2>1
  <2> HIDE DEF Good
  <2>2. CASE T = {}
    BY <1>1, <2>2
  <2>3. CASE T # {}
    <3>1. /\ T \ {Pick(T)} \in SUBSET R
          /\ Cardinality(T \ {Pick(T)}) <= n
      BY <1>0, <2>1, <2>3, SmallerSets
    <3>2. g[T \ {Pick(T)}] = h[T \ {Pick(T)}]
      BY <2>1, <3>1
    <3> QED BY <1>1, <2>3, <3>2
  <2> QED BY <2>2, <2>3
<1>4. Good = Nat
  <2> HIDE DEF Good
  <2>1. Good \subseteq Nat
    BY DEF Good
  <2> QED BY <1>2, <1>3, <2>1, EveryNumber
<1> QED BY <1>0, <1>4, FS_CardinalityType

\* The sum over a set that is not empty: the value of the element the
\* definition picks and the sum over the others.
LEMMA SumRecursion ==
  ASSUME NEW f, NEW S, IsFiniteSet(S)
  PROVE  SumFunctionOnSet(f, S) =
           IF S = {} THEN 0 ELSE f[Pick(S)] + SumFunctionOnSet(f, S \ {Pick(S)})
<1> DEFINE G(T) == CHOOSE g : AddsUp(g, f, SUBSET T)
<1>1. ASSUME NEW T, IsFiniteSet(T)
      PROVE  /\ AddsUp(G(T), f, SUBSET T)
             /\ SumFunctionOnSet(f, T) = G(T)[T]
  <2>1. \E g : AddsUp(g, f, SUBSET T)
    BY <1>1, SumIsDefined
  <2>2. SumFunctionOnSet(f, T) = G(T)[T]
    BY DEF SumFunctionOnSet, FoldFunctionOnSet, MapThenFoldSet, AddsUp, Pick
  <2> QED BY <2>1, <2>2
<1> HIDE DEF G
<1>2. G(S)[S] = IF S = {} THEN 0 ELSE f[Pick(S)] + G(S)[S \ {Pick(S)}]
  BY <1>1 DEF AddsUp
<1>3. S \ {Pick(S)} \in SUBSET S /\ IsFiniteSet(S \ {Pick(S)})
  BY FS_Subset
<1>4. G(S \ {Pick(S)})[S \ {Pick(S)}] = G(S)[S \ {Pick(S)}]
  <2> DEFINE R == S \ {Pick(S)}
             g == G(R)
             h == G(S)
  <2>1. R \in SUBSET S /\ AddsUp(g, f, SUBSET R) /\ AddsUp(h, f, SUBSET S)
    BY <1>1, <1>3
  <2> HIDE DEF R, g, h
  <2>2. g[R] = h[R]
    BY <2>1, SumIsUnique
  <2> QED BY <2>2 DEF R, g, h
<1> QED BY <1>1, <1>2, <1>3, <1>4

------------------------------------------------------------------------------

\* Nothing adds up to nothing.
LEMMA SumEmpty == \A f : SumFunctionOnSet(f, {}) = 0
BY SumRecursion, FS_EmptySet

\* A sum of integers is an integer, of naturals a natural.
LEMMA SumType ==
  ASSUME NEW S, IsFiniteSet(S), NEW f, \A x \in S : f[x] \in Int
  PROVE  /\ SumFunctionOnSet(f, S) \in Int
         /\ (\A x \in S : f[x] >= 0) => SumFunctionOnSet(f, S) >= 0
<1> DEFINE Fine(T) == /\ SumFunctionOnSet(f, T) \in Int
                      /\ (\A x \in T : f[x] >= 0) => SumFunctionOnSet(f, T) >= 0
           Good == { n \in Nat : \A T \in SUBSET S : Cardinality(T) <= n => Fine(T) }
<1>1. 0 \in Good
  <2> SUFFICES ASSUME NEW T \in SUBSET S, Cardinality(T) <= 0 PROVE Fine(T)
    OBVIOUS
  <2>1. IsFiniteSet(T) /\ Cardinality(T) \in Nat
    BY FS_Subset, FS_CardinalityType
  <2>2. T = {}
    BY <2>1, FS_EmptySet
  <2> QED BY <2>2, SumEmpty
<1>2. ASSUME NEW n \in Good PROVE n + 1 \in Good
  <2>1. n \in Nat /\ \A T \in SUBSET S : Cardinality(T) <= n => Fine(T)
    BY <1>2
  <2> SUFFICES ASSUME NEW T \in SUBSET S, Cardinality(T) <= n + 1 PROVE Fine(T)
    BY <2>1
  <2>2. CASE T = {}
    BY <2>2, SumEmpty
  <2>3. CASE T # {}
    <3>1. /\ Pick(T) \in T /\ T \ {Pick(T)} \in SUBSET S
          /\ Cardinality(T \ {Pick(T)}) <= n
      BY <2>1, <2>3, SmallerSets
    <3>2. Fine(T \ {Pick(T)})
      BY <2>1, <3>1
    <3>3. SumFunctionOnSet(f, T) = f[Pick(T)] + SumFunctionOnSet(f, T \ {Pick(T)})
      BY <2>3, SumRecursion, FS_Subset
    <3> QED BY <3>1, <3>2, <3>3
  <2> QED BY <2>2, <2>3
<1>3. Good = Nat
  <2> HIDE DEF Good
  <2>1. Good \subseteq Nat
    BY DEF Good
  <2> QED BY <1>1, <1>2, <2>1, EveryNumber
<1>4. Fine(S)
  BY <1>3, FS_CardinalityType
<1> QED BY <1>4

\* Any element may be taken out of a sum.
LEMMA SumRemove ==
  ASSUME NEW S, IsFiniteSet(S), NEW f, \A y \in S : f[y] \in Int, NEW x \in S
  PROVE  SumFunctionOnSet(f, S) = f[x] + SumFunctionOnSet(f, S \ {x})
<1> DEFINE Sum(T) == SumFunctionOnSet(f, T)
           Fine(T) == \A y \in T : Sum(T) = f[y] + Sum(T \ {y})
           Good == { n \in Nat : \A T \in SUBSET S : Cardinality(T) <= n => Fine(T) }
<1>0. ASSUME NEW T \in SUBSET S PROVE IsFiniteSet(T) /\ Sum(T) \in Int
  BY FS_Subset, SumType
<1>1. 0 \in Good
  <2> SUFFICES ASSUME NEW T \in SUBSET S, Cardinality(T) <= 0 PROVE Fine(T)
    OBVIOUS
  <2>1. IsFiniteSet(T) /\ Cardinality(T) \in Nat
    BY FS_Subset, FS_CardinalityType
  <2>2. T = {}
    BY <2>1, FS_EmptySet
  <2> QED BY <2>2
<1>2. ASSUME NEW n \in Good PROVE n + 1 \in Good
  <2>1. n \in Nat /\ \A T \in SUBSET S : Cardinality(T) <= n => Fine(T)
    BY <1>2
  <2> SUFFICES ASSUME NEW T \in SUBSET S, Cardinality(T) <= n + 1, NEW y \in T
               PROVE  Sum(T) = f[y] + Sum(T \ {y})
    BY <2>1
  <2> DEFINE p == Pick(T)
             both == (T \ {p}) \ {y}
  <2>2. /\ p \in T /\ T \ {p} \in SUBSET S
        /\ Cardinality(T \ {p}) <= n
    BY <2>1, SmallerSets
  <2>3. Sum(T) = f[p] + Sum(T \ {p})
    BY SumRecursion, FS_Subset
  <2>4. CASE y # p
    <3>1. y \in T \ {p} /\ p \in T \ {y}
      BY <2>2, <2>4
    <3>2. Sum(T \ {p}) = f[y] + Sum(both)
      BY <2>1, <2>2, <3>1
    <3>3. Cardinality(T \ {y}) <= n
      <4>1. IsFiniteSet(T) /\ Cardinality(T) \in Nat
        BY FS_Subset, FS_CardinalityType
      <4>2. Cardinality(T \ {y}) = Cardinality(T) - 1
        BY <4>1, FS_RemoveElement
      <4> QED BY <2>1, <4>1, <4>2
    <3>4. (T \ {y}) \ {p} = both
      OBVIOUS
    <3>5. Sum(T \ {y}) = f[p] + Sum(both)
      BY <2>1, <3>1, <3>3, <3>4
    <3>6. f[p] \in Int /\ f[y] \in Int /\ Sum(both) \in Int
      BY <1>0, <2>2
    <3> HIDE DEF p, both, Sum
    <3> QED BY <2>3, <3>2, <3>5, <3>6
  <2> QED BY <2>3, <2>4
<1>3. Good = Nat
  <2> HIDE DEF Good
  <2>1. Good \subseteq Nat
    BY DEF Good
  <2> QED BY <1>1, <1>2, <2>1, EveryNumber
<1>4. Fine(S)
  BY <1>3, FS_CardinalityType
<1> QED BY <1>4

\* One more element adds its value.
LEMMA SumInsert ==
  ASSUME NEW S, IsFiniteSet(S), NEW f, NEW x, x \notin S,
         \A y \in S \cup {x} : f[y] \in Int
  PROVE  SumFunctionOnSet(f, S \cup {x}) = f[x] + SumFunctionOnSet(f, S)
<1> DEFINE R == S \cup {x}
<1>1. IsFiniteSet(R) /\ x \in R /\ R \ {x} = S
  BY FS_AddElement
<1> HIDE DEF R
<1>2. \A y \in R : f[y] \in Int
  BY DEF R
<1>3. SumFunctionOnSet(f, R) = f[x] + SumFunctionOnSet(f, R \ {x})
  BY <1>1, <1>2, SumRemove
<1> QED BY <1>1, <1>3 DEF R

\* Sums of smaller values are smaller, sums of sums are added up.
LEMMA SumMonotone ==
  ASSUME NEW S, IsFiniteSet(S), NEW f, NEW g,
         \A x \in S : f[x] \in Int /\ g[x] \in Int /\ f[x] <= g[x]
  PROVE  SumFunctionOnSet(f, S) <= SumFunctionOnSet(g, S)
<1> DEFINE Good == { T \in SUBSET S : SumFunctionOnSet(f, T) <= SumFunctionOnSet(g, T) }
<1>1. {} \in Good
  BY SumEmpty
<1>2. ASSUME NEW T \in SUBSET S, NEW x \in S \ T, T \in Good PROVE T \cup {x} \in Good
  <2>1. IsFiniteSet(T)
    BY FS_Subset
  <2>2. /\ SumFunctionOnSet(f, T \cup {x}) = f[x] + SumFunctionOnSet(f, T)
        /\ SumFunctionOnSet(g, T \cup {x}) = g[x] + SumFunctionOnSet(g, T)
    BY <2>1, SumInsert
  <2>3. SumFunctionOnSet(f, T) \in Int /\ SumFunctionOnSet(g, T) \in Int
    BY <2>1, SumType
  <2>4. SumFunctionOnSet(f, T \cup {x}) <= SumFunctionOnSet(g, T \cup {x})
    BY <1>2, <2>2, <2>3
  <2> QED BY <2>4
<1> HIDE DEF Good
<1>3. S \in Good
  BY <1>1, <1>2, EverySubset
<1> QED BY <1>3 DEF Good

\* The sum of sums.
LEMMA SumAdd ==
  ASSUME NEW S, IsFiniteSet(S), NEW f, NEW g, NEW h,
         \A x \in S : f[x] \in Int /\ g[x] \in Int /\ h[x] = f[x] + g[x]
  PROVE  SumFunctionOnSet(h, S) = SumFunctionOnSet(f, S) + SumFunctionOnSet(g, S)
<1> DEFINE Good == { T \in SUBSET S : SumFunctionOnSet(h, T)
                                      = SumFunctionOnSet(f, T) + SumFunctionOnSet(g, T) }
<1>0. \A x \in S : h[x] \in Int
  OBVIOUS
<1>1. {} \in Good
  BY SumEmpty
<1>2. ASSUME NEW T \in SUBSET S, NEW x \in S \ T, T \in Good PROVE T \cup {x} \in Good
  <2>1. IsFiniteSet(T)
    BY FS_Subset
  <2>2. /\ SumFunctionOnSet(f, T \cup {x}) = f[x] + SumFunctionOnSet(f, T)
        /\ SumFunctionOnSet(g, T \cup {x}) = g[x] + SumFunctionOnSet(g, T)
        /\ SumFunctionOnSet(h, T \cup {x}) = h[x] + SumFunctionOnSet(h, T)
    BY <1>0, <2>1, SumInsert
  <2>3. SumFunctionOnSet(f, T) \in Int /\ SumFunctionOnSet(g, T) \in Int
    BY <2>1, SumType
  <2>4. SumFunctionOnSet(h, T \cup {x})
          = SumFunctionOnSet(f, T \cup {x}) + SumFunctionOnSet(g, T \cup {x})
    BY <1>2, <2>2, <2>3
  <2> QED BY <2>4
<1> HIDE DEF Good
<1>3. S \in Good
  BY <1>1, <1>2, EverySubset
<1> QED BY <1>3 DEF Good

\* A sum sees nothing but the values of its elements.
LEMMA SumSame ==
  ASSUME NEW S, IsFiniteSet(S), NEW f, NEW g, \A x \in S : f[x] \in Int /\ g[x] = f[x]
  PROVE  SumFunctionOnSet(g, S) = SumFunctionOnSet(f, S)
<1>1. SumFunctionOnSet(g, S) <= SumFunctionOnSet(f, S)
  BY SumMonotone
<1>2. SumFunctionOnSet(f, S) <= SumFunctionOnSet(g, S)
  BY SumMonotone
<1>3. SumFunctionOnSet(f, S) \in Int /\ SumFunctionOnSet(g, S) \in Int
  BY SumType
<1> QED BY <1>1, <1>2, <1>3

\* A sum of zeros.
LEMMA SumZero ==
  ASSUME NEW S, IsFiniteSet(S), NEW f, \A x \in S : f[x] = 0
  PROVE  SumFunctionOnSet(f, S) = 0
<1> DEFINE total == SumFunctionOnSet(f, S)
<1>1. total = total + total
  BY SumAdd
<1>2. total \in Int
  BY SumType
<1> HIDE DEF total
<1>3. total = 0
  BY <1>1, <1>2
<1> QED BY <1>3 DEF total

\* Where one value changes, the sum changes by as much.
LEMMA SumChange ==
  ASSUME NEW S, IsFiniteSet(S), NEW f, NEW g, NEW x \in S,
         \A y \in S : f[y] \in Int /\ g[y] \in Int,
         \A y \in S : y # x => g[y] = f[y]
  PROVE  SumFunctionOnSet(g, S) = SumFunctionOnSet(f, S) + (g[x] - f[x])
<1> DEFINE R == S \ {x}
<1>1. IsFiniteSet(R) /\ R \subseteq S
  BY FS_Subset
<1>2. /\ SumFunctionOnSet(f, S) = f[x] + SumFunctionOnSet(f, R)
      /\ SumFunctionOnSet(g, S) = g[x] + SumFunctionOnSet(g, R)
  BY SumRemove
<1>3. \A y \in R : f[y] \in Int /\ g[y] = f[y]
  OBVIOUS
<1> HIDE DEF R
<1>4. SumFunctionOnSet(g, R) = SumFunctionOnSet(f, R)
  BY <1>1, <1>3, SumSame
<1>5. SumFunctionOnSet(f, R) \in Int
  BY <1>1, <1>3, SumType
<1> QED BY <1>2, <1>4, <1>5

\* Of values that are not negative, each is at most the sum.
LEMMA SumCovers ==
  ASSUME NEW S, IsFiniteSet(S), NEW f, \A y \in S : f[y] \in Nat, NEW x \in S
  PROVE  f[x] <= SumFunctionOnSet(f, S)
<1>1. IsFiniteSet(S \ {x})
  BY FS_Subset
<1>2. SumFunctionOnSet(f, S \ {x}) \in Int /\ SumFunctionOnSet(f, S \ {x}) >= 0
  BY <1>1, SumType
<1>3. SumFunctionOnSet(f, S) = f[x] + SumFunctionOnSet(f, S \ {x})
  BY SumRemove
<1> QED BY <1>2, <1>3

\* One value that is not zero.
LEMMA SumSingle ==
  ASSUME NEW S, IsFiniteSet(S), NEW f, NEW x \in S, f[x] \in Int,
         \A y \in S : y # x => f[y] = 0
  PROVE  SumFunctionOnSet(f, S) = f[x]
<1>1. IsFiniteSet(S \ {x})
  BY FS_Subset
<1>2. SumFunctionOnSet(f, S \ {x}) = 0
  BY <1>1, SumZero
<1>3. \A y \in S : f[y] \in Int
  OBVIOUS
<1>4. SumFunctionOnSet(f, S) = f[x] + SumFunctionOnSet(f, S \ {x})
  BY <1>3, SumRemove
<1> QED BY <1>2, <1>4

\* The sum of a part is at most the sum, when nothing is negative.
LEMMA SumPart ==
  ASSUME NEW S, IsFiniteSet(S), NEW f, \A x \in S : f[x] \in Nat, NEW R \in SUBSET S
  PROVE  SumFunctionOnSet(f, R) <= SumFunctionOnSet(f, S)
<1> DEFINE Good == { T \in SUBSET S : SumFunctionOnSet(f, T \cap R) <= SumFunctionOnSet(f, T) }
<1>1. {} \in Good
  <2>1. {} \cap R = {}
    OBVIOUS
  <2> QED BY <2>1, SumEmpty
<1>2. ASSUME NEW T \in SUBSET S, NEW x \in S \ T, T \in Good PROVE T \cup {x} \in Good
  <2> DEFINE low == SumFunctionOnSet(f, T \cap R)
             high == SumFunctionOnSet(f, T)
  <2>1. IsFiniteSet(T) /\ IsFiniteSet(T \cap R)
    BY FS_Subset
  <2>2. SumFunctionOnSet(f, T \cup {x}) = f[x] + high
    BY <2>1, SumInsert
  <2>3. low \in Int /\ high \in Int /\ f[x] \in Nat
    BY <2>1, SumType
  <2>4. CASE x \in R
    <3>1. (T \cup {x}) \cap R = (T \cap R) \cup {x}
      BY <2>4
    <3>2. SumFunctionOnSet(f, (T \cap R) \cup {x}) = f[x] + low
      <4> DEFINE both == T \cap R
      <4>1. IsFiniteSet(both) /\ x \notin both /\ \A y \in both \cup {x} : f[y] \in Int
        BY <2>1
      <4> HIDE DEF both
      <4>2. SumFunctionOnSet(f, both \cup {x}) = f[x] + SumFunctionOnSet(f, both)
        BY <4>1, SumInsert
      <4> QED BY <4>2 DEF both
    <3>3. SumFunctionOnSet(f, (T \cup {x}) \cap R) = f[x] + low
      BY <3>1, <3>2
    <3> QED BY <1>2, <2>2, <2>3, <3>3
  <2>5. CASE x \notin R
    <3>1. (T \cup {x}) \cap R = T \cap R
      BY <2>5
    <3>2. SumFunctionOnSet(f, (T \cup {x}) \cap R) = low
      BY <3>1
    <3> QED BY <1>2, <2>2, <2>3, <3>2
  <2> QED BY <2>4, <2>5
<1> HIDE DEF Good
<1>3. S \in Good
  BY <1>1, <1>2, EverySubset
<1>4. S \cap R = R
  OBVIOUS
<1> QED BY <1>3, <1>4 DEF Good

\* What is zero outside a part adds up to the sum of the part.
LEMMA SumWithin ==
  ASSUME NEW S, IsFiniteSet(S), NEW R \in SUBSET S, NEW f, NEW g,
         \A x \in R : f[x] \in Int,
         \A x \in S : g[x] = IF x \in R THEN f[x] ELSE 0
  PROVE  SumFunctionOnSet(g, S) = SumFunctionOnSet(f, R)
<1> DEFINE Good == { T \in SUBSET S : SumFunctionOnSet(g, T) = SumFunctionOnSet(f, T \cap R) }
<1>1. {} \in Good
  <2>1. {} \cap R = {}
    OBVIOUS
  <2> QED BY <2>1, SumEmpty
<1>2. ASSUME NEW T \in SUBSET S, NEW x \in S \ T, T \in Good PROVE T \cup {x} \in Good
  <2> DEFINE both == T \cap R
  <2>1. IsFiniteSet(T) /\ IsFiniteSet(both) /\ x \notin both
    BY FS_Subset
  <2>2. SumFunctionOnSet(g, T \cup {x}) = g[x] + SumFunctionOnSet(g, T)
    <3>1. \A y \in T \cup {x} : g[y] \in Int
      OBVIOUS
    <3> QED BY <2>1, <3>1, SumInsert
  <2>3. SumFunctionOnSet(g, T) = SumFunctionOnSet(f, both)
    BY <1>2
  <2>4. CASE x \in R
    <3>1. (T \cup {x}) \cap R = both \cup {x}
      BY <2>4
    <3>2. \A y \in both \cup {x} : f[y] \in Int
      BY <2>4
    <3> HIDE DEF both
    <3>3. SumFunctionOnSet(f, both \cup {x}) = f[x] + SumFunctionOnSet(f, both)
      BY <2>1, <3>2, SumInsert
    <3>4. g[x] = f[x]
      BY <2>4
    <3>5. SumFunctionOnSet(g, T \cup {x}) = SumFunctionOnSet(f, (T \cup {x}) \cap R)
      BY <2>2, <2>3, <3>1, <3>3, <3>4
    <3> QED BY <3>5
  <2>5. CASE x \notin R
    <3>1. (T \cup {x}) \cap R = both /\ g[x] = 0
      BY <2>5
    <3>2. SumFunctionOnSet(f, both) \in Int
      <4>1. \A y \in both : f[y] \in Int
        OBVIOUS
      <4> HIDE DEF both
      <4> QED BY <2>1, <4>1, SumType
    <3>3. SumFunctionOnSet(g, T \cup {x}) = SumFunctionOnSet(f, both)
      <4> DEFINE low == SumFunctionOnSet(f, both)
      <4>1. low \in Int /\ SumFunctionOnSet(g, T \cup {x}) = 0 + low
        BY <2>2, <2>3, <3>1, <3>2
      <4> HIDE DEF low
      <4>2. SumFunctionOnSet(g, T \cup {x}) = low
        BY <4>1
      <4> QED BY <4>2 DEF low
    <3> HIDE DEF both
    <3> QED BY <3>1, <3>3
  <2> QED BY <2>4, <2>5
<1> HIDE DEF Good
<1>3. S \in Good
  BY <1>1, <1>2, EverySubset
<1>4. S \cap R = R
  OBVIOUS
<1> QED BY <1>3, <1>4 DEF Good

\* A table adds up to the same by its rows and by its columns.
LEMMA SumExchange ==
  ASSUME NEW S, IsFiniteSet(S), NEW C, IsFiniteSet(C), NEW t,
         \A x \in S : \A y \in C : t[x][y] \in Int
  PROVE  SumFunctionOnSet([x \in S |-> SumFunctionOnSet(t[x], C)], S)
           = SumFunctionOnSet([y \in C |-> SumFunctionOnSet([x \in S |-> t[x][y]], S)], C)
<1> DEFINE rows == [x \in S |-> SumFunctionOnSet(t[x], C)]
           column(y) == [x \in S |-> t[x][y]]
           columns(T) == [y \in C |-> SumFunctionOnSet(column(y), T)]
           Good == { T \in SUBSET S : SumFunctionOnSet(rows, T) = SumFunctionOnSet(columns(T), C) }
<1>0. \A x \in S : rows[x] = SumFunctionOnSet(t[x], C) /\ rows[x] \in Int
  BY SumType
<1>1. {} \in Good
  <2>1. \A y \in C : columns({})[y] = 0
    BY SumEmpty
  <2> HIDE DEF columns
  <2>2. SumFunctionOnSet(columns({}), C) = 0
    BY <2>1, SumZero
  <2> QED BY <2>2, SumEmpty
<1>2. ASSUME NEW T \in SUBSET S, NEW x \in S \ T, T \in Good PROVE T \cup {x} \in Good
  <2>1. IsFiniteSet(T)
    BY FS_Subset
  <2>2. SumFunctionOnSet(rows, T \cup {x}) = rows[x] + SumFunctionOnSet(rows, T)
    <3> HIDE DEF rows
    <3> QED BY <1>0, <2>1, SumInsert
  <2>3. ASSUME NEW y \in C
        PROVE  /\ t[x][y] \in Int /\ columns(T)[y] \in Int
               /\ columns(T \cup {x})[y] = t[x][y] + columns(T)[y]
    <3> DEFINE col == column(y)
    <3>1. \A z \in S : col[z] = t[z][y] /\ col[z] \in Int
      OBVIOUS
    <3> HIDE DEF col
    <3>2. SumFunctionOnSet(col, T \cup {x}) = col[x] + SumFunctionOnSet(col, T)
      BY <2>1, <3>1, SumInsert
    <3>3. SumFunctionOnSet(col, T) \in Int
      BY <2>1, <3>1, SumType
    <3> QED BY <3>1, <3>2, <3>3 DEF col
  <2> DEFINE before == columns(T)
             after == columns(T \cup {x})
             row == t[x]
  <2>4. \A y \in C : row[y] \in Int /\ before[y] \in Int /\ after[y] = row[y] + before[y]
    BY <2>3
  <2> HIDE DEF before, after, row
  <2>5. SumFunctionOnSet(after, C) = SumFunctionOnSet(row, C) + SumFunctionOnSet(before, C)
    BY <2>4, SumAdd
  <2>6. rows[x] = SumFunctionOnSet(row, C)
    BY <1>0 DEF row
  <2>7. SumFunctionOnSet(rows, T) = SumFunctionOnSet(before, C)
    BY <1>2 DEF before
  <2>8. SumFunctionOnSet(rows, T \cup {x}) = SumFunctionOnSet(after, C)
    BY <2>2, <2>5, <2>6, <2>7
  <2> QED BY <2>8 DEF after
<1> HIDE DEF Good
<1>3. S \in Good
  BY <1>1, <1>2, EverySubset
<1> QED BY <1>3 DEF Good

\* The differences along a row of values add up to the whole way down.
LEMMA SumOfSteps ==
  ASSUME NEW n \in Nat, NEW f, \A i \in 0..n : f[i] \in Int,
         NEW g, \A i \in 1..n : g[i] = f[i - 1] - f[i]
  PROVE  SumFunctionOnSet(g, 1..n) = f[0] - f[n]
<1> DEFINE Good == { m \in Nat : m <= n => SumFunctionOnSet(g, 1..m) = f[0] - f[m] }
<1>1. 0 \in Good
  <2>1. 1..0 = {}
    OBVIOUS
  <2>2. SumFunctionOnSet(g, 1..0) = 0
    BY <2>1, SumEmpty
  <2> QED BY <2>2
<1>2. ASSUME NEW m \in Good PROVE m + 1 \in Good
  <2>1. m \in Nat /\ (m <= n => SumFunctionOnSet(g, 1..m) = f[0] - f[m])
    BY <1>2
  <2> SUFFICES ASSUME m + 1 <= n PROVE SumFunctionOnSet(g, 1..(m + 1)) = f[0] - f[m + 1]
    BY <2>1
  <2> HIDE DEF Good
  <2> DEFINE days == 1..m
             x == m + 1
  <2>2. IsFiniteSet(days) /\ x \notin days /\ days \cup {x} = 1..(m + 1)
    <3>1. IsFiniteSet(days)
      BY <2>1, FS_Interval
    <3>2. x \notin days /\ days \cup {x} = 1..(m + 1)
      BY <2>1
    <3> QED BY <3>1, <3>2
  <2>3. \A y \in days \cup {x} : g[y] \in Int
    <3>1. \A y \in 1..n : g[y] \in Int
      <4> SUFFICES ASSUME NEW y \in 1..n PROVE f[y - 1] - f[y] \in Int
        OBVIOUS
      <4>1. y - 1 \in 0..n /\ y \in 0..n
        OBVIOUS
      <4> QED BY <4>1
    <3>2. days \cup {x} \subseteq 1..n
      BY <2>1, <2>2
    <3> QED BY <3>1, <3>2
  <2>4. g[x] = f[m] - f[x] /\ f[m] \in Int /\ f[x] \in Int /\ f[0] \in Int
    <3>1. x \in 1..n /\ x - 1 = m /\ m \in 0..n /\ x \in 0..n /\ 0 \in 0..n
      BY <2>1
    <3> HIDE DEF x
    <3> QED BY <3>1
  <2> HIDE DEF days, x
  <2>5. SumFunctionOnSet(g, days \cup {x}) = g[x] + SumFunctionOnSet(g, days)
    BY <2>2, <2>3, SumInsert
  <2>6. SumFunctionOnSet(g, days) = f[0] - f[m]
    BY <2>1 DEF days
  <2>7. SumFunctionOnSet(g, 1..(m + 1)) = f[0] - f[x]
    <3>1. g[x] + SumFunctionOnSet(g, days) = f[0] - f[x]
      BY <2>4, <2>6
    <3>2. SumFunctionOnSet(g, 1..(m + 1)) = g[x] + SumFunctionOnSet(g, days)
      BY <2>2, <2>5
    <3> QED BY <3>1, <3>2
  <2> QED BY <2>7 DEF x
<1>3. Good = Nat
  <2> HIDE DEF Good
  <2>1. Good \subseteq Nat
    BY DEF Good
  <2> QED BY <1>1, <1>2, <2>1, EveryNumber
<1> QED BY <1>3

\* The values of a loop that passes one on n times, step by step.
IsRun(g, D, first, n, step) ==
  /\ g \in [0..n -> D]
  /\ g[0] = first
  /\ \A i \in 1..n : g[i] = step[i][g[i - 1]]

\* A loop that passes a value on has values.
LEMMA Iteration ==
  ASSUME NEW D, NEW first \in D, NEW n \in Nat, NEW step \in [1..n -> [D -> D]]
  PROVE  \E g : IsRun(g, D, first, n, step)
<1> DEFINE Run(g, m) == g[0] = first /\ \A i \in 1..m : g[i] = step[i][g[i - 1]]
           Good == { m \in Nat : m <= n => \E g \in [0..m -> D] : Run(g, m) }
<1>1. 0 \in Good
  <2>1. [i \in 0..0 |-> first] \in [0..0 -> D] /\ Run([i \in 0..0 |-> first], 0)
    OBVIOUS
  <2> QED BY <2>1
<1>2. ASSUME NEW m \in Good PROVE m + 1 \in Good
  <2>1. m \in Nat /\ (m <= n => \E g \in [0..m -> D] : Run(g, m))
    BY <1>2
  <2> SUFFICES ASSUME m + 1 <= n PROVE \E g \in [0..(m + 1) -> D] : Run(g, m + 1)
    BY <2>1
  <2> HIDE DEF Good
  <2>2. PICK g \in [0..m -> D] : Run(g, m)
    BY <2>1
  <2> DEFINE x == m + 1
             next == step[x][g[m]]
             h == [i \in 0..x |-> IF i = x THEN next ELSE g[i]]
  <2>3. next \in D
    <3>1. x \in 1..n /\ g[m] \in D
      BY <2>1, <2>2
    <3> QED BY <3>1
  <2>4. h \in [0..x -> D]
    <3>1. \A i \in 0..x : i = x \/ i \in 0..m
      BY <2>1
    <3> QED BY <2>2, <2>3, <3>1
  <2>5. \A i \in 0..m : i \in 0..x /\ i # x
    BY <2>1
  <2>6. \A i \in 0..m : h[i] = g[i]
    BY <2>5
  <2>7. h[x] = next /\ x - 1 = m /\ 0 \in 0..m /\ m \in 0..m
    BY <2>1
  <2> HIDE DEF h
  <2>8. Run(h, x)
    <3>1. h[0] = first
      BY <2>2, <2>6, <2>7
    <3>2. ASSUME NEW i \in 1..x PROVE h[i] = step[i][h[i - 1]]
      <4>1. CASE i = x
        BY <2>6, <2>7, <4>1
      <4>2. CASE i # x
        <5>1. i \in 1..m /\ i \in 0..m /\ i - 1 \in 0..m
          BY <2>1, <4>2
        <5>2. g[i] = step[i][g[i - 1]]
          BY <2>2, <5>1
        <5> QED BY <2>6, <5>1, <5>2
      <4> QED BY <4>1, <4>2
    <3> QED BY <3>1, <3>2
  <2> QED BY <2>4, <2>8
<1>3. Good = Nat
  <2> HIDE DEF Good
  <2>1. Good \subseteq Nat
    BY DEF Good
  <2> QED BY <1>1, <1>2, <2>1, EveryNumber
<1>4. \E g \in [0..n -> D] : Run(g, n)
  BY <1>3
<1> QED BY <1>4 DEF IsRun

\* The sum along a row of values grows by the next one.
LEMMA SumStep ==
  ASSUME NEW n \in Nat, NEW f, \A i \in 1..(n + 1) : f[i] \in Int
  PROVE  /\ SumFunctionOnSet(f, 1..0) = 0
         /\ SumFunctionOnSet(f, 1..n) \in Int
         /\ SumFunctionOnSet(f, 1..(n + 1)) = f[n + 1] + SumFunctionOnSet(f, 1..n)
<1> DEFINE S == 1..n
           x == n + 1
<1>1. S \cup {x} = 1..(n + 1) /\ x \notin S /\ S \subseteq 1..(n + 1)
  OBVIOUS
<1>2. IsFiniteSet(S)
  BY FS_Interval
<1>3. 1..0 = {}
  OBVIOUS
<1>4. SumFunctionOnSet(f, 1..0) = 0
  BY <1>3, SumEmpty
<1>5. \A y \in S \cup {x} : f[y] \in Int
  BY <1>1
<1> HIDE DEF S, x
<1>6. SumFunctionOnSet(f, S \cup {x}) = f[x] + SumFunctionOnSet(f, S)
  BY <1>1, <1>2, <1>5, SumInsert
<1>7. SumFunctionOnSet(f, S) \in Int
  BY <1>2, <1>5, SumType
<1> QED BY <1>1, <1>4, <1>6, <1>7 DEF S, x

\* A sum does not depend on the names of what is added up.
LEMMA SumRename ==
  ASSUME NEW S, IsFiniteSet(S), NEW h, \A x, y \in S : h[x] = h[y] => x = y,
         NEW f, \A x \in S : f[h[x]] \in Int,
         NEW g, \A x \in S : g[x] = f[h[x]]
  PROVE  SumFunctionOnSet(g, S) = SumFunctionOnSet(f, { h[x] : x \in S })
<1> DEFINE Good == { T \in SUBSET S :
              /\ IsFiniteSet({ h[x] : x \in T })
              /\ SumFunctionOnSet(g, T) = SumFunctionOnSet(f, { h[x] : x \in T }) }
<1>1. {} \in Good
  <2>1. { h[x] : x \in {} } = {}
    OBVIOUS
  <2> QED BY <2>1, SumEmpty, FS_EmptySet
<1>2. ASSUME NEW T \in SUBSET S, NEW z \in S \ T, T \in Good PROVE T \cup {z} \in Good
  <2> DEFINE image == { h[x] : x \in T }
             new == h[z]
  <2>1. IsFiniteSet(T) /\ IsFiniteSet(image)
    BY <1>2, FS_Subset
  <2>2. new \notin image /\ { h[x] : x \in T \cup {z} } = image \cup {new}
    OBVIOUS
  <2>3. \A y \in image \cup {new} : f[y] \in Int
    OBVIOUS
  <2>4. \A x \in T \cup {z} : g[x] \in Int
    OBVIOUS
  <2>5. SumFunctionOnSet(g, T) = SumFunctionOnSet(f, image)
    BY <1>2
  <2>6. g[z] = f[new]
    OBVIOUS
  <2> HIDE DEF image, new
  <2>7. SumFunctionOnSet(f, image \cup {new}) = f[new] + SumFunctionOnSet(f, image)
    BY <2>1, <2>2, <2>3, SumInsert
  <2>8. SumFunctionOnSet(g, T \cup {z}) = g[z] + SumFunctionOnSet(g, T)
    BY <2>1, <2>4, SumInsert
  <2>9. SumFunctionOnSet(g, T \cup {z}) = SumFunctionOnSet(f, { h[x] : x \in T \cup {z} })
    BY <2>2, <2>5, <2>6, <2>7, <2>8
  <2>10. IsFiniteSet({ h[x] : x \in T \cup {z} })
    BY <2>1, <2>2, FS_AddElement
  <2> QED BY <2>9, <2>10
<1>3. S \in Good
  <2> HIDE DEF Good
  <2> QED BY <1>1, <1>2, EverySubset
<1> QED BY <1>3
==============================================================================
