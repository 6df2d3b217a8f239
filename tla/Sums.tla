-------------------------------- MODULE Sums --------------------------------
(***************************************************************************)
(* Sums over finite sets.  MapThenSumSet of the community modules is a fold:  *)
(* it takes the elements away one by one, in the order of CHOOSE.  The lemmas  *)
(* below say what it computes whatever that order is.                        *)
(*                                                                         *)
(* The induction theorems of the library quantify over predicates, which the  *)
(* provers here cannot instantiate.  That every non-empty set of finite sets   *)
(* has a minimal element (WFMin) is a statement about sets, and does as well:   *)
(* take a minimal counterexample, and remove an element from it.              *)
(***************************************************************************)
EXTENDS FiniteSetsExt, FiniteSetTheorems, TLAPS

\* The sum of f[x] for x in S.
SumOver(f, S) == MapThenSumSet(LAMBDA x : f[x], S)

-----------------------------------------------------------------------------
(* Minimal counterexamples.                                                *)

\* A non-empty set of subsets of a finite set has one that is in it while none of
\* those with one element less is.
LEMMA MinimalSubset ==
  ASSUME NEW S, IsFiniteSet(S), NEW Bad, Bad \subseteq SUBSET S, Bad # {}
  PROVE  \E T \in Bad : \A x \in T : T \ {x} \notin Bad
  <1>1. IsWellFoundedOn(StrictSubsetOrdering(S), SUBSET S)
    BY FS_StrictSubsetOrderingWellFounded, FS_FiniteSubsetsOfFinite
  <1>2. PICK T \in Bad : \A U \in Bad : <<U, T>> \notin StrictSubsetOrdering(S)
    BY <1>1, WFMin
  <1>3. ASSUME NEW x \in T, T \ {x} \in Bad PROVE FALSE
    <2>1. <<T \ {x}, T>> \in StrictSubsetOrdering(S)
      BY <1>3 DEF StrictSubsetOrdering
    <2> QED
      BY <1>2, <1>3, <2>1
  <1> QED
    BY <1>3

\* A non-empty set of natural numbers has a least one.
LEMMA LeastNatural ==
  ASSUME NEW Bad, Bad \subseteq Nat, Bad # {}
  PROVE  \E n \in Bad : \A k \in Bad : n <= k
  <1> DEFINE Less == {pair \in Nat \X Nat : pair[1] < pair[2]}
  <1>1. IsWellFoundedOn(Less, Nat)
    BY NatLessThanWellFounded DEF OpToRel
  <1>2. PICK n \in Bad : \A k \in Bad : <<k, n>> \notin Less
    BY <1>1, WFMin
  <1>3. ASSUME NEW k \in Bad PROVE n <= k
    <2>1. n \in Nat /\ k \in Nat
      BY <1>2
    <2>2. k < n => <<k, n>> \in Less
      BY <2>1
    <2>3. ~(k < n)
      BY <1>2, <2>2
    <2> QED
      BY <2>1, <2>3
  <1> QED
    BY <1>3

\* The largest and the least element of a finite set of integers.
LEMMA LargestElement ==
  ASSUME NEW S, IsFiniteSet(S), S \subseteq Int, S # {}
  PROVE  Max(S) \in S /\ \A x \in S : x <= Max(S)
  <1> DEFINE Bad == {T \in SUBSET S : T # {} /\ ~\E x \in T : \A y \in T : x >= y}
  <1>1. Bad = {}
    <2>1. SUFFICES ASSUME Bad # {} PROVE FALSE
      OBVIOUS
    <2>2. PICK T \in Bad : \A x \in T : T \ {x} \notin Bad
      BY <2>1, MinimalSubset
    <2>3. PICK x \in T : TRUE
      BY <2>2
    <2>4. CASE T \ {x} = {}
      BY <2>2, <2>3, <2>4
    <2>5. CASE T \ {x} # {}
      <3>1. PICK m \in T \ {x} : \A y \in T \ {x} : m >= y
        BY <2>2, <2>3, <2>5
      <3>2. x >= m => \A y \in T : x >= y
        BY <2>2, <2>3, <3>1
      <3>3. m >= x => \A y \in T : m >= y
        BY <2>2, <2>3, <3>1
      <3> QED
        BY <2>2, <2>3, <3>1, <3>2, <3>3
    <2> QED
      BY <2>4, <2>5
  <1>2. \E x \in S : \A y \in S : x >= y
    BY <1>1
  <1>3. Max(S) \in S /\ \A y \in S : Max(S) >= y
    <2> DEFINE P(x) == x \in S /\ \A y \in S : x >= y
    <2>1. Max(S) = CHOOSE x : P(x)
      BY Zenon DEF Max
    <2> QED
      BY <1>2, <2>1
  <1> QED
    BY <1>3

LEMMA LeastElement ==
  ASSUME NEW S, IsFiniteSet(S), S \subseteq Int, S # {}
  PROVE  Min(S) \in S /\ \A x \in S : Min(S) <= x
  <1> DEFINE Bad == {T \in SUBSET S : T # {} /\ ~\E x \in T : \A y \in T : x <= y}
  <1>1. Bad = {}
    <2>1. SUFFICES ASSUME Bad # {} PROVE FALSE
      OBVIOUS
    <2>2. PICK T \in Bad : \A x \in T : T \ {x} \notin Bad
      BY <2>1, MinimalSubset
    <2>3. PICK x \in T : TRUE
      BY <2>2
    <2>4. CASE T \ {x} = {}
      BY <2>2, <2>3, <2>4
    <2>5. CASE T \ {x} # {}
      <3>1. PICK m \in T \ {x} : \A y \in T \ {x} : m <= y
        BY <2>2, <2>3, <2>5
      <3>2. x <= m => \A y \in T : x <= y
        BY <2>2, <2>3, <3>1
      <3>3. m <= x => \A y \in T : m <= y
        BY <2>2, <2>3, <3>1
      <3> QED
        BY <2>2, <2>3, <3>1, <3>2, <3>3
    <2> QED
      BY <2>4, <2>5
  <1>2. \E x \in S : \A y \in S : x <= y
    BY <1>1
  <1>3. Min(S) \in S /\ \A y \in S : Min(S) <= y
    <2> DEFINE P(x) == x \in S /\ \A y \in S : x <= y
    <2>1. Min(S) = CHOOSE x : P(x)
      BY Zenon DEF Min
    <2> QED
      BY <1>2, <2>1
  <1> QED
    BY <1>3

-----------------------------------------------------------------------------
(* What the fold computes.                                                 *)

\* g gives the sum for every subset of S, in whatever order it is added up.
Additive(f, S, g) ==
    /\ g \in [SUBSET S -> Int]
    /\ g[{}] = 0
    /\ \A T \in SUBSET S : \A x \in S \ T : g[T \cup {x}] = f[x] + g[T]

\* Such a function exists: for a larger set, split off the new element.
LEMMA AdditiveExists ==
  ASSUME NEW f, NEW S, IsFiniteSet(S), \A x \in S : f[x] \in Int
  PROVE  \E g : Additive(f, S, g)
  <1> DEFINE Bad == {T \in SUBSET S : ~\E g : Additive(f, T, g)}
  <1>1. SUFFICES ASSUME S \in Bad PROVE FALSE
    OBVIOUS
  <1>2. PICK T \in Bad : \A x \in T : T \ {x} \notin Bad
    BY <1>1, MinimalSubset
  <1>3. CASE T = {}
    <2> DEFINE g == [U \in SUBSET T |-> 0]
    <2>1. Additive(f, T, g)
      BY <1>3 DEF Additive
    <2> QED
      BY <2>1, <1>2
  <1>4. CASE T # {}
    <2>1. PICK x \in T : TRUE
      BY <1>4
    <2> DEFINE R == T \ {x}
    <2>2. PICK g : Additive(f, R, g)
      BY <1>2, <2>1
    <2> DEFINE h == [U \in SUBSET T |-> IF x \in U THEN f[x] + g[U \ {x}] ELSE g[U]]
    <2>3. f[x] \in Int
      BY <1>2
    <2>4. ASSUME NEW U \in SUBSET T PROVE h[U] \in Int
      <3>1. U \ {x} \in SUBSET R /\ (x \notin U => U \in SUBSET R)
        OBVIOUS
      <3> QED
        BY <2>2, <2>3, <3>1 DEF Additive
    <2>5. h[{}] = 0
      BY <2>2 DEF Additive
    <2>6. ASSUME NEW U \in SUBSET T, NEW y \in T \ U
          PROVE  h[U \cup {y}] = f[y] + h[U]
      <3>1. f[y] \in Int
        BY <1>2
      <3>2. CASE y = x
        <4>1. U \in SUBSET R /\ (U \cup {x}) \ {x} = U
          BY <3>2
        <4> QED
          BY <3>2, <4>1
      <3>3. CASE y # x /\ x \in U
        <4>1. U \ {x} \in SUBSET R /\ y \in R \ (U \ {x}) /\ (U \cup {y}) \ {x} = (U \ {x}) \cup {y}
          BY <3>3
        <4>2. g[(U \cup {y}) \ {x}] = f[y] + g[U \ {x}] /\ g[U \ {x}] \in Int
          BY <2>2, <4>1 DEF Additive
        <4> QED
          BY <3>3, <4>2, <3>1, <2>3
      <3>4. CASE y # x /\ x \notin U
        <4>1. U \in SUBSET R /\ y \in R \ U
          BY <3>4
        <4> QED
          BY <3>4, <4>1, <2>2 DEF Additive
      <3> QED
        BY <3>2, <3>3, <3>4
    <2>7. h \in [SUBSET T -> Int]
      BY <2>4
    <2>8. Additive(f, T, h)
      BY <2>5, <2>6, <2>7 DEF Additive
    <2> QED
      BY <2>8, <1>2
  <1> QED
    BY <1>3, <1>4

\* g satisfies the recursion of the fold over S.
Recursion(f, S, g) == g = [s \in SUBSET S |->
    IF s = {} THEN 0 ELSE f[CHOOSE x \in s : TRUE] + g[s \ {CHOOSE x \in s : TRUE}]]

\* The fold is the value of a solution of its recursion, if there is one.
LEMMA SumRecursion ==
  ASSUME NEW f, NEW S
  PROVE  SumOver(f, S) = (CHOOSE g : Recursion(f, S, g))[S]
  BY Zenon DEF SumOver, MapThenSumSet, MapThenFoldSet, Recursion

\* An additive function solves the recursion,
LEMMA AdditiveRecurs ==
  ASSUME NEW f, NEW S, NEW g, Additive(f, S, g)
  PROVE  Recursion(f, S, g)
  <1>1. ASSUME NEW s \in SUBSET S, s # {}
        PROVE  g[s] = f[CHOOSE x \in s : TRUE] + g[s \ {CHOOSE x \in s : TRUE}]
    <2> DEFINE y == CHOOSE x \in s : TRUE
    <2>1. y \in s
      BY <1>1
    <2> HIDE DEF y
    <2>2. (s \ {y}) \cup {y} = s /\ s \ {y} \in SUBSET S /\ y \in S \ (s \ {y})
      BY <2>1
    <2>3. g[s] = f[y] + g[s \ {y}]
      BY <2>2 DEF Additive
    <2> QED
      BY <2>3 DEF y
  <1>2. g = [s \in SUBSET S |-> g[s]] /\ g[{}] = 0
    BY DEF Additive
  <1> QED
    BY <1>1, <1>2, Zenon DEF Recursion

\* and nothing else does.
LEMMA RecursionUnique ==
  ASSUME NEW f, NEW S, IsFiniteSet(S), NEW g, NEW h, Recursion(f, S, g), Recursion(f, S, h)
  PROVE  g = h
  <1> DEFINE Bad == {T \in SUBSET S : g[T] # h[T]}
  <1>1. ASSUME NEW T \in SUBSET S PROVE g[T] = h[T]
    <2>1. SUFFICES ASSUME Bad # {} PROVE FALSE
      OBVIOUS
    <2>2. PICK U \in Bad : \A x \in U : U \ {x} \notin Bad
      BY <2>1, MinimalSubset
    <2> DEFINE y == CHOOSE x \in U : TRUE
    <2>3. U # {} => y \in U
      OBVIOUS
    <2>4. /\ g[U] = IF U = {} THEN 0 ELSE f[y] + g[U \ {y}]
          /\ h[U] = IF U = {} THEN 0 ELSE f[y] + h[U \ {y}]
      BY DEF Recursion
    <2> HIDE DEF y
    <2>5. U # {} => g[U \ {y}] = h[U \ {y}]
      BY <2>2, <2>3
    <2> QED
      BY <2>2, <2>4, <2>5
  <1>2. g = [T \in SUBSET S |-> g[T]] /\ h = [T \in SUBSET S |-> h[T]]
    BY Zenon DEF Recursion
  <1> QED
    BY <1>1, <1>2, Zenon

\* So the fold is what any additive function gives.
LEMMA SumIsAdditive ==
  ASSUME NEW f, NEW S, IsFiniteSet(S), NEW g, Additive(f, S, g)
  PROVE  SumOver(f, S) = g[S]
  <1> DEFINE c == CHOOSE k : Recursion(f, S, k)
  <1>1. Recursion(f, S, g)
    BY AdditiveRecurs
  <1>2. Recursion(f, S, c)
    BY <1>1
  <1> HIDE DEF c
  <1>3. c = g
    BY <1>1, <1>2, RecursionUnique
  <1> QED
    BY <1>3, SumRecursion DEF c

-----------------------------------------------------------------------------
(* Facts to cite.                                                          *)

\* A sum of integers is an integer, the empty sum is zero, and one more element
\* is added to the sum.
LEMMA SumInt ==
  ASSUME NEW f, NEW S, IsFiniteSet(S), \A x \in S : f[x] \in Int
  PROVE  SumOver(f, S) \in Int
  <1>1. PICK g : Additive(f, S, g)
    BY AdditiveExists
  <1>2. g[S] \in Int
    BY <1>1 DEF Additive
  <1> QED
    BY <1>1, <1>2, SumIsAdditive

LEMMA SumEmpty ==
  ASSUME NEW f
  PROVE  SumOver(f, {}) = 0
  <1>1. IsFiniteSet({})
    BY FS_EmptySet
  <1>2. PICK g : Additive(f, {}, g)
    BY <1>1, AdditiveExists
  <1> QED
    BY <1>1, <1>2, SumIsAdditive DEF Additive

LEMMA SumAdd ==
  ASSUME NEW f, NEW S, IsFiniteSet(S), NEW x, x \notin S, \A y \in S \cup {x} : f[y] \in Int
  PROVE  SumOver(f, S \cup {x}) = f[x] + SumOver(f, S)
  <1> DEFINE T == S \cup {x}
  <1>1. IsFiniteSet(T)
    BY FS_AddElement
  <1>2. PICK g : Additive(f, T, g)
    BY <1>1, AdditiveExists
  <1> DEFINE h == [U \in SUBSET S |-> g[U]]
  <1>3. Additive(f, S, h)
    <2>1. ASSUME NEW U \in SUBSET S, NEW y \in S \ U
          PROVE  h[U \cup {y}] = f[y] + h[U]
      <3>1. U \in SUBSET T /\ y \in T \ U /\ U \cup {y} \in SUBSET S
        OBVIOUS
      <3> QED
        BY <1>2, <3>1 DEF Additive
    <2>2. h \in [SUBSET S -> Int] /\ h[{}] = 0
      BY <1>2 DEF Additive
    <2> QED
      BY <2>1, <2>2 DEF Additive
  <1>4. SumOver(f, S) = g[S]
    BY <1>3, SumIsAdditive
  <1>5. SumOver(f, T) = g[T]
    BY <1>1, <1>2, SumIsAdditive
  <1>6. S \in SUBSET T /\ x \in T \ S
    OBVIOUS
  <1>7. g[S \cup {x}] = f[x] + g[S]
    BY <1>2, <1>6 DEF Additive
  <1> QED
    BY <1>4, <1>5, <1>7

\* One element out of the sum.
LEMMA SumRemove ==
  ASSUME NEW f, NEW S, IsFiniteSet(S), NEW x \in S, \A y \in S : f[y] \in Int
  PROVE  SumOver(f, S) = f[x] + SumOver(f, S \ {x})
  <1>1. IsFiniteSet(S \ {x}) /\ (S \ {x}) \cup {x} = S
    BY FS_RemoveElement
  <1> QED
    BY <1>1, SumAdd

LEMMA SumSingleton ==
  ASSUME NEW f, NEW x, f[x] \in Int
  PROVE  SumOver(f, {x}) = f[x]
  <1>1. IsFiniteSet({}) /\ {} \cup {x} = {x}
    BY FS_EmptySet
  <1>2. SumOver(f, {x}) = f[x] + SumOver(f, {})
    BY <1>1, SumAdd
  <1> QED
    BY <1>2, SumEmpty

\* Two summands compared.
LEMMA SumMonotone ==
  ASSUME NEW f, NEW g, NEW S, IsFiniteSet(S),
         \A x \in S : f[x] \in Int /\ g[x] \in Int /\ f[x] <= g[x]
  PROVE  SumOver(f, S) <= SumOver(g, S)
  <1> DEFINE Bad == {T \in SUBSET S : ~(SumOver(f, T) <= SumOver(g, T))}
  <1>1. SUFFICES ASSUME Bad # {} PROVE FALSE
    OBVIOUS
  <1>2. PICK T \in Bad : \A x \in T : T \ {x} \notin Bad
    BY <1>1, MinimalSubset
  <1>3. CASE T = {}
    BY <1>2, <1>3, SumEmpty
  <1>4. CASE T # {}
    <2>1. PICK x \in T : TRUE
      BY <1>4
    <2> DEFINE R == T \ {x}
    <2>2. IsFiniteSet(T) /\ IsFiniteSet(R)
      BY FS_Subset
    <2>3. SumOver(f, T) = f[x] + SumOver(f, R) /\ SumOver(g, T) = g[x] + SumOver(g, R)
      BY <2>1, <2>2, SumRemove
    <2>4. SumOver(f, R) \in Int /\ SumOver(g, R) \in Int
      BY <2>2, SumInt
    <2>5. SumOver(f, R) <= SumOver(g, R)
      BY <1>2, <2>1
    <2>6. f[x] \in Int /\ g[x] \in Int /\ f[x] <= g[x]
      BY <2>1
    <2> HIDE DEF R
    <2> QED
      BY <1>2, <2>3, <2>4, <2>5, <2>6
  <1> QED
    BY <1>3, <1>4

\* Only the summands count.
LEMMA SumSame ==
  ASSUME NEW f, NEW g, NEW S, IsFiniteSet(S), \A x \in S : f[x] \in Int /\ f[x] = g[x]
  PROVE  SumOver(f, S) = SumOver(g, S)
  <1>1. SumOver(f, S) <= SumOver(g, S) /\ SumOver(g, S) <= SumOver(f, S)
    BY SumMonotone
  <1>2. SumOver(f, S) \in Int /\ SumOver(g, S) \in Int
    BY SumInt
  <1> QED
    BY <1>1, <1>2

\* Sums of natural numbers, and of the same number.
LEMMA SumConstant ==
  ASSUME NEW S, IsFiniteSet(S), NEW c \in Int
  PROVE  SumOver([x \in S |-> c], S) = c * Cardinality(S)
  <1> DEFINE f == [x \in S |-> c]
             Bad == {T \in SUBSET S : SumOver(f, T) # c * Cardinality(T)}
  <1>1. SUFFICES ASSUME Bad # {} PROVE FALSE
    OBVIOUS
  <1>2. PICK T \in Bad : \A x \in T : T \ {x} \notin Bad
    BY <1>1, MinimalSubset
  <1>3. CASE T = {}
    BY <1>2, <1>3, SumEmpty, FS_EmptySet
  <1>4. CASE T # {}
    <2>1. PICK x \in T : TRUE
      BY <1>4
    <2> DEFINE R == T \ {x}
    <2>2. IsFiniteSet(T)
      BY FS_Subset
    <2>3. IsFiniteSet(R) /\ Cardinality(R) = Cardinality(T) - 1
      BY <2>1, <2>2, FS_RemoveElement
    <2>4. Cardinality(T) \in Nat
      BY <2>2, FS_CardinalityType
    <2>5. SumOver(f, T) = f[x] + SumOver(f, R)
      BY <2>1, <2>2, SumRemove
    <2>6. f[x] = c /\ SumOver(f, R) = c * Cardinality(R)
      BY <1>2, <2>1
    <2>7. c * (Cardinality(T) - 1) = c * Cardinality(T) - c
      BY <2>4
    <2>8. c * Cardinality(T) \in Int
      BY <2>4
    <2> HIDE DEF R, f
    <2> QED
      BY <1>2, <2>3, <2>5, <2>6, <2>7, <2>8
  <1> QED
    BY <1>3, <1>4

LEMMA SumNat ==
  ASSUME NEW f, NEW S, IsFiniteSet(S), \A x \in S : f[x] \in Nat
  PROVE  SumOver(f, S) \in Nat
  <1> DEFINE zero == [x \in S |-> 0]
  <1>0. 0 \in Int
    OBVIOUS
  <1>1. SumOver(zero, S) = 0 * Cardinality(S)
    BY <1>0, SumConstant, Zenon
  <1>2. Cardinality(S) \in Nat
    BY FS_CardinalityType
  <1>3. SumOver(zero, S) = 0
    BY <1>1, <1>2
  <1>4. SumOver(zero, S) <= SumOver(f, S)
    BY SumMonotone
  <1>5. SumOver(f, S) \in Int
    BY SumInt
  <1> QED
    BY <1>3, <1>4, <1>5

\* What is not in the set adds nothing, so that a sum over a part is a sum over
\* the whole.
LEMMA SumOfPart ==
  ASSUME NEW f, NEW S, IsFiniteSet(S), NEW T, T \subseteq S, \A x \in T : f[x] \in Int
  PROVE  SumOver([x \in S |-> IF x \in T THEN f[x] ELSE 0], S) = SumOver(f, T)
  <1> DEFINE g == [x \in S |-> IF x \in T THEN f[x] ELSE 0]
             Bad == {U \in SUBSET S : SumOver(g, U) # SumOver(f, U \cap T)}
  <1>1. SUFFICES ASSUME Bad # {} PROVE FALSE
    <2>1. S \cap T = T
      OBVIOUS
    <2>2. Bad = {} => SumOver(g, S) = SumOver(f, S \cap T)
      OBVIOUS
    <2> HIDE DEF Bad, g
    <2> QED
      BY <2>1, <2>2 DEF g
  <1>2. PICK U \in Bad : \A x \in U : U \ {x} \notin Bad
    BY <1>1, MinimalSubset
  <1>3. CASE U = {}
    <2>1. U \cap T = {}
      BY <1>3
    <2> QED
      BY <1>2, <1>3, <2>1, SumEmpty
  <1>4. CASE U # {}
    <2>1. PICK x \in U : TRUE
      BY <1>4
    <2> DEFINE R == U \ {x}
    <2>2. IsFiniteSet(U) /\ IsFiniteSet(U \cap T)
      BY FS_Subset
    <2>3. \A y \in S : g[y] \in Int
      OBVIOUS
    <2>4. SumOver(g, U) = g[x] + SumOver(g, R) /\ SumOver(g, R) \in Int
      <3> HIDE DEF g
      <3>1. IsFiniteSet(R)
        BY FS_Subset
      <3> QED
        BY <2>1, <2>2, <2>3, <3>1, SumRemove, SumInt
    <2>5. SumOver(g, R) = SumOver(f, R \cap T) /\ SumOver(g, U) # SumOver(f, U \cap T)
      BY <1>2, <2>1
    <2>6. CASE x \in T
      <3>1. g[x] = f[x] /\ x \in U \cap T /\ (U \cap T) \ {x} = R \cap T
        BY <2>1, <2>6
      <3>2. SumOver(f, U \cap T) = f[x] + SumOver(f, (U \cap T) \ {x})
        BY <2>2, <3>1, SumRemove
      <3> HIDE DEF R, g, Bad
      <3> QED
        BY <2>4, <2>5, <3>1, <3>2
    <2>7. CASE x \notin T
      <3>1. g[x] = 0 /\ U \cap T = R \cap T
        BY <2>1, <2>7
      <3> HIDE DEF R, g, Bad
      <3> QED
        BY <2>4, <2>5, <3>1
    <2> QED
      BY <2>6, <2>7
  <1> QED
    BY <1>3, <1>4

\* Adding up two summands at a time.
LEMMA SumPlus ==
  ASSUME NEW f, NEW g, NEW S, IsFiniteSet(S), \A x \in S : f[x] \in Int /\ g[x] \in Int
  PROVE  SumOver([x \in S |-> f[x] + g[x]], S) = SumOver(f, S) + SumOver(g, S)
  <1> DEFINE h == [x \in S |-> f[x] + g[x]]
             Bad == {T \in SUBSET S : SumOver(h, T) # SumOver(f, T) + SumOver(g, T)}
  <1>1. SUFFICES ASSUME Bad # {} PROVE FALSE
    OBVIOUS
  <1>2. PICK T \in Bad : \A x \in T : T \ {x} \notin Bad
    BY <1>1, MinimalSubset
  <1>3. CASE T = {}
    BY <1>2, <1>3, SumEmpty
  <1>4. CASE T # {}
    <2>1. PICK x \in T : TRUE
      BY <1>4
    <2> DEFINE R == T \ {x}
    <2>2. IsFiniteSet(T) /\ IsFiniteSet(R)
      BY FS_Subset
    <2>3. \A y \in S : h[y] = f[y] + g[y] /\ h[y] \in Int
      OBVIOUS
    <2> HIDE DEF h
    <2>4. /\ SumOver(f, T) = f[x] + SumOver(f, R) /\ SumOver(f, R) \in Int
          /\ SumOver(g, T) = g[x] + SumOver(g, R) /\ SumOver(g, R) \in Int
          /\ SumOver(h, T) = h[x] + SumOver(h, R)
      BY <2>1, <2>2, <2>3, SumRemove, SumInt
    <2>5. SumOver(h, R) = SumOver(f, R) + SumOver(g, R)
      BY <1>2, <2>1
    <2>6. h[x] = f[x] + g[x] /\ f[x] \in Int /\ g[x] \in Int
      BY <2>1, <2>3
    <2>7. SumOver(h, T) # SumOver(f, T) + SumOver(g, T)
      BY <1>2
    <2> HIDE DEF R, Bad
    <2> QED
      BY <2>4, <2>5, <2>6, <2>7
  <1> QED
    BY <1>3, <1>4

\* Another summand for one element.
LEMMA SumChange ==
  ASSUME NEW f, NEW g, NEW S, IsFiniteSet(S), \A y \in S : f[y] \in Int /\ g[y] \in Int,
         NEW x \in S, \A y \in S \ {x} : f[y] = g[y]
  PROVE  SumOver(g, S) = SumOver(f, S) - f[x] + g[x]
  <1> DEFINE R == S \ {x}
  <1>1. IsFiniteSet(R)
    BY FS_RemoveElement
  <1>2. SumOver(f, R) = SumOver(g, R) /\ SumOver(f, R) \in Int
    BY <1>1, SumSame, SumInt
  <1>3. SumOver(f, S) = f[x] + SumOver(f, R) /\ SumOver(g, S) = g[x] + SumOver(g, R)
    BY SumRemove
  <1> HIDE DEF R
  <1> QED
    BY <1>2, <1>3
=============================================================================
