-------------------------------- MODULE Sums --------------------------------
(***************************************************************************)
(* Facts about SumFunction, the sum that the models take over the rows of  *)
(* a table, and the two inductions they rest on.  The induction theorems   *)
(* of the library take an operator; these take a set.                      *)
(***************************************************************************)
EXTENDS Integers, FiniteSets, Functions, FiniteSetTheorems, WellFoundedInduction, TLAPS

-----------------------------------------------------------------------------
(* Induction.                                                              *)

\* The order of the natural numbers, as a relation.
LEMMA LessThanRelation ==
    \E R : IsWellFoundedOn(R, Nat) /\ \A x, y \in Nat : x < y => <<x, y>> \in R
<1>1. IsWellFoundedOn(OpToRel(<, Nat), Nat)
  BY NatLessThanWellFounded
<1>2. \A x, y \in Nat : x < y => <<x, y>> \in OpToRel(<, Nat)
  BY DEF OpToRel
<1> QED
  BY <1>1, <1>2, Zenon

LEMMA LeastNatural ==
    ASSUME NEW T, T \subseteq Nat, T # {}
    PROVE  \E x \in T : \A y \in T : x <= y
<1>1. PICK R : IsWellFoundedOn(R, Nat) /\ \A x, y \in Nat : x < y => <<x, y>> \in R
  BY LessThanRelation
<1>2. PICK x \in T : \A y \in T : ~(<<y, x>> \in R)
  <2>1. T \in SUBSET Nat /\ T \subseteq T
    OBVIOUS
  <2>2. IsWellFoundedOn(R, T)
    BY <1>1, <2>1, IsWellFoundedOnSubset
  <2> QED
    BY <2>1, <2>2, WFMin
<1>3. ASSUME NEW y \in T PROVE x <= y
  <2>1. ~(<<y, x>> \in R) /\ y \in Nat /\ x \in Nat
    BY <1>2
  <2>2. ~(y < x)
    BY <1>1, <2>1
  <2> QED
    BY <2>1, <2>2
<1> QED
  BY <1>3

\* Induction over the natural numbers, for a set of them.
LEMMA NatSetInduction ==
    ASSUME NEW S, 0 \in S, \A n \in Nat : n \in S => n + 1 \in S
    PROVE  Nat \subseteq S
<1> SUFFICES ASSUME Nat \ S # {}
             PROVE  FALSE
  OBVIOUS
<1>1. PICK m \in Nat \ S : \A n \in Nat \ S : m <= n
  BY LeastNatural
<1>2. m # 0 /\ m - 1 \in Nat
  BY <1>1
<1>3. m - 1 \in S
  BY <1>1, <1>2
<1> QED
  BY <1>1, <1>2, <1>3

\* The element of s that a fold takes first, and the rest.
First(s) == CHOOSE x \in s : TRUE
Rest(s) == s \ {First(s)}

LEMMA FirstAndRest ==
    ASSUME NEW D, IsFiniteSet(D), NEW s \in SUBSET D, s # {}
    PROVE  /\ First(s) \in s /\ First(s) \in D
           /\ Rest(s) \in SUBSET D
           /\ Cardinality(s) \in Nat
           /\ Cardinality(Rest(s)) \in Nat
           /\ Cardinality(s) = Cardinality(Rest(s)) + 1
<1>1. First(s) \in s
  BY DEF First
<1>2. IsFiniteSet(s)
  BY FS_Subset
<1>3. Cardinality(s) \in Nat /\ Cardinality(Rest(s)) = Cardinality(s) - 1 /\ IsFiniteSet(Rest(s))
  BY <1>1, <1>2, FS_RemoveElement, FS_CardinalityType DEF Rest
<1>4. Cardinality(Rest(s)) \in Nat
  BY <1>3, FS_CardinalityType
<1> QED
  BY <1>1, <1>3, <1>4 DEF Rest

\* Induction over the subsets of a finite set, in the order of a fold.
LEMMA SubsetInduction ==
    ASSUME NEW D, IsFiniteSet(D), NEW T, {} \in T,
           \A s \in SUBSET D : s # {} /\ Rest(s) \in T => s \in T
    PROVE  SUBSET D \subseteq T
<1> DEFINE S == {n \in Nat : \A s \in SUBSET D : Cardinality(s) = n => s \in T}
<1>1. 0 \in S
  <2>1. ASSUME NEW s \in SUBSET D, Cardinality(s) = 0 PROVE s = {}
    BY <2>1, FS_Subset, FS_EmptySet
  <2> QED
    BY <2>1
<1>2. ASSUME NEW n \in Nat, n \in S PROVE n + 1 \in S
  <2>1. ASSUME NEW s \in SUBSET D, Cardinality(s) = n + 1 PROVE s \in T
    <3>1. s # {}
      BY <2>1, FS_EmptySet
    <3>2. Rest(s) \in SUBSET D /\ Cardinality(Rest(s)) = n
      BY <2>1, <3>1, FirstAndRest
    <3> QED
      BY <1>2, <3>1, <3>2
  <2> QED
    BY <2>1
<1>3. Nat \subseteq S
  <2> HIDE DEF S
  <2> QED
    BY <1>1, <1>2, NatSetInduction
<1>4. ASSUME NEW s \in SUBSET D PROVE s \in T
  <2>1. Cardinality(s) \in Nat
    BY FS_Subset, FS_CardinalityType
  <2>2. Cardinality(s) \in S
    BY <1>3, <2>1
  <2> QED
    BY <2>2
<1> QED
  BY <1>4

-----------------------------------------------------------------------------
(* The recursion of the sum.                                               *)

\* sums gives every subset of the domain of f the sum over it.
IsSumOf(sums, f) ==
    sums = [s \in SUBSET DOMAIN f |->
               IF s = {} THEN 0 ELSE f[First(s)] + sums[Rest(s)]]

\* The recursion has a solution: one for the sets of up to n elements, for every n.
LEMMA SumExists ==
    ASSUME NEW D, IsFiniteSet(D), NEW f \in [D -> Int]
    PROVE  \E sums : IsSumOf(sums, f)
<1> DEFINE Value(g, s) == IF s = {} THEN 0 ELSE f[First(s)] + g[Rest(s)]
           UpTo(g, n) == \A s \in SUBSET D : Cardinality(s) <= n => g[s] = Value(g, s)
           S == {n \in Nat : \E g : UpTo(g, n)}
<1>1. 0 \in S
  <2> DEFINE g == [s \in SUBSET D |-> 0]
  <2>1. ASSUME NEW s \in SUBSET D, Cardinality(s) <= 0 PROVE g[s] = Value(g, s)
    <3>1. s = {}
      BY <2>1, FirstAndRest
    <3> QED
      BY <3>1
  <2>2. UpTo(g, 0)
    BY <2>1
  <2> QED
    BY <2>2
<1>2. ASSUME NEW n \in Nat, n \in S PROVE n + 1 \in S
  <2>1. PICK g : UpTo(g, n)
    BY <1>2
  <2> DEFINE h == [s \in SUBSET D |-> IF Cardinality(s) <= n THEN g[s] ELSE Value(g, s)]
  <2>2. ASSUME NEW s \in SUBSET D, Cardinality(s) <= n + 1 PROVE h[s] = Value(h, s)
    <3>1. CASE s = {}
      <4>1. Cardinality(s) <= n
        BY <3>1, FS_EmptySet
      <4>2. h[s] = g[s]
        BY <4>1
      <4> QED
        BY <2>1, <3>1, <4>1, <4>2
    <3>2. CASE s # {}
      <4>1. /\ Rest(s) \in SUBSET D /\ Cardinality(Rest(s)) <= n
            /\ Cardinality(s) \in Nat
        BY <2>2, <3>2, FirstAndRest
      <4>2. h[Rest(s)] = g[Rest(s)]
        BY <4>1
      <4>3. h[s] = Value(g, s)
        BY <2>1, <4>1
      <4> QED
        BY <4>2, <4>3, <3>2
    <3> QED
      BY <3>1, <3>2
  <2>3. UpTo(h, n + 1)
    BY <2>2
  <2> HIDE DEF h, UpTo
  <2> QED
    BY <2>3
<1>3. Nat \subseteq S
  <2> HIDE DEF S
  <2> QED
    BY <1>1, <1>2, NatSetInduction
<1>4. Cardinality(D) \in Nat
  BY FS_CardinalityType
<1>5. Cardinality(D) \in S
  BY <1>3, <1>4
<1>6. PICK g : UpTo(g, Cardinality(D))
  BY <1>5
<1> DEFINE sums == [s \in SUBSET D |-> g[s]]
<1>7. ASSUME NEW s \in SUBSET D PROVE sums[s] = Value(sums, s)
  <2>1. Cardinality(s) <= Cardinality(D)
    BY FS_Subset, FS_CardinalityType
  <2>2. g[s] = Value(g, s)
    BY <1>6, <2>1
  <2>3. s # {} => Rest(s) \in SUBSET D
    BY DEF Rest
  <2> QED
    BY <2>2, <2>3
<1>8. sums = [s \in SUBSET D |-> Value(sums, s)]
  <2> HIDE DEF Value
  <2> QED
    BY <1>7
<1>9. DOMAIN f = D
  OBVIOUS
<1>10. IsSumOf(sums, f)
  BY <1>8, <1>9 DEF IsSumOf
<1> QED
  BY <1>10

LEMMA SumUnfold ==
    ASSUME NEW f
    PROVE  SumFunction(f) = (CHOOSE sums : IsSumOf(sums, f))[DOMAIN f]
BY DEF SumFunction, SumFunctionOnSet, FoldFunctionOnSet, MapThenFoldSet, IsSumOf, First, Rest

\* sums gives every subset of D the sum of f over it, and D that of f.
Accumulates(sums, f, D) ==
    /\ SumFunction(f) = sums[D]
    /\ sums[{}] = 0
    /\ \A s \in SUBSET D : s # {} => sums[s] = f[First(s)] + sums[Rest(s)]
    /\ \A s \in SUBSET D : sums[s] \in Int

\* The sum over a finite table of integers is what its recursion says.
LEMMA SumAccumulates ==
    ASSUME NEW D, IsFiniteSet(D), NEW f \in [D -> Int]
    PROVE  \E sums : Accumulates(sums, f, D)
<1> DEFINE sums == CHOOSE g : IsSumOf(g, f)
<1>1. IsSumOf(sums, f)
  BY SumExists
<1>2. SumFunction(f) = sums[D]
  BY SumUnfold
<1> HIDE DEF sums
<1>3. \A s \in SUBSET D : sums[s] = IF s = {} THEN 0 ELSE f[First(s)] + sums[Rest(s)]
  BY <1>1 DEF IsSumOf
<1>4. SUBSET D \subseteq {s \in SUBSET D : sums[s] \in Int}
  <2> DEFINE T == {s \in SUBSET D : sums[s] \in Int}
  <2>1. {} \in T
    BY <1>3
  <2>2. ASSUME NEW s \in SUBSET D, s # {}, Rest(s) \in T PROVE s \in T
    <3>1. First(s) \in D /\ sums[Rest(s)] \in Int /\ sums[s] = f[First(s)] + sums[Rest(s)]
      BY <1>3, <2>2, FirstAndRest
    <3>2. f[First(s)] \in Int
      BY <3>1
    <3>3. sums[s] \in Int
      BY <3>1, <3>2
    <3> QED
      BY <3>3
  <2> HIDE DEF T
  <2>3. SUBSET D \subseteq T
    BY <2>1, <2>2, SubsetInduction
  <2> QED
    BY <2>3 DEF T
<1> QED
  BY <1>2, <1>3, <1>4 DEF Accumulates

-----------------------------------------------------------------------------
(* What the models need to know of sums.                                   *)

LEMMA SumIsNatural ==
    ASSUME NEW D, IsFiniteSet(D), NEW f \in [D -> Nat]
    PROVE  SumFunction(f) \in Nat
<1>1. f \in [D -> Int]
  OBVIOUS
<1>2. PICK sums : Accumulates(sums, f, D)
  BY <1>1, SumAccumulates
<1> DEFINE T == {s \in SUBSET D : sums[s] \in Nat}
<1>3. {} \in T
  BY <1>2 DEF Accumulates
<1>4. ASSUME NEW s \in SUBSET D, s # {}, Rest(s) \in T PROVE s \in T
  BY <1>2, <1>4, FirstAndRest DEF Accumulates
<1>5. SUBSET D \subseteq T
  <2> HIDE DEF T
  <2> QED
    BY <1>3, <1>4, SubsetInduction
<1> QED
  BY <1>2, <1>5 DEF Accumulates

LEMMA SumOfZeros ==
    ASSUME NEW D, IsFiniteSet(D)
    PROVE  SumFunction([x \in D |-> 0]) = 0
<1> DEFINE f == [x \in D |-> 0]
<1>1. f \in [D -> Int]
  OBVIOUS
<1>2. PICK sums : Accumulates(sums, f, D)
  BY <1>1, SumAccumulates
<1> DEFINE T == {s \in SUBSET D : sums[s] = 0}
<1>3. {} \in T
  BY <1>2 DEF Accumulates
<1>4. ASSUME NEW s \in SUBSET D, s # {}, Rest(s) \in T PROVE s \in T
  BY <1>2, <1>4, FirstAndRest DEF Accumulates
<1>5. SUBSET D \subseteq T
  <2> HIDE DEF T
  <2> QED
    BY <1>3, <1>4, SubsetInduction
<1> QED
  BY <1>2, <1>5 DEF Accumulates

\* No term larger, no sum larger.
LEMMA SumMonotone ==
    ASSUME NEW D, IsFiniteSet(D), NEW f \in [D -> Int], NEW g \in [D -> Int],
           \A x \in D : f[x] <= g[x]
    PROVE  SumFunction(f) <= SumFunction(g)
<1>1. PICK fs : Accumulates(fs, f, D)
  BY SumAccumulates
<1>2. PICK gs : Accumulates(gs, g, D)
  BY SumAccumulates
<1> DEFINE T == {s \in SUBSET D : fs[s] <= gs[s]}
<1>3. {} \in T
  BY <1>1, <1>2 DEF Accumulates
<1>4. ASSUME NEW s \in SUBSET D, s # {}, Rest(s) \in T PROVE s \in T
  <2>1. First(s) \in D /\ Rest(s) \in SUBSET D
    BY <1>4, FirstAndRest
  <2>2. f[First(s)] \in Int /\ g[First(s)] \in Int /\ fs[Rest(s)] \in Int /\ gs[Rest(s)] \in Int
    BY <1>1, <1>2, <2>1 DEF Accumulates
  <2> QED
    BY <1>1, <1>2, <1>4, <2>1, <2>2 DEF Accumulates
<1>5. SUBSET D \subseteq T
  <2> HIDE DEF T
  <2> QED
    BY <1>3, <1>4, SubsetInduction
<1> QED
  BY <1>1, <1>2, <1>5 DEF Accumulates

\* Tables that differ in one place differ by that much in their sums.
LEMMA SumOfChange ==
    ASSUME NEW D, IsFiniteSet(D), NEW f \in [D -> Int], NEW g \in [D -> Int],
           NEW x \in D, \A y \in D : y # x => g[y] = f[y]
    PROVE  SumFunction(g) = SumFunction(f) - f[x] + g[x]
<1>1. PICK fs : Accumulates(fs, f, D)
  BY SumAccumulates
<1>2. PICK gs : Accumulates(gs, g, D)
  BY SumAccumulates
<1> DEFINE T == {s \in SUBSET D : gs[s] = fs[s] + (IF x \in s THEN g[x] - f[x] ELSE 0)}
<1>3. {} \in T
  BY <1>1, <1>2 DEF Accumulates
<1>4. ASSUME NEW s \in SUBSET D, s # {}, Rest(s) \in T PROVE s \in T
  <2>1. First(s) \in D /\ First(s) \in s /\ Rest(s) \in SUBSET D
    BY <1>4, FirstAndRest
  <2>2. f[First(s)] \in Int /\ g[First(s)] \in Int /\ fs[Rest(s)] \in Int /\ gs[Rest(s)] \in Int
        /\ f[x] \in Int /\ g[x] \in Int
    BY <1>1, <1>2, <2>1 DEF Accumulates
  <2>3. gs[s] = g[First(s)] + gs[Rest(s)] /\ fs[s] = f[First(s)] + fs[Rest(s)]
    BY <1>1, <1>2, <1>4 DEF Accumulates
  <2>4. gs[Rest(s)] = fs[Rest(s)] + (IF x \in Rest(s) THEN g[x] - f[x] ELSE 0)
    BY <1>4
  <2>5. CASE First(s) = x
    <3>1. x \notin Rest(s) /\ x \in s
      BY <2>1, <2>5 DEF Rest
    <3> QED
      BY <2>2, <2>3, <2>4, <2>5, <3>1
  <2>6. CASE First(s) # x
    <3>1. x \in Rest(s) <=> x \in s
      BY <2>6 DEF Rest
    <3>2. g[First(s)] = f[First(s)]
      BY <2>1, <2>6
    <3> QED
      BY <2>2, <2>3, <2>4, <3>1, <3>2
  <2> QED
    BY <2>5, <2>6
<1>5. SUBSET D \subseteq T
  <2> HIDE DEF T
  <2> QED
    BY <1>3, <1>4, SubsetInduction
<1>6. f[x] \in Int /\ g[x] \in Int /\ fs[D] \in Int /\ gs[D] \in Int
  BY <1>1, <1>2 DEF Accumulates
<1> QED
  BY <1>1, <1>2, <1>5, <1>6 DEF Accumulates

-----------------------------------------------------------------------------
(* Folds of sequences.  FoldLeft recurs over the sets of indices and takes *)
(* the largest first.                                                      *)

Largest(s) == CHOOSE x \in s : \A y \in s : x >= y
Lower(s) == s \ {Largest(s)}

LEMMA LargestOfInterval ==
    ASSUME NEW i \in Nat, i # 0
    PROVE  Largest(1 .. i) = i /\ Lower(1 .. i) = 1 .. (i - 1)
<1>1. i \in 1 .. i /\ \A y \in 1 .. i : i >= y
  OBVIOUS
<1>2. ASSUME NEW x \in 1 .. i, \A y \in 1 .. i : x >= y PROVE x = i
  BY <1>2
<1>3. Largest(1 .. i) = i
  BY <1>1, <1>2 DEF Largest
<1> QED
  BY <1>3 DEF Lower

\* Every nonempty set of indices has a largest one.
LEMMA LargestIndex ==
    ASSUME NEW n \in Nat, NEW s \in SUBSET (1 .. n), s # {}
    PROVE  /\ Largest(s) \in s /\ Largest(s) \in 1 .. n
           /\ Lower(s) \in SUBSET (1 .. n)
           /\ Lower(s) \in SUBSET (1 .. (Largest(s) - 1))
<1> DEFINE T == {n - x : x \in s}
<1>1. T \subseteq Nat /\ T # {}
  OBVIOUS
<1>2. PICK t \in T : \A u \in T : t <= u
  BY <1>1, LeastNatural
<1>3. PICK x \in s : t = n - x
  BY <1>2
<1>4. \A y \in s : x >= y
  <2>1. ASSUME NEW y \in s PROVE x >= y
    <3>1. n - y \in T
      OBVIOUS
    <3>2. t <= n - y
      BY <1>2, <3>1
    <3> QED
      BY <1>3, <3>2
  <2> QED
    BY <2>1
<1>5. Largest(s) \in s /\ \A y \in s : Largest(s) >= y
  <2> HIDE DEF T
  <2> QED
    BY <1>4 DEF Largest
<1>6. ASSUME NEW y \in Lower(s) PROVE y \in 1 .. (Largest(s) - 1)
  <2>1. y \in s /\ y # Largest(s)
    BY DEF Lower
  <2>2. y \in 1 .. n /\ Largest(s) \in 1 .. n /\ Largest(s) >= y
    BY <1>5, <2>1
  <2> QED
    BY <2>1, <2>2
<1> QED
  BY <1>5, <1>6 DEF Lower

\* folds gives every set of indices the fold over it; step takes an index and what
\* the lower ones have come to.
IsFold(folds, n, base, step, V) ==
    /\ folds \in [SUBSET (1 .. n) -> V]
    /\ folds = [s \in SUBSET (1 .. n) |->
                   IF s = {} THEN base ELSE step[<<Largest(s), folds[Lower(s)]>>]]

\* The recursion has a solution: one for the indices up to m, for every m.
LEMMA FoldExists ==
    ASSUME NEW n \in Nat, NEW V, NEW base \in V, NEW step \in [(1 .. n) \X V -> V]
    PROVE  \E folds : IsFold(folds, n, base, step, V)
<1> DEFINE D == 1 .. n
           Value(g, s) == IF s = {} THEN base ELSE step[<<Largest(s), g[Lower(s)]>>]
           UpTo(g, m) == \A s \in SUBSET D : s \subseteq 1 .. m => g[s] = Value(g, s) /\ g[s] \in V
           S == {m \in Nat : \E g : UpTo(g, m)}
<1>0. ASSUME NEW s \in SUBSET D, s # {}, NEW g, g[Lower(s)] \in V PROVE Value(g, s) \in V
  <2>1. Largest(s) \in D
    BY <1>0, LargestIndex
  <2> QED
    BY <1>0, <2>1
<1>1. 0 \in S
  <2> DEFINE g == [s \in SUBSET D |-> base]
  <2>1. ASSUME NEW s \in SUBSET D, s \subseteq 1 .. 0 PROVE g[s] = Value(g, s) /\ g[s] \in V
    <3>1. s = {}
      BY <2>1
    <3> QED
      BY <3>1
  <2>2. UpTo(g, 0)
    BY <2>1
  <2> QED
    BY <2>2
<1>2. ASSUME NEW m \in Nat, m \in S PROVE m + 1 \in S
  <2>1. PICK g : UpTo(g, m)
    BY <1>2
  <2> DEFINE h == [s \in SUBSET D |-> IF s \subseteq 1 .. m THEN g[s] ELSE Value(g, s)]
  <2>2. ASSUME NEW s \in SUBSET D, s \subseteq 1 .. (m + 1)
        PROVE  h[s] = Value(h, s) /\ h[s] \in V
    <3>1. CASE s = {}
      <4>1. h[s] = g[s] /\ g[s] = base
        BY <2>1, <3>1
      <4> QED
        BY <3>1, <4>1
    <3>2. CASE s # {}
      <4>1. Lower(s) \in SUBSET D /\ Lower(s) \subseteq 1 .. m
        <5>1. /\ Lower(s) \in SUBSET D /\ Lower(s) \in SUBSET (1 .. (Largest(s) - 1))
              /\ Largest(s) \in s
          BY <3>2, LargestIndex
        <5>2. Largest(s) \in 1 .. (m + 1)
          BY <2>2, <5>1
        <5>3. 1 .. (Largest(s) - 1) \subseteq 1 .. m
          BY <5>2
        <5> QED
          BY <5>1, <5>3
      <4>2. h[Lower(s)] = g[Lower(s)] /\ g[Lower(s)] \in V
        BY <2>1, <4>1
      <4>3. h[s] = Value(g, s)
        BY <2>1
      <4>4. Value(g, s) \in V
        BY <1>0, <3>2, <4>2
      <4> QED
        BY <3>2, <4>2, <4>3, <4>4
    <3> QED
      BY <3>1, <3>2
  <2>3. UpTo(h, m + 1)
    BY <2>2
  <2> HIDE DEF h, UpTo
  <2> QED
    BY <2>3
<1>3. n \in S
  <2> HIDE DEF S
  <2> QED
    BY <1>1, <1>2, NatSetInduction
<1>4. PICK g : UpTo(g, n)
  BY <1>3
<1> DEFINE folds == [s \in SUBSET D |-> g[s]]
<1>5. ASSUME NEW s \in SUBSET D PROVE folds[s] = Value(folds, s) /\ folds[s] \in V
  <2>1. g[s] = Value(g, s) /\ g[s] \in V
    BY <1>4
  <2>2. s # {} => Lower(s) \in SUBSET D
    BY DEF Lower
  <2> QED
    BY <2>1, <2>2
<1>6. folds = [s \in SUBSET D |-> Value(folds, s)] /\ folds \in [SUBSET D -> V]
  <2> HIDE DEF Value
  <2> QED
    BY <1>5
<1>7. IsFold(folds, n, base, step, V)
  BY <1>6 DEF IsFold
<1> QED
  BY <1>7

\* prefixes gives the fold over each prefix.
ArePrefixFolds(prefixes, n, base, step, V) ==
    /\ prefixes \in [0 .. n -> V]
    /\ prefixes[0] = base
    /\ \A i \in 1 .. n : prefixes[i] = step[<<i, prefixes[i - 1]>>]

\* value is the fold over all the indices.
FoldsTo(value, n, base, step, V) ==
    \E prefixes : ArePrefixFolds(prefixes, n, base, step, V) /\ prefixes[n] = value

\* g recurs as a fold does, as far as its values are in V.
Recurs(g, n, base, step, V) ==
    /\ g[{}] = base
    /\ \A s \in SUBSET (1 .. n) : s # {} /\ g[Lower(s)] \in V =>
                                      g[s] = step[<<Largest(s), g[Lower(s)]>>]

\* What recurs as a fold does goes through the prefixes.
LEMMA FoldOfPrefixes ==
    ASSUME NEW n \in Nat, NEW V, NEW base \in V, NEW step \in [(1 .. n) \X V -> V],
           NEW g, Recurs(g, n, base, step, V)
    PROVE  FoldsTo(g[1 .. n], n, base, step, V)
<1> DEFINE prefixes == [i \in 0 .. n |-> g[1 .. i]]
           S == {i \in Nat : i <= n => g[1 .. i] \in V}
<1> USE DEF Recurs
<1>1. g[1 .. 0] = base
  <2>1. 1 .. 0 = {}
    OBVIOUS
  <2> QED
    BY <2>1
<1>2. ASSUME NEW i \in 1 .. n, g[1 .. (i - 1)] \in V
      PROVE  g[1 .. i] = step[<<i, g[1 .. (i - 1)]>>] /\ g[1 .. i] \in V
  <2>1. Largest(1 .. i) = i /\ Lower(1 .. i) = 1 .. (i - 1)
    BY LargestOfInterval
  <2>2. 1 .. i \in SUBSET (1 .. n) /\ 1 .. i # {}
    OBVIOUS
  <2>3. g[1 .. i] = step[<<i, g[1 .. (i - 1)]>>]
    BY <1>2, <2>1, <2>2
  <2> QED
    BY <1>2, <2>3
<1>3. 0 \in S
  BY <1>1
<1>4. ASSUME NEW i \in Nat, i \in S PROVE i + 1 \in S
  <2>1. ASSUME i + 1 <= n PROVE g[1 .. (i + 1)] \in V
    <3>1. i + 1 \in 1 .. n /\ (i + 1) - 1 = i /\ g[1 .. i] \in V
      BY <1>4, <2>1
    <3> QED
      BY <1>2, <3>1
  <2> QED
    BY <2>1
<1>5. Nat \subseteq S
  <2> HIDE DEF S
  <2> QED
    BY <1>3, <1>4, NatSetInduction
<1>6. ASSUME NEW i \in 0 .. n PROVE g[1 .. i] \in V
  BY <1>5
<1>7. prefixes \in [0 .. n -> V] /\ prefixes[0] = base /\ prefixes[n] = g[1 .. n]
  BY <1>1, <1>6
<1>8. ASSUME NEW i \in 1 .. n PROVE prefixes[i] = step[<<i, prefixes[i - 1]>>]
  <2>1. i - 1 \in 0 .. n /\ i \in 0 .. n
    OBVIOUS
  <2> QED
    BY <1>2, <1>6, <2>1
<1>9. ArePrefixFolds(prefixes, n, base, step, V)
  <2> HIDE DEF prefixes
  <2> QED
    BY <1>7, <1>8 DEF ArePrefixFolds
<1> QED
  BY <1>7, <1>9 DEF FoldsTo
=============================================================================
