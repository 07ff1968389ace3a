----------------------------- MODULE SetLemmas -----------------------------
(***************************************************************************)
(* Facts about natural numbers, finite sets, sums and places that the      *)
(* proofs of several components use.  The induction principles are stated  *)
(* with sets, so that they can be cited: to prove P of every natural       *)
(* number, take for Good the set of those of which P holds.                *)
(***************************************************************************)
EXTENDS Integers, Functions, FiniteSetTheorems, WellFoundedInduction, TLAPS

-----------------------------------------------------------------------------
(* Induction.                                                              *)

\* A set of natural numbers that is not empty has a least element.
LEMMA LeastNatural ==
  ASSUME NEW T, T \subseteq Nat, T # {}
  PROVE  \E x \in T : \A y \in T : x <= y
<1> DEFINE R == OpToRel(<, Nat)
<1>1. IsWellFoundedOn(R, Nat)
  BY NatLessThanWellFounded
<1>2. \A x, y \in Nat : x < y => <<x, y>> \in R
  BY DEF OpToRel
<1> HIDE DEF R
<1>3. PICK x \in T : \A y \in T : ~ (<<y, x>> \in R)
  BY <1>1, WFMin
<1>4. ASSUME NEW y \in T PROVE x <= y
  <2>1. x \in Nat /\ y \in Nat
    OBVIOUS
  <2>2. ~ (y < x)
    BY <1>2, <1>3, <2>1
  <2> QED  BY <2>1, <2>2
<1> QED  BY <1>4

\* Induction over the natural numbers.
LEMMA NumbersOneByOne ==
  ASSUME NEW Good, 0 \in Good, \A n \in Nat : n \in Good => n + 1 \in Good
  PROVE  Nat \subseteq Good
<1> DEFINE Bad == Nat \ Good
<1>1. SUFFICES ASSUME Bad # {} PROVE FALSE
  OBVIOUS
<1>2. PICK n \in Bad : \A m \in Bad : n <= m
  BY <1>1, LeastNatural
<1>3. n \in Nat /\ n # 0
  OBVIOUS
<1>4. n - 1 \in Nat /\ n - 1 + 1 = n
  BY <1>3
<1>5. n - 1 \in Good
  BY <1>2, <1>4
<1>6. QED
  BY <1>4, <1>5

\* Induction over the subsets of a finite set: good is what is good without any one element.
LEMMA SetsOneByOne ==
  ASSUME NEW S, IsFiniteSet(S), NEW Good,
         \A T \in SUBSET S : (\A x \in T : T \ {x} \in Good) => T \in Good
  PROVE  SUBSET S \subseteq Good
<1> DEFINE Bad == {T \in SUBSET S : T \notin Good}
           Sizes == {Cardinality(T) : T \in Bad}
<1>1. SUFFICES ASSUME Bad # {} PROVE FALSE
  OBVIOUS
<1>2. \A T \in SUBSET S : IsFiniteSet(T) /\ Cardinality(T) \in Nat
  BY FS_Subset, FS_CardinalityType
<1>3. Sizes \subseteq Nat /\ Sizes # {}
  BY <1>1, <1>2
<1>4. PICK n \in Sizes : \A m \in Sizes : n <= m
  BY <1>3, LeastNatural
<1>5. PICK T \in Bad : n = Cardinality(T)
  OBVIOUS
<1>6. PICK x \in T : T \ {x} \notin Good
  OBVIOUS
<1>7. T \ {x} \in Bad
  BY <1>6
<1>8. Cardinality(T \ {x}) = n - 1
  BY <1>2, <1>5, FS_RemoveElement
<1>9. Cardinality(T \ {x}) \in Sizes
  BY <1>7
<1>10. n \in Nat
  BY <1>3
<1>11. n <= n - 1
  <2> HIDE DEF Sizes, Bad
  <2> QED  BY <1>4, <1>8, <1>9
<1>12. QED
  BY <1>10, <1>11

\* Disjoint sets count separately.
LEMMA DisjointCount ==
  ASSUME NEW S, IsFiniteSet(S), NEW T, IsFiniteSet(T), S \cap T = {}
  PROVE  Cardinality(S \cup T) = Cardinality(S) + Cardinality(T)
<1>1. Cardinality(S \cup T) = Cardinality(S) + Cardinality(T) - Cardinality({})
  BY FS_Union
<1>2. Cardinality({}) = 0 /\ Cardinality(S) \in Nat /\ Cardinality(T) \in Nat
  BY FS_EmptySet, FS_CardinalityType
<1>3. QED
  BY <1>1, <1>2

-----------------------------------------------------------------------------
(* Sums: the recursion of SumFunctionOnSet has a solution.                 *)

Some(U) == CHOOSE x \in U : TRUE

\* Function g adds the values of f over every set in D.
Adds(f, D, g) == g = [U \in D |-> IF U = {} THEN 0 ELSE f[Some(U)] + g[U \ {Some(U)}]]

\* The subsets of S with at most n elements.
NoLarger(S, n) == {U \in SUBSET S : Cardinality(U) <= n}

\* There is such a function for the sets of at most n elements.
LEMMA AddsNoLarger ==
  ASSUME NEW f, NEW S, IsFiniteSet(S), NEW n \in Nat
  PROVE  \E g : Adds(f, NoLarger(S, n), g)
<1> DEFINE Good == {m \in Nat : \E g : Adds(f, NoLarger(S, m), g)}
<1>1. \A U \in SUBSET S : /\ IsFiniteSet(U) /\ Cardinality(U) \in Nat
                          /\ U # {} => Cardinality(U \ {Some(U)}) = Cardinality(U) - 1
                          /\ Cardinality(U) = 0 <=> U = {}
  <2>1. ASSUME NEW U \in SUBSET S PROVE IsFiniteSet(U) /\ Cardinality(U) \in Nat
    BY FS_Subset, FS_CardinalityType
  <2>2. ASSUME NEW U \in SUBSET S, U # {} PROVE Some(U) \in U
    BY <2>2 DEF Some
  <2>3. QED
    BY <2>1, <2>2, FS_RemoveElement, FS_EmptySet
<1>2. 0 \in Good
  <2> DEFINE g == [U \in NoLarger(S, 0) |-> 0]
  <2>1. ASSUME NEW U \in NoLarger(S, 0) PROVE U = {}
    <3>1. Cardinality(U) \in Nat /\ Cardinality(U) <= 0 /\ (Cardinality(U) = 0 <=> U = {})
      BY <1>1 DEF NoLarger
    <3>2. QED
      BY <3>1
  <2>2. g = [U \in NoLarger(S, 0) |-> IF U = {} THEN 0 ELSE f[Some(U)] + g[U \ {Some(U)}]]
    BY <2>1
  <2>3. Adds(f, NoLarger(S, 0), g)
    BY <2>2 DEF Adds
  <2>4. QED
    BY <2>3
<1>3. ASSUME NEW m \in Nat, m \in Good PROVE m + 1 \in Good
  <2>1. PICK g : Adds(f, NoLarger(S, m), g)
    BY <1>3
  <2> DEFINE h == [U \in NoLarger(S, m + 1) |-> IF U = {} THEN 0 ELSE f[Some(U)] + g[U \ {Some(U)}]]
  <2>2. ASSUME NEW U \in NoLarger(S, m + 1), U # {} PROVE h[U \ {Some(U)}] = g[U \ {Some(U)}]
    <3> DEFINE V == U \ {Some(U)}
    <3>1. V \in NoLarger(S, m) /\ V \in NoLarger(S, m + 1)
      BY <1>1, <1>3, <2>2 DEF NoLarger
    <3>2. h[V] = IF V = {} THEN 0 ELSE f[Some(V)] + g[V \ {Some(V)}]
      BY <3>1
    <3>3. g[V] = IF V = {} THEN 0 ELSE f[Some(V)] + g[V \ {Some(V)}]
      BY <2>1, <3>1 DEF Adds
    <3>4. QED
      BY <3>2, <3>3
  <2>3. h = [U \in NoLarger(S, m + 1) |-> IF U = {} THEN 0 ELSE f[Some(U)] + h[U \ {Some(U)}]]
    BY <2>2
  <2> HIDE DEF h
  <2>4. Adds(f, NoLarger(S, m + 1), h)
    BY <2>3 DEF Adds
  <2>5. QED
    BY <2>4
<1>4. QED
  BY <1>2, <1>3, NumbersOneByOne

\* The sum over a finite set is the value of such a function.
LEMMA SumIsAdded ==
  ASSUME NEW f, NEW S, IsFiniteSet(S)
  PROVE  \E g : Adds(f, SUBSET S, g) /\ SumFunctionOnSet(f, S) = g[S]
<1> DEFINE iter == CHOOSE g : g = [U \in SUBSET S |->
             IF U = {} THEN 0 ELSE f[CHOOSE x \in U : TRUE] + g[U \ {CHOOSE x \in U : TRUE}]]
<1>1. SumFunctionOnSet(f, S) = iter[S]
  BY DEF SumFunctionOnSet, FoldFunctionOnSet, MapThenFoldSet
<1>2. Cardinality(S) \in Nat /\ NoLarger(S, Cardinality(S)) = SUBSET S
  BY FS_Subset, FS_CardinalityType DEF NoLarger
<1>3. \E g : Adds(f, SUBSET S, g)
  <2>1. \E g : Adds(f, NoLarger(S, Cardinality(S)), g)
    BY <1>2, AddsNoLarger
  <2>2. QED
    BY <1>2, <2>1
<1>4. \E g : g = [U \in SUBSET S |->
             IF U = {} THEN 0 ELSE f[CHOOSE x \in U : TRUE] + g[U \ {CHOOSE x \in U : TRUE}]]
  BY <1>3 DEF Adds, Some
<1>5. iter = [U \in SUBSET S |->
             IF U = {} THEN 0 ELSE f[CHOOSE x \in U : TRUE] + iter[U \ {CHOOSE x \in U : TRUE}]]
  BY <1>4
<1> HIDE DEF iter
<1>6. Adds(f, SUBSET S, iter)
  BY <1>5 DEF Adds, Some
<1>7. QED
  BY <1>1, <1>6

\* Two functions that add the values of f agree where both are defined.
LEMMA AddsAgree ==
  ASSUME NEW f, NEW S, IsFiniteSet(S), NEW T \in SUBSET S,
         NEW g, NEW h, Adds(f, SUBSET S, g), Adds(f, SUBSET T, h)
  PROVE  g[T] = h[T]
<1> DEFINE Good == {U \in SUBSET T : g[U] = h[U]}
<1>1. ASSUME NEW U \in SUBSET T, \A x \in U : U \ {x} \in Good PROVE U \in Good
  <2>1. /\ g[U] = IF U = {} THEN 0 ELSE f[Some(U)] + g[U \ {Some(U)}]
        /\ h[U] = IF U = {} THEN 0 ELSE f[Some(U)] + h[U \ {Some(U)}]
    BY DEF Adds
  <2>2. U # {} => Some(U) \in U
    BY DEF Some
  <2>3. QED
    BY <1>1, <2>1, <2>2
<1>2. IsFiniteSet(T) /\ T \in SUBSET T
  BY FS_Subset
<1>3. \A U \in SUBSET T : (\A x \in U : U \ {x} \in Good) => U \in Good
  BY <1>1
<1> HIDE DEF Good
<1>4. SUBSET T \subseteq Good
  BY <1>2, <1>3, SetsOneByOne
<1>5. QED
  BY <1>2, <1>4 DEF Good

-----------------------------------------------------------------------------
(* Sums: what the proofs use.                                              *)

\* The sum over nothing, and over something.
LEMMA SumUnfolds ==
  ASSUME NEW f, NEW S, IsFiniteSet(S)
  PROVE  SumFunctionOnSet(f, S) =
           IF S = {} THEN 0 ELSE f[Some(S)] + SumFunctionOnSet(f, S \ {Some(S)})
<1>1. PICK g : Adds(f, SUBSET S, g) /\ SumFunctionOnSet(f, S) = g[S]
  BY SumIsAdded
<1>2. g[S] = IF S = {} THEN 0 ELSE f[Some(S)] + g[S \ {Some(S)}]
  BY <1>1 DEF Adds
<1>3. CASE S # {}
  <2> DEFINE T == S \ {Some(S)}
  <2>1. IsFiniteSet(T) /\ T \in SUBSET S
    BY FS_Subset
  <2>2. PICK h : Adds(f, SUBSET T, h) /\ SumFunctionOnSet(f, T) = h[T]
    BY <2>1, SumIsAdded
  <2> HIDE DEF T
  <2>3. g[T] = h[T]
    BY <1>1, <2>1, <2>2, AddsAgree
  <2>4. QED
    BY <1>1, <1>2, <1>3, <2>2, <2>3 DEF T
<1>4. QED
  BY <1>1, <1>2, <1>3

LEMMA SumEmpty ==
  ASSUME NEW f
  PROVE  SumFunctionOnSet(f, {}) = 0
BY SumUnfolds, FS_EmptySet

\* A sum of integers is an integer.
LEMMA SumType ==
  ASSUME NEW f, NEW S, IsFiniteSet(S), \A x \in S : f[x] \in Int
  PROVE  SumFunctionOnSet(f, S) \in Int
<1> DEFINE Good == {T \in SUBSET S : SumFunctionOnSet(f, T) \in Int}
<1>1. ASSUME NEW T \in SUBSET S, \A x \in T : T \ {x} \in Good PROVE T \in Good
  <2>1. SumFunctionOnSet(f, T) =
          IF T = {} THEN 0 ELSE f[Some(T)] + SumFunctionOnSet(f, T \ {Some(T)})
    BY SumUnfolds, FS_Subset
  <2>2. T # {} => Some(T) \in T
    BY DEF Some
  <2>3. QED
    BY <1>1, <2>1, <2>2
<1>2. \A T \in SUBSET S : (\A x \in T : T \ {x} \in Good) => T \in Good
  BY <1>1
<1> HIDE DEF Good
<1>3. SUBSET S \subseteq Good
  BY <1>2, SetsOneByOne
<1>4. QED
  BY <1>3 DEF Good

\* Any element can be taken out of a sum.
LEMMA SumTakeOut ==
  ASSUME NEW f, NEW S, IsFiniteSet(S), \A x \in S : f[x] \in Int, NEW x \in S
  PROVE  SumFunctionOnSet(f, S) = f[x] + SumFunctionOnSet(f, S \ {x})
<1> DEFINE Sum(T) == SumFunctionOnSet(f, T)
           Good == {T \in SUBSET S : \A y \in T : Sum(T) = f[y] + Sum(T \ {y})}
<1>0. \A T \in SUBSET S : IsFiniteSet(T) /\ Sum(T) \in Int
  BY FS_Subset, SumType
<1>1. ASSUME NEW T \in SUBSET S, \A y \in T : T \ {y} \in Good PROVE T \in Good
  <2>1. SUFFICES ASSUME NEW y \in T PROVE Sum(T) = f[y] + Sum(T \ {y})
    OBVIOUS
  <2>2. PICK p \in T : p = Some(T)
    BY DEF Some
  <2>3. Sum(T) = f[p] + Sum(T \ {p})
    BY <1>0, <2>2, SumUnfolds
  <2>4. CASE y # p
    <3>1. Sum(T \ {p}) = f[y] + Sum((T \ {p}) \ {y})
      BY <1>1, <2>4
    <3>2. Sum(T \ {y}) = f[p] + Sum((T \ {y}) \ {p})
      BY <1>1, <2>4
    <3>3. (T \ {p}) \ {y} = (T \ {y}) \ {p}
      OBVIOUS
    <3>4. /\ f[p] \in Int /\ f[y] \in Int /\ Sum((T \ {p}) \ {y}) \in Int
          /\ Sum((T \ {y}) \ {p}) \in Int
      BY <1>0
    <3> DEFINE rest == Sum((T \ {p}) \ {y})
    <3>5. /\ Sum(T) = f[p] + (f[y] + rest) /\ Sum(T \ {y}) = f[p] + rest
          /\ f[p] \in Int /\ f[y] \in Int /\ rest \in Int
      BY <2>3, <3>1, <3>2, <3>3, <3>4
    <3> HIDE DEF Sum, rest, Good
    <3>6. QED
      BY <3>5
  <2>5. QED
    BY <2>3, <2>4
<1>2. \A T \in SUBSET S : (\A y \in T : T \ {y} \in Good) => T \in Good
  BY <1>1
<1> HIDE DEF Good
<1>3. SUBSET S \subseteq Good
  BY <1>2, SetsOneByOne
<1>4. QED
  BY <1>3 DEF Good

\* One more element adds its value.
LEMMA SumAddOne ==
  ASSUME NEW f, NEW S, IsFiniteSet(S), NEW x, x \notin S, \A y \in S \cup {x} : f[y] \in Int
  PROVE  SumFunctionOnSet(f, S \cup {x}) = SumFunctionOnSet(f, S) + f[x]
<1>1. IsFiniteSet(S \cup {x}) /\ (S \cup {x}) \ {x} = S
  BY FS_AddElement
<1>2. SumFunctionOnSet(f, S \cup {x}) = f[x] + SumFunctionOnSet(f, S)
  BY <1>1, SumTakeOut
<1>3. SumFunctionOnSet(f, S) \in Int /\ f[x] \in Int
  BY SumType
<1>4. QED
  BY <1>2, <1>3

\* Sums of the same values are the same.
LEMMA SumSame ==
  ASSUME NEW f, NEW g, NEW S, IsFiniteSet(S), \A x \in S : f[x] = g[x]
  PROVE  SumFunctionOnSet(f, S) = SumFunctionOnSet(g, S)
<1> DEFINE Good == {T \in SUBSET S : SumFunctionOnSet(f, T) = SumFunctionOnSet(g, T)}
<1>1. ASSUME NEW T \in SUBSET S, \A x \in T : T \ {x} \in Good PROVE T \in Good
  <2>1. IsFiniteSet(T)
    BY FS_Subset
  <2>2. /\ SumFunctionOnSet(f, T) =
             IF T = {} THEN 0 ELSE f[Some(T)] + SumFunctionOnSet(f, T \ {Some(T)})
        /\ SumFunctionOnSet(g, T) =
             IF T = {} THEN 0 ELSE g[Some(T)] + SumFunctionOnSet(g, T \ {Some(T)})
    BY <2>1, SumUnfolds
  <2>3. T # {} => Some(T) \in T
    BY DEF Some
  <2>4. QED
    BY <1>1, <2>2, <2>3
<1>2. \A T \in SUBSET S : (\A x \in T : T \ {x} \in Good) => T \in Good
  BY <1>1
<1> HIDE DEF Good
<1>3. SUBSET S \subseteq Good
  BY <1>2, SetsOneByOne
<1>4. QED
  BY <1>3 DEF Good

\* The sum over two disjoint sets.
LEMMA SumDisjoint ==
  ASSUME NEW f, NEW S, IsFiniteSet(S), NEW T, IsFiniteSet(T), S \cap T = {},
         \A x \in S \cup T : f[x] \in Int
  PROVE  SumFunctionOnSet(f, S \cup T) = SumFunctionOnSet(f, S) + SumFunctionOnSet(f, T)
<1> DEFINE Sum(U) == SumFunctionOnSet(f, U)
           Good == {U \in SUBSET T : Sum(S \cup U) = Sum(S) + Sum(U)}
<1>1. ASSUME NEW U \in SUBSET T, \A x \in U : U \ {x} \in Good PROVE U \in Good
  <2>1. IsFiniteSet(U) /\ IsFiniteSet(S \cup U) /\ Sum(S) \in Int
    BY FS_Subset, FS_Union, SumType
  <2>2. ASSUME U = {} PROVE Sum(S \cup U) = Sum(S) + Sum(U)
    <3>1. Sum(S \cup U) = Sum(S) /\ Sum(U) = 0
      BY <2>2, SumEmpty
    <3> HIDE DEF Sum, Good
    <3>2. QED
      BY <2>1, <3>1
  <2>3. ASSUME NEW x \in U PROVE Sum(S \cup U) = Sum(S) + Sum(U)
    <3>1. Sum(S \cup U) = f[x] + Sum((S \cup U) \ {x})
      BY <2>1, SumTakeOut
    <3>2. (S \cup U) \ {x} = S \cup (U \ {x})
      OBVIOUS
    <3>3. Sum(U) = f[x] + Sum(U \ {x})
      BY <2>1, SumTakeOut
    <3>4. Sum(S \cup (U \ {x})) = Sum(S) + Sum(U \ {x})
      BY <1>1
    <3>5. Sum(U \ {x}) \in Int /\ f[x] \in Int
      BY <2>1, FS_Subset, SumType
    <3> HIDE DEF Sum, Good
    <3>6. Sum(S \cup U) = f[x] + (Sum(S) + Sum(U \ {x}))
      BY <3>1, <3>2, <3>4
    <3>7. QED
      BY <2>1, <3>3, <3>5, <3>6
  <2>4. QED
    BY <2>2, <2>3
<1>2. \A U \in SUBSET T : (\A x \in U : U \ {x} \in Good) => U \in Good
  BY <1>1
<1> HIDE DEF Good
<1>3. SUBSET T \subseteq Good
  BY <1>2, SetsOneByOne
<1>4. QED
  BY <1>3 DEF Good

\* The sum of differences is the difference of the sums.
LEMMA SumMinus ==
  ASSUME NEW f, NEW g, NEW h, NEW S, IsFiniteSet(S),
         \A x \in S : f[x] \in Int /\ g[x] \in Int /\ h[x] = f[x] - g[x]
  PROVE  SumFunctionOnSet(h, S) = SumFunctionOnSet(f, S) - SumFunctionOnSet(g, S)
<1> DEFINE F(T) == SumFunctionOnSet(f, T)
           G(T) == SumFunctionOnSet(g, T)
           H(T) == SumFunctionOnSet(h, T)
           Good == {T \in SUBSET S : H(T) = F(T) - G(T)}
<1>1. ASSUME NEW T \in SUBSET S, \A x \in T : T \ {x} \in Good PROVE T \in Good
  <2>1. CASE T = {}
    BY <2>1, SumEmpty
  <2>2. ASSUME NEW x \in T PROVE H(T) = F(T) - G(T)
    <3>1. IsFiniteSet(T) /\ IsFiniteSet(T \ {x})
      BY FS_Subset
    <3>2. /\ F(T) = f[x] + F(T \ {x}) /\ G(T) = g[x] + G(T \ {x})
          /\ H(T) = h[x] + H(T \ {x})
      BY <3>1, SumTakeOut
    <3>3. H(T \ {x}) = F(T \ {x}) - G(T \ {x})
      BY <1>1
    <3>4. F(T \ {x}) \in Int /\ G(T \ {x}) \in Int
      BY <3>1, SumType
    <3> HIDE DEF F, G, H
    <3>5. QED
      BY <3>2, <3>3, <3>4
  <2>3. QED
    BY <2>1, <2>2
<1>2. \A T \in SUBSET S : (\A x \in T : T \ {x} \in Good) => T \in Good
  BY <1>1
<1> HIDE DEF Good
<1>3. SUBSET S \subseteq Good
  BY <1>2, SetsOneByOne
<1>4. QED
  BY <1>3 DEF Good

\* A sum of zeros is zero.
LEMMA SumZero ==
  ASSUME NEW f, NEW S, IsFiniteSet(S), \A x \in S : f[x] = 0
  PROVE  SumFunctionOnSet(f, S) = 0
<1>1. \A x \in S : f[x] \in Int /\ f[x] = f[x] - f[x]
  OBVIOUS
<1>2. SumFunctionOnSet(f, S) \in Int
  BY <1>1, SumType
<1>3. SumFunctionOnSet(f, S) = SumFunctionOnSet(f, S) - SumFunctionOnSet(f, S)
  BY <1>1, SumMinus
<1>4. QED
  BY <1>2, <1>3

\* The sum over disjoint parts is the sum of the sums over the parts.
LEMMA SumParts ==
  ASSUME NEW f, NEW P, IsFiniteSet(P), NEW part,
         \A p \in P : IsFiniteSet(part[p]) /\ \A x \in part[p] : f[x] \in Int,
         \A p, q \in P : p # q => part[p] \cap part[q] = {},
         NEW g, \A p \in P : g[p] = SumFunctionOnSet(f, part[p])
  PROVE  SumFunctionOnSet(g, P) = SumFunctionOnSet(f, UNION {part[p] : p \in P})
<1> DEFINE All(T) == UNION {part[p] : p \in T}
           Good == {T \in SUBSET P : /\ IsFiniteSet(All(T))
                                     /\ SumFunctionOnSet(g, T) = SumFunctionOnSet(f, All(T))}
<1>1. \A p \in P : g[p] \in Int
  BY SumType
<1>2. ASSUME NEW T \in SUBSET P, \A x \in T : T \ {x} \in Good PROVE T \in Good
  <2>1. CASE T = {}
    <3>1. All(T) = {}
      BY <2>1
    <3>2. SumFunctionOnSet(g, T) = 0 /\ SumFunctionOnSet(f, All(T)) = 0 /\ IsFiniteSet(All(T))
      BY <2>1, <3>1, SumEmpty, FS_EmptySet
    <3>3. QED
      BY <3>2
  <2>2. ASSUME NEW x \in T PROVE T \in Good
    <3>1. IsFiniteSet(T) /\ IsFiniteSet(T \ {x})
      BY FS_Subset
    <3>2. SumFunctionOnSet(g, T) = g[x] + SumFunctionOnSet(g, T \ {x})
      BY <1>1, <3>1, SumTakeOut
    <3>3. PICK U : U = All(T \ {x})
      OBVIOUS
    <3>4. IsFiniteSet(U) /\ SumFunctionOnSet(g, T \ {x}) = SumFunctionOnSet(f, U)
      BY <1>2, <3>3
    <3>5. U \cap part[x] = {} /\ All(T) = U \cup part[x]
      BY <3>3
    <3>6. \A y \in U \cup part[x] : f[y] \in Int
      BY <3>3
    <3>7. SumFunctionOnSet(f, U \cup part[x]) =
            SumFunctionOnSet(f, U) + SumFunctionOnSet(f, part[x])
      BY <3>4, <3>5, <3>6, SumDisjoint
    <3>8. SumFunctionOnSet(f, U) \in Int /\ g[x] \in Int
      BY <1>1, <3>4, <3>6, SumType
    <3>9. IsFiniteSet(U \cup part[x])
      BY <3>4, FS_Union
    <3>10. SumFunctionOnSet(g, T) = SumFunctionOnSet(f, All(T))
      <4> HIDE DEF All, Good
      <4>1. SumFunctionOnSet(g, T) = g[x] + SumFunctionOnSet(f, U)
        BY <3>2, <3>4
      <4>2. SumFunctionOnSet(f, All(T)) = SumFunctionOnSet(f, U) + g[x]
        BY <3>5, <3>7
      <4>3. QED
        BY <3>8, <4>1, <4>2
    <3>11. QED
      BY <3>5, <3>9, <3>10
  <2>3. QED
    BY <2>1, <2>2
<1>3. \A T \in SUBSET P : (\A x \in T : T \ {x} \in Good) => T \in Good
  BY <1>2
<1> HIDE DEF Good
<1>4. SUBSET P \subseteq Good
  BY <1>3, SetsOneByOne
<1>5. QED
  BY <1>4 DEF Good
-----------------------------------------------------------------------------
(* Places in a strict order of a finite set, given by what is before each  *)
(* element.                                                                *)

StrictOrder(S, before) ==
  /\ before \in [S -> SUBSET S]
  /\ \A i \in S : i \notin before[i]
  /\ \A i \in S, j \in S : j \in before[i] => before[j] \subseteq before[i]
  /\ \A i \in S, j \in S : i # j => i \in before[j] \/ j \in before[i]

\* The number of elements before an element gives each a place from 0 on, without a gap.
LEMMA PlacesTaken ==
  ASSUME NEW S, IsFiniteSet(S), NEW before, StrictOrder(S, before),
         NEW k \in Nat, k < Cardinality(S)
  PROVE  \E i \in S : Cardinality(before[i]) = k
<1> DEFINE n == Cardinality(S)
           T == 0 .. n - 1
           place == [i \in S |-> Cardinality(before[i])]
<1>1. n \in Nat
  BY FS_CardinalityType
<1>2. ASSUME NEW i \in S
      PROVE  IsFiniteSet(before[i]) /\ Cardinality(before[i]) \in Nat /\ Cardinality(before[i]) < n
  <2>1. before[i] \in SUBSET (S \ {i})
    BY DEF StrictOrder
  <2>2. IsFiniteSet(S \ {i}) /\ Cardinality(S \ {i}) = n - 1
    BY FS_RemoveElement
  <2>3. IsFiniteSet(before[i]) /\ Cardinality(before[i]) <= n - 1
    BY <2>1, <2>2, FS_Subset
  <2>4. Cardinality(before[i]) \in Nat
    BY <2>3, FS_CardinalityType
  <2> QED  BY <1>1, <2>3, <2>4
<1>3. ASSUME NEW i \in S, NEW j \in S, j \in before[i]
      PROVE  Cardinality(before[j]) < Cardinality(before[i])
  <2>1. before[j] \in SUBSET (before[i] \ {j})
    BY <1>3 DEF StrictOrder
  <2>2. /\ IsFiniteSet(before[i] \ {j})
        /\ Cardinality(before[i] \ {j}) = Cardinality(before[i]) - 1
    BY <1>2, <1>3, FS_RemoveElement
  <2>3. Cardinality(before[j]) <= Cardinality(before[i] \ {j})
    BY <2>1, <2>2, FS_Subset
  <2> QED  BY <1>2, <2>2, <2>3
<1>4. place \in [S -> T]
  BY <1>1, <1>2
<1>5. \A i, j \in S : place[i] = place[j] => i = j
  BY <1>2, <1>3 DEF StrictOrder
<1>6. place \in Injection(S, T)
  BY <1>4, <1>5 DEF Injection, IsInjective
<1>7. IsFiniteSet(T) /\ Cardinality(T) = n
  <2>1. PICK m : m = n - 1
    OBVIOUS
  <2>2. m \in Int /\ n = (IF 0 > m THEN 0 ELSE m - 0 + 1)
    BY <1>1, <2>1
  <2>3. IsFiniteSet(0 .. m) /\ Cardinality(0 .. m) = IF 0 > m THEN 0 ELSE m - 0 + 1
    BY <2>2, FS_Interval
  <2> QED  BY <2>1, <2>2, <2>3
<1>8. place \in Surjection(S, T)
  BY <1>6, <1>7, FS_Injection
<1>9. k \in T
  BY <1>1
<1>10. \E i \in S : place[i] = k
  <2> HIDE DEF place, T
  <2> QED  BY <1>8, <1>9 DEF Surjection
<1> QED  BY <1>10

\* When an element is behind a run of places, the run is full.
LEMMA RunIsFull ==
  ASSUME NEW S, IsFiniteSet(S), NEW before, StrictOrder(S, before),
         NEW low \in Nat, NEW size \in Nat,
         NEW behind \in S, Cardinality(before[behind]) >= low + size,
         NEW run, run = {i \in S : Cardinality(before[i]) \in low .. low + size - 1}
  PROVE  IsFiniteSet(run) /\ Cardinality(run) >= size
<1> DEFINE T == low .. low + size - 1
           place == [i \in run |-> Cardinality(before[i])]
<1>1. run \in SUBSET S /\ IsFiniteSet(run)
  BY FS_Subset
<1>2. Cardinality(before[behind]) <= Cardinality(S)
  <2>1. before[behind] \in SUBSET S
    BY DEF StrictOrder
  <2> QED  BY <2>1, FS_Subset
<1>3. Cardinality(S) \in Nat /\ Cardinality(before[behind]) \in Nat
  <2>1. before[behind] \in SUBSET S
    BY DEF StrictOrder
  <2> QED  BY <2>1, FS_Subset, FS_CardinalityType
<1>4. \A k \in T : \E i \in run : place[i] = k
  <2>1. SUFFICES ASSUME NEW k \in T PROVE \E i \in run : place[i] = k
    OBVIOUS
  <2>2. k \in Nat /\ k < Cardinality(S)
    BY <1>2, <1>3
  <2>3. PICK i \in S : Cardinality(before[i]) = k
    BY <2>2, PlacesTaken
  <2>4. i \in run
    BY <2>1, <2>3
  <2> QED  BY <2>3, <2>4
<1>5. place \in [run -> T]
  OBVIOUS
<1>6. place \in Surjection(run, T)
  <2> HIDE DEF place, T
  <2> QED  BY <1>4, <1>5 DEF Surjection
<1>7. Cardinality(T) = size
  <2>1. PICK high : high = low + size - 1
    OBVIOUS
  <2>2. high \in Int /\ low \in Int /\ size = (IF low > high THEN 0 ELSE high - low + 1)
    BY <2>1
  <2>3. Cardinality(low .. high) = IF low > high THEN 0 ELSE high - low + 1
    BY <2>2, FS_Interval
  <2> QED  BY <2>1, <2>2, <2>3
<1>8. Cardinality(T) <= Cardinality(run)
  <2> HIDE DEF place, T
  <2> QED  BY <1>1, <1>6, FS_Surjection
<1> QED  BY <1>1, <1>7, <1>8

\* A sum of natural numbers is a natural number.
LEMMA SumNatural ==
  ASSUME NEW f, NEW S, IsFiniteSet(S), \A x \in S : f[x] \in Nat
  PROVE  SumFunctionOnSet(f, S) \in Nat
<1> DEFINE Good == {T \in SUBSET S : SumFunctionOnSet(f, T) \in Nat}
<1>1. ASSUME NEW T \in SUBSET S, \A x \in T : T \ {x} \in Good PROVE T \in Good
  <2>1. SumFunctionOnSet(f, T) =
          IF T = {} THEN 0 ELSE f[Some(T)] + SumFunctionOnSet(f, T \ {Some(T)})
    BY SumUnfolds, FS_Subset
  <2>2. T # {} => Some(T) \in T
    BY DEF Some
  <2> QED  BY <1>1, <2>1, <2>2
<1> HIDE DEF Good
<1>2. SUBSET S \subseteq Good
  BY <1>1, SetsOneByOne
<1> QED  BY <1>2 DEF Good

\* A sum of natural numbers one of which is positive is positive.
LEMMA SumPositive ==
  ASSUME NEW f, NEW S, IsFiniteSet(S), \A x \in S : f[x] \in Nat, NEW x \in S, f[x] # 0
  PROVE  SumFunctionOnSet(f, S) \in Nat \ {0}
<1>1. IsFiniteSet(S \ {x}) /\ (\A y \in S \ {x} : f[y] \in Nat) /\ \A y \in S : f[y] \in Int
  BY FS_Subset
<1>2. SumFunctionOnSet(f, S) = f[x] + SumFunctionOnSet(f, S \ {x})
  BY <1>1, SumTakeOut
<1>3. SumFunctionOnSet(f, S \ {x}) \in Nat
  BY <1>1, SumNatural
<1> QED  BY <1>2, <1>3

\* The values of a finite set of places.
LEMMA ImageFinite ==
  ASSUME NEW S, IsFiniteSet(S), NEW f
  PROVE  IsFiniteSet({f[x] : x \in S})
<1> DEFINE T == {f[x] : x \in S}
           g == [x \in S |-> f[x]]
<1>1. g \in Surjection(S, T)
  BY DEF Surjection
<1> HIDE DEF g, T
<1>2. IsFiniteSet(T)
  BY <1>1, FS_Surjection
<1> QED  BY <1>2 DEF T

-----------------------------------------------------------------------------
(* Functions given by a step from the value before.                        *)

\* A function on D that is c on B, and elsewhere a step from its value at the predecessor.
Follows(f, D, B, p, c, step) ==
  f = [x \in D |-> IF x \in B THEN c[x] ELSE step[<<x, f[p[x]]>>]]
\* Predecessors are lower, and the steps stay within V.
Descends(D, V, rank, B, p, c, step) ==
  /\ rank \in [D -> Nat]
  /\ \A x \in D \ B : p[x] \in D /\ rank[p[x]] < rank[x]
  /\ \A x \in B : c[x] \in V
  /\ \A x \in D \ B, v \in V : step[<<x, v>>] \in V
BelowRank(D, rank, n) == {x \in D : rank[x] < n}

\* Induction along a rank.
LEMMA RanksOneByOne ==
  ASSUME NEW D, NEW rank \in [D -> Nat], NEW Good,
         \A x \in D : (\A y \in D : rank[y] < rank[x] => y \in Good) => x \in Good
  PROVE  D \subseteq Good
<1> DEFINE Bad == D \ Good
           Ranks == {rank[x] : x \in Bad}
<1>1. SUFFICES ASSUME Bad # {} PROVE FALSE
  OBVIOUS
<1>2. Ranks \subseteq Nat /\ Ranks # {}
  BY <1>1
<1>3. PICK r \in Ranks : \A q \in Ranks : r <= q
  BY <1>2, LeastNatural
<1>4. PICK x \in Bad : r = rank[x]
  BY <1>3
<1>5. ASSUME NEW y \in D, rank[y] < rank[x] PROVE y \in Good
  <2>1. SUFFICES ASSUME y \in Bad PROVE FALSE
    OBVIOUS
  <2>2. rank[y] \in Ranks /\ rank[y] \in Nat /\ rank[x] \in Nat
    BY <2>1, <1>4
  <2>3. r <= rank[y]
    BY <1>3, <2>2
  <2> QED  BY <1>4, <1>5, <2>2, <2>3
<1> QED  BY <1>4, <1>5

\* Two such functions agree where both are defined.
LEMMA FollowersAgree ==
  ASSUME NEW D, NEW V, NEW rank, NEW B, NEW p, NEW c, NEW step,
         Descends(D, V, rank, B, p, c, step),
         NEW m \in Nat, NEW n \in Nat, m <= n,
         NEW f, Follows(f, BelowRank(D, rank, m), B, p, c, step),
         NEW g, Follows(g, BelowRank(D, rank, n), B, p, c, step),
         NEW z \in BelowRank(D, rank, m)
  PROVE  f[z] = g[z]
<1> DEFINE Good == {x \in D : rank[x] < m => f[x] = g[x]}
<1>1. rank \in [D -> Nat]
  BY DEF Descends
<1>2. ASSUME NEW x \in D, \A y \in D : rank[y] < rank[x] => y \in Good PROVE x \in Good
  <2>1. SUFFICES ASSUME rank[x] < m PROVE f[x] = g[x]
    OBVIOUS
  <2>2. x \in BelowRank(D, rank, m) /\ x \in BelowRank(D, rank, n)
    BY <1>1, <2>1 DEF BelowRank
  <2>3. f[x] = (IF x \in B THEN c[x] ELSE step[<<x, f[p[x]]>>])
    BY <2>2 DEF Follows
  <2>4. g[x] = (IF x \in B THEN c[x] ELSE step[<<x, g[p[x]]>>])
    BY <2>2 DEF Follows
  <2>5. ASSUME x \notin B PROVE f[p[x]] = g[p[x]]
    <3>1. p[x] \in D /\ rank[p[x]] < rank[x]
      BY <2>5 DEF Descends
    <3>2. p[x] \in Good /\ rank[p[x]] \in Nat /\ rank[x] \in Nat
      BY <1>1, <1>2, <3>1
    <3> QED  BY <2>1, <3>1, <3>2
  <2> QED  BY <2>3, <2>4, <2>5
<1> HIDE DEF Good
<1>3. D \subseteq Good
  BY <1>1, <1>2, RanksOneByOne
<1> QED  BY <1>3 DEF Good, BelowRank

\* Below every rank there is such a function, with values in V.
LEMMA FollowersBelow ==
  ASSUME NEW D, NEW V, NEW rank, NEW B, NEW p, NEW c, NEW step,
         Descends(D, V, rank, B, p, c, step)
  PROVE  \A n \in Nat : \E f : Follows(f, BelowRank(D, rank, n), B, p, c, step)
<1> DEFINE Below(n) == BelowRank(D, rank, n)
           Good == {n \in Nat : \E f : Follows(f, Below(n), B, p, c, step)}
<1>1. 0 \in Good
  <2>1. Below(0) = {}
    BY DEF Descends, BelowRank
  <2>2. PICK f : f = [x \in {} |-> x]
    OBVIOUS
  <2>3. f = [x \in {} |-> IF x \in B THEN c[x] ELSE step[<<x, f[p[x]]>>]]
    BY <2>2
  <2> QED  BY <2>1, <2>3 DEF Follows
<1>2. ASSUME NEW n \in Nat, n \in Good PROVE n + 1 \in Good
  <2>1. PICK f : Follows(f, Below(n), B, p, c, step)
    BY <1>2
  <2>2. PICK g : g = [x \in Below(n + 1) |-> IF x \in B THEN c[x] ELSE step[<<x, f[p[x]]>>]]
    OBVIOUS
  <2>3. ASSUME NEW x \in Below(n + 1), x \notin B PROVE f[p[x]] = g[p[x]]
    <3>1. x \in D /\ rank[x] < n + 1 /\ p[x] \in D /\ rank[p[x]] < rank[x]
      BY <2>3 DEF BelowRank, Descends
    <3>2. rank[x] \in Nat /\ rank[p[x]] \in Nat
      BY <3>1 DEF Descends
    <3>3. p[x] \in Below(n) /\ p[x] \in Below(n + 1)
      BY <3>1, <3>2 DEF BelowRank
    <3> QED  BY <2>1, <2>2, <3>3 DEF Follows
  <2>4. g = [x \in Below(n + 1) |-> IF x \in B THEN c[x] ELSE step[<<x, g[p[x]]>>]]
    BY <2>2, <2>3
  <2>5. Follows(g, Below(n + 1), B, p, c, step)
    BY <2>4 DEF Follows
  <2> QED  BY <2>5
<1> HIDE DEF Good
<1>3. Nat \subseteq Good
  BY <1>1, <1>2, NumbersOneByOne
<1> QED  BY <1>3 DEF Good

\* There is such a function.
LEMMA FollowerExists ==
  ASSUME NEW D, NEW V, NEW rank, NEW B, NEW p, NEW c, NEW step,
         Descends(D, V, rank, B, p, c, step)
  PROVE  \E f : Follows(f, D, B, p, c, step)
<1> DEFINE Is(f, n) == Follows(f, BelowRank(D, rank, n), B, p, c, step)
<1>1. PICK F : F = [n \in Nat |-> CHOOSE f : Is(f, n)]
  OBVIOUS
<1>2. ASSUME NEW n \in Nat PROVE Is(F[n], n)
  <2>1. \E f : Is(f, n)
    BY FollowersBelow
  <2>2. F[n] = CHOOSE f : Is(f, n)
    BY <1>1
  <2> HIDE DEF Is
  <2> QED  BY <2>1, <2>2
<1>3. PICK g : g = [x \in D |-> F[rank[x] + 1][x]]
  OBVIOUS
<1>4. ASSUME NEW x \in D PROVE g[x] = IF x \in B THEN c[x] ELSE step[<<x, g[p[x]]>>]
  <2>1. PICK n \in Nat : n = rank[x] + 1
    BY DEF Descends
  <2>2. x \in BelowRank(D, rank, n)
    BY <2>1 DEF BelowRank, Descends
  <2>3. Is(F[n], n) /\ g[x] = F[n][x]
    BY <1>2, <1>3, <2>1
  <2>4. g[x] = IF x \in B THEN c[x] ELSE step[<<x, F[n][p[x]]>>]
    BY <2>2, <2>3 DEF Follows
  <2>5. ASSUME x \notin B PROVE F[n][p[x]] = g[p[x]]
    <3>1. p[x] \in D /\ rank[p[x]] < rank[x] /\ rank[p[x]] \in Nat /\ rank[x] \in Nat
      BY <2>5 DEF Descends
    <3>2. PICK m \in Nat : m = rank[p[x]] + 1
      BY <3>1
    <3>3. m <= n /\ p[x] \in BelowRank(D, rank, m)
      BY <2>1, <3>1, <3>2 DEF BelowRank
    <3>4. Is(F[m], m) /\ g[p[x]] = F[m][p[x]]
      BY <1>2, <1>3, <3>1, <3>2
    <3>5. F[m][p[x]] = F[n][p[x]]
      BY <2>3, <3>3, <3>4, FollowersAgree
    <3> QED  BY <3>4, <3>5
  <2> QED  BY <2>4, <2>5
<1>5. g = [x \in D |-> IF x \in B THEN c[x] ELSE step[<<x, g[p[x]]>>]]
  BY <1>3, <1>4
<1>6. Follows(g, D, B, p, c, step)
  BY <1>5 DEF Follows
<1> QED  BY <1>6

\* Its values are in V.
LEMMA FollowerType ==
  ASSUME NEW D, NEW V, NEW rank, NEW B, NEW p, NEW c, NEW step,
         Descends(D, V, rank, B, p, c, step),
         NEW f, Follows(f, D, B, p, c, step)
  PROVE  f \in [D -> V]
<1> DEFINE Good == {x \in D : f[x] \in V}
<1>1. rank \in [D -> Nat]
  BY DEF Descends
<1>2. ASSUME NEW x \in D, \A y \in D : rank[y] < rank[x] => y \in Good PROVE x \in Good
  <2>1. f[x] = (IF x \in B THEN c[x] ELSE step[<<x, f[p[x]]>>])
    BY DEF Follows
  <2>2. CASE x \in B
    BY <2>1, <2>2 DEF Descends
  <2>3. CASE x \notin B
    <3>1. p[x] \in D /\ rank[p[x]] < rank[x]
      BY <2>3 DEF Descends
    <3>2. f[p[x]] \in V
      BY <1>2, <3>1
    <3>3. step[<<x, f[p[x]]>>] \in V
      BY <2>3, <3>2 DEF Descends
    <3> QED  BY <2>1, <2>3, <3>3
  <2> QED  BY <2>2, <2>3
<1> HIDE DEF Good
<1>3. D \subseteq Good
  BY <1>1, <1>2, RanksOneByOne
<1>4. f = [x \in D |-> f[x]]
  BY DEF Follows
<1>5. \A x \in D : f[x] \in V
  BY <1>3 DEF Good
<1> QED  BY <1>4, <1>5

\* Induction along an interval.
LEMMA IntervalOneByOne ==
  ASSUME NEW a \in Int, NEW b \in Int, NEW Good, a \in Good,
         \A i \in a + 1 .. b : i - 1 \in Good => i \in Good
  PROVE  a .. b \subseteq Good
<1> DEFINE Reached == {n \in Nat : a + n <= b => a + n \in Good}
<1>1. 0 \in Reached
  BY DEF Reached
<1>2. ASSUME NEW n \in Nat, n \in Reached PROVE n + 1 \in Reached
  <2>1. SUFFICES ASSUME a + (n + 1) <= b PROVE a + (n + 1) \in Good
    OBVIOUS
  <2>2. PICK i \in a + 1 .. b : i = a + (n + 1)
    BY <2>1
  <2>3. i - 1 = a + n
    BY <2>2
  <2>4. a + n \in Good
    BY <1>2, <2>1
  <2> QED  BY <2>2, <2>3, <2>4
<1> HIDE DEF Reached
<1>3. Nat \subseteq Reached
  BY <1>1, <1>2, NumbersOneByOne
<1>4. ASSUME NEW i \in a .. b PROVE i \in Good
  <2>1. PICK n \in Nat : n = i - a
    OBVIOUS
  <2>2. a + n = i /\ a + n <= b
    BY <2>1
  <2> QED  BY <1>3, <2>1, <2>2 DEF Reached
<1> QED  BY <1>4

Steps(f, a, b, V, first, step) ==
  /\ f \in [a .. b -> V]
  /\ f = [i \in a .. b |-> IF i = a THEN first ELSE step[<<i, f[i - 1]>>]]
\* A function on an interval may be given by its first value and a step.
LEMMA IntervalFunction ==
  ASSUME NEW a \in Int, NEW b \in Int, NEW V, NEW first \in V,
         NEW step, \A i \in a + 1 .. b, v \in V : step[<<i, v>>] \in V
  PROVE  \E f : Steps(f, a, b, V, first, step)
<1> DEFINE D == a .. b
           rank == [i \in D |-> i - a]
           B == {a}
           p == [i \in D |-> i - 1]
           c == [i \in B |-> first]
<1>1. Descends(D, V, rank, B, p, c, step)
  <2>1. rank \in [D -> Nat]
    OBVIOUS
  <2>2. ASSUME NEW i \in D \ B PROVE p[i] \in D /\ rank[p[i]] < rank[i] /\ i \in a + 1 .. b
    OBVIOUS
  <2>3. \A i \in B : c[i] \in V
    OBVIOUS
  <2> HIDE DEF D, rank, B, p, c
  <2> QED  BY <2>1, <2>2, <2>3 DEF Descends
<1>2. PICK f : Follows(f, D, B, p, c, step)
  <2> HIDE DEF D, rank, B, p, c
  <2> QED  BY <1>1, FollowerExists
<1>3. f \in [D -> V]
  <2> HIDE DEF D, rank, B, p, c
  <2> QED  BY <1>1, <1>2, FollowerType
<1>4. f = [i \in D |-> IF i \in B THEN c[i] ELSE step[<<i, f[p[i]]>>]]
  BY <1>2 DEF Follows
<1>5. ASSUME NEW i \in D PROVE f[i] = IF i = a THEN first ELSE step[<<i, f[i - 1]>>]
  BY <1>4
<1>6. f = [i \in D |-> IF i = a THEN first ELSE step[<<i, f[i - 1]>>]]
  BY <1>4, <1>5
<1> QED  BY <1>3, <1>6 DEF Steps
=============================================================================
