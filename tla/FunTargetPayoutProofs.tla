------------------------ MODULE FunTargetPayoutProofs ------------------------
(***************************************************************************)
(* What SumFunction computes, for every finite set of indices, and what    *)
(* the split of a pool pays, for every pool and all stakes.                *)
(*                                                                         *)
(* The folds of the community modules define SumFunction by recursion over *)
(* the subsets of the indices, so the facts about it need induction over   *)
(* finite sets.  The library's induction theorems take the property as an  *)
(* operator; Induction below takes it as the set of the subsets that have  *)
(* it, and follows from the existence of minimal elements in a             *)
(* well-founded order.                                                     *)
(***************************************************************************)
EXTENDS FunTargetPayout, Integers, FiniteSetTheorems, WellFoundedInduction, TLAPS

\* Induction over the subsets of a finite set: a set that holds T whenever it
\* holds every proper subset of T holds the whole.
LEMMA Induction ==
  ASSUME NEW S, IsFiniteSet(S), NEW Good,
         \A T \in SUBSET S : (\A U \in SUBSET T : U # T => U \in Good) => T \in Good
  PROVE  S \in Good
<1> DEFINE Bad == {T \in SUBSET S : T \notin Good}
<1> SUFFICES ASSUME S \notin Good PROVE FALSE
  OBVIOUS
<1>1. Bad \subseteq SUBSET S /\ Bad # {}
  OBVIOUS
<1>2. \E T \in Bad : \A U \in Bad : ~(<<U, T>> \in StrictSubsetOrdering(S))
  <2>1. IsWellFoundedOn(StrictSubsetOrdering(S), FiniteSubsetsOf(S))
    BY FS_StrictSubsetOrderingWellFounded
  <2>2. FiniteSubsetsOf(S) = SUBSET S
    BY FS_FiniteSubsetsOfFinite
  <2>3. IsWellFoundedOn(StrictSubsetOrdering(S), SUBSET S)
    BY <2>1, <2>2
  <2> HIDE DEF Bad
  <2> QED BY <2>3, <1>1, WFMin
<1>3. PICK T \in Bad : \A U \in Bad : ~(<<U, T>> \in StrictSubsetOrdering(S))
  BY <1>2
<1>4. \A U \in SUBSET T : U # T => U \in Good
  BY <1>3 DEF StrictSubsetOrdering
<1> QED BY <1>3, <1>4

-----------------------------------------------------------------------------
(* The recursive function behind SumFunction exists and is unique.         *)

First(S) == CHOOSE x \in S : TRUE
IsSum(g, f, D) == g = [S \in SUBSET D |->
  IF S = {} THEN 0 ELSE f[First(S)] + g[S \ {First(S)}]]

\* SumFunctionOnSet is the value of such a function.
LEMMA SumIsFold ==
  ASSUME NEW f, NEW D
  PROVE  SumFunctionOnSet(f, D) = (CHOOSE g : IsSum(g, f, D))[D]
BY DEF SumFunctionOnSet, FoldFunctionOnSet, MapThenFoldSet, IsSum, First

LEMMA FirstIsMember == \A S : S # {} => First(S) \in S
BY DEF First

\* Two of them agree where both are defined.
LEMMA SumUnique ==
  ASSUME NEW f, NEW D, NEW E, NEW g, NEW h, IsSum(g, f, D), IsSum(h, f, E),
         NEW S, S \subseteq D, S \subseteq E, IsFiniteSet(S)
  PROVE  g[S] = h[S]
<1> DEFINE Good == {T \in SUBSET S : g[T] = h[T]}
<1>1. ASSUME NEW T \in SUBSET S, \A U \in SUBSET T : U # T => U \in Good
      PROVE  T \in Good
  <2>1. /\ g[T] = IF T = {} THEN 0 ELSE f[First(T)] + g[T \ {First(T)}]
        /\ h[T] = IF T = {} THEN 0 ELSE f[First(T)] + h[T \ {First(T)}]
    <3>1. T \in SUBSET D /\ T \in SUBSET E
      OBVIOUS
    <3> QED BY <3>1 DEF IsSum
  <2>2. CASE T # {}
    <3>1. T \ {First(T)} \in SUBSET T /\ T \ {First(T)} # T
      BY <2>2, FirstIsMember
    <3> QED BY <1>1, <2>1, <2>2, <3>1
  <2> QED BY <2>1, <2>2
<1>2. S \in Good
  <2> HIDE DEF Good
  <2> QED BY <1>1, Induction
<1> QED BY <1>2

LEMMA SumExists ==
  ASSUME NEW f, NEW D, IsFiniteSet(D)
  PROVE  \E g : IsSum(g, f, D)
<1> DEFINE Good == {T \in SUBSET D : \E g : IsSum(g, f, T)}
<1>1. ASSUME NEW T \in SUBSET D, \A U \in SUBSET T : U # T => U \in Good
      PROVE  T \in Good
  <2> DEFINE of(U) == CHOOSE g : IsSum(g, f, U)
             rest(U) == U \ {First(U)}
             h == [U \in SUBSET T |->
                     IF U = {} THEN 0 ELSE f[First(U)] + of(rest(U))[rest(U)]]
  <2>1. \A U \in SUBSET T : U # T => IsSum(of(U), f, U)
    BY <1>1
  <2>2. \A U \in SUBSET T : U # {} => rest(U) \in SUBSET T /\ rest(U) # T
                                        /\ rest(U) \in SUBSET U
    BY FirstIsMember
  <2>3. ASSUME NEW U \in SUBSET T, U # T PROVE h[U] = of(U)[U]
    <3>1. of(U)[U] = IF U = {} THEN 0 ELSE f[First(U)] + of(U)[rest(U)]
      <4>1. IsSum(of(U), f, U) /\ U \in SUBSET U
        BY <2>1, <2>3
      <4> HIDE DEF of
      <4> QED BY <4>1 DEF IsSum
    <3>2. CASE U # {}
      <4>1. IsSum(of(U), f, U) /\ IsSum(of(rest(U)), f, rest(U))
        BY <2>1, <2>2, <2>3, <3>2
      <4>2. IsFiniteSet(rest(U)) /\ rest(U) \subseteq U /\ rest(U) \subseteq rest(U)
        BY FS_Subset
      <4>3. of(U)[rest(U)] = of(rest(U))[rest(U)]
        <5> HIDE DEF of, rest
        <5> QED BY <4>1, <4>2, SumUnique
      <4> QED BY <3>1, <3>2, <4>3
    <3> QED BY <3>1, <3>2
  <2>4. IsSum(h, f, T)
    <3>1. \A U \in SUBSET T : U # {} => h[rest(U)] = of(rest(U))[rest(U)]
      BY <2>2, <2>3
    <3>2. \A U \in SUBSET T :
            h[U] = IF U = {} THEN 0 ELSE f[First(U)] + h[rest(U)]
      <4>1. ASSUME NEW U \in SUBSET T
            PROVE  h[U] = IF U = {} THEN 0 ELSE f[First(U)] + of(rest(U))[rest(U)]
        OBVIOUS
      <4> HIDE DEF h, of, rest
      <4> QED BY <3>1, <4>1
    <3>3. h = [U \in SUBSET T |-> h[U]]
      OBVIOUS
    <3> HIDE DEF h
    <3> QED BY <3>2, <3>3 DEF IsSum
  <2> QED BY <2>4
<1>2. D \in Good
  <2> HIDE DEF Good
  <2> QED BY <1>1, Induction
<1> QED BY <1>2

\* The sum over no index is 0; over some, the first index's value is added to
\* the sum over the others.
LEMMA SumUnfold ==
  ASSUME NEW f, NEW D, IsFiniteSet(D)
  PROVE  SumFunctionOnSet(f, D) =
           IF D = {} THEN 0 ELSE f[First(D)] + SumFunctionOnSet(f, D \ {First(D)})
<1> DEFINE of(U) == CHOOSE g : IsSum(g, f, U)
           rest == D \ {First(D)}
<1>1. IsSum(of(D), f, D)
  BY SumExists
<1>2. IsFiniteSet(rest) /\ rest \subseteq D /\ rest \subseteq rest
  BY FS_Subset
<1>3. IsSum(of(rest), f, rest)
  BY <1>2, SumExists
<1>4. of(D)[rest] = of(rest)[rest]
  <2> HIDE DEF of, rest
  <2> QED BY <1>1, <1>2, <1>3, SumUnique
<1>5. of(D)[D] = IF D = {} THEN 0 ELSE f[First(D)] + of(D)[rest]
  <2> HIDE DEF of
  <2> QED BY <1>1 DEF IsSum
<1>6. SumFunctionOnSet(f, D) = of(D)[D] /\ SumFunctionOnSet(f, rest) = of(rest)[rest]
  BY SumIsFold
<1> QED BY <1>4, <1>5, <1>6

-----------------------------------------------------------------------------
(* Sums of numbers: the order of the indices does not matter.              *)

\* A sum of integers is an integer.
LEMMA SumType ==
  ASSUME NEW f, NEW D, IsFiniteSet(D), \A i \in D : f[i] \in Int
  PROVE  SumFunctionOnSet(f, D) \in Int
<1> DEFINE Good == {T \in SUBSET D : SumFunctionOnSet(f, T) \in Int}
<1>1. ASSUME NEW T \in SUBSET D, \A U \in SUBSET T : U # T => U \in Good
      PROVE  T \in Good
  <2>1. IsFiniteSet(T)
    BY FS_Subset
  <2>2. SumFunctionOnSet(f, T) =
          IF T = {} THEN 0 ELSE f[First(T)] + SumFunctionOnSet(f, T \ {First(T)})
    BY <2>1, SumUnfold
  <2>3. CASE T # {}
    <3>1. First(T) \in T
      BY <2>3, FirstIsMember
    <3>2. T \ {First(T)} \in Good
      BY <1>1, <3>1
    <3> QED BY <2>2, <2>3, <3>1, <3>2
  <2> QED BY <2>2, <2>3
<1>2. D \in Good
  <2> HIDE DEF Good
  <2> QED BY <1>1, Induction
<1> QED BY <1>2

\* Any index may come first.
LEMMA SumRemove ==
  ASSUME NEW f, NEW D, IsFiniteSet(D), \A i \in D : f[i] \in Int, NEW x \in D
  PROVE  SumFunctionOnSet(f, D) = f[x] + SumFunctionOnSet(f, D \ {x})
<1> DEFINE Sum(T) == SumFunctionOnSet(f, T)
           Good == {T \in SUBSET D : \A y \in T : Sum(T) = f[y] + Sum(T \ {y})}
<1>1. ASSUME NEW T \in SUBSET D, \A U \in SUBSET T : U # T => U \in Good
      PROVE  T \in Good
  <2> SUFFICES ASSUME NEW y \in T PROVE Sum(T) = f[y] + Sum(T \ {y})
    OBVIOUS
  <2> DEFINE z == First(T)
  <2>1. z \in T
    BY FirstIsMember
  <2>2. IsFiniteSet(T)
    BY FS_Subset
  <2>3. Sum(T) = f[z] + Sum(T \ {z})
    BY <2>2, SumUnfold
  <2>4. CASE y # z
    <3>1. Sum(T \ {z}) = f[y] + Sum((T \ {z}) \ {y})
      <4>1. T \ {z} \in Good /\ y \in T \ {z}
        BY <1>1, <2>1, <2>4
      <4> QED BY <4>1
    <3>2. Sum(T \ {y}) = f[z] + Sum((T \ {y}) \ {z})
      <4>1. T \ {y} \in Good /\ z \in T \ {y}
        BY <1>1, <2>1, <2>4
      <4> QED BY <4>1
    <3>3. (T \ {z}) \ {y} = (T \ {y}) \ {z}
      OBVIOUS
    <3>4. Sum((T \ {z}) \ {y}) \in Int
      <4>1. IsFiniteSet((T \ {z}) \ {y})
        BY <2>2, FS_Subset
      <4> QED BY <4>1, SumType
    <3>5. f[y] \in Int /\ f[z] \in Int
      BY <2>1
    <3>6. Sum((T \ {z}) \ {y}) = Sum((T \ {y}) \ {z})
      BY <3>3
    <3> DEFINE n == Sum((T \ {z}) \ {y})
    <3>7. /\ Sum(T) = f[z] + (f[y] + n)
          /\ f[y] + Sum(T \ {y}) = f[y] + (f[z] + n)
      BY <2>3, <3>1, <3>2, <3>6
    <3> HIDE DEF n, Sum, z
    <3> QED BY <3>4, <3>5, <3>7 DEF n
  <2> HIDE DEF Sum, z
  <2> QED BY <2>3, <2>4
<1>2. D \in Good
  <2> HIDE DEF Good
  <2> QED BY <1>1, Induction
<1> QED BY <1>2

\* The empty sum, and the sum over one more index.
LEMMA SumEmpty == \A f : SumFunctionOnSet(f, {}) = 0
BY FS_EmptySet, SumUnfold

LEMMA SumAdd ==
  ASSUME NEW f, NEW D, IsFiniteSet(D), NEW x, x \notin D,
         \A i \in D \cup {x} : f[i] \in Int
  PROVE  SumFunctionOnSet(f, D \cup {x}) = f[x] + SumFunctionOnSet(f, D)
<1>1. IsFiniteSet(D \cup {x}) /\ (D \cup {x}) \ {x} = D
  BY FS_AddElement
<1> QED BY <1>1, SumRemove

\* Induction that adds one index at a time.
LEMMA Growing ==
  ASSUME NEW S, IsFiniteSet(S), NEW Good, {} \in Good,
         \A T \in SUBSET S, x \in S : T \in Good /\ x \notin T => T \cup {x} \in Good
  PROVE  S \in Good
<1>1. ASSUME NEW T \in SUBSET S, \A U \in SUBSET T : U # T => U \in Good
      PROVE  T \in Good
  <2>1. ASSUME NEW x \in T PROVE T \in Good
    <3>1. T \ {x} \in Good /\ (T \ {x}) \cup {x} = T
      BY <1>1
    <3>2. T \ {x} \in SUBSET S /\ x \in S /\ x \notin T \ {x}
      OBVIOUS
    <3> QED BY <3>1, <3>2
  <2> QED BY <2>1
<1> QED BY <1>1, Induction

\* Natural numbers have a natural sum.
LEMMA SumNat ==
  ASSUME NEW f, NEW D, IsFiniteSet(D), \A i \in D : f[i] \in Nat
  PROVE  SumFunctionOnSet(f, D) \in Nat
<1> DEFINE Good == {T \in SUBSET D : SumFunctionOnSet(f, T) \in Nat}
<1>1. {} \in Good
  BY SumEmpty
<1>2. ASSUME NEW T \in SUBSET D, NEW x \in D, T \in Good, x \notin T
      PROVE  T \cup {x} \in Good
  <2>1. IsFiniteSet(T) /\ (\A i \in T \cup {x} : f[i] \in Int)
    BY FS_Subset
  <2>2. SumFunctionOnSet(f, T \cup {x}) = f[x] + SumFunctionOnSet(f, T)
    BY <1>2, <2>1, SumAdd
  <2> QED BY <1>2, <2>2
<1>3. D \in Good
  <2> HIDE DEF Good
  <2> QED BY <1>1, <1>2, Growing
<1> QED BY <1>3

\* Functions that agree on the indices have the same sum.
LEMMA SumSame ==
  ASSUME NEW f, NEW g, NEW D, IsFiniteSet(D),
         \A i \in D : f[i] \in Int /\ g[i] = f[i]
  PROVE  SumFunctionOnSet(g, D) = SumFunctionOnSet(f, D)
<1> DEFINE Good == {T \in SUBSET D : SumFunctionOnSet(g, T) = SumFunctionOnSet(f, T)}
<1>1. {} \in Good
  BY SumEmpty
<1>2. ASSUME NEW T \in SUBSET D, NEW x \in D, T \in Good, x \notin T
      PROVE  T \cup {x} \in Good
  <2>1. IsFiniteSet(T) /\ (\A i \in T \cup {x} : f[i] \in Int /\ g[i] \in Int)
    BY FS_Subset
  <2>2. /\ SumFunctionOnSet(f, T \cup {x}) = f[x] + SumFunctionOnSet(f, T)
        /\ SumFunctionOnSet(g, T \cup {x}) = g[x] + SumFunctionOnSet(g, T)
    BY <1>2, <2>1, SumAdd
  <2> QED BY <1>2, <2>2
<1>3. D \in Good
  <2> HIDE DEF Good
  <2> QED BY <1>1, <1>2, Growing
<1> QED BY <1>3

\* The sum of a linear combination.
LEMMA SumLinear ==
  ASSUME NEW f, NEW g, NEW h, NEW D, IsFiniteSet(D), NEW a \in Int,
         \A i \in D : f[i] \in Int /\ g[i] \in Int /\ h[i] = a * f[i] + g[i]
  PROVE  SumFunctionOnSet(h, D) = a * SumFunctionOnSet(f, D) + SumFunctionOnSet(g, D)
<1> DEFINE F(T) == SumFunctionOnSet(f, T)
           G(T) == SumFunctionOnSet(g, T)
           H(T) == SumFunctionOnSet(h, T)
           Good == {T \in SUBSET D : H(T) = a * F(T) + G(T)}
<1>1. {} \in Good
  BY SumEmpty
<1>2. ASSUME NEW T \in SUBSET D, NEW x \in D, T \in Good, x \notin T
      PROVE  T \cup {x} \in Good
  <2>1. IsFiniteSet(T)
    BY FS_Subset
  <2>2. \A i \in T \cup {x} : f[i] \in Int /\ g[i] \in Int /\ h[i] \in Int
    OBVIOUS
  <2>3. /\ F(T \cup {x}) = f[x] + F(T)
        /\ G(T \cup {x}) = g[x] + G(T)
        /\ H(T \cup {x}) = h[x] + H(T)
    BY <1>2, <2>1, <2>2, SumAdd
  <2>4. F(T) \in Int /\ G(T) \in Int
    BY <2>1, <2>2, SumType
  <2>5. H(T) = a * F(T) + G(T) /\ h[x] = a * f[x] + g[x]
    BY <1>2
  <2>6. a * (f[x] + F(T)) = a * f[x] + a * F(T)
    <3> HIDE DEF F
    <3> QED BY <2>2, <2>4
  <2>7. /\ a * f[x] \in Int /\ a * F(T) \in Int
        /\ f[x] \in Int /\ g[x] \in Int
    <3> HIDE DEF F
    <3> QED BY <2>2, <2>4
  <2>8. H(T \cup {x}) = a * F(T \cup {x}) + G(T \cup {x})
    <3> HIDE DEF F, G, H
    <3> QED BY <2>3, <2>4, <2>5, <2>6, <2>7
  <2> QED BY <2>8
<1>3. D \in Good
  <2> HIDE DEF Good
  <2> QED BY <1>1, <1>2, Growing
<1> QED BY <1>3

\* Larger values have the larger sum.
LEMMA SumAtMost ==
  ASSUME NEW f, NEW g, NEW D, IsFiniteSet(D),
         \A i \in D : f[i] \in Int /\ g[i] \in Int /\ f[i] <= g[i]
  PROVE  SumFunctionOnSet(f, D) <= SumFunctionOnSet(g, D)
<1> DEFINE Good == {T \in SUBSET D : SumFunctionOnSet(f, T) <= SumFunctionOnSet(g, T)}
<1>1. {} \in Good
  BY SumEmpty
<1>2. ASSUME NEW T \in SUBSET D, NEW x \in D, T \in Good, x \notin T
      PROVE  T \cup {x} \in Good
  <2>1. IsFiniteSet(T) /\ (\A i \in T \cup {x} : f[i] \in Int /\ g[i] \in Int)
    BY FS_Subset
  <2>2. /\ SumFunctionOnSet(f, T \cup {x}) = f[x] + SumFunctionOnSet(f, T)
        /\ SumFunctionOnSet(g, T \cup {x}) = g[x] + SumFunctionOnSet(g, T)
    BY <1>2, <2>1, SumAdd
  <2>3. SumFunctionOnSet(f, T) \in Int /\ SumFunctionOnSet(g, T) \in Int
    BY <2>1, SumType
  <2>4. f[x] \in Int /\ g[x] \in Int /\ f[x] <= g[x]
    OBVIOUS
  <2>5. SumFunctionOnSet(f, T) <= SumFunctionOnSet(g, T)
    BY <1>2
  <2>6. SumFunctionOnSet(f, T \cup {x}) <= SumFunctionOnSet(g, T \cup {x})
    BY <2>2, <2>3, <2>4, <2>5
  <2> QED BY <2>6
<1>3. D \in Good
  <2> HIDE DEF Good
  <2> QED BY <1>1, <1>2, Growing
<1> QED BY <1>3

\* Indices whose value is 0 may be left out.
LEMMA SumOfZeros ==
  ASSUME NEW f, NEW D, NEW E, IsFiniteSet(D), E \subseteq D,
         \A i \in D : f[i] \in Int, \A i \in D \ E : f[i] = 0
  PROVE  SumFunctionOnSet(f, D) = SumFunctionOnSet(f, E)
<1> DEFINE rest == D \ E
           Good == {T \in SUBSET rest :
                      SumFunctionOnSet(f, E \cup T) = SumFunctionOnSet(f, E)}
<1>1. {} \in Good
  OBVIOUS
<1>2. ASSUME NEW T \in SUBSET rest, NEW x \in rest, T \in Good, x \notin T
      PROVE  T \cup {x} \in Good
  <2>1. IsFiniteSet(E \cup T) /\ IsFiniteSet(E)
    <3>1. E \cup T \in SUBSET D /\ E \in SUBSET D
      OBVIOUS
    <3> QED BY <3>1, FS_Subset
  <2>2. \A i \in (E \cup T) \cup {x} : f[i] \in Int
    OBVIOUS
  <2>3. x \notin E \cup T
    BY <1>2
  <2>4. SumFunctionOnSet(f, (E \cup T) \cup {x}) = f[x] + SumFunctionOnSet(f, E \cup T)
    BY <2>1, <2>2, <2>3, SumAdd
  <2>5. (E \cup T) \cup {x} = E \cup (T \cup {x})
    OBVIOUS
  <2>6. SumFunctionOnSet(f, E) \in Int /\ f[x] = 0
    BY <2>1, SumType
  <2>7. SumFunctionOnSet(f, E \cup T) = SumFunctionOnSet(f, E)
    BY <1>2
  <2>8. SumFunctionOnSet(f, E \cup (T \cup {x})) = SumFunctionOnSet(f, E)
    <3>1. SumFunctionOnSet(f, E \cup (T \cup {x})) = f[x] + SumFunctionOnSet(f, E \cup T)
      BY <2>4, <2>5
    <3> QED BY <2>6, <2>7, <3>1
  <2>9. T \cup {x} \in SUBSET rest
    OBVIOUS
  <2> HIDE DEF rest
  <2> QED BY <2>8, <2>9
<1>3. rest \in Good
  <2>1. IsFiniteSet(rest)
    BY FS_Difference
  <2> HIDE DEF Good, rest
  <2> QED BY <1>1, <1>2, <2>1, Growing
<1>4. E \cup rest = D
  OBVIOUS
<1> QED BY <1>3, <1>4

\* A constant is counted once for each index.
LEMMA SumConstant ==
  ASSUME NEW f, NEW D, IsFiniteSet(D), NEW a \in Int, \A i \in D : f[i] = a
  PROVE  SumFunctionOnSet(f, D) = a * Cardinality(D)
<1> DEFINE Good == {T \in SUBSET D : SumFunctionOnSet(f, T) = a * Cardinality(T)}
<1>1. {} \in Good
  BY SumEmpty, FS_EmptySet
<1>2. ASSUME NEW T \in SUBSET D, NEW x \in D, T \in Good, x \notin T
      PROVE  T \cup {x} \in Good
  <2>1. IsFiniteSet(T) /\ (\A i \in T \cup {x} : f[i] \in Int)
    BY FS_Subset
  <2>2. SumFunctionOnSet(f, T \cup {x}) = a + SumFunctionOnSet(f, T)
    BY <1>2, <2>1, SumAdd
  <2>3. Cardinality(T \cup {x}) = Cardinality(T) + 1 /\ Cardinality(T) \in Nat
    BY <1>2, <2>1, FS_AddElement, FS_CardinalityType
  <2>4. SumFunctionOnSet(f, T) = a * Cardinality(T)
    BY <1>2
  <2>5. a * (Cardinality(T) + 1) = a + a * Cardinality(T)
    BY <2>3
  <2> QED BY <2>2, <2>3, <2>4, <2>5
<1>3. D \in Good
  <2> HIDE DEF Good
  <2> QED BY <1>1, <1>2, Growing
<1> QED BY <1>3

\* A sum of natural numbers is 0 only if all of them are.
LEMMA SumBoundsEach ==
  ASSUME NEW f, NEW D, IsFiniteSet(D), \A i \in D : f[i] \in Nat, NEW x \in D
  PROVE  f[x] <= SumFunctionOnSet(f, D)
<1>1. SumFunctionOnSet(f, D) = f[x] + SumFunctionOnSet(f, D \ {x})
  BY SumRemove
<1>2. SumFunctionOnSet(f, D \ {x}) \in Nat
  <2>1. IsFiniteSet(D \ {x})
    BY FS_Subset
  <2> QED BY <2>1, SumNat
<1> QED BY <1>1, <1>2

\* Changing the value of one index changes the sum by the difference.
LEMMA SumChange ==
  ASSUME NEW f, NEW g, NEW D, IsFiniteSet(D), NEW x \in D,
         \A i \in D : f[i] \in Int /\ g[i] \in Int,
         \A i \in D \ {x} : g[i] = f[i]
  PROVE  SumFunctionOnSet(g, D) = SumFunctionOnSet(f, D) + (g[x] - f[x])
<1>1. /\ SumFunctionOnSet(f, D) = f[x] + SumFunctionOnSet(f, D \ {x})
      /\ SumFunctionOnSet(g, D) = g[x] + SumFunctionOnSet(g, D \ {x})
  BY SumRemove
<1>2. IsFiniteSet(D \ {x})
  BY FS_Subset
<1>3. SumFunctionOnSet(g, D \ {x}) = SumFunctionOnSet(f, D \ {x})
  BY <1>2, SumSame
<1>4. SumFunctionOnSet(f, D \ {x}) \in Int
  BY <1>2, SumType
<1> QED BY <1>1, <1>3, <1>4

\* SumFunction adds over the whole domain.
LEMMA SumIsOverDomain == \A f : SumFunction(f) = SumFunctionOnSet(f, DOMAIN f)
BY DEF SumFunction

-----------------------------------------------------------------------------
(* The arithmetic of the payout.                                           *)

LEMMA Division ==
  ASSUME NEW a \in Nat, NEW b \in Nat \ {0}
  PROVE  /\ a \div b \in Nat
         /\ a % b \in 0..(b - 1)
         /\ a = b * (a \div b) + (a % b)
OBVIOUS

\* A pool is a number of cents, never more than were bet; without a joker it is
\* the percentage of them, to within half a cent.
LEMMA PoolsBounded ==
  ASSUME NEW total \in Nat, NEW percent \in Nat, NEW multiplier \in Nat \ {0},
         NEW pool \in Pools(total, percent, multiplier)
  PROVE  /\ pool \in Nat
         /\ pool <= total
         /\ multiplier = 1 => 2 * Whole * pool <= 2 * total * percent + Whole
<1>1. PICK n \in Allocations(total, percent) :
        pool = IF n * multiplier < total THEN n * multiplier ELSE total
  BY DEF Pools
<1>2. total * percent \in Nat
  OBVIOUS
<1>3. n \in Nat /\ 2 * n * Whole <= 2 * total * percent + Whole
  <2> DEFINE a == total * percent
  <2>1. a \in Nat /\ 2 * total * percent = 2 * a
    OBVIOUS
  <2>2. a \div Whole \in Nat
    <3> HIDE DEF a
    <3> QED BY <2>1, Division DEF Whole
  <2>3. n \in {a \div Whole, a \div Whole + 1} /\ 2 * n * Whole <= 2 * total * percent + Whole
    BY DEF Allocations
  <2> HIDE DEF a
  <2> QED BY <2>2, <2>3
<1>4. n * multiplier \in Nat /\ (multiplier = 1 => n * multiplier = n)
  BY <1>3
<1>5. pool \in Nat /\ pool <= total
  BY <1>1, <1>4
<1>6. ASSUME multiplier = 1 PROVE 2 * Whole * pool <= 2 * total * percent + Whole
  <2>1. pool <= n
    BY <1>1, <1>3, <1>4, <1>6
  <2>2. 2 * Whole * pool <= 2 * Whole * n /\ 2 * Whole * n = 2 * n * Whole
    BY <1>3, <1>5, <2>1 DEF Whole
  <2>3. 2 * total * percent \in Int
    OBVIOUS
  <2> QED BY <1>3, <1>5, <2>2, <2>3 DEF Whole
<1> QED BY <1>5, <1>6

\* the winners' stakes, and the pool they share
Stakes(D) == [D -> Nat \ {0}]

\* Floors and remainders have their types, and the stakes a positive sum.
LEMMA SharesType ==
  ASSUME NEW D, IsFiniteSet(D), D # {}, NEW stakes \in Stakes(D), NEW pool \in Nat
  PROVE  /\ SumFunction(stakes) \in Nat \ {0}
         /\ FloorShares(pool, stakes) \in [D -> Nat]
         /\ Remainders(pool, stakes) \in [D -> 0..(SumFunction(stakes) - 1)]
         /\ \A p \in D : pool * stakes[p] =
              SumFunction(stakes) * FloorShares(pool, stakes)[p]
                + Remainders(pool, stakes)[p]
<1> DEFINE S == SumFunction(stakes)
<1>1. S \in Nat /\ (\A p \in D : stakes[p] <= S)
  <2>1. S = SumFunctionOnSet(stakes, D) /\ (\A p \in D : stakes[p] \in Nat)
    BY SumIsOverDomain DEF Stakes
  <2> HIDE DEF S
  <2> QED BY <2>1, SumNat, SumBoundsEach
<1>2. S \in Nat \ {0}
  <2>1. PICK p \in D : TRUE
    OBVIOUS
  <2>2. stakes[p] \in Nat \ {0}
    BY DEF Stakes
  <2> HIDE DEF S
  <2> QED BY <1>1, <2>1, <2>2
<1>3. \A p \in D : /\ (pool * stakes[p]) \div S \in Nat
                   /\ (pool * stakes[p]) % S \in 0..(S - 1)
                   /\ pool * stakes[p] =
                        S * ((pool * stakes[p]) \div S) + ((pool * stakes[p]) % S)
  <2> TAKE p \in D
  <2> DEFINE a == pool * stakes[p]
  <2>1. a \in Nat
    BY DEF Stakes
  <2>2. a \div S \in Nat /\ a % S \in 0..(S - 1) /\ a = S * (a \div S) + (a % S)
    <3> HIDE DEF S, a
    <3> QED BY <1>2, <2>1, Division
  <2> QED BY <2>2
<1>4. DOMAIN stakes = D
  BY DEF Stakes
<1>5. /\ FloorShares(pool, stakes) = [p \in D |-> (pool * stakes[p]) \div S]
      /\ Remainders(pool, stakes) = [p \in D |-> (pool * stakes[p]) % S]
  BY <1>4 DEF FloorShares, Remainders
<1> HIDE DEF S
<1>6. FloorShares(pool, stakes) \in [D -> Nat]
  BY <1>3, <1>5
<1>7. Remainders(pool, stakes) \in [D -> 0..(S - 1)]
  BY <1>3, <1>5
<1>8. \A p \in D : pool * stakes[p] =
        S * FloorShares(pool, stakes)[p] + Remainders(pool, stakes)[p]
  <2> TAKE p \in D
  <2>1. /\ FloorShares(pool, stakes)[p] = (pool * stakes[p]) \div S
        /\ Remainders(pool, stakes)[p] = (pool * stakes[p]) % S
    BY <1>5
  <2>2. pool * stakes[p] = S * ((pool * stakes[p]) \div S) + ((pool * stakes[p]) % S)
    BY <1>3
  <2> QED BY <2>1, <2>2
<1> USE DEF S
<1> QED BY <1>2, <1>6, <1>7, <1>8, Zenon

\* The floors leave fewer cents than there are winners.
LEMMA FloorsLeaveFewer ==
  ASSUME NEW D, IsFiniteSet(D), D # {}, NEW stakes \in Stakes(D), NEW pool \in Nat
  PROVE  /\ SumFunction(FloorShares(pool, stakes)) \in Nat
         /\ SumFunction(FloorShares(pool, stakes)) <= pool
         /\ pool - SumFunction(FloorShares(pool, stakes)) < Cardinality(D)
<1> DEFINE S == SumFunction(stakes)
           floor == FloorShares(pool, stakes)
           rest == Remainders(pool, stakes)
           F == SumFunctionOnSet(floor, D)
           R == SumFunctionOnSet(rest, D)
           exact == [p \in D |-> pool * stakes[p]]
           zero == [p \in D |-> 0]
           most == [p \in D |-> S - 1]
           N == Cardinality(D)
<1>1. /\ S \in Nat \ {0} /\ floor \in [D -> Nat] /\ rest \in [D -> 0..(S - 1)]
      /\ \A p \in D : pool * stakes[p] = S * floor[p] + rest[p]
      /\ \A p \in D : stakes[p] \in Nat
  BY SharesType DEF Stakes
<1>2. S = SumFunctionOnSet(stakes, D) /\ SumFunction(floor) = F
  BY <1>1, SumIsOverDomain DEF Stakes
<1> HIDE DEF S, floor, rest
<1>3. F \in Nat /\ R \in Nat
  <2>1. \A p \in D : floor[p] \in Nat /\ rest[p] \in Nat
    BY <1>1
  <2> QED BY <2>1, SumNat
<1>4. SumFunctionOnSet(exact, D) = S * F + R
  <2>1. \A p \in D : /\ floor[p] \in Int /\ rest[p] \in Int
                     /\ exact[p] = S * floor[p] + rest[p]
    BY <1>1
  <2>2. S \in Int
    BY <1>1
  <2> HIDE DEF exact
  <2> QED BY <2>1, <2>2, SumLinear
<1>5. SumFunctionOnSet(exact, D) = pool * S
  <2>1. \A p \in D : /\ stakes[p] \in Int /\ zero[p] \in Int
                     /\ exact[p] = pool * stakes[p] + zero[p]
    BY <1>1
  <2>2. SumFunctionOnSet(exact, D) = pool * S + SumFunctionOnSet(zero, D)
    <3> HIDE DEF exact, zero
    <3> QED BY <1>2, <2>1, SumLinear
  <2>3. SumFunctionOnSet(zero, D) = 0
    <3>1. \A p \in D : zero[p] = 0
      OBVIOUS
    <3>2. SumFunctionOnSet(zero, D) = 0 * Cardinality(D)
      <4> HIDE DEF zero
      <4> QED BY <3>1, SumConstant
    <3> QED BY <3>2, FS_CardinalityType
  <2>4. pool * S \in Int
    BY <1>1
  <2> HIDE DEF zero, exact
  <2> QED BY <2>2, <2>3, <2>4
<1>6. N \in Nat \ {0}
  BY FS_CardinalityType, FS_EmptySet
<1>7. R <= (S - 1) * N
  <2>1. \A p \in D : rest[p] \in Int /\ most[p] \in Int /\ rest[p] <= most[p]
    BY <1>1
  <2>2. R <= SumFunctionOnSet(most, D)
    <3> HIDE DEF most
    <3> QED BY <2>1, SumAtMost
  <2>3. (\A p \in D : most[p] = S - 1) /\ S - 1 \in Int
    BY <1>1
  <2>4. SumFunctionOnSet(most, D) = (S - 1) * N
    <3> HIDE DEF most
    <3> QED BY <2>3, SumConstant
  <2> QED BY <2>2, <2>4
<1> HIDE DEF F, R, exact, N
<1>8. S * F <= S * pool
  BY <1>1, <1>3, <1>4, <1>5
<1>9. F <= pool
  BY <1>1, <1>3, <1>8
<1>10. S * (pool - F) < S * N
  <2>1. S * (pool - F) = S * pool - S * F
    BY <1>1, <1>3
  <2>2. S * (pool - F) = R
    BY <1>1, <1>3, <1>4, <1>5, <2>1
  <2>3. (S - 1) * N = S * N - N
    BY <1>1, <1>6
  <2>4. S * N \in Int
    BY <1>1, <1>6
  <2> QED BY <1>3, <1>6, <1>7, <2>2, <2>3, <2>4
<1>11. pool - F < N
  BY <1>1, <1>3, <1>6, <1>10
<1> QED BY <1>2, <1>3, <1>9, <1>11 DEF N, floor

\* One more cent for each of some winners adds as many cents as they are.
LEMMA CentsAdd ==
  ASSUME NEW D, IsFiniteSet(D), NEW floor \in [D -> Nat], NEW L \in SUBSET D
  PROVE  SumFunction([p \in D |-> floor[p] + IF p \in L THEN 1 ELSE 0])
           = SumFunction(floor) + Cardinality(L)
<1> DEFINE cent == [p \in D |-> IF p \in L THEN 1 ELSE 0]
           pay == [p \in D |-> floor[p] + IF p \in L THEN 1 ELSE 0]
<1>1. SumFunction(pay) = SumFunctionOnSet(pay, D) /\ SumFunction(floor) = SumFunctionOnSet(floor, D)
  BY SumIsOverDomain
<1>2. \A p \in D : floor[p] \in Int /\ cent[p] \in Int /\ pay[p] = 1 * cent[p] + floor[p]
  OBVIOUS
<1>3. SumFunctionOnSet(pay, D) = 1 * SumFunctionOnSet(cent, D) + SumFunctionOnSet(floor, D)
  <2> HIDE DEF cent, pay
  <2> QED BY <1>2, SumLinear
<1>4. SumFunctionOnSet(cent, D) = SumFunctionOnSet(cent, L)
  <2>1. (\A p \in D \ L : cent[p] = 0) /\ L \subseteq D
    OBVIOUS
  <2> HIDE DEF cent
  <2> QED BY <1>2, <2>1, SumOfZeros
<1>5. IsFiniteSet(L) /\ Cardinality(L) \in Nat
  BY FS_Subset, FS_CardinalityType
<1>6. SumFunctionOnSet(cent, L) = 1 * Cardinality(L)
  <2>1. \A p \in L : cent[p] = 1
    OBVIOUS
  <2> HIDE DEF cent
  <2> QED BY <1>5, <2>1, SumConstant
<1>7. SumFunctionOnSet(floor, D) \in Int
  BY SumType
<1> HIDE DEF pay, cent
<1>8. SumFunction(pay) = SumFunction(floor) + Cardinality(L)
  BY <1>1, <1>3, <1>4, <1>5, <1>6, <1>7
<1> QED BY <1>8 DEF pay

\* Every way to pay by largest remainder pays the pool, to the cent.
LEMMA PayoutsPayThePool ==
  ASSUME NEW D, IsFiniteSet(D), D # {}, NEW stakes \in Stakes(D), NEW pool \in Nat,
         NEW pay \in Payouts(pool, stakes)
  PROVE  pay \in [D -> Nat] /\ SumFunction(pay) = pool
<1> DEFINE floor == FloorShares(pool, stakes)
<1>1. floor \in [D -> Nat] /\ DOMAIN stakes = D
  BY SharesType DEF Stakes
<1>2. PICK L \in SUBSET D :
        /\ Cardinality(L) = pool - SumFunction(floor)
        /\ pay = [p \in D |-> floor[p] + IF p \in L THEN 1 ELSE 0]
  <2> HIDE DEF floor
  <2> QED BY <1>1 DEF Payouts, floor
<1>3. SumFunction(floor) \in Nat
  BY FloorsLeaveFewer
<1> HIDE DEF floor
<1>4. pay \in [D -> Nat]
  BY <1>1, <1>2
<1>5. SumFunction(pay) = SumFunction(floor) + Cardinality(L)
  BY <1>1, <1>2, CentsAdd
<1> QED BY <1>2, <1>3, <1>4, <1>5

\* The larger of two stakes has the larger floor, or the same floor and the larger
\* remainder.
LEMMA SharesMonotone ==
  ASSUME NEW D, IsFiniteSet(D), D # {}, NEW stakes \in Stakes(D), NEW pool \in Nat,
         NEW p \in D, NEW q \in D
  PROVE  /\ stakes[p] = stakes[q] =>
              FloorShares(pool, stakes)[p] = FloorShares(pool, stakes)[q]
         /\ stakes[p] > stakes[q] =>
              \/ FloorShares(pool, stakes)[p] > FloorShares(pool, stakes)[q]
              \/ /\ FloorShares(pool, stakes)[p] = FloorShares(pool, stakes)[q]
                 /\ \/ pool = 0
                    \/ Remainders(pool, stakes)[p] > Remainders(pool, stakes)[q]
<1> DEFINE S == SumFunction(stakes)
           F == FloorShares(pool, stakes)
           R == Remainders(pool, stakes)
<1>1. /\ S \in Nat \ {0}
      /\ F[p] \in Nat /\ F[q] \in Nat /\ R[p] \in 0..(S - 1) /\ R[q] \in 0..(S - 1)
      /\ pool * stakes[p] = S * F[p] + R[p]
      /\ pool * stakes[q] = S * F[q] + R[q]
      /\ stakes[p] \in Nat /\ stakes[q] \in Nat
  <2>1. /\ S \in Nat \ {0} /\ F \in [D -> Nat] /\ R \in [D -> 0..(S - 1)]
        /\ \A x \in D : pool * stakes[x] = S * F[x] + R[x]
    BY SharesType
  <2>2. stakes \in [D -> Nat \ {0}]
    BY DEF Stakes
  <2> HIDE DEF S, F, R
  <2> QED BY <2>1, <2>2
<1>2. stakes[p] = stakes[q] => F[p] = F[q]
  BY DEF FloorShares, Stakes
<1> HIDE DEF S, F, R
<1>3. ASSUME stakes[p] > stakes[q], F[p] < F[q] PROVE FALSE
  <2>1. pool * stakes[q] <= pool * stakes[p]
    BY <1>1, <1>3
  <2>2. S * (F[p] + 1) <= S * F[q]
    BY <1>1, <1>3
  <2>3. S * (F[p] + 1) = S * F[p] + S
    BY <1>1
  <2>4. S * F[p] \in Int /\ S * F[q] \in Int
    BY <1>1
  <2> QED BY <1>1, <2>1, <2>2, <2>3, <2>4
<1>4. ASSUME stakes[p] > stakes[q], F[p] = F[q], pool # 0 PROVE R[p] > R[q]
  <2>1. pool * (stakes[q] + 1) <= pool * stakes[p]
    BY <1>1, <1>4
  <2>2. pool * (stakes[q] + 1) = pool * stakes[q] + pool
    BY <1>1
  <2>3. S * F[p] = S * F[q] /\ S * F[q] \in Int
    BY <1>1, <1>4
  <2> QED BY <1>1, <1>4, <2>1, <2>2, <2>3
<1>5. stakes[p] > stakes[q] => F[p] > F[q] \/ (F[p] = F[q] /\ (pool = 0 \/ R[p] > R[q]))
  BY <1>1, <1>3, <1>4
<1> QED BY <1>2, <1>5 DEF F, R

\* Paid by largest remainder, the larger stake never gets less, and equal stakes
\* differ by one cent at most.
LEMMA PayoutsFollowStakes ==
  ASSUME NEW D, IsFiniteSet(D), D # {}, NEW stakes \in Stakes(D), NEW pool \in Nat,
         NEW pay \in Payouts(pool, stakes), NEW p \in D, NEW q \in D
  PROVE  /\ stakes[p] > stakes[q] => pay[p] >= pay[q]
         /\ stakes[p] = stakes[q] => pay[p] <= pay[q] + 1
<1> DEFINE floor == FloorShares(pool, stakes)
           rest == Remainders(pool, stakes)
<1>1. DOMAIN stakes = D /\ floor[p] \in Nat /\ floor[q] \in Nat
  BY SharesType DEF Stakes
<1>2. PICK L \in SUBSET D :
        /\ Cardinality(L) = pool - SumFunction(floor)
        /\ \A x \in L, y \in D \ L : rest[x] >= rest[y]
        /\ pay = [x \in D |-> floor[x] + IF x \in L THEN 1 ELSE 0]
  <2> HIDE DEF floor, rest
  <2> QED BY <1>1 DEF Payouts, floor, rest
<1>3. rest[p] \in Nat /\ rest[q] \in Nat
  <2>1. /\ rest \in [D -> 0..(SumFunction(stakes) - 1)]
        /\ SumFunction(stakes) \in Nat
    BY SharesType
  <2> HIDE DEF rest
  <2> QED BY <2>1
<1>4. /\ pay[p] = floor[p] + IF p \in L THEN 1 ELSE 0
      /\ pay[q] = floor[q] + IF q \in L THEN 1 ELSE 0
  BY <1>2
<1>5. stakes[p] = stakes[q] => floor[p] = floor[q]
  BY SharesMonotone
<1>6. stakes[p] > stakes[q] =>
        floor[p] > floor[q] \/ (floor[p] = floor[q] /\ (pool = 0 \/ rest[p] > rest[q]))
  BY SharesMonotone
<1>7. ASSUME pool = 0 PROVE L = {}
  <2>1. SumFunction(floor) \in Nat
    BY FloorsLeaveFewer
  <2>2. IsFiniteSet(L) /\ Cardinality(L) \in Nat
    BY FS_Subset, FS_CardinalityType
  <2>3. Cardinality(L) = 0
    BY <1>2, <1>7, <2>1, <2>2
  <2> QED BY <2>2, <2>3, FS_EmptySet
<1> HIDE DEF floor, rest
<1>8. ASSUME stakes[p] > stakes[q] PROVE pay[p] >= pay[q]
  <2>1. CASE floor[p] > floor[q]
    BY <1>1, <1>4, <2>1
  <2>2. CASE floor[p] = floor[q] /\ pool = 0
    BY <1>1, <1>4, <1>7, <2>2
  <2>3. CASE floor[p] = floor[q] /\ rest[p] > rest[q]
    <3>1. q \in L => p \in L
      BY <1>2, <1>3, <2>3
    <3> QED BY <1>1, <1>4, <2>3, <3>1
  <2> QED BY <1>6, <1>8, <2>1, <2>2, <2>3
<1>9. ASSUME stakes[p] = stakes[q] PROVE pay[p] <= pay[q] + 1
  BY <1>1, <1>4, <1>5, <1>9
<1> QED BY <1>8, <1>9

=============================================================================
