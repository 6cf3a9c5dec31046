----------------------------- MODULE SumTheorems -----------------------------
(***************************************************************************)
(* Facts about SumFunctionOnSet of the community modules, by which the     *)
(* ledgers of Checkout, Payments and Payouts are added up.  A sum does not *)
(* depend on the order in which the fold chooses its indices.  The         *)
(* induction is over sets, given as a set: a nonempty set of subsets of a  *)
(* finite set has a minimal one.                                           *)
(***************************************************************************)
EXTENDS Integers, FiniteSetsExt, FiniteSetTheorems, WellFoundedInduction, TLAPS

\* A set that contains a subset of S when it contains all smaller ones contains
\* them all.
LEMMA SubsetInduction ==
  ASSUME NEW S, IsFiniteSet(S), NEW G,
         \A T \in SUBSET S : (\A U \in SUBSET T : U # T => U \in G) => T \in G
  PROVE  \A T \in SUBSET S : T \in G
<1> DEFINE Bad == {T \in SUBSET S : T \notin G}
<1> SUFFICES ASSUME Bad # {} PROVE FALSE
  OBVIOUS
<1>1. FiniteSubsetsOf(S) = SUBSET S
  BY FS_FiniteSubsetsOfFinite
<1>2. IsWellFoundedOn(StrictSubsetOrdering(S), SUBSET S)
  <2>1. IsWellFoundedOn(StrictSubsetOrdering(S), FiniteSubsetsOf(S))
    BY FS_StrictSubsetOrderingWellFounded
  <2>2. QED
    BY <1>1, <2>1
<1>3. \E T \in Bad : \A U \in Bad : <<U, T>> \notin StrictSubsetOrdering(S)
  <2> HIDE DEF Bad
  <2>1. Bad \subseteq SUBSET S
    BY DEF Bad
  <2>2. QED
    BY <1>2, <2>1, WFMin
<1>4. PICK T \in Bad : \A U \in Bad : <<U, T>> \notin StrictSubsetOrdering(S)
  BY <1>3
<1>5. \A U \in SUBSET T : U # T => U \in G
  BY <1>4 DEF StrictSubsetOrdering
<1>6. QED
  BY <1>4, <1>5
-----------------------------------------------------------------------------
Pick(s) == CHOOSE x \in s : TRUE

\* What a fold over the sets in D satisfies.
Adding(f, D, g) == [s \in D |-> IF s = {} THEN 0 ELSE f[Pick(s)] + g[s \ {Pick(s)}]]

IsSumUpTo(S, f, g) == g = Adding(f, SUBSET S, g)

LEMMA PickIn == \A s : s # {} => Pick(s) \in s
BY DEF Pick

LEMMA SumIsChosen ==
  ASSUME NEW f, NEW S
  PROVE  SumFunctionOnSet(f, S) = (CHOOSE g : g = Adding(f, SUBSET S, g))[S]
BY DEF SumFunctionOnSet, FoldFunctionOnSet, MapThenFoldSet, Adding, Pick

\* There is such a function: by induction on the size of the sets in its domain.
LEMMA AddingExists ==
  ASSUME NEW f, NEW S, IsFiniteSet(S)
  PROVE  \E g : g = Adding(f, SUBSET S, g)
<1> DEFINE UpTo(n) == {s \in SUBSET S : Cardinality(s) <= n}
           G == {T \in SUBSET S : \E g : g = Adding(f, UpTo(Cardinality(T)), g)}
<1>1. \A s \in SUBSET S : IsFiniteSet(s) /\ Cardinality(s) \in Nat
  BY FS_Subset, FS_CardinalityType
<1>2. ASSUME NEW T \in SUBSET S, \A U \in SUBSET T : U # T => U \in G
      PROVE  T \in G
  <2>1. CASE T = {}
    <3>1. UpTo(Cardinality(T)) = {{}}
      BY <1>1, <2>1, FS_EmptySet
    <3>2. [s \in {{}} |-> 0] = Adding(f, {{}}, [s \in {{}} |-> 0])
      BY DEF Adding
    <3>3. QED
      BY <3>1, <3>2
  <2>2. CASE T # {}
    <3>1. PICK x : x \in T
      BY <2>2
    <3>2. T \ {x} \in G
      BY <1>2, <3>1
    <3>3. Cardinality(T \ {x}) = Cardinality(T) - 1
      BY <1>1, <3>1, FS_RemoveElement
    <3> DEFINE n == Cardinality(T)
    <3>4. PICK g : g = Adding(f, UpTo(n - 1), g)
      BY <3>2, <3>3
    <3> DEFINE h == Adding(f, UpTo(n), g)
    <3>5. ASSUME NEW s \in UpTo(n), s # {}
          PROVE  /\ s \ {Pick(s)} \in UpTo(n - 1)
                 /\ s \ {Pick(s)} \in UpTo(n)
      <4>1. Pick(s) \in s
        BY <3>5, PickIn
      <4>2. Cardinality(s \ {Pick(s)}) = Cardinality(s) - 1
        BY <1>1, <4>1, FS_RemoveElement
      <4>3. QED
        BY <1>1, <4>2
    <3>6. \A s \in UpTo(n - 1) : h[s] = g[s]
      <4>1. UpTo(n - 1) \subseteq UpTo(n)
        BY <1>1
      <4> HIDE DEF UpTo, n
      <4>2. QED
        BY <3>4, <4>1 DEF Adding
    <3>7. h = Adding(f, UpTo(n), h)
      <4> HIDE DEF UpTo, n
      <4>1. QED
        BY <3>5, <3>6 DEF Adding
    <3>8. QED
      BY <3>7
  <2>3. QED
    BY <2>1, <2>2
<1>3. S \in G
  <2> HIDE DEF G
  <2>1. QED
    BY <1>2, SubsetInduction
<1>4. UpTo(Cardinality(S)) = SUBSET S
  BY FS_Subset
<1>5. QED
  BY <1>3, <1>4

\* And its values do not depend on the domain.
LEMMA AddingAgrees ==
  ASSUME NEW f, NEW S, IsFiniteSet(S), NEW T \in SUBSET S,
         NEW g, IsSumUpTo(S, f, g), NEW h, IsSumUpTo(T, f, h)
  PROVE  \A s \in SUBSET T : g[s] = h[s]
<1> DEFINE G == {s \in SUBSET T : g[s] = h[s]}
<1>1. ASSUME NEW s \in SUBSET T, \A u \in SUBSET s : u # s => u \in G
      PROVE  s \in G
  <2>1. CASE s = {}
    BY <2>1 DEF IsSumUpTo, Adding
  <2>2. CASE s # {}
    <3>1. s \ {Pick(s)} \in G
      BY <1>1, <2>2, PickIn
    <3>2. g[s] = f[Pick(s)] + g[s \ {Pick(s)}] /\ h[s] = f[Pick(s)] + h[s \ {Pick(s)}]
      BY <2>2 DEF IsSumUpTo, Adding
    <3>3. QED
      BY <3>1, <3>2
  <2>3. QED
    BY <2>1, <2>2
<1>2. IsFiniteSet(T)
  BY FS_Subset
<1>3. \A s \in SUBSET T : s \in G
  <2> HIDE DEF G
  <2>1. QED
    BY <1>1, <1>2, SubsetInduction
<1>4. QED
  BY <1>3
-----------------------------------------------------------------------------
\* The sum over S is such a function's value.
LEMMA SumIsReached ==
  ASSUME NEW f, NEW S, IsFiniteSet(S)
  PROVE  \E g : IsSumUpTo(S, f, g) /\ SumFunctionOnSet(f, S) = g[S]
<1> DEFINE g == CHOOSE g : g = Adding(f, SUBSET S, g)
<1>1. g = Adding(f, SUBSET S, g)
  BY AddingExists
<1>2. SumFunctionOnSet(f, S) = g[S]
  BY SumIsChosen
<1> HIDE DEF g
<1>3. QED
  BY <1>1, <1>2 DEF IsSumUpTo

LEMMA SumOfNothing == ASSUME NEW f PROVE SumFunctionOnSet(f, {}) = 0
<1>1. PICK g : IsSumUpTo({}, f, g) /\ SumFunctionOnSet(f, {}) = g[{}]
  BY SumIsReached, FS_EmptySet
<1>2. QED
  BY <1>1 DEF IsSumUpTo, Adding

LEMMA SumOfPicked ==
  ASSUME NEW f, NEW S, IsFiniteSet(S), S # {}
  PROVE  SumFunctionOnSet(f, S) = f[Pick(S)] + SumFunctionOnSet(f, S \ {Pick(S)})
<1>1. PICK T \in SUBSET S : T = S \ {Pick(S)}
  OBVIOUS
<1>2. PICK g : IsSumUpTo(S, f, g) /\ SumFunctionOnSet(f, S) = g[S]
  BY SumIsReached
<1>3. PICK h : IsSumUpTo(T, f, h) /\ SumFunctionOnSet(f, T) = h[T]
  BY SumIsReached, FS_Subset
<1>4. g[T] = h[T]
  BY <1>2, <1>3, AddingAgrees
<1>5. g[S] = f[Pick(S)] + g[T]
  BY <1>1, <1>2 DEF IsSumUpTo, Adding
<1>6. QED
  BY <1>1, <1>2, <1>3, <1>4, <1>5

LEMMA SumIsInt ==
  ASSUME NEW f, NEW S, IsFiniteSet(S), \A x \in S : f[x] \in Int
  PROVE  \A T \in SUBSET S : SumFunctionOnSet(f, T) \in Int
<1> DEFINE G == {T \in SUBSET S : SumFunctionOnSet(f, T) \in Int}
<1>1. ASSUME NEW T \in SUBSET S, \A U \in SUBSET T : U # T => U \in G
      PROVE  T \in G
  <2>1. CASE T = {}
    BY <2>1, SumOfNothing
  <2>2. CASE T # {}
    <3>1. Pick(T) \in T /\ T \ {Pick(T)} \in G
      BY <1>1, <2>2, PickIn
    <3>2. SumFunctionOnSet(f, T) = f[Pick(T)] + SumFunctionOnSet(f, T \ {Pick(T)})
      BY <2>2, SumOfPicked, FS_Subset
    <3>3. QED
      BY <3>1, <3>2
  <2>3. QED
    BY <2>1, <2>2
<1>2. \A T \in SUBSET S : T \in G
  <2> HIDE DEF G
  <2>1. QED
    BY <1>1, SubsetInduction
<1>3. QED
  BY <1>2

\* Any element may come first.
LEMMA SumTakesOut ==
  ASSUME NEW f, NEW S, IsFiniteSet(S), \A x \in S : f[x] \in Int
  PROVE  \A T \in SUBSET S : \A x \in T :
           SumFunctionOnSet(f, T) = f[x] + SumFunctionOnSet(f, T \ {x})
<1> DEFINE Sum(T) == SumFunctionOnSet(f, T)
           G == {T \in SUBSET S : \A x \in T : Sum(T) = f[x] + Sum(T \ {x})}
<1>1. ASSUME NEW T \in SUBSET S, \A U \in SUBSET T : U # T => U \in G,
             NEW x \in T
      PROVE  Sum(T) = f[x] + Sum(T \ {x})
  <2> DEFINE p == Pick(T)
  <2>1. p \in T /\ Sum(T) = f[p] + Sum(T \ {p})
    BY PickIn, SumOfPicked, FS_Subset
  <2>2. \A U \in SUBSET S : Sum(U) \in Int
    BY SumIsInt
  <2> HIDE DEF p, Sum
  <2>3. CASE x # p
    <3>1. (T \ {p}) \ {x} = (T \ {x}) \ {p}
      OBVIOUS
    <3>2. Sum(T \ {p}) = f[x] + Sum((T \ {p}) \ {x})
      BY <1>1, <2>1, <2>3
    <3>3. Sum(T \ {x}) = f[p] + Sum((T \ {p}) \ {x})
      BY <1>1, <2>1, <2>3, <3>1
    <3>4. QED
      BY <2>1, <2>2, <3>2, <3>3
  <2>4. QED
    BY <2>1, <2>3
<1>2. \A T \in SUBSET S : T \in G
  <2>1. \A T \in SUBSET S : (\A U \in SUBSET T : U # T => U \in G) => T \in G
    BY <1>1
  <2> HIDE DEF G
  <2>2. QED
    BY <2>1, SubsetInduction
<1>3. QED
  BY <1>2

\* A sum with one more summand.
LEMMA SumAdds ==
  ASSUME NEW f, NEW S, IsFiniteSet(S), NEW x, x \notin S, \A y \in S \cup {x} : f[y] \in Int
  PROVE  SumFunctionOnSet(f, S \cup {x}) = SumFunctionOnSet(f, S) + f[x]
<1>1. IsFiniteSet(S \cup {x}) /\ (S \cup {x}) \ {x} = S
  BY FS_AddElement
<1>2. SumFunctionOnSet(f, S \cup {x}) = f[x] + SumFunctionOnSet(f, S)
  BY <1>1, SumTakesOut
<1>3. SumFunctionOnSet(f, S) \in Int
  BY SumIsInt
<1>4. QED
  BY <1>2, <1>3

\* Only the summands matter.
LEMMA SumOfSame ==
  ASSUME NEW f, NEW g, NEW S, IsFiniteSet(S), \A x \in S : f[x] = g[x]
  PROVE  SumFunctionOnSet(f, S) = SumFunctionOnSet(g, S)
<1> DEFINE G == {T \in SUBSET S : SumFunctionOnSet(f, T) = SumFunctionOnSet(g, T)}
<1>1. ASSUME NEW T \in SUBSET S, \A U \in SUBSET T : U # T => U \in G
      PROVE  T \in G
  <2>1. CASE T = {}
    BY <2>1, SumOfNothing
  <2>2. CASE T # {}
    <3>1. Pick(T) \in T /\ T \ {Pick(T)} \in G
      BY <1>1, <2>2, PickIn
    <3>2. /\ SumFunctionOnSet(f, T) = f[Pick(T)] + SumFunctionOnSet(f, T \ {Pick(T)})
          /\ SumFunctionOnSet(g, T) = g[Pick(T)] + SumFunctionOnSet(g, T \ {Pick(T)})
      BY <2>2, SumOfPicked, FS_Subset
    <3>3. QED
      BY <3>1, <3>2
  <2>3. QED
    BY <2>1, <2>2
<1>2. \A T \in SUBSET S : T \in G
  <2> HIDE DEF G
  <2>1. QED
    BY <1>1, SubsetInduction
<1>3. QED
  BY <1>2

\* Naturals add up to a natural.
LEMMA SumIsNat ==
  ASSUME NEW f, NEW S, IsFiniteSet(S), \A x \in S : f[x] \in Nat
  PROVE  \A T \in SUBSET S : SumFunctionOnSet(f, T) \in Nat
<1> DEFINE G == {T \in SUBSET S : SumFunctionOnSet(f, T) \in Nat}
<1>1. ASSUME NEW T \in SUBSET S, \A U \in SUBSET T : U # T => U \in G
      PROVE  T \in G
  <2>1. CASE T = {}
    BY <2>1, SumOfNothing
  <2>2. CASE T # {}
    <3>1. Pick(T) \in T /\ T \ {Pick(T)} \in G
      BY <1>1, <2>2, PickIn
    <3>2. SumFunctionOnSet(f, T) = f[Pick(T)] + SumFunctionOnSet(f, T \ {Pick(T)})
      BY <2>2, SumOfPicked, FS_Subset
    <3>3. QED
      BY <3>1, <3>2
  <2>3. QED
    BY <2>1, <2>2
<1>2. \A T \in SUBSET S : T \in G
  <2> HIDE DEF G
  <2>1. QED
    BY <1>1, SubsetInduction
<1>3. QED
  BY <1>2
=============================================================================
