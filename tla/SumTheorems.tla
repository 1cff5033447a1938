------------------------------ MODULE SumTheorems ------------------------------
(***************************************************************************)
(* Facts about the sums of the community module Functions.                 *)
(***************************************************************************)
EXTENDS Functions, FiniteSetTheorems, TLAPS

\* Induction over the subsets of a finite set: Good has them all if it has each
\* subset of whose proper subsets it has all.
LEMMA SubsetInduction ==
    ASSUME NEW S, IsFiniteSet(S), NEW Good,
           \A T \in SUBSET S : (\A U \in SUBSET T : U # T => U \in Good) => T \in Good
    PROVE  \A T \in SUBSET S : T \in Good
<1> DEFINE Bad == {T \in SUBSET S : T \notin Good}
<1>1. SUFFICES ASSUME Bad # {} PROVE FALSE
    OBVIOUS
<1>2. IsWellFoundedOn(StrictSubsetOrdering(S), SUBSET S)
    BY FS_StrictSubsetOrderingWellFounded, FS_FiniteSubsetsOfFinite
<1>3. Bad \subseteq SUBSET S
    OBVIOUS
<1> HIDE DEF Bad
<1>4. PICK T \in Bad : \A U \in Bad : <<U, T>> \notin StrictSubsetOrdering(S)
    BY <1>1, <1>2, <1>3, WFMin
<1>5. T \in SUBSET S /\ T \notin Good
    BY DEF Bad
<1>6. \A U \in SUBSET T : U # T => U \in Good
  <2> SUFFICES ASSUME NEW U \in SUBSET T, U # T, U \notin Good PROVE FALSE
      OBVIOUS
  <2>1. U \in SUBSET S /\ U \in Bad
      BY <1>5 DEF Bad
  <2>2. <<U, T>> \in StrictSubsetOrdering(S)
      BY <1>5, <2>1 DEF StrictSubsetOrdering
  <2>3. QED
      BY <1>4, <2>1, <2>2
<1>7. QED
    BY <1>5, <1>6

(***************************************************************************)
(* The sum is well defined: there is one function that meets the recursive *)
(* definition of the fold.                                                 *)
(***************************************************************************)
Pick(s) == CHOOSE x \in s : TRUE

Rest(s) == s \ {Pick(s)}

\* g meets the definition on the subsets of T.
Sums(f, g, T) ==
    g = [s \in SUBSET T |-> IF s = {} THEN 0 ELSE f[Pick(s)] + g[Rest(s)]]

\* An element is picked, and fewer are left.
LEMMA PickIsMember == \A s : s # {} => Pick(s) \in s /\ Rest(s) \subseteq s /\ Rest(s) # s
  BY DEF Pick, Rest

\* The sum is what the functions that meet the definition say.
LEMMA FoldIsSum ==
    ASSUME NEW f, NEW S
    PROVE SumFunctionOnSet(f, S) = (CHOOSE g : Sums(f, g, S))[S]
  BY DEF SumFunctionOnSet, FoldFunctionOnSet, MapThenFoldSet, Sums, Pick, Rest

\* At most one function meets the definition.
LEMMA SumsUnique ==
    ASSUME NEW S, IsFiniteSet(S), NEW f, NEW g, NEW h, Sums(f, g, S), Sums(f, h, S)
    PROVE g = h
<1> DEFINE Good == {T \in SUBSET S : g[T] = h[T]}
<1>1. ASSUME NEW T \in SUBSET S, \A U \in SUBSET T : U # T => U \in Good
      PROVE T \in Good
  <2>1. T # {} => g[Rest(T)] = h[Rest(T)]
      BY <1>1, PickIsMember
  <2>2. g[T] = h[T]
      BY <2>1 DEF Sums
  <2>3. QED
      BY <2>2
<1>2. \A T \in SUBSET S : T \in Good
  <2> HIDE DEF Good
  <2>1. QED
      BY <1>1, SubsetInduction
<1>3. QED
    BY <1>2 DEF Sums

\* It meets the definition on a smaller set.
LEMMA SumsRestrict ==
    ASSUME NEW S, NEW T \in SUBSET S, NEW f, NEW g, Sums(f, g, S)
    PROVE Sums(f, [s \in SUBSET T |-> g[s]], T)
<1>1. \A s \in SUBSET T : s # {} => Rest(s) \in SUBSET T
    BY PickIsMember
<1>2. QED
    BY <1>1 DEF Sums

\* So the set it was chosen for does not matter.
LEMMA SumsAgree ==
    ASSUME NEW S, NEW T \in SUBSET S, IsFiniteSet(T), NEW f, NEW g, NEW h,
           Sums(f, g, S), Sums(f, h, T)
    PROVE g[T] = h[T]
<1>1. Sums(f, [s \in SUBSET T |-> g[s]], T)
    BY SumsRestrict
<1>2. [s \in SUBSET T |-> g[s]] = h
    BY <1>1, SumsUnique
<1>3. QED
    BY <1>2

\* Some function meets the definition.
LEMMA SumsExist ==
    ASSUME NEW S, IsFiniteSet(S), NEW f
    PROVE \E g : Sums(f, g, S)
<1> DEFINE Good == {T \in SUBSET S : \E g : Sums(f, g, T)}
<1>1. ASSUME NEW T \in SUBSET S, \A U \in SUBSET T : U # T => U \in Good
      PROVE T \in Good
  <2> DEFINE G(U) == CHOOSE g : Sums(f, g, U)
             h == [s \in SUBSET T |-> IF s = {} THEN 0 ELSE f[Pick(s)] + G(Rest(s))[Rest(s)]]
  <2>1. \A U \in SUBSET T : U # T => Sums(f, G(U), U)
      BY <1>1
  <2>2. \A U \in SUBSET T : U # T => IsFiniteSet(U)
      BY FS_Subset
  <2> HIDE DEF G
  <2>3. ASSUME NEW U \in SUBSET T, U # T
        PROVE h[U] = G(U)[U]
    <3>1. G(U)[U] = IF U = {} THEN 0 ELSE f[Pick(U)] + G(U)[Rest(U)]
        BY <2>1, <2>3 DEF Sums
    <3>2. ASSUME U # {} PROVE G(U)[Rest(U)] = G(Rest(U))[Rest(U)]
      <4>1. /\ Rest(U) \in SUBSET U /\ Rest(U) \in SUBSET T /\ Rest(U) # T
            /\ IsFiniteSet(Rest(U))
          BY <2>2, <2>3, <3>2, PickIsMember
      <4>2. Sums(f, G(U), U) /\ Sums(f, G(Rest(U)), Rest(U))
          BY <2>1, <2>3, <4>1
      <4>3. QED
          BY <4>1, <4>2, SumsAgree
    <3>3. QED
        BY <3>1, <3>2
  <2>4. \A s \in SUBSET T : s # {} => Rest(s) \in SUBSET T /\ Rest(s) # T
      BY PickIsMember
  <2>5. \A s \in SUBSET T : s # {} => h[Rest(s)] = G(Rest(s))[Rest(s)]
    <3> HIDE DEF h
    <3>1. QED
        BY <2>3, <2>4
  <2>6. h = [s \in SUBSET T |-> IF s = {} THEN 0 ELSE f[Pick(s)] + h[Rest(s)]]
      BY <2>5
  <2>7. QED
      BY <2>6 DEF Sums
<1>2. S \in Good
  <2> HIDE DEF Good
  <2>1. QED
      BY <1>1, SubsetInduction
<1>3. QED
    BY <1>2

(***************************************************************************)
(* What the proofs use of sums.                                            *)
(***************************************************************************)
LEMMA SumMeets ==
    ASSUME NEW S, IsFiniteSet(S), NEW f
    PROVE SumFunctionOnSet(f, S) =
            IF S = {} THEN 0 ELSE f[Pick(S)] + SumFunctionOnSet(f, Rest(S))
<1> DEFINE g == CHOOSE g : Sums(f, g, S)
           T == Rest(S)
           h == CHOOSE h : Sums(f, h, T)
<1>1. SumFunctionOnSet(f, S) = g[S] /\ SumFunctionOnSet(f, T) = h[T]
    BY FoldIsSum
<1>2. Sums(f, g, S)
    BY SumsExist
<1> HIDE DEF g
<1>3. S \in SUBSET S
    OBVIOUS
<1>4. g[S] = IF S = {} THEN 0 ELSE f[Pick(S)] + g[T]
    BY <1>2, <1>3 DEF Sums
<1>5. ASSUME S # {} PROVE g[T] = h[T]
  <2>1. T \in SUBSET S /\ IsFiniteSet(T)
      BY <1>5, PickIsMember, FS_Subset
  <2>2. Sums(f, h, T)
      BY <2>1, SumsExist
  <2> HIDE DEF T, h
  <2>3. QED
      BY <1>2, <2>1, <2>2, SumsAgree
<1>6. QED
    BY <1>1, <1>4, <1>5

\* The empty sum.
LEMMA SumOfNone == \A f : SumFunctionOnSet(f, {}) = 0
  BY SumMeets, FS_EmptySet

\* A sum of integers is one.
LEMMA SumType ==
    ASSUME NEW S, IsFiniteSet(S), NEW f, \A x \in S : f[x] \in Int
    PROVE SumFunctionOnSet(f, S) \in Int
<1> DEFINE Good == {T \in SUBSET S : SumFunctionOnSet(f, T) \in Int}
<1>1. ASSUME NEW T \in SUBSET S, \A U \in SUBSET T : U # T => U \in Good
      PROVE T \in Good
  <2>1. IsFiniteSet(T)
      BY FS_Subset
  <2>2. T # {} => Pick(T) \in S /\ Rest(T) \in Good
      BY <1>1, PickIsMember
  <2>3. SumFunctionOnSet(f, T) =
            IF T = {} THEN 0 ELSE f[Pick(T)] + SumFunctionOnSet(f, Rest(T))
      BY <2>1, SumMeets
  <2>4. QED
      BY <2>2, <2>3
<1>2. S \in Good
  <2> HIDE DEF Good
  <2>1. QED
      BY <1>1, SubsetInduction
<1>3. QED
    BY <1>2

\* The order of the elements does not matter.
LEMMA SumSplits ==
    ASSUME NEW S, IsFiniteSet(S), NEW f, \A x \in S : f[x] \in Int
    PROVE \A x \in S : SumFunctionOnSet(f, S) = f[x] + SumFunctionOnSet(f, S \ {x})
<1> DEFINE F(T) == SumFunctionOnSet(f, T)
           Good == {T \in SUBSET S : \A x \in T : F(T) = f[x] + F(T \ {x})}
<1>1. ASSUME NEW T \in SUBSET S, \A U \in SUBSET T : U # T => U \in Good
      PROVE T \in Good
  <2>1. IsFiniteSet(T) /\ \A U \in SUBSET T : IsFiniteSet(U)
      BY FS_Subset
  <2>2. \A U \in SUBSET T : F(U) \in Int
      BY <2>1, SumType
  <2>3. \A U \in SUBSET T : F(U) = IF U = {} THEN 0 ELSE f[Pick(U)] + F(Rest(U))
      BY <2>1, SumMeets
  <2> HIDE DEF F
  <2>4. ASSUME NEW x \in T PROVE F(T) = f[x] + F(T \ {x})
    <3> DEFINE y == Pick(T)
    <3>1. y \in T /\ Rest(T) = T \ {y}
        BY <2>4, PickIsMember DEF Rest
    <3>2. F(T) = f[y] + F(T \ {y})
        BY <2>3, <2>4, <3>1
    <3>3. CASE x = y
        BY <3>2, <3>3
    <3>4. CASE x # y
      <4> HIDE DEF y
      <4>1. F(T \ {y}) = f[x] + F((T \ {y}) \ {x})
          BY <1>1, <2>4, <3>1, <3>4
      <4>2. F(T \ {x}) = f[y] + F((T \ {x}) \ {y})
          BY <1>1, <2>4, <3>1, <3>4
      <4>3. F((T \ {y}) \ {x}) = F((T \ {x}) \ {y})
        <5>1. (T \ {y}) \ {x} = (T \ {x}) \ {y}
            OBVIOUS
        <5>2. QED
            BY <5>1
      <4>4. /\ f[x] \in Int /\ f[y] \in Int
            /\ F((T \ {x}) \ {y}) \in Int
          BY <2>2, <2>4, <3>1
      <4>5. QED
          BY <3>2, <4>1, <4>2, <4>3, <4>4
    <3>5. QED
        BY <3>3, <3>4
  <2>5. QED
      BY <2>4
<1>2. S \in Good
  <2> HIDE DEF Good
  <2>1. QED
      BY <1>1, SubsetInduction
<1>3. QED
    BY <1>2

\* Only the values in S count.
LEMMA SumSame ==
    ASSUME NEW S, IsFiniteSet(S), NEW f, NEW g, \A x \in S : f[x] = g[x]
    PROVE SumFunctionOnSet(f, S) = SumFunctionOnSet(g, S)
<1> DEFINE Good == {T \in SUBSET S : SumFunctionOnSet(f, T) = SumFunctionOnSet(g, T)}
<1>1. ASSUME NEW T \in SUBSET S, \A U \in SUBSET T : U # T => U \in Good
      PROVE T \in Good
  <2>1. IsFiniteSet(T)
      BY FS_Subset
  <2>2. T # {} => Pick(T) \in S /\ Rest(T) \in Good
      BY <1>1, PickIsMember
  <2>3. /\ SumFunctionOnSet(f, T) =
             IF T = {} THEN 0 ELSE f[Pick(T)] + SumFunctionOnSet(f, Rest(T))
        /\ SumFunctionOnSet(g, T) =
             IF T = {} THEN 0 ELSE g[Pick(T)] + SumFunctionOnSet(g, Rest(T))
      BY <2>1, SumMeets
  <2>4. QED
      BY <2>2, <2>3
<1>2. S \in Good
  <2> HIDE DEF Good
  <2>1. QED
      BY <1>1, SubsetInduction
<1>3. QED
    BY <1>2

\* One summand changes.
LEMMA SumChanges ==
    ASSUME NEW S, IsFiniteSet(S), NEW f, NEW g, NEW x \in S,
           \A y \in S : f[y] \in Int, g[x] \in Int,
           \A y \in S : y # x => g[y] = f[y]
    PROVE SumFunctionOnSet(g, S) = SumFunctionOnSet(f, S) - f[x] + g[x]
<1> DEFINE T == S \ {x}
<1>1. IsFiniteSet(T) /\ \A y \in S : g[y] \in Int
    BY FS_Subset
<1>2. /\ SumFunctionOnSet(f, S) = f[x] + SumFunctionOnSet(f, T)
      /\ SumFunctionOnSet(g, S) = g[x] + SumFunctionOnSet(g, T)
    BY <1>1, SumSplits
<1>3. SumFunctionOnSet(f, T) = SumFunctionOnSet(g, T)
    BY <1>1, SumSame
<1>4. SumFunctionOnSet(f, T) \in Int
    BY <1>1, SumType
<1> HIDE DEF T
<1>5. QED
    BY <1>2, <1>3, <1>4

\* Sums of two functions add up.
LEMMA SumPlus ==
    ASSUME NEW S, IsFiniteSet(S), NEW f, NEW g, NEW h,
           \A x \in S : f[x] \in Int /\ g[x] \in Int /\ h[x] = f[x] + g[x]
    PROVE SumFunctionOnSet(h, S) = SumFunctionOnSet(f, S) + SumFunctionOnSet(g, S)
<1> DEFINE F(T) == SumFunctionOnSet(f, T)
           G(T) == SumFunctionOnSet(g, T)
           H(T) == SumFunctionOnSet(h, T)
           Good == {T \in SUBSET S : H(T) = F(T) + G(T)}
<1>1. ASSUME NEW T \in SUBSET S, \A U \in SUBSET T : U # T => U \in Good
      PROVE T \in Good
  <2>1. IsFiniteSet(T) /\ IsFiniteSet(Rest(T))
      BY FS_Subset DEF Rest
  <2>2. T # {} => Pick(T) \in S /\ Rest(T) \in Good
      BY <1>1, PickIsMember
  <2>3. /\ F(T) = IF T = {} THEN 0 ELSE f[Pick(T)] + F(Rest(T))
        /\ G(T) = IF T = {} THEN 0 ELSE g[Pick(T)] + G(Rest(T))
        /\ H(T) = IF T = {} THEN 0 ELSE h[Pick(T)] + H(Rest(T))
      BY <2>1, SumMeets
  <2>4. T # {} => F(Rest(T)) \in Int /\ G(Rest(T)) \in Int
      BY <2>1, SumType, PickIsMember
  <2> HIDE DEF F, G, H
  <2>5. QED
      BY <2>2, <2>3, <2>4
<1>2. S \in Good
  <2> HIDE DEF Good
  <2>1. QED
      BY <1>1, SubsetInduction
<1>3. QED
    BY <1>2

\* A sum of natural numbers is one, and no summand is larger.
LEMMA SumOfNat ==
    ASSUME NEW S, IsFiniteSet(S), NEW f, \A x \in S : f[x] \in Nat
    PROVE /\ SumFunctionOnSet(f, S) \in Nat
          /\ \A x \in S : f[x] <= SumFunctionOnSet(f, S)
<1> DEFINE F(T) == SumFunctionOnSet(f, T)
           Good == {T \in SUBSET S : F(T) \in Nat}
<1>1. ASSUME NEW T \in SUBSET S, \A U \in SUBSET T : U # T => U \in Good
      PROVE T \in Good
  <2>1. IsFiniteSet(T)
      BY FS_Subset
  <2>2. T # {} => Pick(T) \in S /\ Rest(T) \in Good
      BY <1>1, PickIsMember
  <2>3. F(T) = IF T = {} THEN 0 ELSE f[Pick(T)] + F(Rest(T))
      BY <2>1, SumMeets
  <2> HIDE DEF F
  <2>4. QED
      BY <2>2, <2>3
<1>2. \A T \in SUBSET S : T \in Good
  <2> HIDE DEF Good
  <2>1. QED
      BY <1>1, SubsetInduction
<1>3. ASSUME NEW x \in S PROVE f[x] <= F(S)
  <2>1. F(S) = f[x] + F(S \ {x})
      BY SumSplits
  <2>2. F(S \ {x}) \in Nat
      BY <1>2
  <2> HIDE DEF F
  <2>3. QED
      BY <2>1, <2>2
<1>4. QED
    BY <1>2, <1>3

\* Smaller summands, smaller sum.
LEMMA SumLess ==
    ASSUME NEW S, IsFiniteSet(S), NEW f, NEW g,
           \A x \in S : f[x] \in Int /\ g[x] \in Int /\ f[x] <= g[x]
    PROVE SumFunctionOnSet(f, S) <= SumFunctionOnSet(g, S)
<1> DEFINE d == [x \in S |-> g[x] - f[x]]
<1>1. \A x \in S : d[x] \in Nat /\ g[x] = f[x] + d[x]
    OBVIOUS
<1> HIDE DEF d
<1>2. SumFunctionOnSet(g, S) = SumFunctionOnSet(f, S) + SumFunctionOnSet(d, S)
    BY <1>1, SumPlus
<1>3. SumFunctionOnSet(d, S) \in Nat /\ SumFunctionOnSet(f, S) \in Int
    BY <1>1, SumOfNat, SumType
<1>4. QED
    BY <1>2, <1>3

\* Zeros add up to zero.
LEMMA SumOfZeros ==
    ASSUME NEW S, IsFiniteSet(S), NEW f, \A x \in S : f[x] = 0
    PROVE SumFunctionOnSet(f, S) = 0
<1> DEFINE n == SumFunctionOnSet(f, S)
<1>1. n = n + n
    BY SumPlus
<1>2. n \in Int
    BY SumType
<1> HIDE DEF n
<1>3. n = 0
    BY <1>1, <1>2
<1>4. QED
    BY <1>3 DEF n

(***************************************************************************)
(* The same of the sum of a function over its domain.                      *)
(***************************************************************************)
\* A sum of integers is an integer, and of natural numbers a natural number.
LEMMA TotalType ==
    ASSUME NEW S, IsFiniteSet(S), NEW f \in [S -> Int]
    PROVE  /\ SumFunction(f) \in Int
           /\ (\A x \in S : f[x] \in Nat) => SumFunction(f) \in Nat
  BY SumType, SumOfNat DEF SumFunction

\* Of nothing but zeros, zero.
LEMMA TotalOfZeros ==
    ASSUME NEW S, IsFiniteSet(S)
    PROVE  SumFunction([x \in S |-> 0]) = 0
<1> DEFINE f == [x \in S |-> 0]
<1>1. DOMAIN f = S /\ \A x \in S : f[x] = 0
    OBVIOUS
<1> HIDE DEF f
<1>2. SumFunction(f) = 0
    BY <1>1, SumOfZeros DEF SumFunction
<1>3. QED
    BY <1>2 DEF f

\* When one value changes, the sum changes by the difference.
LEMMA TotalChanges ==
    ASSUME NEW S, IsFiniteSet(S), NEW f \in [S -> Int], NEW g \in [S -> Int], NEW x \in S,
           \A y \in S : y # x => g[y] = f[y]
    PROVE  SumFunction(g) = SumFunction(f) - f[x] + g[x]
<1>1. DOMAIN f = S /\ DOMAIN g = S /\ g[x] \in Int /\ \A y \in S : f[y] \in Int
    OBVIOUS
<1>2. SumFunctionOnSet(g, S) = SumFunctionOnSet(f, S) - f[x] + g[x]
    BY <1>1, SumChanges
<1>3. QED
    BY <1>1, <1>2 DEF SumFunction

\* The sum of two functions, pointwise, has the sum of their sums.
LEMMA TotalPlus ==
    ASSUME NEW S, IsFiniteSet(S), NEW f \in [S -> Int], NEW g \in [S -> Int],
           NEW h, h = [x \in S |-> f[x] + g[x]]
    PROVE  SumFunction(h) = SumFunction(f) + SumFunction(g)
<1>1. /\ DOMAIN f = S /\ DOMAIN g = S /\ DOMAIN h = S
      /\ \A x \in S : f[x] \in Int /\ g[x] \in Int /\ h[x] = f[x] + g[x]
    OBVIOUS
<1>2. QED
    BY <1>1, SumPlus DEF SumFunction

\* A new argument adds its value.
LEMMA TotalGrows ==
    ASSUME NEW S, IsFiniteSet(S), NEW x, x \notin S, NEW f \in [S -> Int],
           NEW g \in [S \union {x} -> Int], \A y \in S : g[y] = f[y]
    PROVE  SumFunction(g) = SumFunction(f) + g[x]
<1> DEFINE T == S \union {x}
<1>1. DOMAIN f = S /\ DOMAIN g = T /\ T \ {x} = S /\ x \in T /\ \A y \in T : g[y] \in Int
    OBVIOUS
<1>2. IsFiniteSet(T)
    BY FS_AddElement
<1> HIDE DEF T
<1>3. SumFunctionOnSet(g, T) = g[x] + SumFunctionOnSet(g, T \ {x})
    BY <1>1, <1>2, SumSplits
<1>4. SumFunctionOnSet(g, S) = SumFunctionOnSet(f, S)
    BY SumSame
<1>5. SumFunctionOnSet(f, S) \in Int /\ g[x] \in Int
    BY <1>1, SumType
<1>6. SumFunctionOnSet(g, T \ {x}) = SumFunctionOnSet(g, S)
    BY <1>1
<1>7. QED
    BY <1>1, <1>3, <1>4, <1>5, <1>6 DEF SumFunction
================================================================================
