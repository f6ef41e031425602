-------------------------------- MODULE Sums --------------------------------
(***************************************************************************)
(* Lemmas about MapThenSumSet, which adds up one number for each member of *)
(* a finite set.  It is defined by recursion over the subsets of the set;  *)
(* what is needed of it is that its value does not depend on the order of  *)
(* the summands.  Induction is over sets of naturals and sets of subsets:  *)
(* a set that contains the least element and is closed under the step.     *)
(***************************************************************************)
EXTENDS Integers, FiniteSetsExt, FiniteSetTheorems, WellFoundedInduction, TLAPS

\* Every set of naturals has a least element.
LEMMA LeastNatural ==
  ASSUME NEW T \in SUBSET Nat, T # {}
  PROVE  \E n \in T : \A k \in T : n <= k
<1> DEFINE Less == OpToRel(<, Nat)
<1>1. IsWellFoundedOn(Less, Nat)
  BY NatLessThanWellFounded
<1>2. \A m, n \in Nat : <<m, n>> \in Less <=> m < n
  BY DEF OpToRel
<1> HIDE DEF Less
<1>3. \E x \in T : \A y \in T : ~ (<<y, x>> \in Less)
  BY <1>1, WFMin
<1>4. PICK x \in T : \A y \in T : ~ (<<y, x>> \in Less)
  BY <1>3
<1>5. x \in Nat /\ \A y \in T : y \in Nat /\ ~(y < x)
  BY <1>2, <1>4
<1>6. QED  BY <1>5

\* Induction over the naturals, for a property given as a set.
LEMMA NatSetInduction ==
  ASSUME NEW G \in SUBSET Nat, 0 \in G, \A n \in G : n + 1 \in G
  PROVE  G = Nat
<1> SUFFICES ASSUME Nat \ G # {} PROVE FALSE
  OBVIOUS
<1>1. PICK n \in Nat \ G : \A k \in Nat \ G : n <= k
  BY LeastNatural
<1>2. n - 1 \in Nat
  BY <1>1
<1>3. n - 1 \in G
  BY <1>1, <1>2
<1>4. n - 1 + 1 \in G
  BY <1>3
<1>5. QED  BY <1>1, <1>4

\* The element MapThenSumSet adds next.
Pick(s) == CHOOSE x \in s : TRUE

\* It is one of the set.
LEMMA PickLemma == ASSUME NEW s, s # {} PROVE Pick(s) \in s
BY DEF Pick

\* A subset without one of its elements is a smaller one.
LEMMA SmallerSet ==
  ASSUME NEW D, IsFiniteSet(D), NEW s \in SUBSET D, NEW x \in s
  PROVE  /\ Cardinality(s) \in Nat /\ Cardinality(s) > 0
         /\ s \ {x} \in SUBSET D
         /\ Cardinality(s \ {x}) = Cardinality(s) - 1
<1>1. IsFiniteSet(s)
  BY FS_Subset
<1>2. Cardinality(s) \in Nat /\ Cardinality(s \ {x}) = Cardinality(s) - 1 /\ IsFiniteSet(s \ {x})
  BY <1>1, FS_CardinalityType, FS_RemoveElement
<1>3. Cardinality(s \ {x}) \in Nat
  BY <1>2, FS_CardinalityType
<1>4. QED  BY <1>2, <1>3

\* Induction over the subsets of a finite set.
LEMMA SubsetInduction ==
  ASSUME NEW D, IsFiniteSet(D), NEW G \in SUBSET (SUBSET D), {} \in G,
         \A s \in SUBSET D : s # {} /\ (\A x \in s : s \ {x} \in G) => s \in G
  PROVE  G = SUBSET D
<1> DEFINE N == {n \in Nat : \A s \in SUBSET D : Cardinality(s) = n => s \in G}
<1>1. 0 \in N
  <2>1. ASSUME NEW s \in SUBSET D, Cardinality(s) = 0 PROVE s \in G
    <3>1. IsFiniteSet(s)
      BY FS_Subset
    <3>2. s = {}
      BY <2>1, <3>1, FS_EmptySet
    <3>3. QED  BY <3>2
  <2>2. QED  BY <2>1
<1>2. ASSUME NEW n \in N PROVE n + 1 \in N
  <2>1. n \in Nat /\ \A s \in SUBSET D : Cardinality(s) = n => s \in G
    OBVIOUS
  <2>2. ASSUME NEW s \in SUBSET D, Cardinality(s) = n + 1 PROVE s \in G
    <3>1. s # {}
      <4>1. Cardinality({}) # n + 1
        BY <2>1, FS_EmptySet
      <4>2. QED  BY <2>2, <4>1
    <3>2. ASSUME NEW x \in s PROVE s \ {x} \in G
      <4>1. s \ {x} \in SUBSET D /\ Cardinality(s \ {x}) = Cardinality(s) - 1
        BY SmallerSet
      <4>2. QED  BY <2>1, <2>2, <4>1
    <3>3. QED  BY <3>1, <3>2
  <2>3. n + 1 \in Nat
    BY <2>1
  <2>4. QED  BY <2>2, <2>3
<1>3. N = Nat
  <2> HIDE DEF N
  <2>1. N \subseteq Nat
    BY DEF N
  <2>2. QED  BY <1>1, <1>2, <2>1, NatSetInduction
<1>4. \A s \in SUBSET D : Cardinality(s) \in Nat
  BY FS_Subset, FS_CardinalityType
<1>5. QED  BY <1>3, <1>4
-----------------------------------------------------------------------------
\* The function by which MapThenSumSet adds up f over the subsets of D.
IsSum(sum, f, D) ==
  sum = [s \in SUBSET D |-> IF s = {} THEN 0 ELSE f[Pick(s)] + sum[s \ {Pick(s)}]]

\* There is such a function: the recursion ends.
LEMMA SumExists ==
  ASSUME NEW D, IsFiniteSet(D), NEW f
  PROVE  \E sum : IsSum(sum, f, D)
<1> DEFINE Level(n) == {s \in SUBSET D : Cardinality(s) <= n}
           Step(g, s) == IF s = {} THEN 0 ELSE f[Pick(s)] + g[s \ {Pick(s)}]
           G == {n \in Nat : \E g : g = [s \in Level(n) |-> Step(g, s)]}
<1>1. 0 \in G
  <2> DEFINE g == [s \in Level(0) |-> 0]
  <2>1. ASSUME NEW s \in Level(0) PROVE s = {}
    <3>1. CASE s # {}
      <4>1. Pick(s) \in s
        BY <3>1, PickLemma
      <4>2. Cardinality(s) \in Nat /\ Cardinality(s) > 0
        BY <4>1, SmallerSet
      <4>3. QED  BY <4>2
    <3>2. QED  BY <3>1
  <2>2. g = [s \in Level(0) |-> Step(g, s)]
    BY <2>1
  <2>3. QED  BY <2>2
<1>2. ASSUME NEW n \in G PROVE n + 1 \in G
  <2>1. PICK g : g = [s \in Level(n) |-> Step(g, s)]
    OBVIOUS
  <2> DEFINE h == [s \in Level(n + 1) |-> Step(g, s)]
  <2>2. \A s \in Level(n) : s \in Level(n + 1)
    <3>1. ASSUME NEW s \in Level(n) PROVE Cardinality(s) <= n + 1
      <4>1. Cardinality(s) \in Nat
        BY FS_Subset, FS_CardinalityType
      <4>2. QED  BY <4>1
    <3>2. QED  BY <3>1
  <2>3. \A s \in Level(n) : h[s] = g[s]
    <3>1. ASSUME NEW s \in Level(n) PROVE h[s] = g[s]
      <4>1. h[s] = Step(g, s)
        BY <2>2
      <4>2. g[s] = Step(g, s)
        BY <2>1
      <4>3. QED  BY <4>1, <4>2
    <3>2. QED  BY <3>1
  <2>4. ASSUME NEW s \in Level(n + 1), s # {} PROVE s \ {Pick(s)} \in Level(n)
    <3>1. Pick(s) \in s
      BY <2>4, PickLemma
    <3>2. Cardinality(s) \in Nat /\ Cardinality(s \ {Pick(s)}) = Cardinality(s) - 1 /\ s \ {Pick(s)} \in SUBSET D
      BY <3>1, SmallerSet
    <3>3. QED  BY <3>2
  <2>5. \A s \in Level(n + 1) : Step(h, s) = Step(g, s)
    <3> HIDE DEF h, Level
    <3>1. ASSUME NEW s \in Level(n + 1) PROVE Step(h, s) = Step(g, s)
      <4>1. CASE s # {}
        BY <2>3, <2>4, <4>1
      <4>2. CASE s = {}
        BY <4>2
      <4>3. QED  BY <4>1, <4>2
    <3>2. QED  BY <3>1
  <2>6. n + 1 \in Nat
    OBVIOUS
  <2> HIDE DEF Step, Level
  <2>7. h = [s \in Level(n + 1) |-> Step(h, s)]
    BY <2>5
  <2> HIDE DEF h
  <2>8. \E e : e = [s \in Level(n + 1) |-> Step(e, s)]
    BY <2>7
  <2>9. QED  BY <2>6, <2>8
<1>3. G = Nat
  <2> HIDE DEF G
  <2>1. G \subseteq Nat
    BY DEF G
  <2>2. QED  BY <1>1, <1>2, <2>1, NatSetInduction
<1>4. Cardinality(D) \in Nat /\ \A s \in SUBSET D : Cardinality(s) <= Cardinality(D)
  BY FS_Subset, FS_CardinalityType
<1>5. Level(Cardinality(D)) = SUBSET D
  BY <1>4
<1>6. PICK g : g = [s \in Level(Cardinality(D)) |-> Step(g, s)]
  BY <1>3, <1>4
<1>7. g = [s \in SUBSET D |-> Step(g, s)]
  <2> HIDE DEF Step, Level
  <2>1. QED  BY <1>5, <1>6
<1>8. QED  BY <1>7 DEF IsSum

\* What that recursion says of every subset of D.
AddsUp(sum, f, D) ==
  \A s \in SUBSET D : /\ s = {} => sum[s] = 0
                      /\ s # {} => Pick(s) \in s /\ sum[s] = f[Pick(s)] + sum[s \ {Pick(s)}]

\* Every solution of the recursion adds up.
LEMMA SumStep == \A D, f, sum : IsSum(sum, f, D) => AddsUp(sum, f, D)
<1> SUFFICES ASSUME NEW D, NEW f, NEW sum, IsSum(sum, f, D) PROVE AddsUp(sum, f, D)
  OBVIOUS
<1> DEFINE Step(g, t) == IF t = {} THEN 0 ELSE f[Pick(t)] + g[t \ {Pick(t)}]
<1>1. sum = [t \in SUBSET D |-> Step(sum, t)]
  BY DEF IsSum
<1>2. ASSUME NEW s \in SUBSET D
      PROVE  /\ s = {} => sum[s] = 0
             /\ s # {} => Pick(s) \in s /\ sum[s] = f[Pick(s)] + sum[s \ {Pick(s)}]
  <2> HIDE DEF Step
  <2>1. sum[s] = Step(sum, s)
    BY <1>1
  <2>2. QED  BY <2>1, PickLemma DEF Step
<1>3. QED  BY <1>2 DEF AddsUp

\* Two sums agree on a set where the summands do, whatever lies outside it.
LEMMA SumAgrees ==
  ASSUME NEW D, NEW E, NEW f, NEW g, NEW sumD, NEW sumE,
         IsSum(sumD, f, D), IsSum(sumE, g, E), IsFiniteSet(D),
         NEW T \in SUBSET D, T \subseteq E, \A x \in T : f[x] = g[x]
  PROVE  sumD[T] = sumE[T]
<1>1. AddsUp(sumD, f, D) /\ AddsUp(sumE, g, E)
  BY SumStep
<1> DEFINE G == {s \in SUBSET T : sumD[s] = sumE[s]}
<1>2. IsFiniteSet(T)
  BY FS_Subset
<1>3. {} \in G
  BY <1>1 DEF AddsUp
<1>4. ASSUME NEW s \in SUBSET T, s # {}, \A x \in s : s \ {x} \in G PROVE s \in G
  <2>1. Pick(s) \in s /\ sumD[s] = f[Pick(s)] + sumD[s \ {Pick(s)}]
    BY <1>1, <1>4 DEF AddsUp
  <2>2. sumE[s] = g[Pick(s)] + sumE[s \ {Pick(s)}]
    BY <1>1, <1>4 DEF AddsUp
  <2>3. sumD[s \ {Pick(s)}] = sumE[s \ {Pick(s)}] /\ f[Pick(s)] = g[Pick(s)]
    BY <1>4, <2>1
  <2>4. QED  BY <2>1, <2>2, <2>3
<1>5. G = SUBSET T
  <2> HIDE DEF G
  <2>1. G \in SUBSET (SUBSET T)
    BY DEF G
  <2>2. QED  BY <1>2, <1>3, <1>4, <2>1, SubsetInduction
<1>6. T \in G
  BY <1>5
<1>7. QED  BY <1>6

\* A sum of naturals is one.
LEMMA SumType ==
  ASSUME NEW D, NEW f, NEW sum, IsSum(sum, f, D), IsFiniteSet(D), \A x \in D : f[x] \in Nat
  PROVE  \A s \in SUBSET D : sum[s] \in Nat
<1> DEFINE G == {s \in SUBSET D : sum[s] \in Nat}
<1>1. {} \in G
  <2>1. sum[{}] = 0
    BY SumStep DEF AddsUp
  <2>2. QED  BY <2>1
<1>2. ASSUME NEW s \in SUBSET D, s # {}, \A x \in s : s \ {x} \in G PROVE s \in G
  <2>1. Pick(s) \in s /\ sum[s] = f[Pick(s)] + sum[s \ {Pick(s)}]
    BY <1>2, SumStep DEF AddsUp
  <2>2. f[Pick(s)] \in Nat /\ sum[s \ {Pick(s)}] \in Nat
    BY <1>2, <2>1
  <2>3. QED  BY <2>1, <2>2
<1>3. G = SUBSET D
  <2> HIDE DEF G
  <2>1. G \in SUBSET (SUBSET D)
    BY DEF G
  <2>2. QED  BY <1>1, <1>2, <2>1, SubsetInduction
<1>4. QED  BY <1>3

\* Any summand may be taken out of a sum, not only the one picked.
LEMMA SumRemove ==
  ASSUME NEW D, NEW f, NEW sum, IsSum(sum, f, D), IsFiniteSet(D), \A x \in D : f[x] \in Nat
  PROVE  \A s \in SUBSET D : \A x \in s : sum[s] = f[x] + sum[s \ {x}]
<1> DEFINE P(s) == \A x \in s : sum[s] = f[x] + sum[s \ {x}]
           G == {s \in SUBSET D : P(s)}
<1>1. {} \in G
  OBVIOUS
<1>2. ASSUME NEW s \in SUBSET D, s # {}, \A x \in s : s \ {x} \in G PROVE s \in G
  <2> SUFFICES ASSUME NEW x \in s PROVE sum[s] = f[x] + sum[s \ {x}]
    OBVIOUS
  <2> DEFINE c == Pick(s)
             rest == sum[(s \ {c}) \ {x}]
  <2>1. c \in s /\ sum[s] = f[c] + sum[s \ {c}]
    BY <1>2, SumStep DEF AddsUp
  <2> HIDE DEF c
  <2>2. CASE x = c
    BY <2>1, <2>2
  <2>3. CASE x # c
    <3>1. sum[s \ {c}] = f[x] + rest
      BY <1>2, <2>1, <2>3
    <3>2. sum[s \ {x}] = f[c] + rest
      <4>1. (s \ {x}) \ {c} = (s \ {c}) \ {x}
        OBVIOUS
      <4>2. sum[s \ {x}] = f[c] + sum[(s \ {x}) \ {c}]
        BY <1>2, <2>1, <2>3
      <4>3. QED  BY <4>1, <4>2
    <3>3. f[x] \in Nat /\ f[c] \in Nat /\ rest \in Nat
      <4>1. (s \ {c}) \ {x} \in SUBSET D
        OBVIOUS
      <4>2. QED  BY <2>1, <4>1, SumType
    <3> HIDE DEF rest
    <3>4. QED  BY <2>1, <3>1, <3>2, <3>3
  <2>4. QED  BY <2>2, <2>3
<1>3. G = SUBSET D
  <2> HIDE DEF G
  <2>1. G \in SUBSET (SUBSET D)
    BY DEF G
  <2>2. QED  BY <1>1, <1>2, <2>1, SubsetInduction
<1>4. QED  BY <1>3

\* Larger summands have a larger sum.
LEMMA SumMonotone ==
  ASSUME NEW D, IsFiniteSet(D), NEW f, NEW g, NEW sumF, NEW sumG,
         IsSum(sumF, f, D), IsSum(sumG, g, D),
         \A x \in D : f[x] \in Nat /\ g[x] \in Nat /\ f[x] <= g[x]
  PROVE  \A s \in SUBSET D : sumF[s] <= sumG[s]
<1> DEFINE G == {s \in SUBSET D : sumF[s] <= sumG[s]}
<1>1. AddsUp(sumF, f, D) /\ AddsUp(sumG, g, D)
  BY SumStep
<1>2. \A s \in SUBSET D : sumF[s] \in Nat /\ sumG[s] \in Nat
  <2>1. (\A x \in D : f[x] \in Nat) /\ (\A x \in D : g[x] \in Nat)
    OBVIOUS
  <2>2. (\A s \in SUBSET D : sumF[s] \in Nat) /\ (\A s \in SUBSET D : sumG[s] \in Nat)
    BY <2>1, SumType
  <2>3. QED  BY <2>2
<1>3. {} \in G
  <2>1. sumF[{}] = 0 /\ sumG[{}] = 0
    BY <1>1 DEF AddsUp
  <2>2. QED  BY <2>1
<1>4. ASSUME NEW s \in SUBSET D, s # {}, \A x \in s : s \ {x} \in G PROVE s \in G
  <2> DEFINE c == Pick(s)
             rest == s \ {c}
  <2>1. c \in s /\ sumF[s] = f[c] + sumF[rest] /\ sumG[s] = g[c] + sumG[rest]
    BY <1>1, <1>4 DEF AddsUp
  <2> HIDE DEF c
  <2>2. rest \in SUBSET D /\ sumF[rest] <= sumG[rest]
    BY <1>4, <2>1
  <2>3. sumF[rest] \in Nat /\ sumG[rest] \in Nat /\ f[c] \in Nat /\ g[c] \in Nat /\ f[c] <= g[c]
    BY <1>2, <2>1, <2>2
  <2> HIDE DEF rest
  <2>4. sumF[s] <= sumG[s]
    BY <2>1, <2>2, <2>3
  <2>5. QED  BY <2>4
<1>5. G = SUBSET D
  <2> HIDE DEF G
  <2>1. G \in SUBSET (SUBSET D)
    BY DEF G
  <2>2. QED  BY <1>3, <1>4, <2>1, SubsetInduction
<1>6. QED  BY <1>5

\* A sum of bounded summands is bounded.
LEMMA SumBound ==
  ASSUME NEW D, IsFiniteSet(D), NEW f, NEW sum, IsSum(sum, f, D), NEW b \in Nat,
         \A x \in D : f[x] \in Nat /\ f[x] <= b
  PROVE  \A s \in SUBSET D : sum[s] <= Cardinality(s) * b
<1> DEFINE G == {s \in SUBSET D : sum[s] <= Cardinality(s) * b}
<1>1. AddsUp(sum, f, D)
  BY SumStep
<1>2. \A s \in SUBSET D : sum[s] \in Nat
  BY SumType
<1>3. {} \in G
  <2>1. sum[{}] = 0 /\ Cardinality({}) = 0
    BY <1>1, FS_EmptySet DEF AddsUp
  <2>2. QED  BY <2>1
<1>4. ASSUME NEW s \in SUBSET D, s # {}, \A x \in s : s \ {x} \in G PROVE s \in G
  <2> DEFINE c == Pick(s)
             rest == s \ {c}
             n == Cardinality(rest)
             m == Cardinality(s)
  <2>1. c \in s /\ sum[s] = f[c] + sum[rest]
    BY <1>1, <1>4 DEF AddsUp
  <2> HIDE DEF c
  <2>2. rest \in SUBSET D /\ sum[rest] <= n * b
    BY <1>4, <2>1
  <2>3. n = m - 1 /\ m \in Nat /\ m > 0
    BY <2>1, SmallerSet
  <2>4. sum[rest] \in Nat /\ f[c] \in Nat /\ f[c] <= b
    BY <1>2, <2>1, <2>2
  <2> HIDE DEF rest, n, m
  <2>5. m * b = n * b + b
    <3>1. m = n + 1 /\ n \in Nat
      BY <2>3
    <3>2. (n + 1) * b = n * b + b
      BY <3>1
    <3>3. QED  BY <3>1, <3>2
  <2> DEFINE y == n * b
             z == m * b
  <2>6. y \in Int /\ z \in Int /\ z = y + b /\ sum[rest] <= y
    BY <2>2, <2>3, <2>5
  <2> HIDE DEF y, z
  <2>7. sum[s] <= z
    BY <2>1, <2>4, <2>6
  <2>8. QED  BY <2>7 DEF z, m
<1>5. G = SUBSET D
  <2> HIDE DEF G
  <2>1. G \in SUBSET (SUBSET D)
    BY DEF G
  <2>2. QED  BY <1>3, <1>4, <2>1, SubsetInduction
<1>6. QED  BY <1>5
=============================================================================
