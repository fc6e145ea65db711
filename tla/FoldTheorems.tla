---------------------------- MODULE FoldTheorems ----------------------------
(***************************************************************************)
(* Induction and recursion for the proofs about folds.  The library's      *)
(* induction theorems have a predicate as their parameter; the ones here   *)
(* have the set of the values for which it holds, which is first-order.    *)
(***************************************************************************)
EXTENDS Integers, FiniteSets, FiniteSetsExt, Functions, WellFoundedInduction,
        FiniteSetTheorems, TLAPS

\* A set that contains 0, and n + 1 with every n, contains every natural.
LEMMA NatsInduction ==
    ASSUME NEW S, 0 \in S, \A n \in Nat : n \in S => n + 1 \in S
    PROVE  \A n \in Nat : n \in S
<1> DEFINE R == OpToRel(<, Nat)
           T == Nat \ S
<1>1. IsWellFoundedOn(R, Nat)
  BY NatLessThanWellFounded
<1>2. ASSUME T # {} PROVE FALSE
  <2> HIDE DEF R
  <2>1. PICK x \in T : \A y \in T : ~(<<y, x>> \in R)
    BY <1>1, <1>2, WFMin
  <2>2. x \in Nat /\ x # 0 /\ x - 1 \in Nat
    OBVIOUS
  <2>3. <<x - 1, x>> \in R
    BY <2>2 DEF R, OpToRel
  <2>4. x - 1 \in S
    BY <2>1, <2>2, <2>3
  <2>5. x \in S
    BY <2>2, <2>4
  <2> QED BY <2>5
<1> QED BY <1>2

\* The same for the naturals up to a bound.
LEMMA RangeInduction ==
    ASSUME NEW n \in Nat, NEW S, 0 \in S, \A i \in 1..n : i - 1 \in S => i \in S
    PROVE  \A i \in 0..n : i \in S
<1> DEFINE T == {i \in Nat : i <= n => i \in S}
<1>1. 0 \in T
  OBVIOUS
<1>2. \A i \in Nat : i \in T => i + 1 \in T
  OBVIOUS
<1>3. \A i \in Nat : i \in T
  <2> HIDE DEF T
  <2> QED BY <1>1, <1>2, NatsInduction
<1> QED BY <1>3

-----------------------------------------------------------------------------
(* Subsets of a finite set, smaller ones first.                            *)

UpTo(S, n) == {s \in SUBSET S : Cardinality(s) <= n}

LEMMA UpToFacts ==
    ASSUME NEW S, IsFiniteSet(S)
    PROVE  /\ Cardinality(S) \in Nat /\ UpTo(S, Cardinality(S)) = SUBSET S
           /\ UpTo(S, 0) = {{}}
           /\ \A n \in Nat : UpTo(S, n) \subseteq UpTo(S, n + 1)
           /\ \A n \in Nat, s \in SUBSET S : \A x \in s :
                s \in UpTo(S, n + 1) => s \ {x} \in UpTo(S, n)
<1>1. \A s \in SUBSET S : IsFiniteSet(s) /\ Cardinality(s) \in Nat
                          /\ Cardinality(s) <= Cardinality(S)
  BY FS_Subset, FS_CardinalityType
<1>2. \A s \in SUBSET S : Cardinality(s) = 0 <=> s = {}
  BY <1>1, FS_EmptySet
<1>3. ASSUME NEW s \in SUBSET S, NEW x \in s
      PROVE  Cardinality(s \ {x}) = Cardinality(s) - 1 /\ s \ {x} \in SUBSET S
  BY <1>1, FS_RemoveElement
<1>4. UpTo(S, 0) = {{}}
  BY <1>1, <1>2 DEF UpTo
<1> QED
  BY <1>1, <1>3, <1>4 DEF UpTo

\* A set T of subsets that contains the empty one, and a subset with what is
\* left of it without one of its elements, contains all.
LEMMA SubsetInduction ==
    ASSUME NEW S, IsFiniteSet(S), NEW T, {} \in T,
           \A s \in SUBSET S : s # {} => \E x \in s : s \ {x} \in T => s \in T
    PROVE  \A s \in SUBSET S : s \in T
<1> DEFINE G == {n \in Nat : UpTo(S, n) \subseteq T}
<1>1. 0 \in G
  <2>1. UpTo(S, 0) = {{}}
    BY UpToFacts
  <2> QED BY <2>1
<1>2. ASSUME NEW n \in Nat, n \in G PROVE n + 1 \in G
  <2> SUFFICES ASSUME NEW s \in UpTo(S, n + 1) PROVE s \in T
    OBVIOUS
  <2>0. s \in SUBSET S
    BY DEF UpTo
  <2>1. CASE s = {}
    BY <2>1
  <2>2. CASE s # {}
    <3>1. PICK x \in s : s \ {x} \in T => s \in T
      BY <2>0, <2>2
    <3>2. s \ {x} \in UpTo(S, n)
      BY <2>0, UpToFacts
    <3> QED BY <1>2, <3>1, <3>2
  <2> QED BY <2>1, <2>2
<1>3. Cardinality(S) \in G
  <2> HIDE DEF G
  <2> QED BY <1>1, <1>2, NatsInduction, UpToFacts
<1> QED BY <1>3, UpToFacts

\* f folds every subset of S: it takes the elements in the order of pick, and
\* body[x] is what x does to the value.
IsFold(f, S, base, pick, body) ==
    \A s \in SUBSET S :
        f[s] = IF s = {} THEN base ELSE body[pick[s]][f[s \ {pick[s]}]]

FoldData(S, A, base, pick, body) ==
    /\ IsFiniteSet(S) /\ base \in A /\ body \in [S -> [A -> A]]
    /\ \A s \in SUBSET S : s # {} => pick[s] \in s

\* A fold over a finite set exists.
LEMMA FoldExists ==
    ASSUME NEW S, NEW A, NEW base, NEW pick, NEW body, FoldData(S, A, base, pick, body)
    PROVE  \E f \in [SUBSET S -> A] : IsFold(f, S, base, pick, body)
<1> USE DEF FoldData
<1> DEFINE Next(f, s) == IF s = {} THEN base ELSE body[pick[s]][f[s \ {pick[s]}]]
           Folds(n) == {f \in [UpTo(S, n) -> A] : \A s \in UpTo(S, n) : f[s] = Next(f, s)}
           G == {n \in Nat : Folds(n) # {}}
<1>1. 0 \in G
  <2>1. [s \in {{}} |-> base] \in Folds(0)
    BY UpToFacts
  <2> QED BY <2>1
<1>2. ASSUME NEW n \in Nat, n \in G PROVE n + 1 \in G
  <2>1. PICK f \in Folds(n) : TRUE
    BY <1>2
  <2> DEFINE g == [s \in UpTo(S, n + 1) |-> IF s \in UpTo(S, n) THEN f[s] ELSE Next(f, s)]
  <2>2. ASSUME NEW s \in UpTo(S, n + 1), s # {}
        PROVE  /\ pick[s] \in s /\ pick[s] \in S
               /\ s \ {pick[s]} \in UpTo(S, n) /\ s \ {pick[s]} \in UpTo(S, n + 1)
    <3>1. s \in SUBSET S /\ pick[s] \in s /\ pick[s] \in S
      BY <2>2 DEF UpTo
    <3>2. s \ {pick[s]} \in UpTo(S, n)
      BY <3>1, UpToFacts
    <3> QED BY <3>1, <3>2, UpToFacts
  <2>3. {} \in UpTo(S, n)
    <3>1. Cardinality({}) = 0
      BY FS_EmptySet
    <3> QED BY <3>1 DEF UpTo
  <2>4. ASSUME NEW s \in UpTo(S, n + 1)
        PROVE  g[s] \in A /\ g[s] = Next(g, s)
    <3>1. CASE s = {}
      BY <2>1, <2>3, <3>1
    <3>2. CASE s # {}
      <4>1. g[s \ {pick[s]}] = f[s \ {pick[s]}] /\ f[s \ {pick[s]}] \in A
        BY <2>1, <2>2, <3>2
      <4>2. Next(f, s) = Next(g, s) /\ Next(f, s) \in A
        <5> HIDE DEF g
        <5>1. body[pick[s]] \in [A -> A]
          BY <2>2, <3>2
        <5>2. body[pick[s]][f[s \ {pick[s]}]] \in A
          BY <4>1, <5>1
        <5> QED BY <3>2, <4>1, <5>2
      <4>3. g[s] = Next(f, s)
        BY <2>1
      <4> QED BY <4>2, <4>3
    <3> QED BY <3>1, <3>2
  <2>5. g \in Folds(n + 1)
    <3>1. g \in [UpTo(S, n + 1) -> A]
      BY <2>4
    <3> HIDE DEF g
    <3> QED BY <2>4, <3>1
  <2> HIDE DEF Folds, g
  <2> QED BY <2>5
<1>3. Cardinality(S) \in G
  <2> HIDE DEF G
  <2> QED BY <1>1, <1>2, NatsInduction, UpToFacts
<1>4. PICK f \in Folds(Cardinality(S)) : TRUE
  BY <1>3
<1>5. UpTo(S, Cardinality(S)) = SUBSET S
  BY UpToFacts
<1> QED BY <1>4, <1>5 DEF IsFold

\* fold agrees with body as long as it stays in A.
FollowsOn(fold, S, A, base, pick, body) ==
    /\ fold[{}] = base
    /\ \A s \in SUBSET S : s # {} /\ fold[s \ {pick[s]}] \in A
          => fold[s] = body[pick[s]][fold[s \ {pick[s]}]]

\* Such a fold stays in A.
LEMMA FoldStays ==
    ASSUME NEW S, NEW A, NEW base, NEW pick, NEW body, FoldData(S, A, base, pick, body),
           NEW fold, FollowsOn(fold, S, A, base, pick, body)
    PROVE  \A s \in SUBSET S : fold[s] \in A
<1> DEFINE T == {s \in SUBSET S : fold[s] \in A}
<1>1. {} \in T
  BY DEF FoldData, FollowsOn
<1>2. ASSUME NEW s \in SUBSET S, s # {}
      PROVE  \E x \in s : s \ {x} \in T => s \in T
  <2>1. pick[s] \in s /\ pick[s] \in S /\ s \ {pick[s]} \in SUBSET S
    BY <1>2 DEF FoldData
  <2>2. ASSUME s \ {pick[s]} \in T PROVE s \in T
    <3>1. body[pick[s]] \in [A -> A]
      BY <2>1 DEF FoldData
    <3>2. fold[s] = body[pick[s]][fold[s \ {pick[s]}]]
      BY <1>2, <2>2 DEF FollowsOn
    <3> QED BY <2>2, <3>1, <3>2
  <2> QED BY <2>1, <2>2
<1>3. \A s \in SUBSET S : s \in T
  <2>1. IsFiniteSet(S)
    BY DEF FoldData
  <2> HIDE DEF T
  <2> QED BY <1>1, <1>2, <2>1, SubsetInduction
<1> QED BY <1>3

-----------------------------------------------------------------------------
(* The sum of a function's values.                                         *)

\* sum adds the values of fun on each part of its domain.
IsSum(sum, fun) ==
    /\ sum \in [SUBSET DOMAIN fun -> Nat] /\ sum[{}] = 0
    /\ \A s \in SUBSET DOMAIN fun : s # {} =>
         LET x == CHOOSE y \in s : TRUE
         IN  x \in s /\ sum[s] = fun[x] + sum[s \ {x}]

LEMMA SumSteps ==
    ASSUME NEW D, IsFiniteSet(D), NEW fun \in [D -> Nat]
    PROVE  \E sum : IsSum(sum, fun) /\ SumFunction(fun) = sum[D]
<1> DEFINE Any(s) == CHOOSE y \in s : TRUE
           Step(f, s) == IF s = {} THEN 0 ELSE fun[Any(s)] + f[s \ {Any(s)}]
           sum == CHOOSE f : f = [s \in SUBSET DOMAIN fun |-> Step(f, s)]
           pick == [s \in SUBSET D |-> Any(s)]
           body == [x \in D |-> [a \in Nat |-> fun[x] + a]]
<1>1. \A s \in SUBSET D : s # {} => Any(s) \in s /\ Any(s) \in D /\ pick[s] = Any(s)
  OBVIOUS
<1>2. FoldData(D, Nat, 0, pick, body)
  <2>1. body \in [D -> [Nat -> Nat]]
    OBVIOUS
  <2>2. \A s \in SUBSET D : s # {} => pick[s] \in s
    BY <1>1
  <2> HIDE DEF body, pick
  <2> QED BY <2>1, <2>2 DEF FoldData
<1>3. \A x \in D, a \in Nat : body[x][a] = fun[x] + a
  OBVIOUS
<1> HIDE DEF pick, body, Any
<1>4. PICK f \in [SUBSET D -> Nat] : IsFold(f, D, 0, pick, body)
  BY <1>2, FoldExists
<1>5. ASSUME NEW s \in SUBSET D PROVE f[s] = Step(f, s)
  <2>1. f[s] = IF s = {} THEN 0 ELSE body[pick[s]][f[s \ {pick[s]}]]
    BY <1>4 DEF IsFold
  <2>2. CASE s = {}
    BY <2>1, <2>2
  <2>3. CASE s # {}
    <3>1. Any(s) \in D /\ pick[s] = Any(s) /\ f[s \ {Any(s)}] \in Nat
      BY <1>1, <1>4, <2>3
    <3> QED BY <1>3, <2>1, <2>3, <3>1
  <2> QED BY <2>2, <2>3
<1>6. f = [s \in SUBSET DOMAIN fun |-> Step(f, s)]
  <2> HIDE DEF Step
  <2> QED BY <1>4, <1>5
<1>7. sum = [s \in SUBSET DOMAIN fun |-> Step(sum, s)]
  <2> HIDE DEF Step
  <2> QED BY <1>6
<1>8. SumFunction(fun) = sum[D]
  BY DEF SumFunction, SumFunctionOnSet, FoldFunctionOnSet, MapThenFoldSet, Any
<1> HIDE DEF sum
<1>9. \A s \in SUBSET D : sum[s] = Step(sum, s)
  <2> HIDE DEF Step
  <2> QED BY <1>7
<1>10. FollowsOn(sum, D, Nat, 0, pick, body)
  <2>1. sum[{}] = 0
    BY <1>9
  <2>2. ASSUME NEW s \in SUBSET D, s # {}, sum[s \ {pick[s]}] \in Nat
        PROVE  sum[s] = body[pick[s]][sum[s \ {pick[s]}]]
    <3>1. Any(s) \in D /\ pick[s] = Any(s)
      BY <1>1, <2>2
    <3>2. sum[s] = fun[Any(s)] + sum[s \ {Any(s)}]
      BY <1>9, <2>2
    <3> HIDE DEF Step
    <3> QED BY <1>3, <2>2, <3>1, <3>2
  <2> QED BY <2>1, <2>2 DEF FollowsOn
<1>11. \A s \in SUBSET D : sum[s] \in Nat
  BY <1>2, <1>10, FoldStays
<1>12. sum \in [SUBSET DOMAIN fun -> Nat]
  <2> HIDE DEF Step
  <2> QED BY <1>7, <1>11
<1>13. sum[{}] = 0 /\ \A s \in SUBSET D : s # {} =>
          Any(s) \in s /\ sum[s] = fun[Any(s)] + sum[s \ {Any(s)}]
  BY <1>1, <1>9
<1>14. IsSum(sum, fun)
  BY <1>12, <1>13 DEF IsSum, Any
<1> QED BY <1>8, <1>14

LEMMA SumNat ==
    ASSUME NEW D, IsFiniteSet(D), NEW fun \in [D -> Nat]
    PROVE  SumFunction(fun) \in Nat
<1>1. PICK sum : IsSum(sum, fun) /\ SumFunction(fun) = sum[D]
  BY SumSteps
<1> QED BY <1>1 DEF IsSum

AtMost(fun, D, b) == IsFiniteSet(D) /\ b \in Nat /\ fun \in [D -> 0..b]

\* Values of at most b each that add up to b each are all b.
LEMMA SumBounded ==
    ASSUME NEW D, NEW b, NEW fun, AtMost(fun, D, b),
           SumFunction(fun) >= b * Cardinality(D)
    PROVE  \A x \in D : fun[x] = b
<1> USE DEF AtMost
<1>1. PICK sum : IsSum(sum, fun) /\ SumFunction(fun) = sum[D]
  <2>1. fun \in [D -> Nat]
    OBVIOUS
  <2> QED BY <2>1, SumSteps
<1> DEFINE Full(s) == \A x \in s : fun[x] = b
           T == {s \in SUBSET D : /\ sum[s] \in Nat /\ sum[s] <= b * Cardinality(s)
                                  /\ sum[s] = b * Cardinality(s) => Full(s)}
<1>2. {} \in T
  <2>1. Cardinality({}) = 0 /\ b * 0 = 0
    BY FS_EmptySet
  <2> QED BY <1>1, <2>1 DEF IsSum
<1>3. ASSUME NEW s \in SUBSET D, s # {}
      PROVE  \E x \in s : s \ {x} \in T => s \in T
  <2> DEFINE n == CHOOSE x \in s : TRUE
             r == s \ {n}
  <2>1. n \in s /\ n \in D /\ r \in SUBSET D
    BY <1>3
  <2>2. sum[s] = fun[n] + sum[r]
    BY <1>1, <1>3 DEF IsSum
  <2>3. Cardinality(s) = Cardinality(r) + 1 /\ Cardinality(r) \in Nat
    <3>1. IsFiniteSet(s)
      BY FS_Subset
    <3>2. IsFiniteSet(r) /\ Cardinality(r) = Cardinality(s) - 1
      BY <2>1, <3>1, FS_RemoveElement
    <3> HIDE DEF r
    <3> QED BY <3>1, <3>2, FS_CardinalityType
  <2>4. b * Cardinality(s) = b * Cardinality(r) + b /\ b * Cardinality(r) \in Nat
    BY <2>3
  <2>5. fun[n] \in 0..b
    BY <2>1
  <2>6. Full(r) /\ fun[n] = b => Full(s)
    OBVIOUS
  <2> HIDE DEF n, r, Full
  <2>7. ASSUME r \in T PROVE s \in T
    BY <2>2, <2>4, <2>5, <2>6, <2>7
  <2> QED BY <2>1, <2>7 DEF r
<1>4. \A s \in SUBSET D : s \in T
  <2> HIDE DEF T
  <2> QED BY <1>2, <1>3, SubsetInduction
<1>5. /\ sum[D] \in Nat /\ sum[D] <= b * Cardinality(D)
      /\ sum[D] = b * Cardinality(D) => Full(D)
  <2> HIDE DEF Full
  <2> QED BY <1>4
<1>6. Cardinality(D) \in Nat /\ b * Cardinality(D) \in Nat
  <2>1. Cardinality(D) \in Nat
    BY FS_CardinalityType
  <2> QED BY <2>1
<1>7. Full(D)
  <2> HIDE DEF Full
  <2> QED BY <1>1, <1>5, <1>6
<1> QED BY <1>7

\* Functions that agree have the same sums.
LEMMA SumAgree ==
    ASSUME NEW D, IsFiniteSet(D), NEW f, NEW g, NEW sum, NEW total,
           IsSum(sum, f), IsSum(total, g), D \subseteq DOMAIN f, D \subseteq DOMAIN g,
           \A x \in D : f[x] = g[x]
    PROVE  \A s \in SUBSET D : sum[s] = total[s]
<1> DEFINE T == {s \in SUBSET D : sum[s] = total[s]}
<1>1. {} \in T
  BY DEF IsSum
<1>2. ASSUME NEW s \in SUBSET D, s # {} PROVE \E x \in s : s \ {x} \in T => s \in T
  <2> DEFINE x == CHOOSE y \in s : TRUE
  <2>1. x \in s /\ sum[s] = f[x] + sum[s \ {x}]
    BY <1>2 DEF IsSum
  <2>2. total[s] = g[x] + total[s \ {x}]
    BY <1>2 DEF IsSum
  <2> HIDE DEF x
  <2> QED BY <2>1, <2>2
<1> HIDE DEF T
<1>3. \A s \in SUBSET D : s \in T
  BY <1>1, <1>2, SubsetInduction
<1> QED BY <1>3 DEF T

Summand(f) == IsFiniteSet(DOMAIN f) /\ \A x \in DOMAIN f : f[x] \in Nat
AnyLast(sum, f) == \A s \in SUBSET DOMAIN f : \A y \in s : sum[s] = f[y] + sum[s \ {y}]

\* Any element may be added last.
LEMMA SumAny == ASSUME NEW f, NEW sum, Summand(f), IsSum(sum, f) PROVE AnyLast(sum, f)
<1> USE DEF Summand
<1> DEFINE D == DOMAIN f
           T == {s \in SUBSET D : \A y \in s : sum[s] = f[y] + sum[s \ {y}]}
           G == {n \in Nat : UpTo(D, n) \subseteq T}
<1>0. \A s \in SUBSET D : sum[s] \in Nat
  BY DEF IsSum
<1>1. 0 \in G
  <2>1. UpTo(D, 0) = {{}}
    BY UpToFacts
  <2> QED BY <2>1
<1>2. ASSUME NEW n \in Nat, n \in G PROVE n + 1 \in G
  <2> SUFFICES ASSUME NEW s \in UpTo(D, n + 1), NEW y \in s
               PROVE  sum[s] = f[y] + sum[s \ {y}]
    BY DEF UpTo
  <2> DEFINE x == CHOOSE z \in s : TRUE
  <2>0. s \in SUBSET D /\ s # {}
    BY DEF UpTo
  <2>1. x \in s /\ sum[s] = f[x] + sum[s \ {x}]
    BY <2>0 DEF IsSum
  <2> HIDE DEF x
  <2>2. s \ {x} \in T /\ s \ {y} \in T
    <3>1. s \ {x} \in UpTo(D, n) /\ s \ {y} \in UpTo(D, n)
      BY <2>0, <2>1, UpToFacts
    <3> QED BY <1>2, <3>1
  <2>3. CASE x = y
    BY <2>1, <2>3
  <2>4. CASE x # y
    <3>1. y \in s \ {x} /\ x \in s \ {y} /\ (s \ {x}) \ {y} = (s \ {y}) \ {x}
      BY <2>1, <2>4
    <3>2. sum[s \ {x}] = f[y] + sum[(s \ {x}) \ {y}]
      BY <2>2, <3>1
    <3>3. sum[s \ {y}] = f[x] + sum[(s \ {y}) \ {x}]
      BY <2>2, <3>1
    <3>4. /\ sum[(s \ {y}) \ {x}] \in Nat /\ sum[(s \ {x}) \ {y}] = sum[(s \ {y}) \ {x}]
          /\ f[x] \in Nat /\ f[y] \in Nat
      BY <1>0, <2>0, <2>1, <3>1
    <3> QED BY <2>1, <3>2, <3>3, <3>4
  <2> QED BY <2>3, <2>4
<1>3. Cardinality(D) \in G
  <2> HIDE DEF G
  <2> QED BY <1>1, <1>2, NatsInduction, UpToFacts
<1> QED BY <1>3, UpToFacts DEF AnyLast

\* So may any element of the domain.
LEMMA SumLast ==
    ASSUME NEW D, IsFiniteSet(D), NEW f \in [D -> Nat], NEW sum, IsSum(sum, f), NEW y \in D
    PROVE  sum[D] = f[y] + sum[D \ {y}]
<1>1. DOMAIN f = D
  OBVIOUS
<1>2. Summand(f)
  BY <1>1 DEF Summand
<1>3. AnyLast(sum, f)
  BY <1>2, SumAny
<1> QED BY <1>1, <1>3 DEF AnyLast

LargerBy(D, a, d, f, g) ==
    /\ IsFiniteSet(D) /\ f \in [D -> Nat] /\ g \in [D -> Nat] /\ a \in D /\ d \in Nat
    /\ g[a] = f[a] + d /\ \A x \in D \ {a} : g[x] = f[x]

\* One value grows.
LEMMA SumGrows ==
    ASSUME NEW D, NEW a, NEW d, NEW f, NEW g, LargerBy(D, a, d, f, g)
    PROVE  SumFunction(g) = SumFunction(f) + d
<1> USE DEF LargerBy
<1>1. PICK sum : IsSum(sum, f) /\ SumFunction(f) = sum[D]
  BY SumSteps
<1>2. PICK total : IsSum(total, g) /\ SumFunction(g) = total[D]
  BY SumSteps
<1>3. sum[D] = f[a] + sum[D \ {a}]
  BY <1>1, SumLast
<1>4. total[D] = g[a] + total[D \ {a}]
  BY <1>2, SumLast
<1>5. total[D \ {a}] = sum[D \ {a}]
  <2> DEFINE E == D \ {a}
  <2>1. IsFiniteSet(E)
    BY FS_Subset
  <2>2. \A s \in SUBSET E : sum[s] = total[s]
    BY <1>1, <1>2, <2>1, SumAgree
  <2> QED BY <2>2
<1>6. sum[D \ {a}] \in Nat
  BY <1>1 DEF IsSum
<1> QED BY <1>1, <1>2, <1>3, <1>4, <1>5, <1>6

LongerBy(D, a, f, g) ==
    /\ IsFiniteSet(D) /\ a \notin D /\ f \in [D -> Nat] /\ g \in [D \cup {a} -> Nat]
    /\ \A x \in D : g[x] = f[x]

\* One value more.
LEMMA SumMore ==
    ASSUME NEW D, NEW a, NEW f, NEW g, LongerBy(D, a, f, g)
    PROVE  SumFunction(g) = SumFunction(f) + g[a]
<1> USE DEF LongerBy
<1> DEFINE E == D \cup {a}
<1>0. IsFiniteSet(E) /\ D = E \ {a}
  BY FS_AddElement
<1>1. PICK sum : IsSum(sum, f) /\ SumFunction(f) = sum[D]
  BY SumSteps
<1>2. PICK total : IsSum(total, g) /\ SumFunction(g) = total[E]
  BY <1>0, SumSteps
<1>4. total[E] = g[a] + total[E \ {a}]
  <2> HIDE DEF E
  <2>1. g \in [E -> Nat] /\ a \in E
    BY DEF E
  <2> QED BY <1>0, <1>2, <2>1, SumLast
<1>5. total[D] = sum[D]
  <2>2. \A s \in SUBSET D : sum[s] = total[s]
    BY <1>1, <1>2, SumAgree
  <2> QED BY <2>2
<1>6. sum[D] \in Nat
  BY <1>1 DEF IsSum
<1> QED BY <1>0, <1>1, <1>2, <1>4, <1>5, <1>6

\* No value counts.
LEMMA SumZero ==
    ASSUME NEW D, IsFiniteSet(D), NEW f, f = [x \in D |-> 0]
    PROVE  SumFunction(f) = 0
<1>1. PICK sum : IsSum(sum, f) /\ SumFunction(f) = sum[D]
  BY SumSteps
<1> DEFINE T == {s \in SUBSET D : sum[s] = 0}
<1>2. {} \in T
  BY <1>1 DEF IsSum
<1>3. ASSUME NEW s \in SUBSET D, s # {} PROVE \E x \in s : s \ {x} \in T => s \in T
  <2> DEFINE x == CHOOSE y \in s : TRUE
  <2>1. x \in s /\ sum[s] = f[x] + sum[s \ {x}]
    BY <1>1, <1>3 DEF IsSum
  <2> HIDE DEF x
  <2> QED BY <2>1
<1> HIDE DEF T
<1>4. \A s \in SUBSET D : s \in T
  BY <1>2, <1>3, SubsetInduction
<1> QED BY <1>1, <1>4 DEF T

-----------------------------------------------------------------------------
(* Folds over sequences: from the first element to the last.               *)

\* A finite set of numbers that is not empty has a maximum and a minimum.
LEMMA MaxMinIn ==
    ASSUME NEW S \in SUBSET Int, IsFiniteSet(S), S # {}
    PROVE  /\ Max(S) \in S /\ \A y \in S : Max(S) >= y
           /\ Min(S) \in S /\ \A y \in S : Min(S) <= y
<1> DEFINE IsMax(s, x) == \A y \in s : x >= y
           IsMin(s, x) == \A y \in s : x <= y
           Has(s) == (\E x \in s : IsMax(s, x)) /\ (\E x \in s : IsMin(s, x))
           T == {s \in SUBSET S : s # {} => Has(s)}
<1>1. {} \in T
  OBVIOUS
<1>2. ASSUME NEW s \in SUBSET S, s # {}
      PROVE  \E x \in s : s \ {x} \in T => s \in T
  <2>1. PICK x \in s : TRUE
    BY <1>2
  <2>2. ASSUME s \ {x} \in T PROVE s \in T
    <3>1. CASE s \ {x} = {}
      <4>1. IsMax(s, x) /\ IsMin(s, x)
        BY <3>1
      <4> QED BY <4>1
    <3>2. CASE s \ {x} # {}
      <4>1. PICK y \in s \ {x} : IsMax(s \ {x}, y)
        BY <2>2, <3>2
      <4>2. PICK z \in s \ {x} : IsMin(s \ {x}, z)
        BY <2>2, <3>2
      <4>3. IsMax(s, x) \/ IsMax(s, y)
        BY <4>1
      <4>4. IsMin(s, x) \/ IsMin(s, z)
        BY <4>2
      <4> HIDE DEF IsMax, IsMin
      <4> QED BY <4>3, <4>4
    <3> QED BY <3>1, <3>2
  <2> QED BY <2>1, <2>2
<1>3. \A s \in SUBSET S : s \in T
  <2> HIDE DEF T
  <2> QED BY <1>1, <1>2, SubsetInduction
<1>4. Has(S)
  BY <1>3
<1> QED BY <1>4 DEF Max, Min

Parts(n) == SUBSET (1..n)

\* f folds the indices of a sequence; the last one is applied last.
IsSeqFold(f, n, A, base, body) ==
    /\ f \in [Parts(n) -> A]
    /\ \A s \in Parts(n) :
         f[s] = IF s = {} THEN base ELSE body[Max(s)][f[s \ {Max(s)}]]

\* g[i] is the value after the first i elements.
IsCourse(g, n, base, body) ==
    g[0] = base /\ \A i \in 1..n : g[i] = body[i][g[i - 1]]

LEMMA MaxOfIndices ==
    ASSUME NEW n \in Nat, NEW s \in Parts(n), s # {}
    PROVE  Max(s) \in s /\ Max(s) \in 1..n /\ s \ {Max(s)} \in Parts(n)
<1> USE DEF Parts
<1>1. IsFiniteSet(1..n)
  BY FS_Interval
<1>2. IsFiniteSet(s)
  BY <1>1, FS_Subset
<1>3. s \in SUBSET Int
  OBVIOUS
<1>4. Max(s) \in s
  BY <1>2, <1>3, MaxMinIn
<1> QED BY <1>4

SeqFoldData(n, A, base, body) ==
    n \in Nat /\ base \in A /\ body \in [1..n -> [A -> A]]

LEMMA SeqFoldExists ==
    ASSUME NEW n, NEW A, NEW base, NEW body, SeqFoldData(n, A, base, body)
    PROVE  \E f : IsSeqFold(f, n, A, base, body)
<1> DEFINE pick == [s \in Parts(n) |-> Max(s)]
           D == 1..n
<1>1. n \in Nat /\ base \in A /\ body \in [1..n -> [A -> A]]
  BY DEF SeqFoldData
<1>0. SUBSET D = Parts(n)
  BY DEF Parts
<1>2. \A s \in SUBSET D : s # {} => pick[s] \in s
  BY <1>0, <1>1, MaxOfIndices
<1>3. FoldData(D, A, base, pick, body)
  <2>1. IsFiniteSet(D)
    BY <1>1, FS_Interval
  <2> HIDE DEF pick
  <2> QED BY <1>1, <1>2, <2>1 DEF FoldData
<1>4. PICK f \in [SUBSET D -> A] : IsFold(f, D, base, pick, body)
  <2> HIDE DEF pick, D
  <2> QED BY <1>3, FoldExists
<1>5. IsSeqFold(f, n, A, base, body)
  BY <1>0, <1>4 DEF IsFold, IsSeqFold
<1> QED BY <1>4, <1>5

\* What a fold does at one set of indices.
LEMMA SeqFoldAt ==
    ASSUME NEW n \in Nat, NEW A, NEW base, NEW body, NEW f,
           IsSeqFold(f, n, A, base, body), NEW s \in Parts(n)
    PROVE  /\ s = {} => f[s] = base
           /\ s # {} => /\ Max(s) \in 1..n /\ f[s \ {Max(s)}] \in A
                        /\ f[s] = body[Max(s)][f[s \ {Max(s)}]]
<1>1. s # {} => Max(s) \in 1..n /\ s \ {Max(s)} \in Parts(n)
  BY MaxOfIndices
<1>2. /\ f \in [Parts(n) -> A]
      /\ f[s] = IF s = {} THEN base ELSE body[Max(s)][f[s \ {Max(s)}]]
  BY DEF IsSeqFold
<1> QED BY <1>1, <1>2

\* The prefixes of 1..n.
LEMMA Prefix ==
    ASSUME NEW n \in Nat, NEW i \in 1..n
    PROVE  /\ 1..i \in Parts(n) /\ 1..i # {}
           /\ Max(1..i) = i /\ (1..i) \ {i} = 1..(i - 1)
<1>1. 1..i \in Parts(n) /\ 1..i # {} /\ (1..i) \ {i} = 1..(i - 1)
  BY DEF Parts
<1>2. IsFiniteSet(1..i) /\ 1..i \in SUBSET Int
  BY FS_Interval
<1>3. Max(1..i) \in 1..i /\ Max(1..i) >= i
  <2>1. i \in 1..i
    OBVIOUS
  <2> QED BY <1>1, <1>2, <2>1, MaxMinIn
<1> QED BY <1>1, <1>3

Follows(fold, n, A, base, body) ==
    /\ fold[{}] = base
    /\ \A s \in Parts(n) : s # {} /\ fold[s \ {Max(s)}] \in A
          => fold[s] = body[Max(s)][fold[s \ {Max(s)}]]

\* A fold that agrees with body on A stays in A and has a course.
LEMMA SeqFoldCourse ==
    ASSUME NEW n, NEW A, NEW base, NEW body, SeqFoldData(n, A, base, body),
           NEW fold, Follows(fold, n, A, base, body)
    PROVE  \E g \in [0..n -> A] : fold[1..n] = g[n] /\ IsCourse(g, n, base, body)
<1> USE DEF SeqFoldData, Follows
<1> DEFINE g == [i \in 0..n |-> fold[1..i]]
           T == {i \in 0..n : fold[1..i] \in A}
<1>1. 1..0 = {}
  OBVIOUS
<1>2. 0 \in T
  BY <1>1
<1>3. ASSUME NEW i \in 1..n, i - 1 \in T
      PROVE  i \in T /\ fold[1..i] = body[i][fold[1..(i - 1)]]
  <2>1. fold[1..i] = body[i][fold[1..(i - 1)]]
    BY <1>3, Prefix
  <2>2. body[i] \in [A -> A] /\ fold[1..(i - 1)] \in A
    BY <1>3
  <2> QED BY <2>1, <2>2
<1>4. \A i \in 0..n : i \in T
  <2> HIDE DEF T
  <2> QED BY <1>2, <1>3, RangeInduction
<1>5. g \in [0..n -> A] /\ fold[1..n] = g[n]
  BY <1>4
<1>6. IsCourse(g, n, base, body)
  <2>1. g[0] = base
    BY <1>1
  <2>2. ASSUME NEW i \in 1..n PROVE g[i] = body[i][g[i - 1]]
    <3>1. i - 1 \in 0..n /\ i \in 0..n
      OBVIOUS
    <3>2. fold[1..i] = body[i][fold[1..(i - 1)]]
      BY <1>3, <1>4, <3>1
    <3>3. g[i] = fold[1..i] /\ g[i - 1] = fold[1..(i - 1)]
      BY <3>1
    <3> QED BY <3>2, <3>3
  <2> HIDE DEF g
  <2> QED BY <2>1, <2>2 DEF IsCourse
<1> HIDE DEF g
<1> QED BY <1>5, <1>6
=============================================================================
