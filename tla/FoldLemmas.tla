----------------------------- MODULE FoldLemmas -----------------------------
(***************************************************************************)
(* Induction over numbers and finite sets, in a form that needs no         *)
(* operator as parameter, and what follows from it for the sums and folds  *)
(* of the community modules.                                               *)
(*                                                                         *)
(* The library's induction theorems speak of a predicate P(_).  Here the   *)
(* predicate is the set of the numbers, or the family of the sets, that it *)
(* holds of, which is a value like any other.                              *)
(***************************************************************************)
EXTENDS Functions, FiniteSetTheorems, TLAPS

-----------------------------------------------------------------------------
(* Induction. *)

\* A set of natural numbers has a least element.
LEMMA LeastNat ==
  ASSUME NEW T \in SUBSET Nat, T # {}
  PROVE  \E x \in T : \A y \in T : x <= y
<1> DEFINE R == OpToRel(<, Nat)
<1>1. IsWellFoundedOn(R, Nat)
  BY NatLessThanWellFounded
<1>2. \E x \in T : \A y \in T : ~(<<y, x>> \in R)
  <2> HIDE DEF R
  <2> QED
    BY <1>1, WFMin
<1>3. \A x, y \in Nat : ~(<<y, x>> \in R) => x <= y
  BY DEF OpToRel
<1> QED
  BY <1>2, <1>3

\* A set with zero and with the successor of each of its numbers has all of them.
LEMMA NatSetInduction ==
  ASSUME NEW T \in SUBSET Nat, 0 \in T, \A k \in T : k + 1 \in T
  PROVE  T = Nat
<1> SUFFICES ASSUME Nat \ T # {} PROVE FALSE
  OBVIOUS
<1>1. PICK x \in Nat \ T : \A y \in Nat \ T : x <= y
  BY LeastNat
<1>2. x - 1 \in Nat /\ x - 1 \notin Nat \ T
  BY <1>1
<1> QED
  BY <1>1, <1>2

\* A family that has every subset of S whose proper subsets it has, has all
\* subsets of S.
LEMMA FiniteSetInduction ==
  ASSUME NEW S, IsFiniteSet(S), NEW F \in SUBSET SUBSET S,
         \A s \in SUBSET S : (\A t \in SUBSET s : t # s => t \in F) => s \in F
  PROVE  F = SUBSET S
<1> SUFFICES ASSUME NEW s \in SUBSET S, s \notin F PROVE FALSE
  OBVIOUS
<1>1. \A t \in SUBSET S : IsFiniteSet(t) /\ Cardinality(t) \in Nat
  BY FS_Subset, FS_CardinalityType
<1> DEFINE Left == {t \in SUBSET S : t \notin F}
           T == {Cardinality(t) : t \in Left}
<1>2. PICK k \in T : \A j \in T : k <= j
  <2>1. \A t \in Left : Cardinality(t) \in Nat
    BY <1>1
  <2>2. s \in Left
    OBVIOUS
  <2> HIDE DEF Left
  <2>3. T \in SUBSET Nat /\ T # {}
    BY <2>1, <2>2
  <2> HIDE DEF T
  <2> QED
    BY <2>3, LeastNat
<1>3. PICK least \in Left : k = Cardinality(least)
  <2> HIDE DEF Left
  <2> QED
    BY <1>2
<1>4. ASSUME NEW t \in SUBSET least, t # least PROVE t \in F
  <2>1. IsFiniteSet(least) /\ t \in SUBSET S /\ least \in SUBSET S
    BY <1>1, <1>3
  <2>2. Cardinality(t) < Cardinality(least)
    BY <1>1, <2>1, <1>4, FS_Subset
  <2>3. CASE t \in Left
    <3>1. Cardinality(t) \in T
      BY <2>3
    <3> QED
      BY <1>1, <1>2, <1>3, <2>1, <2>2, <3>1
  <2> QED
    BY <2>1, <2>3
<1> QED
  BY <1>3, <1>4

-----------------------------------------------------------------------------
(* A recursion over the subsets of D that takes the elements out as pick does. *)

Picks(pick, D) == \A s \in SUBSET D : s # {} => pick[s] \in s

IsFold(fold, base, step, pick, D) ==
  fold = [s \in SUBSET D |->
            IF s = {} THEN base ELSE step[pick[s]][fold[s \ {pick[s]}]]]

\* There is a function that meets the recursion.
LEMMA FoldExists ==
  ASSUME NEW D, IsFiniteSet(D), NEW V, NEW base \in V, NEW step \in [D -> [V -> V]],
         NEW pick, Picks(pick, D)
  PROVE  \E fold \in [SUBSET D -> V] : IsFold(fold, base, step, pick, D)
<1> DEFINE Small(k) == {s \in SUBSET D : Cardinality(s) <= k}
           Value(g, s) == IF s = {} THEN base ELSE step[pick[s]][g[s \ {pick[s]}]]
           T == {k \in Nat : \E g \in [Small(k) -> V] : \A s \in Small(k) : g[s] = Value(g, s)}
<1>1. \A s \in SUBSET D : IsFiniteSet(s) /\ Cardinality(s) \in Nat
  BY FS_Subset, FS_CardinalityType
<1>2. 0 \in T
  <2>1. Small(0) = {{}}
    <3>1. \A s \in Small(0) : s = {}
      BY <1>1, FS_EmptySet
    <3>2. {} \in Small(0)
      BY FS_EmptySet
    <3> QED
      BY <3>1, <3>2
  <2> DEFINE g == [s \in Small(0) |-> base]
  <2>2. g \in [Small(0) -> V] /\ \A s \in Small(0) : g[s] = Value(g, s)
    <3> HIDE DEF Small
    <3> QED
      BY <2>1
  <2> HIDE DEF g, Small, Value
  <2> QED
    BY <2>2
<1>3. ASSUME NEW k \in T PROVE k + 1 \in T
  <2>1. k \in Nat /\ k + 1 \in Nat
    OBVIOUS
  <2>2. PICK g \in [Small(k) -> V] : \A s \in Small(k) : g[s] = Value(g, s)
    <3> HIDE DEF Small, Value
    <3> QED
      OBVIOUS
  <2> DEFINE h == [s \in Small(k + 1) |-> Value(g, s)]
  <2>3. ASSUME NEW s \in Small(k + 1), s # {}
        PROVE  pick[s] \in D /\ s \ {pick[s]} \in Small(k)
    <3>1. pick[s] \in s /\ Cardinality(s) <= k + 1 /\ s \in SUBSET D
      BY <2>3 DEF Picks
    <3>2. s \ {pick[s]} \in SUBSET D /\ Cardinality(s \ {pick[s]}) = Cardinality(s) - 1
      BY <1>1, <3>1, FS_RemoveElement
    <3> QED
      BY <1>1, <2>1, <3>1, <3>2
  <2>4. h \in [Small(k + 1) -> V]
    <3>1. ASSUME NEW s \in Small(k + 1) PROVE Value(g, s) \in V
      <4>1. CASE s = {}
        BY <4>1
      <4>2. CASE s # {}
        <5> HIDE DEF Small
        <5> QED
          BY <2>3, <4>2
      <4> QED
        BY <4>1, <4>2
    <3> HIDE DEF Small, Value
    <3> QED
      BY <3>1
  <2>5. \A s \in Small(k) : s \in Small(k + 1) /\ h[s] = g[s]
    <3>1. \A s \in Small(k) : s \in Small(k + 1)
      BY <1>1, <2>1
    <3> HIDE DEF Small, Value
    <3> QED
      BY <2>2, <3>1
  <2>6. \A s \in Small(k + 1) : h[s] = Value(h, s)
    <3> HIDE DEF Small
    <3>1. \A s \in Small(k + 1) : h[s] = Value(g, s)
      OBVIOUS
    <3> HIDE DEF h
    <3> QED
      BY <2>3, <2>5, <3>1
  <2> HIDE DEF h, Small, Value
  <2> QED
    BY <2>1, <2>4, <2>6
<1>4. T = Nat
  <2> HIDE DEF T
  <2>1. T \in SUBSET Nat
    BY DEF T
  <2> QED
    BY <1>2, <1>3, <2>1, NatSetInduction
<1>5. Small(Cardinality(D)) = SUBSET D /\ Cardinality(D) \in T
  BY <1>1, <1>4, FS_Subset
<1>6. PICK g \in [SUBSET D -> V] : \A s \in SUBSET D : g[s] = Value(g, s)
  <2> HIDE DEF Small, Value
  <2> QED
    BY <1>5
<1>7. g = [s \in SUBSET D |-> Value(g, s)]
  <2> HIDE DEF Value
  <2> QED
    BY <1>6
<1> QED
  BY <1>7 DEF IsFold

-----------------------------------------------------------------------------
(* Sums. *)

Least(s) == CHOOSE x \in s : TRUE

IsSum(iter, f, S) ==
  iter = [s \in SUBSET S |-> IF s = {} THEN 0 ELSE f[Least(s)] + iter[s \ {Least(s)}]]

\* The recursion that defines a sum is met by integers.
LEMMA SumRecursion ==
  ASSUME NEW S, IsFiniteSet(S), NEW f, \A x \in S : f[x] \in Int
  PROVE  \E iter \in [SUBSET S -> Int] : IsSum(iter, f, S)
<1> DEFINE pick == [s \in SUBSET S |-> Least(s)]
           step == [x \in S |-> [v \in Int |-> f[x] + v]]
<1>1. \A s \in SUBSET S : s # {} => Least(s) \in s
  BY DEF Least
<1>2. Picks(pick, S)
  BY <1>1 DEF Picks
<1>3. step \in [S -> [Int -> Int]]
  OBVIOUS
<1>4. PICK iter \in [SUBSET S -> Int] : IsFold(iter, 0, step, pick, S)
  <2>1. 0 \in Int
    OBVIOUS
  <2> HIDE DEF step, pick
  <2> QED
    BY <1>2, <1>3, <2>1, FoldExists
<1>5. ASSUME NEW s \in SUBSET S, s # {}
      PROVE  step[pick[s]][iter[s \ {pick[s]}]] = f[Least(s)] + iter[s \ {Least(s)}]
  <2>1. pick[s] = Least(s) /\ Least(s) \in S
    BY <1>1, <1>5
  <2>2. s \ {Least(s)} \in SUBSET S
    OBVIOUS
  <2>3. iter[s \ {Least(s)}] \in Int
    BY <2>2
  <2>4. step[Least(s)][iter[s \ {Least(s)}]] = f[Least(s)] + iter[s \ {Least(s)}]
    BY <2>1, <2>3
  <2> HIDE DEF pick, step
  <2> QED
    BY <2>1, <2>4
<1>6. iter = [s \in SUBSET S |->
                IF s = {} THEN 0 ELSE step[pick[s]][iter[s \ {pick[s]}]]]
  BY <1>4 DEF IsFold
<1>7. iter = [s \in SUBSET S |-> IF s = {} THEN 0 ELSE f[Least(s)] + iter[s \ {Least(s)}]]
  <2> HIDE DEF step, pick
  <2> QED
    BY <1>5, <1>6
<1> QED
  BY <1>7 DEF IsSum

\* All functions that meet it agree.
LEMMA SumRecursionUnique ==
  ASSUME NEW S, IsFiniteSet(S), NEW T \in SUBSET S, NEW f, NEW g, \A x \in T : f[x] = g[x],
         NEW a, IsSum(a, f, S), NEW b, IsSum(b, g, T)
  PROVE  \A s \in SUBSET T : a[s] = b[s]
<1> DEFINE F == {s \in SUBSET T : a[s] = b[s]}
<1>1. ASSUME NEW s \in SUBSET T, \A t \in SUBSET s : t # s => t \in F
      PROVE  s \in F
  <2>1. CASE s = {}
    BY <2>1 DEF IsSum
  <2>2. CASE s # {}
    <3>1. Least(s) \in s
      BY <2>2 DEF Least
    <3>2. a[s \ {Least(s)}] = b[s \ {Least(s)}]
      BY <1>1, <3>1
    <3>3. /\ a[s] = f[Least(s)] + a[s \ {Least(s)}]
          /\ b[s] = g[Least(s)] + b[s \ {Least(s)}]
      BY <2>2 DEF IsSum
    <3> QED
      BY <3>1, <3>2, <3>3
  <2> QED
    BY <2>1, <2>2
<1>2. IsFiniteSet(T) /\ F \in SUBSET SUBSET T
  BY FS_Subset
<1>3. F = SUBSET T
  <2> HIDE DEF F
  <2> QED
    BY <1>1, <1>2, FiniteSetInduction
<1> QED
  BY <1>3

\* The sum is the value of any of them.
LEMMA SumValue ==
  ASSUME NEW S, IsFiniteSet(S), NEW f, \A x \in S : f[x] \in Int,
         NEW iter, IsSum(iter, f, S)
  PROVE  \A s \in SUBSET S : SumFunctionOnSet(f, s) = iter[s]
<1> SUFFICES ASSUME NEW s \in SUBSET S PROVE SumFunctionOnSet(f, s) = iter[s]
  OBVIOUS
<1>1. IsFiniteSet(s)
  BY FS_Subset
<1> DEFINE chosen == CHOOSE g : IsSum(g, f, s)
<1>2. SumFunctionOnSet(f, s) = chosen[s]
  BY DEF SumFunctionOnSet, FoldFunctionOnSet, MapThenFoldSet, IsSum, Least
<1>3. \E g : IsSum(g, f, s)
  BY <1>1, SumRecursion
<1>4. IsSum(chosen, f, s)
  BY <1>3, Zenon
<1> HIDE DEF chosen
<1> QED
  BY <1>2, <1>4, SumRecursionUnique

\* Functions that agree on a set have the same sum over it.
LEMMA SumCongruence ==
  ASSUME NEW S, IsFiniteSet(S), NEW f, NEW g, \A x \in S : f[x] \in Int /\ f[x] = g[x]
  PROVE  SumFunctionOnSet(f, S) = SumFunctionOnSet(g, S)
<1>1. PICK a \in [SUBSET S -> Int] : IsSum(a, f, S)
  BY SumRecursion
<1>2. PICK b \in [SUBSET S -> Int] : IsSum(b, g, S)
  BY SumRecursion
<1>3. SumFunctionOnSet(f, S) = a[S] /\ SumFunctionOnSet(g, S) = b[S]
  BY <1>1, <1>2, SumValue
<1> QED
  BY <1>1, <1>2, <1>3, SumRecursionUnique

LEMMA SumType ==
  ASSUME NEW S, IsFiniteSet(S), NEW f, \A x \in S : f[x] \in Int
  PROVE  SumFunctionOnSet(f, S) \in Int
<1>1. PICK a \in [SUBSET S -> Int] : IsSum(a, f, S)
  BY SumRecursion
<1> QED
  BY <1>1, SumValue

LEMMA SumEmpty ==
  ASSUME NEW f
  PROVE  SumFunctionOnSet(f, {}) = 0
<1>1. IsFiniteSet({})
  BY FS_EmptySet
<1>2. PICK a \in [SUBSET {} -> Int] : IsSum(a, f, {})
  BY <1>1, SumRecursion
<1>3. {} \in SUBSET {} /\ a[{}] = 0
  BY <1>2 DEF IsSum
<1>4. \A x \in {} : f[x] \in Int
  OBVIOUS
<1> QED
  BY <1>1, <1>2, <1>3, <1>4, SumValue

\* Any element may be taken out of a sum first.
LEMMA SumTakeOut ==
  ASSUME NEW S, IsFiniteSet(S), NEW f, \A x \in S : f[x] \in Int, NEW x \in S
  PROVE  SumFunctionOnSet(f, S) = f[x] + SumFunctionOnSet(f, S \ {x})
<1>1. PICK a \in [SUBSET S -> Int] : IsSum(a, f, S)
  BY SumRecursion
<1> DEFINE F == {s \in SUBSET S : \A y \in s : a[s] = f[y] + a[s \ {y}]}
<1>2. ASSUME NEW s \in SUBSET S, \A t \in SUBSET s : t # s => t \in F
      PROVE  s \in F
  <2>1. SUFFICES ASSUME NEW y \in s PROVE a[s] = f[y] + a[s \ {y}]
    OBVIOUS
  <2> DEFINE z == Least(s)
  <2>2. z \in s
    BY DEF Least
  <2>3. a[s] = f[z] + a[s \ {z}]
    BY <1>1, <2>1 DEF IsSum
  <2> HIDE DEF z
  <2>4. CASE y # z
    <3>1. s \ {z} \in F /\ s \ {y} \in F
      BY <1>2, <2>1, <2>2
    <3>2. y \in s \ {z} /\ z \in s \ {y} /\ (s \ {z}) \ {y} = (s \ {y}) \ {z}
      BY <2>1, <2>2, <2>4
    <3>3. /\ a[s \ {z}] = f[y] + a[(s \ {z}) \ {y}]
          /\ a[s \ {y}] = f[z] + a[(s \ {z}) \ {y}]
      BY <3>1, <3>2
    <3>4. f[y] \in Int /\ f[z] \in Int /\ a[(s \ {z}) \ {y}] \in Int
      BY <1>1, <2>1, <2>2
    <3> QED
      BY <2>3, <3>3, <3>4
  <2> QED
    BY <2>3, <2>4
<1>3. F = SUBSET S
  <2> HIDE DEF F
  <2>1. F \in SUBSET SUBSET S
    BY DEF F
  <2> QED
    BY <1>2, <2>1, FiniteSetInduction
<1>4. a[S] = f[x] + a[S \ {x}]
  BY <1>3
<1> QED
  BY <1>1, <1>4, SumValue

\* A sum of natural numbers is one.
LEMMA SumNat ==
  ASSUME NEW S, IsFiniteSet(S), NEW f, \A x \in S : f[x] \in Nat
  PROVE  SumFunctionOnSet(f, S) \in Nat
<1>0. \A x \in S : f[x] \in Int
  OBVIOUS
<1>1. PICK a \in [SUBSET S -> Int] : IsSum(a, f, S)
  BY <1>0, SumRecursion
<1> DEFINE F == {s \in SUBSET S : a[s] \in Nat}
<1>2. ASSUME NEW s \in SUBSET S, \A t \in SUBSET s : t # s => t \in F
      PROVE  s \in F
  <2>1. CASE s = {}
    BY <1>1, <2>1 DEF IsSum
  <2>2. CASE s # {}
    <3>1. Least(s) \in s
      BY <2>2 DEF Least
    <3>2. a[s \ {Least(s)}] \in Nat /\ f[Least(s)] \in Nat
      BY <1>2, <3>1
    <3>3. a[s] = f[Least(s)] + a[s \ {Least(s)}]
      BY <1>1, <2>2 DEF IsSum
    <3> QED
      BY <3>2, <3>3
  <2> QED
    BY <2>1, <2>2
<1>3. F = SUBSET S
  <2> HIDE DEF F
  <2>1. F \in SUBSET SUBSET S
    BY DEF F
  <2> QED
    BY <1>2, <2>1, FiniteSetInduction
<1>4. a[S] \in Nat
  BY <1>3
<1> QED
  BY <1>0, <1>1, <1>4, SumValue

\* The sum of a prefix of the natural numbers, and of the next longer one.
LEMMA SumOfPrefix ==
  ASSUME NEW k \in Nat, NEW f, \A x \in 1 .. k + 1 : f[x] \in Int
  PROVE  SumFunctionOnSet(f, 1 .. k + 1) = SumFunctionOnSet(f, 1 .. k) + f[k + 1]
<1>1. IsFiniteSet(1 .. k + 1) /\ IsFiniteSet(1 .. k)
  BY FS_Interval
<1>2. k + 1 \in 1 .. k + 1 /\ (1 .. k + 1) \ {k + 1} = 1 .. k
  OBVIOUS
<1>3. SumFunctionOnSet(f, 1 .. k + 1) = f[k + 1] + SumFunctionOnSet(f, 1 .. k)
  BY <1>1, <1>2, SumTakeOut
<1>4. SumFunctionOnSet(f, 1 .. k) \in Int
  BY <1>1, SumType
<1> QED
  BY <1>2, <1>3, <1>4

\* What grows by one value at a time is their sum.
LEMMA RunningSum ==
  ASSUME NEW n \in Nat, NEW f, \A k \in 1 .. n : f[k] \in Nat, NEW acc,
         acc[0] = 0, \A k \in 1 .. n : acc[k] = acc[k - 1] + f[k]
  PROVE  acc[n] = SumFunctionOnSet(f, 1 .. n)
<1> DEFINE T == {k \in Nat : k <= n => acc[k] = SumFunctionOnSet(f, 1 .. k)}
<1>1. 0 \in T
  <2>1. 1 .. 0 = {}
    OBVIOUS
  <2> QED
    BY <2>1, SumEmpty
<1>2. ASSUME NEW k \in T PROVE k + 1 \in T
  <2>1. CASE k + 1 <= n
    <3>1. k \in Nat /\ k + 1 \in 1 .. n /\ (k + 1) - 1 = k
      BY <2>1
    <3>2. \A x \in 1 .. k + 1 : f[x] \in Int
      BY <3>1
    <3>3. SumFunctionOnSet(f, 1 .. k + 1) = SumFunctionOnSet(f, 1 .. k) + f[k + 1]
      BY <3>1, <3>2, SumOfPrefix
    <3>4. acc[k] = SumFunctionOnSet(f, 1 .. k)
      BY <1>2, <2>1
    <3> QED
      BY <3>1, <3>3, <3>4
  <2> QED
    BY <2>1
<1>3. T \in SUBSET Nat
  OBVIOUS
<1>4. n \in T
  <2> HIDE DEF T
  <2> QED
    BY <1>1, <1>2, <1>3, NatSetInduction
<1> QED
  BY <1>4

\* One more value at the end adds itself.
LEMMA SumExtend ==
  ASSUME NEW n \in Nat, NEW f, NEW g, \A i \in 1 .. n + 1 : g[i] \in Int,
         \A i \in 1 .. n : g[i] = f[i]
  PROVE  SumFunctionOnSet(g, 1 .. n + 1) = SumFunctionOnSet(f, 1 .. n) + g[n + 1]
<1>1. SumFunctionOnSet(g, 1 .. n + 1) = SumFunctionOnSet(g, 1 .. n) + g[n + 1]
  BY SumOfPrefix
<1>2. IsFiniteSet(1 .. n)
  BY FS_Interval
<1>3. \A i \in 1 .. n : g[i] \in Int /\ g[i] = f[i]
  OBVIOUS
<1> QED
  BY <1>1, <1>2, <1>3, SumCongruence

LEMMA SumZero ==
  ASSUME NEW S, IsFiniteSet(S), NEW f, \A x \in S : f[x] = 0
  PROVE  SumFunctionOnSet(f, S) = 0
<1>0. \A x \in S : f[x] \in Int
  OBVIOUS
<1>1. PICK a \in [SUBSET S -> Int] : IsSum(a, f, S)
  BY <1>0, SumRecursion
<1> DEFINE F == {s \in SUBSET S : a[s] = 0}
<1>2. ASSUME NEW s \in SUBSET S, \A t \in SUBSET s : t # s => t \in F
      PROVE  s \in F
  <2>1. CASE s = {}
    BY <1>1, <2>1 DEF IsSum
  <2>2. CASE s # {}
    <3>1. Least(s) \in s
      BY <2>2 DEF Least
    <3>2. a[s \ {Least(s)}] = 0 /\ f[Least(s)] = 0
      BY <1>2, <3>1
    <3>3. a[s] = f[Least(s)] + a[s \ {Least(s)}]
      BY <1>1, <2>2 DEF IsSum
    <3> QED
      BY <3>2, <3>3
  <2> QED
    BY <2>1, <2>2
<1>3. F = SUBSET S
  <2> HIDE DEF F
  <2>1. F \in SUBSET SUBSET S
    BY DEF F
  <2> QED
    BY <1>2, <2>1, FiniteSetInduction
<1>4. a[S] = 0
  BY <1>3
<1> QED
  BY <1>0, <1>1, <1>4, SumValue

\* A sum changes by what one of its terms changes.
LEMMA SumUpdate ==
  ASSUME NEW S, IsFiniteSet(S), NEW f, NEW g, NEW x \in S,
         \A y \in S : f[y] \in Int /\ g[y] \in Int,
         \A y \in S \ {x} : g[y] = f[y]
  PROVE  SumFunctionOnSet(g, S) = SumFunctionOnSet(f, S) - f[x] + g[x]
<1>1. IsFiniteSet(S \ {x})
  BY FS_Subset
<1>2. SumFunctionOnSet(f, S) = f[x] + SumFunctionOnSet(f, S \ {x})
  BY SumTakeOut
<1>3. SumFunctionOnSet(g, S) = g[x] + SumFunctionOnSet(g, S \ {x})
  BY SumTakeOut
<1>4. SumFunctionOnSet(g, S \ {x}) = SumFunctionOnSet(f, S \ {x})
  <2>1. \A y \in S \ {x} : g[y] \in Int /\ g[y] = f[y]
    OBVIOUS
  <2> QED
    BY <1>1, <2>1, SumCongruence
<1>5. SumFunctionOnSet(f, S \ {x}) \in Int
  <2>1. \A y \in S \ {x} : f[y] \in Int
    OBVIOUS
  <2> QED
    BY <1>1, <2>1, SumType
<1> QED
  BY <1>2, <1>3, <1>4, <1>5

\* No term of a sum of natural numbers is more than the sum.
LEMMA SumAtLeast ==
  ASSUME NEW S, IsFiniteSet(S), NEW f, \A x \in S : f[x] \in Nat, NEW x \in S
  PROVE  f[x] <= SumFunctionOnSet(f, S)
<1>1. IsFiniteSet(S \ {x}) /\ \A y \in S : f[y] \in Int
  BY FS_Subset
<1>2. SumFunctionOnSet(f, S) = f[x] + SumFunctionOnSet(f, S \ {x})
  BY <1>1, SumTakeOut
<1>3. SumFunctionOnSet(f, S \ {x}) \in Nat
  <2>1. \A y \in S \ {x} : f[y] \in Nat
    OBVIOUS
  <2> QED
    BY <1>1, <2>1, SumNat
<1> QED
  BY <1>2, <1>3

\* Bounds on the terms add up: f and g may be in different units, and the terms
\* of f exceed those of g by up to slack.
LEMMA SumCompare ==
  ASSUME NEW S, IsFiniteSet(S), NEW f, NEW g, \A x \in S : f[x] \in Nat /\ g[x] \in Nat,
         NEW c \in Nat, NEW d \in Nat, NEW slack \in Nat,
         \A x \in S : f[x] * c <= g[x] * d + slack
  PROVE  SumFunctionOnSet(f, S) * c <= SumFunctionOnSet(g, S) * d + slack * Cardinality(S)
<1> DEFINE Sums(s) == /\ SumFunctionOnSet(f, s) \in Nat
                      /\ SumFunctionOnSet(g, s) \in Nat
                      /\ SumFunctionOnSet(f, s) * c
                           <= SumFunctionOnSet(g, s) * d + slack * Cardinality(s)
           F == {s \in SUBSET S : Sums(s)}
<1>1. \A s \in SUBSET S : IsFiniteSet(s) /\ Cardinality(s) \in Nat
  BY FS_Subset, FS_CardinalityType
<1>2. ASSUME NEW s \in SUBSET S, \A t \in SUBSET s : t # s => t \in F
      PROVE  s \in F
  <2>1. CASE s = {}
    <3>1. /\ SumFunctionOnSet(f, s) = 0 /\ SumFunctionOnSet(g, s) = 0
          /\ Cardinality(s) = 0
      BY <2>1, SumEmpty, FS_EmptySet
    <3> QED
      BY <3>1
  <2>2. CASE s # {}
    <3>1. PICK x \in s : TRUE
      BY <2>2
    <3>2. Sums(s \ {x})
      BY <1>2, <3>1
    <3>3. /\ SumFunctionOnSet(f, s) = f[x] + SumFunctionOnSet(f, s \ {x})
          /\ SumFunctionOnSet(g, s) = g[x] + SumFunctionOnSet(g, s \ {x})
      <4>1. \A y \in s : f[y] \in Int /\ g[y] \in Int
        OBVIOUS
      <4> QED
        BY <1>1, <3>1, <4>1, SumTakeOut
    <3>4. Cardinality(s) = Cardinality(s \ {x}) + 1 /\ Cardinality(s \ {x}) \in Nat
      BY <1>1, <3>1, FS_RemoveElement
    <3>5. \A a, b, k \in Nat : (a + b) * k = a * k + b * k
      OBVIOUS
    <3> DEFINE p == SumFunctionOnSet(f, s \ {x})
               q == SumFunctionOnSet(g, s \ {x})
               m == Cardinality(s \ {x})
    <3>6. f[x] \in Nat /\ g[x] \in Nat /\ p \in Nat /\ q \in Nat /\ m \in Nat
      BY <3>1, <3>2, <3>4
    <3>7. /\ f[x] * c <= g[x] * d + slack
          /\ p * c <= q * d + slack * m
      BY <3>1, <3>2
    <3> HIDE DEF p, q, m
    <3>8. /\ (f[x] + p) * c = f[x] * c + p * c
          /\ (g[x] + q) * d = g[x] * d + q * d
          /\ slack * (m + 1) = slack * m + slack
      BY <3>6
    <3>9. /\ f[x] * c \in Nat /\ p * c \in Nat /\ g[x] * d \in Nat /\ q * d \in Nat
          /\ slack * m \in Nat
      BY <3>6
    <3>10. (f[x] + p) * c <= (g[x] + q) * d + slack * (m + 1)
      <4> DEFINE fc == f[x] * c
                 pc == p * c
                 gd == g[x] * d
                 qd == q * d
                 sm == slack * m
      <4>1. /\ fc \in Nat /\ pc \in Nat /\ gd \in Nat /\ qd \in Nat /\ sm \in Nat
            /\ fc <= gd + slack /\ pc <= qd + sm
        BY <3>7, <3>9
      <4> HIDE DEF fc, pc, gd, qd, sm
      <4>2. fc + pc <= gd + qd + (sm + slack)
        BY <4>1
      <4> QED
        BY <3>8, <4>2 DEF fc, pc, gd, qd, sm
    <3>11. f[x] + p \in Nat /\ g[x] + q \in Nat
      BY <3>6
    <3> QED
      BY <3>3, <3>4, <3>10, <3>11 DEF p, q, m
  <2> QED
    BY <2>1, <2>2
<1>3. F = SUBSET S
  <2> HIDE DEF F
  <2>1. F \in SUBSET SUBSET S
    BY DEF F
  <2> QED
    BY <1>2, <2>1, FiniteSetInduction
<1>4. Sums(S)
  <2> HIDE DEF Sums
  <2> QED
    BY <1>3
<1> QED
  BY <1>4
-----------------------------------------------------------------------------
(* Folds of a sequence from the left: the set of the indexes, greatest first. *)

Greatest(s) == CHOOSE x \in s : \A y \in s : x >= y

IsLeftFold(iter, base, step, n) ==
  iter = [s \in SUBSET (1 .. n) |->
            IF s = {} THEN base ELSE step[Greatest(s)][iter[s \ {Greatest(s)}]]]

LEMMA GreatestOf ==
  ASSUME NEW n \in Nat
  PROVE  /\ \A s \in SUBSET (1 .. n) : s # {} => Greatest(s) \in s
         /\ \A k \in 1 .. n : Greatest(1 .. k) = k
<1>1. ASSUME NEW s \in SUBSET (1 .. n), s # {} PROVE Greatest(s) \in s
  <2> DEFINE T == {n - x : x \in s}
  <2>1. T \in SUBSET Nat /\ T # {}
    <3>1. \A x \in s : x \in 1 .. n
      OBVIOUS
    <3>2. \A x \in s : n - x \in Nat
      BY <3>1
    <3> QED
      BY <1>1, <3>2
  <2>2. PICK least \in T : \A t \in T : least <= t
    <3> HIDE DEF T
    <3> QED
      BY <2>1, LeastNat
  <2>3. PICK x \in s : least = n - x
    BY <2>2
  <2>4. \A y \in s : n - y \in T
    OBVIOUS
  <2>5. \A y \in s : x >= y
    <3> HIDE DEF T
    <3> QED
      BY <2>2, <2>3, <2>4
  <2> QED
    BY <2>5 DEF Greatest
<1>2. ASSUME NEW k \in 1 .. n PROVE Greatest(1 .. k) = k
  <2>1. k \in 1 .. k /\ \A y \in 1 .. k : k >= y
    OBVIOUS
  <2>2. ASSUME NEW x \in 1 .. k, \A y \in 1 .. k : x >= y PROVE x = k
    BY <2>1, <2>2
  <2> QED
    BY <2>1, <2>2 DEF Greatest
<1> QED
  BY <1>1, <1>2

\* The recursion that defines a fold from the left is met, by values of V.
LEMMA LeftFoldExists ==
  ASSUME NEW n \in Nat, NEW V, NEW base \in V, NEW step \in [1 .. n -> [V -> V]]
  PROVE  \E iter \in [SUBSET (1 .. n) -> V] : IsLeftFold(iter, base, step, n)
<1> DEFINE D == 1 .. n
           pick == [s \in SUBSET D |-> Greatest(s)]
<1>1. \A s \in SUBSET D : s # {} => pick[s] \in s
  BY GreatestOf
<1>2. IsFiniteSet(D) /\ Picks(pick, D)
  <2>1. IsFiniteSet(D)
    BY FS_Interval
  <2> HIDE DEF D, pick
  <2> QED
    BY <1>1, <2>1 DEF Picks
<1>3. PICK iter \in [SUBSET D -> V] : IsFold(iter, base, step, pick, D)
  <2> HIDE DEF D, pick
  <2>1. step \in [D -> [V -> V]]
    BY DEF D
  <2> QED
    BY <1>2, <2>1, FoldExists
<1>4. iter = [s \in SUBSET D |-> IF s = {} THEN base ELSE step[pick[s]][iter[s \ {pick[s]}]]]
  BY <1>3 DEF IsFold
<1>5. iter = [s \in SUBSET D |->
                IF s = {} THEN base ELSE step[Greatest(s)][iter[s \ {Greatest(s)}]]]
  <2>1. \A s \in SUBSET D : pick[s] = Greatest(s)
    OBVIOUS
  <2> HIDE DEF D, pick
  <2> QED
    BY <1>4, <2>1
<1> QED
  BY <1>5 DEF IsLeftFold

\* What meets the recursion as long as its values are in V.
MeetsLeftFold(iter, base, step, V, n) ==
  /\ iter[{}] = base
  /\ \A s \in SUBSET (1 .. n) :
       s # {} /\ iter[s \ {Greatest(s)}] \in V
       => iter[s] = step[Greatest(s)][iter[s \ {Greatest(s)}]]

\* The values a fold goes through, from base to last.
IsHistory(acc, base, last, step, n) ==
  acc[0] = base /\ acc[n] = last /\ \A k \in 1 .. n : acc[k] = step[k][acc[k - 1]]

\* Over the prefixes, what meets the recursion goes through the values of V one
\* step at a time.
LEMMA LeftFoldHistory ==
  ASSUME NEW n \in Nat, NEW V, NEW base \in V, NEW step \in [1 .. n -> [V -> V]],
         NEW iter, MeetsLeftFold(iter, base, step, V, n)
  PROVE  \E acc \in [0 .. n -> V] : IsHistory(acc, base, iter[1 .. n], step, n)
<1> USE DEF MeetsLeftFold
<1> DEFINE T == {k \in Nat : k <= n => iter[1 .. k] \in V}
<1>1. 0 \in T
  <2>1. 1 .. 0 = {}
    OBVIOUS
  <2> QED
    BY <2>1
<1>2. ASSUME NEW k \in 1 .. n, iter[1 .. k - 1] \in V
      PROVE  iter[1 .. k] = step[k][iter[1 .. k - 1]] /\ iter[1 .. k] \in V
  <2>1. /\ 1 .. k \in SUBSET (1 .. n) /\ 1 .. k # {} /\ Greatest(1 .. k) = k
        /\ (1 .. k) \ {k} = 1 .. k - 1
    BY GreatestOf
  <2>2. iter[1 .. k] = step[k][iter[1 .. k - 1]]
    BY <1>2, <2>1
  <2>3. step[k] \in [V -> V]
    OBVIOUS
  <2>4. step[k][iter[1 .. k - 1]] \in V
    BY <1>2, <2>3
  <2> QED
    BY <2>2, <2>4
<1>3. ASSUME NEW k \in T PROVE k + 1 \in T
  <2>1. CASE k + 1 <= n
    <3>1. k + 1 \in 1 .. n /\ (k + 1) - 1 = k
      BY <2>1
    <3> QED
      BY <1>2, <1>3, <2>1, <3>1
  <2> QED
    BY <2>1
<1>4. T = Nat
  <2> HIDE DEF T
  <2>1. T \in SUBSET Nat
    BY DEF T
  <2> QED
    BY <1>1, <1>3, <2>1, NatSetInduction
<1>5. \A k \in 0 .. n : iter[1 .. k] \in V
  BY <1>4
<1>6. ASSUME NEW k \in 1 .. n PROVE iter[1 .. k] = step[k][iter[1 .. k - 1]]
  <2>1. k - 1 \in 0 .. n
    OBVIOUS
  <2> QED
    BY <1>2, <1>5, <2>1
<1>7. iter[1 .. 0] = base
  <2>1. 1 .. 0 = {}
    OBVIOUS
  <2> QED
    BY <2>1
<1> DEFINE acc == [k \in 0 .. n |-> iter[1 .. k]]
<1>8. \A k \in 0 .. n : acc[k] = iter[1 .. k]
  OBVIOUS
<1>9. acc \in [0 .. n -> V]
  BY <1>5
<1>10. \A k \in 1 .. n : acc[k] = step[k][acc[k - 1]]
  <2>1. \A k \in 1 .. n : k \in 0 .. n /\ k - 1 \in 0 .. n
    OBVIOUS
  <2> HIDE DEF acc
  <2> QED
    BY <1>6, <1>8, <2>1
<1>11. 0 \in 0 .. n /\ n \in 0 .. n
  OBVIOUS
<1> HIDE DEF acc
<1> QED
  BY <1>7, <1>8, <1>9, <1>10, <1>11 DEF IsHistory

-----------------------------------------------------------------------------
(* Arithmetic: leaves with a product or a quotient of variables. *)

LEMMA DivFacts ==
  ASSUME NEW a \in Nat, NEW d \in Nat \ {0}
  PROVE  /\ a \div d \in Nat
         /\ (a \div d) * d <= a
         /\ a < (a \div d) * d + d
  OBVIOUS

LEMMA MulMono ==
  ASSUME NEW a \in Nat, NEW b \in Nat, NEW c \in Nat, a <= b
  PROVE  a * c <= b * c /\ c * a <= c * b
  OBVIOUS

LEMMA MulCancel ==
  ASSUME NEW a \in Nat, NEW b \in Nat, NEW c \in Nat \ {0}, a * c <= b * c
  PROVE  a <= b
  OBVIOUS

LEMMA MulOverSum ==
  ASSUME NEW a \in Int, NEW b \in Int, NEW c \in Int
  PROVE  /\ (a + b) * c = a * c + b * c /\ c * (a + b) = c * a + c * b
         /\ (a - b) * c = a * c - b * c /\ c * (a - b) = c * a - c * b
  OBVIOUS

\* Rounding up: page k + 1 is among the pages if it begins inside the list.
LEMMA CeilDiv ==
  ASSUME NEW t \in Nat, NEW d \in Nat \ {0}, NEW k \in Nat
  PROVE  /\ (t + d - 1) \div d \in 0 .. t
         /\ k < (t + d - 1) \div d <=> k * d < t
<1> DEFINE c == (t + d - 1) \div d
<1>1. /\ c \in Nat /\ c * d <= t + d - 1 /\ t + d - 1 < c * d + d
  BY DivFacts
<1>2. c * d \in Nat /\ k * d \in Nat
  BY <1>1
<1> HIDE DEF c
<1>3. c <= t
  <2>1. SUFFICES ASSUME t + 1 <= c PROVE FALSE
    BY <1>1
  <2>2. (t + 1) * d <= c * d
    BY <1>1, <2>1, MulMono
  <2>3. (t + 1) * d = t * d + d /\ t * 1 <= t * d
    BY MulMono
  <2> QED
    BY <1>1, <1>2, <2>2, <2>3
<1>4. ASSUME k < c PROVE k * d < t
  <2>1. (k + 1) * d <= c * d /\ (k + 1) * d = k * d + d
    BY <1>1, <1>4, MulMono
  <2> QED
    BY <1>1, <1>2, <2>1
<1>5. ASSUME k * d < t PROVE k < c
  <2>1. SUFFICES ASSUME c <= k PROVE FALSE
    BY <1>1
  <2>2. c * d <= k * d
    BY <1>1, <2>1, MulMono
  <2> QED
    BY <1>1, <1>2, <1>5, <2>2
<1> QED
  BY <1>1, <1>3, <1>4, <1>5 DEF c
=============================================================================
