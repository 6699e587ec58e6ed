--------------------------- MODULE AnalyticsProofs ---------------------------
(***************************************************************************)
(* Theorems of Analytics: what the tools that compare runs say of an index *)
(* of any size, contents and order.                                        *)
(*                                                                         *)
(* The tools count and add up.  Sums of finite sets of any size need an    *)
(* induction: SetInduction is that of finite sets with the property as a   *)
(* set of sets, and from it follow what a sum is, that it does not depend  *)
(* on an order, and that the parts of a set add up to it.                  *)
(***************************************************************************)
EXTENDS Analytics, FiniteSetTheorems, WellFoundedInduction, TLAPS

(***************************************************************************)
(* Induction.                                                              *)
(***************************************************************************)
LEMMA SubsetInduction ==
    ASSUME NEW S, IsFiniteSet(S), NEW Good,
           \A T \in SUBSET S : (\A U \in SUBSET T : U # T => U \in Good) => T \in Good
    PROVE  \A T \in SUBSET S : T \in Good
<1> DEFINE Bad == {T \in SUBSET S : T \notin Good}
<1>1. SUFFICES ASSUME Bad # {} PROVE FALSE
  OBVIOUS
<1>2. FiniteSubsetsOf(S) = SUBSET S
  BY FS_FiniteSubsetsOfFinite
<1>3. IsWellFoundedOn(StrictSubsetOrdering(S), SUBSET S)
  BY <1>2, FS_StrictSubsetOrderingWellFounded
<1>4. PICK T \in Bad : \A U \in Bad : ~(<<U, T>> \in StrictSubsetOrdering(S))
  <2>1. Bad \subseteq SUBSET S
    OBVIOUS
  <2> HIDE DEF Bad
  <2> QED BY <1>1, <1>3, <2>1, WFMin
<1>5. ASSUME NEW U \in SUBSET T, U # T PROVE U \in Good
  <2>1. <<U, T>> \in StrictSubsetOrdering(S)
    BY <1>5 DEF StrictSubsetOrdering
  <2> QED BY <1>4, <2>1
<1> QED BY <1>5

LEMMA SetInduction ==
    ASSUME NEW S, IsFiniteSet(S),
           NEW Good, {} \in Good,
           \A T \in SUBSET S : \A x \in S \ T : T \in Good => T \cup {x} \in Good
    PROVE  S \in Good
<1>1. ASSUME NEW T \in SUBSET S, \A U \in SUBSET T : U # T => U \in Good PROVE T \in Good
  <2>1. CASE T = {}
    BY <2>1
  <2>2. CASE T # {}
    <3>1. PICK x \in T : TRUE
      BY <2>2
    <3>2. T \ {x} \in SUBSET S /\ x \in S \ (T \ {x}) /\ (T \ {x}) \cup {x} = T /\ T \ {x} # T
      OBVIOUS
    <3> QED BY <1>1, <3>2
  <2> QED BY <2>1, <2>2
<1> QED BY <1>1, SubsetInduction

LEMMA Counting ==
    ASSUME NEW N, 0 \in N, \A n \in Nat : n \in N => n + 1 \in N
    PROVE  Nat \subseteq N
<1> SUFFICES ASSUME NEW n \in Nat PROVE n \in N
  OBVIOUS
<1> DEFINE Good == {T \in SUBSET (1..n) : Cardinality(T) \in N}
<1>1. IsFiniteSet(1..n) /\ Cardinality(1..n) = n
  BY FS_Interval
<1>2. {} \in Good
  BY FS_EmptySet
<1>3. \A T \in SUBSET (1..n) : \A x \in (1..n) \ T : T \in Good => T \cup {x} \in Good
  <2> SUFFICES ASSUME NEW T \in SUBSET (1..n), NEW x \in (1..n) \ T, T \in Good
               PROVE  T \cup {x} \in Good
    OBVIOUS
  <2>1. IsFiniteSet(T)
    BY <1>1, FS_Subset
  <2>2. Cardinality(T) \in Nat /\ Cardinality(T \cup {x}) = Cardinality(T) + 1
    BY <2>1, FS_CardinalityType, FS_AddElement
  <2> QED BY <2>2
<1> HIDE DEF Good
<1>4. 1..n \in Good
  BY <1>1, <1>2, <1>3, SetInduction
<1> QED BY <1>1, <1>4 DEF Good

\* A finite set that is not empty has an element of the largest key.
LEMMA Largest ==
    ASSUME NEW S, IsFiniteSet(S), S # {}, NEW key, \A x \in S : key[x] \in Int
    PROVE  \E x \in S : \A y \in S : key[y] <= key[x]
<1> DEFINE Good == {T \in SUBSET S : T # {} => \E x \in T : \A y \in T : key[y] <= key[x]}
<1>1. {} \in Good
  OBVIOUS
<1>2. \A T \in SUBSET S : \A x \in S \ T : T \in Good => T \cup {x} \in Good
  <2> SUFFICES ASSUME NEW T \in SUBSET S, NEW x \in S \ T, T \in Good
               PROVE  \E m \in T \cup {x} : \A y \in T \cup {x} : key[y] <= key[m]
    OBVIOUS
  <2>1. CASE T = {}
    BY <2>1
  <2>2. CASE T # {}
    <3>1. PICK m \in T : \A y \in T : key[y] <= key[m]
      BY <2>2
    <3>2. CASE key[x] <= key[m]
      BY <3>1, <3>2
    <3>3. CASE ~(key[x] <= key[m])
      <4>1. \A y \in T \cup {x} : key[y] <= key[x]
        BY <3>1, <3>3
      <4> QED BY <4>1
    <3> QED BY <3>2, <3>3
  <2> QED BY <2>1, <2>2
<1> HIDE DEF Good
<1>3. S \in Good
  BY <1>1, <1>2, SetInduction
<1> QED BY <1>3 DEF Good

(***************************************************************************)
(* Sums.  SumFunctionOnSet takes one element after the other, those that   *)
(* CHOOSE picks.                                                           *)
(***************************************************************************)
Picked(T) == CHOOSE x \in T : TRUE

IsSum(f, S, g) ==
    /\ g \in [SUBSET S -> Int]
    /\ \A T \in SUBSET S :
           g[T] = IF T = {} THEN 0 ELSE f[Picked(T)] + g[T \ {Picked(T)}]

LEMMA SumExists ==
    ASSUME NEW S, IsFiniteSet(S), NEW f, \A x \in S : f[x] \in Int
    PROVE  \E g : IsSum(f, S, g)
<1> DEFINE Body(g, T) == IF T = {} THEN 0 ELSE f[Picked(T)] + g[T \ {Picked(T)}]
           Upto(g, n) == \A T \in SUBSET S : Cardinality(T) <= n => g[T] = Body(g, T)
           N == {n \in Nat : \E g \in [SUBSET S -> Int] : Upto(g, n)}
<1>0. \A T \in SUBSET S : IsFiniteSet(T) /\ Cardinality(T) \in Nat
  BY FS_Subset, FS_CardinalityType
<1>a. \A T \in SUBSET S : T # {} => /\ Picked(T) \in T /\ Picked(T) \in S
                                    /\ T \ {Picked(T)} \in SUBSET S
                                    /\ Cardinality(T \ {Picked(T)}) = Cardinality(T) - 1
  BY <1>0, FS_RemoveElement DEF Picked
<1>b. ASSUME NEW g \in [SUBSET S -> Int], NEW T \in SUBSET S PROVE Body(g, T) \in Int
  <2>1. CASE T # {}
    <3>1. g[T \ {Picked(T)}] \in Int /\ f[Picked(T)] \in Int
      BY <1>a, <2>1
    <3> QED BY <2>1, <3>1
  <2> QED BY <2>1
<1>1. 0 \in N
  <2> DEFINE g == [T \in SUBSET S |-> 0]
  <2>1. \A T \in SUBSET S : Cardinality(T) <= 0 => T = {}
    BY <1>0, FS_EmptySet
  <2>2. g \in [SUBSET S -> Int]
    OBVIOUS
  <2>3. Upto(g, 0)
    BY <2>1
  <2> QED BY <2>2, <2>3
<1>2. \A n \in Nat : n \in N => n + 1 \in N
  <2> SUFFICES ASSUME NEW n \in Nat, n \in N PROVE n + 1 \in N
    OBVIOUS
  <2>1. PICK g \in [SUBSET S -> Int] : Upto(g, n)
    OBVIOUS
  <2> DEFINE h == [T \in SUBSET S |-> Body(g, T)]
  <2>2. h \in [SUBSET S -> Int]
    <3> HIDE DEF Body
    <3> QED BY <1>b
  <2>3. ASSUME NEW T \in SUBSET S, Cardinality(T) <= n + 1 PROVE h[T] = Body(h, T)
    <3>1. CASE T = {}
      BY <3>1
    <3>2. CASE T # {}
      <4> DEFINE R == T \ {Picked(T)}
      <4>1. R \in SUBSET S /\ Cardinality(R) <= n
        BY <1>0, <1>a, <2>3, <3>2
      <4>2. g[R] = Body(g, R) /\ h[R] = Body(g, R)
        BY <2>1, <4>1
      <4>3. h[T] = f[Picked(T)] + g[R]
        BY <3>2
      <4> QED BY <3>2, <4>2, <4>3
    <3> QED BY <3>1, <3>2
  <2>4. Upto(h, n + 1)
    <3> HIDE DEF h, Body
    <3> QED BY <2>3
  <2>5. \E g2 \in [SUBSET S -> Int] : Upto(g2, n + 1)
    <3> HIDE DEF h, Upto
    <3> QED BY <2>2, <2>4
  <2>6. n + 1 \in Nat
    OBVIOUS
  <2> HIDE DEF Upto
  <2> QED BY <2>5, <2>6, Zenon
<1>3. Cardinality(S) \in N
  <2> HIDE DEF N
  <2> QED BY <1>0, <1>1, <1>2, Counting
<1>4. PICK g \in [SUBSET S -> Int] : Upto(g, Cardinality(S))
  BY <1>3
<1>5. \A T \in SUBSET S : Cardinality(T) <= Cardinality(S)
  BY FS_Subset
<1> QED BY <1>4, <1>5 DEF IsSum

LEMMA SumUnique ==
    ASSUME NEW S, IsFiniteSet(S), NEW f, NEW g, NEW h, IsSum(f, S, g),
           \A T \in SUBSET S : h[T] = IF T = {} THEN 0 ELSE f[Picked(T)] + h[T \ {Picked(T)}]
    PROVE  \A T \in SUBSET S : h[T] = g[T]
<1> DEFINE Good == {T \in SUBSET S : h[T] = g[T]}
<1>1. ASSUME NEW T \in SUBSET S, \A U \in SUBSET T : U # T => U \in Good PROVE T \in Good
  <2>1. CASE T = {}
    BY <2>1 DEF IsSum
  <2>2. CASE T # {}
    <3>1. Picked(T) \in T
      BY <2>2 DEF Picked
    <3>2. T \ {Picked(T)} \in Good
      BY <1>1, <3>1
    <3> QED BY <2>2, <3>2 DEF IsSum
  <2> QED BY <2>1, <2>2
<1> HIDE DEF Good
<1>2. \A T \in SUBSET S : T \in Good
  BY <1>1, SubsetInduction
<1> QED BY <1>2 DEF Good

LEMMA SumIs ==
    ASSUME NEW S, IsFiniteSet(S), NEW f, NEW g, IsSum(f, S, g)
    PROVE  SumFunctionOnSet(f, S) = g[S]
<1> DEFINE Defines(h) ==
        h = [T \in SUBSET S |-> IF T = {} THEN 0
                               ELSE LET x == CHOOSE x \in T : TRUE IN f[x] + h[T \ {x}]]
           iter == CHOOSE h : Defines(h)
<1>1. SumFunctionOnSet(f, S) = iter[S]
  BY DEF SumFunctionOnSet, FoldFunctionOnSet, MapThenFoldSet
<1>2. Defines(g)
  BY DEF IsSum, Picked
<1>3. Defines(iter)
  <2> HIDE DEF Defines
  <2> QED BY <1>2
<1>4. \A T \in SUBSET S : iter[T] = IF T = {} THEN 0 ELSE f[Picked(T)] + iter[T \ {Picked(T)}]
  <2> HIDE DEF iter
  <2> QED BY <1>3 DEF Picked
<1> HIDE DEF iter
<1>5. \A T \in SUBSET S : iter[T] = g[T]
  BY <1>4, SumUnique
<1> QED BY <1>1, <1>5


LEMMA SumParts ==
    ASSUME NEW S, IsFiniteSet(S), NEW f, NEW g, IsSum(f, S, g), NEW T \in SUBSET S
    PROVE  SumFunctionOnSet(f, T) = g[T]
<1> DEFINE h == [U \in SUBSET T |-> g[U]]
<1>1. IsSum(f, T, h)
  <2>1. h \in [SUBSET T -> Int]
    BY DEF IsSum
  <2>2. ASSUME NEW U \in SUBSET T
        PROVE  h[U] = IF U = {} THEN 0 ELSE f[Picked(U)] + h[U \ {Picked(U)}]
    <3>1. U \in SUBSET S /\ U \ {Picked(U)} \in SUBSET T
      OBVIOUS
    <3> QED BY <3>1 DEF IsSum
  <2> HIDE DEF h
  <2> QED BY <2>1, <2>2 DEF IsSum
<1>2. IsFiniteSet(T)
  BY FS_Subset
<1>3. SumFunctionOnSet(f, T) = h[T]
  <2> HIDE DEF h
  <2> QED BY <1>1, <1>2, SumIs
<1> QED BY <1>3

LEMMA SumEmpty == \A f : SumFunctionOnSet(f, {}) = 0
<1> SUFFICES ASSUME NEW f PROVE SumFunctionOnSet(f, {}) = 0
  OBVIOUS
<1>1. IsFiniteSet({})
  BY FS_EmptySet
<1>2. PICK g : IsSum(f, {}, g)
  BY <1>1, SumExists
<1> QED BY <1>1, <1>2, SumIs DEF IsSum

LEMMA SumTyped ==
    ASSUME NEW S, IsFiniteSet(S), NEW f, \A x \in S : f[x] \in Int
    PROVE  SumFunctionOnSet(f, S) \in Int
<1>1. PICK g : IsSum(f, S, g)
  BY SumExists
<1>2. g[S] \in Int
  BY <1>1 DEF IsSum
<1>3. SumFunctionOnSet(f, S) = g[S]
  BY <1>1, SumIs
<1> QED BY <1>2, <1>3

\* In any order.
LEMMA SumRemove ==
    ASSUME NEW S, IsFiniteSet(S), NEW f, \A x \in S : f[x] \in Int
    PROVE  \A T \in SUBSET S : \A x \in T :
               SumFunctionOnSet(f, T) = f[x] + SumFunctionOnSet(f, T \ {x})
<1>1. PICK g : IsSum(f, S, g)
  BY SumExists
<1>2. \A T \in SUBSET S : SumFunctionOnSet(f, T) = g[T] /\ g[T] \in Int
  <2>1. \A T \in SUBSET S : g[T] \in Int
    BY <1>1 DEF IsSum
  <2> QED BY <1>1, <2>1, SumParts
<1> DEFINE Good == {T \in SUBSET S : \A x \in T : g[T] = f[x] + g[T \ {x}]}
<1>3. ASSUME NEW T \in SUBSET S, \A U \in SUBSET T : U # T => U \in Good PROVE T \in Good
  <2> SUFFICES ASSUME NEW x \in T PROVE g[T] = f[x] + g[T \ {x}]
    OBVIOUS
  <2> DEFINE y == Picked(T)
  <2>1. y \in T
    BY DEF Picked
  <2>2. g[T] = f[y] + g[T \ {y}]
    BY <1>1 DEF IsSum
  <2>3. CASE x = y
    BY <2>2, <2>3
  <2>4. CASE x # y
    <3> DEFINE B == (T \ {x}) \ {y}
    <3> HIDE DEF y
    <3>1. T \ {y} \in Good /\ x \in T \ {y} /\ (T \ {y}) \ {x} = B
      BY <1>3, <2>1, <2>4
    <3>2. T \ {x} \in Good /\ y \in T \ {x}
      BY <1>3, <2>1, <2>4
    <3>3. g[T \ {y}] = f[x] + g[B]
      BY <3>1
    <3>4. g[T \ {x}] = f[y] + g[B]
      BY <3>2
    <3>5. f[x] \in Int /\ f[y] \in Int /\ g[B] \in Int
      <4>1. B \in SUBSET S
        OBVIOUS
      <4> QED BY <1>2, <2>1, <4>1
    <3> HIDE DEF B
    <3> QED BY <2>2, <3>3, <3>4, <3>5
  <2> QED BY <2>3, <2>4
<1> HIDE DEF Good
<1>4. \A T \in SUBSET S : T \in Good
  BY <1>3, SubsetInduction
<1>5. ASSUME NEW T \in SUBSET S, NEW x \in T
      PROVE  SumFunctionOnSet(f, T) = f[x] + SumFunctionOnSet(f, T \ {x})
  <2>1. T \ {x} \in SUBSET S
    OBVIOUS
  <2> QED BY <1>2, <1>4, <2>1 DEF Good
<1> QED BY <1>5

LEMMA SumAdd ==
    ASSUME NEW S, IsFiniteSet(S), NEW x, x \notin S, NEW f, \A y \in S \cup {x} : f[y] \in Int
    PROVE  SumFunctionOnSet(f, S \cup {x}) = f[x] + SumFunctionOnSet(f, S)
<1>1. IsFiniteSet(S \cup {x})
  BY FS_AddElement
<1>2. (S \cup {x}) \ {x} = S /\ x \in S \cup {x} /\ S \cup {x} \in SUBSET (S \cup {x})
  OBVIOUS
<1> QED BY <1>1, <1>2, SumRemove

\* Sums of values that are related, one by one.
LEMMA SumSame ==
    ASSUME NEW S, IsFiniteSet(S), NEW f, NEW g, \A x \in S : f[x] \in Int /\ f[x] = g[x]
    PROVE  SumFunctionOnSet(f, S) = SumFunctionOnSet(g, S)
<1> DEFINE Good == {T \in SUBSET S : SumFunctionOnSet(f, T) = SumFunctionOnSet(g, T)}
<1>1. {} \in Good
  BY SumEmpty
<1>2. ASSUME NEW T \in SUBSET S, NEW x \in S \ T, T \in Good PROVE T \cup {x} \in Good
  <2>1. IsFiniteSet(T)
    BY FS_Subset
  <2>2. /\ SumFunctionOnSet(f, T \cup {x}) = f[x] + SumFunctionOnSet(f, T)
        /\ SumFunctionOnSet(g, T \cup {x}) = g[x] + SumFunctionOnSet(g, T)
    BY <2>1, SumAdd
  <2> QED BY <1>2, <2>2
<1> HIDE DEF Good
<1>3. S \in Good
  BY <1>1, <1>2, SetInduction
<1> QED BY <1>3 DEF Good

LEMMA SumAtMost ==
    ASSUME NEW S, IsFiniteSet(S), NEW f, NEW g,
           \A x \in S : f[x] \in Int /\ g[x] \in Int /\ f[x] <= 100 * g[x]
    PROVE  SumFunctionOnSet(f, S) <= 100 * SumFunctionOnSet(g, S)
<1> DEFINE Good == {T \in SUBSET S : SumFunctionOnSet(f, T) <= 100 * SumFunctionOnSet(g, T)}
<1>1. {} \in Good
  BY SumEmpty
<1>2. ASSUME NEW T \in SUBSET S, NEW x \in S \ T, T \in Good PROVE T \cup {x} \in Good
  <2>1. IsFiniteSet(T)
    BY FS_Subset
  <2>2. /\ SumFunctionOnSet(f, T \cup {x}) = f[x] + SumFunctionOnSet(f, T)
        /\ SumFunctionOnSet(g, T \cup {x}) = g[x] + SumFunctionOnSet(g, T)
    BY <2>1, SumAdd
  <2>3. SumFunctionOnSet(f, T) \in Int /\ SumFunctionOnSet(g, T) \in Int
    BY <2>1, SumTyped
  <2> QED BY <1>2, <2>2, <2>3
<1> HIDE DEF Good
<1>3. S \in Good
  BY <1>1, <1>2, SetInduction
<1> QED BY <1>3 DEF Good

LEMMA SumNatural ==
    ASSUME NEW S, IsFiniteSet(S), NEW f, \A x \in S : f[x] \in Nat
    PROVE  SumFunctionOnSet(f, S) \in Nat
<1> DEFINE Good == {T \in SUBSET S : SumFunctionOnSet(f, T) \in Nat}
<1>1. {} \in Good
  BY SumEmpty
<1>2. ASSUME NEW T \in SUBSET S, NEW x \in S \ T, T \in Good PROVE T \cup {x} \in Good
  <2>1. IsFiniteSet(T)
    BY FS_Subset
  <2>2. \A y \in T \cup {x} : f[y] \in Int
    OBVIOUS
  <2>3. SumFunctionOnSet(f, T \cup {x}) = f[x] + SumFunctionOnSet(f, T)
    BY <2>1, <2>2, SumAdd
  <2> QED BY <1>2, <2>3
<1> HIDE DEF Good
<1>3. S \in Good
  BY <1>1, <1>2, SetInduction
<1> QED BY <1>3 DEF Good

\* Disjoint sets.
LEMMA SumUnion ==
    ASSUME NEW S, NEW T, IsFiniteSet(S), IsFiniteSet(T), S \cap T = {},
           NEW f, \A x \in S \cup T : f[x] \in Int
    PROVE  SumFunctionOnSet(f, S \cup T) = SumFunctionOnSet(f, S) + SumFunctionOnSet(f, T)
<1> DEFINE Good ==
        {U \in SUBSET T : SumFunctionOnSet(f, S \cup U) =
                              SumFunctionOnSet(f, S) + SumFunctionOnSet(f, U)}
<1>0. SumFunctionOnSet(f, S) \in Int
  BY SumTyped
<1>1. {} \in Good
  <2>1. S \cup {} = S
    OBVIOUS
  <2> QED BY <1>0, <2>1, SumEmpty
<1>2. ASSUME NEW U \in SUBSET T, NEW x \in T \ U, U \in Good PROVE U \cup {x} \in Good
  <2>1. IsFiniteSet(U) /\ IsFiniteSet(S \cup U)
    BY FS_Subset, FS_Union
  <2>2. x \notin S \cup U /\ S \cup (U \cup {x}) = (S \cup U) \cup {x}
    OBVIOUS
  <2>3. SumFunctionOnSet(f, U \cup {x}) = f[x] + SumFunctionOnSet(f, U)
    BY <2>1, SumAdd
  <2>4. SumFunctionOnSet(f, S \cup (U \cup {x})) = f[x] + SumFunctionOnSet(f, S \cup U)
    BY <2>1, <2>2, SumAdd
  <2>5. SumFunctionOnSet(f, U) \in Int
    BY <2>1, SumTyped
  <2> QED BY <1>0, <1>2, <2>3, <2>4, <2>5
<1> HIDE DEF Good
<1>3. T \in Good
  BY <1>1, <1>2, SetInduction
<1> QED BY <1>3 DEF Good


(***************************************************************************)
(* Images, the parts of a set, and the largest of a set.                   *)
(***************************************************************************)
LEMMA ImageIsFinite ==
    ASSUME NEW S, IsFiniteSet(S), NEW h
    PROVE  /\ IsFiniteSet({h[x] : x \in S})
           /\ Cardinality({h[x] : x \in S}) <= Cardinality(S)
           /\ (\A x, y \in S : h[x] = h[y] => x = y) =>
                  Cardinality({h[x] : x \in S}) = Cardinality(S)
<1> DEFINE T == {h[x] : x \in S}
           f == [x \in S |-> h[x]]
<1>1. f \in Surjection(S, T)
  BY DEF Surjection
<1>2. (\A x, y \in S : h[x] = h[y] => x = y) => f \in Injection(S, T)
  BY DEF Injection, IsInjective
<1> HIDE DEF f
<1> QED BY <1>1, <1>2, FS_Surjection

LEMMA SumReindex ==
    ASSUME NEW S, IsFiniteSet(S), NEW h, \A x, y \in S : h[x] = h[y] => x = y,
           NEW f, NEW g, \A x \in S : f[x] \in Int /\ f[x] = g[h[x]]
    PROVE  SumFunctionOnSet(f, S) = SumFunctionOnSet(g, {h[x] : x \in S})
<1> DEFINE Image(T) == {h[x] : x \in T}
           Good == {T \in SUBSET S : SumFunctionOnSet(f, T) = SumFunctionOnSet(g, Image(T))}
<1>1. {} \in Good
  <2>1. Image({}) = {}
    OBVIOUS
  <2> QED BY <2>1, SumEmpty
<1>2. ASSUME NEW T \in SUBSET S, NEW x \in S \ T, T \in Good PROVE T \cup {x} \in Good
  <2>1. IsFiniteSet(T)
    BY FS_Subset
  <2>2. IsFiniteSet(Image(T))
    BY <2>1, ImageIsFinite
  <2>3. Image(T \cup {x}) = Image(T) \cup {h[x]} /\ h[x] \notin Image(T)
    OBVIOUS
  <2>4. \A y \in Image(T) \cup {h[x]} : g[y] \in Int
    OBVIOUS
  <2>5. SumFunctionOnSet(f, T \cup {x}) = f[x] + SumFunctionOnSet(f, T)
    BY <2>1, SumAdd
  <2> HIDE DEF Image
  <2>6. SumFunctionOnSet(g, Image(T) \cup {h[x]}) = g[h[x]] + SumFunctionOnSet(g, Image(T))
    BY <2>2, <2>3, <2>4, SumAdd
  <2>7. f[x] = g[h[x]]
    OBVIOUS
  <2> QED BY <1>2, <2>3, <2>5, <2>6, <2>7
<1> HIDE DEF Good
<1>3. S \in Good
  BY <1>1, <1>2, SetInduction
<1> QED BY <1>3 DEF Good

\* A set is the sum of its parts.
LEMMA SumOfParts ==
    ASSUME NEW S, IsFiniteSet(S), NEW K, IsFiniteSet(K), NEW part,
           NEW size, \A k \in K : size[k] = Cardinality({x \in S : part[x] = k})
    PROVE  SumFunctionOnSet(size, K) = Cardinality({x \in S : part[x] \in K})
<1> DEFINE Of(T) == {x \in S : part[x] \in T}
           Part(k) == {x \in S : part[x] = k}
           Good == {T \in SUBSET K : SumFunctionOnSet(size, T) = Cardinality(Of(T))}
<1>0. \A k : IsFiniteSet(Part(k)) /\ Cardinality(Part(k)) \in Nat
  <2> TAKE k
  <2>1. Part(k) \in SUBSET S
    OBVIOUS
  <2> HIDE DEF Part
  <2> QED BY <2>1, FS_Subset, FS_CardinalityType
<1>1. {} \in Good
  <2>1. Of({}) = {}
    OBVIOUS
  <2> QED BY <2>1, SumEmpty, FS_EmptySet
<1>2. ASSUME NEW T \in SUBSET K, NEW k \in K \ T, T \in Good PROVE T \cup {k} \in Good
  <2>1. IsFiniteSet(T)
    BY FS_Subset
  <2>2. Of(T) \in SUBSET S
    OBVIOUS
  <2>3. IsFiniteSet(Of(T))
    BY <2>2, FS_Subset
  <2>4. Of(T \cup {k}) = Of(T) \cup Part(k) /\ Of(T) \cap Part(k) = {}
    OBVIOUS
  <2>5. ASSUME NEW j \in T \cup {k} PROVE size[j] \in Int
    <3>1. size[j] = Cardinality(Part(j))
      OBVIOUS
    <3> HIDE DEF Part
    <3> QED BY <1>0, <3>1
  <2>6. SumFunctionOnSet(size, T \cup {k}) = size[k] + SumFunctionOnSet(size, T)
    BY <2>1, <2>5, SumAdd
  <2>7. size[k] = Cardinality(Part(k))
    OBVIOUS
  <2> HIDE DEF Of, Part
  <2>8. Cardinality(Of(T) \cup Part(k)) = Cardinality(Of(T)) + Cardinality(Part(k))
    <3>1. Cardinality({}) = 0
      BY FS_EmptySet
    <3>2. Cardinality(Of(T)) \in Nat
      BY <2>3, FS_CardinalityType
    <3>3. Cardinality(Of(T) \cup Part(k)) =
              Cardinality(Of(T)) + Cardinality(Part(k)) - Cardinality(Of(T) \cap Part(k))
      BY <1>0, <2>3, FS_Union
    <3>4. Cardinality(Of(T) \cap Part(k)) = 0
      BY <2>4, <3>1
    <3>5. Cardinality(Part(k)) \in Nat
      BY <1>0
    <3> QED BY <3>2, <3>3, <3>4, <3>5
  <2>9. Cardinality(Of(T)) \in Nat /\ Cardinality(Part(k)) \in Nat
    BY <1>0, <2>3, FS_CardinalityType
  <2>10. SumFunctionOnSet(size, T) = Cardinality(Of(T))
    BY <1>2
  <2>11. SumFunctionOnSet(size, T \cup {k}) = Cardinality(Of(T \cup {k}))
    <3>1. Cardinality(Of(T \cup {k})) = Cardinality(Of(T) \cup Part(k))
      BY <2>4
    <3> QED BY <2>6, <2>7, <2>8, <2>9, <2>10, <3>1
  <2>12. T \cup {k} \in SUBSET K
    OBVIOUS
  <2> QED BY <2>11, <2>12
<1> HIDE DEF Good
<1>3. K \in Good
  BY <1>1, <1>2, SetInduction
<1> QED BY <1>3 DEF Good

LEMMA LesserOfTwo ==
    ASSUME NEW a \in Int, NEW b \in Int
    PROVE  /\ Min({a, b}) = IF a <= b THEN a ELSE b
           /\ Max({a, b}) = IF a >= b THEN a ELSE b
<1>1. Min({a, b}) \in {a, b} /\ \A y \in {a, b} : Min({a, b}) <= y
  <2>1. \E x \in {a, b} : \A y \in {a, b} : x <= y
    OBVIOUS
  <2> QED BY <2>1 DEF Min
<1>2. Max({a, b}) \in {a, b} /\ \A y \in {a, b} : Max({a, b}) >= y
  <2>1. \E x \in {a, b} : \A y \in {a, b} : x >= y
    OBVIOUS
  <2> QED BY <2>1 DEF Max
<1> QED BY <1>1, <1>2

\* For any limit there is a set of that many that no other is larger than.
LEMMA TopExists ==
    ASSUME NEW D, IsFiniteSet(D), NEW key, \A x \in D : key[x] \in Int, NEW limit \in Nat
    PROVE  \E T \in SUBSET D : /\ Cardinality(T) = Min({limit, Cardinality(D)})
                               /\ \A x \in T, y \in D \ T : key[x] >= key[y]
<1> DEFINE Top(T) == \A x \in T, y \in D \ T : key[x] >= key[y]
           N == {n \in Nat : n <= Cardinality(D) => \E T \in SUBSET D : Cardinality(T) = n /\ Top(T)}
<1>0. Cardinality(D) \in Nat /\ \A T \in SUBSET D : IsFiniteSet(T) /\ Cardinality(T) \in Nat
  BY FS_Subset, FS_CardinalityType
<1>1. 0 \in N
  <2>1. {} \in SUBSET D /\ Cardinality({}) = 0 /\ Top({})
    BY FS_EmptySet
  <2> HIDE DEF Top
  <2> QED BY <2>1
<1>2. \A n \in Nat : n \in N => n + 1 \in N
  <2> SUFFICES ASSUME NEW n \in Nat, n \in N PROVE n + 1 \in N
    OBVIOUS
  <2> SUFFICES ASSUME n + 1 <= Cardinality(D)
               PROVE  \E T \in SUBSET D : Cardinality(T) = n + 1 /\ Top(T)
    <3>1. n + 1 \in Nat
      OBVIOUS
    <3> HIDE DEF Top
    <3> QED BY <3>1
  <2>1. PICK T \in SUBSET D : Cardinality(T) = n /\ Top(T)
    <3>1. n <= Cardinality(D)
      BY <1>0
    <3> HIDE DEF Top
    <3> QED BY <3>1
  <2>2. D \ T # {} /\ IsFiniteSet(D \ T)
    <3>1. T # D
      BY <1>0, <2>1
    <3>2. D \ T \in SUBSET D
      OBVIOUS
    <3> QED BY <1>0, <3>1, <3>2
  <2>3. PICK m \in D \ T : \A y \in D \ T : key[y] <= key[m]
    BY <2>2, Largest
  <2>4. Cardinality(T \cup {m}) = n + 1 /\ T \cup {m} \in SUBSET D
    BY <1>0, <2>1, FS_AddElement
  <2>5. Top(T \cup {m})
    BY <2>1, <2>3
  <2> HIDE DEF Top
  <2> QED BY <2>4, <2>5
<1>3. Min({limit, Cardinality(D)}) \in Nat /\ Min({limit, Cardinality(D)}) <= Cardinality(D)
  BY <1>0, LesserOfTwo
<1> HIDE DEF N
<1>4. Min({limit, Cardinality(D)}) \in N
  BY <1>1, <1>2, <1>3, Counting
<1> QED BY <1>3, <1>4 DEF N


(***************************************************************************)
(* The inductive invariant: TypeOK, and                                    *)
(*   - of a run there is one row, and no two rows have one time;           *)
(*   - of a test of a run there is one row (without that a test would be   *)
(*     flaky in a single run);                                             *)
(*   - a summary is one of the artifacts, of a run that is there.          *)
(***************************************************************************)
ClockInv ==
    /\ at \in 0..MaxIndexed /\ ms \in 0..at
    /\ runs \subseteq [run : Runs, at : 1..MaxIndexed, ms : 0..MaxIndexed] /\ IsFiniteSet(runs)
    /\ \A x, y \in runs : x.run = y.run => x = y
    /\ \A x, y \in runs : x.at = y.at => x = y
    /\ \A x \in runs : x.at <= at

OneRowATest == \A t, u \in tests : SameTest(t, u) => t = u

IInv ==
    /\ TypeOK /\ ClockInv /\ OneRowATest
    /\ menu \in Menus
    /\ IsFiniteSet(tests) /\ IsFiniteSet(failures)
    /\ \A j \in DOMAIN coverage : coverage[j] \in menu.summaries /\ coverage[j].run \in Indexed

LEMMA RowOfRun ==
    ASSUME \A x, y \in runs : x.run = y.run => x = y, NEW x \in runs
    PROVE  IndexedAt(x.run) = x.at
<1>1. (CHOOSE y \in runs : y.run = x.run) = x
  OBVIOUS
<1> QED BY <1>1 DEF IndexedAt

LEMMA TimesTyped ==
    ASSUME ClockInv, NEW r \in Indexed
    PROVE  IndexedAt(r) \in 1..at
<1>1. PICK x \in runs : r = x.run
  BY DEF Indexed
<1>2. IndexedAt(r) = x.at
  BY <1>1, RowOfRun DEF ClockInv
<1> QED BY <1>2, LimitsAssumption DEF ClockInv

LEMMA UpsertStep ==
    ASSUME ClockInv, Tick, NEW r \in Runs, UpsertRun(r)
    PROVE  /\ ClockInv'
           /\ r \in Indexed' /\ IndexedAt(r)' <= at'
           /\ \A q \in Indexed : q \in Indexed' /\ IndexedAt(q)' = IndexedAt(q)
<1> DEFINE row == [run |-> r, at |-> at', ms |-> ms']
<1>1. /\ at \in Nat /\ at' = at + 1 /\ at' \in 1..MaxIndexed
      /\ ms' \in 0..at' /\ ms' \in 0..MaxIndexed
  BY LimitsAssumption DEF ClockInv, Tick
<1>2. runs \subseteq runs' /\ \A x \in runs' : x \in runs \/ (x = row /\ ~IsIndexed(r))
  BY DEF UpsertRun
<1>3. ClockInv'
  <2>1. runs' \subseteq [run : Runs, at : 1..MaxIndexed, ms : 0..MaxIndexed]
    BY <1>1, <1>2 DEF ClockInv
  <2>2. IsFiniteSet(runs')
    BY FS_AddElement DEF ClockInv, UpsertRun
  <2>3. \A x \in runs : x.at <= at /\ x.at # at' /\ (~IsIndexed(r) => x.run # r)
    BY <1>1, <2>1 DEF ClockInv, IsIndexed
  <2>4. \A x \in runs' : x.at <= at'
    BY <1>1, <1>2, <2>3 DEF ClockInv
  <2>5. \A x, y \in runs' : x.run = y.run => x = y
    BY <1>2, <2>3 DEF ClockInv
  <2>6. \A x, y \in runs' : x.at = y.at => x = y
    BY <1>2, <2>3 DEF ClockInv
  <2> QED BY <1>1, <2>1, <2>2, <2>4, <2>5, <2>6 DEF ClockInv, Tick
<1>4. ASSUME NEW x \in runs' PROVE IndexedAt(x.run)' = x.at
  <2>1. \A y, z \in runs' : y.run = z.run => y = z
    BY <1>3 DEF ClockInv
  <2>2. (CHOOSE y \in runs' : y.run = x.run) = x
    BY <2>1
  <2> QED BY <2>2 DEF IndexedAt
<1>5. ASSUME NEW q \in Indexed PROVE q \in Indexed' /\ IndexedAt(q)' = IndexedAt(q)
  <2>1. PICK x \in runs : q = x.run
    BY DEF Indexed
  <2>2. IndexedAt(q) = x.at
    BY <2>1, RowOfRun DEF ClockInv
  <2> QED BY <1>2, <1>4, <2>1, <2>2 DEF Indexed
<1>6. \E x \in runs' : x.run = r
  <2>1. CASE IsIndexed(r)
    BY <1>2, <2>1 DEF IsIndexed
  <2>2. CASE ~IsIndexed(r)
    <3>1. row \in runs' /\ row.run = r
      BY <2>2 DEF UpsertRun
    <3> QED BY <3>1
  <2> QED BY <2>1, <2>2
<1>7. r \in Indexed' /\ IndexedAt(r)' <= at'
  <2>1. PICK x \in runs' : x.run = r
    BY <1>6
  <2>2. IndexedAt(r)' = x.at /\ x.at <= at'
    BY <1>3, <1>4, <2>1 DEF ClockInv
  <2> QED BY <2>1, <2>2 DEF Indexed
<1> QED BY <1>3, <1>5, <1>7

LEMMA InitInv == Init => IInv
<1> SUFFICES ASSUME Init PROVE IInv
  OBVIOUS
<1>1. IsFiniteSet({}) /\ 0 \in 0..MaxIndexed
  BY FS_EmptySet, LimitsAssumption
<1> QED BY <1>1 DEF Init, IInv, TypeOK, ClockInv, OneRowATest, Indexed

LEMMA ResultStep ==
    ASSUME IInv, NEW x \in menu.results, IndexResult(x)
    PROVE  IInv'
<1> DEFINE row == [run |-> x.run, name |-> x.name, framework |-> x.framework, sim |-> x.sim,
                   status |-> x.status, at |-> at', ms |-> ms']
           Failure(s) == [run |-> x.run, name |-> x.name, framework |-> x.framework, text |-> s]
           added == {Failure(s) : s \in x.texts}
<1>1. x \in Results /\ IsFiniteSet(x.texts)
  BY MenusAssumption DEF IInv
<1>2. /\ ClockInv' /\ x.run \in Indexed' /\ IndexedAt(x.run)' <= at'
      /\ \A q \in Indexed : q \in Indexed' /\ IndexedAt(q)' = IndexedAt(q)
  BY <1>1, UpsertStep DEF IInv, IndexResult, Results
<1>3. at' \in 1..MaxIndexed /\ ms' \in 0..MaxIndexed
  BY LimitsAssumption DEF IInv, ClockInv, IndexResult, Tick
<1>4. tests' = {t \in tests : ~SameTest(t, x)} \cup {row} /\ failures' = failures \cup added
  BY DEF IndexResult
<1>5. OneRowATest'
  <2>1. ASSUME NEW t \in tests', NEW u \in tests', SameTest(t, u) PROVE t = u
    <3>1. CASE t \in tests /\ u \in tests
      BY <2>1, <3>1 DEF IInv, OneRowATest
    <3>2. CASE t = row \/ u = row
      <4>1. (t = row \/ (t \in tests /\ ~SameTest(t, x))) /\ (u = row \/ (u \in tests /\ ~SameTest(u, x)))
        BY <1>4
      <4> QED BY <2>1, <3>2, <4>1 DEF SameTest
    <3> QED BY <1>4, <3>1, <3>2
  <2> QED BY <2>1 DEF OneRowATest, SameTest
<1>6. IsFiniteSet(tests')
  <2>1. {t \in tests : ~SameTest(t, x)} \in SUBSET tests
    OBVIOUS
  <2>2. IsFiniteSet({t \in tests : ~SameTest(t, x)})
    BY <2>1, FS_Subset DEF IInv
  <2> QED BY <1>4, <2>2, FS_AddElement
<1>7. IsFiniteSet(failures')
  <2> DEFINE h == [s \in x.texts |-> Failure(s)]
  <2>1. IsFiniteSet({h[s] : s \in x.texts})
    <3> HIDE DEF h
    <3> QED BY <1>1, ImageIsFinite
  <2>2. {h[s] : s \in x.texts} = added
    OBVIOUS
  <2> HIDE DEF added
  <2> QED BY <1>4, <2>1, <2>2, FS_Union DEF IInv
<1>8. failures' \subseteq [run : Runs, name : Names, framework : Frameworks, text : Texts]
  BY <1>1, <1>4 DEF IInv, TypeOK, Results
<1>9. tests' \subseteq [run : Runs, name : Names, framework : Frameworks, sim : Sims \cup {NoSim},
                        status : Statuses, at : 1..MaxIndexed, ms : 0..MaxIndexed]
  BY <1>1, <1>3, <1>4 DEF IInv, TypeOK, Results
<1>10. ASSUME NEW t \in tests' PROVE t.run \in Indexed' /\ IndexedAt(t.run)' <= t.at
  <2>1. CASE t = row
    BY <1>2, <2>1
  <2>2. CASE t \in tests
    BY <1>2, <2>2 DEF IInv, TypeOK
  <2> QED BY <1>4, <2>1, <2>2
<1>11. coverage' = coverage /\ menu' = menu
  BY DEF IndexResult
<1>12. TypeOK'
  BY <1>2, <1>8, <1>9, <1>10, <1>11 DEF IInv, TypeOK, ClockInv
<1> QED BY <1>2, <1>5, <1>6, <1>7, <1>11, <1>12 DEF IInv

LEMMA CoverageStep ==
    ASSUME IInv, NEW x \in menu.summaries, IndexCoverage(x)
    PROVE  IInv'
<1>1. x \in Summaries
  BY MenusAssumption DEF IInv
<1>2. /\ ClockInv' /\ x.run \in Indexed'
      /\ \A q \in Indexed : q \in Indexed' /\ IndexedAt(q)' = IndexedAt(q)
  BY <1>1, UpsertStep DEF IInv, IndexCoverage, Summaries
<1>3. coverage' = Append(coverage, x) /\ coverage \in Seq(Summaries)
  BY DEF IndexCoverage, IInv, TypeOK
<1>4. coverage' \in Seq(Summaries)
  BY <1>1, <1>3
<1>5. \A j \in DOMAIN coverage' :
          (j \in DOMAIN coverage /\ coverage'[j] = coverage[j]) \/ coverage'[j] = x
  BY <1>1, <1>3
<1>6. tests' = tests /\ failures' = failures /\ menu' = menu
  BY DEF IndexCoverage
<1>7. \A t \in tests' : t.run \in Indexed' /\ IndexedAt(t.run)' <= t.at
  BY <1>2, <1>6 DEF IInv, TypeOK
<1>8. TypeOK'
  BY <1>2, <1>4, <1>6, <1>7 DEF IInv, TypeOK, ClockInv
<1>9. OneRowATest'
  BY <1>6 DEF IInv, OneRowATest, SameTest
<1>10. \A j \in DOMAIN coverage' : coverage'[j] \in menu' .summaries /\ coverage'[j].run \in Indexed'
  BY <1>2, <1>5, <1>6 DEF IInv
<1> QED BY <1>2, <1>6, <1>8, <1>9, <1>10 DEF IInv

\* The inductive invariant holds of an index of any menu of artifacts.
THEOREM AnalyticsInductive == Spec => []IInv
<1>1. IInv /\ [Next]_vars => IInv'
  <2> SUFFICES ASSUME IInv, [Next]_vars PROVE IInv'
    OBVIOUS
  <2>1. CASE \E x \in menu.results : IndexResult(x)
    BY <2>1, ResultStep
  <2>2. CASE \E x \in menu.summaries : IndexCoverage(x)
    BY <2>2, CoverageStep
  <2>3. CASE UNCHANGED vars
    BY <2>3 DEF vars, IInv, TypeOK, ClockInv, OneRowATest, SameTest, Indexed, IndexedAt
  <2> QED BY <2>1, <2>2, <2>3 DEF Next
<1> QED BY InitInv, <1>1, PTL DEF Spec

\* TypeOK: rows of their columns' values, one a run, which is never later than its tests
\* (indexing/indexer.py:330, store.py insert_run).
THEOREM AnalyticsTyped == Spec => []TypeOK
<1>1. IInv => TypeOK
  BY DEF IInv
<1> QED BY AnalyticsInductive, <1>1, PTL


(***************************************************************************)
(* Flaky and divergent tests.                                              *)
(***************************************************************************)
LEMMA SomeTests ==
    ASSUME IInv, NEW T, T \subseteq tests
    PROVE  IsFiniteSet(T) /\ Cardinality(T) \in Nat
<1>1. IsFiniteSet(tests)
  BY DEF IInv
<1> QED BY <1>1, FS_Subset, FS_CardinalityType

LEMMA TwoOrMore ==
    ASSUME NEW S, IsFiniteSet(S), NEW x \in S, NEW y \in S, x # y
    PROVE  Cardinality(S) >= 2
<1>1. {x, y} = {x} \cup {y} /\ {x, y} \in SUBSET S
  OBVIOUS
<1>2. IsFiniteSet({x}) /\ Cardinality({x}) = 1
  BY FS_Singleton
<1>3. IsFiniteSet({x, y}) /\ Cardinality({x, y}) = 2
  BY <1>1, <1>2, FS_AddElement
<1>4. Cardinality(S) \in Nat /\ Cardinality({x, y}) <= Cardinality(S)
  BY <1>1, FS_Subset, FS_CardinalityType
<1> QED BY <1>3, <1>4

\* A limit that is not reached cuts nothing.
LEMMA NothingIsCut ==
    ASSUME IInv, NEW S, S \subseteq tests, NEW limit \in Nat, Cardinality(S) <= limit
    PROVE  Newest(S, limit) = S /\ NewestByMs(S, limit) = S
<1>1. IsFiniteSet(S) /\ Cardinality(S) \in Nat
  BY SomeTests
<1>2. Min({limit, Cardinality(S)}) = Cardinality(S)
  BY <1>1, LesserOfTwo
<1>3. ASSUME NEW T \in SUBSET S, Cardinality(T) = Min({limit, Cardinality(S)}) PROVE T = S
  BY <1>1, <1>2, <1>3, FS_Subset
<1>4. S \in SUBSET S /\ Cardinality(S) = Min({limit, Cardinality(S)}) /\ S \ S = {}
  BY <1>2
<1>5. Newest(S, limit) = S
  BY <1>3, <1>4 DEF Newest
<1>6. NewestByMs(S, limit) = S
  BY <1>3, <1>4 DEF NewestByMs
<1> QED BY <1>5, <1>6

LEMMA FlakyInv == IInv => FlakyHaveHistory
<1> SUFFICES ASSUME IInv PROVE FlakyHaveHistory
  OBVIOUS
<1>1. ASSUME NEW sc \in Scopes, NEW c \in FlakyCohorts(sc) PROVE c \in HistoryCohorts(sc)
  <2> DEFINE T == ScopedTests(sc, c)
             run == [t \in tests |-> t.run]
             R == {t.run : t \in T}
  <2>1. c \in Cohorts /\ {"pass", "fail"} \subseteq StatusesOf(T)
    BY <1>1 DEF FlakyCohorts
  <2>2. PICK t \in T, u \in T : t.status = "pass" /\ u.status = "fail"
    BY <2>1 DEF StatusesOf
  <2>3. T \subseteq tests /\ Cohort(t) = c /\ Cohort(u) = c
    BY DEF ScopedTests, InSuite
  <2>4. t.run # u.run
    <3>1. t.name = u.name /\ t.framework = u.framework
      BY <2>3 DEF Cohort
    <3>2. t # u
      BY <2>2
    <3> QED BY <2>3, <3>1, <3>2 DEF IInv, OneRowATest, SameTest
  <2>5. IsFiniteSet(R)
    <3>1. IsFiniteSet(T)
      BY <2>3, SomeTests
    <3>2. IsFiniteSet({run[v] : v \in T})
      <4> HIDE DEF T, run
      <4> QED BY <3>1, ImageIsFinite
    <3>3. {run[v] : v \in T} = R
      BY <2>3
    <3> QED BY <3>2, <3>3
  <2>6. t.run \in R /\ u.run \in R
    OBVIOUS
  <2>7. Cardinality(R) >= 2
    <3> HIDE DEF R
    <3> QED BY <2>4, <2>5, <2>6, TwoOrMore
  <2> QED BY <2>1, <2>7 DEF HistoryCohorts
<1>2. ASSUME NEW s \in Suites, NEW c \in FlakyCohorts([run |-> None, suite |-> s]),
             Cardinality({t \in InSuite(s) : Cohort(t) = c}) <= HistoryLimit
      PROVE  IsFlaky(c, s)
  <2> DEFINE T == {t \in InSuite(s) : Cohort(t) = c}
  <2>1. ScopedTests([run |-> None, suite |-> s], c) = T
    BY DEF ScopedTests
  <2>2. {"pass", "fail"} \subseteq StatusesOf(T)
    BY <2>1 DEF FlakyCohorts
  <2>3. T \subseteq tests /\ IsFiniteSet(T)
    BY SomeTests DEF InSuite
  <2>4. History(c, s) = T
    BY <1>2, <2>3, NothingIsCut, LimitsAssumption DEF History
  <2>5. IsFiniteSet(StatusesOf(T))
    <3>1. StatusesOf(T) \in SUBSET Statuses
      BY <2>3 DEF StatusesOf, IInv, TypeOK
    <3>2. IsFiniteSet(Statuses)
      <4>1. Statuses = (({} \cup {"pass"}) \cup {"fail"}) \cup {"skip"}
        BY DEF Statuses
      <4> QED BY <4>1, FS_EmptySet, FS_AddElement
    <3> QED BY <3>1, <3>2, FS_Subset
  <2>6. Cardinality(StatusesOf(T)) >= 2
    BY <2>2, <2>5, TwoOrMore
  <2>7. Cardinality(StatusesOf(T)) \in Nat
    BY <2>5, FS_CardinalityType
  <2> QED BY <2>4, <2>6, <2>7 DEF IsFlaky
<1> QED BY <1>1, <1>2 DEF FlakyHaveHistory

\* What is flaky was run more than once, and its history says so (FlakyHaveHistory): the test id
\* has the name, the framework and the run, so that in one run a test has one status
\* (indexing/store.py regression_health_data, test_history).
THEOREM FlakyWereRepeated == Spec => []FlakyHaveHistory
<1> QED BY AnalyticsInductive, FlakyInv, PTL

LEMMA DivergentInv == IInv => DivergentAreCounted
<1> SUFFICES ASSUME IInv, NEW sc \in Scopes, sc.run = None,
                    NEW p \in Divergence(sc.suite), NEW t \in p
             PROVE  /\ <<Cohort(t), SuiteOf[t.run]>> \in CrossSimCohorts(sc)
                    /\ Cohort(t) \in FlakyCohorts(sc)
  BY DEF DivergentAreCounted
<1>1. PICK a \in p, b \in p : /\ p = {a, b} /\ Comparable(a, b)
                              /\ a.status = "pass" /\ b.status = "fail"
  BY DEF Divergence
<1>2. p \subseteq InSuite(sc.suite) /\ InSuite(sc.suite) \subseteq tests
  BY DEF Divergence, InSuite
<1> DEFINE c == Cohort(t)
           s == SuiteOf[t.run]
           T == ScopedTests(sc, c)
           U == {u \in T : /\ SuiteOf[u.run] = s /\ u.status \in {"pass", "fail"} /\ u.sim # NoSim}
           S == {u.sim : u \in U}
<1>3. /\ Cohort(a) = c /\ Cohort(b) = c /\ SuiteOf[a.run] = s /\ SuiteOf[b.run] = s
      /\ a.sim # b.sim /\ a.sim # NoSim /\ b.sim # NoSim
  BY <1>1 DEF Comparable
<1>4. a \in T /\ b \in T
  BY <1>2, <1>3 DEF ScopedTests
<1>5. c \in Cohorts /\ s \in Suites
  <2>1. t \in tests /\ t.run \in Runs
    BY <1>2 DEF IInv, TypeOK
  <2> QED BY <2>1 DEF Cohorts, Suites
<1>6. T \subseteq tests /\ U \subseteq tests
  BY DEF ScopedTests, InSuite
<1>7. IsFiniteSet(S)
  <2> DEFINE sim == [v \in tests |-> v.sim]
  <2>1. IsFiniteSet(U)
    BY <1>6, SomeTests
  <2>2. IsFiniteSet({sim[v] : v \in U})
    <3> HIDE DEF U, sim
    <3> QED BY <2>1, ImageIsFinite
  <2>3. {sim[v] : v \in U} = S
    BY <1>6
  <2> QED BY <2>2, <2>3
<1>8. a.sim \in S /\ b.sim \in S
  BY <1>1, <1>3, <1>4
<1>9. Cardinality(S) >= 2
  <2> HIDE DEF S
  <2> QED BY <1>3, <1>7, <1>8, TwoOrMore
<1>10. <<c, s>> \in CrossSimCohorts(sc)
  BY <1>5, <1>9 DEF CrossSimCohorts
<1>11. c \in FlakyCohorts(sc)
  BY <1>1, <1>4, <1>5 DEF FlakyCohorts, StatusesOf
<1> QED BY <1>10, <1>11

\* A test on which simulators diverge is in the cohorts the divergence is measured against and
\* is flaky (DivergentAreCounted): regression.health counts it in both components
\* (indexing/store.py cross_sim_divergence, regression_health_data).
THEOREM DivergenceIsCounted == Spec => []DivergentAreCounted
<1> QED BY AnalyticsInductive, DivergentInv, PTL


(***************************************************************************)
(* The diff of two runs. The failures of a run are, signature by           *)
(* signature, those of the signatures it has; of these a diff has the new  *)
(* ones and the persistent ones.                                           *)
(***************************************************************************)
Counts(r) == [s \in Signatures |-> SigCount(r, s)]
SignaturesOf(r) == {s \in Signatures : SigCount(r, s) > 0}
OnlyIn(a, b) == {s \in Signatures : SigCount(a, s) = 0 /\ SigCount(b, s) > 0}
InBoth(a, b) == {s \in Signatures : SigCount(a, s) > 0 /\ SigCount(b, s) > 0}

LEMMA SumOverDomain == \A f, S : DOMAIN f = S => SumFunction(f) = SumFunctionOnSet(f, S)
BY DEF SumFunction

LEMMA FailuresTyped ==
    ASSUME IInv
    PROVE  /\ \A F \in SUBSET failures : IsFiniteSet(F) /\ Cardinality(F) \in Nat
           /\ \A f \in failures : SigOf[f.text] \in Signatures
           /\ \A r, s : SigCount(r, s) \in Nat
<1>1. \A F \in SUBSET failures : IsFiniteSet(F) /\ Cardinality(F) \in Nat
  BY FS_Subset, FS_CardinalityType DEF IInv
<1>2. \A f \in failures : SigOf[f.text] \in Signatures
  BY DEF IInv, TypeOK, Signatures
<1>3. ASSUME NEW r, NEW s PROVE SigCount(r, s) \in Nat
  <2>1. {f \in failures : f.run = r /\ SigOf[f.text] = s} \in SUBSET failures
    OBVIOUS
  <2> QED BY <1>1, <2>1 DEF SigCount
<1> QED BY <1>1, <1>2, <1>3

LEMMA CountedBySignature ==
    ASSUME IInv, NEW r
    PROVE  /\ IsFiniteSet(SignaturesOf(r))
           /\ SumFunctionOnSet(Counts(r), SignaturesOf(r)) = Cardinality(FailuresOf(r))
<1> DEFINE F == FailuresOf(r)
           sig == [f \in failures |-> SigOf[f.text]]
           K == SignaturesOf(r)
<1>1. F \in SUBSET failures /\ IsFiniteSet(F)
  BY FailuresTyped DEF FailuresOf
<1>2. ASSUME NEW s PROVE SigCount(r, s) = Cardinality({f \in F : sig[f] = s})
  <2>1. {f \in F : sig[f] = s} = {f \in failures : f.run = r /\ SigOf[f.text] = s}
    BY DEF FailuresOf
  <2> QED BY <2>1 DEF SigCount
<1>3. ASSUME NEW s
      PROVE  s \in K <=> s \in {sig[f] : f \in F}
  <2> DEFINE P == {f \in F : sig[f] = s}
  <2>1. P \in SUBSET failures /\ IsFiniteSet(P) /\ Cardinality(P) \in Nat
    BY <1>1, FailuresTyped
  <2>2. Cardinality(P) > 0 <=> P # {}
    <3> HIDE DEF P
    <3> QED BY <2>1, FS_EmptySet
  <2>3. P # {} <=> s \in {sig[f] : f \in F}
    OBVIOUS
  <2>4. P # {} => s \in Signatures
    BY <1>1, FailuresTyped
  <2>5. SigCount(r, s) = Cardinality(P)
    BY <1>2
  <2> HIDE DEF P, sig, F
  <2> QED BY <2>2, <2>3, <2>4, <2>5 DEF SignaturesOf
<1>4. K = {sig[f] : f \in F}
  <2> HIDE DEF K, sig, F
  <2> QED BY <1>3
<1>5. IsFiniteSet(K)
  <2> HIDE DEF K, sig, F
  <2> QED BY <1>1, <1>4, ImageIsFinite
<1>6. \A s \in K : Counts(r)[s] = Cardinality({f \in F : sig[f] = s})
  <2> HIDE DEF sig, F
  <2> QED BY <1>2 DEF Counts, SignaturesOf
<1>7. SumFunctionOnSet(Counts(r), K) = Cardinality({f \in F : sig[f] \in K})
  <2> HIDE DEF K, sig, F
  <2> QED BY <1>1, <1>5, <1>6, SumOfParts
<1>8. {f \in F : sig[f] \in K} = F
  <2> HIDE DEF K, sig, F
  <2> QED BY <1>4
<1> QED BY <1>5, <1>7, <1>8

LEMMA PartsOfADiff ==
    ASSUME IInv, NEW a, NEW b
    PROVE  /\ IsFiniteSet(OnlyIn(a, b)) /\ IsFiniteSet(InBoth(a, b))
           /\ Cardinality(FailuresOf(b)) =
                  SumFunctionOnSet(Counts(b), OnlyIn(a, b)) +
                  SumFunctionOnSet(Counts(b), InBoth(a, b))
<1>1. SignaturesOf(b) = OnlyIn(a, b) \cup InBoth(a, b) /\ OnlyIn(a, b) \cap InBoth(a, b) = {}
  <2>1. \A s : SigCount(a, s) \in Nat
    BY FailuresTyped
  <2> QED BY <2>1 DEF SignaturesOf, OnlyIn, InBoth
<1>2. IsFiniteSet(OnlyIn(a, b)) /\ IsFiniteSet(InBoth(a, b))
  <2>1. OnlyIn(a, b) \in SUBSET SignaturesOf(b) /\ InBoth(a, b) \in SUBSET SignaturesOf(b)
    BY <1>1
  <2> QED BY <2>1, CountedBySignature, FS_Subset
<1>3. \A s \in OnlyIn(a, b) \cup InBoth(a, b) : Counts(b)[s] \in Int
  BY FailuresTyped DEF Counts, OnlyIn, InBoth
<1> QED BY <1>1, <1>2, <1>3, CountedBySignature, SumUnion

LEMMA NewAddsUp ==
    ASSUME IInv, NEW a, NEW b
    PROVE  SumFunction([x \in NewFailures(a, b) |-> x.count]) =
               SumFunctionOnSet(Counts(b), OnlyIn(a, b))
<1> DEFINE h == [s \in Signatures |-> [sig |-> s, count |-> SigCount(b, s)]]
           g == [x \in NewFailures(a, b) |-> x.count]
           S == OnlyIn(a, b)
<1>1. NewFailures(a, b) = {h[s] : s \in S}
  BY DEF NewFailures, OnlyIn
<1>2. ASSUME NEW s \in S
      PROVE  Counts(b)[s] \in Int /\ Counts(b)[s] = g[h[s]]
  <2>1. s \in Signatures /\ h[s] \in NewFailures(a, b)
    BY <1>1 DEF OnlyIn
  <2>2. Counts(b)[s] = SigCount(b, s)
    BY <2>1 DEF Counts
  <2>3. g[h[s]] = SigCount(b, s)
    BY <2>1
  <2> QED BY <2>2, <2>3, FailuresTyped
<1>3. \A s, q \in S : h[s] = h[q] => s = q
  BY DEF OnlyIn
<1>4. IsFiniteSet(S)
  BY PartsOfADiff
<1>5. SumFunctionOnSet(Counts(b), S) = SumFunctionOnSet(g, {h[s] : s \in S})
  <2> HIDE DEF g, h, S
  <2> QED BY <1>2, <1>3, <1>4, SumReindex
<1>6. SumFunction(g) = SumFunctionOnSet(g, NewFailures(a, b))
  BY SumOverDomain
<1> HIDE DEF g, h, S
<1>7. SumFunction(g) = SumFunctionOnSet(Counts(b), S)
  BY <1>1, <1>5, <1>6
<1> QED BY <1>7 DEF g, S

LEMMA PersistentAddsUp ==
    ASSUME IInv, NEW a, NEW b
    PROVE  /\ SumFunction([x \in PersistentFailures(a, b) |-> x.base_count + x.delta]) =
                  SumFunctionOnSet(Counts(b), InBoth(a, b))
           /\ SumFunction([x \in PersistentFailures(a, b) |-> x.base_count]) =
                  SumFunctionOnSet(Counts(a), InBoth(a, b))
<1> DEFINE P == PersistentFailures(a, b)
           h == [s \in Signatures |-> [sig |-> s, base_count |-> SigCount(a, s),
                                       delta |-> SigCount(b, s) - SigCount(a, s)]]
           compare == [x \in P |-> x.base_count + x.delta]
           base == [x \in P |-> x.base_count]
           S == InBoth(a, b)
<1>1. P = {h[s] : s \in S}
  BY DEF PersistentFailures, InBoth
<1>2. ASSUME NEW s \in S
      PROVE  /\ Counts(b)[s] \in Int /\ Counts(b)[s] = compare[h[s]]
             /\ Counts(a)[s] \in Int /\ Counts(a)[s] = base[h[s]]
  <2>1. s \in Signatures /\ h[s] \in P
    BY <1>1 DEF InBoth
  <2>2. Counts(b)[s] = SigCount(b, s) /\ Counts(a)[s] = SigCount(a, s)
    BY <2>1 DEF Counts
  <2>3. /\ compare[h[s]] = SigCount(a, s) + (SigCount(b, s) - SigCount(a, s))
        /\ base[h[s]] = SigCount(a, s)
    BY <2>1
  <2> QED BY <2>2, <2>3, FailuresTyped
<1>3. \A s, q \in S : h[s] = h[q] => s = q
  BY DEF InBoth
<1>4. IsFiniteSet(S)
  BY PartsOfADiff
<1>5. SumFunction(compare) = SumFunctionOnSet(compare, P)
  BY SumOverDomain
<1>6. SumFunction(base) = SumFunctionOnSet(base, P)
  BY SumOverDomain
<1> HIDE DEF compare, base, h, S, P
<1>7. SumFunctionOnSet(Counts(b), S) = SumFunctionOnSet(compare, {h[s] : s \in S})
  BY <1>2, <1>3, <1>4, SumReindex
<1>8. SumFunctionOnSet(Counts(a), S) = SumFunctionOnSet(base, {h[s] : s \in S})
  BY <1>2, <1>3, <1>4, SumReindex
<1>9. /\ SumFunction(compare) = SumFunctionOnSet(Counts(b), S)
      /\ SumFunction(base) = SumFunctionOnSet(Counts(a), S)
  BY <1>1, <1>5, <1>6, <1>7, <1>8
<1> QED BY <1>9 DEF compare, base, S, P

LEMMA PatchedIsOutcome ==
    ASSUME IInv, NEW a, NEW b, OneTestAName(a), OneTestAName(b), NEW n \in Names
    PROVE  PatchedOutcome(a, b, n) = Outcome(b, n)
<1>1. ASSUME NEW r, OneTestAName(r) PROVE StatusByName(r, n) = Outcome(r, n)
  <2> DEFINE S == {t \in Newest(TestsOf(r), DiffCap) : t.name = n}
  <2>1. TestsOf(r) \subseteq tests
    BY DEF TestsOf
  <2>2. Newest(TestsOf(r), DiffCap) = TestsOf(r)
    BY <1>1, <2>1, NothingIsCut, LimitsAssumption DEF OneTestAName
  <2>3. CASE S = {}
    BY <2>2, <2>3 DEF StatusByName, Outcome
  <2>4. CASE S # {}
    <3>1. PICK t \in TestsOf(r) : t.name = n
      BY <2>2, <2>4
    <3>2. \A u \in TestsOf(r) : u.name = n => u = t
      BY <1>1, <3>1 DEF OneTestAName
    <3>3. S = {t} /\ t.at <= t.at
      <4>1. t.at \in Int
        BY <2>1 DEF IInv, TypeOK
      <4> QED BY <2>2, <3>1, <3>2, <4>1
    <3>4. (CHOOSE u \in S : \A v \in S : u.at <= v.at) = t
      <4> HIDE DEF S
      <4> QED BY <3>3
    <3>5. (CHOOSE u \in TestsOf(r) : u.name = n) = t
      BY <3>1, <3>2
    <3>6. StatusByName(r, n) = t.status
      BY <2>4, <3>4 DEF StatusByName
    <3>7. Outcome(r, n) = t.status
      BY <3>1, <3>5 DEF Outcome
    <3> QED BY <3>6, <3>7
  <2> QED BY <2>3, <2>4
<1>2. StatusByName(a, n) = Outcome(a, n) /\ StatusByName(b, n) = Outcome(b, n)
  BY <1>1
<1> DEFINE change == [name |-> n, base |-> StatusByName(a, n), compare |-> StatusByName(b, n)]
<1>3. \A c \in TestChanges(a, b) : c.name = n => c = change /\ StatusByName(a, n) # StatusByName(b, n)
  BY DEF TestChanges
<1>4. CASE StatusByName(a, n) = StatusByName(b, n)
  BY <1>2, <1>3, <1>4 DEF PatchedOutcome
<1>5. CASE StatusByName(a, n) # StatusByName(b, n)
  <2>1. change \in TestChanges(a, b) /\ change.name = n
    BY <1>5 DEF TestChanges
  <2>2. (CHOOSE c \in TestChanges(a, b) : c.name = n) = change
    <3> HIDE DEF change
    <3> QED BY <1>3, <2>1
  <2>3. change.compare = StatusByName(b, n)
    OBVIOUS
  <2> HIDE DEF change
  <2> QED BY <1>2, <2>1, <2>2, <2>3 DEF PatchedOutcome
<1> QED BY <1>4, <1>5

LEMMA DiffInv == IInv => DiffReconstructs
<1> SUFFICES ASSUME IInv, NEW a \in Indexed, NEW b \in Indexed
             PROVE  /\ (OneTestAName(a) /\ OneTestAName(b)) =>
                           \A n \in Names : PatchedOutcome(a, b, n) = Outcome(b, n)
                    /\ Cardinality(FailuresOf(b)) =
                           SumFunction([x \in NewFailures(a, b) |-> x.count]) +
                           SumFunction([x \in PersistentFailures(a, b) |-> x.base_count + x.delta])
                    /\ Cardinality(FailuresOf(a)) =
                           SumFunction([x \in ResolvedFailures(a, b) |-> x.count]) +
                           SumFunction([x \in PersistentFailures(a, b) |-> x.base_count])
  BY DEF DiffReconstructs
<1>1. InBoth(a, b) = InBoth(b, a)
  BY DEF InBoth
<1>2. ResolvedFailures(a, b) = NewFailures(b, a)
  BY DEF ResolvedFailures
<1>3. /\ Cardinality(FailuresOf(b)) = SumFunctionOnSet(Counts(b), OnlyIn(a, b)) +
                                      SumFunctionOnSet(Counts(b), InBoth(a, b))
      /\ Cardinality(FailuresOf(a)) = SumFunctionOnSet(Counts(a), OnlyIn(b, a)) +
                                      SumFunctionOnSet(Counts(a), InBoth(a, b))
  BY <1>1, PartsOfADiff
<1>4. Cardinality(FailuresOf(b)) =
          SumFunction([x \in NewFailures(a, b) |-> x.count]) +
          SumFunction([x \in PersistentFailures(a, b) |-> x.base_count + x.delta])
  BY <1>3, NewAddsUp, PersistentAddsUp
<1>5. Cardinality(FailuresOf(a)) =
          SumFunction([x \in ResolvedFailures(a, b) |-> x.count]) +
          SumFunction([x \in PersistentFailures(a, b) |-> x.base_count])
  BY <1>2, <1>3, NewAddsUp, PersistentAddsUp
<1> QED BY <1>4, <1>5, PatchedIsOutcome

\* A diff and its base give the compared run, and back (DiffReconstructs): every outcome of a
\* test, and every failure, counted by signature (indexing/store.py diff_runs).
THEOREM DiffIsComplete == Spec => []DiffReconstructs
<1> QED BY AnalyticsInductive, DiffInv, PTL


(***************************************************************************)
(* The triage tools: the leading ones of a list of sizes are a set of the  *)
(* largest, and the failures of a signature are those of its texts.        *)
(***************************************************************************)
LEMMA LeadingAre ==
    ASSUME NEW size, IsFiniteSet(DOMAIN size), \A x \in DOMAIN size : size[x] \in Int
    PROVE  /\ Leading(size) \in SUBSET DOMAIN size
           /\ Cardinality(Leading(size)) = Min({TopLimit, Cardinality(DOMAIN size)})
           /\ \A x \in Leading(size), y \in DOMAIN size \ Leading(size) : size[x] >= size[y]
<1>1. TopLimit \in Nat
  BY LimitsAssumption
<1>2. \E T \in SUBSET DOMAIN size :
          /\ Cardinality(T) = Min({TopLimit, Cardinality(DOMAIN size)})
          /\ \A x \in T, y \in DOMAIN size \ T : size[x] >= size[y]
  BY <1>1, TopExists
<1> QED BY <1>2 DEF Leading

LEMMA LeadingOrFull ==
    ASSUME NEW size, IsFiniteSet(DOMAIN size), \A x \in DOMAIN size : size[x] \in Int
    PROVE  Cardinality(Leading(size)) = TopLimit \/ Leading(size) = DOMAIN size
<1>1. Cardinality(DOMAIN size) \in Nat /\ TopLimit \in Nat
  BY FS_CardinalityType, LimitsAssumption
<1>2. Cardinality(Leading(size)) = TopLimit \/ Cardinality(Leading(size)) = Cardinality(DOMAIN size)
  <2>1. Cardinality(Leading(size)) = Min({TopLimit, Cardinality(DOMAIN size)})
    BY LeadingAre
  <2>2. Min({TopLimit, Cardinality(DOMAIN size)}) \in {TopLimit, Cardinality(DOMAIN size)}
    BY <1>1, LesserOfTwo
  <2> QED BY <2>1, <2>2
<1>3. Cardinality(Leading(size)) = Cardinality(DOMAIN size) => Leading(size) = DOMAIN size
  BY LeadingAre, FS_Subset
<1> QED BY <1>2, <1>3

LEMMA TextsAndSignatures ==
    ASSUME IInv, NEW R
    PROVE  /\ FailuresIn(R) \in SUBSET failures
           /\ IsFiniteSet({f.text : f \in FailuresIn(R)})
           /\ IsFiniteSet({SigOf[f.text] : f \in FailuresIn(R)})
           /\ \A g : Group(R, g) \in SUBSET failures /\ Members(R, g) \in SUBSET failures
           /\ \A g : Cardinality(Group(R, g)) \in Nat /\ Cardinality(Members(R, g)) \in Nat
<1> DEFINE F == FailuresIn(R)
           text == [f \in failures |-> f.text]
           sig == [f \in failures |-> SigOf[f.text]]
<1>1. F \in SUBSET failures /\ IsFiniteSet(F)
  BY FailuresTyped DEF FailuresIn
<1>2. IsFiniteSet({text[f] : f \in F}) /\ IsFiniteSet({sig[f] : f \in F})
  <2> HIDE DEF F, text, sig
  <2> QED BY <1>1, ImageIsFinite
<1>3. {text[f] : f \in F} = {f.text : f \in F} /\ {sig[f] : f \in F} = {SigOf[f.text] : f \in F}
  BY <1>1
<1>4. ASSUME NEW g PROVE Group(R, g) \in SUBSET failures /\ Members(R, g) \in SUBSET failures
  BY DEF Group, Members, FailuresIn
<1>5. ASSUME NEW g PROVE Cardinality(Group(R, g)) \in Nat /\ Cardinality(Members(R, g)) \in Nat
  BY <1>4, FailuresTyped
<1> QED BY <1>1, <1>2, <1>3, <1>4, <1>5

LEMMA NewLeadOrFull ==
    ASSUME IInv, NEW a, NEW b, NEW n \in NewFailures(a, b)
    PROVE  \/ n.sig \in Clusters({b})
           \/ /\ Cardinality(Clusters({b})) = TopLimit
              /\ \A q \in Clusters({b}) : SigCount(b, q) >= n.count
<1> DEFINE D == {SigOf[f.text] : f \in FailuresIn({b})}
           size == [s \in D |-> Cardinality(Members({b}, s))]
<1>1. IsFiniteSet(DOMAIN size) /\ \A s \in DOMAIN size : size[s] \in Int
  <2>1. IsFiniteSet(D)
    BY TextsAndSignatures
  <2>2. DOMAIN size = D /\ \A s \in D : size[s] = Cardinality(Members({b}, s))
    OBVIOUS
  <2>3. ASSUME NEW s PROVE Cardinality(Members({b}, s)) \in Int
    <3>1. Cardinality(Members({b}, s)) \in Nat
      BY TextsAndSignatures
    <3> QED BY <3>1
  <2> HIDE DEF size, D
  <2> QED BY <2>1, <2>2, <2>3
<1>2. \A s : Members({b}, s) = {f \in failures : f.run = b /\ SigOf[f.text] = s}
  BY DEF Members, FailuresIn
<1>3. \A s \in DOMAIN size : size[s] = SigCount(b, s)
  BY <1>2 DEF SigCount
<1>4. n.sig \in DOMAIN size /\ n.count = SigCount(b, n.sig)
  <2>1. SigCount(b, n.sig) > 0 /\ n.count = SigCount(b, n.sig)
    BY DEF NewFailures
  <2>2. {f \in failures : f.run = b /\ SigOf[f.text] = n.sig} # {}
    <3>1. Cardinality({}) = 0
      BY FS_EmptySet
    <3>2. SigCount(b, n.sig) # 0
      BY <2>1
    <3> QED BY <3>1, <3>2 DEF SigCount
  <2>3. n.sig \in {SigOf[f.text] : f \in FailuresIn({b})}
    BY <2>2 DEF FailuresIn
  <2> QED BY <2>1, <2>3
<1>5. Clusters({b}) = Leading(size)
  BY DEF Clusters
<1> HIDE DEF size
<1>6. ASSUME n.sig \notin Leading(size)
      PROVE  /\ Cardinality(Leading(size)) = TopLimit
             /\ \A q \in Leading(size) : SigCount(b, q) >= n.count
  <2>1. Cardinality(Leading(size)) = TopLimit
    BY <1>1, <1>4, <1>6, LeadingOrFull
  <2>2. ASSUME NEW q \in Leading(size) PROVE SigCount(b, q) >= n.count
    <3>1. q \in DOMAIN size /\ size[q] >= size[n.sig]
      BY <1>1, <1>4, <1>6, LeadingAre
    <3> QED BY <1>3, <1>4, <3>1
  <2> QED BY <2>1, <2>2
<1> QED BY <1>5, <1>6

LEMMA GroupsAddUp ==
    ASSUME IInv, NEW R, NEW g, NEW K, IsFiniteSet(K), NEW size,
           \A t \in K : SigOf[t] = g /\ size[t] = Cardinality(Group(R, t))
    PROVE  SumFunctionOnSet(size, K) = Cardinality({f \in Members(R, g) : f.text \in K})
<1> DEFINE M == Members(R, g)
           text == [f \in M |-> f.text]
<1>1. M \in SUBSET failures /\ IsFiniteSet(M)
  BY TextsAndSignatures, FailuresTyped
<1>2. ASSUME NEW t \in K PROVE size[t] = Cardinality({f \in M : text[f] = t})
  <2>1. {f \in M : text[f] = t} = Group(R, t)
    BY DEF Members, Group
  <2> QED BY <2>1
<1>3. {f \in M : text[f] \in K} = {f \in M : f.text \in K}
  OBVIOUS
<1>4. SumFunctionOnSet(size, K) = Cardinality({f \in M : text[f] \in K})
  <2> HIDE DEF M, text
  <2> QED BY <1>1, <1>2, SumOfParts
<1> QED BY <1>3, <1>4

LEMMA RunsAddUp ==
    ASSUME IInv, NEW R, IsFiniteSet(R), NEW g
    PROVE  SumFunctionOnSet([r \in R |-> SigCount(r, g)], R) = Cardinality(Members(R, g))
<1> DEFINE M == Members(R, g)
           run == [f \in M |-> f.run]
           size == [r \in R |-> SigCount(r, g)]
<1>1. M \in SUBSET failures /\ IsFiniteSet(M)
  BY TextsAndSignatures, FailuresTyped
<1>2. ASSUME NEW r \in R PROVE size[r] = Cardinality({f \in M : run[f] = r})
  <2>1. {f \in M : run[f] = r} = {f \in failures : f.run = r /\ SigOf[f.text] = g}
    BY DEF Members, FailuresIn
  <2> QED BY <2>1 DEF SigCount
<1>3. {f \in M : run[f] \in R} = M
  BY DEF Members, FailuresIn
<1>4. SumFunctionOnSet(size, R) = Cardinality({f \in M : run[f] \in R})
  <2> HIDE DEF M, run, size
  <2> QED BY <1>1, <1>2, SumOfParts
<1> QED BY <1>3, <1>4

LEMMA SummaryIsOfClusters ==
    ASSUME IInv, NEW R, IsFiniteSet(R), NEW g
    PROVE  LET top == TopSignatures(R)
               shown == SumFunction([e \in {d \in top : d.sig = g} |-> e.count]) IN
           /\ shown <= Cardinality(Members(R, g))
           /\ Cardinality(top) < TopLimit => shown = SumFunction([r \in R |-> SigCount(r, g)])
<1> DEFINE D == {f.text : f \in FailuresIn(R)}
           size == [t \in D |-> Cardinality(Group(R, t))]
           row == [t \in D |-> [sig |-> SigOf[t], text |-> t, count |-> size[t]]]
           L == Leading(size)
           top == TopSignatures(R)
           E == {d \in top : d.sig = g}
           count == [e \in E |-> e.count]
           K == {t \in L : SigOf[t] = g}
           M == Members(R, g)
           text == [f \in failures |-> f.text]
           inRun == [r \in R |-> SigCount(r, g)]
<1>1. IsFiniteSet(D) /\ DOMAIN size = D /\ \A t \in D : size[t] \in Nat
  BY TextsAndSignatures
<1>2. L \in SUBSET D /\ (Cardinality(L) = TopLimit \/ L = D)
  <2> HIDE DEF size, D
  <2>1. IsFiniteSet(DOMAIN size) /\ \A t \in DOMAIN size : size[t] \in Int
    BY <1>1
  <2>2. Leading(size) \in SUBSET DOMAIN size
    BY <2>1, LeadingAre
  <2>3. Cardinality(Leading(size)) = TopLimit \/ Leading(size) = DOMAIN size
    BY <2>1, LeadingOrFull
  <2> QED BY <1>1, <2>2, <2>3
<1>3. top = {row[t] : t \in L}
  BY <1>2 DEF TopSignatures
<1>4. IsFiniteSet(L) /\ IsFiniteSet(K) /\ K \in SUBSET L
  <2>1. IsFiniteSet(L)
    <3> HIDE DEF L, D
    <3> QED BY <1>1, <1>2, FS_Subset
  <2>2. K \in SUBSET L
    OBVIOUS
  <2> HIDE DEF K, L
  <2> QED BY <2>1, <2>2, FS_Subset
<1>5. \A t, u \in L : row[t] = row[u] => t = u
  BY <1>2
<1>6. Cardinality(top) = Cardinality(L)
  <2> HIDE DEF L, row, top
  <2> QED BY <1>3, <1>4, <1>5, ImageIsFinite
<1>7. E = {row[t] : t \in K}
  <2>1. \A t \in L : row[t].sig = SigOf[t]
    BY <1>2
  <2> HIDE DEF row, L, top
  <2> QED BY <1>3, <2>1
<1>8. ASSUME NEW t \in K PROVE size[t] \in Int /\ size[t] = count[row[t]]
  <2>1. row[t] \in E /\ t \in D
    BY <1>2, <1>7
  <2>2. count[row[t]] = size[t]
    BY <2>1
  <2> QED BY <1>1, <2>1, <2>2
<1>9. SumFunction(count) = SumFunctionOnSet(size, K)
  <2>1. SumFunction(count) = SumFunctionOnSet(count, E)
    BY SumOverDomain
  <2>2. \A t, u \in K : row[t] = row[u] => t = u
    BY <1>5
  <2> HIDE DEF count, E, K, size, row
  <2>3. SumFunctionOnSet(size, K) = SumFunctionOnSet(count, {row[t] : t \in K})
    BY <1>4, <1>8, <2>2, SumReindex
  <2> QED BY <1>7, <2>1, <2>3
<1>10. M \in SUBSET failures /\ IsFiniteSet(M) /\ Cardinality(M) \in Nat
  BY TextsAndSignatures, FailuresTyped
<1>12. SumFunctionOnSet(size, K) = Cardinality({f \in M : text[f] \in K})
  <2>1. \A t \in K : SigOf[t] = g /\ size[t] = Cardinality(Group(R, t))
    BY <1>2
  <2>2. {f \in M : text[f] \in K} = {f \in M : f.text \in K}
    BY <1>10
  <2>3. SumFunctionOnSet(size, K) = Cardinality({f \in M : f.text \in K})
    <3> HIDE DEF size, K
    <3> QED BY <1>4, <2>1, GroupsAddUp
  <2> QED BY <2>2, <2>3
<1>13. {f \in M : text[f] \in K} \in SUBSET M
  OBVIOUS
<1>14. SumFunction(count) <= Cardinality(M)
  <2> HIDE DEF count, M, K, text, size
  <2> QED BY <1>9, <1>10, <1>12, <1>13, FS_Subset
<1>15. ASSUME Cardinality(top) < TopLimit PROVE SumFunction(count) = SumFunction(inRun)
  <2>1. L = D
    <3> HIDE DEF L, D, top
    <3> QED BY <1>2, <1>6, <1>15, LimitsAssumption
  <2>2. {f \in M : text[f] \in K} = M
    BY <1>10, <2>1 DEF Members
  <2>3. SumFunctionOnSet(inRun, R) = Cardinality(M)
    BY RunsAddUp
  <2>6. SumFunction(inRun) = SumFunctionOnSet(inRun, R)
    BY SumOverDomain
  <2> HIDE DEF inRun, count, M, K, text, size
  <2> QED BY <1>9, <1>12, <2>2, <2>3, <2>6
<1> HIDE DEF inRun, count, M
<1>16. SumFunction(count) <= Cardinality(M) /\ (Cardinality(top) < TopLimit => SumFunction(count) = SumFunction(inRun))
  BY <1>14, <1>15
<1> QED BY <1>16 DEF inRun, count, M

LEMMA TriageInv == IInv => TriageToolsAgree
<1> SUFFICES ASSUME IInv PROVE TriageToolsAgree
  OBVIOUS
<1>1. ASSUME NEW s, NEW w PROVE IsFiniteSet(WindowRuns(s, w))
  <2> DEFINE name == [x \in runs |-> x.run]
             S == {y \in runs : SuiteOf[y.run] = s /\ y.ms \in w}
  <2>1. S \in SUBSET runs /\ IsFiniteSet(runs)
    BY DEF IInv, ClockInv
  <2>2. IsFiniteSet({name[x] : x \in S})
    <3> HIDE DEF S, name
    <3> QED BY <2>1, FS_Subset, ImageIsFinite
  <2>3. {name[x] : x \in S} = WindowRuns(s, w)
    BY DEF WindowRuns
  <2> QED BY <2>2, <2>3
<1>2. \A s \in Suites, lo, hi \in 0..ms :
          LET R == WindowRuns(s, lo..hi)
              top == TopSignatures(R)
              Shown(g) == SumFunction([e \in {d \in top : d.sig = g} |-> e.count]) IN
          \A g \in Signatures :
              /\ Shown(g) <= Cardinality(Members(R, g))
              /\ Cardinality(top) < TopLimit => Shown(g) = SumFunction([r \in R |-> SigCount(r, g)])
  BY <1>1, SummaryIsOfClusters
<1>3. \A a, b \in Indexed : \A n \in NewFailures(a, b) :
          LET C == Clusters({b}) IN
          n.sig \in C \/ (/\ Cardinality(C) = TopLimit
                         /\ \A q \in C : SigCount(b, q) >= n.count)
  BY NewLeadOrFull
<1> QED BY <1>2, <1>3 DEF TriageToolsAgree

\* runs.diff, tests.cluster and regressions.summary agree (TriageToolsAgree): what is new leads,
\* and a summary shows of a signature no more than there is (indexing/store.py
\* cluster_failures, regression_summary).
THEOREM TriageAgrees == Spec => []TriageToolsAgree
<1> QED BY AnalyticsInductive, TriageInv, PTL


(***************************************************************************)
(* Coverage: means of percentages are percentages.                         *)
(***************************************************************************)
LEMMA QuotientOfSum ==
    ASSUME NEW n \in Nat, NEW d \in Nat \ {0}, n <= 100 * d
    PROVE  n \div d \in 0..100
<1> DEFINE q == n \div d
<1>1. q \in Int /\ q * d <= n /\ n < q * d + d
  OBVIOUS
<1> HIDE DEF q
<1>2. ASSUME q < 0 PROVE FALSE
  <2>1. (0 - q - 1) * d >= 0
    BY <1>1, <1>2
  <2> QED BY <1>1, <2>1
<1>3. ASSUME q > 100 PROVE FALSE
  <2>1. (q - 101) * d >= 0
    BY <1>1, <1>3
  <2> QED BY <1>1, <2>1
<1>4. q \in 0..100
  BY <1>1, <1>2, <1>3
<1> QED BY <1>4 DEF q

LEMMA CoverageTyped ==
    ASSUME IInv
    PROVE  /\ IsFiniteSet(DOMAIN coverage)
           /\ \A j \in DOMAIN coverage :
                  /\ coverage[j].run \in Indexed
                  /\ coverage[j].total \in Nat /\ coverage[j].count \in Nat
                  /\ coverage[j].total <= 100 * coverage[j].count
<1>1. coverage \in Seq(Summaries)
  BY DEF IInv, TypeOK
<1>2. DOMAIN coverage = 1..Len(coverage) /\ Len(coverage) \in Nat
  BY <1>1
<1>3. IsFiniteSet(DOMAIN coverage)
  BY <1>2, FS_Interval
<1>4. ASSUME NEW j \in DOMAIN coverage
      PROVE  /\ coverage[j].run \in Indexed
             /\ coverage[j].total \in Nat /\ coverage[j].count \in Nat
             /\ coverage[j].total <= 100 * coverage[j].count
  <2>1. coverage[j] \in Summaries
    BY <1>1
  <2>2. coverage[j] \in menu.summaries /\ menu \in Menus /\ coverage[j].run \in Indexed
    BY DEF IInv
  <2> QED BY <2>1, <2>2, MenusAssumption DEF Summaries
<1> QED BY <1>3, <1>4

LEMMA MeansTyped ==
    ASSUME IInv, NEW S \in SUBSET DOMAIN coverage
    PROVE  /\ Metrics(S) \in Nat
           /\ Metrics(S) # 0 => MeanPct(S) \in 0..100
<1> DEFINE total == [j \in S |-> coverage[j].total]
           count == [j \in S |-> coverage[j].count]
<1>1. IsFiniteSet(S)
  BY CoverageTyped, FS_Subset
<1>2. \A j \in S : /\ total[j] = coverage[j].total /\ count[j] = coverage[j].count
                   /\ total[j] \in Nat /\ count[j] \in Nat /\ total[j] <= 100 * count[j]
  BY CoverageTyped
<1>3. SumFunction(total) = SumFunctionOnSet(total, S) /\ SumFunction(count) = SumFunctionOnSet(count, S)
  BY SumOverDomain
<1>4. Metrics(S) = SumFunction(count) /\ MeanPct(S) = SumFunction(total) \div Metrics(S)
  BY DEF Metrics, MeanPct
<1> HIDE DEF total, count
<1>5. SumFunctionOnSet(total, S) \in Nat /\ SumFunctionOnSet(count, S) \in Nat
  BY <1>1, <1>2, SumNatural
<1>6. SumFunctionOnSet(total, S) <= 100 * SumFunctionOnSet(count, S)
  BY <1>1, <1>2, SumAtMost
<1>7. Metrics(S) \in Nat /\ SumFunction(total) \in Nat /\ SumFunction(total) <= 100 * Metrics(S)
  BY <1>3, <1>4, <1>5, <1>6
<1> QED BY <1>4, <1>7, QuotientOfSum

LEMMA CoveredTyped ==
    ASSUME IInv, NEW T \in SUBSET DOMAIN coverage, NEW r, NEW k
    PROVE  CoveredPct(T, r, k) \in 0..100
<1> DEFINE S == {j \in T : coverage[j].run = r /\ coverage[j].kind = k}
<1>1. Metrics(S) # 0 => MeanPct(S) \in 0..100
  BY MeansTyped
<1>2. CoveredPct(T, r, k) = IF Metrics(S) = 0 THEN 0 ELSE MeanPct(S)
  BY DEF CoveredPct
<1> HIDE DEF S
<1> QED BY <1>1, <1>2

(***************************************************************************)
(* Trends. A cut takes the summaries of the earliest runs, and no two runs *)
(* have one time: only of the last run can it leave some behind.           *)
(***************************************************************************)
LEMMA ShownRuns ==
    ASSUME IInv, NEW T \in SUBSET DOMAIN coverage, NEW k
    PROVE  /\ IsFiniteSet(TrendRuns(T, k)) /\ Cardinality(TrendRuns(T, k)) <= Cardinality(T)
           /\ Cardinality(TrendRuns(T, k)) \in Nat
           /\ \A r \in TrendRuns(T, k) : IndexedAt(r) \in Nat
           /\ \A q, r \in TrendRuns(T, k) : IndexedAt(q) = IndexedAt(r) => q = r
<1> DEFINE S == {m \in T : coverage[m].kind = k}
           run == [j \in DOMAIN coverage |-> coverage[j].run]
<1>1. IsFiniteSet(T) /\ S \in SUBSET T
  BY CoverageTyped, FS_Subset
<1>2. IsFiniteSet(S) /\ Cardinality(S) <= Cardinality(T) /\ Cardinality(S) \in Nat /\ Cardinality(T) \in Nat
  <2> HIDE DEF S
  <2> QED BY <1>1, FS_Subset, FS_CardinalityType
<1>3. TrendRuns(T, k) = {run[j] : j \in S}
  BY DEF TrendRuns
<1>4. IsFiniteSet({run[j] : j \in S}) /\ Cardinality({run[j] : j \in S}) <= Cardinality(S)
  <2> HIDE DEF S, run
  <2> QED BY <1>2, ImageIsFinite
<1>5. Cardinality(TrendRuns(T, k)) \in Nat
  BY <1>3, <1>4, FS_CardinalityType
<1>6. TrendRuns(T, k) \subseteq Indexed
  BY CoverageTyped DEF TrendRuns
<1>7. \A r \in Indexed : IndexedAt(r) \in Nat
  BY TimesTyped, LimitsAssumption DEF IInv, ClockInv
<1>8. ASSUME NEW q \in Indexed, NEW r \in Indexed, IndexedAt(q) = IndexedAt(r) PROVE q = r
  <2>1. PICK x \in runs : q = x.run
    BY DEF Indexed
  <2>2. PICK y \in runs : r = y.run
    BY DEF Indexed
  <2>3. IndexedAt(q) = x.at /\ IndexedAt(r) = y.at
    BY <2>1, <2>2, RowOfRun DEF IInv, ClockInv
  <2> QED BY <1>8, <2>1, <2>2, <2>3 DEF IInv, ClockInv
<1> HIDE DEF S, run
<1>9. IsFiniteSet(TrendRuns(T, k)) /\ Cardinality(TrendRuns(T, k)) <= Cardinality(T)
  BY <1>2, <1>3, <1>4, <1>5
<1> QED BY <1>5, <1>6, <1>7, <1>8, <1>9

LEMMA OnlyTheLastIsCut ==
    ASSUME IInv, NEW S \in SUBSET DOMAIN coverage, NEW T \in Cuts(S), NEW k,
           NEW q \in TrendRuns(T, k), NEW r, r \in Indexed, ~(IndexedAt(q) <= IndexedAt(r))
    PROVE  CoveredPct(T, r, k) = CoveredPct(S, r, k)
<1>1. T \in SUBSET S /\ \A j \in T, m \in S \ T :
                            IndexedAt(coverage[j].run) <= IndexedAt(coverage[m].run)
  BY DEF Cuts
<1>2. PICK j \in T : coverage[j].run = q
  BY DEF TrendRuns
<1>3. \A m \in S : coverage[m].run = r => m \in T
  BY <1>1, <1>2
<1>4. {m \in T : coverage[m].run = r /\ coverage[m].kind = k} =
          {m \in S : coverage[m].run = r /\ coverage[m].kind = k}
  BY <1>1, <1>3
<1> QED BY <1>4 DEF CoveredPct

LEMMA DeltasTelescope ==
    ASSUME IInv, NEW T \in SUBSET DOMAIN coverage, NEW k,
           NEW f \in TrendRuns(T, k), NEW l \in TrendRuns(T, k),
           \A r \in TrendRuns(T, k) : IndexedAt(f) <= IndexedAt(r) /\ IndexedAt(r) <= IndexedAt(l)
    PROVE  SumFunction([r \in TrendRuns(T, k) \ {f} |-> DeltaPct(T, r, k)]) =
               CoveredPct(T, l, k) - CoveredPct(T, f, k)
<1> DEFINE shown == TrendRuns(T, k)
           delta == [r \in shown \ {f} |-> DeltaPct(T, r, k)]
           Covered(r) == CoveredPct(T, r, k)
           UpTo(r) == {q \in shown : IndexedAt(q) <= IndexedAt(r)}
           AddsUp(r) == SumFunctionOnSet(delta, UpTo(r) \ {f}) = Covered(r) - Covered(f)
           N == {n \in Nat : \A r \in shown : IndexedAt(r) <= n => AddsUp(r)}
<1>1. /\ IsFiniteSet(shown) /\ \A r \in shown : IndexedAt(r) \in Nat
      /\ \A q, r \in shown : IndexedAt(q) = IndexedAt(r) => q = r
  BY ShownRuns
<1>2. \A r : Covered(r) \in Int
  <2> TAKE r
  <2>1. Covered(r) \in 0..100
    BY CoveredTyped
  <2> QED BY <2>1
<1>3. ASSUME NEW r \in shown, r # f
      PROVE  \E q \in shown : /\ IndexedAt(q) < IndexedAt(r) /\ delta[r] = Covered(r) - Covered(q)
                              /\ UpTo(r) \ {f} = (UpTo(q) \ {f}) \cup {r}
  <2> DEFINE B == Before(T, r, k)
             time == [q \in shown |-> IndexedAt(q)]
  <2>1. B = {q \in shown : IndexedAt(q) < IndexedAt(r)}
    BY DEF Before
  <2>2. f \in B
    BY <1>1, <1>3, <2>1
  <2>3. IsFiniteSet(B)
    <3>1. B \in SUBSET shown
      BY <2>1
    <3> HIDE DEF B, shown
    <3> QED BY <1>1, <3>1, FS_Subset
  <2>4. \E q \in B : \A p \in B : IndexedAt(p) <= IndexedAt(q)
    <3>1. \A q \in B : time[q] \in Int /\ time[q] = IndexedAt(q)
      BY <1>1, <2>1
    <3>2. \E q \in B : \A p \in B : time[p] <= time[q]
      <4> HIDE DEF B, time, shown
      <4> QED BY <2>2, <2>3, <3>1, Largest
    <3> HIDE DEF B, time
    <3> QED BY <3>1, <3>2
  <2> DEFINE prev == CHOOSE q \in B : \A p \in B : IndexedAt(p) <= IndexedAt(q)
  <2>5. prev \in B /\ \A p \in B : IndexedAt(p) <= IndexedAt(prev)
    <3> HIDE DEF B
    <3> QED BY <2>4
  <2>6. DeltaPct(T, r, k) = Covered(r) - Covered(prev)
    BY <2>2 DEF DeltaPct
  <2>7. delta[r] = Covered(r) - Covered(prev)
    BY <1>3, <2>6
  <2> HIDE DEF prev
  <2>8. ASSUME NEW q \in shown PROVE q \in UpTo(r) <=> (q \in UpTo(prev) \/ q = r)
    <3> HIDE DEF shown, B
    <3> QED BY <1>1, <1>3, <2>1, <2>5
  <2>9. UpTo(r) \ {f} = (UpTo(prev) \ {f}) \cup {r}
    <3>1. UpTo(r) \subseteq shown /\ UpTo(prev) \subseteq shown
      OBVIOUS
    <3> HIDE DEF UpTo, shown
    <3> QED BY <1>3, <2>8, <3>1
  <2>10. prev \in shown /\ IndexedAt(prev) < IndexedAt(r)
    BY <2>1, <2>5
  <2> HIDE DEF delta, Covered, UpTo, shown
  <2> QED BY <2>7, <2>9, <2>10
<1>4. 0 \in N
  <2> SUFFICES ASSUME NEW r \in shown, IndexedAt(r) <= 0 PROVE AddsUp(r)
    BY Zenon
  <2>1. IndexedAt(f) = IndexedAt(r)
    BY <1>1
  <2>2. r = f
    BY <1>1, <2>1
  <2>3. UpTo(r) \ {f} = {}
    BY <1>1, <2>2
  <2>4. SumFunctionOnSet(delta, UpTo(r) \ {f}) = 0
    BY <2>3, SumEmpty
  <2> HIDE DEF UpTo, Covered, delta
  <2> QED BY <1>2, <2>2, <2>4
<1>5. ASSUME NEW n \in Nat, n \in N PROVE n + 1 \in N
  <2> SUFFICES ASSUME NEW r \in shown, IndexedAt(r) <= n + 1 PROVE AddsUp(r)
    <3>1. n + 1 \in Nat
      OBVIOUS
    <3> HIDE DEF AddsUp, shown
    <3> QED BY <3>1
  <2>1. CASE r = f
    <3>1. UpTo(r) \ {f} = {}
      BY <1>1, <2>1
    <3>2. SumFunctionOnSet(delta, UpTo(r) \ {f}) = 0
      BY <3>1, SumEmpty
    <3> HIDE DEF UpTo, Covered, delta
    <3> QED BY <1>2, <2>1, <3>2
  <2>2. CASE r # f
    <3>1. PICK q \in shown : /\ IndexedAt(q) < IndexedAt(r) /\ delta[r] = Covered(r) - Covered(q)
                             /\ UpTo(r) \ {f} = (UpTo(q) \ {f}) \cup {r}
      <4> HIDE DEF delta, Covered, UpTo, shown
      <4> QED BY <1>3, <2>2
    <3>2. AddsUp(q)
      <4>1. IndexedAt(q) <= n
        BY <1>1, <3>1
      <4> HIDE DEF AddsUp
      <4> QED BY <1>5, <4>1
    <3>3. IsFiniteSet(UpTo(q) \ {f}) /\ r \notin UpTo(q) \ {f} /\ UpTo(q) \subseteq shown
      <4>1. UpTo(q) \ {f} \in SUBSET shown /\ r \notin UpTo(q)
        BY <1>1, <3>1
      <4>2. UpTo(q) \subseteq shown
        OBVIOUS
      <4> HIDE DEF UpTo, shown
      <4>3. IsFiniteSet(UpTo(q) \ {f})
        BY <1>1, <4>1, FS_Subset
      <4> QED BY <4>1, <4>2, <4>3
    <3>4. ASSUME NEW p \in shown, p # f PROVE delta[p] \in Int
      <4>1. PICK o \in shown : delta[p] = Covered(p) - Covered(o)
        <5> HIDE DEF delta, Covered, UpTo, shown
        <5> QED BY <1>3, <3>4
      <4> HIDE DEF delta, Covered
      <4> QED BY <1>2, <4>1
    <3>5. \A p \in (UpTo(q) \ {f}) \cup {r} : delta[p] \in Int
      <4> HIDE DEF delta, UpTo, shown
      <4> QED BY <2>2, <3>3, <3>4
    <3> HIDE DEF delta, Covered, UpTo, shown
    <3>6. SumFunctionOnSet(delta, UpTo(r) \ {f}) = delta[r] + SumFunctionOnSet(delta, UpTo(q) \ {f})
      BY <3>1, <3>3, <3>5, SumAdd
    <3> QED BY <1>2, <3>1, <3>2, <3>6
  <2> QED BY <2>1, <2>2
<1>6. IndexedAt(l) \in N
  <2>1. IndexedAt(l) \in Nat
    BY <1>1
  <2> HIDE DEF N
  <2> QED BY <1>4, <1>5, <2>1, Counting
<1>7. AddsUp(l)
  <2>1. IndexedAt(l) <= IndexedAt(l)
    BY <1>1
  <2> HIDE DEF AddsUp
  <2> QED BY <1>6, <2>1
<1>8. UpTo(l) \ {f} = shown \ {f}
  OBVIOUS
<1>9. SumFunction(delta) = SumFunctionOnSet(delta, shown \ {f})
  BY SumOverDomain
<1> HIDE DEF delta, shown, UpTo
<1>10. SumFunction(delta) = Covered(l) - Covered(f)
  BY <1>7, <1>8, <1>9
<1> QED BY <1>10 DEF delta, shown

LEMMA TrendInv == IInv => TrendWholeButLast
<1> SUFFICES ASSUME IInv, NEW s, NEW filter, NEW T \in Cuts(Selected(s, filter)), NEW k \in Kinds
             PROVE  LET S == Selected(s, filter)
                        shown == TrendRuns(T, k)
                        IsLast(r) == \A q \in shown : IndexedAt(q) <= IndexedAt(r)
                        IsFirst(r) == \A q \in shown : IndexedAt(r) <= IndexedAt(q) IN
                    /\ Cardinality(shown) <= TrendLimit
                    /\ \A r \in shown : ~IsLast(r) => CoveredPct(T, r, k) = CoveredPct(S, r, k)
                    /\ \A f, l \in shown : (IsFirst(f) /\ IsLast(l)) =>
                           CoveredPct(T, l, k) = CoveredPct(T, f, k) +
                               SumFunction([r \in shown \ {f} |-> DeltaPct(T, r, k)])
  BY DEF TrendWholeButLast
<1> DEFINE S == Selected(s, filter)
           shown == TrendRuns(T, k)
<1>1. S \in SUBSET DOMAIN coverage /\ T \in SUBSET S
  BY DEF Selected, Cuts
<1>2. T \in SUBSET DOMAIN coverage
  BY <1>1
<1>3. Cardinality(shown) <= TrendLimit
  <2>1. IsFiniteSet(S) /\ IsFiniteSet(T)
    BY <1>1, <1>2, CoverageTyped, FS_Subset
  <2>2. Cardinality(S) \in Nat /\ Cardinality(T) \in Nat /\ TrendLimit \in Nat
    BY <2>1, FS_CardinalityType, LimitsAssumption
  <2>3. Cardinality(T) = Min({TrendLimit, Cardinality(S)})
    BY DEF Cuts
  <2>4. Cardinality(T) <= TrendLimit
    <3> HIDE DEF S
    <3> QED BY <2>2, <2>3, LesserOfTwo
  <2>5. Cardinality(shown) <= Cardinality(T) /\ Cardinality(shown) \in Nat
    BY <1>2, ShownRuns
  <2> QED BY <2>2, <2>4, <2>5
<1>4. ASSUME NEW r \in shown, NEW q \in shown, ~(IndexedAt(q) <= IndexedAt(r))
      PROVE  CoveredPct(T, r, k) = CoveredPct(S, r, k)
  <2>1. r \in Indexed
    BY <1>2, CoverageTyped DEF TrendRuns
  <2> QED BY <1>1, <1>4, <2>1, OnlyTheLastIsCut
<1>5. ASSUME NEW f \in shown, NEW l \in shown,
             \A q \in shown : IndexedAt(f) <= IndexedAt(q) /\ IndexedAt(q) <= IndexedAt(l)
      PROVE  CoveredPct(T, l, k) = CoveredPct(T, f, k) +
                 SumFunction([r \in shown \ {f} |-> DeltaPct(T, r, k)])
  <2>1. SumFunction([r \in shown \ {f} |-> DeltaPct(T, r, k)]) =
            CoveredPct(T, l, k) - CoveredPct(T, f, k)
    BY <1>2, <1>5, DeltasTelescope
  <2>2. CoveredPct(T, l, k) \in Int /\ CoveredPct(T, f, k) \in Int
    <3>1. CoveredPct(T, l, k) \in 0..100 /\ CoveredPct(T, f, k) \in 0..100
      BY <1>2, CoveredTyped
    <3> QED BY <3>1
  <2> QED BY <2>1, <2>2
<1> QED BY <1>3, <1>4, <1>5

\* A trend is not longer than its limit, is whole but for its last run, and adds up
\* (TrendWholeButLast): the limit cuts summaries in the order of their runs
\* (indexing/store.py coverage_trend).
THEOREM TrendIsWhole == Spec => []TrendWholeButLast
<1> QED BY AnalyticsInductive, TrendInv, PTL


(***************************************************************************)
(* The score: every component that is there is a percentage, and a mean    *)
(* of 90 leaves no room for a small one of a large weight.                 *)
(***************************************************************************)
Components == {"pass_rate", "coverage", "assertion_health", "flakiness", "cross_sim"}

LEMMA SumSplit ==
    ASSUME NEW A, IsFiniteSet(A), NEW f, \A y \in A : f[y] \in Int, NEW x,
           NEW B, B = A \ {x}, NEW term \in Int, x \in A => term = f[x], x \notin A => term = 0
    PROVE  SumFunctionOnSet(f, A) = term + SumFunctionOnSet(f, B)
<1>1. CASE x \in A
  <2>1. A \in SUBSET A
    OBVIOUS
  <2> QED BY <1>1, <2>1, SumRemove
<1>2. CASE x \notin A
  <2>1. B = A
    BY <1>2
  <2>2. SumFunctionOnSet(f, A) \in Int
    BY SumTyped
  <2>3. term = 0
    BY <1>2
  <2>4. SumFunctionOnSet(f, B) = SumFunctionOnSet(f, A)
    BY <2>1, Zenon
  <2> QED BY <2>2, <2>3, <2>4
<1> QED BY <1>1, <1>2

LEMMA FiveTerms ==
    ASSUME NEW A \in SUBSET Components, NEW f, \A c \in A : f[c] \in Int
    PROVE  SumFunctionOnSet(f, A) =
               (IF "pass_rate" \in A THEN f["pass_rate"] ELSE 0) +
               (IF "coverage" \in A THEN f["coverage"] ELSE 0) +
               (IF "assertion_health" \in A THEN f["assertion_health"] ELSE 0) +
               (IF "flakiness" \in A THEN f["flakiness"] ELSE 0) +
               (IF "cross_sim" \in A THEN f["cross_sim"] ELSE 0)
<1> DEFINE A1 == A \ {"pass_rate"}
           A2 == A1 \ {"coverage"}
           A3 == A2 \ {"assertion_health"}
           A4 == A3 \ {"flakiness"}
           A5 == A4 \ {"cross_sim"}
           Term(c) == IF c \in A THEN f[c] ELSE 0
<1>1. IsFiniteSet(A)
  <2> DEFINE B1 == {"pass_rate"} \cup {"coverage"}
             B2 == B1 \cup {"assertion_health"}
             B3 == B2 \cup {"flakiness"}
             B4 == B3 \cup {"cross_sim"}
  <2>1. Components = B4
    BY DEF Components
  <2>2. IsFiniteSet({"pass_rate"})
    BY FS_Singleton
  <2>3. IsFiniteSet(B1)
    BY <2>2, FS_AddElement
  <2> HIDE DEF B1
  <2>4. IsFiniteSet(B2)
    BY <2>3, FS_AddElement
  <2> HIDE DEF B2
  <2>5. IsFiniteSet(B3)
    BY <2>4, FS_AddElement
  <2> HIDE DEF B3
  <2>6. IsFiniteSet(B4)
    BY <2>5, FS_AddElement
  <2> QED BY <2>1, <2>6, FS_Subset
<1>2. IsFiniteSet(A) /\ IsFiniteSet(A1) /\ IsFiniteSet(A2) /\ IsFiniteSet(A3) /\ IsFiniteSet(A4)
  <2>1. A1 \in SUBSET A /\ A2 \in SUBSET A /\ A3 \in SUBSET A /\ A4 \in SUBSET A
    OBVIOUS
  <2> HIDE DEF A1, A2, A3, A4, A5
  <2> QED BY <1>1, <2>1, FS_Subset
<1>3. /\ "coverage" \in A1 <=> "coverage" \in A
      /\ "assertion_health" \in A2 <=> "assertion_health" \in A
      /\ "flakiness" \in A3 <=> "flakiness" \in A
      /\ "cross_sim" \in A4 <=> "cross_sim" \in A
  OBVIOUS
<1>4. SumFunctionOnSet(f, A) = Term("pass_rate") + SumFunctionOnSet(f, A1)
  <2>1. IsFiniteSet(A) /\ (\A c \in A : f[c] \in Int) /\ A1 = A \ {"pass_rate"}
    BY <1>2
  <2>2. /\ Term("pass_rate") \in Int
        /\ "pass_rate" \in A => Term("pass_rate") = f["pass_rate"]
        /\ "pass_rate" \notin A => Term("pass_rate") = 0
    BY <1>3
  <2> HIDE DEF Term, A1
  <2> QED BY <2>1, <2>2, SumSplit
<1>5. SumFunctionOnSet(f, A1) = Term("coverage") + SumFunctionOnSet(f, A2)
  <2>1. IsFiniteSet(A1) /\ (\A c \in A1 : f[c] \in Int) /\ A2 = A1 \ {"coverage"}
    BY <1>2
  <2>2. /\ Term("coverage") \in Int
        /\ "coverage" \in A1 => Term("coverage") = f["coverage"]
        /\ "coverage" \notin A1 => Term("coverage") = 0
    BY <1>3
  <2> HIDE DEF Term, A1, A2
  <2> QED BY <2>1, <2>2, SumSplit
<1>6. SumFunctionOnSet(f, A2) = Term("assertion_health") + SumFunctionOnSet(f, A3)
  <2>1. IsFiniteSet(A2) /\ (\A c \in A2 : f[c] \in Int) /\ A3 = A2 \ {"assertion_health"}
    BY <1>2
  <2>2. /\ Term("assertion_health") \in Int
        /\ "assertion_health" \in A2 => Term("assertion_health") = f["assertion_health"]
        /\ "assertion_health" \notin A2 => Term("assertion_health") = 0
    BY <1>3
  <2> HIDE DEF Term, A2, A3
  <2> QED BY <2>1, <2>2, SumSplit
<1>7. SumFunctionOnSet(f, A3) = Term("flakiness") + SumFunctionOnSet(f, A4)
  <2>1. IsFiniteSet(A3) /\ (\A c \in A3 : f[c] \in Int) /\ A4 = A3 \ {"flakiness"}
    BY <1>2
  <2>2. /\ Term("flakiness") \in Int
        /\ "flakiness" \in A3 => Term("flakiness") = f["flakiness"]
        /\ "flakiness" \notin A3 => Term("flakiness") = 0
    BY <1>3
  <2> HIDE DEF Term, A3, A4
  <2> QED BY <2>1, <2>2, SumSplit
<1>8. SumFunctionOnSet(f, A4) = Term("cross_sim") + SumFunctionOnSet(f, A5)
  <2>1. IsFiniteSet(A4) /\ (\A c \in A4 : f[c] \in Int) /\ A5 = A4 \ {"cross_sim"}
    BY <1>2
  <2>2. /\ Term("cross_sim") \in Int
        /\ "cross_sim" \in A4 => Term("cross_sim") = f["cross_sim"]
        /\ "cross_sim" \notin A4 => Term("cross_sim") = 0
    BY <1>3
  <2> HIDE DEF Term, A4, A5
  <2> QED BY <2>1, <2>2, SumSplit
<1>9. SumFunctionOnSet(f, A5) = 0
  <2>1. A5 = {}
    BY DEF Components
  <2> QED BY <2>1, SumEmpty
<1>10. /\ Term("pass_rate") \in Int /\ Term("coverage") \in Int /\ Term("assertion_health") \in Int
       /\ Term("flakiness") \in Int /\ Term("cross_sim") \in Int
  OBVIOUS
<1>11. SumFunctionOnSet(f, A) = Term("pass_rate") + Term("coverage") + Term("assertion_health") +
                                Term("flakiness") + Term("cross_sim")
  <2> HIDE DEF Term, A1, A2, A3, A4, A5
  <2> QED BY <1>4, <1>5, <1>6, <1>7, <1>8, <1>9, <1>10
<1> QED BY <1>11

LEMMA SumOfOnes ==
    ASSUME NEW S, IsFiniteSet(S)
    PROVE  SumFunctionOnSet([x \in S |-> 1], S) = Cardinality(S)
<1> DEFINE ones == [x \in S |-> 1]
           Good == {T \in SUBSET S : SumFunctionOnSet(ones, T) = Cardinality(T)}
<1>1. {} \in Good
  BY SumEmpty, FS_EmptySet
<1>2. ASSUME NEW T \in SUBSET S, NEW x \in S \ T, T \in Good PROVE T \cup {x} \in Good
  <2>1. IsFiniteSet(T)
    BY FS_Subset
  <2>2. Cardinality(T) \in Nat /\ Cardinality(T \cup {x}) = Cardinality(T) + 1
    BY <2>1, FS_CardinalityType, FS_AddElement
  <2>3. \A y \in T \cup {x} : ones[y] \in Int /\ ones[y] = 1
    OBVIOUS
  <2>4. SumFunctionOnSet(ones, T) = Cardinality(T)
    BY <1>2
  <2> HIDE DEF ones
  <2>5. SumFunctionOnSet(ones, T \cup {x}) = ones[x] + SumFunctionOnSet(ones, T)
    BY <2>1, <2>3, SumAdd
  <2>6. SumFunctionOnSet(ones, T \cup {x}) = Cardinality(T \cup {x})
    BY <2>2, <2>3, <2>4, <2>5
  <2> QED BY <2>6
<1> HIDE DEF Good
<1>3. S \in Good
  BY <1>1, <1>2, SetInduction
<1> QED BY <1>3 DEF Good

LEMMA QuotientBounds ==
    ASSUME NEW n \in Nat, NEW d \in Nat \ {0}
    PROVE  /\ n \div d \in Nat /\ (n \div d) * d <= n
           /\ n \div d >= 90 => n >= 90 * d
<1> DEFINE q == n \div d
<1>1. q \in Nat /\ q * d <= n
  OBVIOUS
<1> HIDE DEF q
<1>2. ASSUME q >= 90 PROVE n >= 90 * d
  <2>1. (q - 90) * d >= 0
    BY <1>1, <1>2
  <2> QED BY <1>1, <2>1
<1> QED BY <1>1, <1>2 DEF q

LEMMA PassRateIs ==
    ASSUME IInv, NEW T \in SUBSET tests
    PROVE  /\ PassRate(T) \in 0..100
           /\ PassRate(T) >= 66 => T # {} /\ 100 * Cardinality(Passed(T)) >= 66 * Cardinality(T)
<1> DEFINE p == Cardinality(Passed(T))
           n == Cardinality(T)
           q == (100 * p) \div n
<1>1. IsFiniteSet(T) /\ n \in Nat /\ p \in Nat /\ p <= n
  <2>1. IsFiniteSet(T)
    BY SomeTests
  <2>2. Passed(T) \in SUBSET T
    BY DEF Passed
  <2> QED BY <2>1, <2>2, FS_Subset, FS_CardinalityType
<1>2. CASE T = {}
  BY <1>2 DEF PassRate
<1>3. CASE T # {}
  <2>1. n # 0
    BY <1>1, <1>3, FS_EmptySet
  <2>2. PassRate(T) = q
    BY <1>3 DEF PassRate
  <2> HIDE DEF p, n
  <2>3. q \in 0..100 /\ q * n <= 100 * p
    BY <1>1, <2>1, QuotientOfSum, QuotientBounds
  <2> HIDE DEF q
  <2>4. ASSUME q >= 66 PROVE 100 * p >= 66 * n
    <3>1. (q - 66) * n >= 0
      BY <1>1, <2>3, <2>4
    <3> QED BY <1>1, <2>3, <3>1
  <2>5. PassRate(T) \in 0..100 /\ (PassRate(T) >= 66 => T # {} /\ 100 * p >= 66 * n)
    BY <1>3, <2>2, <2>3, <2>4
  <2> QED BY <2>5 DEF p, n
<1> QED BY <1>2, <1>3

LEMMA ConsistencyIs ==
    ASSUME NEW bad, Cardinality(bad) \in Nat, NEW cohorts, IsFiniteSet(cohorts)
    PROVE  Consistency(bad, cohorts) \in {None} \cup 0..100
<1>1. CASE cohorts = {}
  BY <1>1 DEF Consistency
<1>2. CASE cohorts # {}
  <2> DEFINE q == (200 * Cardinality(bad)) \div Cardinality(cohorts)
  <2>1. Cardinality(cohorts) \in Nat \ {0}
    BY <1>2, FS_CardinalityType, FS_EmptySet
  <2>2. q \in Nat
    BY <2>1, QuotientBounds
  <2>3. Consistency(bad, cohorts) = Max({0, 100 - q})
    BY <1>2 DEF Consistency
  <2> HIDE DEF q
  <2>4. Max({0, 100 - q}) \in 0..100
    <3>1. 0 \in Int /\ 100 - q \in Int
      BY <2>2
    <3>2. Max({0, 100 - q}) = IF 0 >= 100 - q THEN 0 ELSE 100 - q
      BY <3>1, LesserOfTwo
    <3> QED BY <2>2, <3>2
  <2> QED BY <2>3, <2>4
<1> QED BY <1>1, <1>2


Scores ==
    [pass_rate : 0..100, coverage : {None} \cup 0..100, assertion_health : {None} \cup 0..100,
     flakiness : {None} \cup 0..100, cross_sim : {None} \cup 0..100]

LEMMA ScoreIs ==
    ASSUME NEW scores \in Scores
    PROVE  /\ HealthScore(scores) \in 0..100
           /\ HealthScore(scores) >= 90 =>
                  /\ scores.pass_rate >= 66
                  /\ scores.coverage # None => scores.coverage >= 71
                  /\ ~(scores.flakiness = 0 /\ scores.cross_sim = 0)
<1> DEFINE p == scores.pass_rate
           c == scores.coverage
           a == scores.assertion_health
           f == scores.flakiness
           x == scores.cross_sim
           available == {q \in DOMAIN scores : scores[q] # None}
           score == [q \in available |-> scores[q] * Weights[q]]
           weight == [q \in available |-> Weights[q]]
           n == SumFunction(score)
           d == SumFunction(weight)
           V(v, w) == IF v # None THEN v * w ELSE 0
           W(v, w) == IF v # None THEN w ELSE 0
<1>. p \in 0..100 /\ c \in {None} \cup 0..100 /\ a \in {None} \cup 0..100
  BY DEF Scores
<1>. f \in {None} \cup 0..100 /\ x \in {None} \cup 0..100
  BY DEF Scores
<1>. DOMAIN scores = Components
  BY DEF Scores, Components
<1>1. /\ available \in SUBSET Components
      /\ "pass_rate" \in available
      /\ "coverage" \in available <=> c # None
      /\ "assertion_health" \in available <=> a # None
      /\ "flakiness" \in available <=> f # None
      /\ "cross_sim" \in available <=> x # None
  BY NoneAssumption DEF Components
<1>2. /\ scores["pass_rate"] = p /\ scores["coverage"] = c /\ scores["assertion_health"] = a
      /\ scores["flakiness"] = f /\ scores["cross_sim"] = x
  OBVIOUS
<1> HIDE DEF p, c, a, f, x
<1>3. /\ Weights["pass_rate"] = 30 /\ Weights["coverage"] = 35
      /\ Weights["assertion_health"] = 15 /\ Weights["flakiness"] = 10
      /\ Weights["cross_sim"] = 10
  BY DEF Weights
<1>4. \A q \in available : scores[q] \in 0..100 /\ Weights[q] \in Nat
  <2> SUFFICES ASSUME NEW q \in available PROVE scores[q] \in 0..100 /\ Weights[q] \in Nat
    OBVIOUS
  <2>1. q \in Components /\ scores[q] # None
    BY <1>1
  <2> HIDE DEF available
  <2>2. scores[q] \in {p, c, a, f, x} /\ Weights[q] \in {30, 35, 15, 10}
    BY <1>2, <1>3, <2>1 DEF Components
  <2> QED BY <2>1, <2>2
<1>5. \A q \in available : score[q] \in Int /\ weight[q] \in Int
  <2>1. \A q \in available : scores[q] * Weights[q] \in Int /\ Weights[q] \in Int
    BY <1>4
  <2> QED BY <2>1
<1>6. n = 30 * p + V(c, 35) + V(a, 15) + V(f, 10) + V(x, 10)
  <2>1. n = SumFunctionOnSet(score, available)
    BY SumOverDomain
  <2>2. /\ score["pass_rate"] = p * 30
        /\ "coverage" \in available => score["coverage"] = c * 35
        /\ "assertion_health" \in available => score["assertion_health"] = a * 15
        /\ "flakiness" \in available => score["flakiness"] = f * 10
        /\ "cross_sim" \in available => score["cross_sim"] = x * 10
    BY <1>1, <1>2, <1>3
  <2> HIDE DEF score, available, n
  <2>3. SumFunctionOnSet(score, available) =
            (IF "pass_rate" \in available THEN score["pass_rate"] ELSE 0) +
            (IF "coverage" \in available THEN score["coverage"] ELSE 0) +
            (IF "assertion_health" \in available THEN score["assertion_health"] ELSE 0) +
            (IF "flakiness" \in available THEN score["flakiness"] ELSE 0) +
            (IF "cross_sim" \in available THEN score["cross_sim"] ELSE 0)
    BY <1>1, <1>5, FiveTerms
  <2>4. /\ (IF "pass_rate" \in available THEN score["pass_rate"] ELSE 0) = 30 * p
        /\ (IF "coverage" \in available THEN score["coverage"] ELSE 0) = V(c, 35)
        /\ (IF "assertion_health" \in available THEN score["assertion_health"] ELSE 0) = V(a, 15)
        /\ (IF "flakiness" \in available THEN score["flakiness"] ELSE 0) = V(f, 10)
        /\ (IF "cross_sim" \in available THEN score["cross_sim"] ELSE 0) = V(x, 10)
    BY <1>1, <2>2
  <2> HIDE DEF V
  <2> QED BY <2>1, <2>3, <2>4
<1>7. d = 30 + W(c, 35) + W(a, 15) + W(f, 10) + W(x, 10)
  <2>1. d = SumFunctionOnSet(weight, available)
    BY SumOverDomain
  <2>2. /\ weight["pass_rate"] = 30
        /\ "coverage" \in available => weight["coverage"] = 35
        /\ "assertion_health" \in available => weight["assertion_health"] = 15
        /\ "flakiness" \in available => weight["flakiness"] = 10
        /\ "cross_sim" \in available => weight["cross_sim"] = 10
    BY <1>1, <1>3
  <2> HIDE DEF weight, available, d
  <2>3. SumFunctionOnSet(weight, available) =
            (IF "pass_rate" \in available THEN weight["pass_rate"] ELSE 0) +
            (IF "coverage" \in available THEN weight["coverage"] ELSE 0) +
            (IF "assertion_health" \in available THEN weight["assertion_health"] ELSE 0) +
            (IF "flakiness" \in available THEN weight["flakiness"] ELSE 0) +
            (IF "cross_sim" \in available THEN weight["cross_sim"] ELSE 0)
    BY <1>1, <1>5, FiveTerms
  <2>4. /\ (IF "pass_rate" \in available THEN weight["pass_rate"] ELSE 0) = 30
        /\ (IF "coverage" \in available THEN weight["coverage"] ELSE 0) = W(c, 35)
        /\ (IF "assertion_health" \in available THEN weight["assertion_health"] ELSE 0) = W(a, 15)
        /\ (IF "flakiness" \in available THEN weight["flakiness"] ELSE 0) = W(f, 10)
        /\ (IF "cross_sim" \in available THEN weight["cross_sim"] ELSE 0) = W(x, 10)
    BY <1>1, <2>2
  <2> HIDE DEF W
  <2> QED BY <2>1, <2>3, <2>4
<1>8. ASSUME NEW v \in {None} \cup 0..100, NEW w \in 0..35
      PROVE  /\ V(v, w) \in Nat /\ W(v, w) \in 0..w /\ V(v, w) <= 100 * W(v, w)
             /\ v # None => V(v, w) = v * w /\ W(v, w) = w
             /\ v = 0 => V(v, w) = 0 /\ W(v, w) = w
  <2>1. CASE v = None
    BY <2>1, NoneAssumption
  <2>2. CASE v # None
    <3>1. v \in 0..100 /\ V(v, w) = v * w /\ W(v, w) = w
      BY <2>2
    <3>2. v * w \in Nat /\ (100 - v) * w >= 0
      BY <3>1
    <3>3. v * w <= 100 * w
      BY <3>1, <3>2
    <3>4. v = 0 => v * w = 0
      BY <3>1
    <3> QED BY <3>1, <3>2, <3>3, <3>4
  <2> QED BY <2>1, <2>2
<1>9. /\ V(c, 35) \in Nat /\ W(c, 35) \in 0..35 /\ V(c, 35) <= 100 * W(c, 35)
      /\ V(a, 15) \in Nat /\ W(a, 15) \in 0..15 /\ V(a, 15) <= 100 * W(a, 15)
      /\ V(f, 10) \in Nat /\ W(f, 10) \in 0..10 /\ V(f, 10) <= 100 * W(f, 10)
      /\ V(x, 10) \in Nat /\ W(x, 10) \in 0..10 /\ V(x, 10) <= 100 * W(x, 10)
      /\ c # None => V(c, 35) = c * 35 /\ W(c, 35) = 35
      /\ f = 0 => V(f, 10) = 0 /\ W(f, 10) = 10
      /\ x = 0 => V(x, 10) = 0 /\ W(x, 10) = 10
  <2> HIDE DEF V, W
  <2>1. 35 \in 0..35 /\ 15 \in 0..35 /\ 10 \in 0..35
    OBVIOUS
  <2> QED BY <1>8, <2>1
<1>10. HealthScore(scores) = n \div d
  BY DEF HealthScore
<1> HIDE DEF n, d, V, W
<1>11. /\ n \in Nat /\ d \in Nat \ {0} /\ n <= 100 * d
       /\ n >= 90 * d =>
              (3000 - 30 * p) + (100 * W(c, 35) - V(c, 35)) + (100 * W(f, 10) - V(f, 10))
                  + (100 * W(x, 10) - V(x, 10)) <= 1000
  <2> DEFINE vc == V(c, 35) wc == W(c, 35) va == V(a, 15) wa == W(a, 15)
             vf == V(f, 10) wf == W(f, 10) vx == V(x, 10) wx == W(x, 10)
  <2>1. /\ vc \in Nat /\ wc \in 0..35 /\ 100 * wc - vc \in Nat
        /\ va \in Nat /\ wa \in 0..15 /\ 100 * wa - va \in Nat
    BY <1>9
  <2>2. /\ vf \in Nat /\ wf \in 0..10 /\ 100 * wf - vf \in Nat
        /\ vx \in Nat /\ wx \in 0..10 /\ 100 * wx - vx \in Nat
    BY <1>9
  <2>3. n = 30 * p + vc + va + vf + vx /\ d = 30 + wc + wa + wf + wx
    BY <1>6, <1>7
  <2> HIDE DEF vc, wc, va, wa, vf, wf, vx, wx
  <2>4. n \in Nat /\ d \in 30..100
    BY <2>1, <2>2, <2>3
  <2>5. 100 * d - n = (3000 - 30 * p) + (100 * wc - vc) + (100 * wa - va) + (100 * wf - vf)
                          + (100 * wx - vx)
    BY <2>1, <2>2, <2>3
  <2>6. n <= 100 * d
    BY <2>1, <2>2, <2>4, <2>5
  <2>7. ASSUME n >= 90 * d
        PROVE  (3000 - 30 * p) + (100 * wc - vc) + (100 * wf - vf) + (100 * wx - vx) <= 1000
    <3>1. 100 * d - n <= 1000
      BY <2>4, <2>7
    <3> QED BY <2>1, <2>2, <2>5, <3>1
  <2> QED BY <2>4, <2>6, <2>7 DEF vc, wc, vf, wf, vx, wx
<1>12. n \div d \in 0..100 /\ (n \div d >= 90 => n >= 90 * d)
  BY <1>11, QuotientOfSum, QuotientBounds
<1>13. ASSUME n >= 90 * d
       PROVE  p >= 66 /\ (c # None => c >= 71) /\ ~(f = 0 /\ x = 0)
  <2>1. (3000 - 30 * p) + (100 * W(c, 35) - V(c, 35)) + (100 * W(f, 10) - V(f, 10))
            + (100 * W(x, 10) - V(x, 10)) <= 1000
    BY <1>11, <1>13
  <2>2. p >= 66
    BY <1>9, <2>1
  <2>3. ASSUME c # None PROVE c >= 71
    <3>1. c \in 0..100 /\ V(c, 35) = c * 35 /\ W(c, 35) = 35
      BY <1>9, <2>3
    <3>2. 3500 - c * 35 <= 1000
      BY <1>9, <2>1, <3>1
    <3> QED BY <3>1, <3>2
  <2>4. ASSUME f = 0, x = 0 PROVE FALSE
    <3>1. V(f, 10) = 0 /\ W(f, 10) = 10 /\ V(x, 10) = 0 /\ W(x, 10) = 10
      BY <1>9, <2>4
    <3> QED BY <1>9, <2>1, <3>1
  <2> QED BY <2>2, <2>3, <2>4
<1> QED BY <1>10, <1>12, <1>13 DEF p, c, f, x


LEMMA OverallCoverageIs ==
    ASSUME IInv, NEW sc
    PROVE  OverallCoverage(sc) \in {None} \cup 0..100
<1> DEFINE S == {j \in Selected(sc.suite, None) : sc.run # None => coverage[j].run = sc.run}
           Of(k) == {j \in S : coverage[j].kind = k}
           measured == {k \in Kinds : Metrics(Of(k)) > 0}
           mean == [k \in measured |-> MeanPct(Of(k))]
           ones == [k \in measured |-> 1]
           kind == [j \in DOMAIN coverage |-> coverage[j].kind]
<1>1. S \in SUBSET DOMAIN coverage /\ \A k : Of(k) \in SUBSET DOMAIN coverage
  BY DEF Selected
<1>2. IsFiniteSet(measured)
  <2>1. IsFiniteSet({kind[j] : j \in DOMAIN coverage})
    <3> HIDE DEF kind
    <3> QED BY CoverageTyped, ImageIsFinite
  <2>2. ASSUME NEW k \in measured PROVE k \in {kind[j] : j \in DOMAIN coverage}
    <3>1. Of(k) # {}
      <4> SUFFICES ASSUME Of(k) = {} PROVE FALSE
        OBVIOUS
      <4>1. Metrics(Of(k)) = SumFunctionOnSet([j \in Of(k) |-> coverage[j].count], Of(k))
        BY SumOverDomain DEF Metrics
      <4>2. Metrics(Of(k)) = 0
        BY <4>1, SumEmpty
      <4>3. Metrics(Of(k)) > 0
        BY <2>2
      <4> QED BY <4>2, <4>3
    <3>2. PICK j \in DOMAIN coverage : coverage[j].kind = k
      BY <1>1, <3>1
    <3> QED BY <3>2
  <2>3. measured \in SUBSET {kind[j] : j \in DOMAIN coverage}
    BY <2>2
  <2> QED BY <2>1, <2>3, FS_Subset
<1>3. \A k \in measured : mean[k] \in 0..100
  <2> SUFFICES ASSUME NEW k \in measured PROVE MeanPct(Of(k)) \in 0..100
    OBVIOUS
  <2>1. Metrics(Of(k)) > 0 /\ Of(k) \in SUBSET DOMAIN coverage
    BY <1>1
  <2> HIDE DEF Of
  <2>2. Metrics(Of(k)) \in Nat
    BY <2>1, MeansTyped
  <2>3. Metrics(Of(k)) # 0
    BY <2>1, <2>2
  <2> QED BY <2>1, <2>3, MeansTyped
<1>4. OverallCoverage(sc) =
          IF measured = {} THEN None ELSE SumFunction(mean) \div Cardinality(measured)
  BY DEF OverallCoverage
<1>5. SumFunction(mean) = SumFunctionOnSet(mean, measured)
  BY SumOverDomain
<1>6. \A k \in measured : ones[k] = 1
  OBVIOUS
<1>7. SumFunctionOnSet(ones, measured) = Cardinality(measured)
  <2> HIDE DEF measured
  <2> QED BY <1>2, SumOfOnes
<1> HIDE DEF S, Of, measured, mean, ones
<1>8. CASE measured = {}
  BY <1>4, <1>8
<1>9. CASE measured # {}
  <2>1. Cardinality(measured) \in Nat \ {0}
    BY <1>2, <1>9, FS_CardinalityType, FS_EmptySet
  <2>2. SumFunctionOnSet(mean, measured) \in Nat
    BY <1>2, <1>3, SumNatural
  <2>3. \A k \in measured : mean[k] \in Int /\ ones[k] \in Int /\ mean[k] <= 100 * ones[k]
    BY <1>3, <1>6
  <2>4. SumFunctionOnSet(mean, measured) <= 100 * Cardinality(measured)
    BY <1>2, <1>7, <2>3, SumAtMost
  <2>5. SumFunction(mean) \div Cardinality(measured) \in 0..100
    BY <1>5, <2>1, <2>2, <2>4, QuotientOfSum
  <2> QED BY <1>4, <1>9, <2>5
<1> QED BY <1>8, <1>9

\* What the two consistencies count is finite.
LEMMA CohortsAreFinite ==
    ASSUME IInv, NEW sc
    PROVE  /\ IsFiniteSet(HistoryCohorts(sc)) /\ IsFiniteSet(CrossSimCohorts(sc))
           /\ Cardinality(FlakyCohorts(sc)) \in Nat
           /\ Cardinality(Divergence(sc.suite)) \in Nat
<1> DEFINE cohort == [t \in tests |-> Cohort(t)]
           pair == [t \in tests |-> <<Cohort(t), SuiteOf[t.run]>>]
<1>1. IsFiniteSet(tests)
  BY DEF IInv
<1>2. IsFiniteSet(Cohorts)
  <2>1. IsFiniteSet({cohort[t] : t \in tests})
    <3> HIDE DEF cohort
    <3> QED BY <1>1, ImageIsFinite
  <2>2. {cohort[t] : t \in tests} = Cohorts
    BY DEF Cohorts
  <2> QED BY <2>1, <2>2
<1>3. IsFiniteSet(HistoryCohorts(sc)) /\ IsFiniteSet(FlakyCohorts(sc))
  <2>1. HistoryCohorts(sc) \in SUBSET Cohorts /\ FlakyCohorts(sc) \in SUBSET Cohorts
    BY DEF HistoryCohorts, FlakyCohorts
  <2> QED BY <1>2, <2>1, FS_Subset
<1>4. IsFiniteSet(CrossSimCohorts(sc))
  <2>1. IsFiniteSet({pair[t] : t \in tests})
    <3> HIDE DEF pair
    <3> QED BY <1>1, ImageIsFinite
  <2>2. ASSUME NEW p \in CrossSimCohorts(sc) PROVE p \in {pair[t] : t \in tests}
    <3> DEFINE U == {u \in ScopedTests(sc, p[1]) :
                        /\ SuiteOf[u.run] = p[2]
                        /\ u.status \in {"pass", "fail"} /\ u.sim # NoSim}
               sims == {t.sim : t \in U}
    <3>1. p \in Cohorts \X Suites /\ Cardinality(sims) >= 2
      BY DEF CrossSimCohorts
    <3>2. U # {}
      <4> SUFFICES ASSUME U = {} PROVE FALSE
        OBVIOUS
      <4>1. sims = {}
        OBVIOUS
      <4>2. Cardinality(sims) = 0
        BY <4>1, FS_EmptySet
      <4> HIDE DEF sims
      <4> QED BY <3>1, <4>2
    <3>3. PICK t \in tests : Cohort(t) = p[1] /\ SuiteOf[t.run] = p[2]
      BY <3>2 DEF ScopedTests, InSuite
    <3>4. pair[t] = p
      BY <3>1, <3>3
    <3> QED BY <3>4
  <2>3. CrossSimCohorts(sc) \in SUBSET {pair[t] : t \in tests}
    BY <2>2
  <2> QED BY <2>1, <2>3, FS_Subset
<1>5. IsFiniteSet(Divergence(sc.suite))
  <2>1. Divergence(sc.suite) \in SUBSET SUBSET tests
    BY DEF Divergence, InSuite
  <2>2. IsFiniteSet(SUBSET tests)
    BY <1>1, FS_SUBSET
  <2> QED BY <2>1, <2>2, FS_Subset
<1> QED BY <1>3, <1>4, <1>5, FS_CardinalityType

LEMMA SignOffInv == IInv => SignOffMeansPassing
<1> SUFFICES ASSUME IInv, NEW sc \in Scopes, NEW assertions \in {None, 0, 100}
             PROVE  LET scores == ComponentScores(sc, assertions)
                        T == HealthTests(sc) IN
                    /\ HealthScore(scores) \in 0..100
                    /\ SignOffReady(scores) =>
                           /\ T # {} /\ 100 * Cardinality(Passed(T)) >= 66 * Cardinality(T)
                           /\ scores.coverage # None => scores.coverage >= 71
                           /\ ~(scores.flakiness = 0 /\ scores.cross_sim = 0)
  BY DEF SignOffMeansPassing
<1> DEFINE scores == ComponentScores(sc, assertions)
           T == HealthTests(sc)
           p == PassRate(T)
           c == OverallCoverage(sc)
           f == Consistency(FlakyCohorts(sc), HistoryCohorts(sc))
           x == Consistency(Divergence(sc.suite), CrossSimCohorts(sc))
<1>1. T \in SUBSET tests
  BY DEF HealthTests, TestsOf, InSuite
<1>2. /\ p \in 0..100
      /\ p >= 66 => T # {} /\ 100 * Cardinality(Passed(T)) >= 66 * Cardinality(T)
  <2> HIDE DEF T
  <2> QED BY <1>1, PassRateIs
<1>3. c \in {None} \cup 0..100
  BY OverallCoverageIs
<1>4. f \in {None} \cup 0..100 /\ x \in {None} \cup 0..100
  BY CohortsAreFinite, ConsistencyIs
<1>5. scores = [pass_rate |-> p, coverage |-> c, assertion_health |-> assertions,
                flakiness |-> f, cross_sim |-> x]
  BY DEF ComponentScores
<1>6. scores.pass_rate = p
  BY <1>5
<1>7. SignOffReady(scores) => HealthScore(scores) >= 90
  BY DEF SignOffReady
<1>8. assertions \in {None} \cup 0..100
  OBVIOUS
<1>9. scores \in Scores
  <2> HIDE DEF scores, T, p, c, f, x
  <2> QED BY <1>2, <1>3, <1>4, <1>5, <1>8 DEF Scores
<1> HIDE DEF scores, T, p
<1>10. /\ HealthScore(scores) \in 0..100
       /\ HealthScore(scores) >= 90 =>
              /\ scores.pass_rate >= 66
              /\ scores.coverage # None => scores.coverage >= 71
              /\ ~(scores.flakiness = 0 /\ scores.cross_sim = 0)
  BY <1>9, ScoreIs
<1> QED BY <1>2, <1>6, <1>7, <1>10 DEF scores, T

\* A scope that is called ready for sign-off has tests, two of three of which pass, coverage of
\* 71 percent or none at all, and is not both flaky and divergent in half of its cohorts
\* (SignOffMeansPassing), whatever the score leaves out for want of data (tools/core.py
\* get_regression_health).
THEOREM ReadyMeansPassing == Spec => []SignOffMeansPassing
<1> QED BY AnalyticsInductive, SignOffInv, PTL
=============================================================================
