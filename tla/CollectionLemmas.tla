--------------------------- MODULE CollectionLemmas ---------------------------
(***************************************************************************)
(* What sorts, filters, sums, maxima and concatenations of finite sets and *)
(* lists are, for all of them, in terms of no recursion.                   *)
(*                                                                         *)
(* The folds of the libraries are recursive functions.  To say what one    *)
(* returns, its recursion is shown to have a solution and its value to be  *)
(* that solution's; everything else is by induction over a finite set.     *)
(* The induction is on membership in a set ("Good") instead of a property  *)
(* given as an operator, from the fact that no set of natural numbers is   *)
(* without a least element (NatMinimum).                                   *)
(***************************************************************************)
EXTENDS Ordering, FiniteSetTheorems, SequenceTheorems, TLAPS

(* A set of numbers that is not empty has a least one.                     *)
LEMMA NatMinimum ==
    ASSUME NEW T \in SUBSET Nat, T # {}
    PROVE  \E n \in T : \A m \in T : n <= m
<1>1. PICK n \in T : \A m \in T : ~(<<m, n>> \in OpToRel(<, Nat))
  BY NatLessThanWellFounded, WFMin, Zenon
<1>2. \A m \in T : ~(m < n)
  <2> TAKE m \in T
  <2>1. m \in Nat /\ n \in Nat
    OBVIOUS
  <2> QED
    BY <1>1, <2>1 DEF OpToRel
<1> QED
  BY <1>2

(* Induction over the numbers: Good is the set of those that have the      *)
(* property, so that no operator is a parameter.                           *)
LEMMA NatSetInduction ==
    ASSUME NEW Good, 0 \in Good, \A n \in Nat : n \in Good => n + 1 \in Good
    PROVE  Nat \subseteq Good
<1> SUFFICES ASSUME NEW k \in Nat \ Good
             PROVE  FALSE
  OBVIOUS
<1>1. PICK n \in Nat \ Good : \A m \in Nat \ Good : n <= m
  <2> DEFINE T == Nat \ Good
  <2>1. T \in SUBSET Nat /\ T # {}
    OBVIOUS
  <2> HIDE DEF T
  <2>2. \E n \in T : \A m \in T : n <= m
    BY <2>1, NatMinimum
  <2> QED
    BY <2>2 DEF T
<1>2. n # 0 /\ n - 1 \in Nat
  OBVIOUS
<1>3. n - 1 \in Good
  BY <1>1, <1>2
<1>4. (n - 1) + 1 \in Good
  BY <1>2, <1>3
<1> QED
  BY <1>4

(* Induction over a finite set, element by element: Good is the set of its *)
(* subsets that have the property.                                         *)
LEMMA FiniteSetInduction ==
    ASSUME NEW S, IsFiniteSet(S), NEW Good, {} \in Good,
           \A T \in SUBSET S, x \in S : x \notin T /\ T \in Good => T \cup {x} \in Good
    PROVE  S \in Good
<1> DEFINE Level(n) == \A T \in SUBSET S : Cardinality(T) = n => T \in Good
           Levels == {n \in Nat : Level(n)}
<1>1. \A T \in SUBSET S : IsFiniteSet(T) /\ Cardinality(T) \in Nat
  BY FS_Subset, FS_CardinalityType
<1>2. 0 \in Levels
  BY <1>1, FS_EmptySet
<1>3. ASSUME NEW n \in Nat, n \in Levels
      PROVE  n + 1 \in Levels
  <2> SUFFICES ASSUME NEW T \in SUBSET S, Cardinality(T) = n + 1
               PROVE  T \in Good
    OBVIOUS
  <2>1. T # {}
    <3>1. Cardinality({}) = 0
      BY FS_EmptySet
    <3> QED
      BY <3>1
  <2>2. PICK x \in T : TRUE
    BY <2>1
  <2> DEFINE U == T \ {x}
  <2>3. U \in SUBSET S /\ x \in S /\ x \notin U /\ T = U \cup {x}
    OBVIOUS
  <2>4. Cardinality(U) = n
    <3>1. IsFiniteSet(T)
      BY <1>1
    <3>2. Cardinality(T \ {x}) = Cardinality(T) - 1
      BY <3>1, FS_RemoveElement, Zenon
    <3> QED
      BY <3>2
  <2>5. U \in Good
    BY <1>3, <2>3, <2>4
  <2> QED
    BY <2>3, <2>5
<1>4. Nat \subseteq Levels
  <2> HIDE DEF Levels
  <2> QED
    BY <1>2, <1>3, NatSetInduction
<1> QED
  BY <1>1, <1>4
-----------------------------------------------------------------------------
(* The element that a fold over s takes first, and the function by which a *)
(* sum is defined.                                                         *)
Pick(s) == CHOOSE x \in s : TRUE

IsSum(g, f, S) ==
    g = [s \in SUBSET S |-> IF s = {} THEN 0 ELSE f[Pick(s)] + g[s \ {Pick(s)}]]

LEMMA PickInSet == ASSUME NEW s, s # {} PROVE Pick(s) \in s
  BY DEF Pick

LEMMA SumIsRecursive ==
    ASSUME NEW f, NEW S
    PROVE  SumFunctionOnSet(f, S) = (CHOOSE g : IsSum(g, f, S))[S]
  BY Zenon DEF SumFunctionOnSet, FoldFunctionOnSet, MapThenFoldSet, IsSum, Pick

(* The recursion of a sum is well-founded: its function exists.            *)
LEMMA SumExists ==
    ASSUME NEW S, IsFiniteSet(S), NEW f
    PROVE  \E g : IsSum(g, f, S)
<1> DEFINE Step(g, s) == IF s = {} THEN 0 ELSE f[Pick(s)] + g[s \ {Pick(s)}]
           UpTo(g, n) == \A s \in SUBSET S : Cardinality(s) <= n => g[s] = Step(g, s)
           Levels == {n \in Nat : \E g : UpTo(g, n)}
<1>1. \A T \in SUBSET S : /\ IsFiniteSet(T) /\ Cardinality(T) \in Nat
                          /\ Cardinality(T) = 0 => T = {}
                          /\ T # {} => Cardinality(T \ {Pick(T)}) = Cardinality(T) - 1
  BY FS_Subset, FS_CardinalityType, FS_EmptySet, FS_RemoveElement, PickInSet
<1>2. 0 \in Levels
  <2> DEFINE g == [s \in SUBSET S |-> 0]
  <2>1. ASSUME NEW s \in SUBSET S, Cardinality(s) <= 0
        PROVE  g[s] = Step(g, s)
    <3>1. Cardinality(s) \in Nat /\ (Cardinality(s) = 0 => s = {})
      BY <1>1
    <3>2. Cardinality(s) = 0
      BY <2>1, <3>1
    <3> QED
      BY <3>1, <3>2
  <2>2. UpTo(g, 0)
    BY <2>1
  <2> QED
    BY <2>2
<1>3. ASSUME NEW n \in Nat, n \in Levels
      PROVE  n + 1 \in Levels
  <2>1. PICK g : UpTo(g, n)
    BY <1>3
  <2> DEFINE h == [s \in SUBSET S |-> IF Cardinality(s) <= n THEN g[s] ELSE Step(g, s)]
  <2>2. ASSUME NEW s \in SUBSET S, Cardinality(s) <= n + 1
        PROVE  h[s] = Step(h, s)
    <3>1. s # {} => /\ s \ {Pick(s)} \in SUBSET S
                    /\ Cardinality(s \ {Pick(s)}) <= n
                    /\ h[s \ {Pick(s)}] = g[s \ {Pick(s)}]
      BY <1>1, <2>2
    <3>2. h[s] = Step(g, s)
      BY <2>1
    <3> QED
      BY <3>1, <3>2
  <2>3. UpTo(h, n + 1)
    BY <2>2
  <2> HIDE DEF UpTo
  <2> QED
    BY <2>3
<1>4. Cardinality(S) \in Levels
  <2>1. Nat \subseteq Levels
    <3> HIDE DEF Levels
    <3> QED
      BY <1>2, <1>3, NatSetInduction
  <2> QED
    BY <1>1, <2>1
<1>5. PICK g : UpTo(g, Cardinality(S))
  BY <1>4
<1> DEFINE h == [s \in SUBSET S |-> g[s]]
<1>6. ASSUME NEW s \in SUBSET S
      PROVE  g[s] = IF s = {} THEN 0 ELSE f[Pick(s)] + h[s \ {Pick(s)}]
  <2>1. Cardinality(s) <= Cardinality(S)
    BY FS_Subset
  <2> QED
    BY <1>5, <2>1
<1>7. IsSum(h, f, S)
  BY <1>6 DEF IsSum
<1> QED
  BY <1>7

(* What SumFunctionOnSet() is, in the order in which it picks.             *)
LEMMA SumPick ==
    ASSUME NEW S, IsFiniteSet(S), NEW f
    PROVE  /\ SumFunctionOnSet(f, {}) = 0
           /\ S # {} => SumFunctionOnSet(f, S) = f[Pick(S)] + SumFunctionOnSet(f, S \ {Pick(S)})
<1>1. ASSUME NEW T, IsFiniteSet(T)
      PROVE  LET g == CHOOSE h : IsSum(h, f, T) IN IsSum(g, f, T)
  BY <1>1, SumExists
<1>2. ASSUME NEW g, NEW h, IsSum(g, f, S), NEW T \in SUBSET S, IsSum(h, f, T)
      PROVE  g[T] = h[T]
  <2> DEFINE Same == {n \in Nat : \A s \in SUBSET T : Cardinality(s) = n => g[s] = h[s]}
  <2>1. \A s \in SUBSET T : /\ s \in SUBSET S /\ Cardinality(s) \in Nat
                            /\ Cardinality(s) = 0 => s = {}
                            /\ s # {} => /\ s \ {Pick(s)} \in SUBSET T
                                         /\ Cardinality(s \ {Pick(s)}) = Cardinality(s) - 1
    BY FS_Subset, FS_CardinalityType, FS_EmptySet, FS_RemoveElement, PickInSet
  <2>2. \A s \in SUBSET T : /\ g[s] = IF s = {} THEN 0 ELSE f[Pick(s)] + g[s \ {Pick(s)}]
                            /\ h[s] = IF s = {} THEN 0 ELSE f[Pick(s)] + h[s \ {Pick(s)}]
    BY <1>2, <2>1 DEF IsSum
  <2>3. 0 \in Same
    BY <2>1, <2>2
  <2>4. ASSUME NEW n \in Nat, n \in Same
        PROVE  n + 1 \in Same
    <3> SUFFICES ASSUME NEW s \in SUBSET T, Cardinality(s) = n + 1
                 PROVE  g[s] = h[s]
      OBVIOUS
    <3>1. s # {}
      BY FS_EmptySet
    <3>2. g[s \ {Pick(s)}] = h[s \ {Pick(s)}]
      BY <2>1, <2>4, <3>1
    <3> QED
      BY <2>2, <3>1, <3>2
  <2>5. Nat \subseteq Same
    <3> HIDE DEF Same
    <3> QED
      BY <2>3, <2>4, NatSetInduction
  <2> QED
    BY <2>1, <2>5
<1>3. SumFunctionOnSet(f, {}) = 0
  <2> DEFINE g == CHOOSE h : IsSum(h, f, {})
  <2>1. IsSum(g, f, {})
    BY <1>1, FS_EmptySet
  <2>2. g[{}] = 0
    <3> HIDE DEF g
    <3> QED
      BY <2>1 DEF IsSum
  <2> QED
    BY <2>2, SumIsRecursive
<1>4. ASSUME S # {}
      PROVE  SumFunctionOnSet(f, S) = f[Pick(S)] + SumFunctionOnSet(f, S \ {Pick(S)})
  <2> DEFINE T == S \ {Pick(S)}
             g == CHOOSE h : IsSum(h, f, S)
             k == CHOOSE h : IsSum(h, f, T)
  <2>1. IsFiniteSet(T) /\ T \in SUBSET S
    BY FS_Subset
  <2>2. IsSum(g, f, S) /\ IsSum(k, f, T)
    BY <1>1, <2>1
  <2>3. SumFunctionOnSet(f, S) = g[S] /\ SumFunctionOnSet(f, T) = k[T]
    BY SumIsRecursive
  <2> HIDE DEF g, k
  <2>4. g[S] = f[Pick(S)] + g[T]
    BY <1>4, <2>2 DEF IsSum
  <2>5. g[T] = k[T]
    BY <1>2, <2>1, <2>2
  <2> QED
    BY <2>3, <2>4, <2>5
<1> QED
  BY <1>3, <1>4

(* Sums of integers, in any order: a sum without one of its elements.      *)
LEMMA SumWithout ==
    ASSUME NEW S, IsFiniteSet(S), NEW f, \A x \in S : f[x] \in Int
    PROVE  /\ SumFunctionOnSet(f, S) \in Int
           /\ \A x \in S : SumFunctionOnSet(f, S) = f[x] + SumFunctionOnSet(f, S \ {x})
<1> DEFINE Sum(T) == SumFunctionOnSet(f, T)
           Fine(T) == Sum(T) \in Int /\ \A x \in T : Sum(T) = f[x] + Sum(T \ {x})
           Levels == {n \in Nat : \A T \in SUBSET S : Cardinality(T) <= n => Fine(T)}
<1>1. \A T \in SUBSET S : /\ IsFiniteSet(T) /\ Cardinality(T) \in Nat
                          /\ Cardinality(T) = 0 => T = {}
                          /\ \A x \in T : Cardinality(T \ {x}) = Cardinality(T) - 1
  BY FS_Subset, FS_CardinalityType, FS_EmptySet, FS_RemoveElement
<1>2. \A T \in SUBSET S : /\ T # {} => Pick(T) \in T /\ Sum(T) = f[Pick(T)] + Sum(T \ {Pick(T)})
                          /\ T = {} => Sum(T) = 0
  BY <1>1, SumPick, PickInSet
<1> HIDE DEF Sum
<1>3. Fine({})
  BY <1>2
<1>4. 0 \in Levels
  <2>1. \A T \in SUBSET S : Cardinality(T) <= 0 => T = {}
    <3> TAKE T \in SUBSET S
    <3>1. Cardinality(T) \in Nat /\ (Cardinality(T) = 0 => T = {})
      BY <1>1
    <3> QED
      BY <3>1
  <2> QED
    BY <1>3, <2>1
<1>5. ASSUME NEW n \in Nat, n \in Levels
      PROVE  n + 1 \in Levels
  <2>1. \A U \in SUBSET S : Cardinality(U) <= n => Fine(U)
    BY <1>5
  <2> HIDE DEF Fine
  <2>2. ASSUME NEW T \in SUBSET S, Cardinality(T) <= n + 1, T # {}
        PROVE  Fine(T)
    <3> DEFINE y == Pick(T)
    <3>1. y \in T /\ Sum(T) = f[y] + Sum(T \ {y})
      BY <1>2, <2>2
    <3>2. \A x \in T : Fine(T \ {x})
      <4> TAKE x \in T
      <4>1. T \ {x} \in SUBSET S /\ Cardinality(T \ {x}) = Cardinality(T) - 1 /\ Cardinality(T) \in Nat
        BY <1>1
      <4>2. Cardinality(T \ {x}) <= n
        BY <4>1, <2>2
      <4> QED
        BY <2>1, <4>1, <4>2
    <3>3. \A x \in T \ {y} : Fine((T \ {x}) \ {y})
      <4> TAKE x \in T \ {y}
      <4> DEFINE U == (T \ {x}) \ {y}
      <4>1. Cardinality(T \ {x}) = Cardinality(T) - 1 /\ T \ {x} \in SUBSET S /\ Cardinality(T) \in Nat
        BY <1>1
      <4>2. y \in T \ {x}
        BY <3>1
      <4>3. Cardinality(U) = Cardinality(T \ {x}) - 1
        BY <1>1, <4>1, <4>2
      <4>4. Cardinality(U) <= n /\ U \in SUBSET S
        BY <4>1, <4>3, <2>2
      <4> QED
        BY <2>1, <4>4
    <3> HIDE DEF y
    <3>4. Sum(T) \in Int
      BY <3>1, <3>2 DEF Fine
    <3>5. ASSUME NEW x \in T, x # y
          PROVE  Sum(T) = f[x] + Sum(T \ {x})
      <4> DEFINE U == (T \ {x}) \ {y}
      <4>1. Sum(T \ {y}) = f[x] + Sum((T \ {y}) \ {x})
        BY <3>1, <3>2, <3>5 DEF Fine
      <4>2. Sum(T \ {x}) = f[y] + Sum(U)
        BY <3>1, <3>2, <3>5 DEF Fine
      <4>3. Sum(T \ {y}) = f[x] + Sum(U)
        <5>1. (T \ {y}) \ {x} = U
          OBVIOUS
        <5> QED
          BY <4>1, <5>1
      <4>4. Sum(U) \in Int /\ f[x] \in Int /\ f[y] \in Int
        BY <3>1, <3>3, <3>5 DEF Fine
      <4>5. Sum(T) = f[y] + (f[x] + Sum(U))
        BY <3>1, <4>3
      <4> HIDE DEF U
      <4> QED
        BY <4>2, <4>4, <4>5
    <3> QED
      BY <3>1, <3>4, <3>5 DEF Fine
  <2>3. \A T \in SUBSET S : Cardinality(T) <= n + 1 => Fine(T)
    BY <1>3, <2>2
  <2> QED
    BY <2>3
<1>6. Nat \subseteq Levels
  <2> HIDE DEF Levels
  <2> QED
    BY <1>4, <1>5, NatSetInduction
<1>7. Fine(S)
  BY <1>1, <1>6
<1> QED
  BY <1>7 DEF Sum

(* A sum with one element more.                                            *)
LEMMA SumAddElement ==
    ASSUME NEW S, IsFiniteSet(S), NEW x, x \notin S, NEW f, \A y \in S \cup {x} : f[y] \in Int
    PROVE  SumFunctionOnSet(f, S \cup {x}) = f[x] + SumFunctionOnSet(f, S)
<1> DEFINE T == S \cup {x}
<1>1. IsFiniteSet(T)
  BY FS_AddElement
<1>2. T \ {x} = S
  OBVIOUS
<1>3. SumFunctionOnSet(f, T) = f[x] + SumFunctionOnSet(f, T \ {x})
  <2> HIDE DEF T
  <2>1. x \in T /\ \A y \in T : f[y] \in Int
    BY DEF T
  <2> QED
    BY <1>1, <2>1, SumWithout
<1> QED
  BY <1>2, <1>3

(* A sum whose terms for C have grown by one each.                         *)
LEMMA SumIncrement ==
    ASSUME NEW S, IsFiniteSet(S), NEW C, NEW f, NEW g, \A x \in S : f[x] \in Int,
           \A x \in S : g[x] = IF x \in C THEN f[x] + 1 ELSE f[x]
    PROVE  SumFunctionOnSet(g, S) = SumFunctionOnSet(f, S) + Cardinality(S \cap C)
<1> DEFINE Good == {T \in SUBSET S : SumFunctionOnSet(g, T) = SumFunctionOnSet(f, T) + Cardinality(T \cap C)}
<1>1. {} \in Good
  <2>1. SumFunctionOnSet(g, {}) = 0 /\ SumFunctionOnSet(f, {}) = 0
    BY SumPick, FS_EmptySet
  <2>2. {} \cap C = {} /\ Cardinality({}) = 0
    BY FS_EmptySet
  <2> QED
    BY <2>1, <2>2
<1>2. ASSUME NEW T \in SUBSET S, NEW x \in S, x \notin T, T \in Good
      PROVE  T \cup {x} \in Good
  <2>1. IsFiniteSet(T) /\ \A y \in T \cup {x} : f[y] \in Int /\ g[y] \in Int
    BY FS_Subset
  <2>2. /\ SumFunctionOnSet(f, T \cup {x}) = f[x] + SumFunctionOnSet(f, T)
        /\ SumFunctionOnSet(g, T \cup {x}) = g[x] + SumFunctionOnSet(g, T)
    BY <1>2, <2>1, SumAddElement
  <2>3. SumFunctionOnSet(f, T) \in Int
    BY <2>1, SumWithout
  <2>4. IsFiniteSet(T \cap C) /\ Cardinality(T \cap C) \in Nat
    BY <2>1, FS_Intersection, FS_CardinalityType
  <2>5. CASE x \in C
    <3>1. (T \cup {x}) \cap C = (T \cap C) \cup {x} /\ x \notin T \cap C
      BY <1>2, <2>5
    <3>2. Cardinality((T \cap C) \cup {x}) = Cardinality(T \cap C) + 1
      BY <2>4, <3>1, FS_AddElement
    <3> QED
      BY <1>2, <2>2, <2>3, <2>4, <2>5, <3>1, <3>2
  <2>6. CASE x \notin C
    <3>1. Cardinality((T \cup {x}) \cap C) = Cardinality(T \cap C)
      <4>1. (T \cup {x}) \cap C = T \cap C
        BY <2>6
      <4> QED
        BY <4>1
    <3>2. g[x] = f[x] /\ f[x] \in Int
      BY <2>6
    <3> QED
      BY <1>2, <2>2, <2>3, <2>4, <3>1, <3>2
  <2> QED
    BY <2>5, <2>6
<1>3. S \in Good
  <2> HIDE DEF Good
  <2> QED
    BY <1>1, <1>2, FiniteSetInduction
<1> QED
  BY <1>3

(* Equal terms make equal sums.                                            *)
LEMMA SumCongruence ==
    ASSUME NEW S, IsFiniteSet(S), NEW f, NEW g, \A x \in S : f[x] \in Int /\ g[x] = f[x]
    PROVE  SumFunctionOnSet(g, S) = SumFunctionOnSet(f, S)
<1>1. S \cap {} = {} /\ Cardinality({}) = 0
  BY FS_EmptySet
<1>2. SumFunctionOnSet(g, S) = SumFunctionOnSet(f, S) + Cardinality(S \cap {})
  BY SumIncrement
<1>3. SumFunctionOnSet(f, S) \in Int
  BY SumWithout
<1> QED
  BY <1>1, <1>2, <1>3

(* A term more at the end of a list.                                       *)
LEMMA SumAppended ==
    ASSUME NEW n \in Nat, NEW f, NEW g, \A i \in 1 .. n : f[i] \in Int /\ g[i] = f[i],
           g[n + 1] \in Int
    PROVE  SumFunctionOnSet(g, 1 .. n + 1) = SumFunctionOnSet(f, 1 .. n) + g[n + 1]
<1>1. IsFiniteSet(1 .. n)
  BY FS_Interval
<1>5. n + 1 \notin 1 .. n
  OBVIOUS
<1>6. 1 .. n + 1 = (1 .. n) \cup {n + 1}
  OBVIOUS
<1>2. \A i \in (1 .. n) \cup {n + 1} : g[i] \in Int
  OBVIOUS
<1>3. SumFunctionOnSet(g, (1 .. n) \cup {n + 1}) = g[n + 1] + SumFunctionOnSet(g, 1 .. n)
  BY <1>1, <1>2, <1>5, SumAddElement
<1>4. SumFunctionOnSet(g, 1 .. n) = SumFunctionOnSet(f, 1 .. n) /\ SumFunctionOnSet(f, 1 .. n) \in Int
  BY <1>1, SumCongruence, SumWithout
<1>7. SumFunctionOnSet(g, 1 .. n + 1) = g[n + 1] + SumFunctionOnSet(g, 1 .. n)
  BY <1>3, <1>6
<1> QED
  BY <1>4, <1>7

(* More terms that are not negative make no smaller sum.                   *)
LEMMA SumMonotonic ==
    ASSUME NEW S, IsFiniteSet(S), NEW f, \A x \in S : f[x] \in Nat, NEW U \in SUBSET S
    PROVE  /\ SumFunctionOnSet(f, U) \in Nat
           /\ SumFunctionOnSet(f, U) <= SumFunctionOnSet(f, S)
<1> DEFINE Good == {T \in SUBSET S : /\ SumFunctionOnSet(f, T) \in Nat
                                     /\ SumFunctionOnSet(f, T \cap U) \in Nat
                                     /\ SumFunctionOnSet(f, T \cap U) <= SumFunctionOnSet(f, T)}
<1>1. {} \in Good
  <2>1. SumFunctionOnSet(f, {}) = 0 /\ {} \cap U = {}
    BY SumPick, FS_EmptySet
  <2> QED
    BY <2>1
<1>2. ASSUME NEW T \in SUBSET S, NEW x \in S, x \notin T, T \in Good
      PROVE  T \cup {x} \in Good
  <2>1. IsFiniteSet(T) /\ IsFiniteSet(T \cap U) /\ f[x] \in Nat
    BY FS_Subset, FS_Intersection
  <2>2. SumFunctionOnSet(f, T \cup {x}) = f[x] + SumFunctionOnSet(f, T)
    BY <1>2, <2>1, SumAddElement
  <2>3. CASE x \in U
    <3>1. (T \cup {x}) \cap U = (T \cap U) \cup {x}
      BY <2>3
    <3>2. SumFunctionOnSet(f, (T \cap U) \cup {x}) = f[x] + SumFunctionOnSet(f, T \cap U)
      <4>1. x \notin T \cap U /\ \A y \in (T \cap U) \cup {x} : f[y] \in Int
        BY <1>2
      <4> QED
        BY <2>1, <4>1, SumAddElement
    <3> QED
      BY <1>2, <2>1, <2>2, <3>1, <3>2
  <2>4. CASE x \notin U
    <3>1. (T \cup {x}) \cap U = T \cap U
      BY <2>4
    <3> QED
      BY <1>2, <2>1, <2>2, <3>1
  <2> QED
    BY <2>3, <2>4
<1>3. S \in Good
  <2> HIDE DEF Good
  <2> QED
    BY <1>1, <1>2, FiniteSetInduction
<1>4. S \cap U = U
  OBVIOUS
<1> QED
  BY <1>3, <1>4

(* A finite set of numbers has its maximum.                                *)
LEMMA MaximumExists ==
    ASSUME NEW S \in SUBSET Int, IsFiniteSet(S), S # {}
    PROVE  Max(S) \in S /\ \A y \in S : y <= Max(S)
<1> DEFINE Good == {T \in SUBSET S : T # {} => \E x \in T : \A y \in T : x >= y}
<1>1. {} \in Good
  OBVIOUS
<1>2. ASSUME NEW T \in SUBSET S, NEW x \in S, x \notin T, T \in Good
      PROVE  T \cup {x} \in Good
  <2>1. CASE T = {}
    BY <2>1
  <2>2. CASE T # {}
    <3>1. PICK m \in T : \A y \in T : m >= y
      BY <1>2, <2>2
    <3> QED
      BY <3>1
  <2> QED
    BY <2>1, <2>2
<1>3. S \in Good
  <2> HIDE DEF Good
  <2> QED
    BY <1>1, <1>2, FiniteSetInduction
<1>4. \E x \in S : \A y \in S : x >= y
  BY <1>3
<1> QED
  BY <1>4 DEF Max
-----------------------------------------------------------------------------
(* A strict total order of S.                                              *)
StrictOrderOn(S, R) ==
    /\ \A x, y \in S : <<x, y>> \in R => <<y, x>> \notin R
    /\ \A x, y \in S : x # y => <<x, y>> \in R \/ <<y, x>> \in R
    /\ \A x, y, z \in S : <<x, y>> \in R /\ <<y, z>> \in R => <<x, z>> \in R

(* Ordered() enumerates the set, each element once and in its order: the   *)
(* number of those before an element tells its place.                      *)
LEMMA OrderedExact ==
    ASSUME NEW S, IsFiniteSet(S), NEW R, StrictOrderOn(S, R)
    PROVE  /\ Cardinality(S) \in Nat
           /\ Ordered(S, R) \in [1 .. Cardinality(S) -> S]
           /\ \A i, j \in 1 .. Cardinality(S) : i < j => <<Ordered(S, R)[i], Ordered(S, R)[j]>> \in R
           /\ \A x \in S : \E i \in 1 .. Cardinality(S) : Ordered(S, R)[i] = x
<1> DEFINE n == Cardinality(S)
           Below(x) == {y \in S : <<y, x>> \in R}
           rank == [x \in S |-> Cardinality(Below(x))]
<1>1. n \in Nat
  BY FS_CardinalityType
<1>2. \A x \in S : IsFiniteSet(Below(x)) /\ rank[x] \in Nat
  BY FS_Subset, FS_CardinalityType
<1>3. ASSUME NEW x \in S, NEW y \in S, <<x, y>> \in R
      PROVE  rank[x] < rank[y]
  <2>1. Below(x) \subseteq Below(y) /\ x \in Below(y) /\ x \notin Below(x)
    BY <1>3 DEF StrictOrderOn
  <2>2. Cardinality(Below(x)) <= Cardinality(Below(y)) /\ Cardinality(Below(x)) # Cardinality(Below(y))
    <3> HIDE DEF Below
    <3>1. IsFiniteSet(Below(y)) /\ Below(x) \in SUBSET Below(y) /\ Below(x) # Below(y)
      BY <1>2, <2>1
    <3> QED
      BY <3>1, FS_Subset
  <2> QED
    BY <1>2, <2>2
<1>4. \A x \in S : rank[x] < n
  <2> TAKE x \in S
  <2>1. Below(x) \in SUBSET S /\ Below(x) # S
    BY DEF StrictOrderOn
  <2>2. Cardinality(Below(x)) <= n /\ Cardinality(Below(x)) # n
    <3> HIDE DEF Below
    <3> QED
      BY <2>1, FS_Subset
  <2> QED
    BY <1>1, <1>2, <2>2
<1>5. rank \in Injection(S, 0 .. n - 1)
  <2>1. rank \in [S -> 0 .. n - 1]
    BY <1>1, <1>2, <1>4
  <2>2. ASSUME NEW x \in S, NEW y \in S, x # y
        PROVE  rank[x] # rank[y]
    <3>1. <<x, y>> \in R \/ <<y, x>> \in R
      BY <2>2 DEF StrictOrderOn
    <3>2. rank[x] < rank[y] \/ rank[y] < rank[x]
      BY <1>3, <3>1
    <3>3. rank[x] \in Nat /\ rank[y] \in Nat
      BY <1>2
    <3> HIDE DEF rank
    <3> QED
      BY <3>2, <3>3
  <2> HIDE DEF rank
  <2> QED
    BY <2>1, <2>2 DEF Injection, IsInjective
<1>6. rank \in Surjection(S, 0 .. n - 1)
  <2>1. IsFiniteSet(0 .. n - 1) /\ Cardinality(0 .. n - 1) = n
    BY <1>1, FS_Interval
  <2> HIDE DEF rank
  <2> QED
    BY <1>5, <2>1, FS_Injection
<1>7. \A i \in 1 .. n : \E x \in S : rank[x] = i - 1
  <2> TAKE i \in 1 .. n
  <2>1. i - 1 \in 0 .. n - 1
    BY <1>1
  <2> HIDE DEF rank
  <2> QED
    BY <1>6, <2>1 DEF Surjection
<1>8. \A i \in 1 .. n : Ordered(S, R)[i] \in S /\ rank[Ordered(S, R)[i]] = i - 1
  <2> TAKE i \in 1 .. n
  <2>1. Ordered(S, R)[i] = CHOOSE x \in S : rank[x] = i - 1
    BY DEF Ordered
  <2> HIDE DEF rank
  <2> QED
    BY <1>7, <2>1
<1>9. Ordered(S, R) \in [1 .. n -> S]
  BY <1>8 DEF Ordered
<1> HIDE DEF rank, n
<1>10. ASSUME NEW i \in 1 .. n, NEW j \in 1 .. n, i < j
       PROVE  <<Ordered(S, R)[i], Ordered(S, R)[j]>> \in R
  <2> DEFINE x == Ordered(S, R)[i]
             y == Ordered(S, R)[j]
  <2>1. x \in S /\ y \in S /\ rank[x] = i - 1 /\ rank[y] = j - 1
    BY <1>8
  <2>2. ~(rank[y] < rank[x]) /\ x # y
    BY <1>1, <1>10, <2>1
  <2> HIDE DEF x, y
  <2> QED
    BY <1>3, <2>1, <2>2 DEF StrictOrderOn, x, y
<1>11. ASSUME NEW x \in S
       PROVE  \E i \in 1 .. n : Ordered(S, R)[i] = x
  <2> DEFINE i == rank[x] + 1
  <2>1. i \in 1 .. n /\ rank[x] = i - 1 /\ rank[x] \in Nat
    <3>1. rank[x] \in Nat /\ rank[x] < n
      BY <1>2, <1>4
    <3> QED
      BY <1>1, <3>1
  <2>2. Ordered(S, R)[i] \in S /\ rank[Ordered(S, R)[i]] = rank[x]
    BY <1>8, <2>1
  <2>3. \A y \in S : rank[y] = rank[x] => y = x
    BY <1>5 DEF Injection, IsInjective
  <2> QED
    BY <2>1, <2>2, <2>3
<1> QED
  BY <1>1, <1>9, <1>10, <1>11 DEF n

(* The order of numbers is one.                                            *)
LEMMA AscendingExact ==
    ASSUME NEW S \in SUBSET Int, IsFiniteSet(S)
    PROVE  /\ Cardinality(S) \in Nat
           /\ Ascending(S) \in [1 .. Cardinality(S) -> S]
           /\ \A i, j \in 1 .. Cardinality(S) : i < j => Ascending(S)[i] < Ascending(S)[j]
           /\ \A x \in S : \E i \in 1 .. Cardinality(S) : Ascending(S)[i] = x
<1>1. \A x, y \in S : <<x, y>> \in OrderOn(S, <) <=> x < y
  <2> DEFINE pairs == {<<x, y>> : x, y \in S}
  <2>1. \A p : p \in OrderOn(S, <) <=> p \in pairs /\ p[1] < p[2]
    BY DEF OrderOn
  <2>2. \A x, y \in S : <<x, y>> \in pairs
    OBVIOUS
  <2> HIDE DEF pairs
  <2> TAKE x \in S, y \in S
  <2>3. <<x, y>> \in OrderOn(S, <) <=> <<x, y>> \in pairs /\ <<x, y>>[1] < <<x, y>>[2]
    BY <2>1, Zenon
  <2>4. <<x, y>>[1] = x /\ <<x, y>>[2] = y
    OBVIOUS
  <2> QED
    BY <2>2, <2>3, <2>4, Zenon
<1> DEFINE R == OrderOn(S, <)
<1>2. \A x, y \in S : <<x, y>> \in R <=> x < y
  BY <1>1
<1> HIDE DEF R
<1>5. StrictOrderOn(S, R)
  BY <1>2 DEF StrictOrderOn
<1>3. /\ Cardinality(S) \in Nat
      /\ Ordered(S, R) \in [1 .. Cardinality(S) -> S]
      /\ \A i, j \in 1 .. Cardinality(S) : i < j => <<Ordered(S, R)[i], Ordered(S, R)[j]>> \in R
      /\ \A x \in S : \E i \in 1 .. Cardinality(S) : Ordered(S, R)[i] = x
  BY <1>5, OrderedExact
<1>4. Ascending(S) = Ordered(S, R)
  BY DEF Ascending, R
<1> QED
  BY <1>2, <1>3, <1>4

(* r is what s has at these places, in its order.                          *)
Kept(s, places, r) ==
    \E place \in [1 .. Cardinality(places) -> places] :
        /\ \A i, j \in 1 .. Cardinality(places) : i < j => place[i] < place[j]
        /\ \A x \in places : \E i \in 1 .. Cardinality(places) : place[i] = x
        /\ \A i \in 1 .. Cardinality(places) : r[i] = s[place[i]]

(* A filtered list keeps what it keeps, in its order.                      *)
LEMMA SubSequenceExact ==
    ASSUME NEW T, NEW s \in Seq(T), NEW places \in SUBSET DOMAIN s
    PROVE  /\ SubSequence(s, places) \in Seq(T)
           /\ Len(SubSequence(s, places)) = Cardinality(places)
           /\ Kept(s, places, SubSequence(s, places))
           /\ ToSet(SubSequence(s, places)) = {s[i] : i \in places}
<1> DEFINE n == Cardinality(places)
           place == Ascending(places)
           r == SubSequence(s, places)
<1>1. places \in SUBSET Int /\ IsFiniteSet(places)
  <2>1. DOMAIN s = 1 .. Len(s) /\ Len(s) \in Nat
    OBVIOUS
  <2>2. IsFiniteSet(1 .. Len(s))
    BY <2>1, FS_Interval
  <2> QED
    BY <2>1, <2>2, FS_Subset
<1>2. /\ n \in Nat
      /\ place \in [1 .. n -> places]
      /\ \A i, j \in 1 .. n : i < j => place[i] < place[j]
      /\ \A x \in places : \E i \in 1 .. n : place[i] = x
  BY <1>1, AscendingExact
<1>3. r = [i \in 1 .. n |-> s[place[i]]]
  BY DEF SubSequence
<1> HIDE DEF place, r, n
<1>4. \A i \in 1 .. n : r[i] = s[place[i]] /\ s[place[i]] \in T
  BY <1>2, <1>3
<1>5. r \in Seq(T) /\ Len(r) = n /\ DOMAIN r = 1 .. n
  BY <1>2, <1>3, <1>4
<1>6. ToSet(r) = {s[i] : i \in places}
  <2>1. ToSet(r) = {r[i] : i \in 1 .. n}
    BY <1>5 DEF ToSet
  <2>2. ASSUME NEW i \in 1 .. n
        PROVE  r[i] \in {s[k] : k \in places}
    BY <1>2, <1>4
  <2>3. ASSUME NEW k \in places
        PROVE  s[k] \in {r[i] : i \in 1 .. n}
    <3>1. PICK i \in 1 .. n : place[i] = k
      BY <1>2
    <3>2. r[i] = s[k]
      BY <1>4, <3>1
    <3> QED
      BY <3>2
  <2> QED
    BY <2>1, <2>2, <2>3
<1>7. Kept(s, places, r)
  BY <1>2, <1>4 DEF Kept, n
<1> QED
  BY <1>5, <1>6, <1>7 DEF n, r

(* What stands before what in a list that is sorted.                       *)
LEMMA StableOrderPairs ==
    ASSUME NEW s, NEW R, NEW i \in DOMAIN s, NEW j \in DOMAIN s
    PROVE  <<i, j>> \in StableOrder(s, R) <=>
              <<s[i], s[j]>> \in R \/ (<<s[j], s[i]>> \notin R /\ i < j)
  BY DEF StableOrder, OrderOn

(* A weak order: what it does not tell apart is alike for it.              *)
WeakOrderOn(S, R) ==
    /\ \A x, y \in S : <<x, y>> \in R => <<y, x>> \notin R
    /\ \A x, y, z \in S : <<x, z>> \in R => <<x, y>> \in R \/ <<y, z>> \in R

(* r has what s has, at other places.                                      *)
Rearranged(s, r) ==
    \E place \in [DOMAIN s -> DOMAIN s] :
        /\ \A i, j \in DOMAIN s : i # j => place[i] # place[j]
        /\ \A x \in DOMAIN s : \E i \in DOMAIN s : place[i] = x
        /\ \A i \in DOMAIN s : r[i] = s[place[i]]

(* A sorted list has the elements it had, at other places, and none before *)
(* one that should precede it.                                             *)
LEMMA StableSortExact ==
    ASSUME NEW T, NEW s \in Seq(T), NEW R, WeakOrderOn(ToSet(s), R)
    PROVE  /\ StableSort(s, R) \in Seq(T)
           /\ Len(StableSort(s, R)) = Len(s)
           /\ Rearranged(s, StableSort(s, R))
           /\ \A i, j \in DOMAIN s : i < j =>
                 <<StableSort(s, R)[j], StableSort(s, R)[i]>> \notin R
           /\ ToSet(StableSort(s, R)) = ToSet(s)
<1> DEFINE D == DOMAIN s
           Q == StableOrder(s, R)
           place == Ordered(D, Q)
           r == StableSort(s, R)
<1>1. D = 1 .. Len(s) /\ Len(s) \in Nat
  OBVIOUS
<1>2. IsFiniteSet(D) /\ Cardinality(D) = Len(s)
  BY <1>1, FS_Interval
<1>3. \A i, j \in D : <<i, j>> \in Q <=>
              <<s[i], s[j]>> \in R \/ (<<s[j], s[i]>> \notin R /\ i < j)
  BY StableOrderPairs
<1>4. \A i \in D : s[i] \in ToSet(s)
  BY DEF ToSet
<1> HIDE DEF Q
<1>5. StrictOrderOn(D, Q)
  <2>1. ASSUME NEW i \in D, NEW j \in D, <<i, j>> \in Q
        PROVE  <<j, i>> \notin Q
    <3>1. s[i] \in ToSet(s) /\ s[j] \in ToSet(s)
      BY <1>4
    <3>2. <<s[i], s[j]>> \in R => <<s[j], s[i]>> \notin R
      BY <3>1 DEF WeakOrderOn
    <3>3. <<s[i], s[j]>> \in R \/ (<<s[j], s[i]>> \notin R /\ i < j)
      BY <1>3, <2>1
    <3>4. <<j, i>> \in Q => <<s[j], s[i]>> \in R \/ (<<s[i], s[j]>> \notin R /\ j < i)
      BY <1>3
    <3>5. i \in Int /\ j \in Int
      BY <1>1
    <3> QED
      BY <3>2, <3>3, <3>4, <3>5
  <2>2. ASSUME NEW i \in D, NEW j \in D, i # j
        PROVE  <<i, j>> \in Q \/ <<j, i>> \in Q
    <3>1. i < j \/ j < i
      BY <1>1, <2>2
    <3>2. <<i, j>> \in Q <=> <<s[i], s[j]>> \in R \/ (<<s[j], s[i]>> \notin R /\ i < j)
      BY <1>3
    <3>3. <<j, i>> \in Q <=> <<s[j], s[i]>> \in R \/ (<<s[i], s[j]>> \notin R /\ j < i)
      BY <1>3
    <3> QED
      BY <3>1, <3>2, <3>3
  <2>3. ASSUME NEW i \in D, NEW j \in D, NEW k \in D, <<i, j>> \in Q, <<j, k>> \in Q
        PROVE  <<i, k>> \in Q
    <3> DEFINE x == s[i]
               y == s[j]
               z == s[k]
    <3>1. x \in ToSet(s) /\ y \in ToSet(s) /\ z \in ToSet(s)
      BY <1>4
    <3>2. (<<x, y>> \in R \/ (<<y, x>> \notin R /\ i < j)) /\ (<<y, z>> \in R \/ (<<z, y>> \notin R /\ j < k))
      BY <1>3, <2>3
    <3>3. <<i, k>> \in Q <=> <<x, z>> \in R \/ (<<z, x>> \notin R /\ i < k)
      BY <1>3
    <3> HIDE DEF x, y, z
    <3> QED
      BY <1>1, <3>1, <3>2, <3>3 DEF WeakOrderOn
  <2> QED
    BY <2>1, <2>2, <2>3 DEF StrictOrderOn
<1>6. /\ place \in [D -> D]
      /\ \A i, j \in D : i < j => <<place[i], place[j]>> \in Q
      /\ \A x \in D : \E i \in D : place[i] = x
  <2>1. Cardinality(D) = Len(s) /\ D = 1 .. Cardinality(D)
    BY <1>1, <1>2
  <2>2. /\ place \in [1 .. Cardinality(D) -> D]
        /\ \A i, j \in 1 .. Cardinality(D) : i < j => <<place[i], place[j]>> \in Q
        /\ \A x \in D : \E i \in 1 .. Cardinality(D) : place[i] = x
    <3> HIDE DEF D
    <3> QED
      BY <1>2, <1>5, OrderedExact
  <2> HIDE DEF place, D
  <2> QED
    BY <2>1, <2>2
<1>7. r = [i \in D |-> s[place[i]]]
  BY DEF StableSort, Q
<1> HIDE DEF place, r
<1>8. \A i, j \in D : i # j => place[i] # place[j]
  <2>1. \A i, j \in D : i < j => place[i] # place[j]
    BY <1>5, <1>6 DEF StrictOrderOn
  <2> QED
    BY <1>1, <2>1
<1>9. r \in Seq(T) /\ Len(r) = Len(s) /\ DOMAIN r = D
  <2>1. \A i \in D : s[place[i]] \in T
    BY <1>6
  <2> QED
    BY <1>1, <1>7, <2>1
<1>10. ASSUME NEW i \in D, NEW j \in D, i < j
       PROVE  <<r[j], r[i]>> \notin R
  <2> DEFINE a == place[i]
             b == place[j]
  <2>1. a \in D /\ b \in D /\ <<a, b>> \in Q /\ r[i] = s[a] /\ r[j] = s[b]
    BY <1>6, <1>7, <1>10
  <2> HIDE DEF a, b
  <2> QED
    BY <1>3, <1>4, <2>1 DEF WeakOrderOn
<1>11. ToSet(r) = ToSet(s)
  <2>1. ToSet(r) = {r[i] : i \in D} /\ ToSet(s) = {s[i] : i \in D}
    BY <1>9 DEF ToSet
  <2>2. ASSUME NEW i \in D
        PROVE  r[i] \in ToSet(s)
    BY <1>6, <1>7, <2>1
  <2>3. ASSUME NEW x \in D
        PROVE  s[x] \in ToSet(r)
    BY <1>6, <1>7, <2>1
  <2> QED
    BY <2>1, <2>2, <2>3
<1>12. \A i \in D : r[i] = s[place[i]]
  BY <1>7
<1>13. Rearranged(s, r)
  BY <1>6, <1>8, <1>12 DEF Rearranged
<1> QED
  BY <1>9, <1>10, <1>11, <1>13 DEF r

(* A sum over places does not depend on their order.                       *)
LEMMA SumReindexed ==
    ASSUME NEW D, IsFiniteSet(D), NEW S, IsFiniteSet(S), NEW f, \A x \in S : f[x] \in Int,
           NEW place \in [D -> S], \A i, j \in D : i # j => place[i] # place[j],
           \A x \in S : \E i \in D : place[i] = x,
           NEW g, \A i \in D : g[i] = f[place[i]]
    PROVE  SumFunctionOnSet(g, D) = SumFunctionOnSet(f, S)
<1> DEFINE Image(T) == {place[i] : i \in T}
           Good == {T \in SUBSET D : SumFunctionOnSet(g, T) = SumFunctionOnSet(f, Image(T))}
<1>1. {} \in Good
  <2>1. Image({}) = {}
    OBVIOUS
  <2> QED
    BY <2>1, SumPick, FS_EmptySet
<1>2. ASSUME NEW T \in SUBSET D, NEW x \in D, x \notin T, T \in Good
      PROVE  T \cup {x} \in Good
  <2> DEFINE U == Image(T)
  <2>1. U \in SUBSET S /\ place[x] \in S /\ place[x] \notin U
    BY <1>2
  <2>2. Image(T \cup {x}) = U \cup {place[x]}
    OBVIOUS
  <2>3. IsFiniteSet(T) /\ IsFiniteSet(U)
    BY <2>1, FS_Subset
  <2> HIDE DEF U
  <2>4. SumFunctionOnSet(f, U \cup {place[x]}) = f[place[x]] + SumFunctionOnSet(f, U)
    <3>1. \A y \in U \cup {place[x]} : f[y] \in Int
      BY <2>1
    <3> QED
      BY <2>1, <2>3, <3>1, SumAddElement
  <2>5. SumFunctionOnSet(g, T \cup {x}) = g[x] + SumFunctionOnSet(g, T)
    <3>1. \A y \in T \cup {x} : g[y] \in Int
      OBVIOUS
    <3> QED
      BY <1>2, <2>3, <3>1, SumAddElement
  <2>6. SumFunctionOnSet(g, T) = SumFunctionOnSet(f, U)
    BY <1>2 DEF U
  <2> QED
    BY <2>2, <2>4, <2>5, <2>6
<1>3. D \in Good
  <2> HIDE DEF Good
  <2> QED
    BY <1>1, <1>2, FiniteSetInduction
<1>4. Image(D) = S
  OBVIOUS
<1> QED
  BY <1>3, <1>4

(* Of a list that falls, the first m terms are the largest sum of m terms. *)
LEMMA LargestSum ==
    ASSUME NEW n \in Nat, NEW f, \A i \in 1 .. n : f[i] \in Int,
           \A i, j \in 1 .. n : i < j => f[i] >= f[j],
           NEW I \in SUBSET (1 .. n)
    PROVE  /\ IsFiniteSet(I) /\ Cardinality(I) \in 0 .. n
           /\ SumFunctionOnSet(f, I) <= SumFunctionOnSet(f, 1 .. Cardinality(I))
<1> DEFINE Sum(J) == SumFunctionOnSet(f, J)
           Good == {m \in Nat : \A J \in SUBSET (1 .. n) : Cardinality(J) = m => Sum(J) <= Sum(1 .. m)}
<1>1. IsFiniteSet(1 .. n) /\ \A x \in 0 .. n : IsFiniteSet(1 .. x) /\ Cardinality(1 .. x) = x
  BY FS_Interval
<1>2. \A x \in 0 .. n : \A J \in SUBSET (1 .. x) :
          J \in SUBSET (1 .. n) /\ IsFiniteSet(J) /\ Cardinality(J) \in Nat /\ Cardinality(J) <= x
  <2> TAKE x \in 0 .. n
  <2> TAKE J \in SUBSET (1 .. x)
  <2>1. IsFiniteSet(J) /\ Cardinality(J) \in Nat /\ Cardinality(J) <= Cardinality(1 .. x)
    BY <1>1, FS_Subset, FS_CardinalityType
  <2> QED
    BY <1>1, <2>1
<1>3. \A J \in SUBSET (1 .. n) : Sum(J) \in Int /\ \A x \in J : Sum(J) = f[x] + Sum(J \ {x})
  BY <1>1, FS_Subset, SumWithout
<1> HIDE DEF Sum
<1>4. 0 \in Good
  <2> SUFFICES ASSUME NEW J \in SUBSET (1 .. n), Cardinality(J) = 0
               PROVE  Sum(J) <= Sum(1 .. 0)
    OBVIOUS
  <2>1. J = {}
    <3>1. IsFiniteSet(J)
      BY <1>1, FS_Subset
    <3> QED
      BY <3>1, FS_EmptySet
  <2>2. 1 .. 0 = {}
    OBVIOUS
  <2> QED
    BY <1>3, <2>1, <2>2
<1>5. ASSUME NEW m \in Nat, m \in Good
      PROVE  m + 1 \in Good
  <2> SUFFICES ASSUME NEW J \in SUBSET (1 .. n), Cardinality(J) = m + 1
               PROVE  Sum(J) <= Sum(1 .. m + 1)
    OBVIOUS
  <2>1. IsFiniteSet(J) /\ J # {} /\ J \in SUBSET Int /\ m + 1 <= n
    BY <1>1, <1>2, FS_EmptySet
  <2> DEFINE x == Max(J)
             K == J \ {x}
  <2>2. x \in J /\ \A y \in J : y <= x
    BY <2>1, MaximumExists
  <2> HIDE DEF x
  <2>3. x >= m + 1 /\ x \in 1 .. n
    <3>2. x \in 1 .. n
      BY <2>2
    <3>1. J \in SUBSET (1 .. x) /\ x \in 0 .. n
      BY <2>2, <3>2
    <3> QED
      BY <1>2, <3>1, <3>2
  <2>4. K \in SUBSET (1 .. n) /\ Cardinality(K) = m
    <3>1. Cardinality(K) = Cardinality(J) - 1
      BY <2>1, <2>2, FS_RemoveElement
    <3>2. K \in SUBSET (1 .. n)
      OBVIOUS
    <3> HIDE DEF K
    <3> QED
      BY <3>1, <3>2
  <2>5. Sum(K) <= Sum(1 .. m)
    BY <1>5, <2>4
  <2>6. Sum(J) = f[x] + Sum(K)
    BY <1>3, <2>2
  <2>7. Sum(1 .. m + 1) = Sum(1 .. m) + f[m + 1] /\ Sum(1 .. m) \in Int
    <3>1. m + 1 \in 1 .. m + 1 /\ (1 .. m + 1) \ {m + 1} = 1 .. m
          /\ 1 .. m + 1 \in SUBSET (1 .. n) /\ 1 .. m \in SUBSET (1 .. n)
      BY <2>1
    <3>2. Sum(1 .. m + 1) = f[m + 1] + Sum(1 .. m)
      BY <1>3, <3>1
    <3> QED
      BY <1>3, <2>1, <3>1, <3>2
  <2>8. f[x] <= f[m + 1] /\ f[x] \in Int /\ f[m + 1] \in Int /\ Sum(K) \in Int
    BY <1>3, <2>1, <2>3, <2>4
  <2> QED
    BY <2>5, <2>6, <2>7, <2>8
<1>6. Nat \subseteq Good
  <2> HIDE DEF Good
  <2> QED
    BY <1>4, <1>5, NatSetInduction
<1>7. Cardinality(I) \in 0 .. n /\ IsFiniteSet(I)
  <2>1. I \in SUBSET (1 .. n) /\ n \in 0 .. n
    OBVIOUS
  <2> QED
    BY <1>2, <2>1
<1>8. Sum(I) <= Sum(1 .. Cardinality(I))
  BY <1>6, <1>7
<1> QED
  BY <1>7, <1>8 DEF Sum

(* list.remove() of an element that is there once.                         *)
LEMMA RemoveFirstExact ==
    ASSUME NEW T, NEW s \in Seq(T), NEW p \in DOMAIN s, \A q \in DOMAIN s : s[q] = s[p] => q = p
    PROVE  LET r == RemoveFirst(s, s[p]) IN
           /\ r \in Seq(T) /\ Len(r) = Len(s) - 1
           /\ \A i \in 1 .. Len(s) - 1 : r[i] = IF i < p THEN s[i] ELSE s[i + 1]
<1> DEFINE n == Len(s)
           a == SubSeq(s, 1, p - 1)
           b == SubSeq(s, p + 1, n)
<1>1. n \in Nat /\ DOMAIN s = 1 .. n /\ p \in 1 .. n
  OBVIOUS
<1>2. RemoveFirst(s, s[p]) = RemoveAt(s, p)
  <2> DEFINE I == {i \in 1 .. n : s[i] = s[p]}
  <2>1. I = {p}
    BY <1>1
  <2>2. Min({p}) = p
    <3>1. \A x \in {p} : (\A y \in {p} : x <= y) <=> x = p
      BY <1>1
    <3> QED
      BY <3>1 DEF Min
  <2>3. SelectInSeq(s, LAMBDA v : v = s[p]) = p
    BY <2>1, <2>2 DEF SelectInSeq
  <2>4. \E i \in 1 .. n : s[i] = s[p]
    BY <1>1
  <2> QED
    BY <2>3, <2>4 DEF RemoveFirst
<1>3. RemoveAt(s, p) = a \o b
  BY DEF RemoveAt
<1>4. a \in Seq(T) /\ Len(a) = p - 1 /\ \A i \in 1 .. p - 1 : a[i] = s[i]
  BY <1>1
<1>5. b \in Seq(T) /\ Len(b) = n - p /\ \A i \in 1 .. n - p : b[i] = s[p + i]
  BY <1>1
<1> HIDE DEF a, b
<1>6. a \o b \in Seq(T) /\ Len(a \o b) = n - 1
  <2>1. a \o b \in Seq(T) /\ Len(a \o b) = Len(a) + Len(b)
    BY <1>4, <1>5, ConcatProperties
  <2>2. (p - 1) + (n - p) = n - 1
    BY <1>1
  <2> QED
    BY <1>4, <1>5, <2>1, <2>2
<1>7. ASSUME NEW i \in 1 .. n - 1
      PROVE  (a \o b)[i] = IF i < p THEN s[i] ELSE s[i + 1]
  <2>1. CASE i < p
    BY <1>1, <1>4, <1>5, <2>1
  <2>2. CASE ~(i < p)
    <3>4. i \in Nat /\ i > p - 1 /\ i <= n - 1 /\ p - 1 \in Nat
      <4> HIDE DEF n
      <4> QED
        BY <1>1, <2>2
    <3>5. i - (p - 1) \in 1 .. n - p
      <4> HIDE DEF n
      <4> QED
        BY <1>1, <3>4
    <3>1. (a \o b)[i] = b[i - (p - 1)] /\ i - (p - 1) \in 1 .. n - p
      <4>1. i \in 1 .. Len(a) + Len(b) /\ ~(i <= Len(a))
        BY <1>1, <1>4, <1>5, <3>4
      <4>2. (a \o b)[i] = IF i <= Len(a) THEN a[i] ELSE b[i - Len(a)]
        BY <1>4, <1>5, <4>1, ConcatProperties
      <4> HIDE DEF n
      <4> QED
        BY <1>4, <3>5, <4>1, <4>2
    <3>2. p + (i - (p - 1)) = i + 1
      BY <1>1
    <3>3. b[i - (p - 1)] = s[p + (i - (p - 1))]
      BY <1>5, <3>1
    <3> QED
      BY <2>2, <3>1, <3>2, <3>3
  <2> QED
    BY <2>1, <2>2
<1> QED
  BY <1>2, <1>3, <1>6, <1>7

(* What is not there is not removed.                                       *)
LEMMA RemoveFirstAbsent ==
    ASSUME NEW T, NEW s \in Seq(T), NEW e, e \notin ToSet(s)
    PROVE  RemoveFirst(s, e) = s
  BY DEF RemoveFirst, ToSet

(* Two lists one after the other have the elements of both.                *)
LEMMA ConcatToSet ==
    ASSUME NEW T, NEW s \in Seq(T), NEW t \in Seq(T)
    PROVE  s \o t \in Seq(T) /\ ToSet(s \o t) = ToSet(s) \cup ToSet(t)
<1> DEFINE m == Len(s)
           n == Len(t)
           r == s \o t
<1>1. /\ r \in Seq(T) /\ Len(r) = m + n
      /\ \A i \in 1 .. m + n : r[i] = IF i <= m THEN s[i] ELSE t[i - m]
  BY ConcatProperties
<1>2. m \in Nat /\ n \in Nat /\ DOMAIN s = 1 .. m /\ DOMAIN t = 1 .. n
  OBVIOUS
<1> HIDE DEF r, m, n
<1>3. DOMAIN r = 1 .. m + n
  BY <1>1
<1>4. \A i \in 1 .. m + n : IF i <= m THEN i \in 1 .. m ELSE i - m \in 1 .. n
  BY <1>2
<1>5. \A i \in 1 .. m : i \in 1 .. m + n /\ i <= m
  BY <1>2
<1>6. \A i \in 1 .. n : i + m \in 1 .. m + n /\ ~(i + m <= m) /\ (i + m) - m = i
  BY <1>2
<1>7. \A i \in 1 .. m + n : r[i] \in ToSet(s) \cup ToSet(t)
  BY <1>1, <1>2, <1>4 DEF ToSet
<1>8. \A i \in 1 .. m : s[i] \in ToSet(r)
  <2> TAKE i \in 1 .. m
  <2>1. r[i] = s[i]
    BY <1>1, <1>5
  <2> QED
    BY <1>3, <1>5, <2>1 DEF ToSet
<1>9. \A i \in 1 .. n : t[i] \in ToSet(r)
  <2> TAKE i \in 1 .. n
  <2>1. r[i + m] = t[i]
    BY <1>1, <1>6
  <2> QED
    BY <1>3, <1>6, <2>1 DEF ToSet
<1>10. \A x \in ToSet(r) : x \in ToSet(s) \cup ToSet(t)
  BY <1>3, <1>7 DEF ToSet
<1>11. \A x \in ToSet(s) \cup ToSet(t) : x \in ToSet(r)
  BY <1>2, <1>8, <1>9 DEF ToSet
<1> QED
  BY <1>1, <1>10, <1>11 DEF r
-----------------------------------------------------------------------------
(* The partial results of FlattenSeq().                                    *)
IsFlattening(g, lists) ==
    g = [i \in 1 .. Len(lists) |-> IF i = 1 THEN lists[i] ELSE g[i - 1] \o lists[i]]

LEMMA FlattenIsRecursive ==
    ASSUME NEW lists, Len(lists) # 0
    PROVE  FlattenSeq(lists) = (CHOOSE g : IsFlattening(g, lists))[Len(lists)]
  BY Zenon DEF FlattenSeq, IsFlattening

(* The recursion of FlattenSeq() is well-founded: its function exists.     *)
LEMMA FlatteningExists ==
    ASSUME NEW T, NEW lists \in Seq(Seq(T))
    PROVE  \E g : IsFlattening(g, lists)
<1> DEFINE n == Len(lists)
           Fine(g, m) == \A i \in 1 .. m : g[i] = IF i = 1 THEN lists[i] ELSE g[i - 1] \o lists[i]
           IsPartial(g, m) == g = [i \in 1 .. m |-> g[i]]
           Good == {m \in Nat : \E g : IsPartial(g, m) /\ Fine(g, m)}
<1>1. n \in Nat
  OBVIOUS
<1>2. 0 \in Good
  <2> DEFINE g == [i \in 1 .. 0 |-> 0]
  <2>1. g = [i \in 1 .. 0 |-> g[i]] /\ Fine(g, 0)
    OBVIOUS
  <2> QED
    BY <2>1
<1>3. ASSUME NEW m \in Nat, m \in Good
      PROVE  m + 1 \in Good
  <2>1. PICK g : g = [i \in 1 .. m |-> g[i]] /\ Fine(g, m)
    BY <1>3
  <2> DEFINE last == IF m + 1 = 1 THEN lists[m + 1] ELSE g[m] \o lists[m + 1]
             h == [i \in 1 .. m + 1 |-> IF i = m + 1 THEN last ELSE g[i]]
  <2> HIDE DEF last
  <2>2. \A i \in 1 .. m : i # m + 1 /\ i \in 1 .. m + 1
    OBVIOUS
  <2>3. (\A i \in 1 .. m : h[i] = g[i]) /\ h[m + 1] = last /\ h = [i \in 1 .. m + 1 |-> h[i]]
    BY <2>2
  <2> HIDE DEF h
  <2>4. Fine(h, m + 1)
    <3> TAKE i \in 1 .. m + 1
    <3>1. CASE i = m + 1
      <4>1. CASE m + 1 = 1
        BY <2>3, <3>1, <4>1 DEF last
      <4>2. CASE m + 1 # 1
        <5>1. m \in 1 .. m /\ (m + 1) - 1 = m
          BY <4>2
        <5> QED
          BY <2>3, <3>1, <4>2, <5>1 DEF last
      <4> QED
        BY <4>1, <4>2
    <3>2. CASE i # m + 1
      <4>1. i \in 1 .. m /\ (i # 1 => i - 1 \in 1 .. m)
        BY <3>2
      <4> QED
        BY <2>1, <2>3, <4>1
    <3> QED
      BY <3>1, <3>2
  <2>5. IsPartial(h, m + 1)
    BY <2>3
  <2> HIDE DEF Fine, IsPartial
  <2> QED
    BY <2>4, <2>5
<1>4. n \in Good
  <2> HIDE DEF Good
  <2> QED
    BY <1>1, <1>2, <1>3, NatSetInduction
<1>5. PICK g : g = [i \in 1 .. n |-> g[i]] /\ Fine(g, n)
  BY <1>4
<1>6. g = [i \in 1 .. n |-> IF i = 1 THEN lists[i] ELSE g[i - 1] \o lists[i]]
  BY <1>5
<1> QED
  BY <1>6 DEF IsFlattening

(* All lists one after another have the elements of all of them.           *)
LEMMA FlattenExact ==
    ASSUME NEW T, NEW lists \in Seq(Seq(T))
    PROVE  /\ FlattenSeq(lists) \in Seq(T)
           /\ ToSet(FlattenSeq(lists)) = UNION {ToSet(lists[i]) : i \in DOMAIN lists}
<1> DEFINE n == Len(lists)
           g == CHOOSE g : IsFlattening(g, lists)
           All(m) == UNION {ToSet(lists[i]) : i \in 1 .. m}
           Good == {m \in Nat : m \in 1 .. n => g[m] \in Seq(T) /\ ToSet(g[m]) = All(m)}
<1>1. n \in Nat /\ DOMAIN lists = 1 .. n /\ \A i \in 1 .. n : lists[i] \in Seq(T)
  OBVIOUS
<1>2. CASE n = 0
  <2>1. FlattenSeq(lists) = lists /\ DOMAIN lists = {} /\ lists = <<>>
    BY <1>1, <1>2 DEF FlattenSeq
  <2> QED
    BY <2>1 DEF ToSet
<1>3. CASE n # 0
  <2>1. IsFlattening(g, lists)
    BY FlatteningExists
  <2> HIDE DEF g
  <2>2. g = [i \in 1 .. n |-> IF i = 1 THEN lists[i] ELSE g[i - 1] \o lists[i]]
    BY <2>1 DEF IsFlattening
  <2> HIDE DEF n
  <2>3. \A i \in 1 .. n : g[i] = IF i = 1 THEN lists[i] ELSE g[i - 1] \o lists[i]
    BY <2>2
  <2>4. 0 \in Good
    OBVIOUS
  <2>5. ASSUME NEW m \in Nat, m \in Good
        PROVE  m + 1 \in Good
    <3> SUFFICES ASSUME m + 1 \in 1 .. n
                 PROVE  g[m + 1] \in Seq(T) /\ ToSet(g[m + 1]) = All(m + 1)
      OBVIOUS
    <3>1. CASE m = 0
      <4>1. g[m + 1] = lists[1] /\ m + 1 = 1 /\ 1 \in 1 .. n /\ 1 .. 1 = {1}
        BY <2>3, <3>1
      <4>2. All(m + 1) = ToSet(lists[1])
        BY <4>1
      <4> QED
        BY <1>1, <4>1, <4>2
    <3>2. CASE m # 0
      <4>1. m \in 1 .. n /\ m + 1 # 1 /\ (m + 1) - 1 = m
        BY <1>1, <3>2
      <4>2. g[m + 1] = g[m] \o lists[m + 1]
        BY <2>3, <4>1
      <4>3. g[m] \in Seq(T) /\ ToSet(g[m]) = All(m) /\ lists[m + 1] \in Seq(T)
        BY <1>1, <2>5, <4>1
      <4>4. 1 .. m + 1 = (1 .. m) \cup {m + 1}
        OBVIOUS
      <4>5. All(m + 1) = All(m) \cup ToSet(lists[m + 1])
        BY <4>4
      <4> HIDE DEF All
      <4>6. g[m + 1] \in Seq(T) /\ ToSet(g[m + 1]) = ToSet(g[m]) \cup ToSet(lists[m + 1])
        BY <4>2, <4>3, ConcatToSet
      <4> QED
        BY <4>3, <4>5, <4>6
    <3> QED
      BY <3>1, <3>2
  <2>6. n \in Good
    <3> HIDE DEF Good
    <3> QED
      BY <1>1, <2>4, <2>5, NatSetInduction
  <2>7. n \in 1 .. n
    BY <1>1, <1>3
  <2>8. FlattenSeq(lists) = g[n]
    BY <1>3, FlattenIsRecursive DEF g, n
  <2>9. All(n) = UNION {ToSet(lists[i]) : i \in DOMAIN lists}
    BY <1>1
  <2> QED
    BY <2>6, <2>7, <2>8, <2>9
<1> QED
  BY <1>2, <1>3

(* Images of finite sets are finite.                                       *)
LEMMA ImageFinite ==
    ASSUME NEW S, IsFiniteSet(S), NEW f
    PROVE  IsFiniteSet({f[x] : x \in S})
<1> DEFINE T == {f[x] : x \in S}
           g == [x \in S |-> f[x]]
<1>1. g \in Surjection(S, T)
  BY DEF Surjection
<1> HIDE DEF g, T
<1>2. IsFiniteSet(T)
  BY <1>1, FS_Surjection
<1> QED
  BY <1>2 DEF T

(* What is a maximum is the maximum.                                       *)
LEMMA MaximumIs ==
    ASSUME NEW S \in SUBSET Int, NEW m \in S, \A y \in S : y <= m
    PROVE  Max(S) = m
<1>1. \A x \in S : (\A y \in S : x >= y) <=> x = m
  OBVIOUS
<1> QED
  BY <1>1 DEF Max

(* The minimum of two numbers.                                             *)
LEMMA MinimumOfTwo ==
    ASSUME NEW a \in Int, NEW b \in Int
    PROVE  Min({a, b}) = IF a <= b THEN a ELSE b
<1>1. PICK m : m = IF a <= b THEN a ELSE b
  OBVIOUS
<1>2. \A x \in {a, b} : (\A y \in {a, b} : x <= y) <=> x = m
  BY <1>1
<1>3. m \in {a, b}
  BY <1>1
<1> QED
  BY <1>1, <1>2, <1>3 DEF Min

LEMMA SumIsOverDomain ==
    ASSUME NEW f
    PROVE  SumFunction(f) = SumFunctionOnSet(f, DOMAIN f)
  BY DEF SumFunction

(* Zeros add up to zero.                                                   *)
LEMMA ZeroSum ==
    ASSUME NEW S, IsFiniteSet(S), NEW f, \A x \in S : f[x] = 0
    PROVE  SumFunctionOnSet(f, S) = 0
<1> DEFINE Good == {T \in SUBSET S : SumFunctionOnSet(f, T) = 0}
<1>1. {} \in Good
  BY SumPick, FS_EmptySet
<1>2. ASSUME NEW T \in SUBSET S, NEW x \in S, x \notin T, T \in Good
      PROVE  T \cup {x} \in Good
  <2>1. IsFiniteSet(T) /\ \A y \in T \cup {x} : f[y] \in Int
    BY FS_Subset
  <2>2. SumFunctionOnSet(f, T \cup {x}) = f[x] + SumFunctionOnSet(f, T)
    BY <1>2, <2>1, SumAddElement
  <2> QED
    BY <1>2, <2>2
<1>3. S \in Good
  <2> HIDE DEF Good
  <2> QED
    BY <1>1, <1>2, FiniteSetInduction
<1> QED
  BY <1>3

(* The minimum of numbers.                                                 *)
LEMMA MinimumExists ==
    ASSUME NEW S \in SUBSET Nat, S # {}
    PROVE  Min(S) \in S /\ \A y \in S : Min(S) <= y
<1>1. \E n \in S : \A m \in S : n <= m
  BY NatMinimum
<1> QED
  BY <1>1 DEF Min

(* What is a minimum is the minimum.                                       *)
LEMMA MinimumIs ==
    ASSUME NEW S \in SUBSET Int, NEW m \in S, \A y \in S : m <= y
    PROVE  Min(S) = m
<1>1. ASSUME NEW x \in S, \A y \in S : x <= y
      PROVE  x = m
  <2>1. x <= m /\ m <= x /\ x \in Int /\ m \in Int
    BY <1>1
  <2> QED
    BY <2>1
<1> QED
  BY <1>1 DEF Min

(* Sets that have no element in common are together as many as their       *)
(* elements.                                                               *)
LEMMA DisjointSum ==
    ASSUME NEW E, IsFiniteSet(E), NEW D, IsFiniteSet(D), NEW A \in [E -> SUBSET D],
           \A x, y \in E : x # y => A[x] \cap A[y] = {},
           NEW f, \A x \in E : f[x] = Cardinality(A[x])
    PROVE  SumFunctionOnSet(f, E) = Cardinality(UNION {A[x] : x \in E})
<1> DEFINE All(T) == UNION {A[x] : x \in T}
           Good == {T \in SUBSET E : SumFunctionOnSet(f, T) = Cardinality(All(T))}
<1>1. {} \in Good
  <2>1. SumFunctionOnSet(f, {}) = 0 /\ Cardinality({}) = 0
    BY SumPick, FS_EmptySet
  <2>2. All({}) = {}
    OBVIOUS
  <2> QED
    BY <2>1, <2>2
<1>2. \A x \in E : A[x] \in SUBSET D /\ IsFiniteSet(A[x]) /\ f[x] \in Int
  BY FS_Subset, FS_CardinalityType
<1>3. ASSUME NEW T \in SUBSET E, NEW x \in E, x \notin T, T \in Good
      PROVE  T \cup {x} \in Good
  <2>1. All(T) \in SUBSET D /\ IsFiniteSet(T)
    BY <1>2, FS_Subset
  <2>2. IsFiniteSet(All(T)) /\ All(T) \cap A[x] = {}
    BY <1>3, <2>1, FS_Subset
  <2>3. All(T \cup {x}) = All(T) \cup A[x]
    OBVIOUS
  <2> HIDE DEF All
  <2>4. Cardinality(All(T) \cup A[x]) = Cardinality(All(T)) + Cardinality(A[x]) - Cardinality({})
    <3>1. PICK U, V : U = All(T) /\ V = A[x]
      OBVIOUS
    <3>2. Cardinality(U \cup V) = Cardinality(U) + Cardinality(V) - Cardinality(U \cap V)
      BY <1>2, <2>2, <3>1, FS_Union
    <3> QED
      BY <2>2, <3>1, <3>2
  <2>5. Cardinality(All(T)) \in Int /\ Cardinality(A[x]) \in Int /\ Cardinality({}) = 0
    BY <1>2, <2>2, FS_CardinalityType, FS_EmptySet
  <2>6. SumFunctionOnSet(f, T \cup {x}) = f[x] + SumFunctionOnSet(f, T)
    BY <1>2, <1>3, <2>1, SumAddElement
  <2>7. SumFunctionOnSet(f, T) = Cardinality(All(T)) /\ f[x] = Cardinality(A[x])
    BY <1>3
  <2>8. SumFunctionOnSet(f, T \cup {x}) = Cardinality(All(T \cup {x}))
    <3>1. Cardinality(All(T \cup {x})) = Cardinality(All(T)) + Cardinality(A[x]) - Cardinality({})
      BY <2>3, <2>4, Zenon
    <3>2. SumFunctionOnSet(f, T \cup {x}) = Cardinality(A[x]) + Cardinality(All(T))
      BY <2>6, <2>7, Zenon
    <3> QED
      BY <2>5, <3>1, <3>2
  <2> QED
    BY <2>8
<1>4. E \in Good
  <2> HIDE DEF Good
  <2> QED
    BY <1>1, <1>3, FiniteSetInduction
<1> QED
  BY <1>4

(* An image has no more elements.                                          *)
LEMMA ImageCounted ==
    ASSUME NEW S, IsFiniteSet(S), NEW f
    PROVE  LET T == {f[x] : x \in S} IN
           IsFiniteSet(T) /\ Cardinality(T) <= Cardinality(S)
<1> DEFINE T == {f[x] : x \in S}
           g == [x \in S |-> f[x]]
<1>1. g \in Surjection(S, T)
  BY DEF Surjection
<1> HIDE DEF g, T
<1>2. IsFiniteSet(T) /\ Cardinality(T) <= Cardinality(S)
  BY <1>1, FS_Surjection
<1> QED
  BY <1>2 DEF T

(* An image that tells all elements apart has as many.                     *)
LEMMA InjectiveImage ==
    ASSUME NEW S, IsFiniteSet(S), NEW f, \A x, y \in S : f[x] = f[y] => x = y,
           NEW T, T = {f[x] : x \in S}
    PROVE  Cardinality(T) = Cardinality(S)
<1>1. PICK g : g = [x \in S |-> f[x]]
  OBVIOUS
<1>2. g \in Surjection(S, T)
  BY <1>1 DEF Surjection
<1>3. g \in Injection(S, T)
  BY <1>1 DEF Injection, IsInjective
<1> QED
  BY <1>2, <1>3, FS_Surjection

(* The function by which a product over a set is defined.                  *)
IsProduct(g, k, S) ==
    g = [s \in SUBSET S |-> IF s = {} THEN 1 ELSE g[s \ {Pick(s)}] * k[Pick(s)]]

(* The recursion of a product is well-founded.                             *)
LEMMA ProductExists ==
    ASSUME NEW S, IsFiniteSet(S), NEW k
    PROVE  \E g : IsProduct(g, k, S)
<1> DEFINE Step(g, s) == IF s = {} THEN 1 ELSE g[s \ {Pick(s)}] * k[Pick(s)]
           UpTo(g, n) == \A s \in SUBSET S : Cardinality(s) <= n => g[s] = Step(g, s)
           Levels == {n \in Nat : \E g : UpTo(g, n)}
<1>1. \A T \in SUBSET S : /\ IsFiniteSet(T) /\ Cardinality(T) \in Nat
                          /\ Cardinality(T) = 0 => T = {}
                          /\ T # {} => Cardinality(T \ {Pick(T)}) = Cardinality(T) - 1
  BY FS_Subset, FS_CardinalityType, FS_EmptySet, FS_RemoveElement, PickInSet
<1>2. 0 \in Levels
  <2> DEFINE g == [s \in SUBSET S |-> 1]
  <2>1. ASSUME NEW s \in SUBSET S, Cardinality(s) <= 0
        PROVE  g[s] = Step(g, s)
    <3>1. Cardinality(s) \in Nat /\ (Cardinality(s) = 0 => s = {})
      BY <1>1
    <3>2. Cardinality(s) = 0
      BY <2>1, <3>1
    <3> QED
      BY <3>1, <3>2
  <2>2. UpTo(g, 0)
    BY <2>1
  <2> QED
    BY <2>2
<1>3. ASSUME NEW n \in Nat, n \in Levels
      PROVE  n + 1 \in Levels
  <2>1. PICK g : UpTo(g, n)
    BY <1>3
  <2> DEFINE h == [s \in SUBSET S |-> IF Cardinality(s) <= n THEN g[s] ELSE Step(g, s)]
  <2>2. ASSUME NEW s \in SUBSET S, Cardinality(s) <= n + 1
        PROVE  h[s] = Step(h, s)
    <3>1. s # {} => /\ s \ {Pick(s)} \in SUBSET S
                    /\ Cardinality(s \ {Pick(s)}) <= n
                    /\ h[s \ {Pick(s)}] = g[s \ {Pick(s)}]
      BY <1>1, <2>2
    <3>2. h[s] = Step(g, s)
      BY <2>1
    <3> QED
      BY <3>1, <3>2
  <2>3. UpTo(h, n + 1)
    BY <2>2
  <2> HIDE DEF UpTo
  <2> QED
    BY <2>3
<1>4. Cardinality(S) \in Levels
  <2>1. Nat \subseteq Levels
    <3> HIDE DEF Levels
    <3> QED
      BY <1>2, <1>3, NatSetInduction
  <2> QED
    BY <1>1, <2>1
<1>5. PICK g : UpTo(g, Cardinality(S))
  BY <1>4
<1> DEFINE h == [s \in SUBSET S |-> g[s]]
<1>6. ASSUME NEW s \in SUBSET S
      PROVE  g[s] = IF s = {} THEN 1 ELSE h[s \ {Pick(s)}] * k[Pick(s)]
  <2>1. Cardinality(s) <= Cardinality(S)
    BY FS_Subset
  <2> QED
    BY <1>5, <2>1
<1>7. IsProduct(h, k, S)
  BY <1>6 DEF IsProduct
<1> QED
  BY <1>7

(* A product of positive numbers is positive.                              *)
LEMMA ProductPositive ==
    ASSUME NEW S, IsFiniteSet(S), NEW k, \A x \in S : k[x] \in Nat \ {0},
           NEW g, IsProduct(g, k, S)
    PROVE  g[S] \in Nat \ {0}
<1> DEFINE Good == {s \in SUBSET S : g[s] \in Nat \ {0}}
           Levels == {n \in Nat : \A s \in SUBSET S : Cardinality(s) = n => g[s] \in Nat \ {0}}
<1>1. \A s \in SUBSET S : /\ Cardinality(s) \in Nat
                          /\ Cardinality(s) = 0 => s = {}
                          /\ s # {} => /\ s \ {Pick(s)} \in SUBSET S /\ Pick(s) \in S
                                       /\ Cardinality(s \ {Pick(s)}) = Cardinality(s) - 1
  BY FS_Subset, FS_CardinalityType, FS_EmptySet, FS_RemoveElement, PickInSet
<1>2. \A s \in SUBSET S : g[s] = IF s = {} THEN 1 ELSE g[s \ {Pick(s)}] * k[Pick(s)]
  BY DEF IsProduct
<1>3. 0 \in Levels
  <2>1. ASSUME NEW s \in SUBSET S, Cardinality(s) = 0
        PROVE  g[s] \in Nat \ {0}
    <3>1. s = {}
      BY <1>1, <2>1
    <3>2. g[s] = 1
      BY <1>2, <3>1
    <3> QED
      BY <3>2
  <2> QED
    BY <2>1
<1>4. ASSUME NEW n \in Nat, n \in Levels
      PROVE  n + 1 \in Levels
  <2> SUFFICES ASSUME NEW s \in SUBSET S, Cardinality(s) = n + 1
               PROVE  g[s] \in Nat \ {0}
    OBVIOUS
  <2>1. s # {}
    BY FS_EmptySet
  <2>2. PICK a, b : a = g[s \ {Pick(s)}] /\ b = k[Pick(s)]
    OBVIOUS
  <2>3. a \in Nat \ {0} /\ b \in Nat \ {0}
    BY <1>1, <1>4, <2>1, <2>2
  <2>4. a * b \in Nat \ {0}
    BY <2>3
  <2>5. g[s] = a * b
    BY <1>2, <2>1, <2>2
  <2> QED
    BY <2>4, <2>5
<1>5. Nat \subseteq Levels
  <2> HIDE DEF Levels
  <2> QED
    BY <1>3, <1>4, NatSetInduction
<1> QED
  BY <1>1, <1>5
===============================================================================
