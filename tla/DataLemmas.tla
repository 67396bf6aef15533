------------------------------ MODULE DataLemmas ------------------------------
(***************************************************************************)
(* Facts about the data of the other modules that are proved by induction, *)
(* and that say nothing of the program: sums over an interval.  The        *)
(* library states induction with an operator for the property; here the    *)
(* property is a set of numbers, of which the least counterexample is      *)
(* taken.                                                                  *)
(***************************************************************************)
EXTENDS Integers, FiniteSets, Functions, FiniteSetTheorems,
        WellFoundedInduction, TLAPS

\* A set of natural numbers that is not empty has a least element.
LEMMA LeastNumber ==
    ASSUME NEW T \in SUBSET Nat, T # {}
    PROVE  \E m \in T : \A k \in T : m <= k
  <1>1. PICK x \in T : \A y \in T : ~ (<<y, x>> \in OpToRel(<, Nat))
    BY NatLessThanWellFounded, WFMin
  <1>2. \A y \in T : ~ (y < x)
    BY <1>1 DEF OpToRel
  <1> QED
    BY <1>2

\* Induction: a set of numbers that has 0, and with each number the next, has all.
LEMMA NumbersByInduction ==
    ASSUME NEW T, 0 \in T, \A n \in Nat : n \in T => n + 1 \in T
    PROVE  Nat \subseteq T
  <1> SUFFICES ASSUME Nat \ T # {} PROVE FALSE
    OBVIOUS
  <1>1. PICK m \in Nat \ T : \A k \in Nat \ T : m <= k
    BY LeastNumber
  <1>2. m # 0 /\ m - 1 \in Nat
    OBVIOUS
  <1>3. m - 1 \in T
    BY <1>1, <1>2
  <1> QED
    BY <1>2, <1>3

-----------------------------------------------------------------------------
(* Sums.                                                                   *)

\* The element that the sum takes first.
First(s) == CHOOSE x \in s : TRUE

\* The equation of the recursive function that a sum is defined by.
SumsUp(it, f, S, n) ==
    \A s \in SUBSET S : Cardinality(s) <= n =>
        it[s] = IF s = {} THEN 0 ELSE f[First(s)] + it[s \ {First(s)}]

\* Such a function exists, for subsets of any size.
LEMMA SumsExist ==
    ASSUME NEW f, NEW S, IsFiniteSet(S)
    PROVE  \A n \in Nat : \E it : SumsUp(it, f, S, n)
  <1> DEFINE T == {n \in Nat : \E it : SumsUp(it, f, S, n)}
  <1>1. \A s \in SUBSET S : /\ IsFiniteSet(s) /\ Cardinality(s) \in Nat
                            /\ Cardinality(s) <= 0 => s = {}
    BY FS_Subset, FS_CardinalityType, FS_EmptySet
  <1>2. 0 \in T
    <2>1. SumsUp([s \in SUBSET S |-> 0], f, S, 0)
      BY <1>1 DEF SumsUp
    <2> QED
      BY <2>1
  <1>3. ASSUME NEW n \in Nat, n \in T
        PROVE  n + 1 \in T
    <2>1. PICK it : SumsUp(it, f, S, n)
      BY <1>3
    <2> DEFINE next == [s \in SUBSET S |->
                          IF s = {} THEN 0 ELSE f[First(s)] + it[s \ {First(s)}]]
    <2>2. ASSUME NEW s \in SUBSET S, Cardinality(s) <= n + 1, s # {}
          PROVE  next[s \ {First(s)}] = it[s \ {First(s)}]
      <3>1. First(s) \in s
        BY <2>2 DEF First
      <3>2. Cardinality(s \ {First(s)}) = Cardinality(s) - 1
        BY <1>1, <3>1, FS_RemoveElement
      <3>3. Cardinality(s \ {First(s)}) <= n /\ s \ {First(s)} \in SUBSET S
        BY <1>1, <2>2, <3>2
      <3> QED
        BY <2>1, <3>3 DEF SumsUp
    <2>3. SumsUp(next, f, S, n + 1)
      BY <2>2 DEF SumsUp
    <2> QED
      BY <2>3
  <1> HIDE DEF T
  <1>4. Nat \subseteq T
    BY <1>2, <1>3, NumbersByInduction
  <1> QED
    BY <1>4 DEF T

Total(f, S) == SumFunctionOnSet(f, S)

\* What the community definition of a sum comes to, one element at a time.
LEMMA TotalStep ==
    ASSUME NEW f, NEW S, IsFiniteSet(S)
    PROVE  \E it : /\ SumsUp(it, f, S, Cardinality(S))
                   /\ Total(f, S) = it[S]
  <1> DEFINE Body(it) == [s \in SUBSET S |->
                IF s = {} THEN 0 ELSE f[First(s)] + it[s \ {First(s)}]]
             iter == CHOOSE it : it = Body(it)
  <1>1. Total(f, S) = iter[S]
    BY DEF Total, SumFunctionOnSet, FoldFunctionOnSet, MapThenFoldSet, First
  <1>2. PICK it : SumsUp(it, f, S, Cardinality(S))
    BY SumsExist, FS_CardinalityType
  <1>3. \A s \in SUBSET S : Cardinality(s) <= Cardinality(S)
    BY FS_Subset
  <1>4. Body(it) = Body(Body(it))
    <2>1. \A s \in SUBSET S : it[s] = Body(it)[s]
      BY <1>2, <1>3 DEF SumsUp
    <2>2. \A s \in SUBSET S : s \ {First(s)} \in SUBSET S
      OBVIOUS
    <2> QED
      BY <2>1, <2>2
  <1>5. iter = Body(iter)
    BY <1>4
  <1>6. SumsUp(iter, f, S, Cardinality(S))
    BY <1>5 DEF SumsUp
  <1> QED
    BY <1>1, <1>6

\* Two such functions agree where both apply.
LEMMA SumsAgree ==
    ASSUME NEW f, NEW S, IsFiniteSet(S), NEW R \in SUBSET S,
           NEW it, SumsUp(it, f, S, Cardinality(S)),
           NEW jt, SumsUp(jt, f, R, Cardinality(R))
    PROVE  it[R] = jt[R]
  <1> DEFINE T == {n \in Nat : \A s \in SUBSET R : Cardinality(s) <= n => it[s] = jt[s]}
  <1>1. /\ IsFiniteSet(R)
        /\ \A s \in SUBSET R : /\ IsFiniteSet(s) /\ Cardinality(s) \in Nat
                               /\ Cardinality(s) <= Cardinality(R)
                               /\ Cardinality(s) <= Cardinality(S)
                               /\ Cardinality(s) <= 0 => s = {}
    BY FS_Subset, FS_CardinalityType, FS_EmptySet
  <1>2. 0 \in T
    BY <1>1 DEF SumsUp
  <1>3. ASSUME NEW n \in Nat, n \in T
        PROVE  n + 1 \in T
    <2> SUFFICES ASSUME NEW s \in SUBSET R, Cardinality(s) <= n + 1, s # {}
                 PROVE  it[s] = jt[s]
      BY <1>1 DEF SumsUp
    <2>1. First(s) \in s
      BY DEF First
    <2>2. Cardinality(s \ {First(s)}) = Cardinality(s) - 1
      BY <1>1, <2>1, FS_RemoveElement
    <2>3. Cardinality(s \ {First(s)}) <= n
      BY <1>1, <2>2
    <2>4. it[s \ {First(s)}] = jt[s \ {First(s)}]
      BY <1>3, <2>3
    <2> QED
      BY <1>1, <2>4 DEF SumsUp
  <1> HIDE DEF T
  <1>4. Nat \subseteq T
    BY <1>2, <1>3, NumbersByInduction
  <1>5. Cardinality(R) \in Nat
    BY <1>1, FS_CardinalityType
  <1> QED
    BY <1>4, <1>5 DEF T

\* The sum over no element, and over one element more.
LEMMA TotalOfNothing ==
    ASSUME NEW f
    PROVE  Total(f, {}) = 0
  <1>1. IsFiniteSet({}) /\ Cardinality({}) = 0
    BY FS_EmptySet
  <1> QED
    BY <1>1, TotalStep DEF SumsUp

LEMMA TotalOfFirst ==
    ASSUME NEW f, NEW S, IsFiniteSet(S), S # {}
    PROVE  Total(f, S) = f[First(S)] + Total(f, S \ {First(S)})
  <1> DEFINE R == S \ {First(S)}
  <1>1. IsFiniteSet(R) /\ Cardinality(S) \in Nat
    BY FS_Subset, FS_CardinalityType
  <1>2. PICK it : SumsUp(it, f, S, Cardinality(S)) /\ Total(f, S) = it[S]
    BY TotalStep
  <1>3. PICK jt : SumsUp(jt, f, R, Cardinality(R)) /\ Total(f, R) = jt[R]
    BY <1>1, TotalStep
  <1>4. it[R] = jt[R]
    BY <1>2, <1>3, SumsAgree
  <1>5. it[S] = f[First(S)] + it[R]
    BY <1>1, <1>2 DEF SumsUp
  <1> QED
    BY <1>2, <1>3, <1>4, <1>5

\* A sum of natural numbers is one; the order of the elements does not matter.
LEMMA TotalOfAny ==
    ASSUME NEW f, NEW S, IsFiniteSet(S), \A x \in S : f[x] \in Nat
    PROVE  /\ Total(f, S) \in Nat
           /\ \A x \in S : Total(f, S) = f[x] + Total(f, S \ {x})
  <1> DEFINE Holds(s) == /\ Total(f, s) \in Nat
                         /\ \A x \in s : Total(f, s) = f[x] + Total(f, s \ {x})
             T == {n \in Nat : \A s \in SUBSET S : Cardinality(s) <= n => Holds(s)}
  <1>1. \A s \in SUBSET S : /\ IsFiniteSet(s) /\ Cardinality(s) \in Nat
                            /\ Cardinality(s) <= 0 => s = {}
    BY FS_Subset, FS_CardinalityType, FS_EmptySet
  <1>2. \A s \in SUBSET S : \A x \in s : Cardinality(s \ {x}) = Cardinality(s) - 1
    BY <1>1, FS_RemoveElement
  <1>3. 0 \in T
    BY <1>1, TotalOfNothing
  <1>4. ASSUME NEW n \in Nat, n \in T
        PROVE  n + 1 \in T
    <2> SUFFICES ASSUME NEW s \in SUBSET S, Cardinality(s) <= n + 1, s # {}
                 PROVE  Holds(s)
      BY TotalOfNothing
    <2> DEFINE y == First(s)
    <2>1. y \in s /\ f[y] \in Nat
      BY DEF First
    <2>2. Total(f, s) = f[y] + Total(f, s \ {y})
      BY <1>1, TotalOfFirst
    <2>3. \A x \in s : s \ {x} \in SUBSET S /\ Cardinality(s \ {x}) <= n
      BY <1>1, <1>2
    <2>4. \A x \in s : Holds(s \ {x})
      BY <1>4, <2>3
    <2> HIDE DEF y
    <2>5. Total(f, s) \in Nat
      BY <2>1, <2>2, <2>4
    <2>6. ASSUME NEW x \in s, x # y
          PROVE  Total(f, s) = f[x] + Total(f, s \ {x})
      <3>1. (s \ {y}) \ {x} = (s \ {x}) \ {y}
        OBVIOUS
      <3>2. Total(f, s \ {y}) = f[x] + Total(f, (s \ {y}) \ {x})
        BY <2>1, <2>4, <2>6
      <3>3. Total(f, s \ {x}) = f[y] + Total(f, (s \ {x}) \ {y})
        BY <2>1, <2>4, <2>6
      <3>4. Total(f, (s \ {x}) \ {y}) \in Nat /\ f[x] \in Nat
        <4>1. /\ (s \ {x}) \ {y} \in SUBSET S
              /\ Cardinality((s \ {x}) \ {y}) <= n
          <5>1. y \in s \ {x}
            BY <2>1, <2>6
          <5>2. /\ s \ {x} \in SUBSET S /\ Cardinality(s \ {x}) <= n
                /\ Cardinality(s \ {x}) \in Nat
            BY <1>1, <2>3
          <5>3. Cardinality((s \ {x}) \ {y}) = Cardinality(s \ {x}) - 1
            BY <1>2, <5>1, <5>2
          <5> QED
            BY <5>2, <5>3
        <4> QED
          BY <1>4, <4>1
      <3> QED
        BY <2>1, <2>2, <3>1, <3>2, <3>3, <3>4
    <2> QED
      BY <2>2, <2>5, <2>6
  <1> HIDE DEF T
  <1>5. Nat \subseteq T
    BY <1>3, <1>4, NumbersByInduction
  <1>6. Cardinality(S) \in Nat
    BY FS_CardinalityType
  <1> QED
    BY <1>5, <1>6 DEF T

-----------------------------------------------------------------------------
(* Sums over the first n of the numbers from 0.                            *)

Prefix(f, n) == Total(f, 0 .. n - 1)

LEMMA PrefixStep ==
    ASSUME NEW N \in Nat, NEW f, \A k \in 0 .. N - 1 : f[k] \in Nat
    PROVE  /\ Prefix(f, 0) = 0
           /\ \A n \in 0 .. N : Prefix(f, n) \in Nat
           /\ \A n \in 0 .. N - 1 : Prefix(f, n + 1) = Prefix(f, n) + f[n]
  <1>1. Prefix(f, 0) = 0
    BY TotalOfNothing DEF Prefix
  <1>2. ASSUME NEW n \in 0 .. N
        PROVE  Prefix(f, n) \in Nat
    <2>1. IsFiniteSet(0 .. n - 1)
      BY FS_Interval
    <2> QED
      BY <2>1, TotalOfAny DEF Prefix
  <1>3. ASSUME NEW n \in 0 .. N - 1
        PROVE  Prefix(f, n + 1) = Prefix(f, n) + f[n]
    <2>1. IsFiniteSet(0 .. n)
      BY FS_Interval
    <2>2. (0 .. n) \ {n} = 0 .. n - 1 /\ n \in 0 .. n
      OBVIOUS
    <2>3. Total(f, 0 .. n) = f[n] + Total(f, (0 .. n) \ {n})
      BY <2>1, <2>2, TotalOfAny
    <2>4. 0 .. (n + 1) - 1 = 0 .. n
      OBVIOUS
    <2>5. Prefix(f, n + 1) = f[n] + Prefix(f, n)
      BY <2>2, <2>3, <2>4 DEF Prefix
    <2>6. Prefix(f, n) \in Nat /\ f[n] \in Nat
      BY <1>2
    <2> QED
      BY <2>5, <2>6
  <1> QED
    BY <1>1, <1>2, <1>3

\* A sum does not shrink when it is taken over more.
LEMMA PrefixGrows ==
    ASSUME NEW N \in Nat, NEW f, \A k \in 0 .. N - 1 : f[k] \in Nat,
           NEW m \in 0 .. N, NEW n \in m .. N
    PROVE  Prefix(f, m) <= Prefix(f, n)
  <1> DEFINE T == {k \in Nat : m + k <= N => Prefix(f, m) <= Prefix(f, m + k)}
  <1>1. \A k \in 0 .. N : Prefix(f, k) \in Nat
    BY PrefixStep
  <1>2. 0 \in T
    BY <1>1
  <1>3. ASSUME NEW k \in Nat, k \in T
        PROVE  k + 1 \in T
    <2> SUFFICES ASSUME m + (k + 1) <= N
                 PROVE  Prefix(f, m) <= Prefix(f, m + (k + 1))
      OBVIOUS
    <2>1. m + k \in 0 .. N - 1 /\ (m + k) + 1 = m + (k + 1) /\ m + k <= N
      OBVIOUS
    <2>2. Prefix(f, (m + k) + 1) = Prefix(f, m + k) + f[m + k]
      BY <2>1, PrefixStep
    <2>3. f[m + k] \in Nat /\ Prefix(f, m + k) \in Nat /\ Prefix(f, m) \in Nat
      BY <1>1, <2>1
    <2>4. Prefix(f, m) <= Prefix(f, m + k)
      BY <1>3, <2>1
    <2> QED
      BY <2>1, <2>2, <2>3, <2>4
  <1> HIDE DEF T
  <1>4. n - m \in T
    BY <1>2, <1>3, NumbersByInduction
  <1> QED
    BY <1>4 DEF T

\* A function that is another one moved up by one has its sum, one later.
LEMMA PrefixMoved ==
    ASSUME NEW N \in Nat, NEW f, \A k \in 0 .. N - 1 : f[k] \in Nat,
           NEW g, g[0] = 0, \A k \in 1 .. N - 1 : g[k] = f[k - 1],
           NEW n \in 0 .. N - 1
    PROVE  Prefix(g, n + 1) = Prefix(f, n)
  <1> DEFINE T == {k \in Nat : k <= N - 1 => Prefix(g, k + 1) = Prefix(f, k)}
  <1>1. \A k \in 0 .. N - 1 : g[k] \in Nat
    <2> TAKE k \in 0 .. N - 1
    <2>1. CASE k = 0
      BY <2>1
    <2>2. CASE k # 0
      BY <2>2
    <2> QED
      BY <2>1, <2>2
  <1>2. 0 \in T
    <2>1. 0 \in 0 .. N - 1
      OBVIOUS
    <2>2. Prefix(g, 0) = 0 /\ Prefix(f, 0) = 0
      BY <1>1, PrefixStep
    <2>3. Prefix(g, 0 + 1) = Prefix(g, 0) + g[0]
      BY <1>1, <2>1, PrefixStep
    <2> QED
      BY <2>2, <2>3
  <1>3. ASSUME NEW k \in Nat, k \in T
        PROVE  k + 1 \in T
    <2> SUFFICES ASSUME k + 1 <= N - 1
                 PROVE  Prefix(g, (k + 1) + 1) = Prefix(f, k + 1)
      OBVIOUS
    <2>1. k \in 0 .. N - 1 /\ k + 1 \in 1 .. N - 1 /\ k + 1 \in 0 .. N - 1
      OBVIOUS
    <2>2. Prefix(g, (k + 1) + 1) = Prefix(g, k + 1) + g[k + 1]
      BY <1>1, <2>1, PrefixStep
    <2>3. Prefix(f, k + 1) = Prefix(f, k) + f[k]
      BY <2>1, PrefixStep
    <2>4. g[k + 1] = f[k]
      BY <2>1
    <2> QED
      BY <1>3, <2>1, <2>2, <2>3, <2>4
  <1> HIDE DEF T
  <1>4. n \in T
    BY <1>2, <1>3, NumbersByInduction
  <1> QED
    BY <1>4 DEF T

\* One more at 0 is one more in every sum that is not empty.
LEMMA PrefixRaised ==
    ASSUME NEW N \in Nat, NEW f, \A k \in 0 .. N - 1 : f[k] \in Nat,
           NEW g, g[0] = f[0] + 1, \A k \in 1 .. N - 1 : g[k] = f[k],
           NEW n \in 1 .. N
    PROVE  Prefix(g, n) = Prefix(f, n) + 1
  <1> DEFINE T == {k \in Nat : k + 1 <= N => Prefix(g, k + 1) = Prefix(f, k + 1) + 1}
  <1>1. \A k \in 0 .. N - 1 : g[k] \in Nat
    <2> TAKE k \in 0 .. N - 1
    <2>1. CASE k = 0
      BY <2>1
    <2>2. CASE k # 0
      BY <2>2
    <2> QED
      BY <2>1, <2>2
  <1>2. 0 \in T
    <2>1. 0 \in 0 .. N - 1 /\ f[0] \in Nat
      OBVIOUS
    <2>2. Prefix(g, 0) = 0 /\ Prefix(f, 0) = 0
      BY <1>1, PrefixStep
    <2>3. /\ Prefix(g, 0 + 1) = Prefix(g, 0) + g[0]
          /\ Prefix(f, 0 + 1) = Prefix(f, 0) + f[0]
      BY <1>1, <2>1, PrefixStep
    <2> QED
      BY <2>1, <2>2, <2>3
  <1>3. ASSUME NEW k \in Nat, k \in T
        PROVE  k + 1 \in T
    <2> SUFFICES ASSUME (k + 1) + 1 <= N
                 PROVE  Prefix(g, (k + 1) + 1) = Prefix(f, (k + 1) + 1) + 1
      OBVIOUS
    <2>1. k + 1 \in 1 .. N - 1 /\ k + 1 \in 0 .. N - 1 /\ k + 1 \in 0 .. N
      OBVIOUS
    <2>2. /\ Prefix(g, (k + 1) + 1) = Prefix(g, k + 1) + g[k + 1]
          /\ Prefix(f, (k + 1) + 1) = Prefix(f, k + 1) + f[k + 1]
      BY <1>1, <2>1, PrefixStep
    <2>3. Prefix(f, k + 1) \in Nat /\ f[k + 1] \in Nat /\ g[k + 1] = f[k + 1]
      BY <2>1, PrefixStep
    <2> QED
      BY <1>3, <2>1, <2>2, <2>3
  <1> HIDE DEF T
  <1>4. n - 1 \in T
    BY <1>2, <1>3, NumbersByInduction
  <1> QED
    BY <1>4 DEF T

\* Nothing adds up to nothing.
LEMMA PrefixOfZeros ==
    ASSUME NEW N \in Nat, NEW f, \A k \in 0 .. N - 1 : f[k] = 0,
           NEW n \in 0 .. N
    PROVE  Prefix(f, n) = 0
  <1> DEFINE T == {k \in Nat : k <= N => Prefix(f, k) = 0}
  <1>1. \A k \in 0 .. N - 1 : f[k] \in Nat
    OBVIOUS
  <1>2. 0 \in T
    BY <1>1, PrefixStep
  <1>3. ASSUME NEW k \in Nat, k \in T
        PROVE  k + 1 \in T
    <2> SUFFICES ASSUME k + 1 <= N
                 PROVE  Prefix(f, k + 1) = 0
      OBVIOUS
    <2>1. k \in 0 .. N - 1
      OBVIOUS
    <2>2. Prefix(f, k + 1) = Prefix(f, k) + f[k]
      BY <1>1, <2>1, PrefixStep
    <2> QED
      BY <1>3, <2>1, <2>2
  <1> HIDE DEF T
  <1>4. n \in T
    BY <1>2, <1>3, NumbersByInduction
  <1> QED
    BY <1>4 DEF T
=============================================================================
