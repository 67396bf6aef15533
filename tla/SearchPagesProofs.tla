-------------------------- MODULE SearchPagesProofs --------------------------
(***************************************************************************)
(* Proofs about SearchPages, for every finite set of places, every page    *)
(* size and any number of writes in a walk: that a walk lists only what    *)
(* its principal may read, that the links of a page agree with its rows,   *)
(* and that a walk from page 1 misses no key while no row goes away and    *)
(* lists none twice while no row is added.                                 *)
(***************************************************************************)
EXTENDS SearchPages, DataLemmas, FiniteSetTheorems, SequenceTheorems, TLAPS

-----------------------------------------------------------------------------
(* An order of the rows found: ORDER BY key.                               *)

\* Numbers from 1 on without a gap are an interval.
LEMMA WithoutGaps ==
    ASSUME NEW N \in Nat, NEW T \in SUBSET (1 .. N),
           \A i, j \in 1 .. N : i < j /\ j \in T => i \in T
    PROVE  T = 1 .. Cardinality(T)
  <1> DEFINE U == {i \in Nat \ {0} : i \notin T}
  <1>1. N + 1 \in U
    OBVIOUS
  <1>2. PICK m \in U : \A i \in U : m <= i
    <2>1. U \in SUBSET Nat /\ U # {}
      BY <1>1
    <2> QED
      BY <2>1, LeastNumber
  <1>3. m \in Nat \ {0} /\ m \notin T /\ m <= N + 1
    BY <1>1, <1>2
  <1>4. ASSUME NEW i \in 1 .. m - 1
        PROVE  i \in T
    BY <1>2, <1>3
  <1>5. ASSUME NEW i \in T
        PROVE  i \in 1 .. m - 1
    <2>1. i \in 1 .. N
      OBVIOUS
    <2>2. CASE i >= m
      <3>1. m \in 1 .. N /\ m < i
        BY <1>3, <2>1, <2>2
      <3> QED
        BY <1>3, <2>1, <3>1
    <2> QED
      BY <1>3, <2>1, <2>2
  <1>6. T = 1 .. m - 1
    BY <1>4, <1>5
  <1>7. Cardinality(1 .. m - 1) = m - 1
    <2>1. 1 \in Int /\ m - 1 \in Int
      BY <1>3
    <2>2. Cardinality(1 .. m - 1) = IF 1 > m - 1 THEN 0 ELSE m - 1 - 1 + 1
      BY <2>1, FS_Interval
    <2> QED
      BY <1>3, <2>2
  <1> QED
    BY <1>6, <1>7

LEMMA OrderFacts ==
    ASSUME NEW S \in SUBSET Places, NEW s \in Orders(S)
    PROVE  /\ IsFiniteSet(S) /\ Cardinality(S) \in Nat
           /\ s \in Seq(S) /\ s \in Seq(Places) /\ Len(s) = Cardinality(S)
           /\ \A i \in 1 .. Len(s) : s[i] \in S
           /\ \A i, j \in 1 .. Len(s) : i < j => s[i].key <= s[j].key
           /\ s \in Bijection(1 .. Len(s), S)
  <1>1. IsFiniteSet(S) /\ Cardinality(S) \in Nat
    BY PagesAssumption, FS_Subset, FS_CardinalityType
  <1> DEFINE N == Cardinality(S)
  <1>2. /\ s \in [1 .. N -> S]
        /\ \A i, j \in 1 .. N : i # j => s[i] # s[j]
    BY DEF Orders, SetToSeqs
  <1>3. s \in Seq(S) /\ s \in Seq(Places) /\ Len(s) = N
    BY <1>1, <1>2
  <1>4. s \in Bijection(1 .. N, S)
    <2>1. s \in Injection(1 .. N, S)
      BY <1>2 DEF Injection, IsInjective
    <2>2. IsFiniteSet(1 .. N) /\ Cardinality(1 .. N) = N
      <3>1. /\ IsFiniteSet(1 .. N)
            /\ Cardinality(1 .. N) = IF 1 > N THEN 0 ELSE N - 1 + 1
        BY <1>1, FS_Interval
      <3> QED
        BY <1>1, <3>1
    <2>3. s \in Surjection(1 .. N, S)
      BY <1>1, <2>1, <2>2, FS_Injection
    <2> QED
      BY <2>1, <2>3 DEF Bijection
  <1>5. \A i, j \in 1 .. Len(s) : i < j => s[i].key <= s[j].key
    BY DEF Orders
  <1> QED
    BY <1>1, <1>2, <1>3, <1>4, <1>5

\* An order puts as many rows of a kind somewhere as there are.
LEMMA OrderCounts ==
    ASSUME NEW S \in SUBSET Places, NEW s \in Orders(S), NEW R \in SUBSET S
    PROVE  Cardinality({i \in 1 .. Len(s) : s[i] \in R}) = Cardinality(R)
  <1> DEFINE T == {i \in 1 .. Len(s) : s[i] \in R}
             f == [i \in T |-> s[i]]
  <1>1. /\ Len(s) \in Nat
        /\ s \in [1 .. Len(s) -> S]
        /\ \A i, j \in 1 .. Len(s) : s[i] = s[j] => i = j
        /\ \A r \in S : \E i \in 1 .. Len(s) : s[i] = r
    BY OrderFacts DEF Bijection, Injection, IsInjective, Surjection
  <1>2. f \in Bijection(T, R)
    <2>1. f \in [T -> R]
      OBVIOUS
    <2>2. \A i, j \in T : f[i] = f[j] => i = j
      BY <1>1
    <2>3. \A r \in R : \E i \in T : f[i] = r
      BY <1>1
    <2> HIDE DEF f, T
    <2> QED
      BY <2>1, <2>2, <2>3 DEF Bijection, Injection, IsInjective, Surjection
  <1>3. IsFiniteSet(T)
    <2>1. IsFiniteSet(1 .. Len(s))
      BY <1>1, FS_Interval
    <2> QED
      BY <2>1, FS_Subset
  <1> HIDE DEF f, T
  <1>4. ExistsBijection(T, R)
    BY <1>2 DEF ExistsBijection
  <1>5. Cardinality(R) = Cardinality(T)
    BY <1>3, <1>4, FS_Bijection
  <1> QED
    BY <1>5 DEF T

\* The rows of a key follow those of the smaller keys.
LEMMA OrderOfKeys ==
    ASSUME NEW S \in SUBSET Places, NEW s \in Orders(S), NEW k \in Nat
    PROVE  /\ Below(k, S) \in Nat /\ Holding(k, S) \in Nat
           /\ Below(k, S) + Holding(k, S) <= Len(s)
           /\ \A i \in 1 .. Len(s) :
                s[i].key = k <=> Below(k, S) < i /\ i <= Below(k, S) + Holding(k, S)
  <1> DEFINE Less == {p \in S : p.key < k}
             Same == {p \in S : p.key = k}
             Upto == Less \cup Same
             N == Len(s)
  <1>1. /\ IsFiniteSet(S) /\ N \in Nat /\ N = Cardinality(S)
        /\ \A i \in 1 .. N : s[i] \in S
        /\ \A i, j \in 1 .. N : i < j => s[i].key <= s[j].key
    BY OrderFacts
  <1>2. \A p \in S : p.key \in Nat
    BY PagesAssumption
  <1>3. ASSUME NEW R \in SUBSET S,
               \A p, r \in S : p.key <= r.key /\ r \in R => p \in R
        PROVE  \A i \in 1 .. N : s[i] \in R <=> i <= Cardinality(R)
    <2> DEFINE T == {i \in 1 .. N : s[i] \in R}
    <2>1. Cardinality(T) = Cardinality(R)
      BY OrderCounts
    <2>2. T \in SUBSET (1 .. N)
      OBVIOUS
    <2>3. \A i, j \in 1 .. N : i < j /\ j \in T => i \in T
      BY <1>1, <1>3
    <2>4. \A i \in 1 .. N : s[i] \in R <=> i \in T
      OBVIOUS
    <2> HIDE DEF T
    <2>5. T = 1 .. Cardinality(T)
      BY <1>1, <2>2, <2>3, WithoutGaps
    <2>6. Cardinality(R) \in Nat
      BY <1>1, FS_Subset, FS_CardinalityType
    <2> QED
      BY <1>1, <2>1, <2>4, <2>5, <2>6
  <1>4. /\ IsFiniteSet(Less) /\ IsFiniteSet(Same)
        /\ Cardinality(Less) \in Nat /\ Cardinality(Same) \in Nat
    <2>1. IsFiniteSet(Less) /\ IsFiniteSet(Same)
      BY <1>1, FS_Subset
    <2> QED
      BY <2>1, FS_CardinalityType
  <1>5. Cardinality(Upto) = Cardinality(Less) + Cardinality(Same)
    <2>1. Less \cap Same = {}
      BY <1>2
    <2>2. Cardinality(Less \cup Same)
              = Cardinality(Less) + Cardinality(Same) - Cardinality(Less \cap Same)
      BY <1>4, FS_Union
    <2>3. Cardinality(Less \cap Same) = 0
      BY <2>1, FS_EmptySet
    <2> HIDE DEF Less, Same
    <2> QED
      BY <1>4, <2>2, <2>3
  <1>6. Cardinality(Upto) <= N
    BY <1>1, FS_Subset
  <1>7. \A i \in 1 .. N : s[i] \in Less <=> i <= Cardinality(Less)
    <2>1. \A p, r \in S : p.key <= r.key /\ r \in Less => p \in Less
      BY <1>2
    <2> QED
      BY <1>3, <2>1
  <1>8. \A i \in 1 .. N : s[i] \in Upto <=> i <= Cardinality(Upto)
    <2>1. \A p, r \in S : p.key <= r.key /\ r \in Upto => p \in Upto
      BY <1>2
    <2> QED
      BY <1>3, <2>1
  <1>9. \A i \in 1 .. N : s[i].key = k <=> s[i] \in Upto /\ s[i] \notin Less
    BY <1>1, <1>2
  <1>10. Below(k, S) = Cardinality(Less) /\ Holding(k, S) = Cardinality(Same)
    BY DEF Below, Holding
  <1> HIDE DEF Less, Same, Upto
  <1> QED
    BY <1>1, <1>4, <1>5, <1>6, <1>7, <1>8, <1>9, <1>10

-----------------------------------------------------------------------------
(* LIMIT and OFFSET, and how many rows of a key they let through.          *)

Count(s, k) == Cardinality({i \in DOMAIN s : s[i].key = k})

LEMMA OffsetFacts ==
    ASSUME NEW p \in Nat \ {0}, NEW n \in Nat \ {0}
    PROVE  Offset(p, n) \in Nat /\ p * n = Offset(p, n) + n /\ (p - 1) * n = Offset(p, n)
  BY DEF Offset

LEMMA SliceFacts ==
    ASSUME NEW s \in Seq(Places), NEW p \in Nat \ {0}, NEW n \in Nat \ {0}
    PROVE  LET m == Offset(p, n)
               rows == Slice(s, p, n)
           IN  /\ m \in Nat
               /\ rows \in Seq(Places)
               /\ m >= Len(s) => Len(rows) = 0
               /\ m < Len(s) /\ m + n <= Len(s) => Len(rows) = n
               /\ m < Len(s) /\ m + n > Len(s) => Len(rows) = Len(s) - m
               /\ \A i \in 1 .. Len(rows) : m + i \in 1 .. Len(s) /\ rows[i] = s[m + i]
  <1> DEFINE m == Offset(p, n)
             top == Min({m + n, Len(s)})
  <1>1. m \in Nat /\ Len(s) \in Nat
    BY LenProperties DEF Offset
  <1> HIDE DEF m
  <1>2. /\ top \in Nat /\ top <= m + n /\ top <= Len(s)
        /\ top = m + n \/ top = Len(s)
    <2>1. \E x \in {m + n, Len(s)} : \A y \in {m + n, Len(s)} : x <= y
      <3>1. m + n <= Len(s) \/ Len(s) <= m + n
        BY <1>1
      <3> QED
        BY <1>1, <3>1
    <2>2. top \in {m + n, Len(s)} /\ \A y \in {m + n, Len(s)} : top <= y
      BY <2>1 DEF Min
    <2> QED
      BY <1>1, <2>2
  <1>3. Slice(s, p, n) = SubSeq(s, m + 1, top)
    BY DEF Slice, m
  <1> HIDE DEF top
  <1>4. \A i \in m + 1 .. top : s[i] \in Places
    BY <1>1, <1>2, ElementOfSeq
  <1> DEFINE rows == SubSeq(s, m + 1, top)
  <1>5. /\ rows \in Seq(Places)
        /\ Len(rows) = IF m + 1 <= top THEN top - (m + 1) + 1 ELSE 0
        /\ \A i \in 1 .. top - (m + 1) + 1 : rows[i] = s[m + 1 + i - 1]
    BY <1>1, <1>2, <1>4, SubSeqProperties
  <1> HIDE DEF rows
  <1>6. \A i \in 1 .. Len(rows) : m + i \in 1 .. Len(s) /\ rows[i] = s[m + i]
    <2> TAKE i \in 1 .. Len(rows)
    <2>1. i \in 1 .. top - (m + 1) + 1 /\ m + 1 + i - 1 = m + i
      BY <1>1, <1>2, <1>5
    <2>2. m + i \in 1 .. Len(s)
      BY <1>1, <1>2, <2>1
    <2> QED
      BY <1>5, <2>1, <2>2
  <1>7. /\ m >= Len(s) => Len(rows) = 0
        /\ m < Len(s) /\ m + n <= Len(s) => Len(rows) = n
        /\ m < Len(s) /\ m + n > Len(s) => Len(rows) = Len(s) - m
    BY <1>1, <1>2, <1>5
  <1> QED
    BY <1>1, <1>3, <1>5, <1>6, <1>7 DEF m, rows

\* Of a key, the page has those of its rows, from a + 1 to b in the order, that
\* come after the first m and up to m + n.
LEMMA PageCounts ==
    ASSUME NEW S \in SUBSET Places, NEW s \in Orders(S), NEW k \in Nat,
           NEW p \in Nat \ {0}, NEW n \in Nat \ {0}
    PROVE  LET m == Offset(p, n)
               a == Below(k, S)
               b == a + Holding(k, S)
               g == Count(Slice(s, p, n), k)
           IN  /\ g \in Nat
               /\ g <= n /\ g <= b - a
               /\ g > 0 => g <= b - m /\ g <= m + n - a
               /\ \/ g >= n \/ g >= b - m \/ g >= m + n - a \/ g >= b - a
  <1> DEFINE m == Offset(p, n)
             a == Below(k, S)
             b == a + Holding(k, S)
             rows == Slice(s, p, n)
             lo == IF a <= m THEN 1 ELSE a - m + 1
             hi == IF b <= m + n THEN b - m ELSE n
  <1>1. /\ s \in Seq(Places) /\ Len(s) \in Nat
    BY OrderFacts, LenProperties
  <1>2. /\ m \in Nat /\ rows \in Seq(Places) /\ Len(rows) \in Nat
        /\ m >= Len(s) => Len(rows) = 0
        /\ m < Len(s) /\ m + n <= Len(s) => Len(rows) = n
        /\ m < Len(s) /\ m + n > Len(s) => Len(rows) = Len(s) - m
        /\ \A i \in 1 .. Len(rows) : m + i \in 1 .. Len(s) /\ rows[i] = s[m + i]
    <2>1. /\ m \in Nat /\ rows \in Seq(Places)
          /\ m >= Len(s) => Len(rows) = 0
          /\ m < Len(s) /\ m + n <= Len(s) => Len(rows) = n
          /\ m < Len(s) /\ m + n > Len(s) => Len(rows) = Len(s) - m
          /\ \A i \in 1 .. Len(rows) : m + i \in 1 .. Len(s) /\ rows[i] = s[m + i]
      BY <1>1, SliceFacts
    <2> HIDE DEF m, rows
    <2>2. rows \in Seq(Places)
      BY <2>1
    <2>3. Len(rows) \in Nat
      BY <2>2, LenProperties
    <2> QED
      BY <2>1, <2>3
  <1>3. /\ a \in Nat /\ b \in Nat /\ a <= b /\ b <= Len(s)
        /\ \A i \in 1 .. Len(s) : s[i].key = k <=> a < i /\ i <= b
    <2>1. /\ Below(k, S) \in Nat /\ Holding(k, S) \in Nat
          /\ Below(k, S) + Holding(k, S) <= Len(s)
          /\ \A i \in 1 .. Len(s) :
                s[i].key = k <=> Below(k, S) < i /\ i <= Below(k, S) + Holding(k, S)
      BY OrderOfKeys
    <2> QED
      BY <2>1
  <1>4. DOMAIN rows = 1 .. Len(rows)
    BY <1>2, LenProperties
  <1>5. Count(rows, k) = Cardinality({i \in 1 .. Len(rows) : rows[i].key = k})
    BY <1>4 DEF Count
  <1> HIDE DEF m, a, b, rows
  <1>6. \A i \in 1 .. Len(rows) : rows[i].key = k <=> a < m + i /\ m + i <= b
    BY <1>2, <1>3
  <1>7. lo \in Int /\ hi \in Int
    BY <1>2, <1>3
  <1>8. {i \in 1 .. Len(rows) : rows[i].key = k} = lo .. hi
    <2>1. ASSUME NEW i \in 1 .. Len(rows), rows[i].key = k
          PROVE  i \in lo .. hi
      <3>1. a < m + i /\ m + i <= b /\ i <= n /\ i \in Nat \ {0}
        <4>1. Len(rows) <= n
          BY <1>1, <1>2
        <4>2. a < m + i /\ m + i <= b
          BY <1>6, <2>1
        <4> QED
          BY <1>2, <4>1, <4>2
      <3>2. lo <= i /\ i <= hi
        BY <1>2, <1>3, <3>1
      <3> QED
        BY <1>7, <3>1, <3>2
    <2>2. ASSUME NEW i \in lo .. hi
          PROVE  i \in 1 .. Len(rows) /\ rows[i].key = k
      <3>1. i \in Int /\ i >= 1 /\ a < m + i /\ m + i <= b /\ i <= n
        BY <1>2, <1>3
      <3>2. i \in 1 .. Len(rows)
        BY <1>1, <1>2, <1>3, <3>1
      <3> QED
        BY <1>6, <3>1, <3>2
    <2> HIDE DEF lo, hi
    <2> QED
      BY <2>1, <2>2
  <1>9. Cardinality(lo .. hi) = IF lo > hi THEN 0 ELSE hi - lo + 1
    BY <1>7, FS_Interval
  <1>10. Count(rows, k) = IF lo > hi THEN 0 ELSE hi - lo + 1
    BY <1>5, <1>8, <1>9
  <1> HIDE DEF Count
  <1>11. LET g == Count(rows, k)
         IN  /\ g \in Nat
             /\ g <= n /\ g <= b - a
             /\ g > 0 => g <= b - m /\ g <= m + n - a
             /\ \/ g >= n \/ g >= b - m \/ g >= m + n - a \/ g >= b - a
    BY <1>2, <1>3, <1>10
  <1> QED
    BY <1>11 DEF m, a, b, rows

\* What a walk has listed of a key grows by what the page has of it.
LEMMA CountOfPages ==
    ASSUME NEW u \in Seq(Places), NEW v \in Seq(Places), NEW k
    PROVE  /\ Count(u \o v, k) = Count(u, k) + Count(v, k)
           /\ Count(u, k) \in Nat
  <1> DEFINE U == {i \in 1 .. Len(u) : u[i].key = k}
             V == {i \in 1 .. Len(v) : v[i].key = k}
             W == {i \in Len(u) + 1 .. Len(u) + Len(v) : v[i - Len(u)].key = k}
             f == [i \in V |-> i + Len(u)]
  <1>1. /\ Len(u) \in Nat /\ Len(v) \in Nat /\ u \o v \in Seq(Places)
        /\ DOMAIN u = 1 .. Len(u) /\ DOMAIN v = 1 .. Len(v)
        /\ DOMAIN (u \o v) = 1 .. Len(u) + Len(v)
        /\ \A i \in 1 .. Len(u) + Len(v) : (u \o v)[i] =
                IF i <= Len(u) THEN u[i] ELSE v[i - Len(u)]
    <2>1. /\ u \o v \in Seq(Places) /\ Len(u \o v) = Len(u) + Len(v)
          /\ \A i \in 1 .. Len(u) + Len(v) : (u \o v)[i] =
                IF i <= Len(u) THEN u[i] ELSE v[i - Len(u)]
      BY ConcatProperties
    <2>2. /\ Len(u) \in Nat /\ Len(v) \in Nat
          /\ DOMAIN u = 1 .. Len(u) /\ DOMAIN v = 1 .. Len(v)
      BY LenProperties
    <2>3. DOMAIN (u \o v) = 1 .. Len(u \o v)
      BY <2>1, LenProperties
    <2> QED
      BY <2>1, <2>2, <2>3
  <1>2. Count(u, k) = Cardinality(U) /\ Count(v, k) = Cardinality(V)
    BY <1>1 DEF Count
  <1>3. {i \in DOMAIN (u \o v) : (u \o v)[i].key = k} = U \cup W
    <2>1. \A i \in 1 .. Len(u) + Len(v) :
              \/ i \in 1 .. Len(u) /\ (u \o v)[i] = u[i]
              \/ i \in Len(u) + 1 .. Len(u) + Len(v) /\ (u \o v)[i] = v[i - Len(u)]
      BY <1>1
    <2>2. \A i \in 1 .. Len(u) : i \in 1 .. Len(u) + Len(v) /\ (u \o v)[i] = u[i]
      BY <1>1
    <2>3. \A i \in Len(u) + 1 .. Len(u) + Len(v) :
              i \in 1 .. Len(u) + Len(v) /\ (u \o v)[i] = v[i - Len(u)]
      BY <1>1
    <2>4. (1 .. Len(u)) \cap (Len(u) + 1 .. Len(u) + Len(v)) = {}
      BY <1>1
    <2> QED
      BY <1>1, <2>1, <2>2, <2>3
  <1>4. IsFiniteSet(U) /\ IsFiniteSet(V) /\ Cardinality(U) \in Nat /\ Cardinality(V) \in Nat
    <2>1. IsFiniteSet(1 .. Len(u)) /\ IsFiniteSet(1 .. Len(v))
      BY <1>1, FS_Interval
    <2>2. IsFiniteSet(U) /\ IsFiniteSet(V)
      BY <2>1, FS_Subset
    <2> QED
      BY <2>2, FS_CardinalityType
  <1>5. f \in Bijection(V, W)
    <2>1. ASSUME NEW i \in V
          PROVE  f[i] \in W
      <3>1. i + Len(u) \in Len(u) + 1 .. Len(u) + Len(v) /\ (i + Len(u)) - Len(u) = i
        BY <1>1
      <3> QED
        BY <3>1
    <2>2. \A i, j \in V : f[i] = f[j] => i = j
      BY <1>1
    <2>3. ASSUME NEW j \in W
          PROVE  \E i \in V : f[i] = j
      <3>1. j - Len(u) \in 1 .. Len(v) /\ (j - Len(u)) + Len(u) = j
        BY <1>1
      <3>2. j - Len(u) \in V
        BY <3>1
      <3> QED
        BY <3>1, <3>2
    <2>4. f \in [V -> W]
      BY <2>1
    <2> HIDE DEF f, V, W
    <2> QED
      BY <2>2, <2>3, <2>4 DEF Bijection, Injection, IsInjective, Surjection
  <1>6. U \cap W = {}
    BY <1>1
  <1> HIDE DEF f, U, V, W
  <1>7. IsFiniteSet(W) /\ Cardinality(W) = Cardinality(V)
    <2>1. ExistsBijection(V, W)
      BY <1>5 DEF ExistsBijection
    <2> QED
      BY <1>4, <2>1, FS_Bijection
  <1>8. Cardinality(U \cup W) = Cardinality(U) + Cardinality(V)
    <2>1. Cardinality(U \cup W) = Cardinality(U) + Cardinality(W) - Cardinality(U \cap W)
      BY <1>4, <1>7, FS_Union
    <2>2. Cardinality(U \cap W) = 0
      BY <1>6, FS_EmptySet
    <2> QED
      BY <1>4, <1>7, <2>1, <2>2
  <1>9. Count(u \o v, k) = Cardinality(U \cup W)
    BY <1>3 DEF Count
  <1> QED
    BY <1>2, <1>4, <1>8, <1>9

-----------------------------------------------------------------------------
(* The answer of a page.                                                   *)

LEMMA VisibleFacts ==
    ASSUME NEW rows \in SUBSET Rows, NEW q
    PROVE  /\ VisiblePlaces(q, rows) \in SUBSET Places
           /\ \A p \in VisiblePlaces(q, rows) : CanRead(q, p)
  BY DEF VisiblePlaces, Visible, Rows, CanRead

\* The conjuncts of LinksMatchRows for one answer.
LinksFit(r, n) ==
    LET before == (r.page - 1) * n
    IN  /\ r.next # {} <=> before + Len(r.rows) < r.total
        /\ r.rows = <<>> <=> before >= r.total
        /\ r.last = {} <=> r.total = 0
        /\ \A l \in r.last : (l - 1) * n < r.total /\ r.total <= l * n

LEMMA ListingFits ==
    ASSUME NEW s \in Seq(Places), NEW p \in Nat \ {0}, NEW n \in Nat \ {0}
    PROVE  LinksFit(Listing(s, p, n, Len(s)), n)
  <1> DEFINE r == Listing(s, p, n, Len(s))
             m == Offset(p, n)
             N == Len(s)
  <1>1. /\ r.page = p /\ r.rows = Slice(s, p, n) /\ r.total = N
        /\ r.next = NextLink(p, n, N) /\ r.last = LastLink(n, N)
    BY DEF Listing
  <1>2. /\ m \in Nat /\ N \in Nat /\ p * n = m + n /\ (p - 1) * n = m
        /\ r.rows \in Seq(Places)
        /\ m >= N => Len(r.rows) = 0
        /\ m < N /\ m + n <= N => Len(r.rows) = n
        /\ m < N /\ m + n > N => Len(r.rows) = N - m
    <2>1. p * n = m + n /\ (p - 1) * n = m
      BY OffsetFacts
    <2>2. N \in Nat
      BY LenProperties
    <2>3. /\ m \in Nat
          /\ Slice(s, p, n) \in Seq(Places)
          /\ m >= Len(s) => Len(Slice(s, p, n)) = 0
          /\ m < Len(s) /\ m + n <= Len(s) => Len(Slice(s, p, n)) = n
          /\ m < Len(s) /\ m + n > Len(s) => Len(Slice(s, p, n)) = Len(s) - m
      BY SliceFacts
    <2> HIDE DEF m, r
    <2> QED
      BY <1>1, <2>1, <2>2, <2>3
  <1> HIDE DEF r, m
  <1>3. r.rows = <<>> <=> Len(r.rows) = 0
    BY <1>2, EmptySeq
  <1>4. r.next # {} <=> m + n < N
    BY <1>1, <1>2 DEF NextLink
  <1>5. r.next # {} <=> m + Len(r.rows) < r.total
    BY <1>1, <1>2, <1>4
  <1>6. r.rows = <<>> <=> m >= r.total
    BY <1>1, <1>2, <1>3
  <1>7. r.last = {} <=> r.total = 0
    <2> DEFINE number == (N + n - 1) \div n
    <2>1. r.last = IF N > 0 THEN {number} ELSE {}
      BY <1>1 DEF LastLink
    <2> HIDE DEF number
    <2> QED
      BY <1>1, <1>2, <2>1
  <1>8. ASSUME NEW l \in r.last
        PROVE  (l - 1) * n < r.total /\ r.total <= l * n
    <2>1. N > 0 /\ l = (N + n - 1) \div n
      BY <1>1, <1>2, <1>8 DEF LastLink
    <2>2. l \in Int /\ l * n <= N + n - 1 /\ N + n - 1 < l * n + n
      BY <1>2, <2>1
    <2>3. l * n \in Int /\ (l - 1) * n = l * n - n
      BY <2>2
    <2> QED
      BY <1>1, <1>2, <2>2, <2>3
  <1>9. LinksFit(r, n)
    BY <1>1, <1>2, <1>5, <1>6, <1>7, <1>8 DEF LinksFit
  <1> QED
    BY <1>9 DEF r

-----------------------------------------------------------------------------
(* The invariant.                                                          *)

\* There is one search at a time, and none leaves anything behind.
OneSearch ==
    /\ \A q, r \in query : q = r
    /\ query = {} =>
          /\ listed = <<>> /\ atStart = {} /\ added = {} /\ removed = {}
          /\ \A r \in reply : r.rows = <<>> /\ r.status # "ok"

\* What the histories say about the rows there are now, and the end of a walk.
Grounds ==
    \A q \in query :
        /\ removed = {} => atStart \subseteq VisiblePlaces(q, table)
        /\ added = {} /\ atStart # {} => VisiblePlaces(q, table) \subseteq atStart
        /\ Done => Cardinality(VisiblePlaces(q, table)) <= page * size

IInv == TypeOK /\ OneSearch /\ Grounds /\ ListsOnlyReadable /\ LinksMatchRows /\ KeepsPace

LEMMA Parameters ==
    /\ SizeLimit \in Nat \ {0} /\ MaxWrites \in Nat
    /\ \A p \in Places : p.key \in Nat
    /\ Keys \subseteq Nat
  BY PagesAssumption DEF Keys

\* Below and Holding count, and count no less in a larger set.
LEMMA Counted ==
    ASSUME NEW S \in SUBSET Places, NEW R \in SUBSET S, NEW k
    PROVE  /\ Below(k, S) \in Nat /\ Holding(k, S) \in Nat
           /\ Below(k, R) <= Below(k, S) /\ Holding(k, R) <= Holding(k, S)
           /\ Below(k, R) \in Nat /\ Holding(k, R) \in Nat
  <1> DEFINE LessR == {p \in R : p.key < k}
             LessS == {p \in S : p.key < k}
             SameR == {p \in R : p.key = k}
             SameS == {p \in S : p.key = k}
  <1>1. IsFiniteSet(LessS) /\ IsFiniteSet(SameS)
    BY PagesAssumption, FS_Subset
  <1>2. LessR \in SUBSET LessS /\ SameR \in SUBSET SameS
    OBVIOUS
  <1>3. /\ Below(k, R) = Cardinality(LessR) /\ Below(k, S) = Cardinality(LessS)
        /\ Holding(k, R) = Cardinality(SameR) /\ Holding(k, S) = Cardinality(SameS)
    BY DEF Below, Holding
  <1> HIDE DEF LessR, LessS, SameR, SameS
  <1>4. /\ IsFiniteSet(LessR) /\ IsFiniteSet(SameR)
        /\ Cardinality(LessR) <= Cardinality(LessS)
        /\ Cardinality(SameR) <= Cardinality(SameS)
    BY <1>1, <1>2, FS_Subset
  <1>5. /\ Cardinality(LessR) \in Nat /\ Cardinality(SameR) \in Nat
        /\ Cardinality(LessS) \in Nat /\ Cardinality(SameS) \in Nat
    BY <1>1, <1>4, FS_CardinalityType
  <1> QED
    BY <1>3, <1>4, <1>5

LEMMA BelowAndHolding ==
    ASSUME NEW S \in SUBSET Places, NEW k \in Nat
    PROVE  Below(k, S) + Holding(k, S) <= Cardinality(S)
  <1> DEFINE Less == {p \in S : p.key < k}
             Same == {p \in S : p.key = k}
  <1>1. IsFiniteSet(S) /\ IsFiniteSet(Less) /\ IsFiniteSet(Same)
    BY PagesAssumption, FS_Subset
  <1>2. Less \cap Same = {} /\ Less \cup Same \in SUBSET S
    BY PagesAssumption
  <1>3. Below(k, S) = Cardinality(Less) /\ Holding(k, S) = Cardinality(Same)
    BY DEF Below, Holding
  <1> HIDE DEF Less, Same
  <1>4. Cardinality(Less \cup Same)
            = Cardinality(Less) + Cardinality(Same) - Cardinality(Less \cap Same)
    BY <1>1, FS_Union
  <1>5. Cardinality(Less \cap Same) = 0
    BY <1>2, FS_EmptySet
  <1>6. Cardinality(Less \cup Same) <= Cardinality(S)
    BY <1>1, <1>2, FS_Subset
  <1>7. Cardinality(Less) \in Nat /\ Cardinality(Same) \in Nat
    BY <1>1, FS_CardinalityType
  <1> QED
    BY <1>3, <1>4, <1>5, <1>6, <1>7

LEMMA NothingHeld == \A k : Holding(k, {}) = 0
  <1> TAKE k
  <1>1. {p \in {} : p.key = k} = {}
    OBVIOUS
  <1> QED
    BY <1>1, FS_EmptySet DEF Holding

LEMMA ListedCounts == \A k : Listed(k) = Count(listed, k)
  BY DEF Listed, Count

LEMMA InitInvariant == Init => IInv
  <1> SUFFICES ASSUME Init PROVE IInv
    OBVIOUS
  <1>1. PICK there \in SUBSET Places : \E hits \in SUBSET there :
            table = {[at |-> p, hit |-> p \in hits] : p \in there}
    BY DEF Init
  <1>2. PICK hits \in SUBSET there :
            table = {[at |-> p, hit |-> p \in hits] : p \in there}
    BY <1>1
  <1>3. table \subseteq Rows /\ \A r, t \in table : r.at = t.at => r = t
    <2>1. \A p \in there : [at |-> p, hit |-> p \in hits] \in Rows
      <3> TAKE p \in there
      <3>1. (p \in hits) \in BOOLEAN
        OBVIOUS
      <3> DEFINE h == p \in hits
      <3> HIDE DEF h
      <3>2. h \in BOOLEAN => [at |-> p, hit |-> h] \in Rows
        BY DEF Rows
      <3> QED
        BY <3>1, <3>2 DEF h
    <2>2. \A r \in table : \E p \in there : r = [at |-> p, hit |-> p \in hits]
      BY <1>2
    <2>3. \A r \in table : r.at \in there /\ r = [at |-> r.at, hit |-> r.at \in hits]
      BY <2>2
    <2> QED
      BY <2>1, <2>2, <2>3
  <1>4. TypeOK
    BY <1>3, Parameters DEF Init, TypeOK
  <1> QED
    BY <1>4 DEF Init, IInv, OneSearch, Grounds, ListsOnlyReadable, LinksMatchRows, KeepsPace

-----------------------------------------------------------------------------
(* The steps of a client.                                                  *)

\* A walk begins: it has covered the rows of the pages before its first one, and
\* listed none.
LEMMA BeginKeeps ==
    ASSUME IInv, NEW q \in Searches, NEW p \in 0 .. MaxPage, NEW n \in 0 .. MaxSize,
           Begin(q, p, n)
    PROVE  IInv'
  <1> DEFINE V == VisiblePlaces(q, table)
  <1>1. /\ query = {} /\ query' = {q} /\ page' = p /\ size' = n
        /\ atStart' = IF p = 1 THEN V ELSE {}
        /\ table' = table /\ reply' = reply /\ listed' = listed /\ writes' = writes
        /\ added' = added /\ removed' = removed
    BY DEF Begin
  <1>2. /\ listed = <<>> /\ added = {} /\ removed = {}
        /\ \A r \in reply : r.rows = <<>> /\ r.status # "ok"
    BY <1>1 DEF IInv, OneSearch
  <1>3. p \in Nat \ {0} /\ n \in 1 .. SizeLimit /\ n \in Nat
    BY PagesAssumption DEF Begin, PageError
  <1>4. V \in SUBSET Places
    BY VisibleFacts DEF IInv, TypeOK
  <1>5. TypeOK'
    BY <1>1, <1>2, <1>3, <1>4 DEF IInv, TypeOK
  <1>6. Walking' /\ ~ Done'
    BY <1>1, <1>2 DEF Walking, Done
  <1>7. OneSearch' /\ ListsOnlyReadable' /\ LinksMatchRows'
    BY <1>1, <1>2 DEF OneSearch, ListsOnlyReadable, LinksMatchRows
  <1>8. Grounds'
    BY <1>1, <1>2, <1>6 DEF Grounds
  <1>9. Covered' = (p - 1) * n /\ Covered' \in Nat /\ (p = 1 => Covered' = 0)
    <2>1. Covered' = (p - 1) * n
      BY <1>1, <1>6 DEF Covered
    <2>2. (p - 1) * n \in Nat /\ (p = 1 => (p - 1) * n = 0)
      BY <1>3
    <2> QED
      BY <2>1, <2>2
  <1>10. ASSUME NEW k \in Keys
         PROVE  /\ Listed(k)' = 0 /\ Below(k, V) \in Nat
                /\ Holding(k, V) \in Nat /\ Holding(k, {}) = 0
    <2>1. Count(<<>>, k) = 0
      <3>1. {i \in DOMAIN <<>> : <<>>[i].key = k} = {}
        OBVIOUS
      <3> QED
        BY <3>1, FS_EmptySet DEF Count
    <2>2. Listed(k)' = 0
      BY <1>1, <1>2, <2>1 DEF Listed, Count
    <2> HIDE DEF V
    <2> QED
      BY <1>4, <2>2, Counted, NothingHeld
  <1>11. KeepsPace'
    <2> SUFFICES ASSUME NEW k \in Keys
                 PROVE  /\ \/ Listed(k)' >= Holding(k, atStart')
                           \/ Listed(k)' + Below(k, V) >= Covered'
                        /\ atStart' # {} =>
                              /\ Listed(k)' <= Holding(k, atStart')
                              /\ Listed(k)' = 0
      BY <1>1 DEF KeepsPace
    <2> HIDE DEF V
    <2> QED
      BY <1>1, <1>9, <1>10
  <1> QED
    BY <1>5, <1>7, <1>8, <1>11 DEF IInv

LEMMA RefuseKeeps ==
    ASSUME IInv, NEW q \in Searches, NEW p \in 0 .. MaxPage, NEW n \in 0 .. MaxSize,
           Refuse(q, p, n)
    PROVE  IInv'
  <1>1. /\ query = {} /\ query' = query /\ table' = table /\ page' = page /\ size' = size
        /\ listed' = listed /\ writes' = writes
        /\ atStart' = atStart /\ added' = added /\ removed' = removed
    BY DEF Refuse
  <1>2. PICK e \in {"bad_page", "bad_size"} : reply' = {Failure(e, p)}
    BY DEF Refuse, PageError
  <1>3. \A r \in reply' : /\ r.status = e /\ r.rows = <<>> /\ r.total = 0
    BY <1>2 DEF Failure
  <1>4. TypeOK'
    <2>1. \A r \in reply' :
            /\ r.status \in {"ok", "bad_page", "bad_size", "failed"}
            /\ r.rows \in Seq(Places) /\ Len(r.rows) <= size /\ r.total \in Nat
      <3>1. <<>> \in Seq(Places) /\ Len(<<>>) = 0 /\ 0 <= size /\ 0 \in Nat
        BY Parameters DEF IInv, TypeOK
      <3> QED
        BY <1>3, <3>1
    <2> QED
      BY <1>1, <2>1 DEF IInv, TypeOK
  <1>5. OneSearch'
    BY <1>1, <1>3 DEF IInv, OneSearch
  <1>6. LinksMatchRows'
    BY <1>3 DEF LinksMatchRows
  <1>7. Grounds' /\ ListsOnlyReadable' /\ KeepsPace'
    BY <1>1 DEF Grounds, ListsOnlyReadable, KeepsPace
  <1> QED
    BY <1>4, <1>5, <1>6, <1>7 DEF IInv

LEMMA LeaveKeeps ==
    ASSUME IInv, Leave
    PROVE  IInv'
  <1>1. /\ query' = {} /\ page' = 1 /\ size' = 1 /\ reply' = {} /\ listed' = <<>>
        /\ writes' = 0 /\ atStart' = {} /\ added' = {} /\ removed' = {}
        /\ table' = table
    BY DEF Leave
  <1>2. TypeOK'
    BY <1>1, Parameters DEF IInv, TypeOK
  <1> QED
    BY <1>1, <1>2 DEF IInv, OneSearch, Grounds, ListsOnlyReadable, LinksMatchRows, KeepsPace

\* A page that fails: the walk is where it was.
LEMMA ListFailsKeeps ==
    ASSUME IInv, ListFails
    PROVE  IInv'
  <1>1. /\ query' = query /\ table' = table /\ page' = page /\ size' = size
        /\ listed' = listed /\ writes' = writes
        /\ atStart' = atStart /\ added' = added /\ removed' = removed
        /\ reply' = {Failure("failed", page)}
        /\ Walking /\ ~ Done
    BY DEF ListFails, Done
  <1>2. \A r \in reply' : /\ r.status = "failed" /\ r.rows = <<>> /\ r.total = 0
    BY <1>1 DEF Failure
  <1>3. Walking' /\ ~ Done'
    BY <1>1, <1>2 DEF Walking, Done
  <1>4. TypeOK'
    <2>1. \A r \in reply' :
            /\ r.status \in {"ok", "bad_page", "bad_size", "failed"}
            /\ r.rows \in Seq(Places) /\ Len(r.rows) <= size /\ r.total \in Nat
      <3>1. <<>> \in Seq(Places) /\ Len(<<>>) = 0 /\ 0 <= size /\ 0 \in Nat
        BY Parameters DEF IInv, TypeOK
      <3> QED
        BY <1>2, <3>1
    <2> QED
      BY <1>1, <2>1 DEF IInv, TypeOK
  <1>5. OneSearch' /\ LinksMatchRows' /\ ListsOnlyReadable'
    BY <1>1, <1>2 DEF IInv, OneSearch, LinksMatchRows, ListsOnlyReadable
  <1>6. Grounds'
    BY <1>1, <1>3 DEF IInv, Grounds
  <1>7. Covered' = Covered
    BY <1>1, <1>3 DEF Covered
  <1>8. \A k : Listed(k)' = Listed(k)
    BY <1>1 DEF Listed
  <1>9. KeepsPace'
    BY <1>1, <1>7, <1>8 DEF IInv, KeepsPace
  <1> QED
    BY <1>4, <1>5, <1>6, <1>9 DEF IInv

-----------------------------------------------------------------------------
(* Another request writes during a walk.                                   *)

LEMMA WriteKeeps ==
    ASSUME IInv, NEW rows \in SUBSET Rows, \A r, t \in rows : r.at = t.at => r = t,
           Write(rows)
    PROVE  IInv'
  <1>1. /\ query' = query /\ page' = page /\ size' = size /\ reply' = reply
        /\ listed' = listed /\ atStart' = atStart /\ table' = rows
        /\ writes' = writes + 1 /\ writes < MaxWrites /\ Walking /\ query # {}
    BY DEF Write, client, Walking
  <1>2. PICK q \in query :
          /\ added' = added \cup (VisiblePlaces(q, rows) \ VisiblePlaces(q, table))
          /\ removed' = removed \cup (VisiblePlaces(q, table) \ VisiblePlaces(q, rows))
    BY DEF Write
  <1>3. \A r \in query : r = q
    BY DEF IInv, OneSearch
  <1> DEFINE V == VisiblePlaces(q, table)
             W == VisiblePlaces(q, rows)
  <1>4. V \in SUBSET Places /\ W \in SUBSET Places
    BY VisibleFacts DEF IInv, TypeOK
  <1>5. Walking' /\ ~ Done' /\ ~ Done
    BY <1>1 DEF Walking, Done
  <1>6. TypeOK'
    <2>1. writes' \in 0 .. MaxWrites
      BY <1>1, Parameters DEF IInv, TypeOK
    <2>2. added' \subseteq Places /\ removed' \subseteq Places
      BY <1>2, <1>4 DEF IInv, TypeOK
    <2> QED
      BY <1>1, <2>1, <2>2 DEF IInv, TypeOK
  <1>7. OneSearch' /\ LinksMatchRows' /\ ListsOnlyReadable'
    BY <1>1 DEF IInv, OneSearch, LinksMatchRows, ListsOnlyReadable
  <1>8. /\ removed' = {} => removed = {} /\ V \subseteq W
        /\ added' = {} => added = {} /\ W \subseteq V
    BY <1>2
  <1>9. /\ removed = {} => atStart \subseteq V
        /\ added = {} /\ atStart # {} => V \subseteq atStart
    BY DEF IInv, Grounds
  <1>10. Grounds'
    <2> SUFFICES /\ removed' = {} => atStart \subseteq W
                 /\ added' = {} /\ atStart # {} => W \subseteq atStart
      BY <1>1, <1>3, <1>5 DEF Grounds
    <2> HIDE DEF V, W
    <2> QED
      BY <1>8, <1>9
  <1>11. Covered' = Covered /\ Covered \in Int
    <2>1. page \in Nat /\ size \in Nat
      BY PagesAssumption DEF IInv, TypeOK
    <2>2. (page - 1) * size \in Int
      BY <2>1
    <2> QED
      BY <1>1, <1>5, <2>2 DEF Covered
  <1>12. KeepsPace'
    <2> SUFFICES ASSUME NEW k \in Keys
                 PROVE  /\ removed' = {} =>
                              \/ Listed(k) >= Holding(k, atStart)
                              \/ Listed(k) + Below(k, W) >= Covered
                        /\ added' = {} /\ atStart # {} =>
                              /\ Listed(k) <= Holding(k, atStart)
                              /\ Listed(k) = 0 \/ Listed(k) + Below(k, W) <= Covered
      <3>1. \A k : Listed(k)' = Listed(k)
        BY <1>1 DEF Listed
      <3> QED
        BY <1>1, <1>3, <1>11, <3>1 DEF KeepsPace
    <2>1. /\ removed = {} =>
                \/ Listed(k) >= Holding(k, atStart)
                \/ Listed(k) + Below(k, V) >= Covered
          /\ added = {} /\ atStart # {} =>
                /\ Listed(k) <= Holding(k, atStart)
                /\ Listed(k) = 0 \/ Listed(k) + Below(k, V) <= Covered
      BY DEF IInv, KeepsPace
    <2>2. Listed(k) \in Nat
      BY CountOfPages, ListedCounts DEF IInv, TypeOK
    <2> HIDE DEF V, W
    <2>3. /\ Below(k, V) \in Nat /\ Below(k, W) \in Nat
          /\ V \subseteq W => Below(k, V) <= Below(k, W)
          /\ W \subseteq V => Below(k, W) <= Below(k, V)
      BY <1>4, Counted
    <2> QED
      BY <1>8, <1>11, <2>1, <2>2, <2>3
  <1> QED
    BY <1>6, <1>7, <1>10, <1>12 DEF IInv

LEMMA PutKeeps ==
    ASSUME IInv, NEW p \in Places, NEW hit \in BOOLEAN, Put(p, hit)
    PROVE  IInv'
  <1> DEFINE new == [at |-> p, hit |-> hit]
             rows == (table \ At(p)) \cup {new}
  <1>1. new \in Rows /\ new.at = p
    BY DEF Rows
  <1>2. Write(rows)
    BY DEF Put
  <1> HIDE DEF new
  <1>3. rows \in SUBSET Rows /\ \A r, t \in rows : r.at = t.at => r = t
    BY <1>1 DEF IInv, TypeOK, At
  <1> HIDE DEF rows
  <1> QED
    BY <1>2, <1>3, WriteKeeps

LEMMA DeleteKeeps ==
    ASSUME IInv, NEW p \in Places, Delete(p)
    PROVE  IInv'
  <1> DEFINE rows == table \ At(p)
  <1>1. rows \in SUBSET Rows /\ \A r, t \in rows : r.at = t.at => r = t
    BY DEF IInv, TypeOK
  <1>2. Write(rows)
    BY DEF Delete
  <1> HIDE DEF rows
  <1> QED
    BY <1>1, <1>2, WriteKeeps

-----------------------------------------------------------------------------
(* A page is listed.                                                       *)

\* The answer and how the client goes on.
LEMMA ListEffect ==
    ASSUME IInv, List
    PROVE  \E q \in query : \E s \in Orders(VisiblePlaces(q, table)) :
              /\ reply' = {Listing(s, page, size, Len(s))}
              /\ listed' = listed \o Slice(s, page, size)
              /\ page' = IF page * size < Len(s) THEN page + 1 ELSE page
              /\ \A r \in query : r = q
              /\ VisiblePlaces(q, table) \in SUBSET Places
              /\ s \in Seq(Places)
  <1>0. PICK q \in query : \E s \in Orders(VisiblePlaces(q, table)) :
            LET r == Listing(s, page, size, Len(s))
            IN  /\ reply' = {r}
                /\ listed' = listed \o r.rows
                /\ page' = IF r.next = {} THEN page ELSE CHOOSE p \in r.next : TRUE
    BY DEF List
  <1>1. PICK s \in Orders(VisiblePlaces(q, table)) :
            LET r == Listing(s, page, size, Len(s))
            IN  /\ reply' = {r}
                /\ listed' = listed \o r.rows
                /\ page' = IF r.next = {} THEN page ELSE CHOOSE p \in r.next : TRUE
    BY <1>0
  <1> DEFINE r == Listing(s, page, size, Len(s))
  <1>2. r.rows = Slice(s, page, size) /\ r.next = NextLink(page, size, Len(s))
    BY DEF Listing
  <1>3. reply' = {r} /\ listed' = listed \o Slice(s, page, size)
    BY <1>1, <1>2
  <1>4. page' = IF page * size < Len(s) THEN page + 1 ELSE page
    <2>1. page' = IF r.next = {} THEN page ELSE CHOOSE p \in r.next : TRUE
      BY <1>1
    <2>2. r.next = IF page * size < Len(s) THEN {page + 1} ELSE {}
      BY <1>2 DEF NextLink
    <2> HIDE DEF r
    <2>3. CASE page * size < Len(s)
      <3>1. \E p \in {page + 1} : TRUE
        OBVIOUS
      <3>2. (CHOOSE p \in {page + 1} : TRUE) = page + 1
        BY <3>1
      <3>3. r.next = {page + 1} /\ r.next # {}
        BY <2>2, <2>3
      <3> QED
        BY <2>1, <2>3, <3>2, <3>3
    <2>4. CASE ~ (page * size < Len(s))
      BY <2>1, <2>2, <2>4
    <2> QED
      BY <2>3, <2>4
  <1>5. VisiblePlaces(q, table) \in SUBSET Places
    BY VisibleFacts DEF IInv, TypeOK
  <1>6. s \in Seq(Places)
    BY <1>5, OrderFacts
  <1>7. \A x \in query : x = q
    BY DEF IInv, OneSearch
  <1> QED
    BY <1>3, <1>4, <1>5, <1>6, <1>7

\* The arithmetic of KeepsPace: l rows of a key are listed of m covered, the page
\* has g of its h rows that stand behind the first a, and h0 were there at first.
LEMMA PaceKept ==
    ASSUME NEW l \in Nat, NEW g \in Nat, NEW a \in Nat, NEW h \in Nat,
           NEW h0 \in Nat, NEW m \in Nat, NEW n \in Nat \ {0},
           g <= n, g <= h,
           g > 0 => g <= a + h - m /\ g <= m + n - a,
           g >= n \/ g >= a + h - m \/ g >= m + n - a \/ g >= h
    PROVE  /\ h0 <= h /\ (l >= h0 \/ l + a >= m)
                  => l + g >= h0 \/ (l + g) + a >= m + n
           /\ h <= h0 /\ l <= h0 /\ (l = 0 \/ l + a <= m)
                  => l + g <= h0 /\ (l + g = 0 \/ (l + g) + a <= m + n)
  OBVIOUS

LEMMA ListKeeps ==
    ASSUME IInv, List
    PROVE  IInv'
  <1>1. /\ query' = query /\ table' = table /\ size' = size /\ writes' = writes
        /\ atStart' = atStart /\ added' = added /\ removed' = removed
        /\ Walking /\ query # {} /\ ~ Done
    BY DEF List, Walking, Done
  <1>0. PICK q \in query : \E s \in Orders(VisiblePlaces(q, table)) :
              /\ reply' = {Listing(s, page, size, Len(s))}
              /\ listed' = listed \o Slice(s, page, size)
              /\ page' = IF page * size < Len(s) THEN page + 1 ELSE page
              /\ \A r \in query : r = q
              /\ VisiblePlaces(q, table) \in SUBSET Places
              /\ s \in Seq(Places)
    BY ListEffect
  <1>2. PICK s \in Orders(VisiblePlaces(q, table)) :
              /\ reply' = {Listing(s, page, size, Len(s))}
              /\ listed' = listed \o Slice(s, page, size)
              /\ page' = IF page * size < Len(s) THEN page + 1 ELSE page
              /\ \A r \in query : r = q
              /\ VisiblePlaces(q, table) \in SUBSET Places
              /\ s \in Seq(Places)
    BY <1>0
  <1> DEFINE V == VisiblePlaces(q, table)
             rows == Slice(s, page, size)
             r == Listing(s, page, size, Len(s))
             m == Offset(page, size)
  <1>3. page \in Nat \ {0} /\ size \in Nat \ {0} /\ listed \in Seq(Places)
    BY Parameters DEF IInv, TypeOK
  <1>4. /\ V \in SUBSET Places /\ Len(s) = Cardinality(V) /\ Len(s) \in Nat
        /\ \A i \in 1 .. Len(s) : s[i] \in V
    BY <1>2, OrderFacts
  <1>5. /\ r.status = "ok" /\ r.rows = rows /\ r.total = Len(s)
        /\ r.next = IF page * size < Len(s) THEN {page + 1} ELSE {}
    BY DEF Listing, NextLink
  <1>6. /\ m \in Nat /\ page * size = m + size /\ m = (page - 1) * size
        /\ rows \in Seq(Places) /\ Len(rows) \in Nat
        /\ \A i \in 1 .. Len(rows) : m + i \in 1 .. Len(s) /\ rows[i] = s[m + i]
        /\ Len(rows) <= size
    <2>1. /\ m \in Nat
          /\ rows \in Seq(Places)
          /\ m >= Len(s) => Len(rows) = 0
          /\ m < Len(s) /\ m + size <= Len(s) => Len(rows) = size
          /\ m < Len(s) /\ m + size > Len(s) => Len(rows) = Len(s) - m
          /\ \A i \in 1 .. Len(rows) : m + i \in 1 .. Len(s) /\ rows[i] = s[m + i]
      BY <1>2, <1>3, SliceFacts
    <2>2. m = (page - 1) * size /\ page * size = m + size
      BY <1>3, OffsetFacts
    <2> HIDE DEF m, rows
    <2>3. Len(rows) \in Nat
      BY <2>1, LenProperties
    <2> QED
      BY <1>3, <1>4, <2>1, <2>2, <2>3
  <1>7. listed' = listed \o rows /\ reply' = {r}
    BY <1>2
  <1>8. LinksFit(r, size)
    BY <1>2, <1>3, ListingFits
  <1> HIDE DEF V, rows, r, m
  <1>9. listed' \in Seq(Places)
    BY <1>3, <1>6, <1>7, ConcatProperties
  <1>10. TypeOK'
    <2>1. page' \in Nat \ {0}
      BY <1>2, <1>3
    <2>2. \A x \in reply' :
            /\ x.status \in {"ok", "bad_page", "bad_size", "failed"}
            /\ x.rows \in Seq(Places) /\ Len(x.rows) <= size /\ x.total \in Nat
      BY <1>4, <1>5, <1>6, <1>7
    <2> QED
      BY <1>1, <1>9, <2>1, <2>2 DEF IInv, TypeOK
  <1>11. OneSearch'
    BY <1>1 DEF IInv, OneSearch
  <1>12. LinksMatchRows'
    BY <1>1, <1>7, <1>8 DEF LinksMatchRows, LinksFit
  <1>13. ListsOnlyReadable'
    <2>1. \A p \in V : CanRead(q, p)
      BY VisibleFacts DEF IInv, TypeOK, V
    <2>2. ASSUME NEW i \in DOMAIN (listed \o rows)
          PROVE  CanRead(q, (listed \o rows)[i])
      <3>1. /\ Len(listed) \in Nat
            /\ DOMAIN (listed \o rows) = 1 .. Len(listed) + Len(rows)
            /\ \A j \in 1 .. Len(listed) + Len(rows) : (listed \o rows)[j] =
                    IF j <= Len(listed) THEN listed[j] ELSE rows[j - Len(listed)]
        <4>1. /\ listed \o rows \in Seq(Places)
              /\ Len(listed \o rows) = Len(listed) + Len(rows)
              /\ \A j \in 1 .. Len(listed) + Len(rows) : (listed \o rows)[j] =
                    IF j <= Len(listed) THEN listed[j] ELSE rows[j - Len(listed)]
          BY <1>3, <1>6, ConcatProperties
        <4>2. Len(listed) \in Nat
          BY <1>3, LenProperties
        <4>3. DOMAIN (listed \o rows) = 1 .. Len(listed \o rows)
          BY <4>1, LenProperties
        <4> QED
          BY <4>1, <4>2, <4>3
      <3>2. CASE i <= Len(listed)
        <4>1. i \in DOMAIN listed
          BY <1>3, <2>2, <3>1, <3>2, LenProperties
        <4> QED
          BY <2>2, <3>1, <3>2, <4>1 DEF IInv, ListsOnlyReadable
      <3>3. CASE ~ (i <= Len(listed))
        <4>1. i - Len(listed) \in 1 .. Len(rows)
          BY <1>6, <2>2, <3>1, <3>3
        <4>2. rows[i - Len(listed)] \in V
          BY <1>4, <1>6, <4>1
        <4> QED
          BY <2>1, <2>2, <3>1, <3>3, <4>2
      <3> QED
        BY <3>2, <3>3
    <2> QED
      BY <1>1, <1>2, <1>7, <2>2 DEF ListsOnlyReadable
  <1>14. Done' <=> ~ (page * size < Len(s))
    BY <1>1, <1>5, <1>7 DEF Done, Walking
  <1>15. Grounds'
    <2>1. /\ removed = {} => atStart \subseteq V
          /\ added = {} /\ atStart # {} => V \subseteq atStart
      BY DEF IInv, Grounds, V
    <2>2. Done' => Cardinality(V) <= page' * size
      <3>1. page * size \in Nat
        BY <1>3, <1>6
      <3> QED
        BY <1>2, <1>4, <1>14, <3>1
    <2> QED
      BY <1>1, <1>2, <2>1, <2>2 DEF Grounds, V
  <1>16. Covered' = m + size /\ Covered = m
    <2>1. CASE page * size < Len(s)
      <3>1. page' = page + 1 /\ (page' - 1) * size' = page * size
        BY <1>1, <1>2, <1>3, <2>1
      <3> QED
        BY <1>1, <1>6, <1>14, <2>1, <3>1 DEF Covered
    <2>2. CASE ~ (page * size < Len(s))
      BY <1>1, <1>2, <1>6, <1>14, <2>2 DEF Covered
    <2> QED
      BY <2>1, <2>2
  <1>17. KeepsPace'
    <2> SUFFICES ASSUME NEW k \in Keys
                 PROVE  /\ removed = {} =>
                              \/ Listed(k)' >= Holding(k, atStart)
                              \/ Listed(k)' + Below(k, V) >= m + size
                        /\ added = {} /\ atStart # {} =>
                              /\ Listed(k)' <= Holding(k, atStart)
                              /\ Listed(k)' = 0 \/ Listed(k)' + Below(k, V) <= m + size
      BY <1>1, <1>2, <1>16 DEF KeepsPace, V
    <2> DEFINE l == Listed(k)
               g == Count(rows, k)
               a == Below(k, V)
               h == Holding(k, V)
               h0 == Holding(k, atStart)
    <2>1. k \in Nat
      BY Parameters
    <2>2. Listed(k)' = l + g /\ l \in Nat
      <3>1. Listed(k)' = Count(listed \o rows, k)
        BY <1>7 DEF Listed, Count
      <3>2. l = Count(listed, k)
        BY ListedCounts
      <3> QED
        BY <1>3, <1>6, <3>1, <3>2, CountOfPages
    <2>3. a \in Nat /\ h \in Nat /\ h0 \in Nat
      <3>1. atStart \in SUBSET Places
        BY DEF IInv, TypeOK
      <3> QED
        BY <1>4, <3>1, Counted
    <2>4. /\ g \in Nat /\ g <= size /\ g <= (a + h) - a
          /\ g > 0 => g <= (a + h) - m /\ g <= m + size - a
          /\ g >= size \/ g >= (a + h) - m \/ g >= m + size - a \/ g >= (a + h) - a
      BY <1>2, <1>3, <1>4, <2>1, PageCounts DEF V, rows, m
    <2>5. /\ removed = {} => (l >= h0 \/ l + a >= m)
          /\ added = {} /\ atStart # {} => l <= h0 /\ (l = 0 \/ l + a <= m)
      BY <1>16 DEF IInv, KeepsPace, V
    <2>6. /\ removed = {} => h0 <= h
          /\ added = {} /\ atStart # {} => h <= h0
      <3>1. /\ removed = {} => atStart \subseteq V
            /\ added = {} /\ atStart # {} => V \subseteq atStart
        BY DEF IInv, Grounds, V
      <3>2. atStart \in SUBSET Places
        BY DEF IInv, TypeOK
      <3> QED
        BY <1>4, <3>1, <3>2, Counted
    <2> HIDE DEF l, g, a, h, h0
    <2>7. g <= h /\ (g >= size \/ g >= a + h - m \/ g >= m + size - a \/ g >= h)
      BY <1>3, <1>6, <2>3, <2>4
    <2>8. /\ h0 <= h /\ (l >= h0 \/ l + a >= m)
                => l + g >= h0 \/ (l + g) + a >= m + size
          /\ h <= h0 /\ l <= h0 /\ (l = 0 \/ l + a <= m)
                => l + g <= h0 /\ (l + g = 0 \/ (l + g) + a <= m + size)
      BY <1>3, <1>6, <2>2, <2>3, <2>4, <2>7, PaceKept
    <2> QED
      BY <2>2, <2>5, <2>6, <2>8 DEF a, h0
  <1> QED
    BY <1>10, <1>11, <1>12, <1>13, <1>15, <1>17 DEF IInv

-----------------------------------------------------------------------------
LEMMA InvariantStep == IInv /\ [Next]_vars => IInv'
  <1> SUFFICES ASSUME IInv, [Next]_vars PROVE IInv'
    OBVIOUS
  <1>1. CASE UNCHANGED vars
    <2>1. /\ query' = query /\ table' = table /\ page' = page /\ size' = size
          /\ reply' = reply /\ listed' = listed /\ writes' = writes
          /\ atStart' = atStart /\ added' = added /\ removed' = removed
      BY <1>1 DEF vars, client
    <2>2. TypeOK' /\ OneSearch'
      BY <2>1 DEF IInv, TypeOK, OneSearch
    <2>3. (Done' <=> Done) /\ ListsOnlyReadable' /\ LinksMatchRows'
      BY <2>1 DEF IInv, Done, Walking, ListsOnlyReadable, LinksMatchRows
    <2>4. Covered' = Covered /\ \A k : Listed(k)' = Listed(k)
      BY <2>1, <2>3 DEF Covered, Listed
    <2>5. Grounds' /\ KeepsPace'
      BY <2>1, <2>3, <2>4 DEF IInv, Grounds, KeepsPace
    <2> QED
      BY <2>2, <2>3, <2>5 DEF IInv
  <1>2. ASSUME NEW q \in Searches, NEW p \in 0 .. MaxPage, NEW n \in 0 .. MaxSize,
               Begin(q, p, n) \/ Refuse(q, p, n)
        PROVE  IInv'
    BY <1>2, BeginKeeps, RefuseKeeps
  <1>3. CASE List \/ ListFails \/ Leave
    BY <1>3, ListKeeps, ListFailsKeeps, LeaveKeeps
  <1>4. ASSUME NEW p \in Places, Delete(p) \/ (\E hit \in BOOLEAN : Put(p, hit))
        PROVE  IInv'
    BY <1>4, PutKeeps, DeleteKeeps
  <1> QED
    BY <1>1, <1>2, <1>3, <1>4 DEF Next

LEMMA Invariant == Spec => []IInv
  BY InitInvariant, InvariantStep, PTL DEF Spec

\* The variables keep their types: in particular no page has more rows than its
\* size, and no page, size or number of writes leaves its bounds.
THEOREM TypeCorrect == Spec => []TypeOK
  <1>1. IInv => TypeOK
    BY DEF IInv
  <1> QED
    BY <1>1, Invariant, PTL

\* A search lists only what get would have returned to the same principal, also
\* when rows come and go between two pages (list in settings/pg_settings.rs
\* against can_read in auth/model.rs).
THEOREM OnlyReadableIsListed == Spec => []ListsOnlyReadable
  <1>1. IInv => ListsOnlyReadable
    BY DEF IInv
  <1> QED
    BY <1>1, Invariant, PTL

\* The links and the total of a page agree with its rows, for every page, size
\* and number of rows (build_link_header).
THEOREM LinksAreTrue == Spec => []LinksMatchRows
  <1>1. IInv => LinksMatchRows
    BY DEF IInv
  <1> QED
    BY <1>1, Invariant, PTL

\* A walk keeps pace with the rows it covers, whatever is written meanwhile
\* (list_settings, Pagination::offset, ORDER BY key LIMIT OFFSET).
THEOREM WalksKeepPace == Spec => []KeepsPace
  <1>1. IInv => KeepsPace
    BY DEF IInv
  <1> QED
    BY <1>1, Invariant, PTL

\* A walk from page 1 that ended misses no key while no row went away: what it
\* covered reaches the end of the table.
THEOREM NoKeyIsMissed == Spec => []NothingMissed
  <1>1. IInv => NothingMissed
    <2> SUFFICES ASSUME IInv, Done, removed = {}, NEW k \in Keys
                 PROVE  Listed(k) >= Holding(k, atStart)
      BY DEF NothingMissed
    <2>1. PICK q \in query : TRUE
      BY DEF Done
    <2> DEFINE V == VisiblePlaces(q, table)
    <2>2. V \in SUBSET Places /\ atStart \in SUBSET Places
      BY VisibleFacts DEF IInv, TypeOK
    <2>3. /\ atStart \subseteq V /\ Cardinality(V) <= page * size
          /\ Listed(k) >= Holding(k, atStart) \/ Listed(k) + Below(k, V) >= page * size
      BY DEF IInv, Grounds, KeepsPace, Covered
    <2> HIDE DEF V
    <2>4. /\ Below(k, V) \in Nat /\ Holding(k, V) \in Nat /\ Holding(k, atStart) \in Nat
          /\ Holding(k, atStart) <= Holding(k, V)
      BY <2>2, <2>3, Counted
    <2>5. Below(k, V) + Holding(k, V) <= Cardinality(V)
      BY <2>2, BelowAndHolding, Parameters
    <2>6. page * size \in Int /\ Cardinality(V) \in Nat /\ Listed(k) \in Nat
      <3>1. page \in Nat /\ size \in Nat
        BY DEF IInv, TypeOK
      <3>2. IsFiniteSet(V)
        BY <2>2, PagesAssumption, FS_Subset
      <3>3. Listed(k) \in Nat
        BY ListedCounts, CountOfPages DEF IInv, TypeOK
      <3> QED
        BY <3>1, <3>2, <3>3, FS_CardinalityType
    <2> QED
      BY <2>3, <2>4, <2>5, <2>6
  <1> QED
    BY <1>1, Invariant, PTL

\* A walk from page 1 lists no row twice while no row is added.
THEOREM NoKeyIsRepeated == Spec => []NothingTwice
  <1>1. IInv => NothingTwice
    <2> SUFFICES ASSUME IInv, added = {}, atStart # {}, NEW k \in Keys
                 PROVE  Listed(k) <= Holding(k, atStart)
      BY DEF NothingTwice
    <2>1. PICK q \in query : TRUE
      BY DEF IInv, OneSearch
    <2> QED
      BY <2>1 DEF IInv, KeepsPace
  <1> QED
    BY <1>1, Invariant, PTL
=============================================================================
