--------------------------- MODULE MergePatchProofs ---------------------------
(***************************************************************************)
(* Theorems about MergePatch, for values nested to any depth.  Each        *)
(* recursive function of the module is shown to exist and to satisfy its   *)
(* equation; the rest is induction on the depth.                           *)
(***************************************************************************)
EXTENDS MergePatch, DataLemmas

-----------------------------------------------------------------------------
(* Values by depth.                                                        *)

NestedStep(it, n) == IF n = 0 THEN Leaves ELSE Leaves \cup ObjectsOver(it[n - 1])

Nests(it, k) == \A n \in 0 .. MaxDepth : n <= k => it[n] = NestedStep(it, n)

LEMMA NestsExist == \A k \in Nat : \E it : Nests(it, k)
  <1> DEFINE T == {k \in Nat : \E it : Nests(it, k)}
  <1>1. 0 \in T
    <2>1. Nests([n \in 0 .. MaxDepth |-> Leaves], 0)
      BY SizeAssumption DEF Nests, NestedStep
    <2> QED
      BY <2>1
  <1>2. ASSUME NEW k \in Nat, k \in T
        PROVE  k + 1 \in T
    <2>1. PICK it : Nests(it, k)
      BY <1>2
    <2> DEFINE next == [n \in 0 .. MaxDepth |-> NestedStep(it, n)]
    <2>2. \A n \in 0 .. MaxDepth : n <= k => next[n] = it[n]
      BY <2>1 DEF Nests
    <2>3. ASSUME NEW n \in 0 .. MaxDepth, n <= k + 1
          PROVE  next[n] = NestedStep(next, n)
      <3>1. n # 0 => n - 1 \in 0 .. MaxDepth /\ n - 1 <= k
        BY <2>3, SizeAssumption
      <3>2. n # 0 => next[n - 1] = it[n - 1]
        BY <2>2, <3>1
      <3> QED
        BY <3>2 DEF NestedStep
    <2>4. Nests(next, k + 1)
      BY <2>3 DEF Nests
    <2> QED
      BY <2>4
  <1> HIDE DEF T
  <1>3. Nat \subseteq T
    BY <1>1, <1>2, NumbersByInduction
  <1> QED
    BY <1>3 DEF T

LEMMA NestedEquation == \A n \in 0 .. MaxDepth : Nested[n] = NestedStep(Nested, n)
  <1> DEFINE Body(it) == [n \in 0 .. MaxDepth |-> NestedStep(it, n)]
  <1>1. Nested = CHOOSE it : it = Body(it)
    BY DEF Nested, NestedStep
  <1>2. PICK it : Nests(it, MaxDepth)
    BY NestsExist, SizeAssumption
  <1>3. \A n \in 0 .. MaxDepth : Body(it)[n] = it[n]
    BY <1>2, SizeAssumption DEF Nests
  <1>4. \A n \in 0 .. MaxDepth : NestedStep(Body(it), n) = NestedStep(it, n)
    <2> TAKE n \in 0 .. MaxDepth
    <2>1. n # 0 => n - 1 \in 0 .. MaxDepth
      BY SizeAssumption
    <2>2. n # 0 => Body(it)[n - 1] = it[n - 1]
      BY <1>3, <2>1
    <2> QED
      BY <2>2 DEF NestedStep
  <1>5. Body(it) = Body(Body(it))
    BY <1>4
  <1>6. Nested = Body(Nested)
    BY <1>1, <1>5
  <1> QED
    BY <1>6

\* The parts of an object over some values.
LEMMA Apart ==
    ASSUME NEW V, NEW v \in ObjectsOver(V)
    PROVE  /\ IsObject(v) /\ v = Object(v.of)
           /\ Members(v) \in SUBSET Names
           /\ v.of \in [Members(v) -> V]
  <1>1. PICK f \in UNION {[ns -> V] : ns \in SUBSET Names} : v = Object(f)
    BY DEF ObjectsOver
  <1>2. PICK ns \in SUBSET Names : f \in [ns -> V]
    BY <1>1
  <1> QED
    BY <1>1, <1>2 DEF IsObject, Members, Object

LEMMA LeavesAreNoObjects ==
    \A v \in Leaves : ~ IsObject(v)
  BY DEF Leaves, IsObject, Null, Scalar

\* What it means to be nested d deep.
LEMMA Shape ==
    ASSUME NEW d \in 0 .. MaxDepth, NEW v \in Nested[d], IsObject(v)
    PROVE  /\ d > 0 /\ d - 1 \in 0 .. MaxDepth
           /\ v = Object(v.of)
           /\ Members(v) \in SUBSET Names
           /\ v.of \in [Members(v) -> Nested[d - 1]]
  <1>1. v \notin Leaves
    BY LeavesAreNoObjects
  <1>2. d # 0 /\ v \in ObjectsOver(Nested[d - 1])
    BY <1>1, NestedEquation DEF NestedStep
  <1>3. d > 0 /\ d - 1 \in 0 .. MaxDepth
    BY <1>2, SizeAssumption
  <1> QED
    BY <1>2, <1>3, Apart

LEMMA Build ==
    ASSUME NEW d \in 1 .. MaxDepth, NEW ns \in SUBSET Names, NEW f \in [ns -> Nested[d - 1]]
    PROVE  /\ Object(f) \in Nested[d]
           /\ IsObject(Object(f)) /\ Members(Object(f)) = ns /\ Object(f).of = f
  <1>1. d \in 0 .. MaxDepth /\ d # 0
    BY SizeAssumption
  <1>2. Nested[d] = Leaves \cup ObjectsOver(Nested[d - 1])
    BY <1>1, NestedEquation DEF NestedStep
  <1>3. f \in UNION {[ms -> Nested[d - 1]] : ms \in SUBSET Names}
    OBVIOUS
  <1>4. Object(f) \in ObjectsOver(Nested[d - 1])
    BY <1>3 DEF ObjectsOver
  <1> QED
    BY <1>2, <1>4 DEF IsObject, Members, Object

LEMMA NullEverywhere == \A d \in 0 .. MaxDepth : Null \in Nested[d] /\ ~ IsObject(Null) /\ IsNull(Null)
  BY NestedEquation DEF NestedStep, Leaves, IsObject, IsNull, Null

\* A value nested d deep is one nested deeper.
LEMMA Deeper == \A d \in 0 .. MaxDepth : d < MaxDepth => Nested[d] \subseteq Nested[d + 1]
  <1> DEFINE T == {d \in Nat : d < MaxDepth => Nested[d] \subseteq Nested[d + 1]}
  <1>1. 0 \in T
    <2>1. 0 \in 0 .. MaxDepth /\ (0 < MaxDepth => 1 \in 0 .. MaxDepth)
      BY SizeAssumption
    <2>2. Nested[0] = Leaves
      BY <2>1, NestedEquation DEF NestedStep
    <2>3. 0 < MaxDepth => Leaves \subseteq Nested[1]
      BY <2>1, NestedEquation DEF NestedStep
    <2> QED
      BY <2>2, <2>3
  <1>2. ASSUME NEW d \in Nat, d \in T, d + 1 < MaxDepth
        PROVE  Nested[d + 1] \subseteq Nested[d + 2]
    <2>1. Nested[d] \subseteq Nested[d + 1]
      BY <1>2, SizeAssumption
    <2>2. d + 1 \in 0 .. MaxDepth /\ d + 2 \in 0 .. MaxDepth /\ d + 2 \in 1 .. MaxDepth
      BY <1>2, SizeAssumption
    <2>3. ASSUME NEW v \in Nested[d + 1]
          PROVE  v \in Nested[d + 2]
      <3>1. CASE IsObject(v)
        <4>1. v = Object(v.of) /\ Members(v) \in SUBSET Names
              /\ v.of \in [Members(v) -> Nested[d]]
          BY <2>2, <3>1, Shape
        <4>2. v.of \in [Members(v) -> Nested[d + 1]]
          BY <2>1, <4>1
        <4>3. v.of \in [Members(v) -> Nested[(d + 2) - 1]]
          BY <4>2
        <4>4. Object(v.of) \in Nested[d + 2]
          BY <2>2, <4>1, <4>3, Build
        <4> QED
          BY <4>1, <4>4
      <3>2. CASE ~ IsObject(v)
        <4>1. v \in Leaves
          BY <2>2, <2>3, <3>2, NestedEquation, Apart DEF NestedStep
        <4> QED
          BY <2>2, <4>1, NestedEquation DEF NestedStep
      <3> QED
        BY <3>1, <3>2
    <2> QED
      BY <2>3
  <1>3. ASSUME NEW d \in Nat, d \in T
        PROVE  d + 1 \in T
    BY <1>2, <1>3
  <1> HIDE DEF T
  <1>4. Nat \subseteq T
    BY <1>1, <1>3, NumbersByInduction
  <1> QED
    BY <1>4, SizeAssumption DEF T

LEMMA AllAreValues == \A d \in 0 .. MaxDepth : Nested[d] \subseteq Values
  <1> DEFINE T == {k \in Nat : k <= MaxDepth => Nested[MaxDepth - k] \subseteq Values}
  <1>1. 0 \in T
    BY SizeAssumption DEF Values
  <1>2. ASSUME NEW k \in Nat, k \in T
        PROVE  k + 1 \in T
    <2> SUFFICES ASSUME k + 1 <= MaxDepth
                 PROVE  Nested[MaxDepth - (k + 1)] \subseteq Values
      OBVIOUS
    <2> DEFINE d == MaxDepth - (k + 1)
    <2>1. d \in 0 .. MaxDepth /\ d < MaxDepth /\ d + 1 = MaxDepth - k
      BY SizeAssumption
    <2>2. Nested[d] \subseteq Nested[d + 1]
      BY <2>1, Deeper
    <2>3. Nested[d + 1] \subseteq Values
      BY <1>2, <2>1, SizeAssumption
    <2> QED
      BY <2>2, <2>3
  <1> HIDE DEF T
  <1>3. Nat \subseteq T
    BY <1>1, <1>2, NumbersByInduction
  <1>4. ASSUME NEW d \in 0 .. MaxDepth
        PROVE  Nested[d] \subseteq Values
    <2>1. MaxDepth - d \in T /\ MaxDepth - (MaxDepth - d) = d /\ MaxDepth - d <= MaxDepth
      BY <1>3, SizeAssumption
    <2> QED
      BY <2>1 DEF T
  <1> QED
    BY <1>4

\* The members of a value are nested less deep, and are values.
LEMMA Inner ==
    ASSUME NEW d \in 0 .. MaxDepth, NEW v \in Nested[d], IsObject(v), NEW n \in Members(v)
    PROVE  d > 0 /\ d - 1 \in 0 .. MaxDepth /\ v.of[n] \in Nested[d - 1]
  BY Shape

LEMMA MembersAreValues ==
    ASSUME NEW v \in Values, IsObject(v), NEW n \in Members(v)
    PROVE  v.of[n] \in Values
  BY Inner, AllAreValues, SizeAssumption DEF Values

-----------------------------------------------------------------------------
(* The recursive functions, and their equations.                           *)

\* merge_patch, one level.
MergeStep(it, patch) ==
    [base \in Values |->
        IF IsObject(base) /\ IsObject(patch)
        THEN LET kept == Members(base) \ Members(patch)
                 set  == {n \in Members(patch) : ~ IsNull(patch.of[n])}
             IN  Object([n \in kept \cup set |->
                    IF n \in kept THEN base.of[n]
                    ELSE IF n \in Members(base)
                         THEN it[patch.of[n]][base.of[n]]
                         ELSE patch.of[n]])
        ELSE patch]

LEMMA MergeAgree ==
    ASSUME NEW it, NEW jt, NEW patch \in Values,
           IsObject(patch) => \A n \in Members(patch) : it[patch.of[n]] = jt[patch.of[n]]
    PROVE  MergeStep(it, patch) = MergeStep(jt, patch)
  BY DEF MergeStep

LEMMA MergeExists ==
    \A k \in Nat : k <= MaxDepth =>
        \E it : \A patch \in Nested[k] : it[patch] = MergeStep(it, patch)
  <1> DEFINE Fits(it, k) == \A patch \in Nested[k] : it[patch] = MergeStep(it, patch)
             Round(it) == [patch \in Values |-> MergeStep(it, patch)]
             T == {k \in Nat : k <= MaxDepth => \E it : Fits(it, k)}
  <1>1. 0 \in T
    <2>1. \A patch \in Nested[0] : ~ IsObject(patch)
      BY Shape, SizeAssumption
    <2>2. ASSUME NEW it, NEW patch \in Nested[0] 
          PROVE  Round(it)[patch] = MergeStep(Round(it), patch)
      <3>1. patch \in Values
        BY AllAreValues, SizeAssumption 
      <3> QED
        BY <2>1, <3>1, MergeAgree
    <2>3. Fits(Round(Null), 0)
      BY <2>2
    <2> QED
      BY <2>3
  <1>2. ASSUME NEW k \in Nat, k \in T
        PROVE  k + 1 \in T
    <2> SUFFICES ASSUME k + 1 <= MaxDepth
                 PROVE  \E it : Fits(it, k + 1)
      OBVIOUS
    <2>1. k \in 0 .. MaxDepth /\ k + 1 \in 0 .. MaxDepth
      BY SizeAssumption
    <2>2. PICK it : Fits(it, k)
      BY <1>2, <2>1
    <2>3. \A patch \in Nested[k] : Round(it)[patch] = it[patch]
      BY <2>1, <2>2, AllAreValues 
    <2>4. ASSUME NEW patch \in Nested[k + 1] 
          PROVE  Round(it)[patch] = MergeStep(Round(it), patch)
      <3>1. patch \in Values
        BY <2>1, AllAreValues 
      <3>2. IsObject(patch) => \A n \in Members(patch) : patch.of[n] \in Nested[k]
        BY <2>1, Inner
      <3>3. IsObject(patch) => \A n \in Members(patch) :
                Round(it)[patch.of[n]] = it[patch.of[n]]
        BY <2>3, <3>2
      <3>4. MergeStep(Round(it), patch) = MergeStep(it, patch)
        BY <3>1, <3>3, MergeAgree
      <3> QED
        BY <3>1, <3>4
    <2>5. Fits(Round(it), k + 1)
      BY <2>4
    <2> QED
      BY <2>5
  <1> HIDE DEF T
  <1>3. Nat \subseteq T
    BY <1>1, <1>2, NumbersByInduction
  <1> QED
    BY <1>3 DEF T

LEMMA MergeEquation == \A patch \in Values : merge[patch] = MergeStep(merge, patch)
  <1> DEFINE Body(it) == [patch \in Values |-> MergeStep(it, patch)]
  <1>1. merge = CHOOSE it : it = Body(it)
    BY DEF merge, MergeStep
  <1>2. PICK it : \A patch \in Values : it[patch] = MergeStep(it, patch)
    BY MergeExists, SizeAssumption DEF Values
  <1>3. \A patch \in Values : Body(it)[patch] = it[patch]
    BY <1>2
  <1>4. ASSUME NEW patch \in Values
        PROVE  MergeStep(Body(it), patch) = MergeStep(it, patch)
    <2>1. IsObject(patch) => \A n \in Members(patch) : patch.of[n] \in Values
      BY MembersAreValues
    <2> QED
      BY <1>3, <2>1, MergeAgree
  <1>5. Body(it) = Body(Body(it))
    BY <1>4
  <1>6. merge = Body(merge)
    BY <1>1, <1>5
  <1> QED
    BY <1>6

\* The merge of RFC 7396, one level.
RFCStep(it, patch) ==
    [target \in Values |->
        IF ~ IsObject(patch) THEN patch
        ELSE LET into == IF IsObject(target) THEN target ELSE Empty
                 dropped == {n \in Members(patch) : IsNull(patch.of[n])}
                 both == (Members(into) \cup Members(patch)) \ dropped
             IN  Object([n \in both |->
                    IF n \notin Members(patch) THEN into.of[n]
                    ELSE it[patch.of[n]][Under(into, n)]])]

LEMMA RFCAgree ==
    ASSUME NEW it, NEW jt, NEW patch \in Values,
           IsObject(patch) => \A n \in Members(patch) : it[patch.of[n]] = jt[patch.of[n]]
    PROVE  RFCStep(it, patch) = RFCStep(jt, patch)
  BY DEF RFCStep

LEMMA RFCExists ==
    \A k \in Nat : k <= MaxDepth =>
        \E it : \A patch \in Nested[k] : it[patch] = RFCStep(it, patch)
  <1> DEFINE Fits(it, k) == \A patch \in Nested[k] : it[patch] = RFCStep(it, patch)
             Round(it) == [patch \in Values |-> RFCStep(it, patch)]
             T == {k \in Nat : k <= MaxDepth => \E it : Fits(it, k)}
  <1>1. 0 \in T
    <2>1. \A patch \in Nested[0] : ~ IsObject(patch)
      BY Shape, SizeAssumption
    <2>2. ASSUME NEW it, NEW patch \in Nested[0] 
          PROVE  Round(it)[patch] = RFCStep(Round(it), patch)
      <3>1. patch \in Values
        BY AllAreValues, SizeAssumption 
      <3> QED
        BY <2>1, <3>1, RFCAgree
    <2>3. Fits(Round(Null), 0)
      BY <2>2
    <2> QED
      BY <2>3
  <1>2. ASSUME NEW k \in Nat, k \in T
        PROVE  k + 1 \in T
    <2> SUFFICES ASSUME k + 1 <= MaxDepth
                 PROVE  \E it : Fits(it, k + 1)
      OBVIOUS
    <2>1. k \in 0 .. MaxDepth /\ k + 1 \in 0 .. MaxDepth
      BY SizeAssumption
    <2>2. PICK it : Fits(it, k)
      BY <1>2, <2>1
    <2>3. \A patch \in Nested[k] : Round(it)[patch] = it[patch]
      BY <2>1, <2>2, AllAreValues 
    <2>4. ASSUME NEW patch \in Nested[k + 1] 
          PROVE  Round(it)[patch] = RFCStep(Round(it), patch)
      <3>1. patch \in Values
        BY <2>1, AllAreValues 
      <3>2. IsObject(patch) => \A n \in Members(patch) : patch.of[n] \in Nested[k]
        BY <2>1, Inner
      <3>3. IsObject(patch) => \A n \in Members(patch) :
                Round(it)[patch.of[n]] = it[patch.of[n]]
        BY <2>3, <3>2
      <3>4. RFCStep(Round(it), patch) = RFCStep(it, patch)
        BY <3>1, <3>3, RFCAgree
      <3> QED
        BY <3>1, <3>4
    <2>5. Fits(Round(it), k + 1)
      BY <2>4
    <2> QED
      BY <2>5
  <1> HIDE DEF T
  <1>3. Nat \subseteq T
    BY <1>1, <1>2, NumbersByInduction
  <1> QED
    BY <1>3 DEF T

LEMMA RFCEquation == \A patch \in Values : mergeRFC7396[patch] = RFCStep(mergeRFC7396, patch)
  <1> DEFINE Body(it) == [patch \in Values |-> RFCStep(it, patch)]
  <1>1. mergeRFC7396 = CHOOSE it : it = Body(it)
    BY DEF mergeRFC7396, RFCStep
  <1>2. PICK it : \A patch \in Values : it[patch] = RFCStep(it, patch)
    BY RFCExists, SizeAssumption DEF Values
  <1>3. \A patch \in Values : Body(it)[patch] = it[patch]
    BY <1>2
  <1>4. ASSUME NEW patch \in Values
        PROVE  RFCStep(Body(it), patch) = RFCStep(it, patch)
    <2>1. IsObject(patch) => \A n \in Members(patch) : patch.of[n] \in Values
      BY MembersAreValues
    <2> QED
      BY <1>3, <2>1, RFCAgree
  <1>5. Body(it) = Body(Body(it))
    BY <1>4
  <1>6. mergeRFC7396 = Body(mergeRFC7396)
    BY <1>1, <1>5
  <1> QED
    BY <1>6

\* copiesNull, one level.
CopyStep(it, patch) ==
    [base \in Values |->
        IsObject(patch) /\ \E n \in Members(patch) :
            \/ IsNull(patch.of[n]) /\ ~ IsObject(base)
            \/ it[patch.of[n]][Under(base, n)]]

LEMMA CopyAgree ==
    ASSUME NEW it, NEW jt, NEW patch \in Values,
           IsObject(patch) => \A n \in Members(patch) : it[patch.of[n]] = jt[patch.of[n]]
    PROVE  CopyStep(it, patch) = CopyStep(jt, patch)
  BY DEF CopyStep

LEMMA CopyExists ==
    \A k \in Nat : k <= MaxDepth =>
        \E it : \A patch \in Nested[k] : it[patch] = CopyStep(it, patch)
  <1> DEFINE Fits(it, k) == \A patch \in Nested[k] : it[patch] = CopyStep(it, patch)
             Round(it) == [patch \in Values |-> CopyStep(it, patch)]
             T == {k \in Nat : k <= MaxDepth => \E it : Fits(it, k)}
  <1>1. 0 \in T
    <2>1. \A patch \in Nested[0] : ~ IsObject(patch)
      BY Shape, SizeAssumption
    <2>2. ASSUME NEW it, NEW patch \in Nested[0] 
          PROVE  Round(it)[patch] = CopyStep(Round(it), patch)
      <3>1. patch \in Values
        BY AllAreValues, SizeAssumption 
      <3> QED
        BY <2>1, <3>1, CopyAgree
    <2>3. Fits(Round(Null), 0)
      BY <2>2
    <2> QED
      BY <2>3
  <1>2. ASSUME NEW k \in Nat, k \in T
        PROVE  k + 1 \in T
    <2> SUFFICES ASSUME k + 1 <= MaxDepth
                 PROVE  \E it : Fits(it, k + 1)
      OBVIOUS
    <2>1. k \in 0 .. MaxDepth /\ k + 1 \in 0 .. MaxDepth
      BY SizeAssumption
    <2>2. PICK it : Fits(it, k)
      BY <1>2, <2>1
    <2>3. \A patch \in Nested[k] : Round(it)[patch] = it[patch]
      BY <2>1, <2>2, AllAreValues 
    <2>4. ASSUME NEW patch \in Nested[k + 1] 
          PROVE  Round(it)[patch] = CopyStep(Round(it), patch)
      <3>1. patch \in Values
        BY <2>1, AllAreValues 
      <3>2. IsObject(patch) => \A n \in Members(patch) : patch.of[n] \in Nested[k]
        BY <2>1, Inner
      <3>3. IsObject(patch) => \A n \in Members(patch) :
                Round(it)[patch.of[n]] = it[patch.of[n]]
        BY <2>3, <3>2
      <3>4. CopyStep(Round(it), patch) = CopyStep(it, patch)
        BY <3>1, <3>3, CopyAgree
      <3> QED
        BY <3>1, <3>4
    <2>5. Fits(Round(it), k + 1)
      BY <2>4
    <2> QED
      BY <2>5
  <1> HIDE DEF T
  <1>3. Nat \subseteq T
    BY <1>1, <1>2, NumbersByInduction
  <1> QED
    BY <1>3 DEF T

LEMMA CopyEquation == \A patch \in Values : copiesNull[patch] = CopyStep(copiesNull, patch)
  <1> DEFINE Body(it) == [patch \in Values |-> CopyStep(it, patch)]
  <1>1. copiesNull = CHOOSE it : it = Body(it)
    BY DEF copiesNull, CopyStep
  <1>2. PICK it : \A patch \in Values : it[patch] = CopyStep(it, patch)
    BY CopyExists, SizeAssumption DEF Values
  <1>3. \A patch \in Values : Body(it)[patch] = it[patch]
    BY <1>2
  <1>4. ASSUME NEW patch \in Values
        PROVE  CopyStep(Body(it), patch) = CopyStep(it, patch)
    <2>1. IsObject(patch) => \A n \in Members(patch) : patch.of[n] \in Values
      BY MembersAreValues
    <2> QED
      BY <1>3, <2>1, CopyAgree
  <1>5. Body(it) = Body(Body(it))
    BY <1>4
  <1>6. copiesNull = Body(copiesNull)
    BY <1>1, <1>5
  <1> QED
    BY <1>6

-----------------------------------------------------------------------------
(* The merges, name by name.                                               *)

\* The members that a patch sets, and those of a base it can be merged into.
Sets(patch) == {n \in Members(patch) : ~ IsNull(patch.of[n])}
Has(base) == IF IsObject(base) THEN Members(base) ELSE {}

\* What is under a name of two merged objects, given what its members merge to.
Either(it, base, patch) ==
    [n \in (Members(base) \ Members(patch)) \cup Sets(patch) |->
        IF n \in Members(patch) THEN it[patch.of[n]][Under(base, n)] ELSE base.of[n]]

LEMMA UnderIsNested ==
    ASSUME NEW d \in 1 .. MaxDepth, NEW b \in Nested[d], NEW n
    PROVE  Under(b, n) \in Nested[d - 1]
  <1>1. d \in 0 .. MaxDepth /\ d - 1 \in 0 .. MaxDepth
    BY SizeAssumption
  <1> QED
    BY <1>1, Inner, NullEverywhere DEF Under

LEMMA UnderIsValue ==
    ASSUME NEW b \in Values, NEW n
    PROVE  Under(b, n) \in Values
  <1>1. Null \in Values
    BY NullEverywhere, SizeAssumption DEF Values
  <1> QED
    BY <1>1, MembersAreValues DEF Under

LEMMA NotMerged ==
    ASSUME NEW b \in Values, NEW p \in Values, ~ IsObject(b) \/ ~ IsObject(p)
    PROVE  Merged(b, p) = p
  BY MergeEquation DEF Merged, MergeStep

LEMMA MergedObjects ==
    ASSUME NEW b \in Values, NEW p \in Values, IsObject(b), IsObject(p)
    PROVE  Merged(b, p) = Object(Either(merge, b, p))
  <1> DEFINE kept == Members(b) \ Members(p)
             f == [n \in kept \cup Sets(p) |->
                    IF n \in kept THEN b.of[n]
                    ELSE IF n \in Members(b) THEN merge[p.of[n]][b.of[n]] ELSE p.of[n]]
  <1>1. Merged(b, p) = Object(f)
    BY MergeEquation DEF Merged, MergeStep, Sets
  <1>2. ASSUME NEW n \in Members(p), n \notin Members(b)
        PROVE  p.of[n] = merge[p.of[n]][Under(b, n)]
    <2>1. p.of[n] \in Values /\ Under(b, n) = Null /\ Null \in Values /\ ~ IsObject(Null)
      BY <1>2, MembersAreValues, NullEverywhere, SizeAssumption DEF Under, Values
    <2> QED
      BY <2>1, NotMerged DEF Merged
  <1>3. f = Either(merge, b, p)
    BY <1>2 DEF Either, Sets, Under
  <1> QED
    BY <1>1, <1>3

LEMMA NotMergedRFC ==
    ASSUME NEW b \in Values, NEW p \in Values, ~ IsObject(p)
    PROVE  MergedRFC7396(b, p) = p
  BY RFCEquation DEF MergedRFC7396, RFCStep

\* The RFC merges into an empty object what the code copies.
EitherRFC(it, base, patch) ==
    [n \in (Has(base) \ Members(patch)) \cup Sets(patch) |->
        IF n \in Members(patch) THEN it[patch.of[n]][Under(base, n)] ELSE base.of[n]]

LEMMA MergedObjectsRFC ==
    ASSUME NEW b \in Values, NEW p \in Values, IsObject(p)
    PROVE  MergedRFC7396(b, p) = Object(EitherRFC(mergeRFC7396, b, p))
  <1> DEFINE into == IF IsObject(b) THEN b ELSE Empty
             dropped == {n \in Members(p) : IsNull(p.of[n])}
             both == (Members(into) \cup Members(p)) \ dropped
             f == [n \in both |-> IF n \notin Members(p) THEN into.of[n]
                                  ELSE mergeRFC7396[p.of[n]][Under(into, n)]]
  <1>1. MergedRFC7396(b, p) = Object(f)
    BY RFCEquation DEF MergedRFC7396, RFCStep
  <1>2. Members(into) = Has(b) /\ \A n : Under(into, n) = Under(b, n)
    BY DEF Has, Under, Empty, Members, Object, IsObject
  <1>3. both = (Has(b) \ Members(p)) \cup Sets(p)
    BY <1>2 DEF Sets
  <1>4. \A n \in both : n \notin Members(p) => into.of[n] = b.of[n]
    BY <1>2, <1>3 DEF Has, Sets
  <1>5. f = EitherRFC(mergeRFC7396, b, p)
    BY <1>2, <1>3, <1>4 DEF EitherRFC
  <1> QED
    BY <1>1, <1>5

LEMMA Copies ==
    ASSUME NEW b \in Values, NEW p \in Values
    PROVE  /\ CopiesNull(b, p) \in BOOLEAN
           /\ CopiesNull(b, p) <=>
                IsObject(p) /\ \E n \in Members(p) :
                    \/ IsNull(p.of[n]) /\ ~ IsObject(b)
                    \/ CopiesNull(Under(b, n), p.of[n])
  BY CopyEquation DEF CopiesNull, CopyStep

-----------------------------------------------------------------------------
(* Induction on the depth.                                                 *)

LEMMA DepthInduction ==
    ASSUME NEW T, \A d \in 0 .. MaxDepth : (d # 0 => d - 1 \in T) => d \in T
    PROVE  0 .. MaxDepth \subseteq T
  <1> DEFINE S == {k \in Nat : k <= MaxDepth => k \in T}
  <1>1. 0 \in S
    BY SizeAssumption
  <1>2. ASSUME NEW k \in Nat, k \in S
        PROVE  k + 1 \in S
    <2>1. k + 1 <= MaxDepth => k + 1 \in 0 .. MaxDepth /\ k \in T /\ (k + 1) - 1 = k
      BY <1>2, SizeAssumption
    <2> QED
      BY <2>1
  <1> HIDE DEF S
  <1>3. Nat \subseteq S
    BY <1>1, <1>2, NumbersByInduction
  <1> QED
    BY <1>3, SizeAssumption DEF S

\* A merge is nested no deeper than its parts.
LEMMA MergeStaysNested ==
    \A d \in 0 .. MaxDepth : \A b, p \in Nested[d] : Merged(b, p) \in Nested[d]
  <1> DEFINE Goal(d) == \A b, p \in Nested[d] : Merged(b, p) \in Nested[d]
             T == {d \in 0 .. MaxDepth : Goal(d)}
  <1>1. ASSUME NEW d \in 0 .. MaxDepth, d # 0 => Goal(d - 1)
        PROVE  Goal(d)
    <2> SUFFICES ASSUME NEW b \in Nested[d], NEW p \in Nested[d]
                 PROVE  Merged(b, p) \in Nested[d]
      OBVIOUS
    <2>1. b \in Values /\ p \in Values
      BY AllAreValues
    <2>2. CASE ~ IsObject(b) \/ ~ IsObject(p)
      BY <2>1, <2>2, NotMerged
    <2>3. CASE IsObject(b) /\ IsObject(p)
      <3> DEFINE ns == (Members(b) \ Members(p)) \cup Sets(p)
                 f == Either(merge, b, p)
      <3>1. d \in 1 .. MaxDepth /\ d - 1 \in 0 .. MaxDepth
        BY <2>3, Shape, SizeAssumption
      <3>2. ns \in SUBSET Names
        BY <2>3, Shape DEF Sets
      <3>3. ASSUME NEW n \in Members(p)
            PROVE  merge[p.of[n]][Under(b, n)] \in Nested[d - 1]
        <4>1. p.of[n] \in Nested[d - 1] /\ Under(b, n) \in Nested[d - 1]
          BY <2>3, <3>1, Inner, UnderIsNested
        <4>2. Merged(Under(b, n), p.of[n]) \in Nested[d - 1]
          BY <1>1, <3>1, <4>1
        <4> QED
          BY <4>2 DEF Merged
      <3>4. ASSUME NEW n \in Members(b)
            PROVE  b.of[n] \in Nested[d - 1]
        BY <2>3, Inner
      <3>5. f \in [ns -> Nested[d - 1]]
        BY <3>3, <3>4 DEF Either, Sets
      <3> HIDE DEF ns, f
      <3>6. Object(f) \in Nested[d]
        BY <3>1, <3>2, <3>5, Build
      <3> QED
        BY <2>1, <2>3, <3>6, MergedObjects DEF f
    <2> QED
      BY <2>2, <2>3
  <1> HIDE DEF Goal
  <1>2. \A d \in 0 .. MaxDepth : (d # 0 => d - 1 \in T) => d \in T
    BY <1>1
  <1> HIDE DEF T
  <1>3. 0 .. MaxDepth \subseteq T
    BY <1>2, DepthInduction
  <1> QED
    BY <1>3 DEF T, Goal

LEMMA ObjectsEqual ==
    ASSUME NEW f, NEW g
    PROVE  Object(f) = Object(g) <=> f = g
  BY DEF Object

\* The merge is that of the RFC if and only if no null is copied.
LEMMA MergesAgree ==
    \A d \in 0 .. MaxDepth : \A b, p \in Nested[d] :
        Merged(b, p) = MergedRFC7396(b, p) <=> ~ CopiesNull(b, p)
  <1> DEFINE Same(b, p) == Merged(b, p) = MergedRFC7396(b, p) <=> ~ CopiesNull(b, p)
             Goal(d) == \A b, p \in Nested[d] : Same(b, p)
             T == {d \in 0 .. MaxDepth : Goal(d)}
  <1>1. ASSUME NEW d \in 0 .. MaxDepth, d # 0 => Goal(d - 1),
               NEW b \in Nested[d], NEW p \in Nested[d]
        PROVE  Same(b, p)
    <2>1. b \in Values /\ p \in Values
      BY AllAreValues
    <2>2. CASE ~ IsObject(p)
      BY <2>1, <2>2, NotMerged, NotMergedRFC, Copies
    <2>3. CASE IsObject(p)
      <3>1. d \in 1 .. MaxDepth /\ d - 1 \in 0 .. MaxDepth
        BY <2>3, Shape, SizeAssumption
      <3>2. ASSUME NEW n \in Members(p)
            PROVE  /\ merge[p.of[n]][Under(b, n)] = mergeRFC7396[p.of[n]][Under(b, n)]
                        <=> ~ CopiesNull(Under(b, n), p.of[n])
                   /\ IsNull(p.of[n]) => ~ CopiesNull(Under(b, n), p.of[n])
                   /\ ~ IsObject(b) => merge[p.of[n]][Under(b, n)] = p.of[n]
        <4>1. p.of[n] \in Nested[d - 1] /\ Under(b, n) \in Nested[d - 1]
          BY <2>3, <3>1, Inner, UnderIsNested
        <4>2. p.of[n] \in Values /\ Under(b, n) \in Values
          BY <3>1, <4>1, AllAreValues
        <4>3. Same(Under(b, n), p.of[n])
          BY <1>1, <3>1, <4>1
        <4>4. IsNull(p.of[n]) => ~ IsObject(p.of[n])
          BY DEF IsNull, IsObject
        <4>5. ~ IsObject(b) => ~ IsObject(Under(b, n))
          BY NullEverywhere, SizeAssumption DEF Under
        <4> QED
          BY <4>2, <4>3, <4>4, <4>5, Copies, NotMerged DEF Merged, MergedRFC7396
      <3> DEFINE f == Either(merge, b, p)
                 g == EitherRFC(mergeRFC7396, b, p)
                 Alike == \A n \in Sets(p) :
                            merge[p.of[n]][Under(b, n)] = mergeRFC7396[p.of[n]][Under(b, n)]
      <3>3. MergedRFC7396(b, p) = Object(g)
        BY <2>1, <2>3, MergedObjectsRFC
      <3>4. CASE IsObject(b)
        <4>1. Merged(b, p) = Object(f)
          BY <2>1, <2>3, <3>4, MergedObjects
        <4>2. f = g <=> Alike
          BY <3>4 DEF Either, EitherRFC, Has, Sets
        <4>3. Alike <=> ~ CopiesNull(b, p)
          BY <2>1, <2>3, <3>2, <3>4, Copies DEF Sets
        <4> QED
          BY <3>3, <4>1, <4>2, <4>3, ObjectsEqual
      <3>5. CASE ~ IsObject(b)
        <4>1. Merged(b, p) = Object(p.of)
          BY <2>1, <2>3, <3>5, NotMerged, Shape
        <4>2. p.of = [n \in Members(p) |-> p.of[n]]
          BY <2>3, Shape
        <4>3. p.of = g <=> Alike /\ Sets(p) = Members(p)
          BY <3>2, <3>5, <4>2 DEF EitherRFC, Has, Sets, Members
        <4>4. Alike /\ Sets(p) = Members(p) <=> ~ CopiesNull(b, p)
          BY <2>1, <2>3, <3>2, <3>5, Copies DEF Sets
        <4> QED
          BY <3>3, <4>1, <4>3, <4>4, ObjectsEqual
      <3> QED
        BY <3>4, <3>5
    <2> QED
      BY <2>2, <2>3
  <1> HIDE DEF Same
  <1>2. \A d \in 0 .. MaxDepth : (d # 0 => d - 1 \in T) => d \in T
    BY <1>1
  <1> HIDE DEF T
  <1>3. 0 .. MaxDepth \subseteq T
    BY <1>2, DepthInduction
  <1> QED
    BY <1>3 DEF T, Same

\* A patch that copies no null has nothing left to do the second time.
LEMMA MergeTwice ==
    \A d \in 0 .. MaxDepth : \A b, p \in Nested[d] :
        ~ CopiesNull(b, p) => Merged(Merged(b, p), p) = Merged(b, p)
  <1> DEFINE Same(b, p) == ~ CopiesNull(b, p) => Merged(Merged(b, p), p) = Merged(b, p)
             Goal(d) == \A b, p \in Nested[d] : Same(b, p)
             T == {d \in 0 .. MaxDepth : Goal(d)}
  <1>1. ASSUME NEW d \in 0 .. MaxDepth, d # 0 => Goal(d - 1),
               NEW b \in Nested[d], NEW p \in Nested[d]
        PROVE  Same(b, p)
    <2> DEFINE m == Merged(b, p)
    <2>1. b \in Values /\ p \in Values /\ m \in Values
      BY AllAreValues, MergeStaysNested
    <2>2. CASE ~ IsObject(p)
      BY <2>1, <2>2, NotMerged
    <2>3. CASE IsObject(p) /\ ~ CopiesNull(b, p)
      <3>1. d \in 1 .. MaxDepth /\ d - 1 \in 0 .. MaxDepth
        BY <2>3, Shape, SizeAssumption
      <3>2. ASSUME NEW n \in Members(p)
            PROVE  LET at == merge[p.of[n]][Under(b, n)]
                   IN  /\ merge[p.of[n]][at] = at
                       /\ ~ IsObject(b) => at = p.of[n] /\ ~ IsNull(p.of[n])
        <4>1. p.of[n] \in Nested[d - 1] /\ Under(b, n) \in Nested[d - 1]
          BY <2>3, <3>1, Inner, UnderIsNested
        <4>2. p.of[n] \in Values /\ Under(b, n) \in Values
          BY <3>1, <4>1, AllAreValues
        <4>3. ~ CopiesNull(Under(b, n), p.of[n]) /\ (~ IsObject(b) => ~ IsNull(p.of[n]))
          BY <2>1, <2>3, Copies
        <4>4. Same(Under(b, n), p.of[n])
          BY <1>1, <3>1, <4>1
        <4>5. ~ IsObject(b) => ~ IsObject(Under(b, n))
          BY NullEverywhere, SizeAssumption DEF Under
        <4> QED
          BY <4>2, <4>3, <4>4, <4>5, NotMerged DEF Merged
      <3> DEFINE f == Either(merge, b, p)
                 g == Either(merge, m, p)
      <3>3. CASE IsObject(b)
        <4>1. m = Object(f)
          BY <2>1, <2>3, <3>3, MergedObjects
        <4>2. /\ IsObject(m) /\ m.of = f
              /\ Members(m) = (Members(b) \ Members(p)) \cup Sets(p)
          BY <4>1 DEF IsObject, Members, Object, Either
        <4>3. Merged(m, p) = Object(g)
          BY <2>1, <2>3, <4>2, MergedObjects
        <4>4. (Members(m) \ Members(p)) \cup Sets(p) = Members(m)
          BY <4>2 DEF Sets
        <4>5. ASSUME NEW n \in Members(m)
              PROVE  g[n] = f[n]
          <5>1. CASE n \in Members(p)
            <6>1. Under(m, n) = f[n] /\ f[n] = merge[p.of[n]][Under(b, n)]
              BY <4>2, <4>5, <5>1 DEF Under, Either
            <6>2. g[n] = merge[p.of[n]][Under(m, n)]
              BY <4>4, <4>5, <5>1 DEF Either
            <6> QED
              BY <3>2, <5>1, <6>1, <6>2
          <5>2. CASE n \notin Members(p)
            BY <4>2, <4>4, <4>5, <5>2 DEF Either
          <5> QED
            BY <5>1, <5>2
        <4>6. g = f
          BY <4>2, <4>4, <4>5 DEF Either
        <4> QED
          BY <4>1, <4>3, <4>6
      <3>4. CASE ~ IsObject(b)
        <4>1. m = p
          BY <2>1, <3>4, NotMerged
        <4>2. Merged(p, p) = Object(Either(merge, p, p))
          BY <2>1, <2>3, MergedObjects
        <4>3. Sets(p) = Members(p)
          BY <3>2, <3>4 DEF Sets
        <4>4. \A n \in Members(p) : merge[p.of[n]][Under(p, n)] = p.of[n]
          BY <2>3, <3>2, <3>4 DEF Under
        <4>5. p = Object(p.of) /\ p.of = [n \in Members(p) |-> p.of[n]]
          BY <2>3, Shape
        <4>6. Either(merge, p, p) = [n \in Members(p) |-> p.of[n]]
          BY <4>3, <4>4 DEF Either
        <4> QED
          BY <4>1, <4>2, <4>5, <4>6
      <3> QED
        BY <3>3, <3>4
    <2> QED
      BY <2>2, <2>3
  <1> HIDE DEF Same
  <1>2. \A d \in 0 .. MaxDepth : (d # 0 => d - 1 \in T) => d \in T
    BY <1>1
  <1> HIDE DEF T
  <1>3. 0 .. MaxDepth \subseteq T
    BY <1>2, DepthInduction
  <1> QED
    BY <1>3 DEF T, Same

-----------------------------------------------------------------------------
(* The specification.                                                      *)

\* The last patch, sent again, changes nothing or is refused again.
Settled ==
    /\ \A p, q \in last : p = q
    /\ \A p \in last :
          ~ copied => Merged(value, p) = value \/ ~ Accepted(Merged(value, p))

IInv == TypeOK /\ Settled

LEMMA MergedDocument ==
    ASSUME NEW b \in Documents, NEW p \in Documents
    PROVE  Merged(b, p) \in Values
  BY MergeStaysNested, SizeAssumption DEF Documents, Values

LEMMA ApplyKeeps ==
    ASSUME TypeOK, NEW p \in Documents, Accepted(p), Apply(p), last' = {p} \/ last' = last
    PROVE  /\ TypeOK'
           /\ ~ copied' => Merged(value', p) = value' \/ ~ Accepted(Merged(value', p))
  <1> DEFINE m == Merged(value, p)
  <1>1. value \in Documents /\ m \in Values /\ value \in Values /\ p \in Values
    BY MergedDocument DEF TypeOK, Documents
  <1>2. /\ Accepted(m) => value' = m
        /\ ~ Accepted(m) => value' = value
        /\ copied' = CopiesNull(value, p)
    BY DEF Apply
  <1>3. copied' \in BOOLEAN
    BY <1>1, <1>2, Copies
  <1>4. Accepted(m) => m \in Documents /\ size[m] <= MaxSize
    BY <1>1 DEF Accepted, Documents
  <1>5. value' \in Documents /\ size[value'] <= MaxSize
    BY <1>2, <1>4 DEF TypeOK
  <1>6. \A q \in last' : q \in Documents /\ size[q] <= MaxSize
    BY DEF TypeOK, Accepted
  <1>7. ~ CopiesNull(value, p) => Merged(m, p) = m
    BY <1>1, MergeTwice, SizeAssumption DEF Values
  <1> HIDE DEF m
  <1>8. ~ copied' => Merged(value', p) = value' \/ ~ Accepted(Merged(value', p))
    BY <1>2, <1>7 DEF m
  <1> QED
    BY <1>3, <1>5, <1>6, <1>8 DEF TypeOK

LEMMA InitInvariant == Init => IInv
  BY DEF Init, IInv, TypeOK, Settled, Accepted, Documents

LEMMA InvariantStep == IInv /\ [Next]_vars => IInv'
  <1> SUFFICES ASSUME IInv, [Next]_vars PROVE IInv'
    OBVIOUS
  <1>1. ASSUME NEW p \in Documents, Patch(p)
        PROVE  IInv'
    <2>1. Accepted(p) /\ Apply(p) /\ last' = {p}
      BY <1>1 DEF Patch
    <2> QED
      BY <2>1, ApplyKeeps DEF IInv, Settled
  <1>2. CASE Repeat
    <2>1. PICK p \in last : Apply(p)
      BY <1>2 DEF Repeat
    <2>2. last' = last
      BY <1>2 DEF Repeat
    <2>3. p \in Documents /\ Accepted(p)
      BY <2>1 DEF IInv, TypeOK, Accepted, Documents
    <2>4. TypeOK' /\ (~ copied' => Merged(value', p) = value' \/ ~ Accepted(Merged(value', p)))
      BY <2>1, <2>2, <2>3, ApplyKeeps DEF IInv
    <2>5. \A q \in last' : q = p
      BY <2>1, <2>2 DEF IInv, Settled
    <2> QED
      BY <2>4, <2>5 DEF IInv, Settled
  <1>3. CASE UNCHANGED vars
    BY <1>3 DEF IInv, TypeOK, Settled, vars
  <1> QED
    BY <1>1, <1>2, <1>3 DEF Next

LEMMA Invariant == Spec => []IInv
  BY InitInvariant, InvariantStep, PTL DEF Spec

\* The value stays an object, nested no deeper and no larger than SettingValue
\* admits (SettingValue::new, apply_partial): merges do not add depth.
THEOREM TypeCorrect == Spec => []TypeOK
  <1>1. IInv => TypeOK
    BY DEF IInv
  <1> QED
    BY <1>1, Invariant, PTL

\* merge_patch is the merge of RFC 7396, which its comment names, exactly for the
\* patches that copy no null, whatever the value.
THEOREM MergeIsThatOfTheRFC == Spec => []MergesLikeRFC7396
  <1>1. TypeOK => MergesLikeRFC7396
    BY MergesAgree, SizeAssumption DEF TypeOK, MergesLikeRFC7396, Documents, Values
  <1> QED
    BY <1>1, TypeCorrect, PTL

\* A client that lost the answer to a patch may send it again (apply_partial):
\* nothing changes, unless the patch copied nulls the first time.
THEOREM RepeatsAreHarmless == Spec => RepeatIsHarmless
  <1>1. ASSUME IInv, [Next]_vars, last' = last, ~ copied
        PROVE  UNCHANGED value
    <2>1. CASE UNCHANGED vars
      BY <2>1 DEF vars
    <2>2. ASSUME NEW p \in last, Apply(p)
          PROVE  UNCHANGED value
      BY <1>1, <2>2 DEF IInv, Settled, Apply
    <2>3. ASSUME NEW p \in Documents, Patch(p)
          PROVE  p \in last /\ Apply(p)
      BY <1>1, <2>3 DEF Patch
    <2>4. CASE Repeat
      BY <2>2, <2>4 DEF Repeat
    <2> QED
      BY <1>1, <2>1, <2>2, <2>3, <2>4 DEF Next
  <1>2. IInv /\ [Next]_vars => [last' = last /\ ~ copied => UNCHANGED value]_vars
    BY <1>1
  <1> QED
    BY <1>2, Invariant, PTL DEF Spec, RepeatIsHarmless

=============================================================================
