------------------------------ MODULE MergePatch ------------------------------
(***************************************************************************)
(* The merge behind PATCH (settings/model.rs): JSON objects of bounded     *)
(* depth, merged one into another, and a value that is patched again and   *)
(* again, also twice with one patch (a client that lost the answer reads   *)
(* the new version and sends its patch once more).                         *)
(*                                                                         *)
(* A JSON value is a record: null, a scalar (anything else that is not an  *)
(* object), or an object with its members.  Recursion is by functions, on  *)
(* the values nested at most MaxDepth deep: merge[patch][base] is what the *)
(* patch makes of the base.                                                *)
(***************************************************************************)
EXTENDS Naturals, FiniteSets, FiniteSetsExt

CONSTANTS
    Names,    \* names of members
    Scalars,
    MaxSize,  \* stands for MAX_VALUE_BYTES: most members in a value, nested ones too
    MaxDepth  \* how deep objects are nested; serde_json has such a limit when it parses

ASSUME SizeAssumption == MaxSize \in Nat /\ MaxDepth \in Nat

Null      == [type |-> "null"]
Scalar(x) == [type |-> "scalar", of |-> x]
Object(f) == [type |-> "object", of |-> f]

IsNull(v)   == v.type = "null"
IsObject(v) == v.type = "object"
Members(v)  == DOMAIN v.of

Leaves == {Null} \cup {Scalar(x) : x \in Scalars}

\* All objects whose members are among some values.
ObjectsOver(values) ==
    {Object(f) : f \in UNION {[ns -> values] : ns \in SUBSET Names}}

\* The values nested at most n deep.
Nested[n \in 0 .. MaxDepth] == IF n = 0 THEN Leaves ELSE Leaves \cup ObjectsOver(Nested[n - 1])

Values == Nested[MaxDepth]

Documents == {v \in Values : IsObject(v)}

\* Variants with a bug: a member of the patch replaces the one of the base; a
\* null that finds nothing to delete is kept.
MergedShallow(base, patch) ==
    IF IsObject(base) /\ IsObject(patch)
    THEN LET kept == Members(base) \ Members(patch)
             set  == {n \in Members(patch) : ~ IsNull(patch.of[n])}
         IN  Object([n \in kept \cup set |->
                IF n \in set THEN patch.of[n] ELSE base.of[n]])
    ELSE patch
mergeWithNulls[patch \in Values] ==
    [base \in Values |->
        IF IsObject(base) /\ IsObject(patch)
        THEN LET kept == Members(base) \ Members(patch)
                 set  == {n \in Members(patch) :
                            ~ IsNull(patch.of[n]) \/ n \notin Members(base)}
             IN  Object([n \in kept \cup set |->
                    IF n \in kept THEN base.of[n]
                    ELSE IF n \in Members(base)
                         THEN mergeWithNulls[patch.of[n]][base.of[n]]
                         ELSE patch.of[n]])
        ELSE patch]
MergedWithNulls(base, patch) == mergeWithNulls[patch][base]

\* merge_patch
merge[patch \in Values] ==
    [base \in Values |->
        IF IsObject(base) /\ IsObject(patch)
        THEN LET kept == Members(base) \ Members(patch)
                 set  == {n \in Members(patch) : ~ IsNull(patch.of[n])}
             IN  Object([n \in kept \cup set |->
                    IF n \in kept THEN base.of[n]
                    ELSE IF n \in Members(base)
                         THEN merge[patch.of[n]][base.of[n]]
                         ELSE patch.of[n]])
        ELSE patch]

Merged(base, patch) == merge[patch][base]

size[v \in Values] ==
    IF IsObject(v) THEN MapThenSumSet(LAMBDA n : 1 + size[v.of[n]], Members(v))
    ELSE 0

\* Variant with a bug: the size of a merged value is not checked.
AcceptedAnySize(v) == IsObject(v)

\* SettingValue::new
Accepted(v) == IsObject(v) /\ size[v] <= MaxSize

\* What a value has under a name.
Under(v, n) == IF IsObject(v) /\ n \in Members(v) THEN v.of[n] ELSE Null

\* Somewhere the patch has an object with a null inside it where the base has no
\* object to merge it with: the code copies such an object as it is.
copiesNull[patch \in Values] ==
    [base \in Values |->
        IsObject(patch) /\ \E n \in Members(patch) :
            \/ IsNull(patch.of[n]) /\ ~ IsObject(base)
            \/ copiesNull[patch.of[n]][Under(base, n)]]

CopiesNull(base, patch) == copiesNull[patch][base]

VARIABLES
    value,  \* the value of a setting
    last,   \* the last patch that was sent for it (an option)
    copied  \* history: that patch met no object where it has one with a null

vars == <<value, last, copied>>

\* A value is put: with nulls, if it has them.
Init ==
    /\ value \in {v \in Documents : Accepted(v)}
    /\ last = {} /\ copied = FALSE

\* apply_partial: the merged value, unless it is too large.
Apply(patch) ==
    LET merged == Merged(value, patch)
    IN  /\ IF Accepted(merged) THEN value' = merged ELSE UNCHANGED value
        /\ copied' = CopiesNull(value, patch)

\* A patch, itself a SettingValue.
Patch(p) ==
    /\ Accepted(p)
    /\ Apply(p)
    /\ last' = {p}

\* The same patch once more.
Repeat ==
    /\ \E p \in last : Apply(p)
    /\ UNCHANGED last

Next == (\E p \in Documents : Patch(p)) \/ Repeat

Spec == Init /\ [][Next]_vars

-----------------------------------------------------------------------------
(* RFC 7396, section 2: the definition the comment of merge names.         *)

Empty == Object([n \in {} |-> Null])

mergeRFC7396[patch \in Values] ==
    [target \in Values |->
        IF ~ IsObject(patch) THEN patch
        ELSE LET into == IF IsObject(target) THEN target ELSE Empty
                 dropped == {n \in Members(patch) : IsNull(patch.of[n])}
                 both == (Members(into) \cup Members(patch)) \ dropped
             IN  Object([n \in both |->
                    IF n \notin Members(patch) THEN into.of[n]
                    ELSE mergeRFC7396[patch.of[n]][Under(into, n)]])]

MergedRFC7396(target, patch) == mergeRFC7396[patch][target]

TypeOK ==
    /\ value \in Documents /\ size[value] <= MaxSize
    /\ \A p \in last : p \in Documents /\ size[p] <= MaxSize
    /\ copied \in BOOLEAN

\* The merge is that of RFC 7396 exactly when no null of the patch is copied:
\* an object that meets no object in the base keeps its nulls, where the RFC
\* drops them.
MergesLikeRFC7396 ==
    \A p \in Documents :
        Accepted(p) =>
            (Merged(value, p) = MergedRFC7396(value, p) <=> ~ CopiesNull(value, p))

\* Sending a patch twice does what sending it once does, unless the first time
\* has copied nulls, which the second time takes away.
RepeatIsHarmless ==
    [][last' = last /\ ~ copied => UNCHANGED value]_vars
=============================================================================
