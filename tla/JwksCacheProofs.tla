---------------------------- MODULE JwksCacheProofs ----------------------------
(***************************************************************************)
(* Theorems about JwksCache, for any number of concurrent calls, any keys  *)
(* and any number of rotations: its types, what the fallback set           *)
(* guarantees, and that it implements KeySource.                           *)
(***************************************************************************)
EXTENDS JwksCache, TLAPS

\* Only keys that were published get into the cache.
CacheKnown ==
    /\ published \subseteq ever /\ keys \subseteq ever /\ previous \subseteq ever
    /\ \A c \in Calls : next[c] \subseteq ever

\* While a calm call runs, every running call is calm.
CalmTogether ==
    \A c, d \in Calls : Running(c) /\ calm[c] /\ Running(d) => calm[d]

\* A calm call holds the set that is published, sees it installed from then on,
\* and has not found its key there when it goes to the fallback once more.
CalmIsCurrent ==
    \A c \in Calls : calm[c] =>
        /\ look[c] \in {"keep", "install"} => next[c] = published
        /\ look[c] \in {"keysAgain", "previousAgain"} => keys = published
        /\ look[c] = "previousAgain" => kid[c] \notin published

\* The keys trusted at the last rotation are current until the first refresh
\* after it, which puts them into the fallback set.
RetiredKept ==
    /\ copies = 0 /\ retired # {} =>
        retired \subseteq keys /\ \A c \in Calls : look[c] # "install"
    /\ copies = 1 => retired \subseteq previous

Invariant == TypeOK /\ CacheKnown /\ CalmTogether /\ CalmIsCurrent /\ RetiredKept

USE DEF Goto, Has

-----------------------------------------------------------------------------
(* Types.                                                                  *)

LEMMA TypesKept ==
    ASSUME TypeOK, [Next]_vars
    PROVE  TypeOK'
  <1> USE RotationsAssumption DEF TypeOK, Steps, Ends, cache, calls, history
  <1>1. ASSUME NEW c \in Calls, Begin(c) PROVE TypeOK'
    BY <1>1 DEF Begin
  <1>2. ASSUME NEW c \in Calls, LookInKeys(c) PROVE TypeOK'
    BY <1>2 DEF LookInKeys
  <1>3. ASSUME NEW c \in Calls, LookInPrevious(c) PROVE TypeOK'
    BY <1>3 DEF LookInPrevious
  <1>4. ASSUME NEW c \in Calls, Fetch(c) PROVE TypeOK'
    BY <1>4 DEF Fetch
  <1>5. ASSUME NEW c \in Calls, Keep(c) PROVE TypeOK'
    BY <1>5 DEF Keep
  <1>6. ASSUME NEW c \in Calls, Install(c) PROVE TypeOK'
    BY <1>6 DEF Install
  <1>7. ASSUME NEW new \in SUBSET Kids, Rotate(new) PROVE TypeOK'
    BY <1>7 DEF Rotate
  <1>8. CASE Restart
    BY <1>8 DEF Restart
  <1>9. CASE UNCHANGED vars
    BY <1>9 DEF vars
  <1> QED
    BY <1>1, <1>2, <1>3, <1>4, <1>5, <1>6, <1>7, <1>8, <1>9 DEF Next, Step

LEMMA InitTypes == Init => TypeOK
  BY RotationsAssumption DEF Init, TypeOK, Steps, Ends

\* Every variable keeps its type: in particular a call is always at one of the
\* steps of key_for, or has ended in one of its three ways.
THEOREM TypeCorrect == Spec => []TypeOK
  <1> QED
    BY InitTypes, TypesKept, PTL DEF Spec

-----------------------------------------------------------------------------
(* The invariant.                                                          *)

LEMMA InitInvariant == Init => Invariant
  BY InitTypes
     DEF Init, Invariant, CacheKnown, CalmTogether, CalmIsCurrent, RetiredKept

LEMMA CacheKnownKept ==
    ASSUME Invariant, [Next]_vars
    PROVE  CacheKnown'
  <1> USE DEF Invariant, TypeOK, CacheKnown, cache, calls, history
  <1>1. ASSUME NEW c \in Calls, Begin(c) PROVE CacheKnown'
    BY <1>1 DEF Begin
  <1>2. ASSUME NEW c \in Calls, LookInKeys(c) \/ LookInPrevious(c) PROVE CacheKnown'
    BY <1>2 DEF LookInKeys, LookInPrevious
  <1>3. ASSUME NEW c \in Calls, Fetch(c) PROVE CacheKnown'
    BY <1>3 DEF Fetch
  <1>4. ASSUME NEW c \in Calls, Keep(c) \/ Install(c) PROVE CacheKnown'
    BY <1>4 DEF Keep, Install
  <1>5. ASSUME NEW new \in SUBSET Kids, Rotate(new) PROVE CacheKnown'
    BY <1>5 DEF Rotate
  <1>6. CASE Restart
    BY <1>6 DEF Restart
  <1>7. CASE UNCHANGED vars
    BY <1>7 DEF vars
  <1> QED
    BY <1>1, <1>2, <1>3, <1>4, <1>5, <1>6, <1>7 DEF Next, Step

LEMMA CalmTogetherKept ==
    ASSUME Invariant, [Next]_vars
    PROVE  CalmTogether'
  <1> USE DEF Invariant, TypeOK, CalmTogether, Running, cache, calls, history
  <1>1. ASSUME NEW c \in Calls, Begin(c) PROVE CalmTogether'
    BY <1>1 DEF Begin, Steps
  <1>2. ASSUME NEW c \in Calls, Step(c) PROVE CalmTogether'
    <2>1. calm' = calm /\ look[c] \in Steps /\ \A d \in Calls : d # c => look'[d] = look[d]
      BY <1>2 DEF Step, LookInKeys, LookInPrevious, Fetch, Keep, Install, Steps
    <2> QED
      BY <2>1
  <1>3. CASE (\E new \in SUBSET Kids : Rotate(new)) \/ Restart
    BY <1>3 DEF Rotate, Restart
  <1>4. CASE UNCHANGED vars
    BY <1>4 DEF vars
  <1> QED
    BY <1>1, <1>2, <1>3, <1>4 DEF Next

LEMMA CalmIsCurrentKept ==
    ASSUME Invariant, [Next]_vars
    PROVE  CalmIsCurrent'
  <1> USE DEF Invariant, TypeOK, CalmIsCurrent, cache, calls, history
  <1>1. ASSUME NEW c \in Calls, Begin(c) PROVE CalmIsCurrent'
    BY <1>1 DEF Begin
  <1>2. ASSUME NEW c \in Calls, LookInKeys(c) PROVE CalmIsCurrent'
    BY <1>2 DEF LookInKeys
  <1>3. ASSUME NEW c \in Calls, LookInPrevious(c) PROVE CalmIsCurrent'
    BY <1>3 DEF LookInPrevious
  <1>4. ASSUME NEW c \in Calls, Fetch(c) PROVE CalmIsCurrent'
    BY <1>4 DEF Fetch
  <1>5. ASSUME NEW c \in Calls, Keep(c) PROVE CalmIsCurrent'
    BY <1>5 DEF Keep
  <1>6. ASSUME NEW c \in Calls, Install(c) PROVE CalmIsCurrent'
    <2>1. ASSUME NEW d \in Calls, calm[d], look'[d] \in {"keysAgain", "previousAgain"}
          PROVE  keys' = published
      <3>1. Running(c) /\ Running(d)
        BY <1>6, <2>1 DEF Install, Running, Steps
      <3>2. calm[c]
        BY <2>1, <3>1 DEF CalmTogether
      <3> QED
        BY <1>6, <3>2 DEF Install
    <2> QED
      BY <1>6, <2>1 DEF Install
  <1>7. CASE (\E new \in SUBSET Kids : Rotate(new)) \/ Restart
    BY <1>7 DEF Rotate, Restart
  <1>8. CASE UNCHANGED vars
    BY <1>8 DEF vars
  <1> QED
    BY <1>1, <1>2, <1>3, <1>4, <1>5, <1>6, <1>7, <1>8 DEF Next, Step

LEMMA RetiredKeptKept ==
    ASSUME Invariant, [Next]_vars
    PROVE  RetiredKept'
  <1> USE DEF Invariant, TypeOK, RetiredKept, cache, calls, history
  <1>1. ASSUME NEW c \in Calls, Begin(c) PROVE RetiredKept'
    BY <1>1 DEF Begin
  <1>2. ASSUME NEW c \in Calls, LookInKeys(c) \/ LookInPrevious(c) \/ Fetch(c)
        PROVE  RetiredKept'
    BY <1>2 DEF LookInKeys, LookInPrevious, Fetch
  <1>3. ASSUME NEW c \in Calls, Keep(c) PROVE RetiredKept'
    BY <1>3 DEF Keep
  <1>4. ASSUME NEW c \in Calls, Install(c) PROVE RetiredKept'
    BY <1>4 DEF Install
  <1>5. ASSUME NEW new \in SUBSET Kids, Rotate(new) PROVE RetiredKept'
    BY <1>5 DEF Rotate
  <1>6. CASE Restart
    BY <1>6 DEF Restart
  <1>7. CASE UNCHANGED vars
    BY <1>7 DEF vars
  <1> QED
    BY <1>1, <1>2, <1>3, <1>4, <1>5, <1>6, <1>7 DEF Next, Step

LEMMA InvariantKept ==
    ASSUME Invariant, [Next]_vars
    PROVE  Invariant'
  BY TypesKept, CacheKnownKept, CalmTogetherKept, CalmIsCurrentKept, RetiredKeptKept
     DEF Invariant

LEMMA InvariantHolds == Spec => []Invariant
  <1> QED
    BY InitInvariant, InvariantKept, PTL DEF Spec

\* The current keys at a rotation stay trusted through the first refresh after it,
\* however many calls look up and refresh, unless a refresh was between its two
\* copies at the rotation.
THEOREM FallbackSurvives == Spec => []FallbackOutlivesOneRefresh
  <1>1. Invariant => FallbackOutlivesOneRefresh
    BY DEF Invariant, TypeOK, RetiredKept, FallbackOutlivesOneRefresh
  <1> QED
    BY <1>1, InvariantHolds, PTL

-----------------------------------------------------------------------------
(* The cache implements KeySource: a call asks when it begins, is answered *)
(* when it ends, and does not move in between.                             *)

AskOf(c) == IF Running(c) THEN "asking" ELSE look[c]

LEMMA InitSource == Init => Source!Init
  BY DEF Init, Source!Init, Running, Steps

\* A step that goes on to another step of the same call is a stutter.
LEMMA GoesOn ==
    ASSUME TypeOK, NEW c \in Calls, Running(c), Running(c)',
           \A d \in Calls : d # c => look'[d] = look[d],
           UNCHANGED <<published, ever, kid, calm>>
    PROVE  UNCHANGED Source!vars
  <1>1. \A d \in Calls : (AskOf(d))' = AskOf(d)
    BY DEF AskOf, Running
  <1> QED
    BY <1>1 DEF Source!vars, AskOf, Running

\* A step that ends a call answers it.
LEMMA EndAnswers ==
    ASSUME TypeOK, NEW c \in Calls, Running(c), NEW a \in Ends,
           look' = [look EXCEPT ![c] = a],
           UNCHANGED <<published, ever, kid, calm>>,
           a = "found" => kid[c] \in ever,
           a = "unknown" => (calm[c] => kid[c] \notin published)
    PROVE  Source!Next
  <1> DEFINE ask == [d \in Calls |-> IF Running(d) THEN "asking" ELSE look[d]]
  <1>1. ask' = [ask EXCEPT ![c] = a]
    BY DEF TypeOK, Running, Steps, Ends
  <1>2. ask[c] = "asking"
    OBVIOUS
  <1>3. Source!Answer(c, a)
    BY <1>1, <1>2 DEF Source!Answer
  <1>4. a \in Source!Answers
    BY DEF Ends, Source!Answers
  <1> QED
    BY <1>3, <1>4 DEF Source!Next

LEMMA BeginAsks ==
    ASSUME TypeOK, NEW c \in Calls, Begin(c)
    PROVE  Source!Next
  <1> DEFINE ask == [d \in Calls |-> IF Running(d) THEN "asking" ELSE look[d]]
  <1>1. ask' = [ask EXCEPT ![c] = "asking"]
    BY DEF TypeOK, Begin, Running, Steps
  <1>2. \A d \in Calls : ask[d] = "asking" <=> Running(d)
    BY DEF TypeOK, Running, Steps, Ends
  <1>3. Source!Ask(c)
    BY <1>1, <1>2 DEF Begin, Source!Ask, cache
  <1> QED
    BY <1>3 DEF Source!Next

LEMMA StepAnswers ==
    ASSUME Invariant, NEW c \in Calls, Step(c)
    PROVE  Source!Next \/ UNCHANGED Source!vars
  <1> USE DEF Running, cache, calls, history
  <1>1. TypeOK
    BY DEF Invariant
  <1>2. CASE LookInKeys(c)
    <2>1. CASE kid[c] \in keys
      <3>1. look' = [look EXCEPT ![c] = "found"] /\ Running(c)
        BY <1>2, <2>1 DEF LookInKeys, Steps
      <3>2. kid[c] \in ever
        BY <2>1 DEF Invariant, CacheKnown
      <3> QED
        BY <1>1, <1>2, <3>1, <3>2, EndAnswers DEF LookInKeys, Ends
    <2>2. CASE kid[c] \notin keys
      <3>1. Running(c) /\ Running(c)' /\ \A d \in Calls : d # c => look'[d] = look[d]
        BY <1>1, <1>2, <2>2 DEF LookInKeys, Steps, TypeOK
      <3> QED
        BY <1>1, <1>2, <3>1, GoesOn DEF LookInKeys
    <2> QED
      BY <2>1, <2>2
  <1>3. CASE LookInPrevious(c)
    <2>1. CASE kid[c] \in previous
      <3>1. look' = [look EXCEPT ![c] = "found"] /\ Running(c)
        BY <1>3, <2>1 DEF LookInPrevious, Steps
      <3>2. kid[c] \in ever
        BY <2>1 DEF Invariant, CacheKnown
      <3> QED
        BY <1>1, <1>3, <3>1, <3>2, EndAnswers DEF LookInPrevious, Ends
    <2>2. CASE kid[c] \notin previous /\ look[c] = "previous"
      <3>1. Running(c) /\ Running(c)' /\ \A d \in Calls : d # c => look'[d] = look[d]
        BY <1>1, <1>3, <2>2 DEF LookInPrevious, Steps, TypeOK
      <3> QED
        BY <1>1, <1>3, <3>1, GoesOn DEF LookInPrevious
    <2>3. CASE kid[c] \notin previous /\ look[c] = "previousAgain"
      <3>1. look' = [look EXCEPT ![c] = "unknown"] /\ Running(c)
        BY <1>3, <2>3 DEF LookInPrevious, Steps
      <3>2. calm[c] => kid[c] \notin published
        BY <2>3 DEF Invariant, CalmIsCurrent
      <3> QED
        BY <1>1, <1>3, <3>1, <3>2, EndAnswers DEF LookInPrevious, Ends
    <2> QED
      BY <1>3, <2>1, <2>2, <2>3 DEF LookInPrevious
  <1>4. CASE Fetch(c)
    <2>1. CASE look' = [look EXCEPT ![c] = "keep"]
      <3>1. Running(c) /\ Running(c)' /\ \A d \in Calls : d # c => look'[d] = look[d]
        BY <1>1, <1>4, <2>1 DEF Fetch, Steps, TypeOK
      <3> QED
        BY <1>1, <1>4, <3>1, GoesOn DEF Fetch
    <2>2. CASE look' = [look EXCEPT ![c] = "unavailable"]
      <3>1. Running(c)
        BY <1>4 DEF Fetch, Steps
      <3> QED
        BY <1>1, <1>4, <2>2, <3>1, EndAnswers DEF Fetch, Ends
    <2> QED
      BY <1>4, <2>1, <2>2 DEF Fetch
  <1>5. CASE Keep(c) \/ Install(c)
    <2>1. Running(c) /\ Running(c)' /\ \A d \in Calls : d # c => look'[d] = look[d]
      BY <1>1, <1>5 DEF Keep, Install, Steps, TypeOK
    <2> QED
      BY <1>1, <1>5, <2>1, GoesOn DEF Keep, Install
  <1> QED
    BY <1>2, <1>3, <1>4, <1>5 DEF Step

\* Concurrent look-ups and refreshes, lock section by lock section, behave like
\* calls that are answered in one step: a key is trusted only if it was ever
\* published, and a call that no rotation overlaps, and that began when all calls
\* that ran were calm like it, is never told that a published key is unknown.
THEOREM Implements == Spec => SourceSpec
  <1>1. ASSUME Invariant, [Next]_vars
        PROVE  [Source!Next]_Source!vars
    <2>1. TypeOK
      BY <1>1 DEF Invariant
    <2>2. ASSUME NEW c \in Calls, Begin(c) PROVE Source!Next
      BY <2>1, <2>2, BeginAsks
    <2>3. ASSUME NEW c \in Calls, Step(c) PROVE Source!Next \/ UNCHANGED Source!vars
      BY <1>1, <2>3, StepAnswers
    <2>4. ASSUME NEW new \in SUBSET Kids, Rotate(new) PROVE Source!Next
      <3>1. Source!Rotate(new)
        BY <2>4 DEF Rotate, Source!Rotate, calls, Running
      <3> QED
        BY <3>1 DEF Source!Next
    <2>5. ASSUME Restart PROVE Source!Next
      <3>1. Source!Restart
        BY <2>5 DEF Restart, Source!Restart, Running, Steps
      <3> QED
        BY <3>1 DEF Source!Next
    <2>6. ASSUME UNCHANGED vars PROVE UNCHANGED Source!vars
      BY <2>6 DEF vars, cache, calls, history, Source!vars, Running
    <2> QED
      BY <1>1, <2>2, <2>3, <2>4, <2>5, <2>6 DEF Next
  <1> QED
    BY <1>1, InitSource, InvariantHolds, PTL DEF Spec, SourceSpec, Source!Spec
=============================================================================
