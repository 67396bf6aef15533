------------------------------ MODULE JwksCache ------------------------------
(***************************************************************************)
(* The cache of signing keys of one instance (auth/jwt.rs) and its         *)
(* concurrent callers.  A key is its id.  A call looks in two maps, each   *)
(* behind a lock of its own; when neither has the key it fetches the       *)
(* published set, and replaces the maps in two more lock sections.         *)
(* Nothing makes two calls take turns: every lock section, and the await   *)
(* of the fetch, is a step of its own.  fetched_at is written and never    *)
(* read, so it is left out.                                                *)
(***************************************************************************)
EXTENDS Naturals, FiniteSets

CONSTANTS
    Calls,        \* calls of key_for running at the same time
    Kids,         \* key ids; some may never be published
    MaxRotations  \* bound: how often the provider changes its keys

ASSUME RotationsAssumption == MaxRotations \in Nat

VARIABLES
    published,  \* external: the keys the provider publishes
    rotations,  \* how often it changed them
    keys,       \* the current set (JwksCache.keys)
    previous,   \* the set before it (JwksCache.previous)
    look,       \* per call: the step it is at, or how it ended
    kid,        \* the key a call looks for
    next,       \* the set a call has fetched and not installed yet
    ever,       \* history: every key published so far
    calm,       \* history: no rotation has disturbed the call (KeySource)
    retired,    \* history: the current set as it was at the last rotation
    copies      \* history: refreshes that kept a set since then, up to 2

cache == <<published, rotations, keys, previous>>
calls == <<look, kid, next>>
history == <<ever, calm, retired, copies>>
vars == <<cache, calls, history>>

Steps == {"keys", "previous", "fetch", "keep", "install",
          "keysAgain", "previousAgain"}
Ends  == {"found", "unknown", "unavailable"}

Running(c) == look[c] \in Steps

Goto(c, step) == look' = [look EXCEPT ![c] = step]

\* key_from_map: a key the provider published is usable.
Has(map, k) == k \in map

-----------------------------------------------------------------------------
Init ==
    /\ published \in SUBSET Kids
    /\ rotations = 0
    /\ keys = {} /\ previous = {}
    /\ look = [c \in Calls |-> "idle"]
    /\ kid \in [Calls -> Kids]
    /\ next = [c \in Calls |-> {}]
    /\ ever = published
    /\ calm = [c \in Calls |-> FALSE]
    /\ retired = {} /\ copies = 0

\* key_for(kid) is called.
Begin(c) ==
    /\ ~ Running(c)
    /\ \E k \in Kids : kid' = [kid EXCEPT ![c] = k]
    /\ Goto(c, "keys")
    /\ next' = [next EXCEPT ![c] = {}]
    /\ calm' = [calm EXCEPT ![c] = \A d \in Calls : Running(d) => calm[d]]
    /\ UNCHANGED <<cache, ever, retired, copies>>

\* key_from_map(&self.keys, kid)
LookInKeys(c) ==
    /\ \/ look[c] = "keys"
          /\ Goto(c, IF Has(keys, kid[c]) THEN "found" ELSE "previous")
       \/ look[c] = "keysAgain"
          /\ Goto(c, IF Has(keys, kid[c]) THEN "found" ELSE "previousAgain")
    /\ UNCHANGED <<cache, kid, next, history>>

\* key_from_map(&self.previous, kid)
LookInPrevious(c) ==
    /\ \/ look[c] = "previous"
          /\ Goto(c, IF Has(previous, kid[c]) THEN "found" ELSE "fetch")
       \/ look[c] = "previousAgain"
          /\ Goto(c, IF Has(previous, kid[c]) THEN "found" ELSE "unknown")
    /\ UNCHANGED <<cache, kid, next, history>>

\* Variants with a bug: a fetch that fails has an answer of its own, or is
\* answered as if the key were unknown; the new set is kept in place of the old
\* one; the new set is not installed.
FailedAsTimeout(c) ==
    /\ look[c] = "fetch"
    /\ \/ published # {}
          /\ next' = [next EXCEPT ![c] = published]
          /\ Goto(c, "keep")
       \/ Goto(c, "timeout") /\ UNCHANGED next
    /\ UNCHANGED <<cache, kid, history>>
FailedAsUnknown(c) ==
    /\ look[c] = "fetch"
    /\ \/ published # {}
          /\ next' = [next EXCEPT ![c] = published]
          /\ Goto(c, "keep")
       \/ Goto(c, "unknown") /\ UNCHANGED next
    /\ UNCHANGED <<cache, kid, history>>
KeepFetched(c) ==
    /\ look[c] = "keep"
    /\ previous' = next[c]
    /\ Goto(c, "install")
    /\ copies' = IF copies < 2 THEN copies + 1 ELSE 2
    /\ UNCHANGED <<published, rotations, keys, kid, next, ever, calm, retired>>
InstallKept(c) ==
    /\ look[c] = "install"
    /\ keys' = previous
    /\ Goto(c, "keysAgain")
    /\ UNCHANGED <<published, rotations, previous, kid, next, history>>

\* The GET is answered with the set published at that moment, or fails (no
\* connection, 5 s timeout, an error status, a body that does not parse, a set
\* with no key); a caller that leaves while it waits has the same effect.
Fetch(c) ==
    /\ look[c] = "fetch"
    /\ \/ published # {}
          /\ next' = [next EXCEPT ![c] = published]
          /\ Goto(c, "keep")
       \/ Goto(c, "unavailable") /\ UNCHANGED next
    /\ UNCHANGED <<cache, kid, history>>

\* *prev = cur.clone(), with both locks held
Keep(c) ==
    /\ look[c] = "keep"
    /\ previous' = keys
    /\ Goto(c, "install")
    /\ copies' = IF copies < 2 THEN copies + 1 ELSE 2
    /\ UNCHANGED <<published, rotations, keys, kid, next, ever, calm, retired>>

\* *self.keys.write() = next
Install(c) ==
    /\ look[c] = "install"
    /\ keys' = next[c]
    /\ Goto(c, "keysAgain")
    /\ UNCHANGED <<published, rotations, previous, kid, next, history>>

\* The provider publishes another set.
Rotate(new) ==
    /\ rotations < MaxRotations
    /\ new # published
    /\ published' = new
    /\ rotations' = rotations + 1
    /\ ever' = ever \cup new
    /\ calm' = [c \in Calls |-> FALSE]
    /\ retired' = IF \E c \in Calls : look[c] = "install" THEN {} ELSE keys
    /\ copies' = 0
    /\ UNCHANGED <<keys, previous, calls>>

\* The instance restarts with empty maps; its calls are gone.
Restart ==
    /\ keys' = {} /\ previous' = {} /\ retired' = {}
    /\ look' = [c \in Calls |-> "idle"]
    /\ next' = [c \in Calls |-> {}]
    /\ calm' = [c \in Calls |-> FALSE]
    /\ UNCHANGED <<published, rotations, kid, ever, copies>>

Step(c) ==
    \/ LookInKeys(c) \/ LookInPrevious(c)
    \/ Fetch(c) \/ Keep(c) \/ Install(c)

Next ==
    \/ \E c \in Calls : Begin(c) \/ Step(c)
    \/ \E new \in SUBSET Kids : Rotate(new)
    \/ Restart

\* A call that runs goes on: its task is scheduled, its locks are held for a
\* lookup only, and its fetch ends by an answer or by the client's timeout.
Fairness == \A c \in Calls : WF_vars(Step(c))

Spec == Init /\ [][Next]_vars /\ Fairness

-----------------------------------------------------------------------------
TypeOK ==
    /\ published \subseteq Kids /\ ever \subseteq Kids
    /\ keys \subseteq Kids /\ previous \subseteq Kids /\ retired \subseteq Kids
    /\ rotations \in 0 .. MaxRotations
    /\ copies \in 0 .. 2
    /\ look \in [Calls -> Steps \cup Ends \cup {"idle"}]
    /\ kid \in [Calls -> Kids]
    /\ next \in [Calls -> SUBSET Kids]
    /\ calm \in [Calls -> BOOLEAN]

\* What the fallback (jwt.rs:25, "kept as a fallback so a key rotation causes
\* no downtime") does guarantee: the keys trusted when the provider rotates
\* stay trusted through the first refresh after it.  That is said of the current
\* set only, not of the previous one, and only of a rotation that meets no call
\* between Keep and Install (retired is empty then: that call has made its copy
\* already, and the next refresh copies over it).  A second refresh, concurrent
\* or later, copies the new set over them: it is left out by copies <= 1.
FallbackOutlivesOneRefresh ==
    copies <= 1 => retired \subseteq keys \cup previous

\* The abstract specification this module implements.
Source == INSTANCE KeySource WITH
    ask <- [c \in Calls |-> IF Running(c) THEN "asking" ELSE look[c]]

\* A key is answered only if the provider published it at some time, and a calm
\* call is never told that a published key is unknown, although other calls copy
\* to the two maps between its lookups.  Calm is a call that no rotation overlaps
\* and that began when all calls that ran were calm: a call that fetched before a
\* rotation may still install the old set over what a later call has installed,
\* and to a call that overlaps it nothing is promised.
SourceSpec == Source!Spec

\* Once the provider stops rotating, no call is told any more that a published
\* key is unknown: late answers to fetches lose their effect.
SettlesAfterRotation ==
    <>[][\A c \in Calls : look'[c] = "unknown" /\ look[c] # "unknown"
                             => kid[c] \notin published]_vars
=============================================================================
