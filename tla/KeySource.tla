------------------------------ MODULE KeySource ------------------------------
(***************************************************************************)
(* What looking up a signing key promises (the contract of key_for).  A    *)
(* call asks for a key and is answered in one step.  The identity provider *)
(* changes the set of keys it publishes at any moment.  A call that no     *)
(* change overlaps, and that began when all calls that ran were calm, is   *)
(* calm: it is not told that a published key is unknown.                   *)
(***************************************************************************)
CONSTANTS
    Calls,  \* callers waiting for a key
    Kids    \* key ids

VARIABLES
    published,  \* the keys the provider publishes
    ever,       \* the keys it has ever published
    ask,        \* per call: "idle", "asking", or how it was answered
    kid,        \* the key a call asks for
    calm

vars == <<published, ever, ask, kid, calm>>

Answers == {"found", "unknown", "unavailable"}

Init ==
    /\ published \in SUBSET Kids
    /\ ever = published
    /\ ask = [c \in Calls |-> "idle"]
    /\ kid \in [Calls -> Kids]
    /\ calm = [c \in Calls |-> FALSE]

Ask(c) ==
    /\ ask[c] # "asking"
    /\ \E k \in Kids : kid' = [kid EXCEPT ![c] = k]
    /\ ask' = [ask EXCEPT ![c] = "asking"]
    /\ calm' = [calm EXCEPT ![c] =
                    \A d \in Calls : ask[d] = "asking" => calm[d]]
    /\ UNCHANGED <<published, ever>>

Answer(c, a) ==
    /\ ask[c] = "asking"
    /\ a = "found" => kid[c] \in ever
    /\ a = "unknown" => (calm[c] => kid[c] \notin published)
    /\ ask' = [ask EXCEPT ![c] = a]
    /\ UNCHANGED <<published, ever, kid, calm>>

\* The provider publishes another set of keys.
Rotate(new) ==
    /\ published' = new
    /\ ever' = ever \cup new
    /\ calm' = [c \in Calls |-> FALSE]
    /\ UNCHANGED <<ask, kid>>

\* The instance stops: its calls end without an answer.
Restart ==
    /\ ask' = [c \in Calls |-> "idle"]
    /\ calm' = [c \in Calls |-> FALSE]
    /\ UNCHANGED <<published, ever, kid>>

Next ==
    \/ \E c \in Calls : Ask(c) \/ (\E a \in Answers : Answer(c, a))
    \/ \E new \in SUBSET Kids : Rotate(new)
    \/ Restart

Spec == Init /\ [][Next]_vars
=============================================================================
