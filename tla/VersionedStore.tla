---------------------------- MODULE VersionedStore ----------------------------
(***************************************************************************)
(* What the settings service promises its callers, without statements,     *)
(* awaits or tables: a map from names to versioned entries, on which each  *)
(* request acts at most once, in a single atomic step, and only at a       *)
(* moment at which its precondition holds.                                 *)
(***************************************************************************)
EXTENDS Naturals

CONSTANTS
    Clients,
    Names,      \* what an entry is stored under
    Contents,   \* what an entry may hold
    Wishes      \* what a client may ask for, [name, ifMatch]: to write under a
                \* name, if the entry there has the version ifMatch (an option)
                \* or there is no entry

VARIABLES
    store,      \* name -> the entry [id, version, value] (an option)
    issued,     \* ids given out: an entry that is created again is a new one
    wish,       \* client -> its current wish (an option)
    taken       \* client -> the [id, version] its wish replaced (an option)

storeVars == <<store, issued, wish, taken>>

Init ==
    /\ store = [n \in Names |-> {}]
    /\ issued = 0
    /\ wish = [c \in Clients |-> {}]
    /\ taken = [c \in Clients |-> {}]

Ask(c, w) ==
    /\ wish' = [wish EXCEPT ![c] = {w}]
    /\ taken' = [taken EXCEPT ![c] = {}]
    /\ UNCHANGED <<store, issued>>

\* A client that has not had its turn puts entry under the name of its wish.
Take(c, w, consumed, entry) ==
    /\ w \in wish[c] /\ taken[c] = {}
    /\ store' = [store EXCEPT ![w.name] = entry]
    /\ taken' = [taken EXCEPT ![c] = {consumed}]
    /\ UNCHANGED wish

Create(c, w, value) ==
    /\ store[w.name] = {}
    /\ issued' = issued + 1
    /\ Take(c, w, [id |-> issued', version |-> 0],
            {[id |-> issued', version |-> 1, value |-> value]})

Replace(c, w, e, value) ==
    /\ e \in store[w.name] /\ e.version \in w.ifMatch
    /\ Take(c, w, [id |-> e.id, version |-> e.version],
            {[id |-> e.id, version |-> e.version + 1, value |-> value]})
    /\ UNCHANGED issued

Remove(c, w, e) ==
    /\ e \in store[w.name] /\ e.version \in w.ifMatch
    /\ Take(c, w, [id |-> e.id, version |-> e.version], {})
    /\ UNCHANGED issued

Next ==
    \E c \in Clients :
        \/ \E w \in Wishes : Ask(c, w)
        \/ \E w \in wish[c] :
              \/ \E v \in Contents : Create(c, w, v)
              \/ \E e \in store[w.name] :
                    \/ \E v \in Contents : Replace(c, w, e, v)
                    \/ Remove(c, w, e)

Spec == Init /\ [][Next]_storeVars
=============================================================================
