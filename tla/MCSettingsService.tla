-------------------------- MODULE MCSettingsService --------------------------
(* Small instances of SettingsService for TLC.                              *)
EXTENDS SettingsRefinement, TLC

CONSTANTS acme, alice, kA, fA, fB, fE, fX

User  == [tenant |-> acme, user |-> alice, role |-> "User"]
Admin == [tenant |-> acme, user |-> alice, role |-> "Admin"]

\* Member fE, the number 1e16, is stored with one unit more, fX.
Widened == [f \in Fields |-> IF f = fE THEN {fE, fX} ELSE {f}]

NoBody == [set |-> {}, drop |-> {}]
SetA   == [set |-> {fA}, drop |-> {}]
SetB   == [set |-> {fB}, drop |-> {}]
SetE   == [set |-> {fE}, drop |-> {}]
AtoB   == [set |-> {fB}, drop |-> {fA}]
AtoE   == [set |-> {fE}, drop |-> {fA}]

Send(op, auth, ifMatch, body) ==
    [op |-> op, auth |-> auth, key |-> kA, ifMatch |-> ifMatch, body |-> body]

IfMatches == {{v} : v \in 1 .. MaxVersion}
IfMatchOrNone  == IfMatches \cup {{}}

\* One scope: every operation with every If-Match; a patch that replaces member
\* fA, one whose result is larger than MaxFields = 1 allows when fA is there, and
\* one whose result is larger only once it is stored.
OneScope ==
    {Send("get", Admin, {}, NoBody)}
    \cup {Send("put", Admin, e, SetA) : e \in IfMatchOrNone}
    \cup {Send("patch", Admin, e, AtoB) : e \in IfMatchOrNone}
    \cup {Send("patch", Admin, {1}, b) : b \in {SetB, AtoE}}
    \cup {Send("delete", Admin, e, NoBody) : e \in IfMatches}

\* Two scopes of one user, of which the Admin token reads both.  The user may
\* insert a value that does not load, which both scopes then meet.
TwoScopes ==
    {Send("get", a, {}, NoBody) : a \in {User, Admin}}
    \cup {Send("put", a, {}, SetA) : a \in {User, Admin}}
    \cup {Send("put", User, {}, SetE), Send("patch", User, {1}, AtoB)}
    \cup {Send("put", Admin, e, SetA) : e \in {{1}, {2}}}
    \cup {Send("patch", Admin, {1}, b) : b \in {SetB, AtoE}}
    \cup {Send("delete", User, {1}, NoBody)}
    \cup {Send("delete", Admin, e, NoBody) : e \in {{1}, {2}}}

\* The operations that contend for one row.
Contended ==
    {Send("put", Admin, e, SetA) : e \in {{}, {1}}}
    \cup {Send("patch", Admin, {1}, AtoE), Send("delete", Admin, {1}, NoBody),
          Send("delete", Admin, {2}, NoBody), Send("get", Admin, {}, NoBody)}

\* Slots are interchangeable (used without liveness properties only).
SlotSymmetry == Permutations(Slots)
=============================================================================
