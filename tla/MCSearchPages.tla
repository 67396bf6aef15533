---------------------------- MODULE MCSearchPages ----------------------------
(* Small instance of SearchPages for TLC.                                   *)
EXTENDS SearchPages, TLC

CONSTANTS acme, other, alice, bob

Place(tenant, user, key) == [tenant |-> tenant, user |-> user, key |-> key]

\* Four places that alice sees as Admin, of which two have one key; two of them
\* she sees as User; one place is bob's, one another tenant's.
SomePlaces ==
    {Place(acme, {alice}, 1), Place(acme, {alice}, 2), Place(acme, {}, 2),
     Place(acme, {}, 3), Place(acme, {bob}, 1), Place(other, {}, 2)}

Search(role, filter) ==
    [tenant |-> acme, user |-> alice, role |-> role, filter |-> filter]

SomeSearches == {Search("Admin", TRUE), Search("User", FALSE)}
=============================================================================
