-------------------------- MODULE SettingsRefinement --------------------------
(* SettingsService implements VersionedStore.                               *)
EXTENDS SettingsService

\* The identity of a row, which the unique index is on.
RowNames == [tenant : Tenants, user : Owners, key : Keys]
NameOf(r) == [tenant |-> r.tenant, user |-> r.user, key |-> r.key]

\* The name a request is for: the scope of its principal.
TargetName(q) ==
    [tenant |-> q.auth.tenant, user |-> ScopeUser(q.auth), key |-> q.key]

Entry(r) == [id |-> r.id, version |-> r.version, value |-> r.value]
Wish(q) == [name |-> TargetName(q), ifMatch |-> q.ifMatch]

\* The table, as a store.
Stored(n, table) == {Entry(r) : r \in {s \in table : NameOf(s) = n}}

Store == INSTANCE VersionedStore WITH
    Clients  <- Slots,
    Names    <- RowNames,
    Contents <- SUBSET Fields,
    Wishes   <- {Wish(q) : q \in Requests},
    store    <- [n \in RowNames |-> Stored(n, rows)],
    issued   <- nextId - 1,
    wish     <- [c \in Slots |-> {Wish(q) : q \in req[c]}],
    taken    <- committed

\* Every request takes effect at most once, atomically, on the row in its
\* principal's scope, and only while its If-Match holds for that row (or there
\* is none): the check that find made is still good when the write commits.
ImplementsVersionedStore == Store!Spec
=============================================================================
