\* Walks with pages of one or two rows over at most four visible rows.
CONSTANTS
    acme = acme
    other = other
    alice = alice
    bob = bob
    Tenants = {acme, other}
    Users = {alice, bob}
    Places <- SomePlaces
    Searches <- SomeSearches
    MaxSize = 3
    SizeLimit = 2
    MaxPage = 2
    MaxWrites = 2
SPECIFICATION Spec
INVARIANTS
    TypeOK
    NothingMissed
    NothingTwice
    KeepsPace
    ListsOnlyReadable
    LinksMatchRows
