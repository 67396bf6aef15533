\* The service implements the abstract store, and ends every call (its decorator
\* may wait in notify: see ConfigNotifications).
SPECIFICATION FairSpec
CONSTANTS
    acme = acme
    alice = alice
    kA = kA
    fA = fA
    fB = fB
    fE = fE
    fX = fX
    Slots = {s1, s2}
    Tenants = {acme}
    Users = {alice}
    Keys = {kA}
    Fields = {fA, fB, fE, fX}
    AsStored <- Widened
    Requests <- Contended
    MaxFields = 1
    MaxVersion = 2
    MaxId = 2
PROPERTIES
    ImplementsVersionedStore
    Answered
