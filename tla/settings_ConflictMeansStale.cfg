SPECIFICATION Spec
CONSTANTS
    acme = acme
    alice = alice
    kA = kA
    fA = fA
    fB = fB
    fE = fE
    fX = fX
    Slots = {s1, s2}
    Tenants = {acme}
    Users = {alice}
    Keys = {kA}
    Fields = {fA, fB, fE, fX}
    AsStored <- Widened
    Requests <- OneScope
    MaxFields = 1
    MaxVersion = 2
    MaxId = 2
INVARIANT ConflictMeansStale
