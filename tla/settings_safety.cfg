\* Two requests at a time, a User and an Admin scope, every operation, values that
\* are too large when they are merged and values that are when they are stored.
SPECIFICATION Spec
CONSTANTS
    acme = acme
    alice = alice
    kA = kA
    fA = fA
    fB = fB
    fE = fE
    fX = fX
    Slots = {s1, s2}
    Tenants = {acme}
    Users = {alice}
    Keys = {kA}
    Fields = {fA, fB, fE, fX}
    AsStored <- Widened
    Requests <- TwoScopes
    MaxFields = 1
    MaxVersion = 2
    MaxId = 2
SYMMETRY SlotSymmetry
INVARIANTS
    TypeOK
    UniqueWinner
    Consistent
    HandedOutRowsKept
    NoSpuriousRefusal
    ErrorsHaveNoEffect
    RefusalsJustified
    AnswersWitnessed
    ReadYourWrites
PROPERTIES
    NoLostUpdate
