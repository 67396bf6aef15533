\* Two calls at a time, two tokens that share a session, a budget of two per two ticks.
CONSTANTS
    c1 = c1
    c2 = c2
    acme = acme
    j1 = j1
    Calls = {c1, c2}
    Tenants = {acme}
    Jtis = {j1}
    NoJti = NoJti
    Tokens <- SomeTokens
    Leeway = 1
    MaxRequests = 2
    Window = 2
    MaxTime = 3
SYMMETRY CallSymmetry
SPECIFICATION Spec
INVARIANTS
    TypeOK
    BurstBounded
    WindowsKept
PROPERTIES
    LoggedOutStaysOut
    RevokedOnlyByLogout
    ThrottledOnlyWhenSpent
