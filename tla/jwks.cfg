\* Two calls, two keys, two rotations, restarts.
CONSTANTS
    k1 = k1
    k2 = k2
    c1 = c1
    c2 = c2
    Calls = {c1, c2}
    Kids = {k1, k2}
    MaxRotations = 2
SPECIFICATION Spec
INVARIANTS
    TypeOK
    FallbackOutlivesOneRefresh
PROPERTIES
    SourceSpec
    SettlesAfterRotation
