\* Objects with two member names, two deep, of at most three members.
CONSTANTS
    a = a
    b = b
    x = x
    y = y
    Names = {a, b}
    Scalars = {x, y}
    MaxSize = 3
    MaxDepth = 2
SPECIFICATION Spec
INVARIANTS
    TypeOK
    MergesLikeRFC7396
PROPERTIES
    RepeatIsHarmless
