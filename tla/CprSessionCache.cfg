SPECIFICATION Spec
CONSTANTS
    Worker = {w1, w2, w3}
    Host = {h1, h2}
    NoHost = NoHost
    Relative = Relative
    Malformed = Malformed
    CurlHandle = {c1, c2, c3, c4, c5}
    None = None
    Limits = {0, 2}
    MaxAge = 2
    MaxTime = 4
    MaxStepsBack = 1
SYMMETRY Symmetry
INVARIANTS
    TypeOK
    Exclusive
    WithinLimit
    ReturnFindsHost
    NewestLast
PROPERTIES
    FreshHandout
    FreshSurvive
