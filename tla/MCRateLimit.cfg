SPECIFICATION Spec
CONSTANTS
    k1 = k1
    k2 = k2
    Keys = {k1, k2}
    NoKey = NoKey
    Limit = 2
    Window = 3
    MaxTime = 9
    MayStepBack = TRUE
SYMMETRY KeySymmetry
INVARIANTS
    CountsExact
    SlidingLimit
    NoFalseRejection
PROPERTIES
    QuotaByWindow
