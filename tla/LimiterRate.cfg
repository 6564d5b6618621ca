SPECIFICATION Spec
CONSTANTS
    Keys = {k1, k2}
    Handlers = {h1, h2}
    Cost = 2
    Refill = 1
    Burst = 4
    IdleEvic = 5
    MaxDelay = 1
    MaxTime = 6
SYMMETRY Symmetry
INVARIANTS
    TypeOK
    RateBounded
PROPERTIES
    DenialsJustified
