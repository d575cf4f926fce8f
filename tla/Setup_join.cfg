SPECIFICATION SetupSpec
CONSTANTS
    Device = {d1, d2}
    Prefix = {x1, x2}
    Pass = {p1, p2}
    MaxVaults = 2
    MayOverlap = FALSE
    MayMove = TRUE
INVARIANTS SetupConsistent
SYMMETRY Symmetry
CHECK_DEADLOCK FALSE
