SPECIFICATION Spec
CONSTANTS
    Client = {c1, c2}
    Blob = {b1, b2}
    MaxRuns = 2
    MaxPrunes = 1
    MaxFaults = 1
    MaxSleeps = 1
INVARIANTS Consistent Restorable PruneReclaims
SYMMETRY Symmetry
CHECK_DEADLOCK FALSE
