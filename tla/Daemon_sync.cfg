SPECIFICATION Spec
CONSTANTS
    MaxDaemons = 1
    Evicts = {}
    Syncs = {s}
    Clients = {}
    None = None
    ResidencyCap = 1
    RingCap = 2
    MayLinger = FALSE
    MaxChanges = 1
    MaxFaults = 0
INVARIANTS WritesNeverContend
CHECK_DEADLOCK FALSE
