SPECIFICATION MCFairSpec
CONSTANTS
    MaxDaemons = 2
    Evicts = {e}
    Syncs = {}
    Clients = {c}
    None = None
    ResidencyCap = 1
    RingCap = 2
    MayLinger = FALSE
    MaxChanges = 1
    MaxFaults = 1
INVARIANTS Consistent ViewAgrees
PROPERTIES Implements Settles Ends
CHECK_DEADLOCK FALSE
