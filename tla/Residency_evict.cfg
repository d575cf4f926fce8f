SPECIFICATION FairSpec
CONSTANTS
    Path = {"f", "g", "k", "l"}
    Copy = {"k", "l"}
    Content = {1, 2, 3, 4}
    Verify = TRUE
    SecondSaves = FALSE
    Collisions = FALSE
    LoserDeletes = FALSE
    MaxEdits = 1
    MaxRequests = 2
    MaxPeerEdits = 1
    MaxFaults = 1
INVARIANTS Consistent
PROPERTIES NoStrayDelete Settles
CHECK_DEADLOCK FALSE
