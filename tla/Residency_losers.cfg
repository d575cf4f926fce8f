SPECIFICATION Spec
CONSTANTS
    Path = {"f", "k"}
    Copy = {"k"}
    Content = {1, 2}
    Verify = TRUE
    SecondSaves = FALSE
    Collisions = FALSE
    LoserDeletes = TRUE
    MaxEdits = 1
    MaxRequests = 1
    MaxPeerEdits = 2
    MaxFaults = 1
INVARIANTS Kept
CHECK_DEADLOCK FALSE
