SPECIFICATION Spec
CONSTANTS
    Path = {"f"}
    Device = {1, 2, 3}
    Content = {1, 2}
    Writer = {3}
    Compactor = {1, 2}
    Threshold = 1
    MaxWrites = 2
    MaxJobs = 2
    MaxAborts = 1
    StoreAgain = FALSE
INVARIANTS Consistent NothingLost
CHECK_DEADLOCK FALSE
