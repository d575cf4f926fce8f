SPECIFICATION FairSpec
CONSTANTS
    Path <- TwoFiles
    Copy <- Copies
    Device = {1, 2}
    Content = {1, 2, 3}
    FlushBatch = 1
    MaxEdits = 2
    MaxFaults = 1
    MaxIdle = 0
    FreshContent = TRUE
    Deletes = TRUE
    EditsDuringPass = TRUE
    UnstableFiles = FALSE
INVARIANTS Consistent BaselineLogged LogPointsAtObjects
PROPERTIES NothingOverwritten Convergence
