SPECIFICATION Spec
CONSTANTS
    Path <- OneFile
    Copy <- Copies
    Device = {1, 2}
    Content = {1, 2, 3}
    FlushBatch = 2
    MaxEdits = 3
    MaxFaults = 1
    MaxIdle = 0
    FreshContent = TRUE
    Deletes = FALSE
    EditsDuringPass = FALSE
    UnstableFiles = FALSE
INVARIANTS NoLostEdit OneCopy
PROPERTY WinnerKeepsPath
