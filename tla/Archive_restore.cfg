SPECIFICATION MCSpec
CONSTANTS
    Name = {1, 2}
    Content <- Texts
    First <- Holding
    Options <- OptionChoices
    MaxRuns = 2
    MaxEvents = 2
    File = {1, 2}
    Outside = {3}
    Data <- Chunked
    Repository <- Repositories
    TargetLinks = FALSE
INVARIANTS Consistent SnapshotIsDisk Accounted RestoreConsistent Untouched VerifiedRestores
CHECK_DEADLOCK FALSE
