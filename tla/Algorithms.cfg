SPECIFICATION Spec
CONSTANTS
    Path = {"f"}
    Device = {1, 2}
    Content = {1, 2}
    MaxLamport = 2
    MaxLen = 3
    ChunkSize = 2
    TagSize = 1
    FileLen = {0, 1, 2, 3, 4, 5, 6}
    PartSize = {1, 4, 6}
    MaxCrashes = 2
    Blob = {1, 2}
    SealedLen <- SealedLens
    PackId = {1, 2}
    EntrySize = 2
    TailRead = 5
    Addressable = 3
    SnapshotId = {1, 2, 3, 4}
    Moment = {0, 2, 3, 5}
    Series = {1, 2}
    Rules = {0, 2}
    Counts = {0, 1, 2}
    File = {1, 2, 3}
    Rows <- RowChoices
    RuleSets <- RuleChoices
    Space = {1, 4}
    Now = 10
    Grace = 2
    MinSize = 2
    MinFree = 4
    TargetFree = 6
    MaxAutoEvictions = 2
    Text <- Texts
    MaxStamp = 3
    HASH_ATTEMPTS = 2
    Coarse = FALSE
INVARIANTS PruningIsSteady MergeIsWinners ConflictsAreForks ObjectIsWhole ReadIsExact PacksDescribeThemselves EveryBlobIsFound EvictionsAreDue EditsAreNoticed
CHECK_DEADLOCK FALSE
