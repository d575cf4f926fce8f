SPECIFICATION FairSpec
CONSTANTS
    Path = {"f", "g"}
    Device = {1, 2}
    Content = {1, 2, 3, 4}
    Me = 1
    Size <- Parts
    Start <- First
    Writes <- Edits
    MaxEdits = 1
    MaxPeerEdits = 1
    MaxFaults = 2
    MaxUploads = 6
    DoctorMayInterfere = FALSE
INVARIANTS Consistent LoggedIsWhole
PROPERTIES Settles
CHECK_DEADLOCK FALSE
