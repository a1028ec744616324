\* Originals, imports, the file tree and derived views.
SPECIFICATION LibrarySpec
CONSTANTS
    d1 = d1
    q1 = q1
    Desktops = {d1}
    Phones = {q1}
    MinReplicas = 1
    ImportModes = {"Copy", "Move", "Reference"}
    Policies = {"EncryptedOnly", "KeepPlaintextCopy"}
    MaxGen = 2
    ChunkLoss = TRUE
    Paths = {1, 2}
    NameOrder <- ByName
    Bytes = {1, 2}
    Into = {1, 2}
    Modes = {"Copy", "Move", "Reference"}
    MaxImportCalls = 3
    MaxTaken = 2
    MaxEdits = 1
    MaxImportFaults = 1
    TreeVaults = {1, 2}
    TreeAssets = {1, 2}
    OldAsset = 1
    Folders = {1, 2}
    Names = {1, 2}
    MaxTreeCalls = 3
    MaxTreeFaults = 1
    Assets = {1, 2}
    Labels = {1, 2}
    Coords = {1}
    Hours = {1, 6, 11}
    ExifHour <- ExifHours
    ExifGeo <- ExifPlaces
    MaxPeople = 2
    MaxCalls = 4
    MaxViewFaults = 1
INVARIANTS
    AckedImportHeld
    VerifiedReplicaReadable
    ImportsAddUp
    MovedAsNamed
    ViewsAreSound
PROPERTIES
    OriginalsGoSafely
    TreeShowsTheLibrary
    CorrectionsLast
\* Each part stops at the bounds of its counters.
CHECK_DEADLOCK FALSE
