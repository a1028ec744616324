\* A file that is written between the scan and the commit.
SPECIFICATION ImportSpec
CONSTANTS
    Paths = {1, 2}
    NameOrder <- ByName
    Bytes = {1, 2}
    Into = {1, 2}
    Modes = {"Copy"}
    MaxImportCalls = 3
    MaxTaken = 2
    MaxEdits = 1
    MaxImportFaults = 1
INVARIANT ImportedAsNamed
CHECK_DEADLOCK FALSE
