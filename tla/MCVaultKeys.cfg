\* The keys of vaults through restores, and the encryption of the catalog.
SPECIFICATION VaultKeysSpec
CONSTANTS
    d1 = d1
    d2 = d2
    x = x
    y = y
    Dests = {d1, d2}
    Restores = {x, y}
    Free = Free
    MaxKeys = 3
    MaxErrors = 2
    MaxSaves = 3
    MaxCatalogKeys = 2
    MaxStages = 6
    MaxFaults = 3
INVARIANTS
    PublishedHasItsKeys
    RefusalMeansLoss
    KeyKept
    OpensWhatWasSaved
PROPERTIES
    KeysAnswerForCiphertext
    RestoreEnds
    CatalogServesAgain
\* Each part stops at the bounds of its counters.
CHECK_DEADLOCK FALSE
