\* Quarantine repair, the receiving side of a pull, the transfer table and
\* phones that store a blob.
SPECIFICATION BlobsSpec
CONSTANTS
    a = a
    b = b
    gone = gone
    Vaults = {a, b, gone}
    LiveVaults = {a, b}
    NoVault = NoVault
    MaxBlobs = 3
    MaxObjects = 2
    here = here
    p1 = p1
    p2 = p2
    r1 = r1
    r2 = r2
    Here = here
    Peers = {p1, p2}
    Runs = {r1, r2}
    MinReplicas = 2
    MaxTransfers = 2
    e1 = e1
    e2 = e2
    Exchanges = {e1, e2}
    ChunkCount = 2
    Sealings = 2
    Slots = 2
    Capacity = 7
    FreeSpace = 1
    k1 = k1
    k2 = k2
    PhoneCount = 2
    PhoneChunks = {k1, k2}
    WantedReplicas = 2
    MaxAssignments = 2
    MaxMishaps = 1
SYMMETRY LiveVaultsAlike
INVARIANTS
    RepairedIsOneVault
    ReceivedWithinLimits
    RowsTellTheTruth
    EvictedIsElsewhere
PROPERTIES
    NothingLostOrRehomed
    Handed
    CommitsAreAllowed
    PhonesAreTrue
\* Each part stops at the bounds of its counters.
CHECK_DEADLOCK FALSE
