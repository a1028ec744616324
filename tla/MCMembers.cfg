\* Members, devices and sessions, sync locks, database updates, backups, index, albums.
SPECIFICATION MembersSpec
CONSTANTS
    MaxDevices = 3
    MaxVaults = 2
    MaxInvites = 1
    MaxTokens = 2
    MaxMade = 8
    MaxLost = 1
    d1 = d1
    d2 = d2
    c1 = c1
    c3 = c3
    Daemons = {d1, d2}
    Callers = {c1, c3}
    Home <- Homes
    Target <- Targets
    Kinds = {"workspace", "status", "start", "stop", "endpoint", "push", "pull"}
    a1 = a1
    v1 = v1
    v2 = v2
    Assets = {a1}
    Owners = {v1, v2}
    OldVersions = {5, 10, 12, 23}
    MaxCrashes = 2
    o = o
    p = p
    x = x
    y = y
    ra = ra
    rb = rb
    Originals = {o, p}
    Roots = {ra, rb}
    Restores = {x, y}
    MaxSeals = 2
    MaxFaults = 1
    Photos = {1, 2}
    Rebuilds = {1, 2}
    ResultKinds = {"ocr", "scene"}
    MaxKept = 1
    MaxJobs = 3
    MaxIndexFaults = 1
    Items = {1, 2}
    Stranger = 9
    AlbumIds = {1, 2}
    TagNames = {"t"}
    Posted <- SomePosted
    MaxChanges = 3
    MaxChangeFaults = 1
INVARIANTS
    RevokedHasNothing
    TokensEnd
    OnlyThisMachineByDefault
    ServedIsWhole
    BackupsStayTrue
    RestoredIsUsable
    AlbumsAgree
PROPERTIES
    RuntimeIsHeld
    IndexIsConsistent
\* Calls that wait for each other stop a daemon (see MCSyncNetworkCircular),
\* and each part stops at the bounds of its counters.
CHECK_DEADLOCK FALSE
