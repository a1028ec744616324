\* The transfer table (see SyncTransfers) and the locks (see SyncNetwork).
SPECIFICATION SyncSpec
CONSTANTS
    here = here
    p1 = p1
    p2 = p2
    r1 = r1
    Here = here
    Peers = {p1, p2}
    Runs = {r1}
    MinReplicas = 2
    MaxTransfers = 3
    d1 = d1
    d2 = d2
    c1 = c1
    c2 = c2
    Daemons = {d1, d2}
    Callers = {c1, c2}
    Home <- Homes
    Target <- Targets
    Kinds = {"edit", "push", "pull"}
PROPERTIES
    CompletedStaysAlone
    RunningEnds
    EveryCallReturns
