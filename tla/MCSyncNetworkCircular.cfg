\* A status request while another call starts the sync network.
SPECIFICATION NetSpec
CONSTANTS
    d1 = d1
    d2 = d2
    c1 = c1
    c2 = c2
    c3 = c3
    Daemons = {d1, d2}
    Callers = {c1, c3}
    Home <- Homes
    Target <- Targets
    Kinds = {"edit", "status", "endpoint"}
INVARIANTS
    NoCircularWait
CHECK_DEADLOCK FALSE
