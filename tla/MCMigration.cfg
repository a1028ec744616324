\* Starts on old databases, any of which may be ended at any step.
SPECIFICATION MigrationSpec
CONSTANTS
    a1 = a1
    v1 = v1
    v2 = v2
    Assets = {a1}
    Owners = {v1, v2}
    OldVersions = {5, 10, 12, 23}
    MaxCrashes = 2
INVARIANT MigrationIsAdditive
CHECK_DEADLOCK FALSE
