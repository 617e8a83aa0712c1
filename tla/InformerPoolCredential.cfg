SPECIFICATION Spec
CONSTANTS
    Clusters = {c1}
    Viewers = {v1, v2}
    Admins = {a1}
    MaxEntries = 3
    MaxVersion = 2
CHECK_DEADLOCK FALSE
INVARIANTS
    NoneWatchesWithOldCredential
