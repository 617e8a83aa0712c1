SPECIFICATION Spec
CONSTANTS
    Clusters = {c1}
    Readers = {r1}
    Detectors = {d1, d2}
    TTL = 1
    MaxChanges = 1
CHECK_DEADLOCK FALSE
INVARIANTS
    UnreachableIsMarked
