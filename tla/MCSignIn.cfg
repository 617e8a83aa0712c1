SPECIFICATION MCSpec
CONSTANTS
    Attempts = {a1, a2, a3}
    MaxAttempts = 2
    MaxLockouts = 2
    Ladder <- MCLadder
    DefaultLock = 1
    MaxNow = 4
    MaxFailures = 6
    Users = {u1, u2, u3}
    Updates = {q1, q2}
    Setups = {w1, w2}
    Nobody = Nobody
    Requests = {r1, r2}
    CodesPerSet = 2
    MaxSecrets = 2
    MaxSets = 3
    MaxSignIns = 2
    MaxSessions = 3
    MaxEra = 1
SYMMETRY Symmetry
CHECK_DEADLOCK FALSE
INVARIANTS
    TypesOK
    FailureLedger
    BlockedAtLimit
    AdministratorsInOrder
    CodeSingleUse
    SetsInOrder
    SessionsInOrder
    RevocationHolds
PROPERTIES
    BlockOutlivesSignIn
