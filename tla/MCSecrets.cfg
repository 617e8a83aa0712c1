SPECIFICATION MCSpec
CONSTANTS
    Credentials = {k1, k2}
    Factors = {f1}
    Others = {}
    None = None
    MaxContent = 1
    MaxRuns = 2
    Users = {m1, m2}
    Emails = {m3, m4}
    Clusters = {m5, m6}
    Names = {n1}
    MaxChanges = 3
    MaxOps = 2
    Requests = {}
    Saves = {m3, m4}
    Startup = startup
    Shutdown = shutdown
    Dests = {m5, m6}
    Streams = {FALSE}
SYMMETRY Symmetry
CHECK_DEADLOCK FALSE
INVARIANTS
    TypesOK
    ValuesKept
    TouchedOnce
    DoneMeansRewrapped
    ShippersAccounted
    RunningMatchesStored
PROPERTIES
    BackupKept
