SPECIFICATION MCSpec
CONSTANTS
    Keys = {"a", "b"}
    Proxies = {"p"}
    Garbage = "g"
    Forged <- MCForged
    Routes <- MCRoutes
    Cost = 2
    Full = 3
    IdleTTL = 3
    Every = 1
    Nothing = Nothing
    Shells = {"x", "y"}
    Places = {"a", "b"}
    ShellFaults = 2
    ShellMoves = 1
    Attempts = {"d1", "d2"}
    MaxNow = 2
    PodChanges = 1
    LostAnswers = 1
    Commands <- MCCommands
    MaxFrames = 3
    MaxBytes = 1
    MaxTyped = 3
    TranscriptLimit = 3
    Pastes <- MCPastes
    Servers = {"s1", "s2"}
    Blocked = "blocked"
    Unresolved = "unresolved"
    NoName = ""
    RowChanges = 3
    RowFaults = 1
    Requests = {"r"}
    Objects = {"o1", "o2"}
    MaxWrites = 3
    GateChanges = 1
    Callers = {"k1", "k2"}
    Counts = {0, 2, 3}
    MaxCalls = 4
    ScaleFaults = 1
    Movable = {"p1", "p2"}
    Daemons = {"d"}
    DrainFaults = 1
    DrainChanges = 5
    Fields = {"f", "g"}
    Values = {1, 2}
    Stamp = "stamp"
    Hash = Hash
    MaxRevision = 3
    Searched = {"c1", "c2"}
    AskedKinds = {"k1", "k2"}
    HotKinds = {"k1"}
    Lists <- MCLists
    PerKind = 2
    MaxHits = 2
    Judged <- MCPods
    Spaces = {"n1", "n2"}
    Picks <- MCPicks
    TableBuffer = 1
    TableChanges = 2
    TableFaults = 1
    Logged = {"c"}
    LogStores = {"elastic", "loki"}
    LogChanges = 2
    LogFaults = 1
    Panels = {"r"}
    PromServers = {1, 2}
    PromServices = {"v"}
    FoundTTL = 2
    EmptyTTL = 1
    PanelChanges = 3
    Carded = {"c1"}
    Pages = {"r1", "r2"}
    FleetDetectors = {"d"}
    CardTTL = 1
    CardChanges = 1
    LogPods = {1, 2, 3}
    PodLogs <- MCLogs
    StoredRules <- MCStored
    PodParents <- MCParents
    Overviewed <- MCOverviews
    PodContainers = {"a", "b"}
    PodItself = "pod"
    LostQueries <- MCFailures
CHECK_DEADLOCK FALSE
INVARIANTS
    TypesOK
    KeyIsTheClient
    PodsAccounted
    SessionsTell
    FindingsTell
    SearchAccounts
    VerdictsAgree
    PanelsAgree
    WritesGuarded
    DrainAccounts
PROPERTIES
    ImplementsTokenBuckets
    ViewsSettle
    ViewsKept
    StatusSettles
    ShellsEnd
    UndoLands
