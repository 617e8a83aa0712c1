SPECIFICATION MCSpec
CONSTANTS
    QueueSize = 2
    BatchSize = 2
    MaxTries = 2
    MaxOffered = 4
    Clusters = {"c1"}
    Viewers = {"v1", "v2"}
    Admins = {"a1"}
    MaxEntries = 2
    MaxVersion = 2
    Forwards = {"f1", "f2", "f3"}
    From = 1
    To = 2
    MaxSent = 2
CHECK_DEADLOCK FALSE
INVARIANTS
    TypesOK
    Conservation
    BoundedCopies
    ClosingAccounts
    OldCredentialGoes
    HoldingsAccounted
PROPERTIES
    ImplementsAuditDelivery
    BackgroundSettles
