SPECIFICATION Spec
CONSTANTS
    Users = {u1, u2}
    Emails = {e1, e2}
    Clusters = {c1, c2}
    Names = {n1}
    None = None
    MaxChanges = 2
    MaxOps = 2
CHECK_DEADLOCK FALSE
INVARIANT ExportOpensCredentials
