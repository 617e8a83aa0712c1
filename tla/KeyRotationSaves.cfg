SPECIFICATION Spec
CONSTANTS
    Credentials = {c1, c2}
    Factors = {f1}
    Others = {o1}
    None = None
    MaxContent = 1
    MaxRuns = 2
CHECK_DEADLOCK FALSE
INVARIANT SavesSurvive
