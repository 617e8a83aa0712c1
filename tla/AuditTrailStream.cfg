SPECIFICATION Spec
CONSTANTS
    Requests = {r1}
    Saves = {s1, s2}
    Startup = startup
    Shutdown = shutdown
    Dests = {d1, d2}
    Streams = {TRUE, FALSE}
    None = None
CHECK_DEADLOCK FALSE
INVARIANTS
    SaveTakesEffect
