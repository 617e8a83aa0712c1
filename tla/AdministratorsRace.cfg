SPECIFICATION Spec
CONSTANTS
    Users = {u1, u2, u3}
    Updates = {q1, q2}
    Setups = {s1, s2}
    Nobody = Nobody
CHECK_DEADLOCK FALSE
INVARIANTS
    LastAdminStays
