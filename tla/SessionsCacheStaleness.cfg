SPECIFICATION Spec
CONSTANTS
    Callers = {k1, k2}
    Sessions = {s}
    Users = {u1, u2}
    None = None
    TTL = 1
    MaxLatency = 1
    MaxTime = 4
SYMMETRY Symmetry
INVARIANTS TypeOK ChangesAreSeen ReadYourSignOut
PROPERTIES ImplementsRecentReads
CHECK_DEADLOCK FALSE
