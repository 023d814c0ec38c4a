SPECIFICATION Spec
CONSTANTS
    short = short
    everlasting = everlasting
    Callers = {k1}
    Tokens = {everlasting}
    Expiry <- MCExpiry
    None = None
    TTL = 2
    MaxLatency = 1
    MaxTime = 3
SYMMETRY Symmetry
INVARIANTS NoExpiryIsZero
CHECK_DEADLOCK FALSE
