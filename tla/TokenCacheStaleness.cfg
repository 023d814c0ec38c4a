SPECIFICATION Spec
CONSTANTS
    short = short
    everlasting = everlasting
    Callers = {k1, k2}
    Tokens = {short, everlasting}
    Expiry <- MCExpiry
    None = None
    TTL = 1
    MaxLatency = 1
    MaxTime = 5
SYMMETRY Symmetry
INVARIANTS TypeOK RevocationIsSeen ExpiryIsSeen EverlastingIsAsked
PROPERTIES ImplementsStaleReads
CHECK_DEADLOCK FALSE
