SPECIFICATION GuardSpec
CONSTANTS
    short = short
    user = user
    NoToken = NoToken
    Callers = {k1, k2}
    Tokens = {NoToken, short, user}
    UserTokens = {user}
    Expiry <- MCExpiry
    Requests <- MCRequests
    Scope <- MCScope
    Granted <- MCGranted
    Covers <- MCCovers
    None = None
    TTL = 1
    MaxLatency = 0
    MaxTime = 4
SYMMETRY Symmetry
INVARIANTS GuardTypeOK AdmittedIsEntitled DenialIsDeserved
CHECK_DEADLOCK FALSE
