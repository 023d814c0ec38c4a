SPECIFICATION Spec
CONSTANTS
    Logins = {l1}
    Callbacks = {c1, c2}
    Approvals = {once}
    Other = Other
    None = None
    Stores <- ReliableStores
SYMMETRY Symmetry
INVARIANTS StateUsedOnce
CHECK_DEADLOCK FALSE
