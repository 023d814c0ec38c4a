SPECIFICATION Spec
CONSTANTS
    Logins = {l1, l2}
    Callbacks = {c1, c2}
    Approvals = {once}
    Other = Other
    None = None
    Stores <- MCStores
SYMMETRY Symmetry
INVARIANTS TypeOK SuccessIsOwnLogin SecretsAreGone UndisturbedLoginMatches
PROPERTY ImplementsSignIns
CHECK_DEADLOCK FALSE
