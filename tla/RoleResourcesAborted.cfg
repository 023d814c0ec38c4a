SPECIFICATION Spec
CONSTANTS
    before = before
    after = after
    workspace = workspace
    instance = instance
    Replicas = {before, after}
    Resources = {workspace, instance}
    Offer <- MCOffer
    Old = Old
    None = None
INVARIANTS AbortIsReported
CHECK_DEADLOCK FALSE
