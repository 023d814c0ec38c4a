SPECIFICATION FairSpec
CONSTANTS
    before = before
    after = after
    workspace = workspace
    instance = instance
    Replicas = {before, after}
    Resources = {workspace, instance}
    Offer <- MCOffer
    Old = Old
    None = None
INVARIANTS TypeOK
PROPERTIES CompletionReplaces ImplementsRegistrations TypeIsReleased
CHECK_DEADLOCK FALSE
