SPECIFICATION FairSpec
CONSTANTS
    deleted = deleted
    roles = roles
    session = session
    future = future
    garbled = garbled
    truncated = truncated
    Starters = {s1, s2}
    Stoppers = {t1}
    Workers = {w1, w2}
    Messages = {deleted, session, garbled}
    Notification <- MCNotification
    Handlers = {"UserDeleted", "UserMetadataUpdated"}
    MaxCrashes = 0
PROPERTIES StopEndsReceive EventuallySettled
CHECK_DEADLOCK FALSE
