SPECIFICATION Spec
CONSTANTS
    deleted = deleted
    roles = roles
    session = session
    future = future
    garbled = garbled
    truncated = truncated
    Starters = {s1, s2}
    Stoppers = {t1, t2}
    Workers = {w1, w2}
    Messages = {deleted, roles, garbled, truncated}
    Notification <- MCNotification
    Handlers = {"UserDeleted", "UserMetadataUpdated"}
    MaxCrashes = 1
INVARIANTS TypeOK OneReceiver QuietAfterReturn NoNotificationLost
PROPERTIES NeverRevived ImplementsQueue
CHECK_DEADLOCK FALSE
