SPECIFICATION Spec
CONSTANTS
    deleted = deleted
    roles = roles
    session = session
    future = future
    garbled = garbled
    truncated = truncated
    Starters = {s1}
    Stoppers = {t1}
    Workers = {w1}
    Messages = {deleted}
    Notification <- MCNotification
    Handlers = {"UserDeleted"}
    MaxCrashes = 0
INVARIANTS StopStopsReceiving
CHECK_DEADLOCK FALSE
