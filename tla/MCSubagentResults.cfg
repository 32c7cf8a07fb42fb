SPECIFICATION FairSpec
CONSTANTS
    s1 = s1
    s2 = s2
    Settlers = {s1, s2}
    Actions = {"dismiss"}
    Dispositions = {"awaited", "follow_up", "silent"}
    MaxNames = 4
    MaxContent = 2
    MaxCrashes = 1
CHECK_DEADLOCK FALSE
INVARIANTS
    RemovedWasAcknowledged
    AckIsTrusted
    LogsOutliveResult
PROPERTIES
    FollowUpSettles
