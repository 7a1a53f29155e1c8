SPECIFICATION FairSpec
CONSTANTS
    s1 = s1
    s2 = s2
    o1 = o1
    Streams <- MCStreams
    Objects <- MCObjects
    Scopes <- MCSomeScopes
    InitialScopes <- MCSomeScopes
    MaxRevision = 1
    MaxReconnectAttempts = 0
    Faults = {"scope", "stop", "database"}
PROPERTIES
    StoredWhenApproved
    OneLoopPerStream
    StopCompletes
    FollowsScope
CHECK_DEADLOCK FALSE
