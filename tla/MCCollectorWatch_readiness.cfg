SPECIFICATION Spec
CONSTANTS
    s1 = s1
    s2 = s2
    o1 = o1
    Streams <- MCStreams
    Objects <- MCObjects
    Scopes <- MCFullScope
    InitialScopes <- MCFullScope
    MaxRevision = 3
    MaxReconnectAttempts = 1
    Faults = {"database"}
INVARIANTS
    NotReadyOnceFailed
CHECK_DEADLOCK FALSE
