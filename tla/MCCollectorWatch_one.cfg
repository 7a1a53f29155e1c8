SPECIFICATION FairSpec
CONSTANTS
    s1 = s1
    s2 = s2
    o1 = o1
    Streams <- MCStreams
    Objects <- MCObjects
    Scopes <- MCMaybeScope
    InitialScopes <- MCMaybeScope
    MaxRevision = 3
    MaxReconnectAttempts = 1
    Faults = {"crash", "stop", "database", "kubernetes", "expiry", "malformed", "redelivery"}
INVARIANTS
    CheckpointCovered
PROPERTIES
    ImplementsLedger
    NothingSkipped
    CollectsOrFails
CHECK_DEADLOCK FALSE
